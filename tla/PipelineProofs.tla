---------------------------- MODULE PipelineProofs ----------------------------
(***************************************************************************)
(* Proofs about Pipeline, for every capacity of the channel, every number  *)
(* of frames waiting in the kernel and every number of frames followed.    *)
(*                                                                         *)
(* The invariant says of the way from the kernel to the tables that each   *)
(* of its places holds the frames in the order they arrived, that what is  *)
(* in a place nearer to the tables arrived before what is in one farther   *)
(* away, and that what left the way is nowhere else.                       *)
(***************************************************************************)
EXTENDS Pipeline, SequenceTheorems, TLAPS

(* What a step of the pipeline does to the frames in a place. *)
Ascending(s) ==
  \A i, j \in DOMAIN s : i < j /\ s[i] \in Tags /\ s[j] \in Tags => s[i] < s[j]
Before(S, T) == \A x \in S, y \in T : x < y

LEMMA EmptyPlace == Elems(<< >>) = {} /\ TagsIn(<< >>) = {} /\ Ascending(<< >>)
BY DEF Elems, TagsIn, Ascending

LEMMA TagsInType ==
  ASSUME NEW s \in Seq(Frame)
  PROVE  TagsIn(s) \subseteq Tags /\ TagsIn(s) \subseteq Nat
BY PipelineAssumption DEF TagsIn, Tags

LEMMA AppendPlace ==
  ASSUME NEW s \in Seq(Frame), NEW f \in Frame
  PROVE  /\ TagsIn(Append(s, f)) = TagsIn(s) \cup ({f} \cap Tags)
         /\ Ascending(s) /\ Before(TagsIn(s), {f} \cap Tags) => Ascending(Append(s, f))
<1>1. /\ Append(s, f) \in Seq(Frame) /\ Len(Append(s, f)) = Len(s) + 1 /\ Len(s) \in Nat
      /\ DOMAIN s = 1 .. Len(s) /\ DOMAIN Append(s, f) = 1 .. Len(s) + 1
      /\ Append(s, f)[Len(s) + 1] = f
      /\ \A i \in 1 .. Len(s) : Append(s, f)[i] = s[i]
  OBVIOUS
<1>2. TagsIn(Append(s, f)) = TagsIn(s) \cup ({f} \cap Tags)
  <2>1. Elems(Append(s, f)) = Elems(s) \cup {f}
    BY <1>1 DEF Elems
  <2> QED BY <2>1 DEF TagsIn
<1>3. ASSUME Ascending(s), Before(TagsIn(s), {f} \cap Tags)
      PROVE  Ascending(Append(s, f))
  <2>1. \A i \in 1 .. Len(s) : s[i] \in Tags /\ f \in Tags => s[i] < f
    BY <1>1, <1>3 DEF Before, TagsIn, Elems
  <2> QED BY <1>1, <1>3, <2>1 DEF Ascending
<1> QED BY <1>2, <1>3

LEMMA HeadPlace ==
  ASSUME NEW s \in Seq(Frame), s # << >>
  PROVE  /\ Head(s) \in Frame /\ Tail(s) \in Seq(Frame) /\ Len(Tail(s)) = Len(s) - 1
         /\ TagsIn(s) = ({Head(s)} \cap Tags) \cup TagsIn(Tail(s))
         /\ Ascending(s) => /\ Ascending(Tail(s))
                            /\ Before({Head(s)} \cap Tags, TagsIn(Tail(s)))
<1>1. /\ Tail(s) \in Seq(Frame) /\ Len(Tail(s)) = Len(s) - 1 /\ Len(s) \in Nat /\ Len(s) > 0
      /\ DOMAIN s = 1 .. Len(s) /\ DOMAIN Tail(s) = 1 .. Len(s) - 1
      /\ Head(s) = s[1] /\ s[1] \in Frame
      /\ \A i \in 1 .. Len(s) - 1 : Tail(s)[i] = s[i + 1]
  OBVIOUS
<1>2. TagsIn(s) = ({Head(s)} \cap Tags) \cup TagsIn(Tail(s))
  <2>1. Elems(s) = {Head(s)} \cup Elems(Tail(s))
    <3>1. \A i \in 1 .. Len(s) : i = 1 \/ (i - 1 \in 1 .. Len(s) - 1 /\ Tail(s)[i - 1] = s[i])
      BY <1>1
    <3>2. \A i \in 1 .. Len(s) - 1 : i + 1 \in 1 .. Len(s)
      BY <1>1
    <3>3. \A x \in Elems(s) : x = Head(s) \/ x \in Elems(Tail(s))
      <4> TAKE x \in Elems(s)
      <4>1. PICK i \in 1 .. Len(s) : x = s[i]
        BY <1>1 DEF Elems
      <4>2. CASE i = 1
        BY <1>1, <4>1, <4>2
      <4>3. CASE i # 1
        <5>1. i - 1 \in DOMAIN Tail(s) /\ Tail(s)[i - 1] = x
          BY <1>1, <3>1, <4>1, <4>3
        <5> QED BY <5>1 DEF Elems
      <4> QED BY <4>2, <4>3
    <3>4. Head(s) \in Elems(s) /\ \A x \in Elems(Tail(s)) : x \in Elems(s)
      BY <1>1, <3>2 DEF Elems
    <3> QED BY <3>3, <3>4
  <2> QED BY <2>1 DEF TagsIn
<1>3. ASSUME Ascending(s)
      PROVE  Ascending(Tail(s)) /\ Before({Head(s)} \cap Tags, TagsIn(Tail(s)))
  <2>1. Ascending(Tail(s))
    BY <1>1, <1>3 DEF Ascending
  <2>2. \A i \in 1 .. Len(s) - 1 : Head(s) \in Tags /\ Tail(s)[i] \in Tags => Head(s) < Tail(s)[i]
    BY <1>1, <1>3 DEF Ascending
  <2> QED BY <1>1, <2>1, <2>2 DEF Before, TagsIn, Elems
<1> QED BY <1>1, <1>2, <1>3

LEMMA SplitPlace ==
  ASSUME NEW s \in Seq(Frame), NEW n \in 1 .. Len(s)
  PROVE  LET front == SubSeq(s, 1, n)
             rest == SubSeq(s, n + 1, Len(s))
         IN  /\ front \in Seq(Frame) /\ rest \in Seq(Frame) /\ Len(rest) <= Len(s)
             /\ TagsIn(s) = TagsIn(front) \cup TagsIn(rest)
             /\ Ascending(s) => /\ Ascending(front) /\ Ascending(rest)
                                /\ Before(TagsIn(front), TagsIn(rest))
<1> DEFINE front == SubSeq(s, 1, n)
           rest == SubSeq(s, n + 1, Len(s))
<1>1. /\ Len(s) \in Nat /\ DOMAIN s = 1 .. Len(s) /\ n \in Nat /\ n <= Len(s) /\ 1 <= n
      /\ \A i \in 1 .. Len(s) : s[i] \in Frame
  OBVIOUS
<1>2. /\ front \in Seq(Frame) /\ Len(front) = n /\ DOMAIN front = 1 .. n
      /\ \A i \in 1 .. n : front[i] = s[i]
  BY <1>1
<1>3. /\ rest \in Seq(Frame) /\ Len(rest) = Len(s) - n /\ DOMAIN rest = 1 .. Len(s) - n
      /\ \A i \in 1 .. Len(s) - n : rest[i] = s[i + n]
  <2>1. \A i \in n + 1 .. Len(s) : s[i] \in Frame
    BY <1>1
  <2>2. /\ rest \in Seq(Frame)
        /\ Len(rest) = IF n + 1 <= Len(s) THEN Len(s) - (n + 1) + 1 ELSE 0
        /\ \A i \in 1 .. Len(s) - (n + 1) + 1 : rest[i] = s[n + 1 + i - 1]
    BY <1>1, <2>1, SubSeqProperties
  <2> HIDE DEF rest
  <2>3. Len(rest) = Len(s) - n /\ DOMAIN rest = 1 .. Len(s) - n
    <3>1. Len(rest) = Len(s) - n
      <4>1. Len(rest) = IF n + 1 <= Len(s) THEN Len(s) - (n + 1) + 1 ELSE 0
        BY <2>2
      <4>2. n \in Nat /\ Len(s) \in Nat /\ n <= Len(s)
        BY <1>1
      <4>3. (IF n + 1 <= Len(s) THEN Len(s) - (n + 1) + 1 ELSE 0) = Len(s) - n
        BY <4>2
      <4> QED BY <4>1, <4>3
    <3>2. DOMAIN rest = 1 .. Len(rest)
      BY <2>2
    <3> QED BY <3>1, <3>2
  <2>4. \A i \in 1 .. Len(s) - n : i \in 1 .. Len(s) - (n + 1) + 1 /\ n + 1 + i - 1 = i + n
    BY <1>1
  <2> QED BY <2>2, <2>3, <2>4
<1> HIDE DEF front, rest
<1>4. TagsIn(s) = TagsIn(front) \cup TagsIn(rest)
  <2>1. \A i \in 1 .. Len(s) : i \in 1 .. n \/ (i - n \in 1 .. Len(s) - n /\ rest[i - n] = s[i])
    BY <1>1, <1>3
  <2>2. \A i \in 1 .. Len(s) - n : i + n \in 1 .. Len(s)
    BY <1>1
  <2>3. Elems(s) = Elems(front) \cup Elems(rest)
    <3>1. \A x \in Elems(s) : x \in Elems(front) \/ x \in Elems(rest)
      <4> TAKE x \in Elems(s)
      <4>1. PICK i \in 1 .. Len(s) : x = s[i]
        BY <1>1 DEF Elems
      <4>2. CASE i \in 1 .. n
        BY <1>2, <4>1, <4>2 DEF Elems
      <4>3. CASE i - n \in DOMAIN rest /\ rest[i - n] = s[i]
        BY <4>1, <4>3 DEF Elems
      <4> QED BY <1>3, <2>1, <4>2, <4>3
    <3>2. \A x \in Elems(front) : x \in Elems(s)
      BY <1>1, <1>2 DEF Elems
    <3>3. \A x \in Elems(rest) : x \in Elems(s)
      BY <1>1, <1>3, <2>2 DEF Elems
    <3> QED BY <3>1, <3>2, <3>3
  <2> QED BY <2>3 DEF TagsIn
<1>5. ASSUME Ascending(s)
      PROVE  Ascending(front) /\ Ascending(rest) /\ Before(TagsIn(front), TagsIn(rest))
  <2>1. Ascending(front)
    BY <1>1, <1>2, <1>5 DEF Ascending
  <2>2. Ascending(rest)
    <3> SUFFICES ASSUME NEW i \in 1 .. Len(s) - n, NEW j \in 1 .. Len(s) - n, i < j,
                        rest[i] \in Tags, rest[j] \in Tags
                 PROVE  rest[i] < rest[j]
      BY <1>3 DEF Ascending
    <3>1. i + n \in DOMAIN s /\ j + n \in DOMAIN s /\ i + n < j + n
      BY <1>1
    <3>2. rest[i] = s[i + n] /\ rest[j] = s[j + n]
      BY <1>3
    <3> QED BY <1>5, <3>1, <3>2 DEF Ascending
  <2>3. \A i \in 1 .. n, j \in 1 .. Len(s) - n :
          front[i] \in Tags /\ rest[j] \in Tags => front[i] < rest[j]
    <3> SUFFICES ASSUME NEW i \in 1 .. n, NEW j \in 1 .. Len(s) - n,
                        front[i] \in Tags, rest[j] \in Tags
                 PROVE  front[i] < rest[j]
      OBVIOUS
    <3>1. i \in DOMAIN s /\ j + n \in DOMAIN s /\ i < j + n
      BY <1>1
    <3>2. front[i] = s[i] /\ rest[j] = s[j + n]
      BY <1>2, <1>3
    <3> QED BY <1>5, <3>1, <3>2 DEF Ascending
  <2> QED BY <1>2, <1>3, <2>1, <2>2, <2>3 DEF Before, TagsIn, Elems
<1>6. Len(rest) <= Len(s)
  BY <1>1, <1>3
<1> QED BY <1>2, <1>3, <1>4, <1>5, <1>6, Zenon DEF front, rest

-----------------------------------------------------------------------------
(* The frames ingested, in hand, in the channel, read and waiting, those
   skipped, refused and lost, and how many arrived: what is nearer to the
   tables arrived before what is farther away, and everything is somewhere and
   only there. *)
InOrder(L, H, Q, B, W) ==
  /\ Before(L, H) /\ Before(L, Q) /\ Before(L, B) /\ Before(L, W)
  /\ Before(H, Q) /\ Before(H, B) /\ Before(H, W)
  /\ Before(Q, B) /\ Before(Q, W)
  /\ Before(B, W)

Whereabouts(L, H, Q, B, W, S, U, R, X, n) ==
  /\ InOrder(L, H, Q, B, W)
  /\ S \cap U = {} /\ S \cap R = {} /\ S \cap X = {}
  /\ U \cap R = {} /\ U \cap X = {} /\ R \cap X = {}
  /\ (S \cup U \cup R \cup X) \cap (L \cup H \cup Q \cup B \cup W) = {}
  /\ L \cup H \cup Q \cup B \cup W \cup S \cup U \cup R \cup X = 1 .. n

(* Frames arrive last ... *)
LEMMA WhenOneArrives ==
  ASSUME NEW L, NEW H, NEW Q, NEW B, NEW W, NEW S, NEW U, NEW R, NEW X, NEW n \in Nat,
         Whereabouts(L, H, Q, B, W, S, U, R, X, n)
  PROVE  Whereabouts(L, H, Q, B, W \cup {n + 1}, S, U, R, X, n + 1)
<1>1. \A x \in L \cup H \cup Q \cup B \cup W \cup S \cup U \cup R \cup X : x \in Nat /\ x <= n
  BY DEF Whereabouts
<1>2. InOrder(L, H, Q, B, W \cup {n + 1})
  BY <1>1 DEF Whereabouts, InOrder, Before
<1>3. 1 .. n + 1 = (1 .. n) \cup {n + 1}
  OBVIOUS
<1>4. n + 1 \notin S \cup U \cup R \cup X
  BY <1>1
<1> QED BY <1>2, <1>3, <1>4 DEF Whereabouts

(* ... are read first come first, and what is left of them waits on or is
   skipped ... *)
LEMMA WhenSomeAreRead ==
  ASSUME NEW L, NEW H, NEW Q, NEW B, NEW W, NEW S, NEW U, NEW R, NEW X, NEW n \in Nat, NEW F, NEW V,
         Whereabouts(L, H, Q, B, W, S, U, R, X, n), B = {}, W = F \cup V, Before(F, V)
  PROVE  /\ Whereabouts(L, H, Q, F, V, S, U, R, X, n)
         /\ Whereabouts(L, H, Q, F, {}, S \cup V, U, R, X, n)
<1>1. \A x \in 1 .. n : x \in Nat /\ ~(x < x)
  OBVIOUS
<1>2. F \cap V = {} /\ (L \cup H \cup Q) \cap V = {}
  BY <1>1 DEF Whereabouts, InOrder, Before
<1>3. InOrder(L, H, Q, F, V) /\ InOrder(L, H, Q, F, {})
  BY DEF Whereabouts, InOrder, Before
<1> QED BY <1>2, <1>3 DEF Whereabouts

(* ... are passed over, or offered, and accepted or refused ... *)
LEMMA WhenOneIsOffered ==
  ASSUME NEW L, NEW H, NEW Q, NEW B, NEW W, NEW S, NEW U, NEW R, NEW X, NEW n \in Nat, NEW F, NEW C,
         Whereabouts(L, H, Q, B, W, S, U, R, X, n), B = F \cup C, Before(F, C)
  PROVE  /\ Whereabouts(L, H, Q \cup F, C, W, S, U, R, X, n)
         /\ Whereabouts(L, H, Q, C, W, S, U, R \cup F, X, n)
         /\ Whereabouts(L, H, Q, C, W, S, U \cup F, R, X, n)
<1>1. \A x \in 1 .. n : x \in Nat /\ ~(x < x)
  OBVIOUS
<1>2. F \cap C = {} /\ (L \cup H \cup Q \cup W) \cap F = {}
  BY <1>1 DEF Whereabouts, InOrder, Before
<1>3. InOrder(L, H, Q \cup F, C, W) /\ InOrder(L, H, Q, C, W)
  BY DEF Whereabouts, InOrder, Before
<1> QED BY <1>2, <1>3 DEF Whereabouts

(* ... received ... *)
LEMMA WhenOneIsReceived ==
  ASSUME NEW L, NEW H, NEW Q, NEW B, NEW W, NEW S, NEW U, NEW R, NEW X, NEW n \in Nat, NEW F, NEW C,
         Whereabouts(L, H, Q, B, W, S, U, R, X, n), H = {}, Q = F \cup C, Before(F, C)
  PROVE  Whereabouts(L, F, C, B, W, S, U, R, X, n)
<1>1. InOrder(L, F, C, B, W)
  BY DEF Whereabouts, InOrder, Before
<1> QED BY <1>1 DEF Whereabouts

(* ... and ingested, or lost with the channel. *)
LEMMA WhenOneIsIngested ==
  ASSUME NEW L, NEW H, NEW Q, NEW B, NEW W, NEW S, NEW U, NEW R, NEW X, NEW n \in Nat,
         Whereabouts(L, H, Q, B, W, S, U, R, X, n)
  PROVE  Whereabouts(L \cup H, {}, Q, B, W, S, U, R, X, n)
<1>1. InOrder(L \cup H, {}, Q, B, W)
  BY DEF Whereabouts, InOrder, Before
<1> QED BY <1>1 DEF Whereabouts

LEMMA WhenTheChannelIsDropped ==
  ASSUME NEW L, NEW H, NEW Q, NEW B, NEW W, NEW S, NEW U, NEW R, NEW X, NEW n \in Nat,
         Whereabouts(L, H, Q, B, W, S, U, R, X, n)
  PROVE  Whereabouts(L, H, {}, B, W, S, U, R, X \cup Q, n)
<1>1. \A x \in 1 .. n : x \in Nat /\ ~(x < x)
  OBVIOUS
<1>2. (L \cup H \cup B \cup W) \cap Q = {}
  BY <1>1 DEF Whereabouts, InOrder, Before
<1>3. InOrder(L, H, {}, B, W)
  BY DEF Whereabouts, InOrder, Before
<1> QED BY <1>2, <1>3 DEF Whereabouts

-----------------------------------------------------------------------------
HandIsBusy == hand = None <=> ingest # "ingesting"

Settled ==
  Whereabouts(Elems(log), InHand, TagsIn(queue), TagsIn(batch), TagsIn(wire),
              skipped, undecoded, refused, lost, tagged)

(* Types, and what a step relies on: *)
IInv ==
  /\ TypeOK
  /\ HandIsBusy
  /\ Ascending(queue) /\ Ascending(batch) /\ Ascending(wire) /\ Ascending(log)
  /\ Settled

(* The variables the frames are in, and the steps that leave them alone. *)
way == <<wire, tagged, batch, queue, hand, log, skipped, undecoded, refused, lost>>

LEMMA InitIInv == Init => IInv
<1> SUFFICES ASSUME Init PROVE IInv
  OBVIOUS
<1>1. {skipped, undecoded, refused, lost, shown, screen} \subseteq SUBSET Tags
  BY DEF Init
<1>2. src \in {"opening", "reading", "checking", "ended"}
  BY DEF Init, FirstStep
<1>3. /\ wire \in Seq(Frame) /\ Len(wire) <= WireCap /\ batch \in Seq(Frame)
      /\ queue \in Seq(Frame) /\ Len(queue) <= Capacity /\ log \in Seq(Tags)
  BY PipelineAssumption DEF Init
<1>4. tagged \in 0 .. TagCount
  BY PipelineAssumption DEF Init
<1>5. TypeOK
  BY <1>1, <1>2, <1>3, <1>4 DEF Init, TypeOK
<1>6. HandIsBusy
  BY DEF Init, HandIsBusy
<1>7. Ascending(queue) /\ Ascending(batch) /\ Ascending(wire) /\ Ascending(log)
  BY EmptyPlace DEF Init
<1>8. Settled
  <2>1. InHand = {}
    BY DEF Init, InHand, None, Tags
  <2>2. 1 .. 0 = {}
    OBVIOUS
  <2> QED BY <2>1, <2>2, EmptyPlace DEF Init, Settled, Whereabouts, InOrder, Before
<1> QED BY <1>5, <1>6, <1>7, <1>8 DEF IInv

(* What an action lemma starts from. *)
LEMMA Facts ==
  ASSUME IInv
  PROVE  /\ wire \in Seq(Frame) /\ batch \in Seq(Frame) /\ queue \in Seq(Frame) /\ log \in Seq(Frame)
         /\ tagged \in Nat /\ tagged <= TagCount /\ TagCount \in Nat
         /\ Settled
<1>1. Seq(Tags) \subseteq Seq(Frame)
  BY DEF Frame
<1> QED BY <1>1, PipelineAssumption DEF IInv, TypeOK

LEMMA ArriveStep ==
  ASSUME IInv, Arrive, UNCHANGED backend
  PROVE  IInv' /\ [Feed!Next]_<<tagged, UnderWay, log>>
<1>1. PICK f \in {Plain, tagged + 1} \cap Frame :
        wire' = Append(wire, f) /\ tagged' = IF f = Plain THEN tagged ELSE f
  BY DEF Arrive
<1>2. /\ UNCHANGED <<backend, src, batch, queue, ingest, hand, log, skipped, undecoded, refused, lost>>
      /\ UNCHANGED <<snapper, shown, screen, paused, cancelled, main>>
      /\ Len(wire) < WireCap
  BY DEF Arrive, ingestion, history, display, control
<1>3. /\ wire \in Seq(Frame) /\ tagged \in Nat /\ TagCount \in Nat /\ tagged <= TagCount /\ Settled
      /\ f \in Frame /\ WireCap \in Nat
  BY <1>1, Facts, PipelineAssumption
<1>4. TypeOK'
  <2>1. wire' \in Seq(Frame) /\ Len(wire') <= WireCap
    BY <1>1, <1>2, <1>3
  <2>2. tagged' \in 0 .. TagCount
    BY <1>1, <1>3 DEF Frame, Tags, Plain
  <2> QED BY <1>2, <2>1, <2>2 DEF IInv, TypeOK
<1>5. HandIsBusy'
  BY <1>2 DEF IInv, HandIsBusy
<1>6. UNCHANGED <<TagsIn(queue), TagsIn(batch), Elems(log), InHand>>
  BY <1>2 DEF TagsIn, Elems, InHand
<1>7. CASE f = Plain
  <2>1. {f} \cap Tags = {} /\ tagged' = tagged
    BY <1>1, <1>7 DEF Plain, Tags
  <2>2. Before(TagsIn(wire), {f} \cap Tags)
    BY <2>1 DEF Before
  <2>3. TagsIn(wire)' = TagsIn(wire) /\ (Ascending(wire) => Ascending(wire)')
    <3>1. TagsIn(wire') = TagsIn(wire) \cup ({f} \cap Tags)
      BY <1>1, <1>3, AppendPlace
    <3>2. Ascending(wire) => Ascending(wire')
      BY <1>1, <1>3, <2>2, AppendPlace
    <3> QED BY <2>1, <3>1, <3>2
  <2>4. Settled' /\ UnderWay' = UnderWay
    <3>1. Settled'
      BY <1>2, <1>3, <1>6, <2>1, <2>3, Zenon DEF Settled
    <3>2. UnderWay' = UnderWay
      BY <1>6, <2>3, Zenon DEF UnderWay
    <3> QED BY <3>1, <3>2
  <2>5. Ascending(wire)' /\ Ascending(queue)' /\ Ascending(batch)' /\ Ascending(log)'
    BY <1>2, <2>3 DEF IInv, Ascending
  <2> QED BY <1>2, <1>4, <1>5, <2>1, <2>4, <2>5 DEF IInv
<1>8. CASE f # Plain
  <2>1. f = tagged + 1 /\ {f} \cap Tags = {tagged + 1} /\ tagged' = tagged + 1
    BY <1>1, <1>8 DEF Frame
  <2>2. Before(TagsIn(wire), {f} \cap Tags)
    <3>1. TagsIn(wire) \subseteq 1 .. tagged
      BY <1>3 DEF Settled, Whereabouts
    <3> QED BY <1>3, <2>1, <3>1 DEF Before
  <2>3. TagsIn(wire)' = TagsIn(wire) \cup {tagged + 1} /\ (Ascending(wire) => Ascending(wire)')
    BY <1>1, <1>3, <2>1, <2>2, AppendPlace
  <2>4. Settled'
    <3>1. Whereabouts(Elems(log), InHand, TagsIn(queue), TagsIn(batch),
                      TagsIn(wire) \cup {tagged + 1}, skipped, undecoded, refused, lost, tagged + 1)
      BY <1>3, WhenOneArrives DEF Settled
    <3> QED BY <1>2, <1>6, <2>1, <2>3, <3>1 DEF Settled
  <2>5. Ascending(wire)' /\ Ascending(queue)' /\ Ascending(batch)' /\ Ascending(log)'
    BY <1>2, <2>3 DEF IInv, Ascending
  <2>6. Feed!Accept
    <3>1. UnderWay' = UnderWay \cup {tagged + 1}
      BY <1>6, <2>3 DEF UnderWay
    <3> QED BY <1>2, <2>1, <3>1 DEF Feed!Accept
  <2> QED BY <1>4, <1>5, <2>4, <2>5, <2>6 DEF IInv, Feed!Next
<1> QED BY <1>7, <1>8

(* A step that takes nothing in and lets nothing out can only lose frames. *)
LEMMA OnlyLosses ==
  ASSUME UNCHANGED <<tagged, log>>, UnderWay' \subseteq UnderWay
  PROVE  Feed!Lose
BY DEF Feed!Lose

LEMMA ReadStep ==
  ASSUME IInv, Read, UNCHANGED backend
  PROVE  IInv' /\ [Feed!Next]_<<tagged, UnderWay, log>>
<1>1. PICK n \in 1 .. Len(wire) :
        /\ batch' = SubSeq(wire, 1, n)
        /\ IF backend = "af_packet"
             THEN wire' = SubSeq(wire, n + 1, Len(wire)) /\ UNCHANGED skipped
             ELSE wire' = << >> /\ skipped' = skipped \cup TagsIn(SubSeq(wire, n + 1, Len(wire)))
  BY DEF Read
<1> DEFINE front == SubSeq(wire, 1, n)
           rest == SubSeq(wire, n + 1, Len(wire))
<1>2. /\ UNCHANGED <<backend, tagged, src, queue, ingest, hand, log, undecoded, refused, lost>>
      /\ UNCHANGED <<snapper, shown, screen, paused, cancelled, main>>
      /\ batch = << >>
  BY DEF Read, ingestion, display, control
<1>3. wire \in Seq(Frame) /\ tagged \in Nat /\ Settled /\ WireCap \in Nat
  BY Facts, PipelineAssumption
<1>4. /\ front \in Seq(Frame) /\ rest \in Seq(Frame) /\ Len(rest) <= Len(wire)
      /\ TagsIn(wire) = TagsIn(front) \cup TagsIn(rest)
      /\ Ascending(front) /\ Ascending(rest) /\ Before(TagsIn(front), TagsIn(rest))
  BY <1>3, SplitPlace DEF IInv
<1>5. /\ batch' = front
      /\ \/ wire' = rest /\ skipped' = skipped
         \/ wire' = << >> /\ skipped' = skipped \cup TagsIn(rest)
  BY <1>1
<1> HIDE DEF front, rest
<1>6. TypeOK'
  <2>1. Len(wire) \in Nat /\ Len(rest) \in Nat /\ Len(wire) <= WireCap
    BY <1>3, <1>4 DEF IInv, TypeOK
  <2>2. wire' \in Seq(Frame) /\ Len(wire') <= WireCap /\ batch' \in Seq(Frame)
    <3>1. CASE wire' = rest
      BY <1>3, <1>4, <1>5, <2>1, <3>1
    <3>2. CASE wire' = << >>
      <4>1. << >> \in Seq(Frame) /\ Len(<< >>) = 0 /\ 0 <= WireCap
        BY PipelineAssumption
      <4> QED BY <1>4, <1>5, <3>2, <4>1
    <3> QED BY <1>5, <3>1, <3>2
  <2>3. TagsIn(rest) \subseteq Tags
    BY DEF TagsIn
  <2>4. skipped' \in SUBSET Tags
    BY <1>5, <2>3 DEF IInv, TypeOK
  <2>5. {skipped, undecoded, refused, lost, shown, screen}' \subseteq SUBSET Tags
    BY <1>2, <2>4 DEF IInv, TypeOK
  <2> QED BY <1>2, <2>2, <2>5 DEF IInv, TypeOK
<1>7. HandIsBusy'
  BY <1>2 DEF IInv, HandIsBusy
<1>8. UNCHANGED <<TagsIn(queue), Elems(log), InHand>>
  BY <1>2 DEF TagsIn, Elems, InHand
<1>9. TagsIn(batch)' = TagsIn(front) /\ TagsIn(batch) = {}
  BY <1>2, <1>5, EmptyPlace
<1>10. Ascending(wire)' /\ Ascending(queue)' /\ Ascending(batch)' /\ Ascending(log)'
  <2>1. Ascending(wire')
    BY <1>4, <1>5, EmptyPlace
  <2>2. Ascending(batch')
    BY <1>4, <1>5
  <2> QED BY <1>2, <2>1, <2>2 DEF IInv
<1>11. /\ Whereabouts(Elems(log), InHand, TagsIn(queue), TagsIn(front), TagsIn(rest),
                      skipped, undecoded, refused, lost, tagged)
       /\ Whereabouts(Elems(log), InHand, TagsIn(queue), TagsIn(front), {},
                      skipped \cup TagsIn(rest), undecoded, refused, lost, tagged)
  BY <1>3, <1>4, <1>9, WhenSomeAreRead DEF Settled
<1>12. \/ TagsIn(wire)' = TagsIn(rest) /\ skipped' = skipped
       \/ TagsIn(wire)' = {} /\ skipped' = skipped \cup TagsIn(rest)
  BY <1>5, EmptyPlace
<1>13. Settled'
  BY <1>2, <1>8, <1>9, <1>11, <1>12 DEF Settled
<1>14. UnderWay' \subseteq UnderWay
  BY <1>4, <1>8, <1>9, <1>12 DEF UnderWay
<1> QED BY <1>2, <1>6, <1>7, <1>10, <1>13, <1>14, OnlyLosses DEF IInv, Feed!Next

LEMMA OfferStep ==
  ASSUME IInv, Offer, UNCHANGED backend
  PROVE  IInv' /\ [Feed!Next]_<<tagged, UnderWay, log>>
<1> DEFINE f == Head(batch)
           F == {f} \cap Tags
<1>1. /\ UNCHANGED <<backend, wire, tagged, ingest, hand, log, skipped, undecoded, lost>>
      /\ UNCHANGED <<snapper, shown, screen, paused, cancelled, main>>
      /\ batch # << >> /\ batch' = Tail(batch) /\ src' \in {"reading", "checking"}
  BY DEF Offer, NextRecord, ingestion, display, control
<1>2. \/ Len(queue) < Capacity /\ queue' = Append(queue, f) /\ refused' = refused
      \/ queue' = queue /\ refused' = refused \cup F
  BY DEF Offer
<1>3. batch \in Seq(Frame) /\ queue \in Seq(Frame) /\ tagged \in Nat /\ Settled /\ Capacity \in Nat
  BY Facts, PipelineAssumption
<1>4. /\ f \in Frame /\ Tail(batch) \in Seq(Frame)
      /\ TagsIn(batch) = F \cup TagsIn(Tail(batch))
      /\ Ascending(Tail(batch)) /\ Before(F, TagsIn(Tail(batch)))
  BY <1>1, <1>3, HeadPlace DEF IInv
<1> HIDE DEF f
<1>5. Before(TagsIn(queue), F)
  <2>1. Before(TagsIn(queue), TagsIn(batch))
    BY <1>3 DEF Settled, Whereabouts, InOrder
  <2> QED BY <1>4, <2>1 DEF Before
<1>6. /\ TagsIn(Append(queue, f)) = TagsIn(queue) \cup F /\ Ascending(Append(queue, f))
      /\ Append(queue, f) \in Seq(Frame) /\ Len(Append(queue, f)) = Len(queue) + 1
      /\ Len(queue) \in Nat
  BY <1>3, <1>4, <1>5, AppendPlace DEF IInv
<1> HIDE DEF F
<1>7. TypeOK'
  <2>1. queue' \in Seq(Frame) /\ Len(queue') <= Capacity
    <3>1. CASE Len(queue) < Capacity /\ queue' = Append(queue, f)
      BY <1>3, <1>6, <3>1
    <3>2. CASE queue' = queue
      BY <3>2 DEF IInv, TypeOK
    <3> QED BY <1>2, <3>1, <3>2
  <2>2. refused' \in SUBSET Tags
    BY <1>2 DEF IInv, TypeOK, F
  <2>3. {skipped, undecoded, refused, lost, shown, screen}' \subseteq SUBSET Tags
    BY <1>1, <2>2 DEF IInv, TypeOK
  <2>4. src' \in {"opening", "reading", "checking", "ended"}
    BY <1>1
  <2> QED BY <1>1, <1>4, <2>1, <2>3, <2>4 DEF IInv, TypeOK
<1>8. HandIsBusy'
  BY <1>1 DEF IInv, HandIsBusy
<1>9. UNCHANGED <<TagsIn(wire), Elems(log), InHand>>
  BY <1>1 DEF TagsIn, Elems, InHand
<1>10. Ascending(wire)' /\ Ascending(queue)' /\ Ascending(batch)' /\ Ascending(log)'
  <2>1. Ascending(queue')
    BY <1>2, <1>6 DEF IInv
  <2>2. Ascending(batch')
    BY <1>1, <1>4
  <2> QED BY <1>1, <2>1, <2>2 DEF IInv
<1>11. /\ Whereabouts(Elems(log), InHand, TagsIn(queue) \cup F, TagsIn(Tail(batch)),
                      TagsIn(wire), skipped, undecoded, refused, lost, tagged)
       /\ Whereabouts(Elems(log), InHand, TagsIn(queue), TagsIn(Tail(batch)),
                      TagsIn(wire), skipped, undecoded, refused \cup F, lost, tagged)
  BY <1>3, <1>4, WhenOneIsOffered DEF Settled, F
<1>12. /\ TagsIn(batch)' = TagsIn(Tail(batch))
       /\ \/ TagsIn(queue)' = TagsIn(queue) \cup F /\ refused' = refused
          \/ TagsIn(queue)' = TagsIn(queue) /\ refused' = refused \cup F
  BY <1>1, <1>2, <1>6
<1>13. Settled'
  BY <1>1, <1>9, <1>11, <1>12 DEF Settled
<1>14. TagsIn(batch) = F \cup TagsIn(Tail(batch))
  BY <1>4 DEF F
<1>15. UnderWay' \subseteq UnderWay
  BY <1>9, <1>12, <1>14 DEF UnderWay
<1> QED BY <1>1, <1>7, <1>8, <1>10, <1>13, <1>15, OnlyLosses DEF IInv, Feed!Next

LEMMA PassOverStep ==
  ASSUME IInv, PassOver, UNCHANGED backend
  PROVE  IInv' /\ [Feed!Next]_<<tagged, UnderWay, log>>
<1> DEFINE f == Head(batch)
           F == {f} \cap Tags
<1>1. /\ UNCHANGED <<backend, wire, tagged, queue, ingest, hand, log, skipped, refused, lost>>
      /\ UNCHANGED <<snapper, shown, screen, paused, cancelled, main>>
      /\ batch # << >> /\ batch' = Tail(batch) /\ src' \in {"reading", "checking"}
      /\ undecoded' = undecoded \cup F
  BY DEF PassOver, NextRecord, ingestion, display, control
<1>2. batch \in Seq(Frame) /\ tagged \in Nat /\ Settled
  BY Facts
<1>3. /\ f \in Frame /\ Tail(batch) \in Seq(Frame)
      /\ TagsIn(batch) = F \cup TagsIn(Tail(batch))
      /\ Ascending(Tail(batch)) /\ Before(F, TagsIn(Tail(batch)))
  BY <1>1, <1>2, HeadPlace DEF IInv
<1>4. TypeOK'
  <2>1. undecoded' \in SUBSET Tags
    BY <1>1 DEF IInv, TypeOK
  <2>2. {skipped, undecoded, refused, lost, shown, screen}' \subseteq SUBSET Tags
    BY <1>1, <2>1 DEF IInv, TypeOK
  <2>3. src' \in {"opening", "reading", "checking", "ended"}
    BY <1>1
  <2> QED BY <1>1, <1>3, <2>2, <2>3 DEF IInv, TypeOK
<1>5. HandIsBusy'
  BY <1>1 DEF IInv, HandIsBusy
<1>6. UNCHANGED <<TagsIn(wire), TagsIn(queue), Elems(log), InHand>>
  BY <1>1 DEF TagsIn, Elems, InHand
<1>7. TagsIn(batch)' = TagsIn(Tail(batch))
  BY <1>1
<1>8. Ascending(wire)' /\ Ascending(queue)' /\ Ascending(batch)' /\ Ascending(log)'
  BY <1>1, <1>3 DEF IInv
<1>9. Whereabouts(Elems(log), InHand, TagsIn(queue), TagsIn(Tail(batch)),
                  TagsIn(wire), skipped, undecoded \cup F, refused, lost, tagged)
  BY <1>2, <1>3, WhenOneIsOffered DEF Settled
<1> HIDE DEF F
<1>10. Settled'
  BY <1>1, <1>6, <1>7, <1>9 DEF Settled
<1>11. TagsIn(batch)' \subseteq TagsIn(batch)
  BY <1>3, <1>7
<1>12. UnderWay' \subseteq UnderWay
  BY <1>6, <1>11 DEF UnderWay
<1> QED BY <1>1, <1>4, <1>5, <1>8, <1>10, <1>12, OnlyLosses DEF IInv, Feed!Next

LEMMA ReceiveStep ==
  ASSUME IInv, Receive, UNCHANGED backend
  PROVE  IInv' /\ [Feed!Next]_<<tagged, UnderWay, log>>
<1> DEFINE f == Head(queue)
           F == {f} \cap Tags
<1>1. /\ UNCHANGED <<backend, wire, tagged, src, batch, log, skipped, undecoded, refused, lost>>
      /\ UNCHANGED <<snapper, shown, screen, paused, cancelled, main>>
      /\ ingest = "waiting" /\ queue # << >>
      /\ hand' = f /\ queue' = Tail(queue) /\ ingest' = "ingesting"
  BY DEF Receive, capture, history, display, control
<1>2. queue \in Seq(Frame) /\ Len(queue) \in Nat /\ tagged \in Nat /\ Settled /\ Capacity \in Nat
  BY Facts, PipelineAssumption
<1>3. /\ f \in Frame /\ Tail(queue) \in Seq(Frame) /\ Len(Tail(queue)) = Len(queue) - 1
      /\ TagsIn(queue) = F \cup TagsIn(Tail(queue))
      /\ Ascending(Tail(queue)) /\ Before(F, TagsIn(Tail(queue)))
  BY <1>1, <1>2, HeadPlace DEF IInv
<1> HIDE DEF f
<1>4. InHand = {} /\ InHand' = F /\ f # None
  <2>1. None \notin Tags /\ None \notin Frame
    BY PipelineAssumption DEF None, Tags, Frame, Plain
  <2> QED BY <1>1, <1>3, <2>1 DEF IInv, HandIsBusy, InHand
<1>5. TypeOK'
  <2>1. queue' \in Seq(Frame) /\ Len(queue') <= Capacity
    BY <1>1, <1>2, <1>3 DEF IInv, TypeOK
  <2>2. {skipped, undecoded, refused, lost, shown, screen}' \subseteq SUBSET Tags
    BY <1>1 DEF IInv, TypeOK
  <2> QED BY <1>1, <1>3, <2>1, <2>2 DEF IInv, TypeOK
<1>6. HandIsBusy'
  BY <1>1, <1>4 DEF HandIsBusy
<1>7. Ascending(wire)' /\ Ascending(queue)' /\ Ascending(batch)' /\ Ascending(log)'
  <2>1. Ascending(queue')
    BY <1>1, <1>3
  <2> QED BY <1>1, <2>1 DEF IInv
<1>8. UNCHANGED <<TagsIn(wire), TagsIn(batch), Elems(log)>> /\ TagsIn(queue)' = TagsIn(Tail(queue))
  BY <1>1 DEF TagsIn, Elems
<1>9. Whereabouts(Elems(log), F, TagsIn(Tail(queue)), TagsIn(batch), TagsIn(wire),
                  skipped, undecoded, refused, lost, tagged)
  BY <1>2, <1>3, <1>4, WhenOneIsReceived DEF Settled
<1> HIDE DEF F
<1>10. Settled'
  BY <1>1, <1>4, <1>8, <1>9 DEF Settled
<1>11. TagsIn(queue) = F \cup TagsIn(Tail(queue))
  BY <1>3 DEF F
<1>12. UnderWay' \subseteq UnderWay
  BY <1>4, <1>8, <1>11 DEF UnderWay
<1> QED BY <1>1, <1>5, <1>6, <1>7, <1>10, <1>12, OnlyLosses DEF IInv, Feed!Next

LEMMA IngestStep ==
  ASSUME IInv, Ingest, UNCHANGED backend
  PROVE  IInv' /\ [Feed!Next]_<<tagged, UnderWay, log>>
<1>1. /\ UNCHANGED <<backend, wire, tagged, src, batch, queue, skipped, undecoded, refused, lost>>
      /\ UNCHANGED <<snapper, shown, screen, paused, cancelled, main>>
      /\ ingest = "ingesting" /\ ingest' = "waiting" /\ hand' = None
      /\ log' = IF hand \in Tags THEN Append(log, hand) ELSE log
  BY DEF Ingest, capture, history, display, control
<1>2. log \in Seq(Frame) /\ log \in Seq(Tags) /\ tagged \in Nat /\ Settled /\ Tags \subseteq Frame
  BY Facts DEF IInv, TypeOK, Frame
<1>3. InHand' = {}
  BY <1>1, PipelineAssumption DEF InHand, None, Tags
<1>4. TypeOK'
  <2>1. log' \in Seq(Tags)
    BY <1>1, <1>2
  <2>2. {skipped, undecoded, refused, lost, shown, screen}' \subseteq SUBSET Tags
    BY <1>1 DEF IInv, TypeOK
  <2> QED BY <1>1, <2>1, <2>2 DEF IInv, TypeOK
<1>5. HandIsBusy'
  BY <1>1 DEF HandIsBusy
<1>6. UNCHANGED <<TagsIn(wire), TagsIn(batch), TagsIn(queue)>>
  BY <1>1 DEF TagsIn, Elems
<1>7. Elems(log) \subseteq Tags /\ TagsIn(log) = Elems(log)
  BY <1>2 DEF Elems, TagsIn
<1>8. /\ Whereabouts(Elems(log) \cup InHand, {}, TagsIn(queue), TagsIn(batch), TagsIn(wire),
                     skipped, undecoded, refused, lost, tagged)
      /\ Whereabouts(Elems(log), InHand, TagsIn(queue), TagsIn(batch), TagsIn(wire),
                     skipped, undecoded, refused, lost, tagged)
  BY <1>2, WhenOneIsIngested DEF Settled
<1>9. CASE hand \notin Tags
  <2>1. InHand = {} /\ log' = log
    BY <1>1, <1>9 DEF InHand
  <2>2. Elems(log)' = Elems(log)
    BY <2>1 DEF Elems
  <2>3. Settled'
    BY <1>1, <1>3, <1>6, <1>8, <2>1, <2>2, Zenon DEF Settled
  <2>4. UnderWay' = UnderWay
    BY <1>3, <1>6, <2>1, Zenon DEF UnderWay
  <2> QED BY <1>1, <1>4, <1>5, <2>1, <2>3, <2>4 DEF IInv
<1>10. CASE hand \in Tags
  <2>1. InHand = {hand} /\ log' = Append(log, hand) /\ hand \in Frame
    BY <1>1, <1>2, <1>10 DEF InHand
  <2>2. Before(Elems(log), InHand)
    BY <1>8 DEF Whereabouts, InOrder
  <2>3. TagsIn(Append(log, hand)) = Elems(log) \cup InHand /\ Ascending(Append(log, hand))
    BY <1>2, <1>7, <2>1, <2>2, AppendPlace DEF IInv, InHand
  <2>4. Elems(log)' = Elems(log) \cup InHand
    <3>1. Append(log, hand) \in Seq(Tags)
      BY <1>2, <1>10
    <3>2. Elems(Append(log, hand)) \subseteq Tags
      BY <3>1 DEF Elems
    <3> QED BY <2>1, <2>3, <3>2 DEF TagsIn
  <2>5. Settled'
    BY <1>1, <1>3, <1>6, <1>8, <2>4 DEF Settled
  <2>6. Feed!Deliver
    <3>1. Before(InHand, TagsIn(queue)) /\ Before(InHand, TagsIn(batch)) /\ Before(InHand, TagsIn(wire))
      BY <1>8 DEF Whereabouts, InOrder
    <3>2. hand \in Nat /\ hand <= hand /\ ~(hand < hand)
      BY <1>10 DEF Tags
    <3>3. hand \in UnderWay /\ \A y \in UnderWay : hand <= y
      <4>1. \A y \in UnderWay : y \in Nat
        BY DEF UnderWay, InHand, TagsIn, Tags
      <4> QED BY <2>1, <3>1, <3>2, <4>1 DEF UnderWay, Before
    <3>4. hand \notin TagsIn(queue) \cup TagsIn(batch) \cup TagsIn(wire)
      BY <2>1, <3>1, <3>2 DEF Before
    <3>5. UnderWay' = UnderWay \ {hand}
      BY <1>3, <1>6, <2>1, <3>4 DEF UnderWay
    <3> QED BY <1>1, <2>1, <3>3, <3>5 DEF Feed!Deliver
  <2>7. Ascending(wire)' /\ Ascending(queue)' /\ Ascending(batch)' /\ Ascending(log)'
    BY <1>1, <2>1, <2>3 DEF IInv
  <2> QED BY <1>4, <1>5, <2>5, <2>6, <2>7 DEF IInv, Feed!Next
<1> QED BY <1>9, <1>10

LEMMA IngestCancelledStep ==
  ASSUME IInv, IngestCancelled, UNCHANGED backend
  PROVE  IInv' /\ [Feed!Next]_<<tagged, UnderWay, log>>
<1>1. /\ UNCHANGED <<backend, wire, tagged, src, batch, hand, log, skipped, undecoded, refused>>
      /\ UNCHANGED <<snapper, shown, screen, paused, cancelled, main>>
      /\ ingest = "waiting" /\ ingest' = "ended"
      /\ queue' = << >> /\ lost' = lost \cup TagsIn(queue)
  BY DEF IngestCancelled, capture, display, control
<1>2. tagged \in Nat /\ Settled /\ Capacity \in Nat
  BY Facts, PipelineAssumption
<1>3. TypeOK'
  <2>1. queue' \in Seq(Frame) /\ Len(queue') <= Capacity
    BY <1>1, <1>2
  <2>2. lost' \in SUBSET Tags
    BY <1>1 DEF TagsIn, IInv, TypeOK
  <2>3. {skipped, undecoded, refused, lost, shown, screen}' \subseteq SUBSET Tags
    BY <1>1, <2>2 DEF IInv, TypeOK
  <2> QED BY <1>1, <2>1, <2>3 DEF IInv, TypeOK
<1>4. HandIsBusy'
  BY <1>1 DEF IInv, HandIsBusy
<1>5. Ascending(wire)' /\ Ascending(queue)' /\ Ascending(batch)' /\ Ascending(log)'
  <2>1. Ascending(queue')
    BY <1>1, EmptyPlace
  <2> QED BY <1>1, <2>1 DEF IInv
<1>6. UNCHANGED <<TagsIn(wire), TagsIn(batch), Elems(log), InHand>> /\ TagsIn(queue)' = {}
  BY <1>1, EmptyPlace DEF TagsIn, Elems, InHand
<1>7. Whereabouts(Elems(log), InHand, {}, TagsIn(batch), TagsIn(wire),
                  skipped, undecoded, refused, lost \cup TagsIn(queue), tagged)
  BY <1>2, WhenTheChannelIsDropped DEF Settled
<1>8. Settled'
  BY <1>1, <1>6, <1>7 DEF Settled
<1>9. UnderWay' \subseteq UnderWay
  BY <1>6 DEF UnderWay
<1> QED BY <1>1, <1>3, <1>4, <1>5, <1>8, <1>9, OnlyLosses DEF IInv, Feed!Next

(* The other steps leave the way alone. *)
LEMMA OtherStep ==
  ASSUME IInv, UNCHANGED way,
         TypeOK', HandIsBusy'
  PROVE  IInv' /\ [Feed!Next]_<<tagged, UnderWay, log>>
<1>1. UNCHANGED <<wire, tagged, batch, queue, hand, log, skipped, undecoded, refused, lost>>
  BY DEF way
<1>2. UNCHANGED <<TagsIn(wire), TagsIn(batch), TagsIn(queue), Elems(log), InHand>>
  BY <1>1 DEF TagsIn, Elems, InHand
<1>3. Settled' /\ UnderWay' = UnderWay
  BY <1>1, <1>2 DEF IInv, Settled, UnderWay
<1> QED BY <1>1, <1>3 DEF IInv

LEMMA StepHolds == IInv /\ [Next]_vars => IInv' /\ [Feed!Next]_<<tagged, UnderWay, log>>
<1> SUFFICES ASSUME IInv, [Next]_vars
             PROVE  IInv' /\ [Feed!Next]_<<tagged, UnderWay, log>>
  OBVIOUS
<1> USE DEF capture, ingestion, history, display, control
<1> DEFINE Kept == {skipped, undecoded, refused, lost, shown, screen}' \subseteq SUBSET Tags
<1>1. CASE UNCHANGED vars
  <2>1. UNCHANGED way
    BY <1>1 DEF vars, way
  <2>2. Kept
    BY <1>1 DEF IInv, TypeOK, vars
  <2>3. TypeOK' /\ HandIsBusy'
    BY <1>1, <2>2 DEF IInv, TypeOK, HandIsBusy, vars
  <2> QED BY <2>1, <2>3, OtherStep
<1>2. CASE Arrive /\ UNCHANGED backend
  BY <1>2, ArriveStep
<1>3. CASE Read /\ UNCHANGED backend
  BY <1>3, ReadStep
<1>4. CASE Offer /\ UNCHANGED backend
  BY <1>4, OfferStep
<1>5. CASE (Open \/ ReadTimesOut \/ Check \/ ReadFails) /\ UNCHANGED backend
  <2>1. UNCHANGED way
    BY <1>5 DEF Open, ReadTimesOut, Check, ReadFails, way
  <2>2. Kept
    BY <1>5 DEF IInv, TypeOK, Open, ReadTimesOut, Check, ReadFails
  <2>3. src' \in {"opening", "reading", "checking", "ended"}
    BY <1>5 DEF Open, ReadTimesOut, Check, ReadFails
  <2>4. TypeOK' /\ HandIsBusy'
    BY <1>5, <2>2, <2>3 DEF IInv, TypeOK, HandIsBusy, Open, ReadTimesOut, Check, ReadFails
  <2> QED BY <2>1, <2>4, OtherStep
<1>6. CASE Receive /\ UNCHANGED backend
  BY <1>6, ReceiveStep
<1>7. CASE Ingest /\ UNCHANGED backend
  BY <1>7, IngestStep
<1>8. CASE ReceiveNone /\ UNCHANGED backend
  <2>1. UNCHANGED way
    BY <1>8 DEF ReceiveNone, way
  <2>2. Kept
    BY <1>8 DEF IInv, TypeOK, ReceiveNone
  <2>3. TypeOK' /\ HandIsBusy'
    BY <1>8, <2>2 DEF IInv, TypeOK, HandIsBusy, ReceiveNone
  <2> QED BY <2>1, <2>3, OtherStep
<1>9. CASE IngestCancelled /\ UNCHANGED backend
  BY <1>9, IngestCancelledStep
<1>10. CASE (SnapTick \/ Redraw \/ TogglePause) /\ UNCHANGED backend
  <2>1. UNCHANGED way
    BY <1>10 DEF SnapTick, Redraw, TogglePause, way
  <2>2. Elems(log) \in SUBSET Tags
    BY DEF IInv, TypeOK, Elems
  <2>3. paused \in BOOLEAN /\ cancelled \in BOOLEAN
    BY DEF IInv, TypeOK
  <2>4. {paused, cancelled}' \subseteq BOOLEAN
    BY <1>10, <2>3 DEF SnapTick, Redraw, TogglePause
  <2>5. shown' \in SUBSET Tags /\ screen' \in SUBSET Tags
    BY <1>10, <2>2 DEF IInv, TypeOK, SnapTick, Redraw, TogglePause
  <2>6. Kept
    BY <1>10, <2>5 DEF IInv, TypeOK, SnapTick, Redraw, TogglePause
  <2>7. TypeOK' /\ HandIsBusy'
    BY <1>10, <2>6, <2>4 DEF IInv, TypeOK, HandIsBusy, SnapTick, Redraw, TogglePause
  <2> QED BY <2>1, <2>7, OtherStep
<1>11. CASE (SnapCancelled \/ UiReturns \/ Join) /\ UNCHANGED backend
  <2>1. UNCHANGED way
    BY <1>11 DEF SnapCancelled, UiReturns, Join, way
  <2>2. Kept
    BY <1>11 DEF IInv, TypeOK, SnapCancelled, UiReturns, Join
  <2>3. main' \in {"ui", "joinIngest", "joinSnapper", "exited"}
    BY <1>11 DEF IInv, TypeOK, SnapCancelled, UiReturns, Join
  <2>4. TypeOK' /\ HandIsBusy'
    BY <1>11, <2>2, <2>3 DEF IInv, TypeOK, HandIsBusy, SnapCancelled, UiReturns, Join
  <2> QED BY <2>1, <2>4, OtherStep
<1>12. CASE PassOver /\ UNCHANGED backend
  BY <1>12, PassOverStep
<1> QED
  BY <1>1, <1>2, <1>3, <1>4, <1>5, <1>6, <1>7, <1>8, <1>9, <1>10, <1>11, <1>12 DEF Next, CaptureThread

-----------------------------------------------------------------------------
LEMMA Invariance == Spec => []IInv
<1>1. IInv /\ [Next]_vars => IInv'
  BY StepHolds
<1> QED BY <1>1, InitIInv, PTL DEF Spec

(* The channel never holds more than its capacity, and every part of the
   pipeline is in one of its states: however many frames arrive, whatever they
   come from and however the tasks run. *)
THEOREM TypeCorrect == Spec => []TypeOK
<1>1. IInv => TypeOK
  BY DEF IInv
<1> QED BY <1>1, Invariance, PTL

(* Frames in ascending order are all different. *)
LEMMA AscendingOnce ==
  ASSUME NEW s \in Seq(Frame), Ascending(s)
  PROVE  OnceIn(s)
<1> SUFFICES ASSUME NEW i \in DOMAIN s, NEW j \in DOMAIN s, s[i] \in Tags, s[i] = s[j], i # j
             PROVE  FALSE
  BY DEF OnceIn
<1>1. i \in Nat /\ j \in Nat /\ (i < j \/ j < i)
  BY LenProperties
<1>2. s[i] < s[j] \/ s[j] < s[i]
  BY <1>1 DEF Ascending
<1>3. s[i] \in Nat
  BY DEF Tags
<1> QED BY <1>2, <1>3

(* Every frame that arrived is in one place: waiting, under way, ingested,
   left in a read buffer, passed over by decode(), refused or lost with the
   channel, and nowhere twice (source.rs, pipeline.rs, the two backends). *)
THEOREM FramesAreAccountedFor == Spec => []EveryFrameAccountedFor
<1>1. IInv => EveryFrameAccountedFor
  <2> SUFFICES ASSUME IInv PROVE EveryFrameAccountedFor
    OBVIOUS
  <2>1. /\ wire \in Seq(Frame) /\ batch \in Seq(Frame) /\ queue \in Seq(Frame) /\ log \in Seq(Frame)
        /\ tagged \in Nat /\ Settled
    BY Facts
  <2>2. OnceIn(queue) /\ OnceIn(batch) /\ OnceIn(wire) /\ OnceIn(log)
    BY <2>1, AscendingOnce DEF IInv
  <2>3. UNION Elems(Places) = 1 .. tagged
    <3>1. DOMAIN Places = 1 .. 9
      BY DEF Places
    <3>2. Elems(Places) = {Places[1], Places[2], Places[3], Places[4],
                           Places[5], Places[6], Places[7], Places[8], Places[9]}
      BY <3>1 DEF Elems
    <3>3. Elems(Places) = {InHand, TagsIn(queue), TagsIn(batch), TagsIn(wire),
                           Elems(log), skipped, undecoded, refused, lost}
      BY <3>2 DEF Places
    <3> QED BY <2>1, <3>3 DEF Settled, Whereabouts
  <2>4. \A i, j \in DOMAIN Places : i # j => Places[i] \cap Places[j] = {}
    <3>1. \A x \in 1 .. tagged : ~(x < x)
      BY <2>1
    <3>2. /\ InHand \subseteq 1 .. tagged /\ TagsIn(queue) \subseteq 1 .. tagged
          /\ TagsIn(batch) \subseteq 1 .. tagged /\ TagsIn(wire) \subseteq 1 .. tagged
          /\ Elems(log) \subseteq 1 .. tagged
      BY <2>1 DEF Settled, Whereabouts
    <3>3. \A S, T \in SUBSET (1 .. tagged) : Before(S, T) => S \cap T = {}
      BY <3>1 DEF Before
    <3>4. /\ InHand \cap TagsIn(queue) = {} /\ InHand \cap TagsIn(batch) = {}
          /\ InHand \cap TagsIn(wire) = {} /\ InHand \cap Elems(log) = {}
          /\ TagsIn(queue) \cap TagsIn(batch) = {} /\ TagsIn(queue) \cap TagsIn(wire) = {}
          /\ TagsIn(queue) \cap Elems(log) = {} /\ TagsIn(batch) \cap TagsIn(wire) = {}
          /\ TagsIn(batch) \cap Elems(log) = {} /\ TagsIn(wire) \cap Elems(log) = {}
      BY <2>1, <3>2, <3>3 DEF Settled, Whereabouts, InOrder
    <3>5. \A S \in {InHand, TagsIn(queue), TagsIn(batch), TagsIn(wire), Elems(log)} :
            /\ S \cap skipped = {} /\ S \cap undecoded = {}
            /\ S \cap refused = {} /\ S \cap lost = {}
      BY <2>1 DEF Settled, Whereabouts
    <3>6. /\ skipped \cap undecoded = {} /\ skipped \cap refused = {} /\ skipped \cap lost = {}
          /\ undecoded \cap refused = {} /\ undecoded \cap lost = {} /\ refused \cap lost = {}
      BY <2>1 DEF Settled, Whereabouts
    <3>7. /\ DOMAIN Places = 1 .. 9
          /\ Places[1] = InHand /\ Places[2] = TagsIn(queue) /\ Places[3] = TagsIn(batch)
          /\ Places[4] = TagsIn(wire) /\ Places[5] = Elems(log) /\ Places[6] = skipped
          /\ Places[7] = undecoded /\ Places[8] = refused /\ Places[9] = lost
      BY DEF Places
    <3>8. \A i, j \in 1 .. 9 : i < j => Places[i] \cap Places[j] = {}
      <4> SUFFICES ASSUME NEW i \in 1 .. 9, NEW j \in 1 .. 9, i < j
                   PROVE  Places[i] \cap Places[j] = {}
        OBVIOUS
      <4>1. CASE i = 1
        BY <3>4, <3>5, <3>7, <4>1
      <4>2. CASE i = 2
        BY <3>4, <3>5, <3>7, <4>2
      <4>3. CASE i = 3
        BY <3>4, <3>5, <3>7, <4>3
      <4>4. CASE i = 4
        BY <3>4, <3>5, <3>7, <4>4
      <4>5. CASE i >= 5
        BY <3>5, <3>6, <3>7, <4>5
      <4> QED BY <4>1, <4>2, <4>3, <4>4, <4>5
    <3> QED BY <3>7, <3>8
  <2> QED BY <2>2, <2>3, <2>4 DEF EveryFrameAccountedFor
<1> QED BY <1>1, Invariance, PTL

(* The pipeline is a lossy FIFO: what is ingested is ingested once and in the
   order it arrived, and only what is lost on the way is not
   (source.rs, pipeline.rs). *)
THEOREM PipelineImplementsLossyFeed == Spec => ImplementsLossyFeed
<1>1. Init => Feed!Init
  <2> SUFFICES ASSUME Init PROVE Feed!Init
    OBVIOUS
  <2>1. InHand = {}
    BY PipelineAssumption DEF Init, InHand, None, Tags
  <2> QED BY <2>1, EmptyPlace DEF Init, Feed!Init, UnderWay
<1>2. IInv /\ [Next]_vars => [Feed!Next]_<<tagged, UnderWay, log>>
  BY StepHolds
<1> QED BY <1>1, <1>2, Invariance, PTL DEF Spec, ImplementsLossyFeed, Feed!Spec
=============================================================================
