------------------------- MODULE IfaceWindowProofs -------------------------
(***************************************************************************)
(* Proofs about the two halves of IfaceWindow (aggregate.rs): the rate     *)
(* window, SlidingWindow, for every capacity, window width and bound, and  *)
(* the protocol counters, Protocols, for every set of packets.             *)
(*                                                                         *)
(* The argument for the window: modulo arithmetic is only ever used on     *)
(* indices below twice Cap, where it is addition with at most one wrap     *)
(* (SlotValue); from that, one push appends an entry to Items and drops d  *)
(* entries from the front (PushShape); the inductive invariant relates     *)
(* Items to the history by the number of entries dropped so far.  That for *)
(* the counters stands at the head of their section.                       *)
(***************************************************************************)
EXTENDS SlidingWindow, Protocols, FiniteSetTheorems, TLAPS

LEMMA AtLeastToo ==
  ASSUME NEW x \in Nat, NEW y \in Nat, x <= y, NEW bound \in Int, x >= bound
  PROVE  y >= bound
OBVIOUS

(* Going i entries on from a slot wraps at most once. *)
LEMMA SlotValue ==
  ASSUME NEW h \in Slots, NEW i \in 0 .. Cap
  PROVE  SlotOf(h, i) = IF h + i < Cap THEN h + i ELSE h + i - Cap
<1>1. ASSUME NEW a \in Nat, a < Cap PROVE a % Cap = a
  BY <1>1, WindowAssumption
<1>2. ASSUME NEW a \in Nat, Cap <= a, a < 2 * Cap PROVE a % Cap = a - Cap
  BY <1>2, WindowAssumption
<1>3. h \in Nat /\ i \in Nat /\ h + i \in Nat /\ h + i < 2 * Cap
  BY WindowAssumption DEF Slots
<1> QED BY <1>1, <1>2, <1>3, WindowAssumption DEF SlotOf

LEMMA SlotInRange ==
  ASSUME NEW h \in Slots, NEW i \in 0 .. Cap
  PROVE  SlotOf(h, i) \in Slots
BY SlotValue, WindowAssumption DEF Slots

(* Different positions of a ring are different slots. *)
LEMMA SlotInjective ==
  ASSUME NEW h \in Slots, NEW i \in 0 .. Cap - 1, NEW j \in 0 .. Cap - 1,
         SlotOf(h, i) = SlotOf(h, j)
  PROVE  i = j
<1>1. i \in 0 .. Cap /\ j \in 0 .. Cap
  BY WindowAssumption
<1> QED BY <1>1, SlotValue, WindowAssumption DEF Slots

(* Positions counted from an advanced head. *)
LEMMA SlotAdd ==
  ASSUME NEW h \in Slots, NEW i \in 0 .. Cap, NEW j \in 0 .. Cap, i + j \in 0 .. Cap
  PROVE  SlotOf(SlotOf(h, i), j) = SlotOf(h, i + j)
<1>1. SlotOf(h, i) \in Slots
  BY SlotInRange
<1>2. SlotOf(SlotOf(h, i), j) =
        IF SlotOf(h, i) + j < Cap THEN SlotOf(h, i) + j ELSE SlotOf(h, i) + j - Cap
  BY <1>1, SlotValue
<1> QED BY <1>2, SlotValue, WindowAssumption DEF Slots

-----------------------------------------------------------------------------
(* What making room leaves: the ring without its oldest entry if it was full,
   and the slot after the newest entry free. *)
LEMMA RoomShape ==
  ASSUME TypeOK, EmptyOutside
  PROVE  LET r == MakeRoom(buf, head, len)
             d == IF len = Cap THEN 1 ELSE 0
         IN  /\ r.h = SlotOf(head, d) /\ r.h \in Slots
             /\ r.n = len - d /\ r.n \in 0 .. Cap - 1
             /\ r.b \in [Slots -> Entry \cup {None}]
             /\ \A i \in 0 .. r.n - 1 :
                  /\ r.b[SlotOf(r.h, i)] = buf[SlotOf(head, i + d)]
                  /\ r.b[SlotOf(r.h, i)] # None
             /\ \A s \in Slots :
                  (\A i \in 0 .. r.n - 1 : s # SlotOf(r.h, i)) => r.b[s] = None
<1> DEFINE r == MakeRoom(buf, head, len)
           d == IF len = Cap THEN 1 ELSE 0
<1> USE WindowAssumption
<1>1. head \in Slots /\ len \in 0 .. Cap /\ buf \in [Slots -> Entry \cup {None}]
  BY DEF TypeOK
<1>2. CASE len = Cap
  <2>1. /\ r.h = SlotOf(head, 1) /\ r.n = len - 1
        /\ r.b = [buf EXCEPT ![head] = None]
    BY <1>2 DEF MakeRoom
  <2>2. r.h \in Slots
    BY <1>1, <2>1, SlotInRange
  <2>3. SlotOf(head, 0) = head
    BY <1>1, SlotValue DEF Slots
  <2>4. ASSUME NEW i \in 0 .. r.n - 1
        PROVE  /\ SlotOf(r.h, i) = SlotOf(head, i + 1)
               /\ SlotOf(head, i + 1) \in Slots
               /\ SlotOf(head, i + 1) # head
    <3>1. i \in 0 .. Cap /\ 1 \in 0 .. Cap /\ 1 + i \in 0 .. Cap /\ 1 + i = i + 1
      BY <1>2, <2>1
    <3>2. SlotOf(SlotOf(head, 1), i) = SlotOf(head, 1 + i)
      BY <3>1, <1>1, SlotAdd
    <3>3. i + 1 \in 0 .. Cap - 1 /\ 0 \in 0 .. Cap - 1
      BY <1>2, <2>1
    <3>4. SlotOf(head, i + 1) # SlotOf(head, 0)
      BY <3>3, <1>1, SlotInjective
    <3> QED BY <2>1, <2>3, <3>1, <3>2, <3>4, <1>1, SlotInRange
  <2>5. ASSUME NEW i \in 0 .. r.n - 1
        PROVE  /\ r.b[SlotOf(r.h, i)] = buf[SlotOf(head, i + 1)]
               /\ r.b[SlotOf(r.h, i)] # None
    <3>1. buf[SlotOf(head, i + 1)] # None
      <4>1. i + 1 \in 0 .. len - 1
        BY <2>1, <1>2
      <4> QED BY <4>1, <2>4 DEF EmptyOutside
    <3> QED BY <3>1, <2>1, <2>4, <1>1
  <2>6. ASSUME NEW s \in Slots, \A i \in 0 .. r.n - 1 : s # SlotOf(r.h, i)
        PROVE  r.b[s] = None
    <3>1. CASE s = head
      BY <3>1, <2>1, <1>1
    <3>2. CASE s # head
      <4>1. ASSUME NEW j \in 0 .. len - 1 PROVE s # SlotOf(head, j)
        <5>1. CASE j = 0
          BY <5>1, <2>3, <3>2
        <5>2. CASE j # 0
          <6>1. j - 1 \in 0 .. r.n - 1 /\ (j - 1) + 1 = j
            BY <5>2, <2>1, <1>2
          <6> QED BY <6>1, <2>6, <2>4
        <5> QED BY <5>1, <5>2
      <4>2. buf[s] = None
        BY <4>1 DEF EmptyOutside
      <4> QED BY <4>2, <3>2, <2>1, <1>1
    <3> QED BY <3>1, <3>2
  <2>7. r.b \in [Slots -> Entry \cup {None}]
    BY <2>1, <1>1
  <2>8. r.n \in 0 .. Cap - 1
    BY <2>1, <1>2
  <2> QED BY <1>2, <2>1, <2>2, <2>5, <2>6, <2>7, <2>8
<1>3. CASE len # Cap
  <2>1. r.h = head /\ r.n = len /\ r.b = buf
    BY <1>3 DEF MakeRoom
  <2>2. SlotOf(head, 0) = head
    BY <1>1, SlotValue DEF Slots
  <2>3. ASSUME NEW i \in 0 .. len - 1
        PROVE  i + 0 = i /\ SlotOf(head, i) \in Slots /\ buf[SlotOf(head, i)] # None
    <3>1. i \in 0 .. Cap
      BY <1>1
    <3>2. SlotOf(head, i) \in Slots
      BY <3>1, <1>1, SlotInRange
    <3> QED BY <3>2 DEF EmptyOutside
  <2>4. len \in 0 .. Cap - 1 /\ len - 0 = len
    BY <1>1, <1>3
  <2> QED BY <1>1, <1>3, <2>1, <2>2, <2>3, <2>4 DEF EmptyOutside
<1> QED BY <1>2, <1>3

(* One push: the entry is appended to the live entries and d of them go from
   the front, the expendable ones and no other. *)
AllItems(v, at) == [i \in 1 .. len + 1 |-> IF i <= len THEN Items[i] ELSE [at |-> at, v |-> v]]

Expendable(v, at, i) == i <= len + 1 - Cap \/ AllItems(v, at)[i].at < at - Window

LEMMA PushShape ==
  ASSUME TypeOK, EmptyOutside, NEW v \in Values, NEW at \in Nat, Push(v, at)
  PROVE  /\ buf' \in [Slots -> Entry \cup {None}]
         /\ head' \in Slots
         /\ len' \in 1 .. Cap
         /\ EmptyOutside'
         /\ \E d \in 0 .. len :
              /\ len' = len + 1 - d
              /\ \A i \in 1 .. len' : Items'[i] = AllItems(v, at)[d + i]
              /\ \A i \in 1 .. d : Expendable(v, at, i)
              /\ ~Expendable(v, at, d + 1)
<1> DEFINE r == MakeRoom(buf, head, len)
           e == [at |-> at, v |-> v]
           c == IF len = Cap THEN 1 ELSE 0
           b == [r.b EXCEPT ![SlotOf(r.h, r.n)] = e]
           n == r.n + 1
<1> USE WindowAssumption
<1>1. PICK k \in 0 .. n :
        /\ Evicts(b, r.h, n, at, k)
        /\ buf' = [s \in Slots |->
                     IF \E i \in 0 .. k - 1 : s = SlotOf(r.h, i) THEN None ELSE b[s]]
        /\ head' = SlotOf(r.h, k)
        /\ len' = n - k
  BY DEF Push
<1> HIDE DEF r
<1>2. /\ r.h = SlotOf(head, c) /\ r.h \in Slots
      /\ r.n = len - c /\ r.n \in 0 .. Cap - 1
      /\ r.b \in [Slots -> Entry \cup {None}]
      /\ \A i \in 0 .. r.n - 1 :
           /\ r.b[SlotOf(r.h, i)] = buf[SlotOf(head, i + c)]
           /\ r.b[SlotOf(r.h, i)] # None
      /\ \A s \in Slots :
           (\A i \in 0 .. r.n - 1 : s # SlotOf(r.h, i)) => r.b[s] = None
  BY RoomShape DEF r
<1>3. head \in Slots /\ len \in 0 .. Cap /\ buf \in [Slots -> Entry \cup {None}]
  BY DEF TypeOK
<1>4. e \in Entry /\ e # None /\ e.at = at
  BY DEF Entry
<1>5. SlotOf(r.h, r.n) \in Slots /\ b \in [Slots -> Entry \cup {None}]
  <2>1. r.n \in 0 .. Cap
    BY <1>2
  <2>2. SlotOf(r.h, r.n) \in Slots
    BY <2>1, <1>2, SlotInRange
  <2> QED BY <2>2, <1>2, <1>4
\* The slots of the ring after the store, by position.
<1>6. ASSUME NEW i \in 0 .. n - 1
      PROVE  /\ SlotOf(r.h, i) \in Slots
             /\ b[SlotOf(r.h, i)] = AllItems(v, at)[i + 1 + c]
             /\ b[SlotOf(r.h, i)] # None
             /\ b[SlotOf(r.h, i)] \in Entry
  <2>1. i \in 0 .. Cap /\ i \in 0 .. Cap - 1 /\ r.n \in 0 .. Cap - 1
    BY <1>2
  <2>2. SlotOf(r.h, i) \in Slots
    BY <2>1, <1>2, SlotInRange
  <2>3. CASE i = r.n
    <3>1. i + 1 + c = len + 1 /\ len + 1 \in 1 .. len + 1
      BY <2>3, <1>2, <1>3
    <3>2. AllItems(v, at)[i + 1 + c] = e
      BY <3>1, <1>3 DEF AllItems
    <3>3. b[SlotOf(r.h, i)] = e
      BY <2>3, <1>2, <1>5
    <3> QED BY <2>2, <3>2, <3>3, <1>4
  <2>4. CASE i # r.n
    <3>1. i \in 0 .. r.n - 1
      BY <2>4, <1>2
    <3>2. SlotOf(r.h, i) # SlotOf(r.h, r.n)
      BY <2>1, <2>4, <1>2, SlotInjective
    <3>3. b[SlotOf(r.h, i)] = buf[SlotOf(head, i + c)] /\ b[SlotOf(r.h, i)] # None
      BY <3>1, <3>2, <2>2, <1>2, <1>5
    <3>4. i + 1 + c \in 1 .. len /\ (i + 1 + c) - 1 = i + c
      BY <3>1, <1>2, <1>3
    <3>5. AllItems(v, at)[i + 1 + c] = buf[SlotOf(head, i + c)]
      BY <3>4, <1>3 DEF AllItems, Items
    <3> QED BY <2>2, <3>3, <3>5, <1>5
  <2> QED BY <2>3, <2>4
<1>7. ASSUME NEW s \in Slots, \A i \in 0 .. n - 1 : s # SlotOf(r.h, i)
      PROVE  b[s] = None
  <2>1. r.n \in 0 .. n - 1 /\ \A i \in 0 .. r.n - 1 : i \in 0 .. n - 1
    BY <1>2
  <2>2. s # SlotOf(r.h, r.n) /\ r.b[s] = None
    BY <2>1, <1>7, <1>2
  <2> QED BY <2>2, <1>2, <1>5
\* Eviction never reaches the entry just stored.
<1>8. k \in 0 .. r.n
  <2>1. SUFFICES ASSUME k = n PROVE FALSE
    BY <2>1, <1>2
  <2>2. r.n \in 0 .. k - 1
    BY <2>1, <1>2
  <2>3. b[SlotOf(r.h, r.n)].at < at - Window
    BY <2>2, <1>1 DEF Evicts
  <2>4. b[SlotOf(r.h, r.n)] = e
    BY <1>2, <1>5
  <2> QED BY <2>3, <2>4, <1>4
<1>9. /\ buf' \in [Slots -> Entry \cup {None}]
      /\ head' \in Slots
      /\ len' \in 1 .. Cap
      /\ len' = r.n + 1 - k
  <2>1. k \in 0 .. Cap
    BY <1>8, <1>2
  <2>2. SlotOf(r.h, k) \in Slots
    BY <2>1, <1>2, SlotInRange
  <2>3. len' = r.n + 1 - k /\ len' \in 1 .. Cap
    BY <1>1, <1>2, <1>8
  <2>4. buf' \in [Slots -> Entry \cup {None}]
    <3> HIDE DEF b
    <3> QED BY <1>1, <1>5
  <2> QED BY <2>2, <2>3, <2>4, <1>1
\* Positions counted from the new head.
<1>10. ASSUME NEW i \in 0 .. len' - 1
       PROVE  /\ SlotOf(head', i) = SlotOf(r.h, k + i)
              /\ k + i \in 0 .. n - 1
              /\ buf'[SlotOf(head', i)] = AllItems(v, at)[k + i + 1 + c]
              /\ buf'[SlotOf(head', i)] # None
  <2>1. k \in 0 .. Cap /\ i \in 0 .. Cap /\ k + i \in 0 .. Cap
        /\ k + i \in 0 .. n - 1 /\ k + i \in 0 .. Cap - 1
    BY <1>8, <1>9, <1>2
  <2>2. SlotOf(head', i) = SlotOf(r.h, k + i)
    BY <2>1, <1>1, <1>2, SlotAdd
  <2>3. ASSUME NEW j \in 0 .. k - 1 PROVE SlotOf(r.h, k + i) # SlotOf(r.h, j)
    <3>1. j \in 0 .. Cap - 1 /\ j # k + i
      BY <2>1, <1>8, <1>2
    <3> QED BY <3>1, <2>1, <1>2, SlotInjective
  <2>4. SlotOf(r.h, k + i) \in Slots /\ b[SlotOf(r.h, k + i)] = AllItems(v, at)[k + i + 1 + c]
        /\ b[SlotOf(r.h, k + i)] # None
    BY <2>1, <1>6
  <2>5. buf'[SlotOf(r.h, k + i)] = b[SlotOf(r.h, k + i)]
    BY <2>3, <2>4, <1>1
  <2> QED BY <2>1, <2>2, <2>4, <2>5
<1>11. EmptyOutside'
  <2>1. SUFFICES ASSUME NEW s \in Slots
                 PROVE  buf'[s] = None <=> \A i \in 0 .. len' - 1 : s # SlotOf(head', i)
    BY DEF EmptyOutside, Slots
  <2>2. ASSUME NEW i \in 0 .. len' - 1, s = SlotOf(head', i) PROVE buf'[s] # None
    BY <2>2, <1>10
  <2>3. ASSUME \A i \in 0 .. len' - 1 : s # SlotOf(head', i) PROVE buf'[s] = None
    <3>1. CASE \E j \in 0 .. k - 1 : s = SlotOf(r.h, j)
      BY <3>1, <1>1
    <3>2. CASE ~ \E j \in 0 .. k - 1 : s = SlotOf(r.h, j)
      <4>1. ASSUME NEW j \in 0 .. n - 1 PROVE s # SlotOf(r.h, j)
        <5>1. CASE j < k
          <6>1. j \in 0 .. k - 1
            BY <5>1, <1>8, <1>2
          <6> QED BY <6>1, <3>2
        <5>2. CASE j >= k
          <6>1. j - k \in 0 .. len' - 1 /\ k + (j - k) = j
            BY <5>2, <1>8, <1>9, <1>2
          <6>2. SlotOf(head', j - k) = SlotOf(r.h, j)
            BY <6>1, <1>10
          <6> QED BY <6>1, <6>2, <2>3
        <5> QED BY <5>1, <5>2, <1>8, <1>2
      <4>2. b[s] = None
        BY <4>1, <1>7
      <4> QED BY <4>2, <3>2, <1>1
    <3> QED BY <3>1, <3>2
  <2> QED BY <2>2, <2>3
<1>12. c + k \in 0 .. len /\ len' = len + 1 - (c + k)
  BY <1>8, <1>9, <1>2, <1>3
<1>13. ASSUME NEW i \in 1 .. len'
       PROVE  Items'[i] = AllItems(v, at)[c + k + i]
  <2>1. i - 1 \in 0 .. len' - 1 /\ k + (i - 1) + 1 + c = c + k + i
    BY <1>8, <1>9, <1>2, <1>3
  <2>2. Items'[i] = buf'[SlotOf(head', i - 1)]
    BY DEF Items, SlotOf
  <2> QED BY <2>1, <2>2, <1>10
\* What went was expendable, what stayed first is not.
<1>14. ASSUME NEW i \in 1 .. c + k
       PROVE  Expendable(v, at, i)
  <2>1. CASE c = 1 /\ i = 1
    BY <2>1, <1>3 DEF Expendable
  <2>2. CASE ~(c = 1 /\ i = 1)
    <3>1. i - 1 - c \in 0 .. k - 1 /\ (i - 1 - c) + 1 + c = i /\ i - 1 - c \in 0 .. n - 1
      BY <2>2, <1>8, <1>2, <1>3
    <3>2. b[SlotOf(r.h, i - 1 - c)].at < at - Window
      BY <3>1, <1>1 DEF Evicts
    <3> QED BY <3>1, <3>2, <1>6 DEF Expendable
  <2> QED BY <2>1, <2>2
<1>15. ~Expendable(v, at, c + k + 1)
  <2>1. k \in 0 .. n - 1 /\ k + 1 + c = c + k + 1 /\ k < n
    BY <1>8, <1>2, <1>3
  <2>2. b[SlotOf(r.h, k)] # None /\ b[SlotOf(r.h, k)] \in Entry
        /\ b[SlotOf(r.h, k)] = AllItems(v, at)[c + k + 1]
    BY <2>1, <1>6
  <2>3. ~(at >= Window /\ b[SlotOf(r.h, k)].at < at - Window)
    BY <2>1, <2>2, <1>1 DEF Evicts
  <2>4. b[SlotOf(r.h, k)].at \in Nat
    BY <2>2 DEF Entry
  <2>5. ~(b[SlotOf(r.h, k)].at < at - Window)
    BY <2>3, <2>4
  <2>6. ~(c + k + 1 <= len + 1 - Cap)
    BY <1>2, <1>3, <1>8
  <2> QED BY <2>2, <2>5, <2>6 DEF Expendable
<1> QED BY <1>9, <1>11, <1>12, <1>13, <1>14, <1>15

-----------------------------------------------------------------------------
(* Stamps of the history never go back and never run ahead of the clock. *)
Ordered ==
  \A i \in 1 .. Len(log) :
    /\ log[i].at <= clock
    /\ \A j \in i .. Len(log) : log[i].at <= log[j].at

(* The inductive invariant. *)
IInv == TypeOK /\ WindowExact /\ Ordered

LEMMA LastStampType ==
  ASSUME IInv
  PROVE  /\ LastStamp \in Nat
         /\ LastStamp <= clock
         /\ \A i \in 1 .. Len(log) : log[i].at \in Nat /\ log[i].at <= LastStamp
<1>1. log \in Seq(Entry) /\ Len(log) \in Nat /\ clock \in Nat
  BY DEF IInv, TypeOK
<1>2. \A i \in 1 .. Len(log) : log[i] \in Entry /\ log[i].at \in Nat
  <2>1. \A i \in 1 .. Len(log) : log[i] \in Entry
    BY <1>1
  <2> QED BY <2>1 DEF Entry
<1>3. CASE log = << >>
  BY <1>1, <1>3 DEF LastStamp
<1>4. CASE log # << >>
  <2>1. Len(log) \in 1 .. Len(log)
    BY <1>1, <1>4
  <2> QED BY <1>2, <1>4, <2>1 DEF LastStamp, IInv, Ordered
<1> QED BY <1>3, <1>4

LEMMA InitInvariant == Init => IInv
<1> SUFFICES ASSUME Init PROVE IInv
  OBVIOUS
<1> USE WindowAssumption
<1>1. TypeOK
  BY DEF Init, TypeOK, Slots
<1>2. Len(log) = 0
  BY DEF Init
<1>3. HoldsRetained
  BY <1>2 DEF HoldsRetained, Init
<1>4. EmptyOutside
  BY DEF EmptyOutside, Init
<1>5. Ordered
  BY <1>2 DEF Ordered
<1> QED BY <1>1, <1>3, <1>4, <1>5 DEF IInv, WindowExact

(* A push keeps the ring equal to the retained part of the history: the d
   entries it drops are those the new entry makes expendable. *)
LEMMA PushKeepsInvariant ==
  ASSUME IInv, NEW v \in Values, NEW at \in LastStamp .. clock,
         Push(v, at), UNCHANGED clock
  PROVE  IInv'
<1> DEFINE e == [at |-> at, v |-> v]
<1> USE WindowAssumption
<1>1. TypeOK /\ HoldsRetained /\ EmptyOutside /\ Ordered
  BY DEF IInv, WindowExact
<1>2. log \in Seq(Entry) /\ Len(log) \in Nat /\ clock \in Nat /\ len \in 0 .. Cap
  BY <1>1 DEF TypeOK
<1>3. /\ LastStamp \in Nat /\ at \in Nat /\ LastStamp <= at /\ at <= clock
      /\ \A i \in 1 .. Len(log) : log[i].at \in Nat /\ log[i].at <= LastStamp
  BY LastStampType, <1>2
<1>4. e \in Entry /\ e.at = at
  BY <1>3 DEF Entry
<1>5. log' = Append(log, e)
  BY DEF Push
<1>6. /\ log' \in Seq(Entry) /\ Len(log') = Len(log) + 1
      /\ log'[Len(log) + 1] = e
      /\ \A i \in 1 .. Len(log) : log'[i] = log[i]
  <2> HIDE DEF e
  <2> QED BY <1>2, <1>4, <1>5
<1>7. LastStamp' = at
  BY <1>2, <1>4, <1>6 DEF LastStamp
<1>8. PICK d \in 0 .. len :
        /\ len' = len + 1 - d
        /\ \A i \in 1 .. len' : Items'[i] = AllItems(v, at)[d + i]
        /\ \A i \in 1 .. d : Expendable(v, at, i)
        /\ ~Expendable(v, at, d + 1)
  BY <1>1, <1>3, PushShape
<1>9. TypeOK' /\ EmptyOutside'
  <2>1. /\ buf' \in [Slots -> Entry \cup {None}]
        /\ head' \in Slots /\ len' \in 1 .. Cap /\ EmptyOutside'
    BY <1>1, <1>3, PushShape
  <2>2. len' \in 0 .. Cap /\ clock' \in 0 .. MaxClock
    BY <2>1, <1>1 DEF TypeOK
  <2> QED BY <2>1, <2>2, <1>6 DEF TypeOK, Slots, Entry
<1>10. Ordered'
  <2>1. SUFFICES ASSUME NEW i \in 1 .. Len(log) + 1
                 PROVE  /\ log'[i].at <= clock
                        /\ \A j \in i .. Len(log) + 1 : log'[i].at <= log'[j].at
    BY <1>6 DEF Ordered
  <2>2. log'[i].at \in Nat /\ log'[i].at <= at
    BY <1>2, <1>3, <1>4, <1>6
  <2>3. ASSUME NEW j \in i .. Len(log) + 1 PROVE log'[i].at <= log'[j].at
    <3>1. CASE j = Len(log) + 1
      BY <3>1, <2>2, <1>4, <1>6
    <3>2. CASE j # Len(log) + 1
      <4>1. i \in 1 .. Len(log) /\ j \in i .. Len(log) /\ j \in 1 .. Len(log)
        BY <3>2, <1>2
      <4> QED BY <4>1, <1>1, <1>6 DEF Ordered
    <3> QED BY <3>1, <3>2
  <2> QED BY <2>2, <2>3, <1>2, <1>3
\* The entries live before the push and the new one, as a part of the history:
\* D entries of it were dropped earlier.
<1>11. PICK D \in Nat : D = Len(log) - len
  BY <1>1, <1>2 DEF HoldsRetained
<1>12. ASSUME NEW j \in 1 .. len + 1
       PROVE  AllItems(v, at)[j] = log'[D + j] /\ D + j \in 1 .. Len(log) + 1
  <2>1. D \in Nat /\ D + j \in 1 .. Len(log) + 1
    BY <1>11, <1>1, <1>2 DEF HoldsRetained
  <2>2. CASE j = len + 1
    BY <2>1, <2>2, <1>2, <1>6, <1>11 DEF AllItems
  <2>3. CASE j # len + 1
    <3>1. j \in 1 .. len /\ D + j \in 1 .. Len(log)
      BY <2>1, <2>3, <1>2, <1>11
    <3>2. Items[j] = log[D + j]
      BY <3>1, <1>1, <1>11 DEF HoldsRetained
    <3> QED BY <3>1, <3>2, <2>1, <1>2, <1>6 DEF AllItems
  <2> QED BY <2>2, <2>3
<1>13. \A i \in 1 .. Len(log) + 1 : log'[i].at \in Nat
  BY <1>2, <1>3, <1>4, <1>6
<1>14. ASSUME NEW j \in 1 .. len + 1
       PROVE  Retained(D + j)' <=> ~Expendable(v, at, j)
  <2>1. log'[D + j].at \in Nat /\ D + j \in Int /\ D \in Nat
    BY <1>12, <1>13
  <2>2. (D + j > Len(log) + 1 - Cap) <=> ~(j <= len + 1 - Cap)
    <3>1. Cap \in Nat /\ len \in Nat /\ j \in Nat
      BY <1>2
    <3> HIDE WindowAssumption
    <3> QED BY <3>1, <1>2, <1>11
  <2>3. (log'[D + j].at >= at - Window) <=> ~(AllItems(v, at)[j].at < at - Window)
    BY <2>1, <1>3, <1>12
  <2> QED BY <2>2, <2>3, <1>6, <1>7 DEF Retained, Expendable
<1>15. ASSUME NEW i \in 1 .. Len(log) + 1
       PROVE  Retained(i)' <=> i > D + d
  <2>1. D \in Nat /\ d \in Nat
    BY <1>2
  <2>2. CASE i <= D
    <3>1. i \in 1 .. Len(log) /\ ~(i > D)
      BY <2>1, <2>2, <1>2, <1>11
    <3>2. ~Retained(i)
      BY <3>1, <1>1, <1>11 DEF HoldsRetained
    <3>3. log'[i] = log[i] /\ log[i].at \in Nat
      BY <3>1, <1>3, <1>6
    <3>4. ~(i > Len(log) + 1 - Cap /\ log'[i].at >= at - Window)
      BY <3>1, <3>2, <3>3, <1>2, <1>3 DEF Retained
    <3> QED BY <3>4, <2>1, <2>2, <1>6, <1>7 DEF Retained
  <2>3. CASE i > D
    <3>1. i - D \in 1 .. len + 1 /\ D + (i - D) = i
      BY <2>1, <2>3, <1>2, <1>11
    <3>2. Retained(i)' <=> ~Expendable(v, at, i - D)
      BY <3>1, <1>14
    <3>3. CASE i - D <= d
      BY <3>1, <3>2, <3>3, <2>1, <1>8
    <3>4. CASE i - D > d
      <4>1. d + 1 \in 1 .. len + 1 /\ d + 1 <= i - D
        BY <3>1, <3>4, <2>1, <1>2
      <4>2. Retained(D + (d + 1))'
        BY <4>1, <1>8, <1>14
      <4>3. D + (d + 1) \in 1 .. Len(log) + 1 /\ i \in (D + (d + 1)) .. Len(log) + 1
        BY <4>1, <3>1, <2>1, <1>2, <1>11
      <4>4. log'[D + (d + 1)].at <= log'[i].at
        BY <4>3, <1>6, <1>10 DEF Ordered
      <4>5. log'[i].at \in Nat /\ log'[D + (d + 1)].at \in Nat
        BY <4>3, <1>13
      <4>6. D + (d + 1) > Len(log) + 1 - Cap /\ log'[D + (d + 1)].at >= at - Window
        BY <4>2, <1>6, <1>7 DEF Retained
      <4>7. i > Len(log) + 1 - Cap /\ log'[i].at >= at - Window
        <5>1. i > Len(log) + 1 - Cap
          BY <4>3, <4>6, <1>2, <2>1
        <5>2. log'[i].at >= at - Window
          <6>1. at - Window \in Int
            BY <1>3, WindowAssumption
          <6> QED BY <4>4, <4>5, <4>6, <6>1, AtLeastToo, Zenon
        <5> QED BY <5>1, <5>2
      <4> QED BY <4>7, <3>1, <3>4, <2>1, <1>6, <1>7 DEF Retained
    <3> QED BY <3>1, <3>3, <3>4, <2>1
  <2> QED BY <2>1, <2>2, <2>3
<1>16. HoldsRetained'
  <2>1. Len(log)' - len' = D + d /\ D + d >= 0
    BY <1>2, <1>6, <1>8, <1>11
  <2>2. ASSUME NEW i \in 1 .. len' PROVE Items'[i] = log'[(D + d) + i]
    <3>1. d + i \in 1 .. len + 1 /\ D + (d + i) = (D + d) + i
      BY <1>2, <1>8
    <3> QED BY <3>1, <1>8, <1>12
  <2> QED BY <2>1, <2>2, <1>6, <1>15 DEF HoldsRetained
<1> QED BY <1>9, <1>10, <1>16 DEF IInv, WindowExact

(* Time passing changes neither the ring nor the history. *)
LEMMA TickKeepsInvariant ==
  ASSUME IInv, Tick
  PROVE  IInv'
<1>1. /\ UNCHANGED <<buf, head, len, log>>
      /\ clock \in Nat /\ clock' = clock + 1
  BY DEF IInv, TypeOK, Tick
<1>2. TypeOK'
  BY <1>1, WindowAssumption DEF IInv, TypeOK, Slots, Entry, Tick
<1>3. WindowExact'
  BY <1>1 DEF IInv, WindowExact, HoldsRetained, EmptyOutside, Retained, LastStamp, Items,
              SlotOf, Slots
<1>4. Ordered'
  <2>1. SUFFICES ASSUME NEW i \in 1 .. Len(log)
                 PROVE  /\ log[i].at <= clock + 1
                        /\ \A j \in i .. Len(log) : log[i].at <= log[j].at
    BY <1>1 DEF Ordered
  <2>2. log[i].at <= clock /\ log[i].at \in Nat
    BY LastStampType DEF IInv, Ordered
  <2> QED BY <1>1, <2>2 DEF IInv, Ordered
<1> QED BY <1>2, <1>3, <1>4 DEF IInv

LEMMA NextKeepsInvariant == IInv /\ [Next]_vars => IInv'
<1> SUFFICES ASSUME IInv, [Next]_vars PROVE IInv'
  OBVIOUS
<1>1. CASE Tick
  BY <1>1, TickKeepsInvariant
<1>2. ASSUME NEW v \in Values, NEW at \in LastStamp .. clock,
             Push(v, at), UNCHANGED clock
      PROVE  IInv'
  BY <1>2, PushKeepsInvariant
<1>3. CASE UNCHANGED vars
  BY <1>3 DEF vars, IInv, TypeOK, WindowExact, HoldsRetained, EmptyOutside, Ordered,
              Retained, LastStamp, Items, SlotOf, Slots, Entry
<1> QED BY <1>1, <1>2, <1>3 DEF Next

LEMMA Invariance == Spec => []IInv
BY InitInvariant, NextKeepsInvariant, PTL DEF Spec

(* Whatever is pushed and whenever, the ring's indices stay in range and its
   slots hold entries or nothing (aggregate.rs push, evict). *)
THEOREM TypeCorrect == Spec => []TypeOK
<1>1. IInv => TypeOK
  BY DEF IInv
<1> QED BY <1>1, Invariance, PTL

(* The ring always holds exactly the last Cap pushes that are not older than
   the window at the newest one, in order, and nothing else. *)
THEOREM RingHoldsTheWindow == Spec => []WindowExact
<1>1. IInv => WindowExact
  BY DEF IInv
<1> QED BY <1>1, Invariance, PTL

-----------------------------------------------------------------------------
(* A push of the ring is a push of the sequence it stands for. *)
LEMMA PushRefines ==
  ASSUME IInv, NEW v \in Values, NEW at \in LastStamp .. clock, Push(v, at)
  PROVE  Abstract!Push(v, at)
<1> DEFINE e == [at |-> at, v |-> v]
           all == Append(Items, e)
<1> USE WindowAssumption
<1>1. TypeOK /\ EmptyOutside /\ at \in Nat /\ len \in 0 .. Cap
  BY LastStampType DEF IInv, WindowExact, TypeOK
<1>2. e \in Entry
  BY <1>1 DEF Entry
<1>3. Items \in Seq(Entry) /\ Len(Items) = len
  <2>1. ASSUME NEW i \in 1 .. len PROVE Items[i] \in Entry
    <3>1. i - 1 \in 0 .. len - 1 /\ i - 1 \in 0 .. Cap /\ head \in Slots
      BY <1>1 DEF TypeOK
    <3>2. SlotOf(head, i - 1) \in Slots
      BY <3>1, SlotInRange
    <3>3. buf[SlotOf(head, i - 1)] # None
      BY <3>1, <3>2, <1>1 DEF EmptyOutside
    <3> QED BY <3>2, <3>3, <1>1 DEF Items, TypeOK
  <2> QED BY <2>1, <1>1 DEF Items
<1>4. PICK d \in 0 .. len :
        /\ len' = len + 1 - d
        /\ \A i \in 1 .. len' : Items'[i] = AllItems(v, at)[d + i]
        /\ \A i \in 1 .. d : Expendable(v, at, i)
        /\ ~Expendable(v, at, d + 1)
  BY <1>1, PushShape
<1>5. Len(all) = len + 1 /\ all \in Seq(Entry) /\ \A i \in 1 .. len + 1 : all[i] = AllItems(v, at)[i]
  <2> HIDE DEF e
  <2>1. Len(all) = len + 1 /\ all \in Seq(Entry) /\ all[len + 1] = e
        /\ \A i \in 1 .. len : all[i] = Items[i]
    BY <1>2, <1>3
  <2>2. ASSUME NEW i \in 1 .. len + 1 PROVE all[i] = AllItems(v, at)[i]
    <3>1. CASE i = len + 1
      BY <3>1, <2>1, <1>1 DEF AllItems, e
    <3>2. CASE i # len + 1
      BY <3>2, <2>1, <1>1 DEF AllItems
    <3> QED BY <3>1, <3>2
  <2> QED BY <2>1, <2>2
<1>6. \A i \in 1 .. len + 1 :
        Expendable(v, at, i) <=> (i <= Len(all) - Cap \/ all[i].at < at - Window)
  <2> HIDE DEF all
  <2> SUFFICES ASSUME NEW i \in 1 .. len + 1
               PROVE  Expendable(v, at, i) <=>
                        (i <= Len(all) - Cap \/ all[i].at < at - Window)
    OBVIOUS
  <2>1. all[i] = AllItems(v, at)[i] /\ Len(all) = len + 1
    BY <1>5
  <2>2. Len(all) - Cap = len + 1 - Cap
    BY <2>1, <1>1
  <2>3. i <= Len(all) - Cap <=> i <= len + 1 - Cap
    BY <2>2
  <2>4. all[i].at < at - Window <=> AllItems(v, at)[i].at < at - Window
    BY <2>1
  <2> QED BY <2>3, <2>4 DEF Expendable
<1>7. Items' = SubSeq(all, d + 1, Len(all))
  <2> HIDE DEF all
  <2>1. SubSeq(all, d + 1, len + 1) = [i \in 1 .. (len + 1) - (d + 1) + 1 |-> all[(d + 1) + i - 1]]
    BY <1>1, <1>4, <1>5
  <2>2. (len + 1) - (d + 1) + 1 = len' /\ len' \in Nat
    BY <1>1, <1>4
  <2>3. Items' = [i \in 1 .. len' |-> Items'[i]]
    BY DEF Items
  <2>4. ASSUME NEW i \in 1 .. len' PROVE Items'[i] = all[(d + 1) + i - 1]
    <3>1. d + i \in 1 .. len + 1 /\ (d + 1) + i - 1 = d + i
      BY <1>1, <1>4, <2>2
    <3> QED BY <3>1, <1>4, <1>5
  <2> QED BY <2>1, <2>2, <2>3, <2>4, <1>5
<1>8. /\ d \in 0 .. Len(Items)
      /\ \A i \in 1 .. d : i <= Len(all) - Cap \/ all[i].at < at - Window
      /\ ~(d + 1 <= Len(all) - Cap \/ all[d + 1].at < at - Window)
  <2> HIDE DEF all
  <2>1. \A i \in 1 .. d : i \in 1 .. len + 1
    BY <1>1
  <2>2. d + 1 \in 1 .. len + 1
    BY <1>1
  <2> QED BY <2>1, <2>2, <1>3, <1>4, <1>6
<1> QED BY <1>7, <1>8 DEF Abstract!Push

LEMMA NextRefines == IInv /\ [Next]_vars => [Abstract!Next]_Items
<1> SUFFICES ASSUME IInv, [Next]_vars PROVE [Abstract!Next]_Items
  OBVIOUS
<1>1. CASE Tick
  BY <1>1 DEF Tick, Items, SlotOf
<1>2. ASSUME NEW v \in Values, NEW at \in LastStamp .. clock,
             Push(v, at)
      PROVE  Abstract!Next
  <2>1. Abstract!Push(v, at)
    BY <1>2, PushRefines
  <2>2. at \in 0 .. MaxClock
    BY <1>2, LastStampType, WindowAssumption DEF IInv, TypeOK
  <2>3. at >= Abstract!NewestStamp
    <3>1. len \in Nat /\ Len(log) \in Nat /\ LastStamp \in Nat
      BY LastStampType, WindowAssumption DEF IInv, TypeOK
    <3>2. CASE len = 0
      <4>1. Items = << >>
        BY <3>2 DEF Items
      <4> QED BY <4>1, <2>2 DEF Abstract!NewestStamp
    <3>3. CASE len # 0
      <4>1. len \in 1 .. len /\ Len(Items) = len
        BY <3>1, <3>3 DEF Items
      <4>2. Items[len] = log[Len(log)] /\ Len(log) # 0
        BY <3>1, <3>3, <4>1 DEF IInv, WindowExact, HoldsRetained
      <4>3. Items # << >> /\ log # << >>
        BY <4>1, <4>2, <3>3
      <4>4. Abstract!NewestStamp = LastStamp
        BY <4>1, <4>2, <4>3 DEF Abstract!NewestStamp, LastStamp
      <4> QED BY <4>4, <3>1
    <3> QED BY <3>2, <3>3
  <2> QED BY <2>1, <2>2, <2>3 DEF Abstract!Next
<1>3. CASE UNCHANGED vars
  BY <1>3 DEF vars, Items, SlotOf
<1> QED BY <1>1, <1>2, <1>3 DEF Next

LEMMA InitRefines == Init => Abstract!Init
<1> SUFFICES ASSUME Init PROVE Items = << >>
  BY DEF Abstract!Init
<1> QED BY DEF Init, Items

(* The ring of CAP slots implements the bounded, time-limited sequence. *)
THEOREM RingImplementsRateWindow == Spec => ImplementsRateWindow
<1>1. Init => Abstract!Init
  BY InitRefines
<1>2. IInv /\ [Next]_vars => [Abstract!Next]_Items
  BY NextRefines
<1> QED BY <1>1, <1>2, Invariance, PTL DEF Spec, ImplementsRateWindow, Abstract!Spec

-----------------------------------------------------------------------------
(***************************************************************************)
(* The protocol counters, the other half of IfaceWindow (aggregate.rs).    *)
(*                                                                         *)
(* The argument: a frame is of one of the kinds the tables have a place    *)
(* for (FrameShape), so that counting it adds one to one place of each     *)
(* table of its direction, and one to the number of packets captured of    *)
(* each set it belongs to (HowManyMore).                                   *)
(***************************************************************************)
Places(s, those) == {i \in DOMAIN s : s[i] \in those}

LEMMA PlacesCountable ==
  ASSUME NEW s \in Seq(Packets), NEW those
  PROVE  IsFiniteSet(Places(s, those)) /\ Cardinality(Places(s, those)) \in Nat
<1>1. DOMAIN s = 1 .. Len(s) /\ Len(s) \in Nat
  OBVIOUS
<1>2. IsFiniteSet(1 .. Len(s))
  BY <1>1, FS_Interval
<1>3. Places(s, those) \subseteq 1 .. Len(s)
  BY <1>1, Zenon DEF Places
<1>4. IsFiniteSet(Places(s, those))
  BY <1>2, <1>3, FS_Subset, Zenon
<1> QED BY <1>4, FS_CardinalityType, Zenon

(* One more packet is one more of each set it belongs to. *)
LEMMA PlacesMore ==
  ASSUME NEW s \in Seq(Packets), NEW p \in Packets, NEW those
  PROVE  Cardinality(Places(Append(s, p), those))
           = Cardinality(Places(s, those)) + (IF p \in those THEN 1 ELSE 0)
<1> DEFINE u == Append(s, p)
           m == Len(s) + 1
<1>1. /\ Len(s) \in Nat /\ DOMAIN s = 1 .. Len(s) /\ DOMAIN u = 1 .. m
      /\ \A i \in 1 .. Len(s) : u[i] = s[i]
      /\ u[m] = p
  OBVIOUS
<1>2. m \notin 1 .. Len(s) /\ \A k : k \in 1 .. m <=> k \in 1 .. Len(s) \/ k = m
  BY <1>1
<1> HIDE DEF u, m
<1>3. \A k : k \in Places(u, those) <=> k \in Places(s, those) \/ (k = m /\ p \in those)
  BY <1>1, <1>2, Zenon DEF Places
<1>4. m \notin Places(s, those)
  BY <1>1, <1>2, Zenon DEF Places
<1>5. IsFiniteSet(Places(s, those)) /\ Cardinality(Places(s, those)) \in Nat
  BY PlacesCountable, Zenon
<1>6. CASE p \in those
  <2>1. Places(u, those) = Places(s, those) \cup {m}
    BY <1>3, <1>6, Zenon
  <2>2. Cardinality(Places(s, those) \cup {m}) = Cardinality(Places(s, those)) + 1
    BY <1>4, <1>5, FS_AddElement
  <2> QED BY <1>6, <2>1, <2>2 DEF u
<1>7. CASE p \notin those
  <2>1. Places(u, those) = Places(s, those)
    BY <1>3, <1>7, Zenon
  <2> QED BY <1>5, <1>7, <2>1 DEF u
<1> QED BY <1>6, <1>7, Zenon

LEMMA HowManyType ==
  ASSUME captured \in Seq(Packets), NEW those
  PROVE  HowMany(those) \in Nat
BY PlacesCountable, Zenon DEF HowMany, Places

LEMMA HowManyMore ==
  ASSUME captured \in Seq(Packets), NEW p \in Packets, captured' = Append(captured, p),
         NEW those
  PROVE  HowMany(those)' = HowMany(those) + (IF p \in those THEN 1 ELSE 0)
<1>1. HowMany(those)' = Cardinality(Places(captured', those))
  BY Zenon DEF HowMany, Places
<1>2. HowMany(those) = Cardinality(Places(captured, those))
  BY Zenon DEF HowMany, Places
<1>3. Cardinality(Places(Append(captured, p), those))
        = Cardinality(Places(captured, those)) + (IF p \in those THEN 1 ELSE 0)
  BY PlacesMore, Zenon
<1> QED BY <1>1, <1>2, <1>3, Zenon

LEMMA HowManyAtFirst ==
  ASSUME captured = << >>, NEW those
  PROVE  HowMany(those) = 0
<1>1. {i \in DOMAIN captured : captured[i] \in those} = {}
  OBVIOUS
<1> QED BY <1>1, FS_EmptySet, Zenon DEF HowMany

LEMMA HintType ==
  ASSUME NEW port
  PROVE  HintOf(port) \in AppHints
BY DEF HintOf, AppHints

LEMMA FrameShape ==
  ASSUME NEW p \in Packets, Decode(p) # Rejected
  PROVE  Classified(p) \in Frames
           /\ (Classified(p).l4 # "Tcp" => Classified(p).flags = {})
<1> DEFINE decoded == DecodeL3(p)
           nothing == [l4 |-> "Unknown", flow |-> FALSE, flags |-> {}, app |-> "Unknown"]
           Decoded(d) == /\ d.l4 \in Protocol4 /\ d.flow \in BOOLEAN /\ d.flags \in SUBSET Flags
                         /\ d.app \in AppHints /\ (d.l4 # "Tcp" => d.flags = {})
           Frame(f) == f \in Frames /\ (f.l4 # "Tcp" => f.flags = {})
<1>1. /\ p.link \in {"Ethernet", "Loopback", "Other"} /\ p.l3 \in Protocol3
      /\ p.transport \in Protocol4 /\ p.flags \subseteq Flags
      /\ (p.transport # "Tcp" => p.flags = {})
  BY ProtocolsAssumption
<1>2. FromPorts(p.srcPort, p.dstPort) \in AppHints
  BY HintType, Zenon DEF FromPorts
<1>3. Decoded(decoded) /\ Decoded(nothing)
  BY <1>1, <1>2 DEF DecodeL3, AppHints, Protocol4
<1> HIDE DEF decoded, nothing
<1>4. ASSUME NEW d, Decoded(d) PROVE Frame(FrameOf(p, d))
  BY <1>1, <1>4 DEF FrameOf, Frames, Directions
<1>5. Frame(Decode(p))
  <2>1. CASE p.link = "Ethernet"
    BY <1>3, <1>4, <2>1 DEF Decode, DecodeEthernet, decoded
  <2>2. CASE p.link = "Loopback"
    BY <1>3, <1>4, <2>2 DEF Decode, DecodeLoopback, decoded, nothing
  <2>3. CASE p.link = "Other"
    BY <2>3 DEF Decode
  <2> QED BY <1>1, <2>1, <2>2, <2>3
<1>6. Direction(p.src, p.dst) \in Directions
  BY DEF Direction, Directions
<1>7. ASSUME NEW f, Frame(f), NEW d \in Directions PROVE Frame([f EXCEPT !.dir = d])
  BY <1>7 DEF Frames
<1>8. Frame([Decode(p) EXCEPT !.dir = Direction(p.src, p.dst)])
  BY <1>5, <1>6, <1>7
<1> QED BY <1>5, <1>8, Zenon DEF Classified

(* The places of the kinds in the three tables. *)
LEMMA L3Places ==
  /\ L3Idx("Ipv4") = 0 /\ L3Idx("Ipv6") = 1 /\ L3Idx("Arp") = 2 /\ L3Idx("Other") = 3
BY DEF L3Idx

LEMMA L4Places ==
  /\ L4Idx("Tcp") = 0 /\ L4Idx("Udp") = 1 /\ L4Idx("Icmp") = 2 /\ L4Idx("IcmpV6") = 3
  /\ L4Idx("Unknown") = 6
BY DEF L4Idx, L4Names

LEMMA AppPlaces ==
  /\ AppIdx("Unknown") = 0 /\ AppIdx("Http") = 0 /\ AppIdx("Https") = 1
  /\ AppIdx("Ssh") = 2 /\ AppIdx("Dns") = 3 /\ AppIdx("Smtp") = 4 /\ AppIdx("Imap") = 5
  /\ AppIdx("Pop3") = 6 /\ AppIdx("Ntp") = 7 /\ AppIdx("Mdns") = 8
  /\ AppIdx("Dhcp") = 9 /\ AppIdx("Quic") = 10 /\ AppIdx("Tls") = 11
BY DEF AppIdx, AppNames

(* Row u is row t with one more at place i; n is the last place. *)
OneMoreAt(t, u, n, i) ==
  /\ t \in [0 .. n -> Nat] /\ u \in [0 .. n -> Nat] /\ i \in 0 .. n
  /\ \A k \in 0 .. n : u[k] = t[k] + (IF k = i THEN 1 ELSE 0)

LEMMA FourMore ==
  ASSUME NEW n \in Nat, NEW t, NEW u, NEW i, OneMoreAt(t, u, n, i), NEW k \in Nat, k + 3 <= n
  PROVE  /\ FourFrom(t, k) \in Nat
         /\ FourFrom(u, k) = FourFrom(t, k) + (IF i \in k .. k + 3 THEN 1 ELSE 0)
<1>1. k \in 0 .. n /\ k + 1 \in 0 .. n /\ k + 2 \in 0 .. n /\ k + 3 \in 0 .. n
  OBVIOUS
<1>2. /\ t[k] \in Nat /\ t[k + 1] \in Nat /\ t[k + 2] \in Nat /\ t[k + 3] \in Nat
      /\ u[k] = t[k] + (IF k = i THEN 1 ELSE 0)
      /\ u[k + 1] = t[k + 1] + (IF k + 1 = i THEN 1 ELSE 0)
      /\ u[k + 2] = t[k + 2] + (IF k + 2 = i THEN 1 ELSE 0)
      /\ u[k + 3] = t[k + 3] + (IF k + 3 = i THEN 1 ELSE 0)
      /\ i \in Nat
  BY <1>1 DEF OneMoreAt
<1> QED BY <1>2 DEF FourFrom

LEMMA L3TotalMore ==
  ASSUME NEW t, NEW u, NEW i, OneMoreAt(t, u, 3, i)
  PROVE  L3Total(u) = L3Total(t) + 1
<1>1. i \in 0 .. 3
  BY DEF OneMoreAt
<1> QED BY <1>1, FourMore DEF L3Total

LEMMA L4TotalMore ==
  ASSUME NEW t, NEW u, NEW i, OneMoreAt(t, u, 7, i)
  PROVE  L4Total(u) = L4Total(t) + 1
<1>1. i \in 0 .. 7
  BY DEF OneMoreAt
<1> QED BY <1>1, FourMore DEF L4Total

LEMMA AppTotalMore ==
  ASSUME NEW t, NEW u, NEW i, OneMoreAt(t, u, 11, i)
  PROVE  AppTotal(u) = AppTotal(t) + 1
<1>1. i \in 0 .. 11
  BY DEF OneMoreAt
<1> QED BY <1>1, FourMore DEF AppTotal

(* Counting at a place of one direction's row leaves the other rows alone. *)
CountedOnce(n, old, new, dir, i) ==
  /\ new \in [Directions -> [0 .. n -> Nat]]
  /\ OneMoreAt(old[dir], new[dir], n, i)
  /\ \A d \in Directions : d # dir => new[d] = old[d]

LEMMA CountOne ==
  ASSUME NEW n \in Nat, NEW table \in [Directions -> [0 .. n -> Nat]],
         NEW dir \in Directions, NEW i \in 0 .. n
  PROVE  CountedOnce(n, table, Count(table, dir, i), dir, i)
BY DEF Count, OneMoreAt, CountedOnce

FrameIndices(f) ==
  L3Idx(f.l3) \in 0 .. 3 /\ L4Idx(f.l4) \in 0 .. 7 /\ AppIdx(f.app) \in 0 .. 11

LEMMA FrameHasPlaces ==
  ASSUME NEW f \in Frames
  PROVE  FrameIndices(f)
<1>1. L3Idx(f.l3) \in 0 .. 3
  BY L3Places DEF Frames, Protocol3
<1>2. L4Idx(f.l4) \in 0 .. 7
  BY L4Places DEF Frames, Protocol4
<1>3. AppIdx(f.app) \in 0 .. 11
  BY AppPlaces DEF Frames, AppHints
<1> QED BY <1>1, <1>2, <1>3 DEF FrameIndices

(* What ingest() does, row by row. *)
RowsAfter(f) ==
  /\ OneMoreAt(l3[f.dir], l3'[f.dir], 3, L3Idx(f.l3))
  /\ OneMoreAt(l4[f.dir], l4'[f.dir], 7, L4Idx(f.l4))
  /\ OneMoreAt(apps[f.dir], apps'[f.dir], 11, AppIdx(f.app))
  /\ \A d \in Directions : d # f.dir => l3'[d] = l3[d] /\ l4'[d] = l4[d] /\ apps'[d] = apps[d]
  /\ \A d \in Directions : packets'[d] = packets[d] + (IF d = f.dir THEN 1 ELSE 0)

FlagsAfter(f) ==
  /\ \A d \in Directions :
       /\ flagged'[d].syn = flagged[d].syn + (IF d = f.dir /\ IsSyn(f.flags) THEN 1 ELSE 0)
       /\ flagged'[d].rst = flagged[d].rst + (IF d = f.dir /\ "RST" \in f.flags THEN 1 ELSE 0)
  /\ flagTotal'.syn = flagTotal.syn + (IF IsSyn(f.flags) THEN 1 ELSE 0)
  /\ flagTotal'.fin = flagTotal.fin + (IF "FIN" \in f.flags THEN 1 ELSE 0)
  /\ flagTotal'.rst = flagTotal.rst + (IF "RST" \in f.flags THEN 1 ELSE 0)

TableTypes ==
  /\ packets \in [Directions -> Nat]
  /\ l3 \in [Directions -> [0 .. 3 -> Nat]]
  /\ l4 \in [Directions -> [0 .. 7 -> Nat]]
  /\ apps \in [Directions -> [0 .. 11 -> Nat]]

FlagTypes ==
  /\ flagged \in [Directions -> [syn : Nat, rst : Nat]]
  /\ flagTotal \in [syn : Nat, fin : Nat, rst : Nat]

LEMMA IngestRows ==
  ASSUME TableTypes, NEW f \in Frames, Ingest(f)
  PROVE  TableTypes' /\ RowsAfter(f)
<1>1. f.dir \in Directions
  BY DEF Frames
<1>2. L3Idx(f.l3) \in 0 .. 3 /\ L4Idx(f.l4) \in 0 .. 7 /\ AppIdx(f.app) \in 0 .. 11
  BY FrameHasPlaces DEF FrameIndices
<1>3. /\ l3' = Count(l3, f.dir, L3Idx(f.l3))
      /\ l4' = Count(l4, f.dir, L4Idx(f.l4))
      /\ apps' = Count(apps, f.dir, AppIdx(f.app))
      /\ packets' = [packets EXCEPT ![f.dir] = packets[f.dir] + 1]
  BY DEF Ingest
<1>4. CountedOnce(3, l3, l3', f.dir, L3Idx(f.l3))
  BY <1>1, <1>2, <1>3, CountOne DEF TableTypes
<1>5. CountedOnce(7, l4, l4', f.dir, L4Idx(f.l4))
  BY <1>1, <1>2, <1>3, CountOne DEF TableTypes
<1>6. CountedOnce(11, apps, apps', f.dir, AppIdx(f.app))
  BY <1>1, <1>2, <1>3, CountOne DEF TableTypes
<1>7. /\ packets' \in [Directions -> Nat]
      /\ \A d \in Directions : packets'[d] = packets[d] + (IF d = f.dir THEN 1 ELSE 0)
  BY <1>1, <1>3 DEF TableTypes
<1> QED BY <1>4, <1>5, <1>6, <1>7, Zenon DEF TableTypes, RowsAfter, CountedOnce

LEMMA IngestFlags ==
  ASSUME FlagTypes, NEW f \in Frames, Ingest(f)
  PROVE  FlagTypes' /\ FlagsAfter(f)
<1>1. f.dir \in Directions
  BY DEF Frames
<1> DEFINE s == IF IsSyn(f.flags) THEN 1 ELSE 0
           r == IF "RST" \in f.flags THEN 1 ELSE 0
           n == IF "FIN" \in f.flags THEN 1 ELSE 0
<1>2. s \in Nat /\ r \in Nat /\ n \in Nat
  OBVIOUS
<1>3. /\ flagged' = [flagged EXCEPT ![f.dir].syn = @ + s, ![f.dir].rst = @ + r]
      /\ flagTotal' = [syn |-> flagTotal.syn + s, fin |-> flagTotal.fin + n,
                       rst |-> flagTotal.rst + r]
  BY Zenon DEF Ingest
<1> HIDE DEF s, r, n
<1>4. /\ flagged' \in [Directions -> [syn : Nat, rst : Nat]]
      /\ \A d \in Directions :
           /\ flagged'[d].syn = flagged[d].syn + (IF d = f.dir THEN s ELSE 0)
           /\ flagged'[d].rst = flagged[d].rst + (IF d = f.dir THEN r ELSE 0)
  BY <1>1, <1>2, <1>3 DEF FlagTypes
<1>5. flagTotal' \in [syn : Nat, fin : Nat, rst : Nat]
  BY <1>2, <1>3 DEF FlagTypes
<1>6. /\ flagTotal'.syn = flagTotal.syn + s
      /\ flagTotal'.fin = flagTotal.fin + n
      /\ flagTotal'.rst = flagTotal.rst + r
  BY <1>3
<1>7. FlagsAfter(f)
  <2>1. ASSUME NEW d PROVE
          /\ (IF d = f.dir THEN s ELSE 0) = (IF d = f.dir /\ IsSyn(f.flags) THEN 1 ELSE 0)
          /\ (IF d = f.dir THEN r ELSE 0) = (IF d = f.dir /\ "RST" \in f.flags THEN 1 ELSE 0)
    BY DEF s, r
  <2> QED BY <1>4, <1>6, <2>1, Zenon DEF FlagsAfter, s, r, n
<1> QED BY <1>4, <1>5, <1>7, Zenon DEF FlagTypes

(* The label of a row names the kind that is counted at its place. *)
LEMMA LabelsOfPlaces ==
  ASSUME NEW f \in Frames
  PROVE  /\ \A i \in 1 .. 4 : i - 1 = L3Idx(f.l3) <=> f.l3 = L3Rows[i]
         /\ \A i \in 1 .. 7 : i - 1 = L4Idx(f.l4) <=> f.l4 = L4Rows[i]
         /\ \A i \in 2 .. 5 : i - 1 = AppIdx(f.app) <=> f.app = AppRows[i]
<1>1. \A i \in 1 .. 4 : i - 1 = L3Idx(f.l3) <=> f.l3 = L3Rows[i]
  BY L3Places DEF Frames, Protocol3, L3Rows
<1>2. \A i \in 1 .. 7 : i - 1 = L4Idx(f.l4) <=> f.l4 = L4Rows[i]
  BY L4Places DEF Frames, Protocol4, L4Rows
<1>3. \A i \in 2 .. 5 : i - 1 = AppIdx(f.app) <=> f.app = AppRows[i]
  BY AppPlaces DEF Frames, AppHints, AppRows
<1> QED BY <1>1, <1>2, <1>3

(* A packet that becomes frame f is captured and counted. *)
Counts(p, f) ==
  /\ p \in Packets /\ Decode(p) # Rejected /\ f = Classified(p)
  /\ f \in Frames /\ (f.l4 # "Tcp" => f.flags = {})
  /\ captured \in Seq(Packets) /\ captured' = Append(captured, p)
  /\ Ingest(f)

(* The breakdowns in terms of what decoding makes of the packets. *)
Counted(d) == {p \in Packets : Decode(p) # Rejected /\ Classified(p).dir = d}

EachDecodedOnce(d) ==
  /\ packets[d] = HowMany(Counted(d))
  /\ L3Total(l3[d]) = packets[d]
  /\ L4Total(l4[d]) = packets[d]
  /\ AppTotal(apps[d]) = packets[d]

OfKind(d, what, value) == {p \in Counted(d) : Classified(p)[what] = value}

RowsCountDecoded(d) ==
  /\ \A i \in DOMAIN L3Rows : l3[d][i - 1] = HowMany(OfKind(d, "l3", L3Rows[i]))
  /\ \A i \in DOMAIN L4Rows : l4[d][i - 1] = HowMany(OfKind(d, "l4", L4Rows[i]))
  /\ \A i \in 2 .. 5 : apps[d][i - 1] = HowMany(OfKind(d, "app", AppRows[i]))

DecodedAgree ==
  /\ \A d \in Directions : EachDecodedOnce(d) /\ RowsCountDecoded(d)
  /\ FlagsOfTcp

LEMMA CountedMore ==
  ASSUME NEW p, NEW f, Counts(p, f), NEW d \in Directions
  PROVE  /\ HowMany(Counted(d)) \in Nat
         /\ HowMany(Counted(d))' = HowMany(Counted(d)) + (IF d = f.dir THEN 1 ELSE 0)
<1>1. p \in Counted(d) <=> d = f.dir
  BY Zenon DEF Counts, Counted
<1>2. HowMany(Counted(d))'
        = HowMany(Counted(d)) + (IF p \in Counted(d) THEN 1 ELSE 0)
  BY HowManyMore, Zenon DEF Counts
<1>3. HowMany(Counted(d)) \in Nat
  BY HowManyType, Zenon DEF Counts
<1> QED BY <1>1, <1>2, <1>3, Zenon

LEMMA OfKindMore ==
  ASSUME NEW p, NEW f, Counts(p, f), NEW d \in Directions, NEW what, NEW value
  PROVE  HowMany(OfKind(d, what, value))'
           = HowMany(OfKind(d, what, value)) + (IF d = f.dir /\ f[what] = value THEN 1 ELSE 0)
<1>1. p \in OfKind(d, what, value) <=> d = f.dir /\ f[what] = value
  BY Zenon DEF Counts, Counted, OfKind
<1>2. HowMany(OfKind(d, what, value))'
        = HowMany(OfKind(d, what, value)) + (IF p \in OfKind(d, what, value) THEN 1 ELSE 0)
  BY HowManyMore, Zenon DEF Counts
<1> QED BY <1>1, <1>2, Zenon

LEMMA CountingKeepsTotals ==
  ASSUME NEW p, NEW f, Counts(p, f), TableTypes, RowsAfter(f), NEW d \in Directions,
         EachDecodedOnce(d)
  PROVE  EachDecodedOnce(d)'
<1>1. packets'[d] = packets[d] + (IF d = f.dir THEN 1 ELSE 0)
  BY Zenon DEF RowsAfter
<1>2. HowMany(Counted(d))' = HowMany(Counted(d)) + (IF d = f.dir THEN 1 ELSE 0)
  BY CountedMore, Zenon
<1>3. CASE d = f.dir
  <2>1. /\ L3Total(l3'[d]) = L3Total(l3[d]) + 1
        /\ L4Total(l4'[d]) = L4Total(l4[d]) + 1
        /\ AppTotal(apps'[d]) = AppTotal(apps[d]) + 1
    BY <1>3, L3TotalMore, L4TotalMore, AppTotalMore, Zenon DEF RowsAfter
  <2> QED BY <1>1, <1>2, <1>3, <2>1, Zenon DEF EachDecodedOnce
<1>4. CASE d # f.dir
  <2>1. l3'[d] = l3[d] /\ l4'[d] = l4[d] /\ apps'[d] = apps[d]
    BY <1>4, Zenon DEF RowsAfter
  <2>2. packets[d] \in Nat
    BY DEF TableTypes
  <2>3. packets'[d] = packets[d] /\ HowMany(Counted(d))' = HowMany(Counted(d))
    BY <1>1, <1>2, <1>4, <2>2, CountedMore
  <2> QED BY <2>1, <2>3, Zenon DEF EachDecodedOnce
<1> QED BY <1>3, <1>4

(* Row new of direction d after a frame of direction dir is counted at `at`. *)
RowStep(n, old, new, dir, d, at) ==
  /\ old \in [0 .. n -> Nat]
  /\ d = dir => OneMoreAt(old, new, n, at)
  /\ d # dir => new = old

LEMMA RowMore ==
  ASSUME NEW n \in Nat, NEW old, NEW new, NEW dir, NEW d, NEW at, RowStep(n, old, new, dir, d, at),
         NEW i \in 0 .. n
  PROVE  new[i] = old[i] + (IF d = dir /\ i = at THEN 1 ELSE 0)
<1>1. old[i] \in Nat
  BY DEF RowStep
<1>2. CASE d = dir
  BY <1>2 DEF RowStep, OneMoreAt
<1>3. CASE d # dir
  BY <1>1, <1>3 DEF RowStep
<1> QED BY <1>2, <1>3

LEMMA CountingKeepsRows ==
  ASSUME NEW p, NEW f, Counts(p, f), TableTypes, RowsAfter(f), NEW d \in Directions,
         RowsCountDecoded(d)
  PROVE  RowsCountDecoded(d)'
<1>1. f \in Frames /\ f.dir \in Directions
  BY DEF Counts, Frames
<1>2. /\ l3[d] \in [0 .. 3 -> Nat] /\ l4[d] \in [0 .. 7 -> Nat] /\ apps[d] \in [0 .. 11 -> Nat]
  BY DEF TableTypes
<1>3. DOMAIN L3Rows = 1 .. 4 /\ DOMAIN L4Rows = 1 .. 7
  BY DEF L3Rows, L4Rows
<1>4. ASSUME NEW i \in 1 .. 4
      PROVE  l3'[d][i - 1] = HowMany(OfKind(d, "l3", L3Rows[i]))'
  <2>1. l3'[d][i - 1] = l3[d][i - 1] + (IF d = f.dir /\ i - 1 = L3Idx(f.l3) THEN 1 ELSE 0)
    <3>1. i - 1 \in 0 .. 3 /\ 3 \in Nat
      OBVIOUS
    <3>2. RowStep(3, l3[d], l3'[d], f.dir, d, L3Idx(f.l3))
      BY <1>2, Zenon DEF RowsAfter, RowStep
    <3> QED BY <3>1, <3>2, RowMore
  <2>2. l3[d][i - 1] = HowMany(OfKind(d, "l3", L3Rows[i]))
    BY <1>3, Zenon DEF RowsCountDecoded, OfKind
  <2>3. i - 1 = L3Idx(f.l3) <=> f["l3"] = L3Rows[i]
    BY <1>1, LabelsOfPlaces
  <2>4. HowMany(OfKind(d, "l3", L3Rows[i]))'
          = HowMany(OfKind(d, "l3", L3Rows[i])) + (IF d = f.dir /\ f["l3"] = L3Rows[i] THEN 1 ELSE 0)
    BY OfKindMore
  <2> QED BY <2>1, <2>2, <2>3, <2>4
<1>5. ASSUME NEW i \in 1 .. 7
      PROVE  l4'[d][i - 1] = HowMany(OfKind(d, "l4", L4Rows[i]))'
  <2>1. l4'[d][i - 1] = l4[d][i - 1] + (IF d = f.dir /\ i - 1 = L4Idx(f.l4) THEN 1 ELSE 0)
    <3>1. i - 1 \in 0 .. 7 /\ 7 \in Nat
      OBVIOUS
    <3>2. RowStep(7, l4[d], l4'[d], f.dir, d, L4Idx(f.l4))
      BY <1>2, Zenon DEF RowsAfter, RowStep
    <3> QED BY <3>1, <3>2, RowMore
  <2>2. l4[d][i - 1] = HowMany(OfKind(d, "l4", L4Rows[i]))
    BY <1>3, Zenon DEF RowsCountDecoded, OfKind
  <2>3. i - 1 = L4Idx(f.l4) <=> f["l4"] = L4Rows[i]
    BY <1>1, LabelsOfPlaces
  <2>4. HowMany(OfKind(d, "l4", L4Rows[i]))'
          = HowMany(OfKind(d, "l4", L4Rows[i])) + (IF d = f.dir /\ f["l4"] = L4Rows[i] THEN 1 ELSE 0)
    BY OfKindMore
  <2> QED BY <2>1, <2>2, <2>3, <2>4
<1>6. ASSUME NEW i \in 2 .. 5
      PROVE  apps'[d][i - 1] = HowMany(OfKind(d, "app", AppRows[i]))'
  <2>1. apps'[d][i - 1] = apps[d][i - 1] + (IF d = f.dir /\ i - 1 = AppIdx(f.app) THEN 1 ELSE 0)
    <3>1. i - 1 \in 0 .. 11 /\ 11 \in Nat
      OBVIOUS
    <3>2. RowStep(11, apps[d], apps'[d], f.dir, d, AppIdx(f.app))
      BY <1>2, Zenon DEF RowsAfter, RowStep
    <3> QED BY <3>1, <3>2, RowMore
  <2>2. apps[d][i - 1] = HowMany(OfKind(d, "app", AppRows[i]))
    BY Zenon DEF RowsCountDecoded, OfKind
  <2>3. i - 1 = AppIdx(f.app) <=> f["app"] = AppRows[i]
    BY <1>1, LabelsOfPlaces
  <2>4. HowMany(OfKind(d, "app", AppRows[i]))'
          = HowMany(OfKind(d, "app", AppRows[i])) + (IF d = f.dir /\ f["app"] = AppRows[i] THEN 1 ELSE 0)
    BY OfKindMore
  <2> QED BY <2>1, <2>2, <2>3, <2>4
<1> QED BY <1>3, <1>4, <1>5, <1>6, Zenon DEF RowsCountDecoded, OfKind

LEMMA CountingKeepsFlags ==
  ASSUME NEW p, NEW f, Counts(p, f), TableTypes, RowsAfter(f), FlagTypes, FlagsAfter(f),
         FlagsOfTcp
  PROVE  FlagsOfTcp'
<1> DEFINE tcp == IF f.l4 = "Tcp" THEN 1 ELSE 0
           s == IF IsSyn(f.flags) THEN 1 ELSE 0
           r == IF "RST" \in f.flags THEN 1 ELSE 0
           n == IF "FIN" \in f.flags THEN 1 ELSE 0
<1>1. f \in Frames /\ f.dir \in Directions /\ f.l4 \in Protocol4
  BY DEF Counts, Frames
<1>2. s \in Nat /\ r \in Nat /\ n \in Nat /\ tcp \in Nat /\ s <= tcp /\ r <= tcp /\ n <= tcp
  BY DEF Counts, IsSyn
<1>3. 0 = L4Idx(f.l4) <=> f.l4 = "Tcp"
  BY <1>1, L4Places DEF Protocol4
<1>4. ASSUME NEW d \in Directions
      PROVE  /\ l4'[d][0] = l4[d][0] + (IF d = f.dir THEN tcp ELSE 0)
             /\ flagged'[d].syn = flagged[d].syn + (IF d = f.dir THEN s ELSE 0)
             /\ flagged'[d].rst = flagged[d].rst + (IF d = f.dir THEN r ELSE 0)
             /\ l4[d][0] \in Nat /\ flagged[d].syn \in Nat /\ flagged[d].rst \in Nat
  <2>1. l4[d] \in [0 .. 7 -> Nat] /\ l4[d][0] \in Nat
    BY DEF TableTypes
  <2>2. l4'[d][0] = l4[d][0] + (IF d = f.dir /\ 0 = L4Idx(f.l4) THEN 1 ELSE 0)
    <3>1. 0 \in 0 .. 7 /\ 7 \in Nat
      OBVIOUS
    <3>2. RowStep(7, l4[d], l4'[d], f.dir, d, L4Idx(f.l4))
      BY <2>1, Zenon DEF RowsAfter, RowStep
    <3> QED BY <3>1, <3>2, RowMore
  <2>3. l4'[d][0] = l4[d][0] + (IF d = f.dir THEN tcp ELSE 0)
    BY <1>3, <2>2
  <2>4. flagged'[d].syn = flagged[d].syn + (IF d = f.dir THEN s ELSE 0)
    BY DEF FlagsAfter
  <2>5. flagged'[d].rst = flagged[d].rst + (IF d = f.dir THEN r ELSE 0)
    BY DEF FlagsAfter
  <2>6. flagged[d].syn \in Nat /\ flagged[d].rst \in Nat
    BY DEF FlagTypes
  <2> QED BY <2>1, <2>3, <2>4, <2>5, <2>6
<1>5. /\ flagTotal'.syn = flagTotal.syn + s /\ flagTotal'.rst = flagTotal.rst + r
      /\ flagTotal'.fin = flagTotal.fin + n
      /\ flagTotal.syn \in Nat /\ flagTotal.rst \in Nat /\ flagTotal.fin \in Nat
  BY DEF FlagsAfter, FlagTypes
<1> HIDE DEF tcp, s, r, n
<1>6. \A d \in Directions : flagged'[d].syn <= l4'[d][0] /\ flagged'[d].rst <= l4'[d][0]
  <2> SUFFICES ASSUME NEW d \in Directions
               PROVE  flagged'[d].syn <= l4'[d][0] /\ flagged'[d].rst <= l4'[d][0]
    OBVIOUS
  <2>1. flagged[d].syn <= l4[d][0] /\ flagged[d].rst <= l4[d][0]
    BY Zenon DEF FlagsOfTcp
  <2> QED BY <1>2, <1>4, <2>1
<1>7. f.dir = "Rx" \/ f.dir = "Tx"
  BY <1>1 DEF Directions
<1>8. "Rx" \in Directions /\ "Tx" \in Directions
  BY DEF Directions
<1>9. /\ flagTotal'.syn = flagged'["Rx"].syn + flagged'["Tx"].syn
      /\ flagTotal'.rst = flagged'["Rx"].rst + flagged'["Tx"].rst
      /\ flagTotal'.fin <= l4'["Rx"][0] + l4'["Tx"][0]
  BY <1>2, <1>4, <1>5, <1>7, <1>8 DEF FlagsOfTcp
<1> QED BY <1>6, <1>9, Zenon DEF FlagsOfTcp

LEMMA TypesApart == CountersTypeOK <=> TableTypes /\ FlagTypes /\ captured \in Seq(Packets)
BY Zenon DEF CountersTypeOK, TableTypes, FlagTypes

LEMMA CaptureCases ==
  ASSUME CountersTypeOK, NEW p \in Packets, Capture(p)
  PROVE  \/ Decode(p) = Rejected /\ UNCHANGED <<packets, l3, l4, apps, flagged, flagTotal>>
              /\ captured' = Append(captured, p)
         \/ Counts(p, Classified(p))
<1>1. CASE Decode(p) = Rejected
  BY <1>1 DEF Capture
<1>2. CASE Decode(p) # Rejected
  <2>1. Ingest(Classified(p)) /\ captured' = Append(captured, p)
    BY <1>2 DEF Capture
  <2>2. /\ Classified(p) \in Frames
        /\ Classified(p).l4 # "Tcp" => Classified(p).flags = {}
    BY <1>2, FrameShape
  <2> QED BY <1>2, <2>1, <2>2, TypesApart, Zenon DEF Counts
<1> QED BY <1>1, <1>2

LEMMA CaptureKeepsTypes ==
  ASSUME CountersTypeOK, NEW p \in Packets, Capture(p)
  PROVE  CountersTypeOK'
<1>1. TableTypes /\ FlagTypes /\ captured \in Seq(Packets)
  BY TypesApart
<1>2. CASE UNCHANGED <<packets, l3, l4, apps, flagged, flagTotal>> /\ captured' = Append(captured, p)
  <2>1. captured' \in Seq(Packets)
    BY <1>1, <1>2
  <2>2. TableTypes' /\ FlagTypes'
    BY <1>1, <1>2 DEF TableTypes, FlagTypes
  <2> QED BY <2>1, <2>2, Zenon DEF CountersTypeOK, TableTypes, FlagTypes
<1>3. CASE Counts(p, Classified(p))
  <2>1. TableTypes' /\ FlagTypes'
    BY <1>1, <1>3, IngestRows, IngestFlags, Zenon DEF Counts
  <2>2. captured' \in Seq(Packets)
    BY <1>1, <1>3 DEF Counts
  <2> QED BY <2>1, <2>2 DEF CountersTypeOK, TableTypes, FlagTypes
<1> QED BY <1>2, <1>3, CaptureCases

LEMMA CaptureKeepsBreakdowns ==
  ASSUME CountersTypeOK, DecodedAgree, NEW p \in Packets, Capture(p)
  PROVE  DecodedAgree'
<1>1. TableTypes /\ FlagTypes /\ captured \in Seq(Packets)
  BY TypesApart
<1>2. CASE Decode(p) = Rejected /\ UNCHANGED <<packets, l3, l4, apps, flagged, flagTotal>>
             /\ captured' = Append(captured, p)
  <2>1. ASSUME NEW d, NEW those, those \subseteq Counted(d)
        PROVE  HowMany(those)' = HowMany(those)
    <3>1. p \notin those
      BY <1>2, <2>1, Zenon DEF Counted
    <3>2. HowMany(those) \in Nat
      BY <1>1, HowManyType
    <3>3. HowMany(those)' = HowMany(those) + (IF p \in those THEN 1 ELSE 0)
      BY <1>1, <1>2, HowManyMore
    <3> QED BY <3>1, <3>2, <3>3
  <2>2. ASSUME NEW d \in Directions PROVE EachDecodedOnce(d)'
    <3>1. HowMany(Counted(d))' = HowMany(Counted(d))
      BY <2>1
    <3> QED BY <1>2, <3>1, Zenon DEF EachDecodedOnce, DecodedAgree
  <2>3. ASSUME NEW d \in Directions PROVE RowsCountDecoded(d)'
    <3>1. ASSUME NEW what, NEW value
          PROVE  HowMany(OfKind(d, what, value))' = HowMany(OfKind(d, what, value))
      BY <2>1 DEF OfKind
    <3>2. RowsCountDecoded(d)
      BY DEF DecodedAgree
    <3>3. ASSUME NEW i \in DOMAIN L3Rows
          PROVE  l3'[d][i - 1] = HowMany(OfKind(d, "l3", L3Rows[i]))'
      <4>1. l3[d][i - 1] = HowMany(OfKind(d, "l3", L3Rows[i]))
        BY <3>2, Zenon DEF RowsCountDecoded, OfKind
      <4> QED BY <1>2, <3>1, <4>1
    <3>4. ASSUME NEW i \in DOMAIN L4Rows
          PROVE  l4'[d][i - 1] = HowMany(OfKind(d, "l4", L4Rows[i]))'
      <4>1. l4[d][i - 1] = HowMany(OfKind(d, "l4", L4Rows[i]))
        BY <3>2, Zenon DEF RowsCountDecoded, OfKind
      <4> QED BY <1>2, <3>1, <4>1
    <3>5. ASSUME NEW i \in 2 .. 5
          PROVE  apps'[d][i - 1] = HowMany(OfKind(d, "app", AppRows[i]))'
      <4>1. apps[d][i - 1] = HowMany(OfKind(d, "app", AppRows[i]))
        BY <3>2, Zenon DEF RowsCountDecoded, OfKind
      <4> QED BY <1>2, <3>1, <4>1
    <3> QED BY <3>3, <3>4, <3>5, Zenon DEF RowsCountDecoded, OfKind
  <2>4. FlagsOfTcp'
    BY <1>2 DEF FlagsOfTcp, DecodedAgree
  <2> QED BY <2>2, <2>3, <2>4, Zenon DEF DecodedAgree
<1>3. ASSUME NEW f, Counts(p, f) PROVE DecodedAgree'
  <2>1. RowsAfter(f) /\ FlagsAfter(f)
    BY <1>1, <1>3, IngestRows, IngestFlags, Zenon DEF Counts
  <2>2. \A d \in Directions : EachDecodedOnce(d)'
    BY <1>1, <1>3, <2>1, CountingKeepsTotals, Zenon DEF DecodedAgree
  <2>3. \A d \in Directions : RowsCountDecoded(d)'
    BY <1>1, <1>3, <2>1, CountingKeepsRows, Zenon DEF DecodedAgree
  <2>4. FlagsOfTcp'
    BY <1>1, <1>3, <2>1, CountingKeepsFlags, Zenon DEF DecodedAgree
  <2> QED BY <2>2, <2>3, <2>4, Zenon DEF DecodedAgree
<1> QED BY <1>2, <1>3, CaptureCases, Zenon

LEMMA ProtocolsAtFirst ==
  ASSUME CountersInit
  PROVE  CountersTypeOK /\ DecodedAgree
<1>1. CountersTypeOK
  BY DEF CountersInit, Zeros, CountersTypeOK
<1>2. \A those : HowMany(those) = 0
  BY HowManyAtFirst DEF CountersInit
<1>3. ASSUME NEW d \in Directions PROVE EachDecodedOnce(d)
  BY <1>2 DEF CountersInit, Zeros, EachDecodedOnce, L3Total, L4Total, AppTotal, FourFrom
<1>4. ASSUME NEW d \in Directions PROVE RowsCountDecoded(d)
  BY <1>2 DEF CountersInit, Zeros, RowsCountDecoded, L3Rows, L4Rows
<1>5. FlagsOfTcp
  BY DEF CountersInit, Zeros, FlagsOfTcp, Directions
<1> QED BY <1>1, <1>3, <1>4, <1>5, Zenon DEF DecodedAgree

LEMMA ProtocolsInvariance == CountersSpec => [](CountersTypeOK /\ DecodedAgree)
<1>1. CountersInit => CountersTypeOK /\ DecodedAgree
  BY ProtocolsAtFirst
<1>2. CountersTypeOK /\ DecodedAgree /\ [CountersNext]_counterVars
        => (CountersTypeOK /\ DecodedAgree)'
  <2> SUFFICES ASSUME CountersTypeOK, DecodedAgree, [CountersNext]_counterVars
               PROVE  CountersTypeOK' /\ DecodedAgree'
    OBVIOUS
  <2>1. ASSUME NEW p \in Packets, Capture(p)
        PROVE  CountersTypeOK' /\ DecodedAgree'
    BY <2>1, CaptureKeepsTypes, CaptureKeepsBreakdowns
  <2>2. CASE UNCHANGED counterVars
    <3>1. UNCHANGED <<packets, l3, l4, apps, flagged, flagTotal, captured>>
      BY <2>2 DEF counterVars
    <3>2. \A those : HowMany(those)' = HowMany(those)
      BY <3>1 DEF HowMany
    <3>3. CountersTypeOK'
      BY <3>1 DEF CountersTypeOK
    <3>4. DecodedAgree'
      BY <3>1, <3>2 DEF DecodedAgree, EachDecodedOnce, RowsCountDecoded, FlagsOfTcp
    <3> QED BY <3>3, <3>4
  <2> QED BY <2>1, <2>2 DEF CountersNext
<1> QED BY <1>1, <1>2, PTL DEF CountersSpec

(***************************************************************************)
(* The tables and flag counters keep their shape, whatever packets exist   *)
(* (aggregate.rs, IfaceWindow::ingest).                                    *)
(***************************************************************************)
THEOREM CountersWellTyped == CountersSpec => []CountersTypeOK
<1>1. CountersTypeOK /\ DecodedAgree => CountersTypeOK
  OBVIOUS
<1> QED BY <1>1, ProtocolsInvariance, PTL

(* What decoding and classifying a packet come to. *)
LEMMA DecodingShape ==
  ASSUME NEW p \in Packets
  PROVE  /\ Decode(p) # Rejected <=> IsCounted(p)
         /\ IsCounted(p) =>
              /\ Classified(p).dir = (IF IsSent(p) THEN "Tx" ELSE "Rx")
              /\ Classified(p).l3 = p.l3
              /\ Classified(p).l4 = TransportOf(p)
              /\ Classified(p).app = IF TransportOf(p) \in {"Tcp", "Udp"}
                                       THEN FromPorts(p.srcPort, p.dstPort) ELSE "Unknown"
<1>1. /\ p.link \in {"Ethernet", "Loopback", "Other"} /\ p.short \in BOOLEAN
      /\ p.l3 \in Protocol3 /\ p.ip \in {"no", "yes"} /\ (p.link = "Loopback" => p.l3 # "Arp")
  BY ProtocolsAssumption
<1>2. IsCounted(p) => Decode(p) = FrameOf(p, IF p.link = "Loopback" /\ p.l3 = "Other"
                        THEN [l4 |-> "Unknown", flow |-> FALSE, flags |-> {}, app |-> "Unknown"]
                        ELSE DecodeL3(p))
  BY <1>1 DEF IsCounted, Decode, DecodeEthernet, DecodeLoopback, Protocol3
<1>3. ~IsCounted(p) => Decode(p) = Rejected
  BY <1>1 DEF IsCounted, Decode, DecodeEthernet, DecodeLoopback, Protocol3
<1>4. IsCounted(p) => Decode(p) # Rejected
  <2>1. /\ p.l3 \in Protocol3 /\ p.transport \in Protocol4 /\ p.flags \in SUBSET Flags
        /\ FromPorts(p.srcPort, p.dstPort) \in AppHints
    BY ProtocolsAssumption, HintType, Zenon DEF FromPorts
  <2>2. FrameOf(p, DecodeL3(p)) \in Frames
    BY <2>1 DEF FrameOf, DecodeL3, Frames, Directions, AppHints
  <2>3. FrameOf(p, [l4 |-> "Unknown", flow |-> FALSE, flags |-> {}, app |-> "Unknown"]) \in Frames
    BY <2>1 DEF FrameOf, Frames, Directions, AppHints, Protocol4
  <2> QED BY <1>2, <2>2, <2>3, RejectedAssumption
<1>5. ASSUME IsCounted(p)
      PROVE  /\ Decode(p).l3 = p.l3 /\ Decode(p).dir = "Rx"
             /\ Decode(p).l4 = TransportOf(p)
             /\ Decode(p).app = IF TransportOf(p) \in {"Tcp", "Udp"}
                                  THEN FromPorts(p.srcPort, p.dstPort) ELSE "Unknown"
  BY <1>2, <1>5 DEF FrameOf, DecodeL3, TransportOf
<1>6. ASSUME IsCounted(p), p.link = "Ethernet"
      PROVE  /\ Classified(p).dir = Direction(p.src, p.dst)
             /\ Classified(p).l3 = Decode(p).l3 /\ Classified(p).l4 = Decode(p).l4
             /\ Classified(p).app = Decode(p).app
  BY <1>2, <1>6 DEF Classified, FrameOf
<1>7. ASSUME p.link # "Ethernet" PROVE Classified(p) = Decode(p) /\ ~IsSent(p)
  BY <1>7 DEF Classified, IsSent, IsOurs
<1>8. ASSUME p.link = "Ethernet"
      PROVE  Direction(p.src, p.dst) = (IF IsSent(p) THEN "Tx" ELSE "Rx")
  BY <1>8 DEF Direction, IsSent, IsOurs
<1> QED BY <1>3, <1>4, <1>5, <1>6, <1>7, <1>8

(* The hint of a service is that of its ports. *)
LEMMA HintOfService ==
  ASSUME NEW p \in Packets, NEW i \in 2 .. 5
  PROVE  FromPorts(p.srcPort, p.dstPort) = AppRows[i]
           <=> SmallerPort(p) \in ServicePorts[AppRows[i]]
<1>1. p.srcPort \in Nat /\ p.dstPort \in Nat
  BY ProtocolsAssumption DEF Ports
<1>2. SmallerPort(p) = IF p.srcPort < p.dstPort THEN p.srcPort ELSE p.dstPort
  BY <1>1 DEF SmallerPort
<1>3. FromPorts(p.srcPort, p.dstPort) = HintOf(SmallerPort(p))
  BY <1>2, Zenon DEF FromPorts
<1>4. ASSUME NEW n \in Nat
      PROVE  /\ HintOf(n) = "Https" <=> n = 443
             /\ HintOf(n) = "Ssh" <=> n = 22
             /\ HintOf(n) = "Dns" <=> n = 53
             /\ HintOf(n) = "Smtp" <=> n \in {25, 587}
  BY DEF HintOf
<1>5. SmallerPort(p) \in Nat
  BY <1>1, <1>2
<1>6. /\ AppRows[2] = "Https" /\ AppRows[3] = "Ssh" /\ AppRows[4] = "Dns" /\ AppRows[5] = "Smtp"
      /\ ServicePorts["Https"] = {443} /\ ServicePorts["Ssh"] = {22}
      /\ ServicePorts["Dns"] = {53} /\ ServicePorts["Smtp"] = {25, 587}
  BY DEF AppRows, ServicePorts
<1>7. i = 2 \/ i = 3 \/ i = 4 \/ i = 5
  OBVIOUS
<1> QED BY <1>3, <1>4, <1>5, <1>6, <1>7

(* The packets decoded as some kind are those that are of it. *)
LEMMA DecodedAreCarried ==
  ASSUME NEW d \in Directions
  PROVE  /\ Counted(d) = Carried(d)
         /\ \A v : OfKind(d, "l3", v) = {p \in Carried(d) : p.l3 = v}
         /\ \A v : OfKind(d, "l4", v) = {p \in Carried(d) : TransportOf(p) = v}
         /\ \A i \in 2 .. 5 :
              OfKind(d, "app", AppRows[i]) = {p \in Carried(d) : Serves(p, AppRows[i])}
<1>1. Counted(d) = Carried(d)
  BY DecodingShape DEF Counted, Carried, Directions
<1>2. \A p \in Carried(d) : p \in Packets /\ IsCounted(p)
  BY DEF Carried
<1>3. \A v : OfKind(d, "l3", v) = {p \in Carried(d) : p.l3 = v}
  BY <1>1, <1>2, DecodingShape DEF OfKind
<1>4. \A v : OfKind(d, "l4", v) = {p \in Carried(d) : TransportOf(p) = v}
  BY <1>1, <1>2, DecodingShape DEF OfKind
<1>5. ASSUME NEW i \in 2 .. 5
      PROVE  OfKind(d, "app", AppRows[i]) = {p \in Carried(d) : Serves(p, AppRows[i])}
  <2>1. AppRows[i] # "Unknown"
    BY DEF AppRows
  <2>2. ASSUME NEW p \in Carried(d)
        PROVE  Classified(p)["app"] = AppRows[i] <=> Serves(p, AppRows[i])
    BY <1>2, <2>1, DecodingShape, HintOfService DEF Serves
  <2> QED BY <1>1, <2>2 DEF OfKind
<1> QED BY <1>1, <1>3, <1>4, <1>5

LEMMA DecodedAgreeWithPackets == DecodedAgree => BreakdownsAgree
<1> SUFFICES ASSUME DecodedAgree, NEW d \in Directions
             PROVE  EachPacketOnce(d) /\ RowsCountTheirLabels(d)
  BY DEF DecodedAgree, BreakdownsAgree
<1>1. EachPacketOnce(d)
  BY DecodedAreCarried, Zenon DEF DecodedAgree, EachDecodedOnce, EachPacketOnce
<1>2. RowsCountTheirLabels(d)
  BY DecodedAreCarried, Zenon
     DEF DecodedAgree, RowsCountDecoded, RowsCountTheirLabels, RowCountsItsService
<1> QED BY <1>1, <1>2

(***************************************************************************)
(* Whatever packets arrive, in whatever order and number: every breakdown  *)
(* classifies each packet to be counted exactly once, under the direction  *)
(* it went; the rows of the L3 and L4 panels and those of HTTPS, SSH, DNS  *)
(* and SMTP count the packets of their label; and the flag counters are    *)
(* those of TCP frames.  Nothing is said of the other four rows of the     *)
(* Applications panel (parse.rs, aggregate.rs, app.rs render_protocols).   *)
(***************************************************************************)
THEOREM BreakdownsAlwaysAgree == CountersSpec => []BreakdownsAgree
<1>1. CountersTypeOK /\ DecodedAgree => BreakdownsAgree
  BY DecodedAgreeWithPackets
<1> QED BY <1>1, ProtocolsInvariance, PTL

LEMMA SmallerPortDecides ==
  ASSUME NEW a \in Ports, NEW b \in Ports
  PROVE  FromPorts(a, b) = FromPorts(b, a)
<1>1. (IF a < b THEN a ELSE b) = (IF b < a THEN b ELSE a)
  BY DEF Ports
<1> QED BY <1>1, Zenon DEF FromPorts

LEMMA HintOfConversation ==
  ASSUME NEW p \in Packets, Decode(p) # Rejected, Decode(p).flow
  PROVE  Decode(p).app = FromPorts(p.srcPort, p.dstPort)
<1>1. p.link \in {"Ethernet", "Loopback", "Other"}
  BY ProtocolsAssumption
<1>2. CASE p.link = "Ethernet"
  BY <1>2 DEF Decode, DecodeEthernet, FrameOf, DecodeL3
<1>3. CASE p.link = "Loopback"
  BY <1>3 DEF Decode, DecodeLoopback, FrameOf, DecodeL3
<1>4. CASE p.link = "Other"
  BY <1>4 DEF Decode
<1> QED BY <1>1, <1>2, <1>3, <1>4

(***************************************************************************)
(* Both directions of a conversation get the same hint, for all ports and  *)
(* link types (domain.rs, AppHint::from_ports).                            *)
(***************************************************************************)
THEOREM OneHintPerConversationAlways == CountersSpec => []OneHintPerConversation
<1>1. CountersTypeOK => OneHintPerConversation
  <2> SUFFICES ASSUME captured \in Seq(Packets),
                      NEW i \in DOMAIN captured, NEW j \in DOMAIN captured,
                      Decode(captured[i]) # Rejected, Decode(captured[j]) # Rejected,
                      Decode(captured[i]).flow, Decode(captured[j]).flow,
                      captured[i].srcPort = captured[j].dstPort,
                      captured[i].dstPort = captured[j].srcPort
               PROVE  Decode(captured[i]).app = Decode(captured[j]).app
    BY Zenon DEF CountersTypeOK, OneHintPerConversation
  <2>1. captured[i] \in Packets /\ captured[j] \in Packets
    OBVIOUS
  <2>2. /\ Decode(captured[i]).app = FromPorts(captured[i].srcPort, captured[i].dstPort)
        /\ Decode(captured[j]).app = FromPorts(captured[j].srcPort, captured[j].dstPort)
    BY <2>1, HintOfConversation, Zenon
  <2>3. captured[j].srcPort \in Ports /\ captured[j].dstPort \in Ports
    BY <2>1, ProtocolsAssumption, Zenon
  <2>4. FromPorts(captured[j].dstPort, captured[j].srcPort)
          = FromPorts(captured[j].srcPort, captured[j].dstPort)
    BY <2>3, SmallerPortDecides, Zenon
  <2> QED BY <2>2, <2>4, Zenon
<1> QED BY <1>1, CountersWellTyped, PTL
=============================================================================
