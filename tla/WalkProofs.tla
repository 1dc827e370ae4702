------------------------------ MODULE WalkProofs ------------------------------
(***************************************************************************)
(* Proofs about Walk, for every set of paths, every file system to start   *)
(* with, every node that may appear and every length of the list.          *)
(*                                                                         *)
(* IInv follows the counters and the entries through a walk that is under  *)
(* way: what has been found in the tree so far is what the result holds    *)
(* and what the current walk has found, one after the other.               *)
(*                                                                         *)
(* JInv adds where the walk is: the open calls are for directories one     *)
(* below the other, nothing that is still ahead of them has been listed,   *)
(* and in a tree that stands still whatever can be reached from the roots  *)
(* walked so far is listed or still ahead of some call.                    *)
(***************************************************************************)
EXTENDS Walk, FiniteSetTheorems, SequenceTheorems, WellFoundedInduction, TLAPS

(* No directory is walked twice for one tree, and each walk has a depth. *)
Distinct == {s \in Seq(Starts) : \A i, j \in DOMAIN s : s[i] = s[j] => i = j}
Jobs == [name : {"dev", "sys", "bin"}, depth : Nat \ {0}, roots : Distinct]
Entry == [path : Paths, node : Node]
Frames == [dir : Dirs, opened : BOOLEAN, rest : SUBSET Paths]

Queued == jobs \in Seq(Jobs) /\ roots \in Seq(Starts)

Found == IF walking THEN result.entries \o tmp.entries ELSE result.entries

UnderWay ==
  /\ tmp.counts = Tally(tmp.entries)
  /\ \A c \in Counts :
       Tally(walked)[c] = IF walking THEN result.counts[c] + tmp.counts[c] ELSE result.counts[c]
  /\ IsPrefix(result.entries, walked)
  /\ Len(result.entries) < MaxEntries => walked = Found

IInv == TypeOK /\ Queued /\ UnderWay

-----------------------------------------------------------------------------
(* Sequences. *)

LEMMA FirstOnes ==
  ASSUME NEW R, NEW s \in Seq(R), NEW n \in 0 .. Len(s)
  PROVE  /\ SubSeq(s, 1, n) \in Seq(R) /\ Len(SubSeq(s, 1, n)) = n
         /\ \A i \in 1 .. n : SubSeq(s, 1, n)[i] = s[i]
OBVIOUS

LEMMA FrontIsSeq ==
  ASSUME NEW R, NEW s \in Seq(R), s # << >>
  PROVE  /\ Front(s) \in Seq(R) /\ Len(Front(s)) = Len(s) - 1
         /\ \A i \in 1 .. Len(s) - 1 : Front(s)[i] = s[i]
<1>1. Len(s) - 1 \in 0 .. Len(s)
  BY EmptySeq
<1> DEFINE n == Len(s) - 1
<1>2. /\ SubSeq(s, 1, n) \in Seq(R) /\ Len(SubSeq(s, 1, n)) = n
      /\ \A i \in 1 .. n : SubSeq(s, 1, n)[i] = s[i]
  <2> HIDE DEF n
  <2>1. n \in 0 .. Len(s)
    BY <1>1 DEF n
  <2> QED BY <2>1, FirstOnes
<1> QED BY <1>2, Zenon DEF Front

LEMMA SameSeq ==
  ASSUME NEW R, NEW s \in Seq(R), NEW t \in Seq(R), Len(s) = Len(t),
         \A i \in 1 .. Len(s) : s[i] = t[i]
  PROVE  s = t
OBVIOUS

LEMMA PrefixMeans ==
  ASSUME NEW R, NEW s \in Seq(R), NEW t \in Seq(R)
  PROVE  IsPrefix(s, t) <=> Len(s) <= Len(t) /\ \A i \in 1 .. Len(s) : s[i] = t[i]
<1>1. Len(s) \in Nat /\ Len(t) \in Nat /\ Len(s) \in 0 .. Len(s)
  OBVIOUS
<1>2. /\ SubSeq(s, 1, Len(s)) \in Seq(R) /\ Len(SubSeq(s, 1, Len(s))) = Len(s)
      /\ \A i \in 1 .. Len(s) : SubSeq(s, 1, Len(s))[i] = s[i]
  BY <1>1, FirstOnes
<1>3. CASE Len(s) <= Len(t)
  <2>1. Len(s) \in 0 .. Len(t)
    BY <1>1, <1>3
  <2>2. /\ SubSeq(t, 1, Len(s)) \in Seq(R) /\ Len(SubSeq(t, 1, Len(s))) = Len(s)
        /\ \A i \in 1 .. Len(s) : SubSeq(t, 1, Len(s))[i] = t[i]
    BY <2>1, FirstOnes
  <2> DEFINE a == SubSeq(s, 1, Len(s))
             b == SubSeq(t, 1, Len(s))
  <2> HIDE DEF a, b
  <2>3. ASSUME \A i \in 1 .. Len(s) : s[i] = t[i] PROVE a = b
    <3>1. a \in Seq(R) /\ b \in Seq(R) /\ Len(a) = Len(b) /\ \A i \in 1 .. Len(a) : a[i] = b[i]
      BY <1>2, <2>2, <2>3 DEF a, b
    <3> QED BY <3>1, SameSeq
  <2>4. ASSUME a = b PROVE \A i \in 1 .. Len(s) : s[i] = t[i]
    BY <1>2, <2>2, <2>4, Zenon DEF a, b
  <2> QED BY <1>3, <2>3, <2>4, Zenon DEF IsPrefix, a, b
<1>4. CASE ~(Len(s) <= Len(t))
  BY <1>4, Zenon DEF IsPrefix
<1> QED BY <1>3, <1>4

LEMMA SuffixMeans ==
  ASSUME NEW R, NEW s \in Seq(R), NEW t \in Seq(R)
  PROVE  IsSuffix(s, t) <=>
           Len(s) <= Len(t) /\ \A i \in 1 .. Len(s) : s[i] = t[Len(t) - Len(s) + i]
<1> DEFINE a == Reverse(s)
           b == Reverse(t)
<1>1. /\ a \in Seq(R) /\ Len(a) = Len(s) /\ \A i \in 1 .. Len(s) : a[i] = s[Len(s) - i + 1]
      /\ b \in Seq(R) /\ Len(b) = Len(t) /\ \A i \in 1 .. Len(t) : b[i] = t[Len(t) - i + 1]
      /\ Len(s) \in Nat /\ Len(t) \in Nat
  BY DEF Reverse
<1> HIDE DEF a, b
<1>2. IsSuffix(s, t) <=> Len(s) <= Len(t) /\ \A i \in 1 .. Len(s) : a[i] = b[i]
  <2>1. IsPrefix(a, b) <=> Len(a) <= Len(b) /\ \A i \in 1 .. Len(a) : a[i] = b[i]
    BY <1>1, PrefixMeans
  <2> QED BY <1>1, <2>1, Zenon DEF IsSuffix, a, b
<1>3. ASSUME Len(s) <= Len(t), \A i \in 1 .. Len(s) : a[i] = b[i]
      PROVE  \A i \in 1 .. Len(s) : s[i] = t[Len(t) - Len(s) + i]
  <2> TAKE i \in 1 .. Len(s)
  <2> DEFINE k == Len(s) - i + 1
  <2>1. k \in 1 .. Len(s) /\ k \in 1 .. Len(t) /\ Len(s) - k + 1 = i
        /\ Len(t) - k + 1 = Len(t) - Len(s) + i
    BY <1>1, <1>3
  <2> HIDE DEF k
  <2>2. a[k] = s[i] /\ b[k] = t[Len(t) - Len(s) + i]
    BY <1>1, <2>1
  <2> QED BY <1>3, <2>1, <2>2
<1>4. ASSUME Len(s) <= Len(t), \A i \in 1 .. Len(s) : s[i] = t[Len(t) - Len(s) + i]
      PROVE  \A i \in 1 .. Len(s) : a[i] = b[i]
  <2> TAKE i \in 1 .. Len(s)
  <2> DEFINE k == Len(s) - i + 1
  <2>1. k \in 1 .. Len(s) /\ i \in 1 .. Len(t) /\ Len(t) - Len(s) + k = Len(t) - i + 1
    BY <1>1, <1>4
  <2>2. a[i] = s[k] /\ b[i] = t[Len(t) - Len(s) + k]
    BY <1>1, <2>1
  <2> HIDE DEF k
  <2> QED BY <1>4, <2>1, <2>2
<1> QED BY <1>2, <1>3, <1>4

LEMMA SuffixItself ==
  ASSUME NEW R, NEW s \in Seq(R)
  PROVE  IsSuffix(s, s)
<1>1. /\ Len(s) \in Nat /\ Len(s) <= Len(s)
      /\ \A i \in 1 .. Len(s) : s[i] = s[Len(s) - Len(s) + i]
  OBVIOUS
<1> QED BY <1>1, SuffixMeans

LEMMA SuffixTail ==
  ASSUME NEW R, NEW s \in Seq(R), NEW t \in Seq(R), s # << >>, IsSuffix(s, t)
  PROVE  Tail(s) \in Seq(R) /\ IsSuffix(Tail(s), t) /\ Head(s) \in R
<1> DEFINE u == Tail(s)
<1>1. /\ Len(s) \in Nat /\ Len(t) \in Nat /\ u \in Seq(R) /\ Len(u) = Len(s) - 1
      /\ \A i \in 1 .. Len(u) : u[i] = s[i + 1] /\ Head(s) \in R
  OBVIOUS
<1>2. Len(s) <= Len(t) /\ \A i \in 1 .. Len(s) : s[i] = t[Len(t) - Len(s) + i]
  BY SuffixMeans
<1> HIDE DEF u
<1>3. \A i \in 1 .. Len(u) : u[i] = t[Len(t) - Len(u) + i]
  <2> TAKE i \in 1 .. Len(u)
  <2>1. i + 1 \in 1 .. Len(s) /\ Len(t) - Len(s) + (i + 1) = Len(t) - Len(u) + i
    BY <1>1
  <2> QED BY <1>1, <1>2, <2>1
<1>4. Len(u) <= Len(t)
  BY <1>1, <1>2
<1>5. IsSuffix(u, t)
  BY <1>1, <1>3, <1>4, SuffixMeans
<1>6. Head(s) \in R
  OBVIOUS
<1> QED BY <1>1, <1>5, <1>6 DEF u

LEMMA PrefixItself ==
  ASSUME NEW R, NEW s \in Seq(R)
  PROVE  IsPrefix(s, s)
<1>1. Len(s) <= Len(s) /\ \A i \in 1 .. Len(s) : s[i] = s[i]
  OBVIOUS
<1> QED BY <1>1, PrefixMeans

LEMMA PrefixLonger ==
  ASSUME NEW R, NEW s \in Seq(R), NEW t \in Seq(R), NEW e \in R, IsPrefix(s, t)
  PROVE  IsPrefix(s, Append(t, e))
<1> DEFINE u == Append(t, e)
<1>1. u \in Seq(R) /\ Len(u) = Len(t) + 1 /\ \A i \in 1 .. Len(t) : u[i] = t[i]
  OBVIOUS
<1>2. Len(s) \in Nat /\ Len(t) \in Nat
  OBVIOUS
<1>3. Len(s) <= Len(t) /\ \A i \in 1 .. Len(s) : s[i] = t[i]
  BY PrefixMeans
<1> HIDE DEF u
<1>4. Len(s) <= Len(u) /\ \A i \in 1 .. Len(s) : s[i] = u[i]
  BY <1>1, <1>2, <1>3
<1>5. IsPrefix(s, u)
  BY <1>1, <1>4, PrefixMeans
<1> QED BY <1>5 DEF u

LEMMA JoinMeans ==
  ASSUME NEW R, NEW s \in Seq(R), NEW t \in Seq(R)
  PROVE  /\ s \o t \in Seq(R) /\ Len(s \o t) = Len(s) + Len(t)
         /\ \A i \in 1 .. Len(s) : (s \o t)[i] = s[i]
         /\ \A i \in 1 .. Len(t) : (s \o t)[Len(s) + i] = t[i]
OBVIOUS

LEMMA JoinEmpty ==
  ASSUME NEW R, NEW s \in Seq(R)
  PROVE  s \o << >> = s
OBVIOUS

LEMMA JoinAppend ==
  ASSUME NEW R, NEW s \in Seq(R), NEW t \in Seq(R), NEW e \in R
  PROVE  s \o Append(t, e) = Append(s \o t, e)
OBVIOUS

LEMMA JoinPrefix ==
  ASSUME NEW R, NEW s \in Seq(R), NEW t \in Seq(R)
  PROVE  s \o t \in Seq(R) /\ IsPrefix(s, s \o t)
<1> DEFINE u == s \o t
<1>1. /\ u \in Seq(R) /\ Len(u) = Len(s) + Len(t) /\ \A i \in 1 .. Len(s) : u[i] = s[i]
      /\ Len(s) \in Nat /\ Len(t) \in Nat
  BY JoinMeans
<1> HIDE DEF u
<1>2. Len(s) <= Len(u) /\ \A i \in 1 .. Len(s) : s[i] = u[i]
  BY <1>1
<1>3. IsPrefix(s, u)
  BY <1>1, <1>2, PrefixMeans
<1> QED BY <1>1, <1>3, Zenon DEF u

(* What is taken over of two lists when they may be too long together. *)
AtMost(list, m) == IF Len(list) > m THEN SubSeq(list, 1, m) ELSE list

LEMMA TakenOver ==
  ASSUME NEW R, NEW s \in Seq(R), NEW u \in Seq(R), NEW w \in Seq(R), NEW m \in Nat,
         IsPrefix(s, u), IsPrefix(s, w), Len(s) <= m, Len(s) < m => w = u,
         NEW r, r = AtMost(u, m)
  PROVE  /\ r \in Seq(R) /\ Len(r) <= m
         /\ IsPrefix(r, w) /\ (Len(r) < m => w = r)
<1>1. /\ Len(s) \in Nat /\ Len(u) \in Nat /\ Len(w) \in Nat
      /\ Len(s) <= Len(u) /\ \A i \in 1 .. Len(s) : u[i] = s[i]
  BY PrefixMeans
<1>2. Len(s) < m => w = u
  OBVIOUS
<1>3. r = IF Len(u) > m THEN SubSeq(u, 1, m) ELSE u
  BY Zenon DEF AtMost
<1>4. Len(s) <= Len(w) /\ \A i \in 1 .. Len(s) : s[i] = w[i]
  BY PrefixMeans
<1>5. CASE Len(u) > m
  <2>1. r = SubSeq(u, 1, m) /\ m \in 0 .. Len(u)
    BY <1>1, <1>3, <1>5
  <2>2. r \in Seq(R) /\ Len(r) = m /\ \A i \in 1 .. m : r[i] = u[i]
    BY <1>1, <2>1, FirstOnes, Zenon
  <2>3. Len(w) \in Nat
    OBVIOUS
  <2>4. Len(r) <= Len(w) /\ \A i \in 1 .. Len(r) : r[i] = w[i]
    <3>1. CASE Len(s) < m
      BY <1>1, <1>2, <1>5, <2>2, <3>1
    <3>2. CASE Len(s) = m
      BY <1>1, <1>4, <2>2, <3>2
    <3> QED BY <1>1, <3>1, <3>2
  <2>5. IsPrefix(r, w)
    BY <2>2, <2>4, PrefixMeans
  <2> QED BY <2>2, <2>5
<1>6. CASE ~(Len(u) > m)
  <2>1. r = u /\ Len(r) <= m /\ r \in Seq(R)
    BY <1>1, <1>3, <1>6
  <2>2. CASE Len(s) < m
    BY <1>2, <2>1, <2>2, PrefixItself
  <2>3. CASE Len(s) = m
    <3>1. Len(r) = m /\ Len(r) = Len(s)
      BY <1>1, <1>6, <2>1, <2>3
    <3>2. r = s
      BY <1>1, <2>1, <3>1, SameSeq
    <3>3. ~(Len(r) < m)
      BY <3>1
    <3>4. IsPrefix(r, w)
      BY <3>2, Zenon
    <3> QED BY <2>1, <3>3, <3>4, Zenon
  <2> QED BY <1>1, <2>2, <2>3
<1> QED BY <1>5, <1>6

-----------------------------------------------------------------------------
(* Counting the entries of a list. *)

LEMMA Positions ==
  ASSUME NEW n \in Nat, NEW A, A \subseteq 1 .. n
  PROVE  IsFiniteSet(A) /\ Cardinality(A) \in Nat
<1>1. IsFiniteSet(1 .. n)
  BY FS_Interval
<1>2. IsFiniteSet(A)
  BY <1>1, FS_Subset, Zenon
<1> QED BY <1>2, FS_CardinalityType, Zenon

LEMMA OneMore ==
  ASSUME NEW n \in Nat, NEW A, A \subseteq 1 .. n, NEW m, m \notin A,
         NEW B, \A k : k \in B <=> k \in A \/ k = m
  PROVE  Cardinality(B) = Cardinality(A) + 1
<1>1. IsFiniteSet(A) /\ Cardinality(A) \in Nat
  BY Positions
<1>2. B = A \cup {m}
  BY Zenon
<1>3. Cardinality(A \cup {m}) = Cardinality(A) + 1
  BY <1>1, FS_AddElement
<1> QED BY <1>2, <1>3

LEMMA TallyNone ==
  ASSUME NEW c \in Counts
  PROVE  Tally(<< >>)[c] = 0
<1>1. {i \in DOMAIN << >> : c \in Classes(<< >>[i].node)} = {}
  OBVIOUS
<1>2. Cardinality({i \in DOMAIN << >> : c \in Classes(<< >>[i].node)}) = 0
  BY <1>1, FS_EmptySet, Zenon
<1> QED BY <1>2, Zenon DEF Tally

LEMMA TallyType ==
  ASSUME NEW s \in Seq(Entry)
  PROVE  Tally(s) \in [Counts -> Nat]
<1> SUFFICES ASSUME NEW c \in Counts
             PROVE  Cardinality({i \in DOMAIN s : c \in Classes(s[i].node)}) \in Nat
  BY Zenon DEF Tally
<1>1. DOMAIN s = 1 .. Len(s) /\ Len(s) \in Nat
  OBVIOUS
<1>2. {i \in DOMAIN s : c \in Classes(s[i].node)} \subseteq 1 .. Len(s)
  BY <1>1, Zenon
<1> QED BY <1>1, <1>2, Positions

LEMMA TallyMore ==
  ASSUME NEW s \in Seq(Entry), NEW e \in Entry, NEW c \in Counts
  PROVE  Tally(Append(s, e))[c] = Tally(s)[c] + (IF c \in Classes(e.node) THEN 1 ELSE 0)
<1> DEFINE u == Append(s, e)
           m == Len(s) + 1
           A == {i \in DOMAIN s : c \in Classes(s[i].node)}
           B == {i \in DOMAIN u : c \in Classes(u[i].node)}
<1>1. /\ Len(s) \in Nat /\ DOMAIN s = 1 .. Len(s) /\ DOMAIN u = 1 .. m
      /\ \A i \in 1 .. Len(s) : u[i] = s[i]
      /\ u[m] = e
  OBVIOUS
<1>2. m \notin 1 .. Len(s) /\ \A k : k \in 1 .. m <=> k \in 1 .. Len(s) \/ k = m
  BY <1>1
<1>3. Tally(u)[c] = Cardinality(B) /\ Tally(s)[c] = Cardinality(A)
  BY Zenon DEF Tally
<1> HIDE DEF u, m
<1>4. A \subseteq 1 .. Len(s) /\ m \notin A
  BY <1>1, <1>2, Zenon
<1>5. \A k : k \in B <=> k \in A \/ (k = m /\ c \in Classes(e.node))
  BY <1>1, <1>2, Zenon
<1> HIDE DEF A, B
<1>6. Cardinality(A) \in Nat
  BY <1>1, <1>4, Positions
<1>7. CASE c \in Classes(e.node)
  <2>1. \A k : k \in B <=> k \in A \/ k = m
    BY <1>5, <1>7, Zenon
  <2>2. Cardinality(B) = Cardinality(A) + 1
    BY <1>1, <1>4, <2>1, OneMore
  <2> QED BY <1>3, <1>7, <2>2, Zenon DEF u
<1>8. CASE c \notin Classes(e.node)
  <2>1. B = A
    BY <1>5, <1>8, Zenon
  <2>2. Cardinality(B) = Cardinality(A) + 0
    BY <1>6, <2>1
  <2> QED BY <1>3, <1>8, <2>2, Zenon DEF u
<1> QED BY <1>7, <1>8, Zenon

-----------------------------------------------------------------------------
(* The parts of the invariant, and which variables each is about. *)

FileSystem == fs \in [Paths -> Node \cup {Absent}] /\ IsTree(fs)

Queues ==
  /\ IsSuffix(jobs, AllJobs)
  /\ jobs # << >> => IsSuffix(roots, Head(jobs).roots)
  /\ Queued

Calls ==
  /\ stack \in Seq(Frames)
  /\ walking \in BOOLEAN /\ (stack # << >> => walking /\ jobs # << >>)

Lists ==
  /\ tmp \in Results /\ result \in Results
  /\ Len(tmp.entries) <= MaxEntries /\ Len(result.entries) <= MaxEntries
  /\ walked \in Entries

LEMMA Parts ==
  IInv <=> /\ FileSystem /\ changes \in 0 .. MaxChanges
           /\ Queues /\ Calls /\ Lists /\ calm \in BOOLEAN /\ UnderWay
BY Zenon DEF IInv, TypeOK, FileSystem, Queues, Calls, Lists, Frames

LEMMA PartsAfter ==
  IInv' <=> /\ FileSystem' /\ changes' \in 0 .. MaxChanges
            /\ Queues' /\ Calls' /\ Lists' /\ calm' \in BOOLEAN /\ UnderWay'
BY Zenon DEF IInv, TypeOK, FileSystem, Queues, Calls, Lists, Frames

LEMMA Unmoved ==
  /\ UNCHANGED fs /\ FileSystem => FileSystem'
  /\ UNCHANGED call /\ Queues => Queues'
  /\ UNCHANGED <<stack, walking, jobs>> /\ Calls => Calls'
  /\ UNCHANGED <<tmp, result, walked>> /\ Lists => Lists'
  /\ UNCHANGED <<tmp, result, walked, walking>> /\ UnderWay => UnderWay'
<1>1. UNCHANGED fs /\ FileSystem => FileSystem'
  BY DEF FileSystem, IsTree
<1>2. UNCHANGED call /\ Queues => Queues'
  BY Zenon DEF call, Queues, Queued
<1>3. UNCHANGED <<stack, walking, jobs>> /\ Calls => Calls'
  BY DEF Calls
<1>4. UNCHANGED <<tmp, result, walked>> /\ Lists => Lists'
  BY Zenon DEF Lists
<1>5. UNCHANGED <<tmp, result, walked, walking>> /\ UnderWay => UnderWay'
  <2> HAVE UNCHANGED <<tmp, result, walked, walking>> /\ UnderWay
  <2>1. tmp' = tmp /\ result' = result /\ walked' = walked /\ walking' = walking
    OBVIOUS
  <2>2. Found' = Found
    BY <2>1 DEF Found
  <2> QED BY <2>1, <2>2 DEF UnderWay
<1> QED BY <1>1, <1>2, <1>3, <1>4, <1>5, Zenon

LEMMA SeqOfOne ==
  ASSUME NEW R, NEW a \in R
  PROVE  <<a>> \in Seq(R)
OBVIOUS

LEMMA OneIsDistinct ==
  ASSUME NEW a \in Starts
  PROVE  <<a>> \in Distinct
<1> HIDE DEF Starts
<1> QED BY DEF Distinct

LEMMA FourAreDistinct ==
  ASSUME NEW a \in Starts, NEW b \in Starts, NEW c \in Starts, NEW d \in Starts,
         a # b, a # c, a # d, b # c, b # d, c # d
  PROVE  <<a, b, c, d>> \in Distinct
<1> DEFINE s == <<a, b, c, d>>
<1>1. s \in Seq(Starts) /\ DOMAIN s = 1 .. 4
  OBVIOUS
<1>2. s[1] = a /\ s[2] = b /\ s[3] = c /\ s[4] = d
  OBVIOUS
<1> HIDE DEF s
<1>3. \A i \in 1 .. 4 : i = 1 \/ i = 2 \/ i = 3 \/ i = 4
  OBVIOUS
<1>4. \A i, j \in 1 .. 4 : s[i] = s[j] => i = j
  BY <1>2, <1>3, Zenon
<1>5. s \in Distinct
  BY <1>1, <1>4, Zenon DEF Distinct
<1> QED BY <1>5 DEF s

LEMMA JobsAreJobs == AllJobs \in Seq(Jobs)
<1> DEFINE a == Job("dev", 1, <<"dev">>)
           b == Job("sys", 3, <<"sys">>)
           c == Job("bin", 1, <<"bin", "sbin", "usr/bin", "usr/sbin">>)
<1>1. a \in Jobs /\ b \in Jobs /\ c \in Jobs
  <2>1. /\ "dev" \in Starts /\ "sys" \in Starts /\ "bin" \in Starts
        /\ "sbin" \in Starts /\ "usr/bin" \in Starts /\ "usr/sbin" \in Starts
    BY Zenon DEF Starts
  <2>2. /\ "bin" # "sbin" /\ "bin" # "usr/bin" /\ "bin" # "usr/sbin"
        /\ "sbin" # "usr/bin" /\ "sbin" # "usr/sbin" /\ "usr/bin" # "usr/sbin"
    OBVIOUS
  <2>3. /\ <<"dev">> \in Distinct /\ <<"sys">> \in Distinct
        /\ <<"bin", "sbin", "usr/bin", "usr/sbin">> \in Distinct
    BY <2>1, <2>2, OneIsDistinct, FourAreDistinct, Zenon
  <2>4. ASSUME NEW name \in {"dev", "sys", "bin"}, NEW depth \in Nat \ {0}, NEW dirs \in Distinct
        PROVE  Job(name, depth, dirs) \in Jobs
    BY DEF Job, Jobs
  <2>5. /\ "dev" \in {"dev", "sys", "bin"} /\ "sys" \in {"dev", "sys", "bin"}
        /\ "bin" \in {"dev", "sys", "bin"}
    BY Zenon
  <2>6. 1 \in Nat \ {0} /\ 3 \in Nat \ {0}
    OBVIOUS
  <2> QED BY <2>3, <2>4, <2>5, <2>6, Zenon
<1>2. AllJobs = <<a, b, c>>
  BY DEF AllJobs
<1> HIDE DEF a, b, c
<1> QED BY <1>1, <1>2

LEMMA JobTyped ==
  ASSUME NEW job \in Jobs
  PROVE  /\ job.roots \in Seq(Starts) /\ job.depth \in Nat /\ job.depth > 0
         /\ \A i, j \in DOMAIN job.roots : job.roots[i] = job.roots[j] => i = j
<1>1. job.roots \in Distinct /\ job.depth \in Nat \ {0}
  BY DEF Jobs
<1>2. job.roots \in Seq(Starts) /\ \A i, j \in DOMAIN job.roots : job.roots[i] = job.roots[j] => i = j
  BY <1>1, Zenon DEF Distinct
<1> QED BY <1>1, <1>2

LEMMA EmptyIsResult ==
  /\ Empty \in Results /\ Empty.entries = << >> /\ Len(Empty.entries) = 0
  /\ Empty.counts = [c \in Counts |-> 0]
BY DEF Empty, Results, Entries

LEMMA FrameTyped ==
  ASSUME NEW dir \in Dirs
  PROVE  Frame(dir) \in Frames
BY DEF Frame, Frames

(* The top of the stack, and the stack without it. *)
LEMMA TopTyped ==
  ASSUME Calls, stack # << >>
  PROVE  /\ Top \in Frames /\ Front(stack) \in Seq(Frames) /\ Len(stack) \in Nat \ {0}
         /\ Len(stack) \in DOMAIN stack
<1>1. stack \in Seq(Frames)
  BY DEF Calls
<1>2. Front(stack) \in Seq(Frames)
  BY <1>1, FrontIsSeq
<1>3. Len(stack) \in Nat \ {0} /\ Len(stack) \in DOMAIN stack
  BY <1>1, EmptySeq
<1>4. stack[Len(stack)] \in Frames
  BY <1>1, <1>3
<1> QED BY <1>2, <1>3, <1>4 DEF Top

-----------------------------------------------------------------------------
(* The counters and lists of a walk that starts, or of a tree that does. *)

LEMMA EmptyTally == Empty.counts = Tally(Empty.entries)
<1>1. \A c \in Counts : Tally(<< >>)[c] = 0
  BY TallyNone
<1>2. Tally(<< >>) = [c \in Counts |-> Tally(<< >>)[c]]
  BY Zenon DEF Tally
<1>3. Tally(<< >>) = [c \in Counts |-> 0]
  BY <1>1, <1>2, Zenon
<1> QED BY <1>3, EmptyIsResult, Zenon

LEMMA InitHolds == Init => IInv
<1> SUFFICES ASSUME Init PROVE IInv
  OBVIOUS
<1>1. FileSystem
  BY WalkAssumption DEF Init, FileSystem
<1>2. changes \in 0 .. MaxChanges /\ calm \in BOOLEAN
  BY WalkAssumption DEF Init
<1>3. Queues
  <2>1. AllJobs # << >> /\ Head(AllJobs) = AllJobs[1] /\ AllJobs[1] \in Jobs
    BY JobsAreJobs DEF AllJobs
  <2>2. AllJobs[1].roots \in Seq(Starts)
    BY <2>1, JobTyped, Zenon
  <2>3. IsSuffix(AllJobs, AllJobs) /\ IsSuffix(AllJobs[1].roots, AllJobs[1].roots)
    BY <2>2, JobsAreJobs, SuffixItself
  <2> QED BY <2>1, <2>2, <2>3, JobsAreJobs, Zenon DEF Init, Queues, Queued
<1>4. Calls
  <2>1. walking \in BOOLEAN
    BY Zenon DEF Init
  <2>2. stack = << >> /\ << >> \in Seq(Frames)
    BY DEF Init
  <2> QED BY <2>1, <2>2, Zenon DEF Calls
<1>5. Lists
  BY EmptyIsResult, WalkAssumption DEF Init, Lists, Entries
<1>6. UnderWay
  <2>1. tmp = Empty /\ result = Empty /\ walked = << >> /\ walking = FALSE
    BY Zenon DEF Init
  <2>2. tmp.counts = Tally(tmp.entries)
    BY <2>1, EmptyTally, Zenon
  <2>3. \A c \in Counts : Tally(walked)[c] = result.counts[c]
    BY <2>1, TallyNone, EmptyIsResult, Zenon
  <2>4. IsPrefix(result.entries, walked) /\ walked = result.entries
    <3>1. << >> \in Seq(Entry)
      OBVIOUS
    <3> QED BY <2>1, <3>1, EmptyIsResult, PrefixItself, Zenon
  <2> QED BY <2>1, <2>2, <2>3, <2>4, Zenon DEF UnderWay, Found
<1> QED BY <1>1, <1>2, <1>3, <1>4, <1>5, <1>6, Parts

LEMMA ListsTyped ==
  ASSUME Lists
  PROVE  /\ tmp.entries \in Seq(Entry) /\ tmp.counts \in [Counts -> Nat]
         /\ result.entries \in Seq(Entry) /\ result.counts \in [Counts -> Nat]
         /\ walked \in Seq(Entry)
BY DEF Lists, Results, Entries, Entry

LEMMA StartRootKeeps ==
  ASSUME IInv, StartRoot
  PROVE  IInv'
<1> USE Parts
<1>1. /\ jobs # << >> /\ ~walking /\ roots # << >> /\ roots' = Tail(roots)
      /\ UNCHANGED <<fs, changes, jobs, result, walked, calm>>
  BY Zenon DEF StartRoot
<1>2. Head(jobs) \in Jobs
  BY <1>1 DEF Queues, Queued
<1>3. Head(jobs).roots \in Seq(Starts)
  BY <1>2, JobTyped, Zenon
<1>4. /\ roots' \in Seq(Starts) /\ IsSuffix(roots', Head(jobs).roots) /\ Head(roots) \in Starts
  <2>1. roots \in Seq(Starts) /\ IsSuffix(roots, Head(jobs).roots)
    BY <1>1, Zenon DEF Queues, Queued
  <2>2. /\ Tail(roots) \in Seq(Starts) /\ IsSuffix(Tail(roots), Head(jobs).roots)
        /\ Head(roots) \in Starts
    BY <1>1, <1>3, <2>1, SuffixTail, Zenon
  <2> QED BY <1>1, <2>2, Zenon
<1>5. Queues'
  BY <1>1, <1>4, Zenon DEF Queues, Queued
<1>6. FileSystem' /\ changes' \in 0 .. MaxChanges /\ calm' \in BOOLEAN
  BY <1>1, Unmoved, Zenon
<1>7. CASE UNCHANGED <<stack, walking, tmp>>
  BY <1>1, <1>5, <1>6, <1>7, Unmoved, PartsAfter, Zenon
<1>8. CASE stack' = <<Frame(<<Head(roots)>>)>> /\ walking' = TRUE /\ tmp' = Empty
  <2>1. <<Head(roots)>> \in Dirs
    BY <1>4, Zenon DEF Dirs
  <2>2. Frame(<<Head(roots)>>) \in Frames
    BY <2>1, FrameTyped, Zenon
  <2>3. Calls'
    <3>1. stack' \in Seq(Frames)
      BY <1>8, <2>2, SeqOfOne, Zenon
    <3> QED BY <1>1, <1>8, <3>1, Zenon DEF Calls
  <2>4. Lists'
    <3>1. Len(tmp'.entries) <= MaxEntries
      BY <1>8, EmptyIsResult, WalkAssumption
    <3> QED BY <1>1, <1>8, <3>1, EmptyIsResult, Zenon DEF Lists
  <2>5. UnderWay'
    <3>1. tmp'.counts = Tally(tmp'.entries)
      BY <1>8, EmptyTally, Zenon
    <3>2. ASSUME NEW c \in Counts
          PROVE  Tally(walked)[c] = result.counts[c] + tmp'.counts[c]
      <4>1. Tally(walked)[c] = result.counts[c]
        BY <1>1, Zenon DEF UnderWay
      <4>2. tmp'.counts[c] = 0
        BY <1>8, EmptyIsResult, Zenon
      <4>3. result.counts[c] \in Nat
        BY ListsTyped
      <4> QED BY <4>1, <4>2, <4>3
    <3>3. Found' = Found
      <4>1. Found' = result.entries \o << >>
        BY <1>1, <1>8, EmptyIsResult, Zenon DEF Found
      <4>2. Found = result.entries
        BY <1>1, Zenon DEF Found
      <4> QED BY <4>1, <4>2, ListsTyped, JoinEmpty, Zenon
    <3> QED BY <1>1, <1>8, <3>1, <3>2, <3>3, Zenon DEF UnderWay
  <2> QED BY <1>5, <1>6, <2>3, <2>4, <2>5, PartsAfter, Zenon
<1> QED BY <1>7, <1>8, Zenon DEF StartRoot

-----------------------------------------------------------------------------
(* The calls of walk_recursive(). *)

LEMMA Popped ==
  ASSUME Calls, stack # << >>, stack' = Front(stack), UNCHANGED <<walking, jobs>>
  PROVE  Calls'
<1>1. stack' \in Seq(Frames)
  BY TopTyped
<1> QED BY <1>1 DEF Calls

LEMMA OnlyStack ==
  ASSUME IInv, Calls', calm' \in BOOLEAN,
         UNCHANGED <<fs, changes, call, walking, tmp, result, walked>>
  PROVE  IInv'
<1>1. /\ UNCHANGED fs /\ UNCHANGED changes /\ UNCHANGED call
      /\ UNCHANGED <<tmp, result, walked>> /\ UNCHANGED <<tmp, result, walked, walking>>
  OBVIOUS
<1> QED BY <1>1, Parts, PartsAfter, Unmoved, Zenon

LEMMA PassOverKeeps ==
  ASSUME IInv, PassOver
  PROVE  IInv'
<1>1. Calls /\ calm \in BOOLEAN
  BY Parts
<1>2. UNCHANGED <<walking, jobs>> /\ UNCHANGED calm
  BY DEF PassOver, call
<1>3. Calls'
  BY <1>1, <1>2, Popped, Zenon DEF PassOver
<1> QED BY <1>1, <1>2, <1>3, OnlyStack DEF PassOver

LEMMA ReturnKeeps ==
  ASSUME IInv, Return
  PROVE  IInv'
<1>1. Calls /\ calm \in BOOLEAN
  BY Parts
<1>2. UNCHANGED <<walking, jobs>> /\ UNCHANGED calm
  BY DEF Return, call
<1>3. Calls'
  BY <1>1, <1>2, Popped, Zenon DEF Return
<1> QED BY <1>1, <1>2, <1>3, OnlyStack DEF Return

LEMMA Reopened ==
  ASSUME NEW frame \in Frames, NEW names, names \subseteq Paths
  PROVE  [frame EXCEPT !.opened = TRUE, !.rest = names] \in Frames
BY DEF Frames

LEMMA OpenedTyped ==
  ASSUME Top \in Frames, NEW names, names \subseteq Children(Top.dir)
  PROVE  /\ Opened(names) \in Frames /\ Opened(names).dir = Top.dir
         /\ Opened(names).opened = TRUE /\ Opened(names).rest = names
<1>1. Top.dir \in Dirs
  BY DEF Frames
<1>2. names \subseteq Paths
  BY DEF Children
<1>3. Frame(Top.dir) \in Frames
  BY <1>1, FrameTyped
<1>4. Opened(names) \in Frames
  BY <1>2, <1>3, Reopened, Zenon DEF Opened
<1> QED BY <1>4 DEF Opened, Frame

LEMMA OpenDirKeeps ==
  ASSUME IInv, OpenDir
  PROVE  IInv'
<1>1. /\ stack # << >> /\ Calls /\ calm \in BOOLEAN
      /\ UNCHANGED <<walking, jobs>>
      /\ UNCHANGED <<fs, changes, call, walking, tmp, result, walked>>
  BY Parts DEF OpenDir, call
<1>2. Top \in Frames /\ Front(stack) \in Seq(Frames)
  BY <1>1, TopTyped
<1>3. ASSUME NEW names, names \subseteq Children(Top.dir),
             stack' = Append(Front(stack), Opened(names)), calm' \in BOOLEAN
      PROVE  IInv'
  <2>1. Opened(names) \in Frames
    BY <1>2, <1>3, OpenedTyped
  <2>2. stack' \in Seq(Frames)
    BY <1>2, <1>3, <2>1
  <2>3. Calls'
    BY <1>1, <2>2 DEF Calls
  <2> QED BY <1>1, <1>3, <2>3, OnlyStack
<1>4. CASE stack' = Append(Front(stack), Opened(Names(Top.dir))) /\ UNCHANGED calm
  <2>1. Names(Top.dir) \subseteq Children(Top.dir)
    BY DEF Names
  <2> QED BY <1>1, <1>3, <1>4, <2>1
<1>5. CASE /\ \E names \in SUBSET Children(Top.dir) : stack' = Append(Front(stack), Opened(names))
           /\ calm' = FALSE
  BY <1>3, <1>5
<1>6. CASE stack' = Front(stack) /\ calm' = (calm /\ ~IsDir(Top.dir))
  <2>1. Calls'
    BY <1>1, <1>6, Popped
  <2>2. calm' \in BOOLEAN
    BY <1>6
  <2> QED BY <1>1, <2>1, <2>2, OnlyStack
<1> QED BY <1>4, <1>5, <1>6, Zenon DEF OpenDir

(* One name less in the top frame. *)
LEMMA NameRead ==
  ASSUME Calls, stack # << >>, NEW p
  PROVE  [stack EXCEPT ![Len(stack)].rest = @ \ {p}] \in Seq(Frames)
<1> DEFINE frame == [Top EXCEPT !.rest = @ \ {p}]
<1>1. Top \in Frames /\ Len(stack) \in DOMAIN stack /\ stack \in Seq(Frames)
  BY TopTyped DEF Calls
<1>2. frame \in Frames
  BY <1>1 DEF Frames
<1>3. [stack EXCEPT ![Len(stack)].rest = @ \ {p}] = [stack EXCEPT ![Len(stack)] = frame]
  BY Zenon DEF Top
<1> HIDE DEF frame
<1>4. [stack EXCEPT ![Len(stack)] = frame] \in Seq(Frames)
  BY <1>1, <1>2
<1> QED BY <1>3, <1>4, Zenon

LEMMA SkipNameKeeps ==
  ASSUME IInv, SkipName
  PROVE  IInv'
<1>1. /\ stack # << >> /\ Calls /\ calm \in BOOLEAN
      /\ UNCHANGED <<walking, jobs>>
      /\ UNCHANGED <<fs, changes, call, walking, tmp, result, walked>>
  BY Parts DEF SkipName, call
<1>2. PICK p \in Top.rest : /\ stack' = [stack EXCEPT ![Len(stack)].rest = @ \ {p}]
                            /\ calm' = (calm /\ p \in NotUtf8)
  BY Zenon DEF SkipName
<1>3. stack' \in Seq(Frames)
  BY <1>1, <1>2, NameRead, Zenon
<1>4. Calls'
  BY <1>1, <1>3 DEF Calls
<1>5. calm' \in BOOLEAN
  BY <1>2
<1> QED BY <1>1, <1>4, <1>5, OnlyStack

-----------------------------------------------------------------------------
(* An entry is added to the list, to the counters and to the record alike. *)

Added(e) ==
  /\ tmp'.entries = Append(tmp.entries, e)
  /\ tmp'.counts = [c \in Counts |-> tmp.counts[c] + (IF c \in Classes(e.node) THEN 1 ELSE 0)]
  /\ tmp' \in Results
  /\ walked' = Append(walked, e)

LEMMA PlusOne ==
  ASSUME NEW a \in Nat, NEW b \in Nat, NEW one \in Nat
  PROVE  (a + b) + one = a + (b + one)
OBVIOUS

LEMMA OneEntry ==
  ASSUME IInv, walking, NEW e \in Entry, Added(e), UNCHANGED <<result, walking>>,
         Len(tmp.entries) < MaxEntries
  PROVE  Lists' /\ UnderWay'
<1>1. Lists /\ UnderWay /\ result' = result /\ walking' = walking
  BY Parts
<1>2. /\ tmp.entries \in Seq(Entry) /\ tmp.counts \in [Counts -> Nat]
      /\ result.entries \in Seq(Entry) /\ result.counts \in [Counts -> Nat]
      /\ walked \in Seq(Entry)
  BY <1>1, ListsTyped
<1>3. Lists'
  <2>1. Len(tmp'.entries) <= MaxEntries
    <3>1. Len(tmp'.entries) = Len(tmp.entries) + 1 /\ Len(tmp.entries) \in Nat
      BY <1>2 DEF Added
    <3> QED BY <3>1, WalkAssumption
  <2>2. walked' \in Seq(Entry)
    BY <1>2 DEF Added
  <2>3. walked' \in Entries
    BY <2>2 DEF Entries, Entry
  <2>4. tmp' \in Results
    BY Zenon DEF Added
  <2> QED BY <1>1, <2>1, <2>3, <2>4, Zenon DEF Lists
<1>4. ASSUME NEW c \in Counts
      PROVE  /\ Tally(tmp'.entries)[c] = tmp'.counts[c]
             /\ Tally(walked')[c] = result.counts[c] + tmp'.counts[c]
  <2> DEFINE one == IF c \in Classes(e.node) THEN 1 ELSE 0
  <2>1. tmp'.counts[c] = tmp.counts[c] + one
    BY Zenon DEF Added
  <2>2. Tally(Append(tmp.entries, e))[c] = Tally(tmp.entries)[c] + one
    BY <1>2, TallyMore
  <2>3. Tally(Append(walked, e))[c] = Tally(walked)[c] + one
    BY <1>2, TallyMore
  <2>4. /\ tmp.counts[c] = Tally(tmp.entries)[c]
        /\ Tally(walked)[c] = result.counts[c] + tmp.counts[c]
    BY <1>1, Zenon DEF UnderWay
  <2>5. result.counts[c] \in Nat /\ tmp.counts[c] \in Nat /\ one \in Nat
    BY <1>2
  <2> HIDE DEF one
  <2>6. (result.counts[c] + tmp.counts[c]) + one = result.counts[c] + (tmp.counts[c] + one)
    BY <2>5, PlusOne, Zenon
  <2> QED BY <2>1, <2>2, <2>3, <2>4, <2>6, Zenon DEF Added
<1>5. tmp'.counts = Tally(tmp'.entries)
  <2> DEFINE t == Tally(tmp'.entries)
  <2>1. t = [c \in Counts |-> t[c]]
    BY Zenon DEF Tally
  <2>2. tmp'.counts = [c \in Counts |-> tmp'.counts[c]]
    BY DEF Added
  <2> HIDE DEF t
  <2>3. \A c \in Counts : t[c] = tmp'.counts[c]
    BY <1>4, Zenon DEF t
  <2>4. tmp'.counts = t
    BY <2>1, <2>2, <2>3, Zenon
  <2> QED BY <2>4 DEF t
<1>6. IsPrefix(result.entries, walked')
  <2>1. IsPrefix(result.entries, walked)
    BY <1>1, Zenon DEF UnderWay
  <2>2. IsPrefix(result.entries, Append(walked, e))
    BY <1>2, <2>1, PrefixLonger
  <2> QED BY <2>2, Zenon DEF Added
<1>7. Len(result.entries) < MaxEntries => walked' = Found'
  <2>1. Len(result.entries) < MaxEntries => walked = result.entries \o tmp.entries
    BY <1>1, Zenon DEF UnderWay, Found
  <2>2. result.entries \o Append(tmp.entries, e) = Append(result.entries \o tmp.entries, e)
    <3> DEFINE s == result.entries
               t == tmp.entries
    <3>1. s \in Seq(Entry) /\ t \in Seq(Entry) /\ e \in Entry
      BY <1>2
    <3> HIDE DEF s, t
    <3>2. s \o Append(t, e) = Append(s \o t, e)
      BY <3>1, JoinAppend
    <3> QED BY <3>2, Zenon DEF s, t
  <2>3. Found' = result.entries \o Append(tmp.entries, e)
    <3>1. Found' = result'.entries \o tmp'.entries
      <4>1. walking'
        BY <1>1
      <4> QED BY <4>1, Zenon DEF Found
    <3> QED BY <1>1, <3>1, Zenon DEF Added
  <2>4. walked' = Append(walked, e)
    BY Zenon DEF Added
  <2> QED BY <2>1, <2>2, <2>3, <2>4, Zenon
<1>8. \A c \in Counts :
        Tally(walked')[c] = IF walking' THEN result'.counts[c] + tmp'.counts[c] ELSE result'.counts[c]
  BY <1>1, <1>4
<1>9. UnderWay'
  BY <1>1, <1>5, <1>6, <1>7, <1>8, Zenon DEF UnderWay
<1> QED BY <1>3, <1>9

(* What a name is found to be, behind a link or not. *)
LEMMA WhatIsFound ==
  ASSUME FileSystem, NEW p \in Paths
  PROVE  Lookups(p) \subseteq Node \cup {Absent}
BY WalkAssumption DEF FileSystem, Lookups

LEMMA VisitKeeps ==
  ASSUME IInv, Visit
  PROVE  IInv'
<1>1. /\ stack # << >> /\ Top.opened /\ ~Full(tmp)
      /\ UNCHANGED <<fs, changes, call, walking, result, calm>>
  BY Zenon DEF Visit
<1>2. PICK p \in Top.rest : \E node \in Lookups(p) : AddEntry(p, node)
  BY Zenon DEF Visit
<1>3. Calls /\ Lists /\ walking /\ FileSystem
  BY <1>1, Parts DEF Calls
<1>4. p \in Paths
  <2>1. Top \in Frames
    BY <1>1, <1>3, TopTyped
  <2> QED BY <2>1 DEF Frames
<1>5. /\ UNCHANGED fs /\ UNCHANGED changes /\ UNCHANGED call /\ UNCHANGED calm
      /\ UNCHANGED <<walking, jobs>> /\ UNCHANGED <<result, walking>>
  BY <1>1 DEF call
<1>15. PICK node \in Lookups(p) : AddEntry(p, node)
  BY <1>2
<1>16. node \in Node \cup {Absent}
  BY <1>3, <1>4, WhatIsFound
<1> DEFINE rest == [stack EXCEPT ![Len(stack)].rest = @ \ {p}]
           entry == [path |-> p, node |-> node]
<1>6. rest \in Seq(Frames)
  BY <1>1, <1>3, NameRead, Zenon
<1>7. CASE node = Absent
  <2>1. stack' = rest /\ UNCHANGED <<tmp, walked>>
    BY <1>15, <1>7, Zenon DEF AddEntry
  <2>2. Calls'
    <3>1. jobs # << >> /\ walking
      BY <1>1, <1>3 DEF Calls
    <3> HIDE DEF rest
    <3>2. stack' \in Seq(Frames) /\ walking' /\ jobs' # << >>
      BY <1>5, <1>6, <2>1, <3>1
    <3> QED BY <3>2, Zenon DEF Calls
  <2>3. UNCHANGED calm /\ calm \in BOOLEAN
    BY <1>5, Parts, Zenon
  <2> QED BY <1>1, <2>1, <2>2, <2>3, OnlyStack
<1>8. CASE node # Absent
  <2>1. /\ tmp' = [entries |-> Append(tmp.entries, entry),
                   counts |-> [c \in Counts |->
                     tmp.counts[c] + (IF c \in Classes(node) THEN 1 ELSE 0)]]
        /\ walked' = Append(walked, entry)
        /\ stack' = IF node.kind = "dir" THEN Append(rest, Frame(p)) ELSE rest
    BY <1>15, <1>8, Zenon DEF AddEntry
  <2>2. node \in Node
    BY <1>8, <1>16
  <2>3. entry \in Entry /\ entry.node = node
    BY <1>4, <2>2 DEF Entry
  <2>4. p \in Dirs
    BY <1>4, Zenon DEF Dirs
  <2>5. Frame(p) \in Frames
    BY <2>4, FrameTyped
  <2>6. stack' \in Seq(Frames)
    <3> HIDE DEF rest
    <3>1. Append(rest, Frame(p)) \in Seq(Frames)
      BY <1>6, <2>5
    <3> QED BY <1>6, <2>1, <3>1, Zenon
  <2>7. Calls'
    <3>1. jobs # << >>
      BY <1>1, <1>3 DEF Calls
    <3>2. walking' /\ jobs' # << >>
      BY <1>3, <1>5, <3>1
    <3> QED BY <2>6, <3>2, Zenon DEF Calls
  <2> HIDE DEF entry
  <2>8. /\ tmp.entries \in Seq(Entry) /\ tmp.counts \in [Counts -> Nat]
        /\ walked \in Seq(Entry)
    BY <1>3, ListsTyped
  <2>9. /\ tmp'.entries = Append(tmp.entries, entry)
        /\ tmp'.counts = [c \in Counts |->
             tmp.counts[c] + (IF c \in Classes(entry.node) THEN 1 ELSE 0)]
    BY <2>1, <2>3
  <2>10. tmp' \in Results
    <3> DEFINE list == Append(tmp.entries, entry)
               sums == [c \in Counts |->
                         tmp.counts[c] + (IF c \in Classes(node) THEN 1 ELSE 0)]
    <3>1. list \in Seq(Entry)
      BY <2>3, <2>8
    <3>2. sums \in [Counts -> Nat]
      BY <2>8
    <3> HIDE DEF list, sums
    <3>3. [entries |-> list, counts |-> sums] \in Results
      BY <3>1, <3>2 DEF Results, Entries, Entry
    <3> QED BY <2>1, <3>3, Zenon DEF list, sums
  <2>11. Len(tmp.entries) < MaxEntries
    <3>1. Len(tmp.entries) \in Nat
      BY <2>8
    <3> QED BY <1>1, <3>1, WalkAssumption DEF Full
  <2>12. Lists' /\ UnderWay'
    <3>1. Added(entry)
      BY <2>1, <2>9, <2>10, Zenon DEF Added
    <3> QED BY <1>3, <1>5, <2>3, <2>11, <3>1, OneEntry
  <2>13. FileSystem' /\ changes' \in 0 .. MaxChanges /\ Queues' /\ calm' \in BOOLEAN
    BY <1>5, Parts, Unmoved, Zenon
  <2> QED BY <2>7, <2>12, <2>13, PartsAfter, Zenon
<1> QED BY <1>7, <1>8

LEMMA MergeKeeps ==
  ASSUME IInv, Merge
  PROVE  IInv'
<1> DEFINE both == result.entries \o tmp.entries
           list == IF Len(both) > MaxEntries THEN SubSeq(both, 1, MaxEntries) ELSE both
           sums == [c \in Counts |-> result.counts[c] + tmp.counts[c]]
<1>1. /\ walking /\ stack = << >> /\ walking' = FALSE
      /\ result' = [entries |-> list, counts |-> sums]
      /\ UNCHANGED <<fs, changes, call, stack, tmp, walked, calm>>
  BY Zenon DEF Merge
<1>2. /\ UNCHANGED fs /\ UNCHANGED changes /\ UNCHANGED call /\ UNCHANGED calm
      /\ stack' = stack /\ tmp' = tmp /\ walked' = walked
  BY <1>1
<1>3. Lists /\ UnderWay /\ Calls
  BY Parts
<1>4. /\ tmp.entries \in Seq(Entry) /\ tmp.counts \in [Counts -> Nat]
      /\ result.entries \in Seq(Entry) /\ result.counts \in [Counts -> Nat]
      /\ walked \in Seq(Entry)
  BY <1>3, ListsTyped
<1>5. /\ list \in Seq(Entry) /\ Len(list) <= MaxEntries
      /\ IsPrefix(list, walked) /\ (Len(list) < MaxEntries => walked = list)
  <2>1. IsPrefix(result.entries, walked) /\ Len(result.entries) <= MaxEntries
    BY <1>3, Zenon DEF UnderWay, Lists
  <2>2. Len(result.entries) < MaxEntries => walked = both
    BY <1>1, <1>3, Zenon DEF UnderWay, Found
  <2>3. MaxEntries \in Nat
    BY WalkAssumption
  <2>4. list = AtMost(both, MaxEntries)
    BY Zenon DEF AtMost
  <2>5. both \in Seq(Entry) /\ IsPrefix(result.entries, both)
    BY <1>4, JoinPrefix
  <2> HIDE DEF list, both
  <2> QED BY <1>4, <2>1, <2>2, <2>3, <2>4, <2>5, TakenOver
<1>6. sums \in [Counts -> Nat]
  BY <1>4
<1> HIDE DEF list, sums
<1>7. result' \in Results /\ result'.entries = list /\ result'.counts = sums
  BY <1>1, <1>5, <1>6 DEF Results, Entries, Entry
<1>8. Lists'
  BY <1>2, <1>3, <1>5, <1>7, Zenon DEF Lists
<1>9. UnderWay'
  <2>1. \A c \in Counts : Tally(walked)[c] = sums[c]
    BY <1>1, <1>3, Zenon DEF UnderWay, sums
  <2>2. tmp.counts = Tally(tmp.entries)
    BY <1>3, Zenon DEF UnderWay
  <2>3. Found' = list
    BY <1>1, <1>7, Zenon DEF Found
  <2> QED BY <1>1, <1>2, <1>5, <1>7, <2>1, <2>2, <2>3, Zenon DEF UnderWay
<1>10. Calls'
  BY <1>1, <1>2, <1>3, Zenon DEF Calls
<1>11. FileSystem' /\ changes' \in 0 .. MaxChanges /\ Queues' /\ calm' \in BOOLEAN
  BY <1>2, Parts, Unmoved, Zenon
<1> QED BY <1>8, <1>9, <1>10, <1>11, PartsAfter, Zenon

-----------------------------------------------------------------------------
(* On to the next tree. *)

LEMMA NextJob ==
  ASSUME NEW s \in Seq(Jobs), Len(s) # 1, s # << >>
  PROVE  Tail(s) \in Seq(Jobs) /\ Head(Tail(s)) = s[2] /\ s[2].roots \in Seq(Starts)
<1>1. Len(s) \in Nat /\ Len(s) >= 2
  <2> DEFINE n == Len(s)
  <2>1. n \in Nat /\ n # 0 /\ n # 1
    BY EmptySeq
  <2> HIDE DEF n
  <2>2. n >= 2
    BY <2>1
  <2> QED BY <2>1, <2>2 DEF n
<1>2. s[2] \in Jobs /\ Tail(s) \in Seq(Jobs) /\ Len(Tail(s)) = Len(s) - 1 /\ Tail(s)[1] = s[2]
  BY <1>1
<1>3. Head(Tail(s)) = Tail(s)[1]
  BY <1>1, <1>2
<1>4. s[2].roots \in Seq(Starts)
  BY <1>2, JobTyped, Zenon
<1> QED BY <1>2, <1>3, <1>4, Zenon

LEMMA LastJob ==
  ASSUME NEW s \in Seq(Jobs), Len(s) = 1
  PROVE  Tail(s) = << >>
<1>1. Tail(s) \in Seq(Jobs) /\ Len(Tail(s)) = 0
  OBVIOUS
<1> QED BY <1>1, EmptySeq

LEMMA PrintResultKeeps ==
  ASSUME IInv, PrintResult
  PROVE  IInv'
<1>1. /\ jobs # << >> /\ ~walking /\ roots = << >> /\ jobs' = Tail(jobs)
      /\ roots' = IF Len(jobs) = 1 THEN << >> ELSE jobs[2].roots
      /\ result' = Empty /\ walked' = << >> /\ calm' = TRUE
      /\ UNCHANGED <<fs, changes, stack, walking, tmp>>
  BY Zenon DEF PrintResult, Parsed
<1>2. UNCHANGED fs /\ UNCHANGED changes /\ stack' = stack /\ walking' = walking /\ tmp' = tmp
  BY <1>1
<1>3. Lists /\ UnderWay /\ Calls /\ Queues
  BY Parts
<1>4. jobs \in Seq(Jobs) /\ IsSuffix(jobs, AllJobs)
  BY <1>3, Zenon DEF Queues, Queued
<1>5. jobs' \in Seq(Jobs) /\ IsSuffix(jobs', AllJobs)
  BY <1>1, <1>4, JobsAreJobs, SuffixTail, Zenon
<1>6. /\ roots' \in Seq(Starts)
      /\ jobs' # << >> => IsSuffix(roots', Head(jobs').roots)
  <2>1. CASE Len(jobs) = 1
    <3>1. jobs' = << >> /\ roots' = << >>
      BY <1>1, <1>4, <2>1, LastJob, Zenon
    <3>2. << >> \in Seq(Starts)
      OBVIOUS
    <3> QED BY <3>1, <3>2, Zenon
  <2>2. CASE Len(jobs) # 1
    <3>1. Head(jobs') = jobs[2] /\ jobs[2].roots \in Seq(Starts)
      BY <1>1, <1>4, <2>2, NextJob, Zenon
    <3>2. roots' = jobs[2].roots
      BY <1>1, <2>2, Zenon
    <3>3. IsSuffix(jobs[2].roots, jobs[2].roots)
      BY <3>1, SuffixItself
    <3> QED BY <3>1, <3>2, <3>3, Zenon
  <2> QED BY <2>1, <2>2
<1>7. Queues'
  BY <1>5, <1>6, Zenon DEF Queues, Queued
<1>8. Calls'
  <2>1. stack = << >>
    BY <1>1, <1>3, Zenon DEF Calls
  <2> QED BY <1>2, <1>3, <2>1, Zenon DEF Calls
<1>9. Lists'
  <2>1. Len(result'.entries) <= MaxEntries
    BY <1>1, EmptyIsResult, WalkAssumption
  <2>2. walked' \in Entries
    BY <1>1 DEF Entries
  <2> QED BY <1>1, <1>2, <1>3, <2>1, <2>2, EmptyIsResult, Zenon DEF Lists
<1>10. UnderWay'
  <2>1. tmp'.counts = Tally(tmp'.entries)
    BY <1>2, <1>3, Zenon DEF UnderWay
  <2>2. \A c \in Counts : Tally(walked')[c] = result'.counts[c]
    BY <1>1, TallyNone, EmptyIsResult, Zenon
  <2>3. IsPrefix(result'.entries, walked') /\ walked' = result'.entries
    <3>1. << >> \in Seq(Entry)
      OBVIOUS
    <3> QED BY <1>1, <3>1, EmptyIsResult, PrefixItself, Zenon
  <2>4. ~walking'
    BY <1>1, <1>2
  <2>5. Found' = result'.entries
    BY <2>4, Zenon DEF Found
  <2> QED BY <2>1, <2>2, <2>3, <2>4, <2>5, Zenon DEF UnderWay
<1>11. FileSystem' /\ changes' \in 0 .. MaxChanges /\ calm' \in BOOLEAN
  <2>1. FileSystem' /\ changes' \in 0 .. MaxChanges
    BY <1>2, Parts, Unmoved, Zenon
  <2> QED BY <1>1, <2>1, Zenon
<1> QED BY <1>7, <1>8, <1>9, <1>10, <1>11, PartsAfter, Zenon

-----------------------------------------------------------------------------
(* The file system changes under the walk. *)

(* What goes with a directory goes with what is above it. *)
LEMMA BelowIsBelow ==
  ASSUME NEW p \in Paths, NEW q \in Paths, Len(q) > 1, IsPrefix(p, Parent(q))
  PROVE  IsPrefix(p, q)
<1>1. p \in Seq(STRING) /\ q \in Seq(STRING) /\ q # << >>
  BY WalkAssumption
<1>2. /\ Parent(q) \in Seq(STRING) /\ Len(Parent(q)) = Len(q) - 1
      /\ \A i \in 1 .. Len(q) - 1 : Parent(q)[i] = q[i]
  BY <1>1, FrontIsSeq DEF Parent
<1>3. Len(p) <= Len(Parent(q)) /\ \A i \in 1 .. Len(p) : p[i] = Parent(q)[i]
  BY <1>1, <1>2, PrefixMeans
<1>4. Len(p) \in Nat /\ Len(q) \in Nat
  BY <1>1
<1>5. Len(p) <= Len(q) /\ \A i \in 1 .. Len(p) : p[i] = q[i]
  BY <1>2, <1>3, <1>4
<1> QED BY <1>1, <1>5, PrefixMeans

LEMMA VanishKeepsTree ==
  ASSUME FileSystem, NEW p \in Paths,
         fs' = [q \in Paths |-> IF IsPrefix(p, q) THEN Absent ELSE fs[q]]
  PROVE  FileSystem'
<1>1. fs' \in [Paths -> Node \cup {Absent}]
  BY DEF FileSystem
<1>2. ASSUME NEW q \in Paths, fs'[q] # Absent, ~(Len(q) > 1)
      PROVE  fs'[q].kind # "symlink"
  <2>1. ~IsPrefix(p, q) /\ fs'[q] = fs[q]
    BY <1>2, Zenon
  <2> QED BY <1>2, <2>1, Zenon DEF FileSystem, IsTree
<1>3. ASSUME NEW q \in Paths, fs'[q] # Absent, Len(q) > 1
      PROVE  fs'[Parent(q)] # Absent /\ fs'[Parent(q)].kind = "dir"
  <2>1. ~IsPrefix(p, q) /\ fs'[q] = fs[q]
    BY <1>3, Zenon
  <2>2. Parent(q) \in Paths
    BY <1>3, WalkAssumption
  <2>3. ~IsPrefix(p, Parent(q))
    BY <1>3, <2>1, BelowIsBelow
  <2>4. fs'[Parent(q)] = fs[Parent(q)]
    BY <2>2, <2>3, Zenon
  <2>5. fs[Parent(q)] # Absent /\ fs[Parent(q)].kind = "dir"
    BY <1>3, <2>1, Zenon DEF FileSystem, IsTree
  <2> QED BY <2>4, <2>5, Zenon
<1> QED BY <1>1, <1>2, <1>3, Zenon DEF FileSystem, IsTree

LEMMA CallsGoOn ==
  ASSUME Calls, walking' = walking, jobs' = jobs, stack # << >>, stack' \in Seq(Frames)
  PROVE  Calls'
<1>1. walking /\ jobs # << >>
  BY DEF Calls
<1>2. walking' /\ jobs' # << >> /\ walking' \in BOOLEAN
  BY <1>1 DEF Calls
<1> QED BY <1>2, Zenon DEF Calls

(* A name that appears in time for an open directory. *)
LEMMA NameMore ==
  ASSUME stack \in Seq(Frames), NEW i \in DOMAIN stack, NEW p \in Paths
  PROVE  [stack EXCEPT ![i].rest = @ \cup {p}] \in Seq(Frames)
<1> DEFINE frame == [stack[i] EXCEPT !.rest = @ \cup {p}]
<1>1. stack[i] \in Frames
  OBVIOUS
<1>2. frame \in Frames
  BY <1>1 DEF Frames
<1>3. [stack EXCEPT ![i].rest = @ \cup {p}] = [stack EXCEPT ![i] = frame]
  BY Zenon
<1> HIDE DEF frame
<1>4. [stack EXCEPT ![i] = frame] \in Seq(Frames)
  BY <1>2
<1> QED BY <1>3, <1>4, Zenon

LEMMA ChangeKeeps ==
  ASSUME IInv, Change
  PROVE  IInv'
<1>1. /\ jobs # << >> /\ changes < MaxChanges /\ changes' = changes + 1 /\ calm' = FALSE
      /\ UNCHANGED <<call, walking, tmp, result, walked>>
  BY Zenon DEF Change
<1>2. /\ UNCHANGED call /\ UNCHANGED <<tmp, result, walked>>
      /\ UNCHANGED <<tmp, result, walked, walking>> /\ walking' = walking /\ jobs' = jobs
  BY <1>1 DEF call
<1>3. FileSystem /\ Calls /\ changes \in 0 .. MaxChanges
  BY Parts
<1>4. changes' \in 0 .. MaxChanges
  BY <1>1, <1>3, WalkAssumption
<1>5. calm' \in BOOLEAN
  BY <1>1, Zenon
<1>6. Queues' /\ Lists' /\ UnderWay'
  BY <1>2, Parts, Unmoved, Zenon
<1>7. FileSystem' /\ Calls'
  <2>1. CASE Appear
    <3>1. PICK p \in Paths, node \in NewNodes :
            /\ fs' = [fs EXCEPT ![p] = node] /\ IsTree(fs')
            /\ \/ UNCHANGED stack
               \/ \E i \in DOMAIN stack :
                    /\ Len(p) > 1 /\ stack[i].dir = Parent(p) /\ stack[i].opened
                    /\ stack' = [stack EXCEPT ![i].rest = @ \cup {p}]
      BY <2>1, Zenon DEF Appear
    <3>2. node \in Node
      BY WalkAssumption
    <3>3. fs' \in [Paths -> Node \cup {Absent}]
      BY <1>3, <3>1, <3>2 DEF FileSystem
    <3>4. FileSystem'
      BY <3>1, <3>3, Zenon DEF FileSystem
    <3>5. CASE UNCHANGED stack
      <4>1. Calls'
        BY <1>2, <1>3, <3>5, Unmoved
      <4> QED BY <3>4, <4>1
    <3>6. CASE \E i \in DOMAIN stack : stack' = [stack EXCEPT ![i].rest = @ \cup {p}]
      <4>1. PICK i \in DOMAIN stack : stack' = [stack EXCEPT ![i].rest = @ \cup {p}]
        BY <3>6
      <4>2. stack \in Seq(Frames)
        BY <1>3, Zenon DEF Calls
      <4>3. stack' \in Seq(Frames)
        BY <4>1, <4>2, NameMore, Zenon
      <4>4. stack # << >>
        BY <4>2
      <4>5. Calls'
        BY <1>2, <1>3, <4>3, <4>4, CallsGoOn
      <4> QED BY <3>4, <4>5
    <3> QED BY <3>1, <3>5, <3>6, Zenon
  <2>2. CASE Vanish
    <3>1. PICK p \in Paths :
            /\ fs' = [q \in Paths |-> IF IsPrefix(p, q) THEN Absent ELSE fs[q]]
            /\ UNCHANGED stack
      BY <2>2, Zenon DEF Vanish
    <3>2. FileSystem'
      BY <1>3, <3>1, VanishKeepsTree, Zenon
    <3>3. Calls'
      BY <1>2, <1>3, <3>1, Unmoved
    <3> QED BY <3>2, <3>3
  <2> QED BY <2>1, <2>2, Zenon DEF Change
<1> QED BY <1>4, <1>5, <1>6, <1>7, PartsAfter, Zenon

-----------------------------------------------------------------------------
(* Paths: one at the beginning of another. *)

Word == STRING \cup Starts
Below(p, q) == IsPrefix(p, q) /\ p # q

LEMMA PathsAreDirs ==
  /\ Paths \subseteq Dirs
  /\ \A dir \in Dirs : dir \in Seq(Word) /\ dir # << >>
<1>1. Paths \subseteq Dirs
  BY Zenon DEF Dirs
<1>2. \A p \in Paths : p \in Seq(Word) /\ p # << >>
  <2> TAKE p \in Paths
  <2>1. p \in Seq(STRING) /\ p # << >>
    BY WalkAssumption
  <2> HIDE DEF Starts
  <2>2. p \in Seq(Word)
    BY <2>1 DEF Word
  <2> QED BY <2>1, <2>2
<1>3. \A root \in Starts : <<root>> \in Seq(Word) /\ <<root>> # << >>
  <2> TAKE root \in Starts
  <2>1. root \in Word
    BY Zenon DEF Word
  <2> QED BY <2>1
<1>4. \A dir \in Dirs : dir \in Paths \/ \E root \in Starts : dir = <<root>>
  BY Zenon DEF Dirs
<1> QED BY <1>1, <1>2, <1>3, <1>4, Zenon

LEMMA BelowIsLonger ==
  ASSUME NEW R, NEW p \in Seq(R), NEW q \in Seq(R), IsPrefix(p, q)
  PROVE  /\ Len(p) <= Len(q) /\ (Len(p) = Len(q) => p = q)
         /\ p # q => Len(p) < Len(q)
<1>1. Len(p) <= Len(q) /\ \A i \in 1 .. Len(p) : p[i] = q[i]
  BY PrefixMeans
<1>2. Len(p) = Len(q) => p = q
  BY <1>1, SameSeq
<1>3. Len(p) \in Nat /\ Len(q) \in Nat
  OBVIOUS
<1> QED BY <1>1, <1>2, <1>3

LEMMA PrefixOfPrefix ==
  ASSUME NEW R, NEW p \in Seq(R), NEW q \in Seq(R), NEW r \in Seq(R),
         IsPrefix(p, q), IsPrefix(q, r)
  PROVE  IsPrefix(p, r)
<1>1. Len(p) <= Len(q) /\ \A i \in 1 .. Len(p) : p[i] = q[i]
  BY PrefixMeans
<1>2. Len(q) <= Len(r) /\ \A i \in 1 .. Len(q) : q[i] = r[i]
  BY PrefixMeans
<1>3. Len(p) \in Nat /\ Len(q) \in Nat /\ Len(r) \in Nat
  OBVIOUS
<1>4. Len(p) <= Len(r) /\ \A i \in 1 .. Len(p) : p[i] = r[i]
  BY <1>1, <1>2, <1>3
<1> QED BY <1>4, PrefixMeans

LEMMA OnePrefixPerLength ==
  ASSUME NEW R, NEW p \in Seq(R), NEW q \in Seq(R), NEW r \in Seq(R),
         IsPrefix(p, r), IsPrefix(q, r), Len(p) = Len(q)
  PROVE  p = q
<1>1. \A i \in 1 .. Len(p) : p[i] = r[i]
  BY PrefixMeans
<1>2. \A i \in 1 .. Len(q) : q[i] = r[i]
  BY PrefixMeans
<1>3. \A i \in 1 .. Len(p) : p[i] = q[i]
  BY <1>1, <1>2, Zenon
<1> QED BY <1>3, SameSeq

LEMMA SameFirst ==
  ASSUME NEW R, NEW p \in Seq(R), NEW q \in Seq(R), IsPrefix(p, q), p # << >>
  PROVE  p[1] = q[1]
<1>1. \A i \in 1 .. Len(p) : p[i] = q[i]
  BY PrefixMeans
<1>2. 1 \in 1 .. Len(p)
  BY EmptySeq
<1> QED BY <1>1, <1>2

(* The path above. *)
LEMMA ParentIsPrefix ==
  ASSUME NEW R, NEW q \in Seq(R), q # << >>
  PROVE  /\ Parent(q) \in Seq(R) /\ Len(Parent(q)) = Len(q) - 1 /\ IsPrefix(Parent(q), q)
         /\ Parent(q) # q
<1>1. /\ Parent(q) \in Seq(R) /\ Len(Parent(q)) = Len(q) - 1
      /\ \A i \in 1 .. Len(q) - 1 : Parent(q)[i] = q[i]
  BY FrontIsSeq, Zenon DEF Parent
<1>2. Len(q) \in Nat
  OBVIOUS
<1>3. Len(Parent(q)) <= Len(q) /\ \A i \in 1 .. Len(Parent(q)) : Parent(q)[i] = q[i]
  BY <1>1, <1>2
<1>4. IsPrefix(Parent(q), q)
  BY <1>1, <1>3, PrefixMeans
<1>5. Parent(q) # q
  BY <1>1, <1>2
<1> QED BY <1>1, <1>4, <1>5, Zenon

LEMMA PrefixOfParent ==
  ASSUME NEW R, NEW p \in Seq(R), NEW q \in Seq(R), q # << >>, IsPrefix(p, q), p # q
  PROVE  IsPrefix(p, Parent(q))
<1>1. /\ Parent(q) \in Seq(R) /\ Len(Parent(q)) = Len(q) - 1
      /\ \A i \in 1 .. Len(q) - 1 : Parent(q)[i] = q[i]
  BY FrontIsSeq, Zenon DEF Parent
<1>2. Len(p) < Len(q) /\ \A i \in 1 .. Len(p) : p[i] = q[i]
  BY BelowIsLonger, PrefixMeans
<1>3. Len(p) \in Nat /\ Len(q) \in Nat
  OBVIOUS
<1>4. Len(p) <= Len(Parent(q)) /\ \A i \in 1 .. Len(p) : p[i] = Parent(q)[i]
  BY <1>1, <1>2, <1>3
<1> QED BY <1>1, <1>4, PrefixMeans

(* The first n names of a path. *)
LEMMA FirstNames ==
  ASSUME NEW R, NEW q \in Seq(R), NEW n \in 0 .. Len(q)
  PROVE  /\ SubSeq(q, 1, n) \in Seq(R) /\ Len(SubSeq(q, 1, n)) = n
         /\ IsPrefix(SubSeq(q, 1, n), q)
<1> DEFINE r == SubSeq(q, 1, n)
<1>1. r \in Seq(R) /\ Len(r) = n /\ \A i \in 1 .. n : r[i] = q[i]
  BY FirstOnes
<1> HIDE DEF r
<1>2. Len(r) <= Len(q) /\ \A i \in 1 .. Len(r) : r[i] = q[i]
  BY <1>1
<1>3. IsPrefix(r, q)
  BY <1>1, <1>2, PrefixMeans
<1> QED BY <1>1, <1>3 DEF r

LEMMA PrefixIsFirst ==
  ASSUME NEW R, NEW p \in Seq(R), NEW q \in Seq(R), IsPrefix(p, q)
  PROVE  p = SubSeq(q, 1, Len(p))
<1>1. Len(p) \in 0 .. Len(q)
  <2>1. Len(p) <= Len(q) /\ Len(p) \in Nat /\ Len(q) \in Nat
    BY BelowIsLonger
  <2> QED BY <2>1
<1> DEFINE r == SubSeq(q, 1, Len(p))
<1>2. r \in Seq(R) /\ Len(r) = Len(p) /\ IsPrefix(r, q)
  BY <1>1, FirstNames
<1> HIDE DEF r
<1>3. p = r
  BY <1>2, OnePrefixPerLength
<1> QED BY <1>3 DEF r

LEMMA Smallest ==
  ASSUME NEW S, S \subseteq Nat, S # {}
  PROVE  \E x \in S : \A y \in S : x <= y
<1>1. PICK x \in S : \A y \in S : ~ (<<y, x>> \in OpToRel(<, Nat))
  BY NatLessThanWellFounded, WFMin, Zenon
<1>2. \A y \in S : ~ (y < x)
  BY <1>1 DEF OpToRel
<1> QED
  BY <1>2

(* Above a node there are directories all the way up. *)
LEMMA DirsAbove ==
  ASSUME FileSystem, NEW q \in Paths, fs[q] # Absent, NEW n \in 1 .. Len(q) - 1
  PROVE  IsDir(SubSeq(q, 1, n))
<1> DEFINE off == {k \in Nat : k \in 1 .. Len(q) - 1 /\ ~IsDir(SubSeq(q, 1, Len(q) - k))}
<1>1. q \in Seq(Word) /\ q # << >> /\ Len(q) \in Nat
  BY PathsAreDirs
<1>2. ASSUME NEW k \in off, \A j \in off : k <= j
      PROVE  FALSE
  <2> DEFINE m == Len(q) - k
             p == SubSeq(q, 1, m + 1)
  <2>1. m \in 1 .. Len(q) - 1 /\ m \in 0 .. Len(q) /\ m + 1 \in 0 .. Len(q) /\ ~IsDir(SubSeq(q, 1, m))
    BY <1>1
  <2>2. p \in Seq(Word) /\ Len(p) = m + 1 /\ IsPrefix(p, q)
    BY <1>1, <2>1, FirstNames
  <2>3. p \in Paths /\ fs[p] # Absent
    <3>1. CASE k = 1
      <4>1. Len(p) = Len(q)
        BY <1>1, <2>2, <3>1
      <4>2. p = q
        BY <1>1, <2>2, <4>1, BelowIsLonger
      <4> QED BY <4>2
    <3>2. CASE k # 1
      <4>1. k - 1 \in Nat /\ k - 1 \in 1 .. Len(q) - 1 /\ ~(k <= k - 1)
        BY <1>1, <3>2
      <4>2. k - 1 \notin off
        BY <1>2, <4>1
      <4>3. Len(q) - (k - 1) = m + 1
        BY <1>1
      <4>4. IsDir(p)
        BY <4>1, <4>2, <4>3, Zenon
      <4> QED BY <4>4, Zenon DEF IsDir
    <3> QED BY <3>1, <3>2
  <2> HIDE DEF p
  <2>4. Len(p) > 1
    BY <2>1, <2>2
  <2>5. Parent(p) \in Paths /\ IsDir(Parent(p))
    <3>1. Parent(p) \in Paths
      BY <2>3, <2>4, WalkAssumption
    <3>2. fs[Parent(p)] # Absent /\ fs[Parent(p)].kind = "dir"
      BY <2>3, <2>4, Zenon DEF FileSystem, IsTree
    <3> QED BY <3>1, <3>2, Zenon DEF IsDir
  <2>6. Parent(p) = SubSeq(q, 1, m)
    <3> DEFINE r == Parent(p)
               t == SubSeq(q, 1, m)
    <3>1. p # << >>
      BY <2>3, PathsAreDirs, Zenon
    <3>2. r \in Seq(Word) /\ Len(r) = Len(p) - 1 /\ IsPrefix(r, p)
      BY <2>2, <3>1, ParentIsPrefix
    <3>3. t \in Seq(Word) /\ Len(t) = m /\ IsPrefix(t, q)
      BY <1>1, <2>1, FirstNames
    <3> HIDE DEF r, t
    <3>4. IsPrefix(r, q)
      BY <1>1, <2>2, <3>2, PrefixOfPrefix, Zenon
    <3>5. Len(r) = Len(t)
      BY <2>1, <2>2, <3>2, <3>3
    <3>6. r = t
      BY <1>1, <3>2, <3>3, <3>4, <3>5, OnePrefixPerLength, Zenon
    <3> QED BY <3>6 DEF r, t
  <2> QED BY <2>1, <2>5, <2>6, Zenon
<1>3. off = {}
  <2>1. off \subseteq Nat
    OBVIOUS
  <2> HIDE DEF off
  <2> QED BY <1>2, <2>1, Smallest, Zenon
<1>4. Len(q) - n \in Nat /\ Len(q) - n \in 1 .. Len(q) - 1 /\ Len(q) - (Len(q) - n) = n
  BY <1>1
<1>5. Len(q) - n \notin off
  BY <1>3, Zenon
<1> QED BY <1>4, <1>5, Zenon

(* What is below a directory is below one of its names, and there is nothing
   below what is no directory. *)
LEMMA NameOnTheWay ==
  ASSUME FileSystem, NEW dir \in Dirs, NEW p \in Paths, fs[p] # Absent, Below(dir, p)
  PROVE  IsDir(dir) /\ \E q \in Names(dir) : IsPrefix(q, p)
<1> DEFINE n == Len(dir)
<1>1. /\ p \in Seq(Word) /\ p # << >> /\ dir \in Seq(Word) /\ dir # << >>
      /\ n \in Nat /\ Len(p) \in Nat
  BY PathsAreDirs
<1>2. IsPrefix(dir, p) /\ dir # p
  BY DEF Below
<1>3. n < Len(p) /\ n >= 1
  <2>1. n < Len(p)
    BY <1>1, <1>2, BelowIsLonger
  <2>2. n # 0
    BY <1>1, EmptySeq
  <2> QED BY <1>1, <2>1, <2>2
<1>4. IsDir(dir)
  <2>1. dir = SubSeq(p, 1, n)
    BY <1>1, <1>2, PrefixIsFirst
  <2>2. n \in 1 .. Len(p) - 1
    BY <1>1, <1>3
  <2> HIDE DEF n
  <2>3. IsDir(SubSeq(p, 1, n))
    BY <2>2, DirsAbove
  <2> QED BY <2>1, <2>3, Zenon
<1> DEFINE q == SubSeq(p, 1, n + 1)
<1>5. q \in Seq(Word) /\ Len(q) = n + 1 /\ IsPrefix(q, p)
  <2>1. n + 1 \in 0 .. Len(p)
    BY <1>1, <1>3
  <2> HIDE DEF n
  <2> QED BY <1>1, <2>1, FirstNames
<1>6. q \in Paths /\ fs[q] # Absent
  <2>1. CASE n + 1 = Len(p)
    <3>1. Len(q) = Len(p)
      BY <1>5, <2>1
    <3> HIDE DEF q
    <3>2. q = p
      BY <1>1, <1>5, <3>1, BelowIsLonger
    <3> QED BY <3>2
  <2>2. CASE n + 1 # Len(p)
    <3>1. n + 1 \in 1 .. Len(p) - 1
      BY <1>1, <1>3, <2>2
    <3> HIDE DEF n
    <3>2. IsDir(q)
      BY <3>1, DirsAbove
    <3> QED BY <3>2, Zenon DEF IsDir
  <2> QED BY <2>1, <2>2
<1> HIDE DEF q
<1>7. Len(q) > 1
  BY <1>1, <1>3, <1>5
<1>8. Parent(q) = dir
  <2> DEFINE r == Parent(q)
  <2>1. q # << >>
    BY <1>6, PathsAreDirs, Zenon
  <2>2. r \in Seq(Word) /\ Len(r) = Len(q) - 1 /\ IsPrefix(r, q)
    BY <1>5, <2>1, ParentIsPrefix
  <2> HIDE DEF r
  <2>3. IsPrefix(r, p)
    BY <1>1, <1>5, <2>2, PrefixOfPrefix, Zenon
  <2>4. Len(r) = Len(dir)
    BY <1>1, <1>5, <2>2
  <2>5. r = dir
    BY <1>1, <1>2, <2>2, <2>3, <2>4, OnePrefixPerLength, Zenon
  <2> QED BY <2>5 DEF r
<1>9. q \in Names(dir)
  BY <1>6, <1>7, <1>8, Zenon DEF Names, Children
<1> QED BY <1>4, <1>5, <1>9, Zenon

-----------------------------------------------------------------------------
(* Where a walk is.  A call of walk_recursive() is for a directory as deep as
   the call, below those of the calls it was made from, which have been opened;
   no name on the way is other than UTF-8. *)

Started ==
  {Head(jobs).roots[i] : i \in 1 .. Len(Head(jobs).roots) - Len(roots)}

Clean(p) == \A n \in 2 .. Len(p) : SubSeq(p, 1, n) \notin NotUtf8

OnTheWay(s, i) ==
  /\ Len(s[i].dir) = i /\ s[i].dir[1] \in Started /\ Clean(s[i].dir)
  /\ \A j \in 1 .. i : IsPrefix(s[j].dir, s[i].dir)
  /\ i < Len(s) => s[i].opened
  /\ s[i].opened => i <= Head(jobs).depth + 1
  /\ \A q \in s[i].rest : Len(q) = i + 1 /\ Parent(q) = s[i].dir

Shape(s) == \A i \in DOMAIN s : OnTheWay(s, i)

LEMMA CleanPrefix ==
  ASSUME NEW p \in Seq(Word), NEW q \in Seq(Word), Clean(p), IsPrefix(q, p), Len(q) >= 2
  PROVE  q \notin NotUtf8
<1>1. Len(q) \in 2 .. Len(p)
  <2>1. Len(q) <= Len(p) /\ Len(q) \in Nat /\ Len(p) \in Nat
    BY BelowIsLonger
  <2> QED BY <2>1
<1>2. q = SubSeq(p, 1, Len(q))
  BY PrefixIsFirst
<1> QED BY <1>1, <1>2, Zenon DEF Clean

LEMMA CleanChild ==
  ASSUME NEW p \in Seq(Word), p # << >>, Clean(Parent(p)), p \notin NotUtf8
  PROVE  Clean(p)
<1> SUFFICES ASSUME NEW n \in 2 .. Len(p) PROVE SubSeq(p, 1, n) \notin NotUtf8
  BY Zenon DEF Clean
<1> DEFINE d == Parent(p)
           q == SubSeq(p, 1, n)
<1>1. Len(p) \in Nat /\ n \in 0 .. Len(p) /\ n >= 2
  OBVIOUS
<1>2. d \in Seq(Word) /\ Len(d) = Len(p) - 1 /\ Clean(d)
  BY ParentIsPrefix
<1>3. q \in Seq(Word) /\ Len(q) = n /\ IsPrefix(q, p)
  BY <1>1, FirstNames
<1>4. CASE q = p
  BY <1>4
<1>5. CASE q # p
  <2>1. IsPrefix(q, d)
    BY <1>3, <1>5, PrefixOfParent
  <2> HIDE DEF q, d
  <2>2. Len(q) >= 2
    BY <1>1, <1>3
  <2>3. q \notin NotUtf8
    BY <1>2, <1>3, <2>1, <2>2, CleanPrefix
  <2> QED BY <2>3 DEF q
<1> QED BY <1>4, <1>5

LEMMA FrameParts ==
  ASSUME NEW frame \in Frames
  PROVE  /\ frame.dir \in Dirs /\ frame.rest \subseteq Paths /\ frame.opened \in BOOLEAN
         /\ frame.dir \in Seq(Word) /\ frame.dir # << >>
<1>1. frame.dir \in Dirs /\ frame.rest \subseteq Paths /\ frame.opened \in BOOLEAN
  BY DEF Frames
<1> QED BY <1>1, PathsAreDirs, Zenon

LEMMA TopOrBelow ==
  ASSUME NEW n \in Nat
  PROVE  /\ \A i \in 1 .. n : i = n \/ (i \in 1 .. n - 1 /\ i < n)
         /\ \A i \in 1 .. n : \A j \in 1 .. i : j \in 1 .. n
         /\ \A i \in 1 .. n + 1 : i = n + 1 \/ i \in 1 .. n
OBVIOUS

LEMMA NextBelow ==
  ASSUME NEW n \in Nat, NEW i \in 1 .. n - 1
  PROVE  /\ i \in 1 .. n /\ i < n /\ i + 1 \in 1 .. n
         /\ i + 1 \in 1 .. n - 1 \/ i + 1 = n
OBVIOUS

(* A call returns. *)
LEMMA ShapeAfterReturn ==
  ASSUME NEW s \in Seq(Frames), s # << >>, Shape(s)
  PROVE  Shape(Front(s))
<1> DEFINE t == Front(s)
<1>1. /\ t \in Seq(Frames) /\ Len(t) = Len(s) - 1 /\ \A i \in 1 .. Len(s) - 1 : t[i] = s[i]
      /\ Len(s) \in Nat /\ DOMAIN s = 1 .. Len(s)
  BY FrontIsSeq
<1> HIDE DEF t
<1>2. DOMAIN t = 1 .. Len(s) - 1
  BY <1>1
<1>3. ASSUME NEW i \in DOMAIN t PROVE OnTheWay(t, i)
  <2>1. i \in DOMAIN s /\ i < Len(s) /\ t[i] = s[i]
    BY <1>1, <1>2
  <2>2. \A j \in 1 .. i : t[j] = s[j]
    BY <1>1, <1>2
  <2>3. OnTheWay(s, i)
    BY <2>1, Zenon DEF Shape
  <2> QED BY <2>1, <2>2, <2>3, Zenon DEF OnTheWay
<1> QED BY <1>3, Zenon DEF Shape, t

(* The top frame is opened, or has one name less. *)
TopBecomes(s, t) ==
  /\ t \in Seq(Frames) /\ Len(t) = Len(s) /\ DOMAIN t = 1 .. Len(s)
  /\ \A i \in 1 .. Len(s) - 1 : t[i] = s[i]
  /\ t[Len(s)].dir = s[Len(s)].dir

LEMMA ShapeOfTop ==
  ASSUME NEW s \in Seq(Frames), s # << >>, Shape(s), NEW t, TopBecomes(s, t),
         t[Len(s)].opened => Len(s) <= Head(jobs).depth + 1,
         \A q \in t[Len(s)].rest : Len(q) = Len(s) + 1 /\ Parent(q) = s[Len(s)].dir
  PROVE  Shape(t)
<1> DEFINE n == Len(s)
<1>1. n \in Nat /\ n # 0 /\ DOMAIN s = 1 .. n /\ Len(t) = n
  BY EmptySeq DEF TopBecomes
<1>2. \A j \in 1 .. n : t[j].dir = s[j].dir
  <2>1. \A j \in 1 .. n : j \in 1 .. n - 1 \/ j = n
    BY <1>1, TopOrBelow, Zenon
  <2> QED BY <2>1, Zenon DEF TopBecomes
<1> HIDE DEF n
<1>3. ASSUME NEW i \in 1 .. n PROVE OnTheWay(t, i)
  <2>1. OnTheWay(s, i)
    BY <1>1, Zenon DEF Shape
  <2>2. \A j \in 1 .. i : j \in 1 .. n
    BY <1>1, TopOrBelow, Zenon
  <2>3. /\ Len(t[i].dir) = i /\ t[i].dir[1] \in Started /\ Clean(t[i].dir)
        /\ \A j \in 1 .. i : IsPrefix(t[j].dir, t[i].dir)
    BY <1>2, <2>1, <2>2, Zenon DEF OnTheWay
  <2>4. CASE i = n
    <3>1. ~(i < Len(t))
      BY <1>1, <2>4
    <3>2. /\ t[i].opened => i <= Head(jobs).depth + 1
          /\ \A q \in t[i].rest : Len(q) = i + 1 /\ Parent(q) = t[i].dir
      BY <1>2, <2>4, Zenon DEF n
    <3> QED BY <2>3, <3>1, <3>2, Zenon DEF OnTheWay
  <2>5. CASE i # n
    <3>1. i \in 1 .. n - 1 /\ i < Len(s)
      BY <1>1, <2>5, TopOrBelow, Zenon DEF n
    <3>2. t[i] = s[i]
      BY <3>1, Zenon DEF TopBecomes, n
    <3> QED BY <2>1, <2>3, <3>1, <3>2, Zenon DEF OnTheWay
  <2> QED BY <2>4, <2>5
<1>4. DOMAIN t = 1 .. n
  BY Zenon DEF TopBecomes, n
<1> QED BY <1>3, <1>4, Zenon DEF Shape

(* A directory is entered. *)
LEMMA ShapeOfCall ==
  ASSUME NEW s \in Seq(Frames), s # << >>, Shape(s), s[Len(s)].opened,
         NEW p \in Paths, Len(p) = Len(s) + 1, Parent(p) = s[Len(s)].dir, p \notin NotUtf8
  PROVE  Shape(Append(s, Frame(p)))
<1> DEFINE n == Len(s)
           t == Append(s, Frame(p))
<1>1. n \in Nat /\ n # 0 /\ DOMAIN s = 1 .. n /\ n \in 1 .. n
  BY EmptySeq
<1>2. /\ Len(t) = n + 1 /\ DOMAIN t = 1 .. n + 1 /\ t[n + 1] = Frame(p)
      /\ \A i \in 1 .. n : t[i] = s[i]
  OBVIOUS
<1>3. Frame(p).dir = p /\ Frame(p).opened = FALSE /\ Frame(p).rest = {}
  BY DEF Frame
<1> HIDE DEF t
<1>4. ASSUME NEW i \in 1 .. n PROVE OnTheWay(t, i)
  <2>1. OnTheWay(s, i)
    BY <1>1, Zenon DEF Shape
  <2>2. \A j \in 1 .. i : t[j] = s[j]
    BY <1>1, <1>2
  <2>3. t[i] = s[i]
    BY <1>2
  <2>4. s[i].opened
    <3>1. CASE i = n
      BY <3>1
    <3>2. CASE i # n
      <4>1. i < Len(s)
        BY <1>1, <3>2, TopOrBelow, Zenon
      <4> QED BY <2>1, <4>1, Zenon DEF OnTheWay
    <3> QED BY <3>1, <3>2
  <2> QED BY <2>1, <2>2, <2>3, <2>4, Zenon DEF OnTheWay
<1>5. OnTheWay(t, n + 1)
  <2>1. p \in Seq(Word) /\ p # << >>
    BY PathsAreDirs, Zenon
  <2>2. OnTheWay(s, n)
    BY <1>1, Zenon DEF Shape
  <2>3. s[n] \in Frames
    BY <1>1
  <2>4. s[n].dir \in Seq(Word) /\ s[n].dir # << >>
    BY <2>3, FrameParts, Zenon
  <2>5. IsPrefix(s[n].dir, p)
    BY <2>1, ParentIsPrefix
  <2>6. p[1] \in Started
    <3>1. s[n].dir[1] = p[1]
      BY <2>1, <2>4, <2>5, SameFirst
    <3> QED BY <2>2, <3>1, Zenon DEF OnTheWay
  <2>7. Clean(p)
    <3>1. Clean(Parent(p))
      BY <2>2, Zenon DEF OnTheWay, n
    <3> QED BY <2>1, <3>1, CleanChild
  <2>8. ASSUME NEW j \in 1 .. n + 1 PROVE IsPrefix(t[j].dir, p)
    <3>1. CASE j = n + 1
      BY <1>2, <1>3, <2>1, <3>1, PrefixItself, Zenon
    <3>2. CASE j # n + 1
      <4>1. j \in 1 .. n
        BY <1>1, <3>2
      <4>2. IsPrefix(s[j].dir, s[n].dir)
        BY <2>2, <4>1, Zenon DEF OnTheWay
      <4>3. s[j] \in Frames
        BY <1>1, <4>1
      <4>4. s[j].dir \in Seq(Word)
        BY <4>3, FrameParts, Zenon
      <4>5. IsPrefix(s[j].dir, p)
        BY <2>1, <2>4, <2>5, <4>2, <4>4, PrefixOfPrefix, Zenon
      <4> QED BY <1>2, <4>1, <4>5, Zenon
    <3> QED BY <3>1, <3>2
  <2>9. /\ t[n + 1].dir = p /\ ~t[n + 1].opened /\ t[n + 1].rest = {} /\ ~(n + 1 < Len(t))
    BY <1>1, <1>2, <1>3
  <2>10. Len(p) = n + 1
    OBVIOUS
  <2> HIDE DEF n
  <2> QED BY <2>6, <2>7, <2>8, <2>9, <2>10, Zenon DEF OnTheWay
<1>6. \A i \in 1 .. n + 1 : i \in 1 .. n \/ i = n + 1
  BY <1>1
<1>7. Shape(t)
  BY <1>2, <1>4, <1>5, <1>6, Zenon DEF Shape
<1> QED BY <1>7 DEF t

-----------------------------------------------------------------------------
(* What a walk has listed and what it has still to list.  Nothing that is
   still ahead has been listed, and in a tree that stands still whatever can be
   reached is listed or ahead. *)

Listed(w) == {w[k].path : k \in DOMAIN w}

Right(L) == \A p \in L : p \in Reachable /\ p[1] \in Started

InOrder(w) == \A i, j \in DOMAIN w : i < j => ~IsPrefix(w[j].path, w[i].path)

Ahead(s, i, L) ==
  /\ i < Len(s) => s[i + 1].dir \notin s[i].rest
  /\ \A q \in s[i].rest : fs[q] # Absent /\ \A p \in L : ~IsPrefix(q, p)
  /\ ~s[i].opened => \A p \in L : ~Below(s[i].dir, p)

AheadOf(s, L) == \A i \in DOMAIN s : Ahead(s, i, L)

Awaits(frame, p) ==
  \/ frame.opened /\ \E q \in frame.rest : IsPrefix(q, p)
  \/ ~frame.opened /\ Below(frame.dir, p)

Covered(s, L) ==
  \A p \in Reachable : p[1] \in Started =>
    p \in L \/ \E i \in DOMAIN s : Awaits(s[i], p)

Listing ==
  jobs # << >> /\ calm =>
    /\ Right(Listed(walked)) /\ InOrder(walked)
    /\ AheadOf(stack, Listed(walked))
    /\ Len(Found) < MaxEntries => Covered(stack, Listed(walked))

InShape == jobs # << >> => Shape(stack)

JInv == IInv /\ InShape /\ Listing

LEMMA ReachableMeans ==
  ASSUME NEW p
  PROVE  p \in Reachable <=>
           /\ p \in Paths /\ fs[p] # Absent /\ Clean(p)
           /\ \E i \in DOMAIN Head(jobs).roots : p[1] = Head(jobs).roots[i]
           /\ Len(p) \in 2 .. Head(jobs).depth + 2
BY Zenon DEF Reachable, Clean

LEMMA AheadAfterReturn ==
  ASSUME NEW s \in Seq(Frames), s # << >>, NEW L, AheadOf(s, L)
  PROVE  AheadOf(Front(s), L)
<1> DEFINE t == Front(s)
<1>1. /\ t \in Seq(Frames) /\ Len(t) = Len(s) - 1 /\ \A i \in 1 .. Len(s) - 1 : t[i] = s[i]
      /\ Len(s) \in Nat /\ DOMAIN s = 1 .. Len(s)
  BY FrontIsSeq
<1> HIDE DEF t
<1>2. DOMAIN t = 1 .. Len(s) - 1
  BY <1>1
<1>3. ASSUME NEW i \in DOMAIN t PROVE Ahead(t, i, L)
  <2>1. i \in DOMAIN s /\ t[i] = s[i]
    BY <1>1, <1>2
  <2>2. i < Len(t) => i < Len(s) /\ t[i + 1] = s[i + 1]
    BY <1>1, <1>2
  <2>3. Ahead(s, i, L)
    BY <2>1, Zenon DEF AheadOf
  <2> QED BY <2>1, <2>2, <2>3, Zenon DEF Ahead
<1> QED BY <1>3, Zenon DEF AheadOf, t

LEMMA CoveredAfterReturn ==
  ASSUME NEW s \in Seq(Frames), s # << >>, NEW L, Covered(s, L),
         \A p \in Reachable : ~Awaits(s[Len(s)], p)
  PROVE  Covered(Front(s), L)
<1> DEFINE t == Front(s)
           n == Len(s)
<1>1. /\ Len(t) = n - 1 /\ \A i \in 1 .. n - 1 : t[i] = s[i]
      /\ n \in Nat /\ DOMAIN s = 1 .. n /\ t \in Seq(Frames)
  BY FrontIsSeq
<1> HIDE DEF t, n
<1>2. DOMAIN t = 1 .. n - 1
  BY <1>1
<1>3. \A i \in 1 .. n : i = n \/ i \in 1 .. n - 1
  BY <1>1, TopOrBelow, Zenon
<1>4. \A p \in Reachable : \A i \in 1 .. n : Awaits(s[i], p) => \E j \in DOMAIN t : Awaits(t[j], p)
  BY <1>1, <1>2, <1>3, Zenon DEF n
<1> QED BY <1>1, <1>4, Zenon DEF Covered, t

LEMMA AheadOfTop ==
  ASSUME NEW s \in Seq(Frames), s # << >>, NEW L, AheadOf(s, L), NEW t, TopBecomes(s, t),
         \A q \in t[Len(s)].rest : fs[q] # Absent /\ \A p \in L : ~IsPrefix(q, p),
         t[Len(s)].opened
  PROVE  AheadOf(t, L)
<1> DEFINE n == Len(s)
<1>1. n \in Nat /\ n # 0 /\ DOMAIN s = 1 .. n /\ Len(t) = n /\ DOMAIN t = 1 .. n
  BY EmptySeq DEF TopBecomes
<1>2. Ahead(t, n, L)
  <2>1. ~(n < Len(t))
    BY <1>1
  <2> QED BY <2>1, Zenon DEF Ahead
<1>3. ASSUME NEW i \in 1 .. n - 1 PROVE Ahead(t, i, L)
  <2>1. i \in DOMAIN s /\ i < Len(s) /\ (i + 1 \in 1 .. n - 1 \/ i + 1 = n)
    <3> HIDE DEF n
    <3>1. i \in 1 .. n /\ i < n /\ (i + 1 \in 1 .. n - 1 \/ i + 1 = n)
      BY <1>1, NextBelow, Zenon
    <3> QED BY <1>1, <3>1, Zenon DEF n
  <2>2. Ahead(s, i, L)
    BY <2>1, Zenon DEF AheadOf
  <2>3. t[i] = s[i] /\ t[i + 1].dir = s[i + 1].dir
    BY <2>1, Zenon DEF TopBecomes
  <2> QED BY <2>1, <2>2, <2>3, Zenon DEF Ahead
<1> QED BY <1>1, <1>2, <1>3, TopOrBelow, Zenon DEF AheadOf

LEMMA CoveredTop ==
  ASSUME NEW s \in Seq(Frames), s # << >>, NEW L, Covered(s, L), NEW t, TopBecomes(s, t),
         \A p \in Reachable : Awaits(s[Len(s)], p) => Awaits(t[Len(s)], p)
  PROVE  Covered(t, L)
<1> DEFINE n == Len(s)
<1>1. n \in Nat /\ n # 0 /\ DOMAIN s = 1 .. n /\ Len(t) = n /\ DOMAIN t = 1 .. n
  BY EmptySeq DEF TopBecomes
<1>2. \A i \in 1 .. n : i = n \/ i \in 1 .. n - 1
  BY <1>1, TopOrBelow, Zenon
<1>3. \A i \in 1 .. n - 1 : t[i] = s[i]
  BY Zenon DEF TopBecomes
<1>4. \A p \in Reachable : \A i \in 1 .. n : Awaits(s[i], p) => Awaits(t[i], p)
  BY <1>2, <1>3, Zenon
<1> QED BY <1>1, <1>4, Zenon DEF Covered

(* An entry is listed: it is below none of the names still ahead. *)
LEMMA AheadOfEntry ==
  ASSUME NEW s \in Seq(Frames), s # << >>, Shape(s), NEW L, AheadOf(s, L), s[Len(s)].opened,
         NEW p \in Paths, Parent(p) = s[Len(s)].dir, Len(p) = Len(s) + 1,
         p \notin s[Len(s)].rest
  PROVE  AheadOf(s, L \cup {p})
<1> DEFINE n == Len(s)
<1>1. n \in Nat /\ n # 0 /\ DOMAIN s = 1 .. n /\ n \in 1 .. n
  BY EmptySeq
<1>2. p \in Seq(Word) /\ p # << >>
  BY PathsAreDirs, Zenon
<1>3. s[n].dir \in Seq(Word) /\ IsPrefix(s[n].dir, p) /\ OnTheWay(s, n)
  <2>1. s[n] \in Frames
    BY <1>1
  <2>2. s[n].dir \in Seq(Word)
    BY <2>1, FrameParts, Zenon
  <2>3. IsPrefix(s[n].dir, p)
    BY <1>2, ParentIsPrefix
  <2>4. OnTheWay(s, n)
    BY <1>1, Zenon DEF Shape
  <2> QED BY <2>2, <2>3, <2>4
<1>4. ASSUME NEW i \in 1 .. n PROVE Ahead(s, i, L \cup {p})
  <2>1. Ahead(s, i, L) /\ OnTheWay(s, i)
    BY <1>1, Zenon DEF AheadOf, Shape
  <2>2. s[i].opened
    <3>1. CASE i = n
      BY <3>1
    <3>2. CASE i # n
      <4>1. i < Len(s)
        BY <1>1, <3>2, TopOrBelow, Zenon
      <4> QED BY <2>1, <4>1, Zenon DEF OnTheWay
    <3> QED BY <3>1, <3>2
  <2>3. ASSUME NEW q \in s[i].rest, IsPrefix(q, p) PROVE FALSE
    <3>1. Len(q) = i + 1
      BY <2>1, Zenon DEF OnTheWay
    <3>2. q \in Seq(Word)
      <4>1. s[i] \in Frames
        BY <1>1
      <4>2. q \in Paths
        BY <4>1, FrameParts, Zenon
      <4> QED BY <4>2, PathsAreDirs, Zenon
    <3>3. CASE i = n
      <4>1. Len(q) = Len(p)
        BY <3>1, <3>3
      <4>2. q = p
        BY <1>2, <2>3, <3>2, <4>1, BelowIsLonger, Zenon
      <4> QED BY <3>3, <4>2, Zenon
    <3>4. CASE i # n
      <4>1. i < Len(s) /\ i + 1 \in 1 .. n
        <5> HIDE DEF n
        <5>1. i \in 1 .. n - 1 /\ i < n
          BY <1>1, <3>4, TopOrBelow, Zenon
        <5>2. i + 1 \in 1 .. n
          BY <1>1, <5>1, NextBelow, Zenon
        <5> QED BY <5>1, <5>2, Zenon DEF n
      <4> DEFINE d == s[i + 1].dir
      <4>2. d \in Seq(Word) /\ Len(d) = i + 1 /\ IsPrefix(d, s[n].dir)
        <5>1. s[i + 1] \in Frames
          BY <1>1, <4>1
        <5>2. d \in Seq(Word)
          BY <5>1, FrameParts, Zenon
        <5>3. OnTheWay(s, i + 1)
          BY <1>1, <4>1, Zenon DEF Shape
        <5>4. IsPrefix(d, s[n].dir)
          BY <1>3, <4>1, Zenon DEF OnTheWay
        <5> QED BY <5>2, <5>3, <5>4, Zenon DEF OnTheWay
      <4>3. d \notin s[i].rest
        BY <2>1, <4>1, Zenon DEF Ahead
      <4> HIDE DEF d
      <4>4. IsPrefix(d, p)
        BY <1>2, <1>3, <4>2, PrefixOfPrefix, Zenon
      <4>5. Len(q) = Len(d)
        BY <3>1, <4>2, Zenon
      <4>6. q = d
        BY <1>2, <2>3, <3>2, <4>2, <4>4, <4>5, OnePrefixPerLength, Zenon
      <4> QED BY <4>3, <4>6, Zenon
    <3> QED BY <3>3, <3>4
  <2> QED BY <2>1, <2>2, <2>3, Zenon DEF Ahead
<1> QED BY <1>1, <1>4, Zenon DEF AheadOf

LEMMA AheadOfCall ==
  ASSUME NEW s \in Seq(Frames), s # << >>, NEW L, AheadOf(s, L), NEW p \in Paths,
         p \notin s[Len(s)].rest, \A w \in L : ~Below(p, w)
  PROVE  AheadOf(Append(s, Frame(p)), L)
<1> DEFINE n == Len(s)
           t == Append(s, Frame(p))
<1>1. n \in Nat /\ n # 0 /\ DOMAIN s = 1 .. n
  BY EmptySeq
<1>2. /\ Len(t) = n + 1 /\ DOMAIN t = 1 .. n + 1 /\ t[n + 1] = Frame(p)
      /\ \A i \in 1 .. n : t[i] = s[i]
  OBVIOUS
<1>3. Frame(p).dir = p /\ Frame(p).rest = {}
  BY DEF Frame
<1> HIDE DEF t
<1>4. Ahead(t, n + 1, L)
  <2>1. ~(n + 1 < Len(t))
    BY <1>1, <1>2
  <2>2. t[n + 1].dir = p /\ t[n + 1].rest = {}
    BY <1>2, <1>3
  <2> HIDE DEF n
  <2> QED BY <2>1, <2>2, Zenon DEF Ahead
<1>5. ASSUME NEW i \in 1 .. n PROVE Ahead(t, i, L)
  <2>1. Ahead(s, i, L) /\ t[i] = s[i]
    BY <1>1, <1>2, Zenon DEF AheadOf
  <2>2. t[i + 1].dir \notin t[i].rest
    <3>1. CASE i = n
      BY <1>2, <1>3, <2>1, <3>1, Zenon
    <3>2. CASE i # n
      <4> HIDE DEF n
      <4>1. i < n /\ i + 1 \in 1 .. n
        <5>1. i \in 1 .. n - 1 /\ i < n
          BY <1>1, <3>2, TopOrBelow, Zenon
        <5> QED BY <1>1, <5>1, NextBelow, Zenon
      <4>2. t[i + 1] = s[i + 1] /\ i < Len(s)
        BY <1>2, <4>1, Zenon DEF n
      <4> QED BY <2>1, <4>2, Zenon DEF Ahead
    <3> QED BY <3>1, <3>2
  <2> QED BY <2>1, <2>2, Zenon DEF Ahead
<1>6. AheadOf(t, L)
  <2> HIDE DEF n
  <2> QED BY <1>1, <1>2, <1>4, <1>5, TopOrBelow, Zenon DEF AheadOf
<1> QED BY <1>6 DEF t

-----------------------------------------------------------------------------
(* One step on. *)

LEMMA StaysInShape ==
  ASSUME jobs' = jobs, roots' = roots, jobs # << >> => Shape(stack')
  PROVE  InShape'
<1>1. Started' = Started
  BY DEF Started
<1> QED BY <1>1, Zenon DEF InShape, Shape, OnTheWay, Clean

LEMMA StaysListed ==
  ASSUME fs' = fs, jobs' = jobs, roots' = roots,
         jobs # << >> /\ calm' =>
           /\ Right(Listed(walked')) /\ InOrder(walked')
           /\ AheadOf(stack', Listed(walked'))
           /\ Len(Found') < MaxEntries => Covered(stack', Listed(walked'))
  PROVE  Listing'
<1>1. Started' = Started
  BY DEF Started
<1>2. Reachable' = Reachable
  BY DEF Reachable
<1>3. ASSUME jobs' # << >>, calm'
      PROVE  /\ Right(Listed(walked))' /\ InOrder(walked)'
             /\ AheadOf(stack, Listed(walked))'
             /\ Len(Found') < MaxEntries => Covered(stack, Listed(walked))'
  <2>1. Right(Listed(walked))'
    BY <1>1, <1>2, <1>3, Zenon DEF Right, Listed
  <2>2. InOrder(walked)'
    BY <1>3, Zenon DEF InOrder
  <2>3. AheadOf(stack, Listed(walked))'
    BY <1>3, Zenon DEF AheadOf, Ahead, Listed, Below
  <2>4. Len(Found') < MaxEntries => Covered(stack, Listed(walked))'
    BY <1>1, <1>2, <1>3, Zenon DEF Covered, Awaits, Listed, Below
  <2> QED BY <2>1, <2>2, <2>3, <2>4
<1> QED BY <1>3, Zenon DEF Listing

(* The call that is running. *)
LEMMA Running ==
  ASSUME JInv, stack # << >>
  PROVE  /\ stack \in Seq(Frames) /\ jobs # << >> /\ walking /\ Shape(stack)
         /\ OnTheWay(stack, Len(stack)) /\ Top = stack[Len(stack)] /\ Top \in Frames
         /\ Len(stack) \in Nat \ {0} /\ Len(Top.dir) = Len(stack)
         /\ FileSystem /\ Head(jobs).depth \in Nat /\ Head(jobs).depth > 0
<1>1. Calls /\ FileSystem /\ Queues
  BY Parts DEF JInv
<1>2. stack \in Seq(Frames) /\ jobs # << >> /\ walking
  BY <1>1, Zenon DEF Calls
<1>3. Top \in Frames /\ Len(stack) \in Nat \ {0} /\ Len(stack) \in DOMAIN stack
  BY <1>1, TopTyped
<1>4. Shape(stack)
  BY <1>2, Zenon DEF JInv, InShape
<1>5. OnTheWay(stack, Len(stack)) /\ Len(stack[Len(stack)].dir) = Len(stack)
  BY <1>3, <1>4, Zenon DEF Shape, OnTheWay
<1>6. Top = stack[Len(stack)] /\ Len(Top.dir) = Len(stack)
  BY <1>5, Zenon DEF Top
<1>7. jobs \in Seq(Jobs)
  BY <1>1, Zenon DEF Queues, Queued
<1>8. Head(jobs) \in Jobs
  BY <1>2, <1>7
<1>9. Head(jobs).depth \in Nat /\ Head(jobs).depth > 0
  BY <1>8, JobTyped, Zenon
<1> QED BY <1>1, <1>2, <1>3, <1>4, <1>5, <1>6, <1>9, Zenon

LEMMA FullIsFull ==
  ASSUME IInv, walking, Full(tmp)
  PROVE  ~(Len(Found) < MaxEntries)
<1>1. tmp.entries \in Seq(Entry) /\ result.entries \in Seq(Entry)
  BY Parts, ListsTyped, Zenon
<1>2. Found = result.entries \o tmp.entries
  BY Zenon DEF Found
<1> DEFINE a == result.entries
           b == tmp.entries
<1>3. Len(b) >= MaxEntries
  BY DEF Full
<1> HIDE DEF a, b
<1>4. Len(a \o b) = Len(a) + Len(b) /\ Len(a) \in Nat /\ Len(b) \in Nat
  BY <1>1 DEF a, b
<1>5. ~(Len(a \o b) < MaxEntries)
  BY <1>3, <1>4, WalkAssumption
<1> QED BY <1>2, <1>5, Zenon DEF a, b

(* A call that returns leaves nothing behind that the list has room for. *)
LEMMA ReturnLists ==
  ASSUME JInv, stack # << >>, stack' = Front(stack),
         fs' = fs, jobs' = jobs, roots' = roots, walked' = walked, Found' = Found,
         calm' => calm,
         calm' /\ Len(Found) < MaxEntries => \A p \in Reachable : ~Awaits(Top, p)
  PROVE  InShape' /\ Listing'
<1>1. stack \in Seq(Frames) /\ jobs # << >> /\ Shape(stack) /\ Top = stack[Len(stack)]
  BY Running
<1>2. Shape(stack')
  BY <1>1, ShapeAfterReturn, Zenon
<1>3. ASSUME calm'
      PROVE  /\ Right(Listed(walked)) /\ InOrder(walked)
             /\ AheadOf(stack', Listed(walked))
             /\ Len(Found) < MaxEntries => Covered(stack', Listed(walked))
  <2>1. /\ Right(Listed(walked)) /\ InOrder(walked)
        /\ AheadOf(stack, Listed(walked))
        /\ Len(Found) < MaxEntries => Covered(stack, Listed(walked))
    BY <1>1, <1>3, Zenon DEF JInv, Listing
  <2>2. AheadOf(stack', Listed(walked))
    BY <1>1, <2>1, AheadAfterReturn, Zenon
  <2>3. Len(Found) < MaxEntries => Covered(stack', Listed(walked))
    BY <1>1, <1>3, <2>1, CoveredAfterReturn, Zenon
  <2> QED BY <2>1, <2>2, <2>3
<1> QED BY <1>2, <1>3, StaysInShape, StaysListed, Zenon

LEMMA SameFound ==
  ASSUME UNCHANGED <<walking, tmp, result>>
  PROVE  Found' = Found
BY DEF Found

LEMMA DeepIsLong ==
  ASSUME NEW d \in Nat, NEW n \in Nat, n - 1 > d, NEW k \in Nat, k > n
  PROVE  k \notin 2 .. d + 2
OBVIOUS

LEMMA PassOverLists ==
  ASSUME JInv, PassOver
  PROVE  InShape' /\ Listing'
<1>1. /\ stack # << >> /\ ~Top.opened /\ (TooDeep \/ Full(tmp)) /\ stack' = Front(stack)
      /\ fs' = fs /\ jobs' = jobs /\ roots' = roots /\ walked' = walked /\ calm' = calm
      /\ UNCHANGED <<walking, tmp, result>>
  BY DEF PassOver, call
<1>2. Found' = Found
  BY <1>1, SameFound
<1>3. ASSUME Len(Found) < MaxEntries, NEW p \in Reachable, Awaits(Top, p)
      PROVE  FALSE
  <2>1. /\ walking /\ Top \in Frames /\ Len(stack) \in Nat /\ Len(Top.dir) = Len(stack)
        /\ Head(jobs).depth \in Nat
    BY <1>1, Running
  <2>2. TooDeep
    <3>1. IInv
      BY Zenon DEF JInv
    <3> QED BY <1>1, <1>3, <2>1, <3>1, FullIsFull, Zenon
  <2>3. Len(stack) - 1 > Head(jobs).depth
    BY <2>2, Zenon DEF TooDeep, Depth
  <2>4. p \in Paths /\ Len(p) \in 2 .. Head(jobs).depth + 2
    BY ReachableMeans, Zenon
  <2>5. p \in Seq(Word) /\ Top.dir \in Seq(Word)
    BY <2>1, <2>4, FrameParts, PathsAreDirs, Zenon
  <2>6. Below(Top.dir, p)
    BY <1>1, <1>3, Zenon DEF Awaits
  <2>7. Len(p) > Len(stack)
    <3>1. Len(Top.dir) < Len(p)
      BY <2>5, <2>6, BelowIsLonger, Zenon DEF Below
    <3>2. Len(p) \in Nat
      BY <2>5
    <3> QED BY <2>1, <3>1, <3>2
  <2>8. Len(p) \in Nat
    BY <2>5
  <2> QED BY <2>1, <2>3, <2>4, <2>7, <2>8, DeepIsLong, Zenon
<1> QED BY <1>1, <1>2, <1>3, ReturnLists, Zenon

LEMMA ReturnKeepsLists ==
  ASSUME JInv, Return
  PROVE  InShape' /\ Listing'
<1>1. /\ stack # << >> /\ Top.opened /\ (Top.rest = {} \/ Full(tmp)) /\ stack' = Front(stack)
      /\ fs' = fs /\ jobs' = jobs /\ roots' = roots /\ walked' = walked /\ calm' = calm
      /\ UNCHANGED <<walking, tmp, result>>
  BY DEF Return, call
<1>2. Found' = Found
  BY <1>1, SameFound
<1>3. ASSUME Len(Found) < MaxEntries, NEW p \in Reachable, Awaits(Top, p)
      PROVE  FALSE
  <2>1. walking /\ IInv
    BY <1>1, Running DEF JInv
  <2>2. Top.rest = {}
    BY <1>1, <1>3, <2>1, FullIsFull, Zenon
  <2> QED BY <1>1, <1>3, <2>2, Zenon DEF Awaits
<1> QED BY <1>1, <1>2, <1>3, ReturnLists, Zenon

LEMMA DepthReached ==
  ASSUME NEW d \in Nat, d > 0, NEW n \in Nat, ~(d > 0 /\ n - 1 > d)
  PROVE  n <= d + 1
OBVIOUS

(* The names of a directory are as deep as its entries should be. *)
LEMMA ChildrenAreBelow ==
  ASSUME NEW dir \in Dirs, NEW q \in Children(dir)
  PROVE  /\ q \in Paths /\ Parent(q) = dir /\ Len(q) = Len(dir) + 1
         /\ IsPrefix(dir, q)
<1>1. q \in Paths /\ Parent(q) = dir
  BY Zenon DEF Children
<1>2. q \in Seq(Word) /\ q # << >> /\ dir \in Seq(Word)
  BY <1>1, PathsAreDirs, Zenon
<1>3. Len(Parent(q)) = Len(q) - 1 /\ IsPrefix(Parent(q), q)
  BY <1>2, ParentIsPrefix
<1>4. Len(q) \in Nat /\ Len(dir) \in Nat
  BY <1>2
<1>5. Len(q) = Len(dir) + 1
  BY <1>1, <1>3, <1>4
<1> QED BY <1>1, <1>3, <1>5, Zenon

LEMMA NamesAreBelow ==
  ASSUME NEW dir \in Dirs, NEW q \in Names(dir)
  PROVE  /\ q \in Paths /\ fs[q] # Absent /\ Parent(q) = dir /\ Len(q) = Len(dir) + 1
         /\ IsPrefix(dir, q)
BY ChildrenAreBelow, Zenon DEF Names

LEMMA LastReplaced ==
  ASSUME NEW s \in Seq(Frames), s # << >>, NEW frame \in Frames, frame.dir = s[Len(s)].dir
  PROVE  TopBecomes(s, Append(Front(s), frame)) /\ Append(Front(s), frame)[Len(s)] = frame
<1> DEFINE t == Append(Front(s), frame)
           f == Front(s)
<1>1. /\ f \in Seq(Frames) /\ Len(f) = Len(s) - 1 /\ \A i \in 1 .. Len(s) - 1 : f[i] = s[i]
  BY FrontIsSeq
<1>2. Len(s) \in Nat /\ Len(s) # 0
  BY EmptySeq
<1> HIDE DEF f
<1>3. /\ t \in Seq(Frames) /\ Len(t) = Len(s) /\ DOMAIN t = 1 .. Len(s) /\ t[Len(s)] = frame
      /\ \A i \in 1 .. Len(s) - 1 : t[i] = f[i]
  <2>1. Append(f, frame) \in Seq(Frames)
    BY <1>1
  <2>2. /\ Len(Append(f, frame)) = Len(s) /\ DOMAIN Append(f, frame) = 1 .. Len(s)
        /\ Append(f, frame)[Len(s)] = frame
        /\ \A i \in 1 .. Len(s) - 1 : Append(f, frame)[i] = f[i]
    BY <1>1, <1>2
  <2> QED BY <2>1, <2>2 DEF f
<1> HIDE DEF t
<1>4. TopBecomes(s, t)
  BY <1>1, <1>3, Zenon DEF TopBecomes
<1> QED BY <1>3, <1>4 DEF t

LEMMA OpenDirLists ==
  ASSUME JInv, OpenDir
  PROVE  InShape' /\ Listing'
<1> DEFINE open == Opened(Names(Top.dir))
           n == Len(stack)
           L == Listed(walked)
<1>1. /\ stack # << >> /\ ~Top.opened /\ ~TooDeep
      /\ fs' = fs /\ jobs' = jobs /\ roots' = roots /\ walked' = walked
      /\ UNCHANGED <<walking, tmp, result>>
  BY DEF OpenDir, call
<1>2. Found' = Found
  BY <1>1, SameFound
<1>3. /\ stack \in Seq(Frames) /\ jobs # << >> /\ Shape(stack) /\ Top = stack[n] /\ Top \in Frames
      /\ n \in Nat /\ Len(Top.dir) = n /\ FileSystem
      /\ Head(jobs).depth \in Nat /\ Head(jobs).depth > 0
  BY <1>1, Running
<1>4. Top.dir \in Dirs /\ Top.dir \in Seq(Word)
  BY <1>3, FrameParts, Zenon
<1>5. \A p \in Reachable : Below(Top.dir, p) =>
        IsDir(Top.dir) /\ \E q \in Names(Top.dir) : IsPrefix(q, p)
  BY <1>3, <1>4, NameOnTheWay, ReachableMeans, Zenon
<1>17. n <= Head(jobs).depth + 1
  <2>1. ~(Head(jobs).depth > 0 /\ n - 1 > Head(jobs).depth)
    BY <1>1, Zenon DEF TooDeep, Depth
  <2> HIDE DEF n
  <2> QED BY <1>3, <2>1, DepthReached, Zenon
<1>18. ASSUME NEW names, names \subseteq Children(Top.dir),
              stack' = Append(Front(stack), Opened(names))
       PROVE  TopBecomes(stack, stack') /\ stack'[n] = Opened(names) /\ Shape(stack')
  <2>1. /\ Opened(names).dir = Top.dir /\ Opened(names).rest = names
        /\ Opened(names) \in Frames
    BY <1>3, <1>18, OpenedTyped, Zenon
  <2>2. TopBecomes(stack, stack') /\ stack'[n] = Opened(names)
    BY <1>1, <1>3, <1>18, <2>1, LastReplaced, Zenon
  <2>3. \A q \in stack'[n].rest : Len(q) = n + 1 /\ Parent(q) = stack[n].dir
    <3>1. \A q \in names : Len(q) = n + 1 /\ Parent(q) = Top.dir
      BY <1>3, <1>4, <1>18, ChildrenAreBelow, Zenon
    <3> QED BY <1>3, <2>1, <2>2, <3>1, Zenon
  <2>4. Shape(stack')
    BY <1>1, <1>3, <1>17, <2>2, <2>3, ShapeOfTop, Zenon
  <2> QED BY <2>2, <2>4
<1>19. Names(Top.dir) \subseteq Children(Top.dir)
  BY DEF Names
<1>6. CASE stack' = Append(Front(stack), open) /\ UNCHANGED calm
  <2>1. open.dir = Top.dir /\ open.opened = TRUE /\ open.rest = Names(Top.dir) /\ open \in Frames
    BY <1>3, <1>19, OpenedTyped
  <2>2. TopBecomes(stack, stack') /\ stack'[n] = open /\ Shape(stack')
    BY <1>6, <1>18, <1>19
  <2> HIDE DEF open
  <2>4. \A q \in Names(Top.dir) :
          fs[q] # Absent /\ Parent(q) = Top.dir /\ Len(q) = n + 1 /\ IsPrefix(Top.dir, q) /\ q \in Paths
    BY <1>3, <1>4, NamesAreBelow, Zenon
  <2>6. ASSUME calm'
        PROVE  /\ Right(L) /\ InOrder(walked) /\ AheadOf(stack', L)
               /\ Len(Found) < MaxEntries => Covered(stack', L)
    <3>1. calm
      BY <1>6, <2>6
    <3>2. /\ Right(L) /\ InOrder(walked) /\ AheadOf(stack, L)
          /\ Len(Found) < MaxEntries => Covered(stack, L)
      BY <1>3, <3>1, Zenon DEF JInv, Listing
    <3>3. ASSUME NEW q \in Names(Top.dir), NEW p \in L, IsPrefix(q, p)
          PROVE  FALSE
      <4>1. p \in Paths
        BY <3>2, ReachableMeans, Zenon DEF Right
      <4>2. p \in Seq(Word) /\ q \in Seq(Word)
        BY <2>4, <4>1, PathsAreDirs, Zenon
      <4>3. IsPrefix(Top.dir, p)
        BY <1>4, <2>4, <3>3, <4>2, PrefixOfPrefix, Zenon
      <4>4. Top.dir # p
        <5>1. Len(q) <= Len(p) /\ Len(q) = n + 1
          BY <2>4, <3>3, <4>2, BelowIsLonger, Zenon
        <5>2. Len(p) \in Nat
          BY <4>2
        <5> HIDE DEF n
        <5>3. Len(p) # n
          BY <1>3, <5>1, <5>2
        <5> QED BY <1>3, <5>3, Zenon
      <4>5. ~Below(Top.dir, p)
        <5>1. n \in DOMAIN stack
          BY <1>1, <1>3, EmptySeq
        <5>2. Ahead(stack, n, L)
          BY <3>2, <5>1, Zenon DEF AheadOf
        <5> QED BY <1>1, <1>3, <5>2, Zenon DEF Ahead
      <4> QED BY <4>3, <4>4, <4>5, Zenon DEF Below
    <3>4. AheadOf(stack', L)
      <4>1. \A q \in stack'[n].rest : fs[q] # Absent /\ \A p \in L : ~IsPrefix(q, p)
        BY <2>1, <2>2, <2>4, <3>3, Zenon
      <4>2. stack'[n].opened
        BY <2>1, <2>2
      <4> HIDE DEF L
      <4> QED BY <1>1, <1>3, <2>2, <3>2, <4>1, <4>2, AheadOfTop, Zenon DEF n
    <3>5. ASSUME Len(Found) < MaxEntries PROVE Covered(stack', L)
      <4>1. \A p \in Reachable : Awaits(stack[n], p) => Awaits(stack'[n], p)
        <5>1. \A p \in Reachable : Awaits(stack[n], p) => Below(Top.dir, p)
          BY <1>1, <1>3, Zenon DEF Awaits
        <5>2. stack'[n].opened
          BY <2>1, <2>2
        <5> QED BY <1>5, <2>1, <2>2, <5>1, <5>2, Zenon DEF Awaits
      <4> HIDE DEF L
      <4> QED BY <1>1, <1>3, <2>2, <3>2, <3>5, <4>1, CoveredTop, Zenon DEF n
    <3> QED BY <3>2, <3>4, <3>5
  <2> HIDE DEF L
  <2> QED BY <1>1, <1>2, <2>2, <2>6, StaysInShape, StaysListed, Zenon DEF L
<1>20. CASE /\ \E names \in SUBSET Children(Top.dir) : stack' = Append(Front(stack), Opened(names))
            /\ calm' = FALSE
  <2>1. Shape(stack')
    BY <1>18, <1>20
  <2> QED BY <1>1, <1>20, <2>1, StaysInShape, StaysListed, Zenon
<1>7. CASE stack' = Front(stack) /\ calm' = (calm /\ ~IsDir(Top.dir))
  <2>1. calm' => calm /\ ~IsDir(Top.dir)
    BY <1>7
  <2>2. ASSUME calm', NEW p \in Reachable, Awaits(Top, p)
        PROVE  FALSE
    BY <1>1, <1>5, <2>1, <2>2, Zenon DEF Awaits
  <2> QED BY <1>1, <1>2, <1>7, <2>1, <2>2, ReturnLists, Zenon
<1> QED BY <1>6, <1>7, <1>20, Zenon DEF OpenDir, open

(* The top frame has one name less. *)
LEMMA LessAtTop ==
  ASSUME NEW s \in Seq(Frames), s # << >>, NEW p,
         NEW t, t = [s EXCEPT ![Len(s)].rest = @ \ {p}]
  PROVE  /\ TopBecomes(s, t) /\ t[Len(s)].opened = s[Len(s)].opened
         /\ t[Len(s)].rest = s[Len(s)].rest \ {p}
<1> DEFINE n == Len(s)
           frame == [s[n] EXCEPT !.rest = @ \ {p}]
<1>1. n \in Nat /\ n \in DOMAIN s /\ s[n] \in Frames
  BY EmptySeq
<1>2. t = [s EXCEPT ![n] = frame]
  BY Zenon
<1>3. /\ frame \in Frames /\ frame.rest = s[n].rest \ {p} /\ frame.opened = s[n].opened
      /\ frame.dir = s[n].dir
  BY <1>1 DEF Frames
<1> HIDE DEF frame
<1> DEFINE u == [s EXCEPT ![n] = frame]
<1>4. u \in Seq(Frames)
  BY <1>1, <1>3
<1>5. Len(u) = n /\ DOMAIN u = 1 .. n
  BY <1>1, <1>3
<1>6. u[n] = frame
  BY <1>1
<1>7. \A i \in 1 .. n - 1 : u[i] = s[i]
  BY <1>1
<1> HIDE DEF u
<1>8. TopBecomes(s, u)
  BY <1>3, <1>4, <1>5, <1>6, <1>7, Zenon DEF TopBecomes
<1>9. t = u
  BY <1>2, Zenon DEF u
<1> QED BY <1>3, <1>6, <1>8, <1>9, Zenon

LEMMA OneNameLess ==
  ASSUME JInv, stack # << >>, Top.opened, NEW p \in Top.rest,
         NEW t, t = [stack EXCEPT ![Len(stack)].rest = @ \ {p}]
  PROVE  /\ t \in Seq(Frames) /\ TopBecomes(stack, t) /\ Shape(t) /\ t[Len(stack)].opened
         /\ t[Len(stack)].rest = Top.rest \ {p}
<1> DEFINE n == Len(stack)
<1>1. /\ stack \in Seq(Frames) /\ Shape(stack) /\ OnTheWay(stack, n) /\ Top = stack[n]
      /\ Top \in Frames /\ n \in Nat \ {0}
  BY Running
<1>2. /\ TopBecomes(stack, t) /\ t[n].opened = Top.opened /\ t[n].rest = Top.rest \ {p}
  BY <1>1, LessAtTop, Zenon
<1>3. n <= Head(jobs).depth + 1 /\ \A q \in Top.rest : Len(q) = n + 1 /\ Parent(q) = stack[n].dir
  BY <1>1, Zenon DEF OnTheWay
<1>4. \A q \in t[n].rest : Len(q) = n + 1 /\ Parent(q) = stack[n].dir
  BY <1>2, <1>3, Zenon
<1>5. Shape(t)
  BY <1>1, <1>2, <1>3, <1>4, ShapeOfTop, Zenon
<1> QED BY <1>2, <1>5, Zenon DEF TopBecomes

(* A name still to come of the directory that is read. *)
LEMMA NameToCome ==
  ASSUME JInv, stack # << >>, Top.opened, NEW p \in Top.rest
  PROVE  /\ p \in Paths /\ p \in Seq(Word) /\ p # << >> /\ Parent(p) = Top.dir
         /\ Len(p) = Len(stack) + 1 /\ Len(p) \in 2 .. Head(jobs).depth + 2
         /\ Clean(Top.dir) /\ Top.dir[1] \in Started /\ p[1] = Top.dir[1]
         /\ Len(stack) \in DOMAIN stack
<1> DEFINE n == Len(stack)
<1>1. /\ stack \in Seq(Frames) /\ OnTheWay(stack, n) /\ Top = stack[n]
      /\ Top \in Frames /\ n \in Nat \ {0} /\ Head(jobs).depth \in Nat
  BY Running
<1>2. Top.dir \in Seq(Word) /\ Top.dir # << >> /\ p \in Paths
  BY <1>1, FrameParts, Zenon
<1>3. p \in Seq(Word) /\ p # << >>
  BY <1>2, PathsAreDirs, Zenon
<1>4. /\ Parent(p) = Top.dir /\ Len(p) = n + 1 /\ Clean(Top.dir) /\ Top.dir[1] \in Started
      /\ n <= Head(jobs).depth + 1
  BY <1>1, Zenon DEF OnTheWay
<1>5. p[1] = Top.dir[1]
  <2>1. IsPrefix(Parent(p), p)
    BY <1>3, ParentIsPrefix
  <2> QED BY <1>2, <1>3, <1>4, <2>1, SameFirst, Zenon
<1>6. Len(p) \in 2 .. Head(jobs).depth + 2
  BY <1>1, <1>4
<1>7. n \in DOMAIN stack
  BY <1>1
<1> QED BY <1>2, <1>3, <1>4, <1>5, <1>6, <1>7, Zenon

LEMMA SkipNameLists ==
  ASSUME JInv, SkipName
  PROVE  InShape' /\ Listing'
<1> DEFINE n == Len(stack)
           L == Listed(walked)
<1>1. /\ stack # << >> /\ Top.opened
      /\ fs' = fs /\ jobs' = jobs /\ roots' = roots /\ walked' = walked
      /\ UNCHANGED <<walking, tmp, result>>
  BY DEF SkipName, call
<1>2. Found' = Found
  BY <1>1, SameFound
<1>3. PICK p \in Top.rest : /\ stack' = [stack EXCEPT ![Len(stack)].rest = @ \ {p}]
                            /\ calm' = (calm /\ p \in NotUtf8)
  BY Zenon DEF SkipName
<1>4. /\ TopBecomes(stack, stack') /\ Shape(stack') /\ stack'[n].opened
      /\ stack'[n].rest = Top.rest \ {p}
  BY <1>1, <1>3, OneNameLess, Zenon
<1>5. stack \in Seq(Frames) /\ jobs # << >> /\ Top = stack[n]
  BY <1>1, Running
<1>6. p \in Seq(Word) /\ Len(p) >= 2 /\ n \in DOMAIN stack
  BY <1>1, NameToCome
<1>7. ASSUME calm'
      PROVE  /\ Right(L) /\ InOrder(walked) /\ AheadOf(stack', L)
             /\ Len(Found) < MaxEntries => Covered(stack', L)
  <2>1. calm /\ p \in NotUtf8
    BY <1>3, <1>7
  <2>2. /\ Right(L) /\ InOrder(walked) /\ AheadOf(stack, L)
        /\ Len(Found) < MaxEntries => Covered(stack, L)
    BY <1>5, <2>1, Zenon DEF JInv, Listing
  <2>3. AheadOf(stack', L)
    <3>1. Ahead(stack, n, L)
      BY <1>6, <2>2, Zenon DEF AheadOf
    <3>2. \A q \in stack'[n].rest : q \in stack[n].rest
      BY <1>4, <1>5, Zenon
    <3>3. \A q \in stack'[n].rest : fs[q] # Absent /\ \A w \in L : ~IsPrefix(q, w)
      BY <3>1, <3>2, Zenon DEF Ahead
    <3> HIDE DEF L
    <3> QED BY <1>1, <1>4, <1>5, <2>2, <3>3, AheadOfTop, Zenon DEF n
  <2>4. ASSUME Len(Found) < MaxEntries PROVE Covered(stack', L)
    <3>1. ASSUME NEW r \in Reachable, Awaits(stack[n], r) PROVE Awaits(stack'[n], r)
      <4>1. PICK q \in Top.rest : IsPrefix(q, r)
        BY <1>1, <1>5, <3>1, Zenon DEF Awaits
      <4>2. r \in Seq(Word) /\ Clean(r)
        BY ReachableMeans, PathsAreDirs, Zenon
      <4>3. q # p
        <5>1. ~IsPrefix(p, r)
          BY <1>6, <2>1, <4>2, CleanPrefix
        <5> QED BY <4>1, <5>1, Zenon
      <4> QED BY <1>4, <4>1, <4>3, Zenon DEF Awaits
    <3> HIDE DEF L
    <3> QED BY <1>1, <1>4, <1>5, <2>2, <2>4, <3>1, CoveredTop, Zenon DEF n
  <2> QED BY <2>2, <2>3, <2>4
<1> HIDE DEF L
<1> QED BY <1>1, <1>2, <1>4, <1>7, StaysInShape, StaysListed, Zenon DEF L

-----------------------------------------------------------------------------
(* An entry is listed. *)

LEMMA ListedMore ==
  ASSUME NEW w \in Seq(Entry), NEW e \in Entry
  PROVE  Listed(Append(w, e)) = Listed(w) \cup {e.path}
<1> DEFINE u == Append(w, e)
           m == Len(w) + 1
<1>1. /\ DOMAIN w = 1 .. Len(w) /\ DOMAIN u = 1 .. m /\ u[m] = e
      /\ \A k \in 1 .. Len(w) : u[k] = w[k]
      /\ \A k : k \in 1 .. m <=> k \in 1 .. Len(w) \/ k = m
  OBVIOUS
<1> HIDE DEF u, m
<1>2. Listed(u) = Listed(w) \cup {e.path}
  BY <1>1, Zenon DEF Listed
<1> QED BY <1>2 DEF u

LEMMA InOrderMore ==
  ASSUME NEW w \in Seq(Entry), NEW e \in Entry, InOrder(w),
         \A q \in Listed(w) : ~IsPrefix(e.path, q)
  PROVE  InOrder(Append(w, e))
<1> DEFINE u == Append(w, e)
           m == Len(w) + 1
<1>1. /\ DOMAIN w = 1 .. Len(w) /\ DOMAIN u = 1 .. m /\ u[m] = e
      /\ \A k \in 1 .. Len(w) : u[k] = w[k]
      /\ \A k \in 1 .. m : k \in 1 .. Len(w) \/ k = m
      /\ \A i, j \in 1 .. m : i < j => i \in 1 .. Len(w)
  OBVIOUS
<1> HIDE DEF u, m
<1>2. \A k \in 1 .. Len(w) : ~IsPrefix(e.path, w[k].path)
  BY <1>1, Zenon DEF Listed
<1>3. ASSUME NEW i \in 1 .. m, NEW j \in 1 .. m, i < j
      PROVE  ~IsPrefix(u[j].path, u[i].path)
  <2>1. i \in 1 .. Len(w) /\ u[i] = w[i]
    BY <1>1, <1>3
  <2>2. CASE j = m
    BY <1>1, <1>2, <2>1, <2>2, Zenon
  <2>3. CASE j \in 1 .. Len(w)
    BY <1>1, <1>3, <2>1, <2>3, Zenon DEF InOrder
  <2> QED BY <1>1, <2>2, <2>3, Zenon
<1>4. InOrder(u)
  BY <1>1, <1>3, Zenon DEF InOrder
<1> QED BY <1>4 DEF u

LEMMA FoundMore ==
  ASSUME IInv, walking, walking' = walking, result' = result, NEW e \in Entry,
         tmp'.entries = Append(tmp.entries, e), Len(Found') < MaxEntries
  PROVE  Len(Found) < MaxEntries
<1> DEFINE a == result.entries
           b == tmp.entries
           c == Append(b, e)
<1>1. a \in Seq(Entry) /\ b \in Seq(Entry)
  BY Parts, ListsTyped, Zenon
<1>2. Found = a \o b
  BY Zenon DEF Found
<1>3. walking'
  OBVIOUS
<1>4. Found' = a \o c
  BY <1>3, Zenon DEF Found
<1> HIDE DEF a, b
<1>5. Len(a \o b) = Len(a) + Len(b) /\ Len(a \o c) = Len(a) + Len(c) /\ Len(c) = Len(b) + 1
  BY <1>1
<1>6. Len(a) \in Nat /\ Len(b) \in Nat
  BY <1>1
<1> HIDE DEF c
<1>7. Len(a \o c) < MaxEntries
  BY <1>4, Zenon
<1>8. Len(a \o b) < MaxEntries
  BY <1>5, <1>6, <1>7, WalkAssumption
<1> QED BY <1>2, <1>8, Zenon

(* The name p has been read and what it is has been listed; if it is a
   directory it is entered next. *)
Entered(s, p, node) == IF node.kind = "dir" THEN Append(s, Frame(p)) ELSE s

LEMMA CoveredAfterEntry ==
  ASSUME JInv, stack # << >>, Top.opened, NEW p \in Top.rest, fs[p] # Absent,
         NEW t, t = [stack EXCEPT ![Len(stack)].rest = @ \ {p}],
         NEW L, Covered(stack, L)
  PROVE  Covered(Entered(t, p, fs[p]), L \cup {p})
<1> DEFINE n == Len(stack)
           u == Entered(t, p, fs[p])
<1>1. /\ stack \in Seq(Frames) /\ Top = stack[n] /\ n \in Nat /\ FileSystem /\ DOMAIN stack = 1 .. n
  BY Running
<1>2. p \in Paths /\ p \in Dirs
  BY NameToCome, PathsAreDirs
<1>3. /\ t \in Seq(Frames) /\ TopBecomes(stack, t) /\ t[n].opened /\ t[n].rest = Top.rest \ {p}
  BY OneNameLess, Zenon
<1>4. /\ Len(t) = n /\ DOMAIN t = 1 .. n /\ \A i \in 1 .. n - 1 : t[i] = stack[i]
  BY <1>3, Zenon DEF TopBecomes
<1>5. /\ 1 .. n \subseteq DOMAIN u /\ \A i \in 1 .. n : u[i] = t[i]
      /\ fs[p].kind = "dir" => n + 1 \in DOMAIN u /\ u[n + 1] = Frame(p)
  <2>1. CASE fs[p].kind = "dir"
    <3>1. u = Append(t, Frame(p))
      BY <2>1, Zenon DEF Entered
    <3> HIDE DEF n
    <3>2. DOMAIN Append(t, Frame(p)) = 1 .. n + 1 /\ Append(t, Frame(p))[n + 1] = Frame(p)
          /\ \A i \in 1 .. n : Append(t, Frame(p))[i] = t[i]
      BY <1>3, <1>4
    <3>3. 1 .. n \subseteq 1 .. n + 1 /\ n + 1 \in 1 .. n + 1
      BY <1>1
    <3> QED BY <3>1, <3>2, <3>3, Zenon
  <2>2. CASE fs[p].kind # "dir"
    <3>1. u = t
      BY <2>2, Zenon DEF Entered
    <3> QED BY <1>4, <2>2, <3>1, Zenon
  <2> QED BY <2>1, <2>2
<1>6. Frame(p).dir = p /\ Frame(p).opened = FALSE
  BY DEF Frame
<1> HIDE DEF u
<1>7. ASSUME NEW r \in Reachable, NEW i \in 1 .. n, Awaits(stack[i], r)
      PROVE  r = p \/ \E j \in DOMAIN u : Awaits(u[j], r)
  <2>1. CASE i # n
    <3> HIDE DEF n
    <3>1. i \in 1 .. n - 1
      BY <1>1, <2>1, TopOrBelow, Zenon
    <3>2. u[i] = stack[i]
      BY <1>4, <1>5, <3>1, Zenon
    <3> QED BY <1>5, <1>7, <3>2, Zenon
  <2>2. CASE i = n
    <3>1. PICK q \in Top.rest : IsPrefix(q, r)
      BY <1>1, <1>7, <2>2, Zenon DEF Awaits
    <3>2. CASE q # p
      <4>1. Awaits(u[n], r)
        <5>1. u[n] = t[n]
          BY <1>5, <2>2, Zenon
        <5>2. q \in t[n].rest
          BY <1>3, <3>2, Zenon
        <5> QED BY <1>3, <3>1, <5>1, <5>2, Zenon DEF Awaits
      <4>2. n \in DOMAIN u
        BY <1>5, <2>2, Zenon
      <4> QED BY <4>1, <4>2, Zenon
    <3>3. CASE q = p /\ r # p
      <4>1. Below(p, r)
        BY <3>1, <3>3, Zenon DEF Below
      <4>2. r \in Paths /\ fs[r] # Absent
        BY ReachableMeans, Zenon
      <4>3. IsDir(p)
        BY <1>1, <1>2, <4>1, <4>2, NameOnTheWay, Zenon
      <4>4. fs[p].kind = "dir"
        BY <4>3, Zenon DEF IsDir
      <4>5. ~Frame(p).opened
        BY <1>6
      <4> HIDE DEF n
      <4>6. Awaits(u[n + 1], r)
        BY <1>5, <1>6, <4>1, <4>4, <4>5, Zenon DEF Awaits
      <4> QED BY <1>5, <4>4, <4>6, Zenon
    <3> QED BY <3>2, <3>3
  <2> QED BY <2>1, <2>2
<1>8. Covered(u, L \cup {p})
  BY <1>1, <1>7, Zenon DEF Covered
<1> QED BY <1>8 DEF u

LEMMA ShapeAfterEntry ==
  ASSUME JInv, stack # << >>, Top.opened, NEW p \in Top.rest, p \notin NotUtf8,
         NEW t, t = [stack EXCEPT ![Len(stack)].rest = @ \ {p}], NEW node
  PROVE  Shape(t) /\ Shape(Entered(t, p, node))
<1> DEFINE n == Len(stack)
<1>1. Top = stack[n] /\ n \in Nat \ {0} /\ stack \in Seq(Frames)
  BY Running
<1>2. p \in Paths /\ Parent(p) = Top.dir /\ Len(p) = n + 1
  BY NameToCome, Zenon
<1>3. /\ t \in Seq(Frames) /\ TopBecomes(stack, t) /\ Shape(t) /\ t[n].opened
  BY OneNameLess, Zenon
<1>4. Len(t) = n /\ t[n].dir = Top.dir
  BY <1>1, <1>3, Zenon DEF TopBecomes
<1>5. t # << >>
  <2>1. Len(t) # 0
    BY <1>1, <1>4
  <2> QED BY <2>1, <1>3, EmptySeq
<1> HIDE DEF n
<1>6. t[Len(t)].opened /\ Len(p) = Len(t) + 1 /\ Parent(p) = t[Len(t)].dir
  BY <1>2, <1>3, <1>4, Zenon
<1>7. Shape(Append(t, Frame(p)))
  BY <1>2, <1>3, <1>5, <1>6, ShapeOfCall, Zenon
<1> QED BY <1>3, <1>7, Zenon DEF Entered

LEMMA AheadAfterEntry ==
  ASSUME JInv, stack # << >>, Top.opened, NEW p \in Top.rest, p \notin NotUtf8,
         NEW t, t = [stack EXCEPT ![Len(stack)].rest = @ \ {p}],
         NEW L, AheadOf(stack, L), NEW node
  PROVE  AheadOf(Entered(t, p, node), L \cup {p})
<1> DEFINE n == Len(stack)
<1>1. Top = stack[n] /\ n \in Nat \ {0} /\ stack \in Seq(Frames)
  BY Running
<1>2. p \in Paths /\ Parent(p) = Top.dir /\ Len(p) = n + 1 /\ n \in DOMAIN stack
  BY NameToCome, Zenon
<1>3. /\ t \in Seq(Frames) /\ TopBecomes(stack, t) /\ Shape(t) /\ t[n].opened
      /\ t[n].rest = Top.rest \ {p}
  BY OneNameLess, Zenon
<1>4. Len(t) = n /\ t[n].dir = Top.dir
  BY <1>1, <1>3, Zenon DEF TopBecomes
<1>5. t # << >>
  <2>1. Len(t) # 0
    BY <1>1, <1>4
  <2> QED BY <2>1, <1>3, EmptySeq
<1>6. Ahead(stack, n, L)
  BY <1>2, Zenon DEF AheadOf
<1>7. \A q \in Top.rest : fs[q] # Absent /\ \A w \in L : ~IsPrefix(q, w)
  BY <1>1, <1>6, Zenon DEF Ahead
<1>8. AheadOf(t, L)
  <2>1. \A q \in t[n].rest : fs[q] # Absent /\ \A w \in L : ~IsPrefix(q, w)
    BY <1>3, <1>7, Zenon
  <2> QED BY <1>1, <1>3, <2>1, AheadOfTop, Zenon
<1> HIDE DEF n
<1>9. /\ t[Len(t)].opened /\ Len(p) = Len(t) + 1 /\ Parent(p) = t[Len(t)].dir
      /\ p \notin t[Len(t)].rest
  BY <1>2, <1>3, <1>4, Zenon
<1>10. AheadOf(t, L \cup {p})
  BY <1>2, <1>3, <1>5, <1>8, <1>9, AheadOfEntry, Zenon
<1>11. \A w \in L \cup {p} : ~Below(p, w)
  BY <1>7, Zenon DEF Below
<1>12. AheadOf(Append(t, Frame(p)), L \cup {p})
  BY <1>2, <1>3, <1>5, <1>9, <1>10, <1>11, AheadOfCall, Zenon
<1> QED BY <1>10, <1>12, Zenon DEF Entered

(* The roots walked so far are the first of the tree's. *)
LEMMA RootsAreRoots ==
  ASSUME Queues, jobs # << >>
  PROVE  \A root \in Started : \E i \in DOMAIN Head(jobs).roots : root = Head(jobs).roots[i]
<1> DEFINE all == Head(jobs).roots
<1>1. Head(jobs) \in Jobs /\ roots \in Seq(Starts)
  BY DEF Queues, Queued
<1>2. all \in Seq(Starts)
  BY <1>1, JobTyped, Zenon
<1> HIDE DEF all
<1>3. \A i \in 1 .. Len(all) - Len(roots) : i \in DOMAIN all
  <2>1. Len(all) \in Nat /\ Len(roots) \in Nat /\ DOMAIN all = 1 .. Len(all)
    BY <1>1, <1>2
  <2> QED BY <2>1
<1> QED BY <1>3, Zenon DEF Started, all

(* In a tree at rest no link is met on the way to a name. *)
LEMMA FoundInPlace ==
  ASSUME FileSystem, NEW p \in Paths, Len(p) > 1, fs[p] # Absent
  PROVE  Lookups(p) = {fs[p]}
<1> DEFINE d == Parent(p)
<1>1. p \in Seq(Word) /\ p # << >> /\ Len(p) \in Nat
  BY PathsAreDirs
<1>2. d \in Seq(Word) /\ Len(d) = Len(p) - 1 /\ IsPrefix(d, p)
  BY <1>1, ParentIsPrefix
<1> HIDE DEF d
<1>3. ASSUME NEW n \in 1 .. Len(d) PROVE IsDir(SubSeq(d, 1, n))
  <2> DEFINE q == SubSeq(d, 1, n)
             r == SubSeq(p, 1, n)
  <2>1. n \in 0 .. Len(d) /\ n \in 0 .. Len(p) /\ n \in 1 .. Len(p) - 1
    BY <1>1, <1>2
  <2>2. q \in Seq(Word) /\ Len(q) = n /\ IsPrefix(q, d)
    BY <1>2, <2>1, FirstNames
  <2>3. r \in Seq(Word) /\ Len(r) = n /\ IsPrefix(r, p)
    BY <1>1, <2>1, FirstNames
  <2>4. IsDir(r)
    BY <2>1, DirsAbove
  <2> HIDE DEF q, r
  <2>5. IsPrefix(q, p)
    BY <1>1, <1>2, <2>2, PrefixOfPrefix, Zenon
  <2>6. q = r
    BY <1>1, <2>2, <2>3, <2>5, OnePrefixPerLength, Zenon
  <2> QED BY <2>4, <2>6 DEF q
<1>4. ~ThroughLink(d)
  BY <1>3 DEF ThroughLink, IsDir
<1> QED BY <1>4, Zenon DEF Lookups, d

LEMMA VisitLists ==
  ASSUME JInv, Visit
  PROVE  InShape' /\ Listing'
<1> DEFINE L == Listed(walked)
<1>1. /\ stack # << >> /\ Top.opened
      /\ fs' = fs /\ jobs' = jobs /\ roots' = roots /\ calm' = calm
      /\ walking' = walking /\ result' = result
  BY DEF Visit, call
<1>2. PICK p \in Top.rest : p \notin NotUtf8 /\ \E node \in Lookups(p) : AddEntry(p, node)
  BY Zenon DEF Visit
<1>9. PICK node \in Lookups(p) : AddEntry(p, node)
  BY <1>2
<1> DEFINE t == [stack EXCEPT ![Len(stack)].rest = @ \ {p}]
           entry == [path |-> p, node |-> node]
<1>3. /\ p \in Paths /\ p \in Seq(Word) /\ p # << >> /\ Parent(p) = Top.dir
      /\ Len(p) \in 2 .. Head(jobs).depth + 2
      /\ Clean(Top.dir) /\ Top.dir[1] \in Started /\ p[1] = Top.dir[1]
      /\ Len(stack) \in DOMAIN stack
  BY <1>1, NameToCome, Zenon
<1>4. jobs # << >> /\ walking /\ FileSystem /\ Top = stack[Len(stack)] /\ IInv /\ Queues
  BY <1>1, Running, Parts DEF JInv
<1>5. Shape(t) /\ Shape(Entered(t, p, node))
  BY <1>1, <1>2, ShapeAfterEntry, Zenon
<1> HIDE DEF t
<1>6. ASSUME calm
      PROVE  /\ Right(L) /\ InOrder(walked) /\ AheadOf(stack, L)
             /\ Len(Found) < MaxEntries => Covered(stack, L)
             /\ fs[p] # Absent /\ \A w \in L : ~IsPrefix(p, w)
  <2>1. /\ Right(L) /\ InOrder(walked) /\ AheadOf(stack, L)
        /\ Len(Found) < MaxEntries => Covered(stack, L)
    BY <1>4, <1>6, Zenon DEF JInv, Listing
  <2>2. Ahead(stack, Len(stack), L)
    BY <1>3, <2>1, Zenon DEF AheadOf
  <2>3. fs[p] # Absent /\ \A w \in L : ~IsPrefix(p, w)
    BY <1>4, <2>2, Zenon DEF Ahead
  <2> QED BY <2>1, <2>3
<1>10. calm => fs[p] # Absent /\ node = fs[p]
  <2>1. Len(p) > 1
    BY <1>3
  <2> QED BY <1>3, <1>4, <1>6, <2>1, FoundInPlace
<1>11. node \in Node \cup {Absent}
  BY <1>3, <1>4, WhatIsFound
<1>7. CASE node = Absent
  <2>1. stack' = t
    BY <1>9, <1>7, Zenon DEF AddEntry, t
  <2>2. ~calm'
    BY <1>1, <1>10, <1>7
  <2> QED BY <1>1, <1>5, <2>1, <2>2, StaysInShape, StaysListed, Zenon
<1>8. CASE node # Absent
  <2>1. /\ tmp'.entries = Append(tmp.entries, entry)
        /\ walked' = Append(walked, entry)
        /\ stack' = Entered(t, p, node)
    <3>1. /\ tmp' = [entries |-> Append(tmp.entries, entry),
                     counts |-> [c \in Counts |->
                       tmp.counts[c] + (IF c \in Classes(node) THEN 1 ELSE 0)]]
          /\ walked' = Append(walked, entry)
          /\ stack' = IF node.kind = "dir" THEN Append(t, Frame(p)) ELSE t
      BY <1>9, <1>8, Zenon DEF AddEntry, t
    <3> HIDE DEF entry
    <3>2. stack' = Entered(t, p, node)
      BY <3>1, Zenon DEF Entered
    <3>3. tmp'.entries = Append(tmp.entries, entry)
      BY <3>1
    <3> QED BY <3>1, <3>2, <3>3, Zenon
  <2>2. entry \in Entry /\ entry.path = p
    <3>1. node \in Node
      BY <1>8, <1>11
    <3> QED BY <1>3, <3>1 DEF Entry
  <2>3. walked \in Seq(Entry)
    BY <1>4, Parts, ListsTyped, Zenon
  <2> HIDE DEF entry
  <2>4. Listed(walked') = L \cup {p}
    BY <2>1, <2>2, <2>3, ListedMore, Zenon
  <2>5. ASSUME calm'
        PROVE  /\ Right(L \cup {p}) /\ InOrder(walked') /\ AheadOf(stack', L \cup {p})
               /\ Len(Found') < MaxEntries => Covered(stack', L \cup {p})
    <3>1. calm
      BY <1>1, <2>5
    <3>2. /\ Right(L) /\ InOrder(walked) /\ AheadOf(stack, L)
          /\ Len(Found) < MaxEntries => Covered(stack, L)
          /\ \A w \in L : ~IsPrefix(p, w)
      BY <1>6, <3>1, Zenon
    <3>3. Right(L \cup {p})
      <4>1. Clean(p)
        BY <1>2, <1>3, CleanChild, Zenon
      <4>2. p[1] \in Started
        BY <1>3, Zenon
      <4>3. \E i \in DOMAIN Head(jobs).roots : p[1] = Head(jobs).roots[i]
        BY <1>4, <4>2, RootsAreRoots, Zenon
      <4>4. p \in Reachable
        BY <1>3, <1>6, <3>1, <4>1, <4>3, ReachableMeans, Zenon
      <4> HIDE DEF L
      <4> QED BY <3>2, <4>2, <4>4, Zenon DEF Right
    <3>4. InOrder(walked')
      BY <2>1, <2>2, <2>3, <3>2, InOrderMore, Zenon
    <3> HIDE DEF L
    <3>5. AheadOf(stack', L \cup {p})
      BY <1>1, <1>2, <2>1, <3>2, AheadAfterEntry, Zenon DEF t
    <3>6. ASSUME Len(Found') < MaxEntries PROVE Covered(stack', L \cup {p})
      <4>1. Len(Found) < MaxEntries
        BY <1>1, <1>4, <2>1, <2>2, <3>6, FoundMore, Zenon
      <4> QED BY <1>1, <1>6, <1>10, <2>1, <3>1, <3>2, <4>1, CoveredAfterEntry, Zenon DEF t
    <3> QED BY <3>3, <3>4, <3>5, <3>6
  <2> HIDE DEF L
  <2> QED BY <1>1, <1>5, <2>1, <2>4, <2>5, StaysInShape, StaysListed, Zenon
<1> QED BY <1>7, <1>8

-----------------------------------------------------------------------------
(* A walk ends, and the next tree or the next directory of one begins. *)

LEMMA ShorterStays ==
  ASSUME NEW list \in Seq(Entry), Len(AtMost(list, MaxEntries)) < MaxEntries
  PROVE  Len(list) < MaxEntries
<1>1. CASE Len(list) > MaxEntries
  <2>1. Len(list) \in Nat /\ MaxEntries \in Nat
    BY WalkAssumption
  <2>2. MaxEntries \in 0 .. Len(list)
    BY <1>1, <2>1
  <2>3. Len(SubSeq(list, 1, MaxEntries)) = MaxEntries
    BY <2>2, FirstOnes
  <2>4. AtMost(list, MaxEntries) = SubSeq(list, 1, MaxEntries)
    BY <1>1, Zenon DEF AtMost
  <2>5. MaxEntries < MaxEntries
    BY <2>3, <2>4, Zenon
  <2> QED BY <2>1, <2>5
<1>2. CASE ~(Len(list) > MaxEntries)
  BY <1>2, Zenon DEF AtMost
<1> QED BY <1>1, <1>2

LEMMA MergeLists ==
  ASSUME JInv, Merge
  PROVE  InShape' /\ Listing'
<1> DEFINE both == result.entries \o tmp.entries
           list == IF Len(both) > MaxEntries THEN SubSeq(both, 1, MaxEntries) ELSE both
           sums == [c \in Counts |-> result.counts[c] + tmp.counts[c]]
<1>1. /\ walking /\ stack = << >> /\ walking' = FALSE
      /\ result' = [entries |-> list, counts |-> sums]
      /\ UNCHANGED <<fs, changes, call, stack, tmp, walked, calm>>
  BY Zenon DEF Merge
<1>2. /\ fs' = fs /\ jobs' = jobs /\ roots' = roots /\ stack' = stack /\ walked' = walked
      /\ calm' = calm
  BY <1>1 DEF call
<1>3. both \in Seq(Entry)
  <2>1. tmp.entries \in Seq(Entry) /\ result.entries \in Seq(Entry)
    BY Parts, ListsTyped, Zenon DEF JInv
  <2> QED BY <2>1, JoinMeans, Zenon
<1>4. Found = both
  BY <1>1, Zenon DEF Found
<1>5. Found' = AtMost(both, MaxEntries)
  <2>1. result'.entries = list
    <3> HIDE DEF list, sums
    <3> QED BY <1>1
  <2>2. Found' = list
    BY <1>1, <2>1, Zenon DEF Found
  <2> QED BY <2>2, Zenon DEF AtMost
<1> HIDE DEF both, list, sums
<1>6. Len(Found') < MaxEntries => Len(Found) < MaxEntries
  BY <1>3, <1>4, <1>5, ShorterStays, Zenon
<1>7. jobs # << >> => Shape(stack)
  BY Zenon DEF JInv, InShape
<1>8. jobs # << >> /\ calm =>
        /\ Right(Listed(walked)) /\ InOrder(walked)
        /\ AheadOf(stack, Listed(walked))
        /\ Len(Found) < MaxEntries => Covered(stack, Listed(walked))
  BY Zenon DEF JInv, Listing
<1> QED BY <1>2, <1>6, <1>7, <1>8, StaysInShape, StaysListed, Zenon

LEMMA NothingYet ==
  ASSUME NEW all \in Seq(Starts)
  PROVE  {all[i] : i \in 1 .. Len(all) - Len(all)} = {}
<1>1. 1 .. Len(all) - Len(all) = {}
  OBVIOUS
<1> QED BY <1>1, Zenon

(* Before a tree is walked there is nothing to say of it. *)
LEMMA FreshTree ==
  /\ jobs # << >> => roots = Head(jobs).roots /\ roots \in Seq(Starts)
  /\ stack = << >> /\ walked = << >>
  => InShape /\ Listing
<1> SUFFICES ASSUME jobs # << >> => roots = Head(jobs).roots /\ roots \in Seq(Starts),
                    stack = << >>, walked = << >>
             PROVE  InShape /\ Listing
  OBVIOUS
<1>1. DOMAIN stack = {} /\ DOMAIN walked = {}
  OBVIOUS
<1>2. InShape
  BY <1>1, Zenon DEF InShape, Shape
<1>3. jobs # << >> => Started = {}
  BY NothingYet, Zenon DEF Started
<1>4. Listed(walked) = {}
  BY <1>1, Zenon DEF Listed
<1>5. Listing
  BY <1>1, <1>3, <1>4, Zenon DEF Listing, Right, InOrder, AheadOf, Covered
<1> QED BY <1>2, <1>5

LEMMA FreshTreeNext ==
  ASSUME jobs' # << >> => roots' = Head(jobs').roots /\ roots' \in Seq(Starts),
         stack' = << >>, walked' = << >>
  PROVE  InShape' /\ Listing'
<1>1. DOMAIN stack' = {} /\ DOMAIN walked' = {}
  OBVIOUS
<1>2. InShape'
  BY <1>1, Zenon DEF InShape, Shape
<1>3. jobs' # << >> => Started' = {}
  BY NothingYet, Zenon DEF Started
<1>4. Listed(walked)' = {}
  BY <1>1, Zenon DEF Listed
<1>5. Listing'
  BY <1>1, <1>3, <1>4, Zenon DEF Listing, Right, InOrder, AheadOf, Covered
<1> QED BY <1>2, <1>5

LEMMA PrintResultLists ==
  ASSUME JInv, PrintResult
  PROVE  InShape' /\ Listing'
<1>1. /\ jobs # << >> /\ ~walking /\ jobs' = Tail(jobs)
      /\ roots' = IF Len(jobs) = 1 THEN << >> ELSE jobs[2].roots
      /\ walked' = << >> /\ stack' = stack
  BY Zenon DEF PrintResult, Parsed
<1>2. Calls /\ Queues
  BY Parts DEF JInv
<1>3. jobs \in Seq(Jobs)
  BY <1>2, Zenon DEF Queues, Queued
<1>4. stack = << >>
  BY <1>1, <1>2, Zenon DEF Calls
<1>5. jobs' # << >> => roots' = Head(jobs').roots /\ roots' \in Seq(Starts)
  <2>1. CASE Len(jobs) = 1
    <3>1. jobs' = << >>
      BY <1>1, <1>3, <2>1, LastJob, Zenon
    <3> QED BY <3>1, Zenon
  <2>2. CASE Len(jobs) # 1
    <3>1. Head(jobs') = jobs[2] /\ jobs[2].roots \in Seq(Starts)
      BY <1>1, <1>3, <2>2, NextJob, Zenon
    <3>2. roots' = jobs[2].roots
      BY <1>1, <2>2, Zenon
    <3> QED BY <3>1, <3>2, Zenon
  <2> QED BY <2>1, <2>2
<1> QED BY <1>1, <1>4, <1>5, FreshTreeNext, Zenon

(* The roots that come before s. *)
Before(all, s) == {all[i] : i \in 1 .. Len(all) - Len(s)}

(* The next root is one that has not been walked. *)
LEMMA OneMoreRoot ==
  ASSUME NEW all \in Seq(Starts), \A i, j \in DOMAIN all : all[i] = all[j] => i = j,
         NEW s \in Seq(Starts), s # << >>, IsSuffix(s, all)
  PROVE  /\ Before(all, Tail(s)) = Before(all, s) \cup {Head(s)}
         /\ Head(s) \notin Before(all, s) /\ Head(s) \in Starts
<1> DEFINE k == Len(all) - Len(s)
           old == Before(all, s)
           new == Before(all, Tail(s))
           h == Head(s)
<1>1. /\ Len(all) \in Nat /\ Len(s) \in Nat /\ Len(s) # 0 /\ Len(Tail(s)) = Len(s) - 1
      /\ h = s[1] /\ 1 \in 1 .. Len(s) /\ DOMAIN all = 1 .. Len(all) /\ h \in Starts
  BY EmptySeq
<1>2. Len(s) <= Len(all) /\ \A i \in 1 .. Len(s) : s[i] = all[Len(all) - Len(s) + i]
  BY SuffixMeans
<1>3. h = all[k + 1]
  BY <1>1, <1>2
<1>4. /\ Len(all) - Len(Tail(s)) = k + 1 /\ k + 1 \in DOMAIN all
      /\ \A i \in 1 .. k : i \in DOMAIN all /\ i # k + 1
      /\ \A i : i \in 1 .. k + 1 <=> i \in 1 .. k \/ i = k + 1
  BY <1>1, <1>2
<1> HIDE DEF h
<1>5. new = {all[i] : i \in 1 .. k + 1} /\ old = {all[i] : i \in 1 .. k}
  BY <1>4, Zenon DEF Before
<1> HIDE DEF k, old, new
<1>6. h \notin old
  BY <1>3, <1>4, <1>5, Zenon
<1>7. new = old \cup {h}
  BY <1>3, <1>4, <1>5, Zenon
<1> QED BY <1>1, <1>6, <1>7 DEF h, old, new

LEMMA RootStarts ==
  ASSUME IInv, StartRoot
  PROVE  /\ Started' = Started \cup {Head(roots)} /\ Head(roots) \notin Started
         /\ Head(roots) \in Starts
<1> DEFINE all == Head(jobs).roots
<1>1. jobs # << >> /\ roots # << >> /\ roots' = Tail(roots) /\ jobs' = jobs
  BY DEF StartRoot
<1>2. Queues
  BY Parts, Zenon
<1>3. jobs \in Seq(Jobs) /\ roots \in Seq(Starts) /\ IsSuffix(roots, all)
  BY <1>1, <1>2, Zenon DEF Queues, Queued
<1>4. Head(jobs) \in Jobs
  BY <1>1, <1>3
<1>5. all \in Seq(Starts) /\ \A i, j \in DOMAIN all : all[i] = all[j] => i = j
  BY <1>4, JobTyped, Zenon
<1>6. Started = Before(all, roots) /\ Started' = Before(all, Tail(roots))
  BY <1>1, Zenon DEF Started, Before
<1> HIDE DEF all
<1> QED BY <1>1, <1>3, <1>5, <1>6, OneMoreRoot, Zenon

LEMMA RootIsAPath ==
  ASSUME NEW root \in Starts
  PROVE  /\ <<root>> \in Seq(Word) /\ <<root>> \in Dirs /\ <<root>> # << >>
         /\ Len(<<root>>) = 1 /\ <<root>>[1] = root
<1>1. <<root>> \in Dirs
  BY Zenon DEF Dirs
<1>2. <<root>> \in Seq(Word) /\ <<root>> # << >>
  BY <1>1, PathsAreDirs, Zenon
<1>3. Len(<<root>>) = 1 /\ <<root>>[1] = root
  OBVIOUS
<1> QED BY <1>1, <1>2, <1>3

LEMMA BelowTheRoot ==
  ASSUME NEW p \in Seq(Word), Len(p) >= 2, NEW root \in Starts, p[1] = root
  PROVE  Below(<<root>>, p)
<1> DEFINE d == <<root>>
<1>1. d \in Seq(Word) /\ Len(d) = 1 /\ d[1] = root
  BY RootIsAPath
<1> HIDE DEF d
<1>2. Len(p) \in Nat /\ Len(d) <= Len(p) /\ \A i \in 1 .. Len(d) : d[i] = p[i]
  BY <1>1
<1>3. IsPrefix(d, p)
  BY <1>1, <1>2, PrefixMeans
<1>4. d # p
  <2>1. Len(d) # Len(p)
    BY <1>1, <1>2
  <2> QED BY <2>1, Zenon
<1> QED BY <1>3, <1>4, Zenon DEF Below, d

LEMMA OneOnTheStack ==
  ASSUME NEW frame
  PROVE  DOMAIN <<frame>> = {1} /\ Len(<<frame>>) = 1 /\ <<frame>>[1] = frame
<1>1. Len(<<frame>>) = 1 /\ <<frame>>[1] = frame /\ DOMAIN <<frame>> = 1 .. 1
  OBVIOUS
<1>2. 1 .. 1 = {1}
  OBVIOUS
<1> QED BY <1>1, <1>2

LEMMA ShapeOfRoot ==
  ASSUME IInv, StartRoot, stack' = <<Frame(<<Head(roots)>>)>>
  PROVE  InShape'
<1> DEFINE h == Head(roots)
           d == <<Head(roots)>>
<1>1. Started' = Started \cup {h} /\ h \in Starts
  BY RootStarts
<1>2. d \in Seq(Word) /\ Len(d) = 1 /\ d[1] = h
  BY <1>1, RootIsAPath
<1>3. DOMAIN stack' = {1} /\ Len(stack') = 1 /\ stack'[1] = Frame(d)
  BY OneOnTheStack, Zenon
<1>4. Frame(d).dir = d /\ Frame(d).opened = FALSE /\ Frame(d).rest = {}
  BY DEF Frame
<1> HIDE DEF d, h
<1>5. /\ Len(stack'[1].dir) = 1 /\ stack'[1].dir[1] \in Started'
      /\ ~(1 < Len(stack')) /\ ~stack'[1].opened /\ stack'[1].rest = {}
  BY <1>1, <1>2, <1>3, <1>4
<1>6. \A j \in 1 .. 1 : IsPrefix(stack'[j].dir, stack'[1].dir)
  <2>1. IsPrefix(d, d)
    BY <1>2, PrefixItself
  <2>2. \A j \in 1 .. 1 : j = 1
    OBVIOUS
  <2> QED BY <1>3, <1>4, <2>1, <2>2, Zenon
<1>7. \A n \in 2 .. Len(stack'[1].dir) : SubSeq(stack'[1].dir, 1, n) \notin NotUtf8
  <2>1. 2 .. 1 = {}
    OBVIOUS
  <2> QED BY <1>5, <2>1, Zenon
<1>8. OnTheWay(stack, 1)'
  BY <1>5, <1>6, <1>7, Zenon DEF OnTheWay, Clean
<1> QED BY <1>3, <1>8, Zenon DEF InShape, Shape

LEMMA StartRootLists ==
  ASSUME JInv, StartRoot
  PROVE  InShape' /\ Listing'
<1> DEFINE h == Head(roots)
           d == <<Head(roots)>>
           L == Listed(walked)
           there == d \in Paths /\ fs[d] # Absent
<1>1. /\ jobs # << >> /\ ~walking /\ fs' = fs /\ jobs' = jobs /\ walked' = walked
      /\ calm' = calm /\ result' = result
  BY DEF StartRoot
<1>2. IInv /\ Calls /\ FileSystem /\ Lists
  BY Parts DEF JInv
<1>3. stack = << >>
  BY <1>1, <1>2, Zenon DEF Calls
<1>4. Started' = Started \cup {h} /\ h \notin Started /\ h \in Starts
  BY <1>2, RootStarts
<1>5. d \in Seq(Word) /\ d \in Dirs /\ d # << >> /\ d[1] = h
  BY <1>4, RootIsAPath
<1>6. Reachable' = Reachable
  BY <1>1 DEF Reachable
<1> HIDE DEF h, d
<1>7. \A p \in Reachable : p \in Paths /\ fs[p] # Absent /\ p \in Seq(Word) /\ Len(p) >= 2
  <2>1. \A p \in Reachable : p \in Paths /\ fs[p] # Absent /\ Len(p) \in 2 .. Head(jobs).depth + 2
    BY ReachableMeans, Zenon
  <2>2. \A p \in Reachable : p \in Seq(Word)
    BY <2>1, PathsAreDirs, Zenon
  <2>3. \A p \in Reachable : Len(p) >= 2
    BY <2>1
  <2> QED BY <2>1, <2>2, <2>3
<1>8. \A p \in Reachable : p[1] = h => Below(d, p)
  BY <1>4, <1>7, BelowTheRoot, Zenon DEF d, h
<1>9. ASSUME calm
      PROVE  /\ Right(L) /\ InOrder(walked)
             /\ Len(Found) < MaxEntries => \A p \in Reachable : p[1] \in Started => p \in L
  <2>1. /\ Right(L) /\ InOrder(walked)
        /\ Len(Found) < MaxEntries => Covered(stack, L)
    BY <1>1, <1>9, Zenon DEF JInv, Listing
  <2>2. DOMAIN stack = {}
    BY <1>3
  <2> QED BY <2>1, <2>2, Zenon DEF Covered
<1>10. Found = result.entries
  BY <1>1, Zenon DEF Found
<1>11. calm' => Right(Listed(walked))'
  BY <1>1, <1>4, <1>6, <1>9, Zenon DEF Right, Listed
<1>12. calm' => InOrder(walked)'
  BY <1>1, <1>9, Zenon DEF InOrder
<1>13. CASE UNCHANGED <<stack, walking, tmp>> /\ ~there
  <2>1. stack' = << >> /\ ~walking'
    BY <1>1, <1>3, <1>13
  <2>2. DOMAIN stack' = {}
    BY <2>1
  <2>3. InShape'
    BY <2>2, Zenon DEF InShape, Shape
  <2>4. AheadOf(stack, Listed(walked))'
    BY <2>2, Zenon DEF AheadOf
  <2>5. Found' = Found
    BY <1>1, <1>10, <2>1, Zenon DEF Found
  <2>6. ASSUME calm', Len(Found') < MaxEntries PROVE Covered(stack, Listed(walked))'
    <3>1. \A p \in Reachable : p[1] \in Started => p \in L
      BY <1>1, <1>9, <2>5, <2>6, Zenon
    <3>2. ASSUME NEW p \in Reachable, p[1] = h PROVE FALSE
      <4>1. IsDir(d)
        BY <1>2, <1>5, <1>7, <1>8, <3>2, NameOnTheWay, Zenon
      <4> QED BY <1>13, <4>1, Zenon DEF IsDir
    <3>3. \A p \in Reachable : p[1] \in Started' => p \in L
      BY <1>4, <3>1, <3>2, Zenon
    <3> QED BY <1>1, <1>6, <3>3, Zenon DEF Covered, Listed
  <2> QED BY <1>11, <1>12, <2>3, <2>4, <2>6, Zenon DEF Listing
<1>14. CASE stack' = <<Frame(d)>> /\ walking' = TRUE /\ tmp' = Empty
  <2>1. InShape'
    BY <1>2, <1>14, ShapeOfRoot, Zenon DEF d
  <2>2. DOMAIN stack' = {1} /\ Len(stack') = 1 /\ stack'[1] = Frame(d)
    BY <1>14, OneOnTheStack, Zenon
  <2>3. Frame(d).dir = d /\ Frame(d).opened = FALSE /\ Frame(d).rest = {}
    BY DEF Frame
  <2>4. stack'[1].dir = d /\ ~stack'[1].opened /\ stack'[1].rest = {} /\ ~(1 < Len(stack'))
    BY <2>2, <2>3
  <2>5. ASSUME calm' PROVE AheadOf(stack, Listed(walked))'
    <3>1. ASSUME NEW p \in L PROVE ~Below(d, p)
      <4>1. p \in Reachable /\ p[1] \in Started
        BY <1>1, <1>9, <2>5, Zenon DEF Right
      <4>2. ASSUME Below(d, p) PROVE FALSE
        <5>1. d[1] = p[1]
          BY <1>5, <1>7, <4>1, <4>2, SameFirst, Zenon DEF Below
        <5> QED BY <1>4, <1>5, <4>1, <5>1, Zenon
      <4> QED BY <4>2
    <3>2. \A p \in Listed(walked)' : ~Below(stack'[1].dir, p)
      BY <1>1, <2>4, <3>1, Zenon DEF Listed
    <3>3. Ahead(stack, 1, Listed(walked))'
      BY <2>4, <3>2, Zenon DEF Ahead, Below
    <3> QED BY <2>2, <3>3, Zenon DEF AheadOf
  <2>6. Found' = Found
    <3>1. Found' = result.entries \o << >>
      BY <1>1, <1>14, EmptyIsResult, Zenon DEF Found
    <3>2. result.entries \in Seq(Entry)
      BY <1>2, ListsTyped, Zenon
    <3> QED BY <1>10, <3>1, <3>2, JoinEmpty, Zenon
  <2>7. ASSUME calm', Len(Found') < MaxEntries PROVE Covered(stack, Listed(walked))'
    <3>1. \A p \in Reachable : p[1] \in Started => p \in L
      BY <1>1, <1>9, <2>6, <2>7, Zenon
    <3>2. \A p \in Reachable : p[1] \in Started' => p \in L \/ Below(d, p)
      BY <1>4, <1>8, <3>1, Zenon
    <3>3. \A p : Below(d, p) => Awaits(stack'[1], p)
      BY <2>4, Zenon DEF Awaits
    <3>4. 1 \in DOMAIN stack'
      BY <2>2
    <3>5. \A p \in Reachable : p[1] \in Started' =>
            p \in L \/ \E i \in DOMAIN stack' : Awaits(stack'[i], p)
      BY <3>2, <3>3, <3>4, Zenon
    <3> QED BY <1>1, <1>6, <3>5, Zenon DEF Covered, Listed, Awaits, Below
  <2> QED BY <1>11, <1>12, <2>1, <2>5, <2>7, Zenon DEF Listing
<1> QED BY <1>13, <1>14, Zenon DEF StartRoot, d

(* Whatever comes or goes, the calls are where they are. *)
LEMMA AppearKeepsShape ==
  ASSUME NEW s \in Seq(Frames), Shape(s), NEW i \in DOMAIN s, NEW p \in Paths,
         Parent(p) = s[i].dir, NEW t, t = [s EXCEPT ![i].rest = @ \cup {p}]
  PROVE  Shape(t)
<1> DEFINE frame == [s[i] EXCEPT !.rest = @ \cup {p}]
           u == [s EXCEPT ![i] = frame]
<1>1. s[i] \in Frames /\ DOMAIN s = 1 .. Len(s) /\ Len(s) \in Nat
  OBVIOUS
<1>2. /\ frame.rest = s[i].rest \cup {p} /\ frame.opened = s[i].opened
      /\ frame.dir = s[i].dir /\ frame \in Frames
  BY <1>1 DEF Frames
<1>3. t = u
  BY Zenon
<1> HIDE DEF frame
<1>4. DOMAIN u = DOMAIN s /\ Len(u) = Len(s)
  BY <1>1, <1>2
<1>5. u[i] = frame
  OBVIOUS
<1>6. \A j \in DOMAIN s : j # i => u[j] = s[j]
  OBVIOUS
<1> HIDE DEF u
<1>7. /\ \A j \in DOMAIN s : u[j].dir = s[j].dir /\ u[j].opened = s[j].opened
      /\ u[i].rest = s[i].rest \cup {p}
  BY <1>2, <1>5, <1>6, Zenon
<1>8. Len(p) = i + 1
  <2>1. p \in Seq(Word) /\ p # << >>
    BY PathsAreDirs, Zenon
  <2>2. Len(Parent(p)) = Len(p) - 1 /\ Len(p) \in Nat
    BY <2>1, ParentIsPrefix
  <2>3. Len(Parent(p)) = i
    BY Zenon DEF Shape, OnTheWay
  <2> QED BY <2>2, <2>3
<1>9. ASSUME NEW j \in DOMAIN s PROVE OnTheWay(u, j)
  <2>1. OnTheWay(s, j)
    BY Zenon DEF Shape
  <2>2. \A k \in 1 .. j : k \in DOMAIN s
    BY <1>1, TopOrBelow, Zenon
  <2>3. \A q \in u[j].rest : Len(q) = j + 1 /\ Parent(q) = u[j].dir
    <3>1. CASE j = i
      <4>1. \A q \in s[i].rest : Len(q) = i + 1 /\ Parent(q) = s[i].dir
        BY <2>1, <3>1, Zenon DEF OnTheWay
      <4> QED BY <1>7, <1>8, <3>1, <4>1, Zenon
    <3>2. CASE j # i
      BY <1>6, <2>1, <3>2, Zenon DEF OnTheWay
    <3> QED BY <3>1, <3>2
  <2> QED BY <1>4, <1>7, <2>1, <2>2, <2>3, Zenon DEF OnTheWay
<1>10. Shape(u)
  BY <1>4, <1>9, Zenon DEF Shape
<1> QED BY <1>3, <1>10, Zenon

LEMMA ChangeLists ==
  ASSUME JInv, Change
  PROVE  InShape' /\ Listing'
<1>1. jobs # << >> /\ jobs' = jobs /\ roots' = roots /\ calm' = FALSE
  BY DEF Change, call
<1>2. Shape(stack)
  BY <1>1, Zenon DEF JInv, InShape
<1>3. stack \in Seq(Frames)
  BY Parts, Zenon DEF JInv, Calls
<1>4. Shape(stack')
  <2>1. CASE UNCHANGED stack
    BY <1>2, <2>1
  <2>2. CASE \E p \in Paths : \E i \in DOMAIN stack :
               stack[i].dir = Parent(p) /\ stack' = [stack EXCEPT ![i].rest = @ \cup {p}]
    BY <1>2, <1>3, <2>2, AppearKeepsShape, Zenon
  <2>3. Appear => UNCHANGED stack \/ \E p \in Paths : \E i \in DOMAIN stack :
               stack[i].dir = Parent(p) /\ stack' = [stack EXCEPT ![i].rest = @ \cup {p}]
    BY Zenon DEF Appear
  <2>4. Vanish => UNCHANGED stack
    BY Zenon DEF Vanish
  <2> QED BY <2>1, <2>2, <2>3, <2>4, Zenon DEF Change
<1>5. InShape'
  BY <1>1, <1>4, StaysInShape
<1>6. Listing'
  BY <1>1, Zenon DEF Listing
<1> QED BY <1>5, <1>6

-----------------------------------------------------------------------------
(* A list in which no path is at the beginning of an earlier one names as many
   paths as it has entries. *)
LEMMA NothingTwice ==
  ASSUME NEW w \in Seq(Entry), InOrder(w)
  PROVE  Cardinality(Listed(w)) = Len(w)
<1> DEFINE n == Len(w)
           L == Listed(w)
           f == [k \in 1 .. n |-> w[k].path]
<1>1. n \in Nat /\ DOMAIN w = 1 .. n /\ \A i, j \in 1 .. n : i = j \/ i < j \/ j < i
  OBVIOUS
<1>2. \A k \in 1 .. n : w[k].path \in Seq(STRING)
  <2>1. \A k \in 1 .. n : w[k].path \in Paths
    <3> TAKE k \in 1 .. n
    <3>1. w[k] \in Entry
      OBVIOUS
    <3> QED BY <3>1 DEF Entry
  <2> QED BY <2>1, WalkAssumption
<1> HIDE DEF n
<1>3. \A i, j \in 1 .. n : i < j => w[i].path # w[j].path
  <2>1. \A j \in 1 .. n : IsPrefix(w[j].path, w[j].path)
    BY <1>2, PrefixItself, Zenon
  <2> QED BY <1>1, <2>1, Zenon DEF InOrder
<1>4. L = {w[k].path : k \in 1 .. n}
  BY <1>1, Zenon DEF Listed
<1> HIDE DEF L
<1>5. f \in Bijection(1 .. n, L)
  <2>1. f \in [1 .. n -> L]
    BY <1>4
  <2>2. IsInjective(f)
    <3>1. \A i, j \in 1 .. n : w[i].path = w[j].path => i = j
      BY <1>1, <1>3, Zenon
    <3>2. DOMAIN f = 1 .. n /\ \A i \in 1 .. n : f[i] = w[i].path
      OBVIOUS
    <3> HIDE DEF f
    <3> QED BY <3>1, <3>2, Zenon DEF IsInjective
  <2>3. \A q \in L : \E k \in 1 .. n : f[k] = q
    BY <1>4
  <2> HIDE DEF f
  <2>4. f \in Injection(1 .. n, L)
    BY <2>1, <2>2, Zenon DEF Injection
  <2>5. f \in Surjection(1 .. n, L)
    BY <2>1, <2>3, Zenon DEF Surjection
  <2> QED BY <2>4, <2>5, Zenon DEF Bijection
<1> HIDE DEF f
<1>6. ExistsBijection(1 .. n, L)
  BY <1>5, Zenon DEF ExistsBijection
<1>7. Cardinality(L) = n
  BY <1>1, <1>6, FS_CountingElements, Zenon
<1> QED BY <1>7, Zenon DEF n, L

LEMMA StutterLists ==
  ASSUME JInv, UNCHANGED vars
  PROVE  InShape' /\ Listing'
<1>1. /\ fs' = fs /\ jobs' = jobs /\ roots' = roots /\ stack' = stack /\ walked' = walked
      /\ calm' = calm /\ UNCHANGED <<walking, tmp, result>>
  BY DEF vars, call
<1>2. Found' = Found
  BY <1>1, SameFound
<1>3. jobs # << >> => Shape(stack)
  BY Zenon DEF JInv, InShape
<1>4. jobs # << >> /\ calm =>
        /\ Right(Listed(walked)) /\ InOrder(walked)
        /\ AheadOf(stack, Listed(walked))
        /\ Len(Found) < MaxEntries => Covered(stack, Listed(walked))
  BY Zenon DEF JInv, Listing
<1> QED BY <1>1, <1>2, <1>3, <1>4, StaysInShape, StaysListed, Zenon

LEMMA InitLists == Init => InShape /\ Listing
<1> SUFFICES ASSUME Init PROVE InShape /\ Listing
  OBVIOUS
<1>1. stack = << >> /\ walked = << >> /\ jobs = AllJobs /\ roots = AllJobs[1].roots
  BY Zenon DEF Init
<1>2. AllJobs # << >> /\ Head(AllJobs) = AllJobs[1]
  BY DEF AllJobs
<1>3. roots \in Seq(Starts)
  BY InitHolds, Parts, Zenon DEF Queues, Queued
<1> QED BY <1>1, <1>2, <1>3, FreshTree, Zenon

-----------------------------------------------------------------------------
(* The invariant holds in every behaviour of Walk. *)
THEOREM Invariance == Spec => []IInv
<1>1. IInv /\ [Next]_vars => IInv'
  <2> SUFFICES ASSUME IInv, [Next]_vars PROVE IInv'
    OBVIOUS
  <2>1. CASE StartRoot
    BY <2>1, StartRootKeeps
  <2>2. CASE PassOver
    BY <2>2, PassOverKeeps
  <2>3. CASE OpenDir
    BY <2>3, OpenDirKeeps
  <2>4. CASE Visit
    BY <2>4, VisitKeeps
  <2>5. CASE SkipName
    BY <2>5, SkipNameKeeps
  <2>6. CASE Return
    BY <2>6, ReturnKeeps
  <2>7. CASE Merge
    BY <2>7, MergeKeeps
  <2>8. CASE PrintResult
    BY <2>8, PrintResultKeeps
  <2>9. CASE Change
    BY <2>9, ChangeKeeps
  <2>10. CASE UNCHANGED vars
    <3>1. /\ UNCHANGED fs /\ UNCHANGED call /\ UNCHANGED <<stack, walking, jobs>>
          /\ UNCHANGED <<tmp, result, walked>> /\ UNCHANGED <<tmp, result, walked, walking>>
          /\ changes' = changes /\ calm' = calm
      BY <2>10 DEF vars, call
    <3> QED BY <3>1, Parts, PartsAfter, Unmoved, Zenon
  <2> QED
    BY <2>1, <2>2, <2>3, <2>4, <2>5, <2>6, <2>7, <2>8, <2>9, <2>10, Zenon DEF Next, Step
<1> QED BY <1>1, InitHolds, PTL DEF Spec

(* The walk keeps its state in order: the file system is a tree whatever
   comes and goes, the trees still to parse and the directories still to walk
   are the ends of their lists, calls of walk_recursive() are open only while
   parser_walk_dir() runs, and no list grows beyond PARSER_MAX_ENTRIES. *)
THEOREM TypeCorrect == Spec => []TypeOK
<1>1. IInv => TypeOK
  BY DEF IInv
<1> QED BY <1>1, Invariance, PTL

(* The summary of a tree adds up, for every file system, every change under
   the walk and every length of the list: the counters of a walk are those of
   the entries it lists, those of a merged tree are those of everything found
   in it, and what is listed is the first of it. *)
THEOREM SummariesAddUp == Spec => []SummaryAddsUp
<1>1. IInv => SummaryAddsUp
  <2> SUFFICES ASSUME IInv PROVE SummaryAddsUp
    OBVIOUS
  <2>1. UnderWay /\ Lists
    BY Parts
  <2>2. tmp.counts = Tally(tmp.entries)
    BY <2>1, Zenon DEF UnderWay
  <2>3. ASSUME ~walking
        PROVE  /\ IsPrefix(result.entries, walked)
               /\ Len(result.entries) < MaxEntries => result.entries = walked
               /\ result.counts = Tally(walked)
    <3>1. \A c \in Counts : Tally(walked)[c] = result.counts[c]
      BY <2>1, <2>3, Zenon DEF UnderWay
    <3>2. Tally(walked) = [c \in Counts |-> Tally(walked)[c]]
      BY Zenon DEF Tally
    <3>3. result.counts = [c \in Counts |-> result.counts[c]]
      BY <2>1, ListsTyped
    <3>4. result.counts = Tally(walked)
      BY <3>1, <3>2, <3>3, Zenon
    <3>5. Len(result.entries) < MaxEntries => result.entries = walked
      BY <2>1, <2>3, Zenon DEF UnderWay, Found
    <3> QED BY <2>1, <3>4, <3>5, Zenon DEF UnderWay
  <2> QED BY <2>2, <2>3, Zenon DEF SummaryAddsUp
<1> QED BY <1>1, Invariance, PTL

(* The open calls are where they should be, and what is not listed yet is still
   ahead of them. *)
THEOREM ListingInvariance == Spec => []JInv
<1>1. Init => JInv
  BY InitHolds, InitLists, Zenon DEF JInv
<1>2. JInv /\ IInv' /\ [Next]_vars => JInv'
  <2> SUFFICES ASSUME JInv, IInv', [Next]_vars PROVE JInv'
    OBVIOUS
  <2>1. InShape' /\ Listing'
    <3>1. CASE StartRoot
      BY <3>1, StartRootLists
    <3>2. CASE PassOver
      BY <3>2, PassOverLists
    <3>3. CASE OpenDir
      BY <3>3, OpenDirLists
    <3>4. CASE Visit
      BY <3>4, VisitLists
    <3>5. CASE SkipName
      BY <3>5, SkipNameLists
    <3>6. CASE Return
      BY <3>6, ReturnKeepsLists
    <3>7. CASE Merge
      BY <3>7, MergeLists
    <3>8. CASE PrintResult
      BY <3>8, PrintResultLists
    <3>9. CASE Change
      BY <3>9, ChangeLists
    <3>10. CASE UNCHANGED vars
      BY <3>10, StutterLists
    <3> QED
      BY <3>1, <3>2, <3>3, <3>4, <3>5, <3>6, <3>7, <3>8, <3>9, <3>10, Zenon DEF Next, Step
  <2> QED BY <2>1, Zenon DEF JInv
<1> QED BY <1>1, <1>2, Invariance, PTL DEF Spec

(* A tree that stands still is listed whole, whatever it looks like, however
   deep the walk goes and however long the list may grow: nothing twice,
   nothing that is not there, a directory before what is in it, and, unless the
   list is full, everything that can be reached (parser.rs walk_recursive). *)
THEOREM TreesAreListedWhole == Spec => []WalkIsComplete
<1>1. JInv => WalkIsComplete
  <2> SUFFICES ASSUME JInv, Parsed, calm PROVE WalkIsComplete
    BY Zenon DEF WalkIsComplete
  <2> DEFINE list == result.entries
             all == Head(jobs).roots
  <2>1. jobs # << >> /\ ~walking /\ roots = << >>
    BY Zenon DEF Parsed
  <2>2. IInv /\ Calls /\ Lists /\ UnderWay /\ Queues
    BY Parts DEF JInv
  <2>3. stack = << >>
    BY <2>1, <2>2, Zenon DEF Calls
  <2>4. list \in Seq(Entry) /\ walked \in Seq(Entry)
    BY <2>2, ListsTyped, Zenon
  <2>5. /\ IsPrefix(list, walked) /\ Found = list
        /\ Len(list) < MaxEntries => walked = list
    BY <2>1, <2>2, Zenon DEF UnderWay, Found
  <2> HIDE DEF list
  <2>6. \A i \in DOMAIN list : i \in DOMAIN walked /\ list[i] = walked[i]
    <3>1. Len(list) <= Len(walked) /\ \A i \in 1 .. Len(list) : list[i] = walked[i]
      BY <2>4, <2>5, PrefixMeans
    <3> QED BY <2>4, <3>1
  <2>7. /\ Right(Listed(walked)) /\ InOrder(walked)
        /\ Len(Found) < MaxEntries => Covered(stack, Listed(walked))
    BY <2>1, Zenon DEF JInv, Listing
  <2>8. {list[i].path : i \in DOMAIN list} \subseteq Reachable
    BY <2>6, <2>7, Zenon DEF Right, Listed
  <2>9. \A i, j \in DOMAIN list : i < j => ~IsPrefix(list[j].path, list[i].path)
    BY <2>6, <2>7, Zenon DEF InOrder
  <2>10. ASSUME Len(list) < MaxEntries PROVE Len(list) = Cardinality(Reachable)
    <3>1. \A p \in Reachable : p[1] \in Started
      <4>1. \A p \in Reachable : \E i \in DOMAIN all : p[1] = all[i]
        BY ReachableMeans, Zenon
      <4>2. Started = {all[i] : i \in 1 .. Len(all) - Len(roots)}
        BY Zenon DEF Started
      <4>3. all \in Seq(Starts)
        <5>1. Head(jobs) \in Jobs
          BY <2>1, <2>2 DEF Queues, Queued
        <5> QED BY <5>1, JobTyped, Zenon
      <4> HIDE DEF all
      <4>4. 1 .. Len(all) - Len(roots) = DOMAIN all
        BY <2>1, <4>3
      <4> QED BY <4>1, <4>2, <4>4, Zenon
    <3>2. DOMAIN stack = {}
      BY <2>3
    <3>3. Covered(stack, Listed(walked))
      BY <2>5, <2>7, <2>10, Zenon
    <3>4. Reachable = Listed(walked)
      BY <2>7, <3>1, <3>2, <3>3, Zenon DEF Covered, Right
    <3>5. Cardinality(Listed(walked)) = Len(walked)
      BY <2>4, <2>7, NothingTwice
    <3> QED BY <2>5, <2>10, <3>4, <3>5, Zenon
  <2> QED BY <2>8, <2>9, <2>10, Zenon DEF WalkIsComplete, list
<1> QED BY <1>1, ListingInvariance, PTL

===============================================================================
