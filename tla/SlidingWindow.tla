--------------------------- MODULE SlidingWindow ---------------------------
(***************************************************************************)
(* The const-generic ring buffer behind nicwatch's rates                   *)
(* (nicwatch/src/aggregate.rs, SlidingWindow<T, CAP>): CAP slots, the      *)
(* index of the oldest entry and a length.  push() makes room when the     *)
(* ring is full, stores the entry and then evicts from the head what is    *)
(* older than the window, counted back from the entry just pushed.         *)
(*                                                                         *)
(* A stamp is the frame's capture time: it never exceeds the clock, and    *)
(* one capture thread feeding one FIFO channel delivers stamps in order.   *)
(***************************************************************************)
EXTENDS Integers, Sequences, Functions

CONSTANTS
  Cap,        \* number of slots (512 in the program)
  Window,     \* width of the rate window, in clock units
  Values,     \* the amounts that may be pushed
  None,       \* content of an empty slot
  MaxClock,   \* bound of the model: the clock stops here
  MaxDelay,   \* bound of the model: how long a frame may take from capture to push()
  MaxPushes   \* bound of the model: number of pushes explored

ASSUME WindowAssumption ==
  /\ Cap \in Nat \ {0}
  /\ Window \in Nat
  /\ Values \subseteq Nat
  /\ None \notin [at : Nat, v : Nat]
  /\ MaxClock \in Nat
  /\ MaxDelay \in Nat
  /\ MaxPushes \in Nat

VARIABLES
  buf,    \* the slots
  head,   \* slot of the oldest entry
  len,    \* number of entries
  clock,  \* the time
  log     \* history: every entry ever pushed, which the code does not keep

window == <<buf, head, len>>
vars == <<buf, head, len, clock, log>>

Slots == 0 .. Cap - 1
Entry == [at : Nat, v : Values]

TypeOK ==
  /\ buf \in [Slots -> Entry \cup {None}]
  /\ head \in Slots
  /\ len \in 0 .. Cap
  /\ clock \in 0 .. MaxClock
  /\ log \in Seq(Entry)

(* The slot that holds the i-th entry, oldest first, of a ring whose oldest
   entry is in slot h. *)
SlotOf(h, i) == (h + i) % Cap

-----------------------------------------------------------------------------
Init ==
  /\ buf = [i \in Slots |-> None]
  /\ head = 0
  /\ len = 0
  /\ clock = 0
  /\ log = << >>

Tick ==
  /\ clock < MaxClock
  /\ clock' = clock + 1
  /\ UNCHANGED <<buf, head, len, log>>

(* The loop of evict() on slots b, from head h with n entries, when the entry
   stamped `now` has just been pushed, stops after k rounds.  An unset cutoff
   (checked_sub below the epoch) and an empty slot stop it at once. *)
Evicts(b, h, n, now, k) ==
  LET Stale(i) == LET s == b[SlotOf(h, i)]
                  IN  now >= Window /\ s # None /\ s.at < now - Window
  IN  /\ \A i \in 0 .. k - 1 : Stale(i)
      /\ k < n => ~Stale(k)

(* Mutant: the head stays where it is, so the newest entry is overwritten. *)
MakeRoomKeepsHead(b, h, n) ==
  IF n = Cap THEN [b |-> [b EXCEPT ![h] = None], h |-> h, n |-> n - 1]
             ELSE [b |-> b, h |-> h, n |-> n]

(* push(v, at).  MakeRoom is the `len == CAP` branch. *)
MakeRoom(b, h, n) ==
  IF n = Cap THEN [b |-> [b EXCEPT ![h] = None], h |-> SlotOf(h, 1), n |-> n - 1]
             ELSE [b |-> b, h |-> h, n |-> n]

(* Mutants: push() without its trailing evict(); a full ring is not noticed. *)
PushNoEvict(v, at) ==
  LET r == MakeRoom(buf, head, len)
      e == [at |-> at, v |-> v]
  IN  /\ buf' = [r.b EXCEPT ![SlotOf(r.h, r.n)] = e]
      /\ head' = r.h
      /\ len' = r.n + 1
      /\ log' = Append(log, e)

PushWithoutRoom(v, at) ==
  LET e == [at |-> at, v |-> v]
  IN  /\ buf' = [buf EXCEPT ![SlotOf(head, len)] = e]
      /\ head' = head
      /\ len' = len + 1
      /\ log' = Append(log, e)

Push(v, at) ==
  LET r == MakeRoom(buf, head, len)
      e == [at |-> at, v |-> v]
      b == [r.b EXCEPT ![SlotOf(r.h, r.n)] = e]
      n == r.n + 1
  IN  \E k \in 0 .. n :
        /\ Evicts(b, r.h, n, at, k)
        /\ buf' = [s \in Slots |->
                     IF \E i \in 0 .. k - 1 : s = SlotOf(r.h, i) THEN None ELSE b[s]]
        /\ head' = SlotOf(r.h, k)
        /\ len' = n - k
        /\ log' = Append(log, e)

(* The stamp of the newest entry ever pushed. *)
LastStamp == IF log = << >> THEN 0 ELSE log[Len(log)].at

Next ==
  \/ Tick
  \/ \E v \in Values, at \in LastStamp .. clock :
       /\ Len(log) < MaxPushes /\ clock - at <= MaxDelay
       /\ Push(v, at) /\ UNCHANGED clock

Spec == Init /\ [][Next]_vars

-----------------------------------------------------------------------------
(* sum(): the total of the live slots, in whatever state eviction left them. *)
Sum == FoldFunctionOnSet(+, 0, [i \in 0 .. len - 1 |-> buf[SlotOf(head, i)].v], 0 .. len - 1)

(* The live entries, oldest first. *)
Items == [i \in 1 .. len |-> buf[SlotOf(head, i - 1)]]

(* Whether the i-th push is one the window should still hold: among the last
   Cap pushes, and not older than Window when the last push happened. *)
Retained(i) ==
  /\ i > Len(log) - Cap
  /\ log[i].at >= LastStamp - Window

(***************************************************************************)
(* The ring holds exactly the retained pushes, oldest first from head, and *)
(* every slot outside them is empty: whatever wrap-around, overwriting and *)
(* eviction of several entries at once did to head and len, no entry is    *)
(* lost, kept too long, reordered or left behind (aggregate.rs push,       *)
(* evict).                                                                 *)
(***************************************************************************)
HoldsRetained ==
  LET dropped == Len(log) - len
  IN  /\ dropped >= 0
      /\ \A i \in 1 .. Len(log) : Retained(i) <=> i > dropped
      /\ \A i \in 1 .. len : Items[i] = log[dropped + i]

EmptyOutside ==
  \A s \in Slots : buf[s] = None <=> \A i \in 0 .. len - 1 : s # SlotOf(head, i)

WindowExact == HoldsRetained /\ EmptyOutside

(***************************************************************************)
(* The claim of the command line, "Sliding window for rate calculation"    *)
(* (main.rs:20): what sum() adds up was captured within the last Window.   *)
(* It fails even if every frame is pushed the moment it is captured        *)
(* (MaxDelay = 0): the code evicts only in push(), so once traffic stops   *)
(* the last rate stays on the screen (aggregate.rs evict).                 *)
(***************************************************************************)
RateIsCurrent == \A i \in 1 .. len : Items[i].at >= clock - Window

-----------------------------------------------------------------------------
Abstract == INSTANCE RateWindow WITH items <- Items, Stamps <- 0 .. MaxClock

(* The ring implements the sequence it stands for (aggregate.rs push). *)
ImplementsRateWindow == Abstract!Spec

=============================================================================
