----------------------------- MODULE RateWindow -----------------------------
(***************************************************************************)
(* What a rate window promises, without a ring: a sequence to which a push *)
(* appends and from which it then removes, at the front, what is beyond    *)
(* the last Cap entries or older than Window.  A specification of the      *)
(* behaviour of nicwatch/src/aggregate.rs SlidingWindow that SlidingWindow *)
(* implements.                                                             *)
(***************************************************************************)
EXTENDS Integers, Sequences

CONSTANTS Cap, Window, Values,
          Stamps  \* the capture times

VARIABLES items

Init == items = << >>

Push(v, at) ==
  LET all == Append(items, [at |-> at, v |-> v])
      Expendable(i) == i <= Len(all) - Cap \/ all[i].at < at - Window
  IN  \E k \in 0 .. Len(items) :
        /\ \A i \in 1 .. k : Expendable(i)
        /\ ~Expendable(k + 1)
        /\ items' = SubSeq(all, k + 1, Len(all))

NewestStamp == IF items = << >> THEN 0 ELSE items[Len(items)].at

Next == \E v \in Values, at \in Stamps : at >= NewestStamp /\ Push(v, at)

Spec == Init /\ [][Next]_items
=============================================================================
