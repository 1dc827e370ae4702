----------------------------- MODULE LossyFeed ------------------------------
(***************************************************************************)
(* What nicwatch's capture pipeline promises of the frames it is given: an *)
(* item may be lost on the way, but what comes out comes out once and in   *)
(* the order it went in.  Pipeline implements this.                        *)
(*                                                                         *)
(* An item is known by the place it has in the order in which the items go *)
(* in.                                                                     *)
(***************************************************************************)
EXTENDS Naturals, Sequences

VARIABLES
  accepted,  \* how many items have gone in
  pending,   \* those that have neither come out nor been lost
  delivered  \* what has come out

Init == accepted = 0 /\ pending = {} /\ delivered = << >>

Accept ==
  /\ accepted' = accepted + 1
  /\ pending' = pending \cup {accepted + 1}
  /\ UNCHANGED delivered

Deliver ==
  /\ \E x \in pending :
       /\ \A y \in pending : x <= y
       /\ delivered' = Append(delivered, x)
       /\ pending' = pending \ {x}
  /\ UNCHANGED accepted

(* Any number of items may be lost in one step, wherever they are. *)
Lose ==
  /\ pending' \in SUBSET pending
  /\ UNCHANGED <<accepted, delivered>>

Next == Accept \/ Deliver \/ Lose

Spec == Init /\ [][Next]_<<accepted, pending, delivered>>
=============================================================================
