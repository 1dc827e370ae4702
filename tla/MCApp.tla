------------------------------- MODULE MCApp --------------------------------
(* App for TLC: a run of three snapshots whose tables grow past a page. *)
EXTENDS App

MCSnapshots ==
  << [flows |-> 0, hosts |-> 0, rate |-> 0],
     [flows |-> 2, hosts |-> 1, rate |-> 1],
     [flows |-> 4, hosts |-> 2, rate |-> 0] >>

(* One key of each kind; the keys they stand for have the same branch. *)
OneKeyOfAKind == {"q", " ", "?", "s", "Tab", "BackTab", "2", "j", "k", "PageDown", "PageUp", "x"}
=============================================================================
