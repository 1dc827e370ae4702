---------------------------- MODULE MCProcessList ----------------------------
(* ProcessList for TLC: tables of one or two processes. *)
EXTENDS ProcessList

MCTables == UNION {[1 .. n -> Stats] : n \in 1 .. 2}
=============================================================================
