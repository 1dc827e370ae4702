------------------------------ MODULE MCOpening ------------------------------
(* Opening for TLC: hosts with and without an interface to prefer. *)
EXTENDS Opening, SequencesExt

MCNames == <<"en0", "lo", "pflog0", "wl0">>
MCFamily ==
  [n \in ToSet(MCNames) |->
    CASE n = "en0" -> "wired" [] n = "lo" -> "lo" [] n = "pflog0" -> "pflog"
      [] n = "wl0" -> "wireless"]

Numbered(en0, lo, pflog0, wl0) ==
  [n \in ToSet(MCNames) |->
    CASE n = "en0" -> en0 [] n = "lo" -> lo [] n = "pflog0" -> pflog0 [] n = "wl0" -> wl0]

MCHosts ==
  {Numbered(0, 1, 0, 0), Numbered(2, 1, 0, 3), Numbered(3, 1, 2, 0), Numbered(0, 1, 3, 2),
   Numbered(0, 1, 2, 0), Numbered(0, 0, 0, 0)}

MCOneHost == {Numbered(2, 1, 0, 3)}

(* The loopback interface of FreeBSD has no hardware address; that of Linux
   has one, and there it is the interface that appears last that has none. *)
MCBare == [p \in Platforms |-> IF p = "freebsd" THEN {1} ELSE {4}]
=============================================================================
