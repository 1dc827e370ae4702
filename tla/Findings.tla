------------------------------ MODULE Findings ------------------------------
(***************************************************************************)
(* The graded results the checks of syssec add to its list, and the report *)
(* of the network inspector, through which modules Netinspect and Scan     *)
(* meet.                                                                   *)
(***************************************************************************)
EXTENDS Sequences, Integers, FiniteSets

Categories == {"System", "Processes", "Users", "Filesystem", "Disks", "Devices", "Sysfs", "TTY",
               "Services", "Security", "SSH", "SUID", "Logs", "Updates", "Integrity", "Network",
               "Network-Deep"}
Severities == {"Info", "Warning", "Critical"}
Statuses == {"Pass", "Warn", "Fail", "Unknown"}
Result == [category : Categories, severity : Severities, status : Statuses, advice : BOOLEAN]

Res(category, severity, status, advice) ==
  [category |-> category, severity |-> severity, status |-> status, advice |-> advice]
Passed(category) == Res(category, "Info", "Pass", FALSE)
Warned(category) == Res(category, "Warning", "Warn", TRUE)
Failed(category) == Res(category, "Critical", "Fail", TRUE)

Each(seq, Op(_)) == [i \in DOMAIN seq |-> Op(seq[i])]
Only(condition, result) == IF condition THEN <<result>> ELSE << >>

First(n, seq) == SubSeq(seq, 1, IF Len(seq) < n THEN Len(seq) ELSE n)

(* The members of a sequence that are of the given kinds, in their order: the
   n-th of them is the one up to which there are n. *)
OfKinds(kinds, seq) ==
  LET at == {i \in DOMAIN seq : seq[i] \in kinds}
      upTo(i) == Cardinality({j \in at : j <= i})
  IN  [n \in 1 .. Cardinality(at) |-> seq[CHOOSE i \in at : upTo(i) = n]]

(* netinspect_report() for alerts of the given kinds: two summaries, and of
   the alerts the first few are looked at for grave ones. *)
NetinspectReport(kinds, limit) ==
  LET cat == "Network-Deep"
      grave == OfKinds({"UnusualPort", "Blacklisted"}, First(limit, kinds))
  IN  <<Passed(cat), Passed(cat)>>
        \o (IF kinds = << >> THEN <<Passed(cat)>>
            ELSE <<Warned(cat)>> \o Each(grave, LAMBDA k : Failed(cat)))
=============================================================================
