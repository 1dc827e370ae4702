----------------------------- MODULE ProcessList -----------------------------
(***************************************************************************)
(* How syssec counts processes (checks.rs syssec_check_processes): one     *)
(* sysctl call tells how much room the process table needs, a second one   *)
(* fills it, and processes start and end in between.  Module Scan goes on  *)
(* with the result.                                                        *)
(*                                                                         *)
(* A process is its state, ki_stat, a small number in the FreeBSD kernel.  *)
(***************************************************************************)
EXTENDS Integers, Sequences, SequencesExt

CONSTANTS
  Tables,     \* the process tables to start with
  Slack,      \* room the kernel asks for beyond the table
  MaxChanges, \* bound: changes to the table
  None

SRUN == 2
SSLEEP == 3
SZOMB == 5
Zeroed == 0
Stats == {SRUN, SSLEEP, SZOMB}

VARIABLES
  table,   \* the processes there are
  changes, \* how often that changed
  calls,   \* sysctl calls made
  buf,     \* the entries of the second call
  message  \* the numbers of the result, or that it failed

vars == <<table, changes, calls, buf, message>>

Init ==
  /\ table \in Tables /\ changes = 0
  /\ calls = 0 /\ buf = << >> /\ message = None

(* The sizing call, whose length becomes a buffer of zeroed entries. *)
Size ==
  /\ calls = 0
  /\ calls' = 1
  /\ \/ /\ \E more \in Slack : buf' = [i \in 1 .. Len(table) + more |-> Zeroed]
        /\ UNCHANGED message
     \/ message' = "Failed to read process list" /\ UNCHANGED buf
  /\ UNCHANGED <<table, changes>>

(* The filling call.  What it returns and the length it reports are not looked
   at: entries that do not fit are missing, the rest of the buffer stays zeroed,
   and so does all of it if the call fails. *)
Fill ==
  /\ calls = 1 /\ message = None
  /\ calls' = 2
  /\ \/ buf' = [i \in DOMAIN buf |-> IF i \in DOMAIN table THEN table[i] ELSE Zeroed]
     \/ UNCHANGED buf
  /\ UNCHANGED <<table, changes, message>>

(* The letters the states are compared with. *)
Letter == [Z |-> 90, R |-> 82, S |-> 83]
HowMany(letter) == Len(SelectSeq(buf, LAMBDA stat : stat = Letter[letter]))

Count ==
  /\ calls = 2 /\ message = None
  /\ message' = [total |-> Len(buf), running |-> HowMany("R"), sleeping |-> HowMany("S"),
                 zombie |-> HowMany("Z")]
  /\ UNCHANGED <<table, changes, calls, buf>>

StartOrEnd ==
  /\ changes < MaxChanges /\ calls < 2
  /\ \/ \E stat \in Stats : table' = Append(table, stat)
     \/ \E i \in DOMAIN table : table' = RemoveAt(table, i)
  /\ changes' = changes + 1
  /\ UNCHANGED <<calls, buf, message>>

Next == Size \/ Fill \/ Count \/ StartOrEnd

Spec == Init /\ [][Next]_vars

(***************************************************************************)
(* "312 total (2 running, 308 sleeping, 2 zombie)" (README): every process *)
(* that is counted is counted in one of the states, when all of them are   *)
(* in one of the three.                                                    *)
(***************************************************************************)
StatesAddUp ==
  calls = 2 /\ message # None =>
    message.total = message.running + message.sleeping + message.zombie

=============================================================================
