-------------------------------- MODULE Scan --------------------------------
(***************************************************************************)
(* The audit of syssec (rust/src/main.rs, checks.rs, syssec.rs): the       *)
(* command line, the checks in the order of syssec_scan(), the results     *)
(* they add to the bounded list, the sections printed, the report file and *)
(* the exit code.                                                          *)
(*                                                                         *)
(* A check is a function of what it reads of the system, sys, which stands *)
(* still during a scan; wording, names and numbers that only go into texts *)
(* are left out.  The network inspector and the integrity table enter with *)
(* what they report: a sequence of alerts, a sequence of binaries.         *)
(***************************************************************************)
EXTENDS Integers, Sequences, Findings

CONSTANTS
  Systems,     \* the systems that may be scanned
  CommandLines, \* the sequences of arguments
  MaxResults,  \* MAX_RESULTS (1024)
  AlertLimit,  \* alerts looked at by netinspect_report() (10)
  None         \* Option::None, and a sysctl that cannot be read

Arguments == {"-v", "-q", "-o", "-c", "-n", "-N", "-h", "a.html", "--what"}

(* What the checks find out about a system: percentages of mounted and of swap
   devices, whether devices and daemons are there, options of sshd, the state
   of the binaries in the table. *)
Percent == 0 .. 100
Number == Nat \cup {None}
System ==
  [processes : Number, zombies : Nat,
   accounts : Seq([name : STRING, uid : Nat]),
   files : Seq({"missing", "writable", "differs", "expected"}),
   dirs : Seq({"absent", "sticky", "writable", "closed"}),
   mounts : Seq(Percent), disks : Nat, swap : Seq(Percent),
   dev : [writable : Nat, essential : Seq(BOOLEAN)] \cup {None},
   sysfs : Number,
   daemons : Seq(BOOLEAN), insecure : Seq(BOOLEAN),
   securelevel : Int \cup {None}, aslr : Int \cup {None}, hiddenModules : Nat,
   sshd : SUBSET {"rootLogin", "password", "x11"} \cup {None},
   suid : Number, logs : Nat, update : BOOLEAN, pkg : BOOLEAN,
   binaries : Seq({"fine", "missing", "writable", "foreign", "notExecutable"}),
   ports : Nat, firewall : BOOLEAN, forwarding : Int \cup {None},
   alerts : Seq({"UnusualPort", "HighPort", "ExternalConn", "Blacklisted"})]

ASSUME ScanAssumption ==
  /\ Systems \subseteq System
  /\ CommandLines \subseteq Seq(Arguments)
  /\ MaxResults \in Nat /\ AlertLimit \in Nat
  /\ None \notin Arguments

VARIABLES
  sys,      \* the system
  args,     \* the arguments not yet parsed
  options,  \* the flags and the output file
  phase,    \* where main() is
  todo,     \* the checks not yet started
  found,    \* the results the current check has still to add
  results,  \* Syssec::results
  counters, \* passed, warnings and failures
  printed,  \* the kinds of output on standard output
  saved,    \* the report file written
  exitCode

scanning == <<todo, found, results, counters>>
output == <<printed, saved, exitCode>>
vars == <<sys, args, options, phase, scanning, output>>

-----------------------------------------------------------------------------
Processes ==
  IF sys.processes = None \/ sys.zombies > 10 \/ sys.processes > 500
    THEN <<Warned("Processes")>>
    ELSE <<Passed("Processes")>>

Users ==
  LET them == sys.accounts
      again(i) == them[i].uid # 0 /\ \E j \in 1 .. i - 1 : them[j].uid = them[i].uid
      extraRoot(i) == them[i].uid = 0 /\ them[i].name # "root"
  IN  <<Passed("Users"),
        IF \E i \in DOMAIN them : extraRoot(i) THEN Failed("Users") ELSE Passed("Users")>>
        \o Only(\E i \in DOMAIN them : again(i), Warned("Users"))

(* /etc/passwd, master.passwd, group and sudoers; /tmp, /var/tmp and /usr/tmp. *)
CriticalFiles == {2, 4}

Filesystem ==
  LET failure(i) ==
        Res("Filesystem", IF i \in CriticalFiles THEN "Critical" ELSE "Warning", "Fail", TRUE)
      file(i) ==
        IF sys.files[i] \in {"missing", "writable"} THEN failure(i)
        ELSE IF sys.files[i] = "differs" THEN Warned("Filesystem") ELSE Passed("Filesystem")
      dir(d) == IF d = "writable" THEN Failed("Filesystem") ELSE Passed("Filesystem")
  IN  [i \in DOMAIN sys.files |-> file(i)]
        \o Each(OfKinds({"sticky", "writable", "closed"}, sys.dirs), dir)

Disks ==
  LET graded(percent, warnAt, failAt) ==
        IF percent >= failAt THEN Failed("Disks")
        ELSE IF percent >= warnAt THEN Warned("Disks") ELSE Passed("Disks")
  IN  Each(sys.mounts, LAMBDA p : graded(p, 80, 95))
        \o [i \in 1 .. sys.disks |-> Passed("Disks")]
        \o Each(sys.swap, LAMBDA p : graded(p, 50, 90))

Dev ==
  IF sys.dev = None THEN <<Res("Devices", "Warning", "Warn", FALSE)>>
  ELSE <<Passed("Devices"), IF sys.dev.writable > 0 THEN Warned("Devices") ELSE Passed("Devices")>>
         \o Each(sys.dev.essential, LAMBDA there : IF there THEN Passed("Devices")
                                                             ELSE Warned("Devices"))

Sysfs ==
  IF sys.sysfs = None THEN <<Passed("Sysfs")>> ELSE [i \in 1 .. sys.sysfs |-> Passed("Sysfs")]

Ttys == Only(sys.dev # None, Passed("TTY"))

Services ==
  Each(sys.daemons, LAMBDA runs : IF runs THEN Passed("Services") ELSE Warned("Services"))
    \o Each(sys.insecure, LAMBDA runs : IF runs THEN Failed("Services") ELSE Passed("Services"))

Security ==
  Only(sys.securelevel # None,
       IF sys.securelevel = 0 THEN Warned("Security") ELSE Passed("Security"))
    \o Only(sys.aslr # None, IF sys.aslr = 0 THEN Warned("Security") ELSE Passed("Security"))
    \o <<Passed("Security"),
         IF sys.hiddenModules > 0 THEN Failed("Security") ELSE Passed("Security")>>

(* Mutant: the second block is a copy of the first with only the status changed. *)
SshCopied ==
  IF sys.sshd = None THEN <<Res("SSH", "Info", "Unknown", TRUE)>>
  ELSE <<IF "rootLogin" \in sys.sshd THEN Failed("SSH") ELSE Passed("SSH"),
         IF "password" \in sys.sshd THEN Res("SSH", "Critical", "Warn", TRUE) ELSE Passed("SSH")>>
         \o Only("x11" \in sys.sshd, Warned("SSH"))

Ssh ==
  IF sys.sshd = None THEN <<Res("SSH", "Info", "Unknown", TRUE)>>
  ELSE <<IF "rootLogin" \in sys.sshd THEN Failed("SSH") ELSE Passed("SSH"),
         IF "password" \in sys.sshd THEN Warned("SSH") ELSE Passed("SSH")>>
         \o Only("x11" \in sys.sshd, Warned("SSH"))

Suid ==
  Only(sys.suid # None, IF sys.suid > 0 THEN Warned("SUID") ELSE Passed("SUID"))

Logs ==
  IF sys.logs = 0 THEN <<Warned("Logs")>> ELSE [i \in 1 .. sys.logs |-> Passed("Logs")]

(* The advice to fetch updates goes with a pass. *)
Updates ==
  LET installed == Res("Updates", "Info", "Pass", TRUE)
  IN  <<IF sys.update THEN installed ELSE Warned("Updates")>> \o Only(sys.pkg, installed)

(* parser_integrity_check_standard() and parser_integrity_report(); no binary
   has an expected hash. *)
Integrity ==
  LET is(states) == \E i \in DOMAIN sys.binaries : sys.binaries[i] \in states
      summary == IF is({"missing"}) THEN Failed("Integrity")
                 ELSE IF is({"writable", "foreign", "notExecutable"}) THEN Warned("Integrity")
                 ELSE Passed("Integrity")
      reported == OfKinds({"missing", "writable", "foreign"}, sys.binaries)
  IN  <<summary>> \o Each(reported, LAMBDA b : IF b = "foreign" THEN Warned("Integrity")
                                                                  ELSE Failed("Integrity"))

Network ==
  <<IF sys.ports > 20 THEN Warned("Network") ELSE Passed("Network"),
    IF sys.firewall THEN Passed("Network") ELSE Failed("Network")>>
    \o Only(sys.forwarding # None, IF sys.forwarding # 0 THEN Warned("Network")
                                                          ELSE Passed("Network"))

(* syssec_check_network_deep(): netinspect_scan() never fails. *)
NetworkDeep == NetinspectReport(sys.alerts, AlertLimit)

Checks ==
  [processes |-> Processes, users |-> Users, filesystem |-> Filesystem, disks |-> Disks,
   dev |-> Dev, sys |-> Sysfs, ttys |-> Ttys, services |-> Services, security |-> Security,
   ssh |-> Ssh, suid |-> Suid, logs |-> Logs, updates |-> Updates, deepParse |-> Integrity,
   network |-> Network, networkDeep |-> NetworkDeep]

-----------------------------------------------------------------------------
Init ==
  /\ sys \in Systems
  /\ args \in CommandLines
  /\ options = [verbose |-> FALSE, quiet |-> FALSE, critical |-> FALSE, only |-> FALSE,
                skip |-> FALSE, file |-> None]
  /\ phase = "arguments"
  /\ todo = << >> /\ found = << >> /\ results = << >>
  /\ counters = [passed |-> 0, warnings |-> 0, failures |-> 0]
  /\ printed = {}
  /\ saved = None
  /\ exitCode = None

Exit(code) == exitCode' = code /\ phase' = "over"

(* One turn of the loop over the arguments. *)
Flag == [verbose |-> "-v", quiet |-> "-q", critical |-> "-c", only |-> "-n", skip |-> "-N"]

ParseFlag ==
  /\ phase = "arguments" /\ args # << >>
  /\ \E f \in DOMAIN Flag : Head(args) = Flag[f] /\ options' = [options EXCEPT ![f] = TRUE]
  /\ args' = Tail(args)
  /\ UNCHANGED <<sys, phase, scanning, output>>

(* The file is whatever comes next; without a next argument -o is ignored. *)
ParseOutput ==
  /\ phase = "arguments" /\ args # << >> /\ Head(args) = "-o"
  /\ IF Tail(args) = << >>
       THEN args' = << >> /\ UNCHANGED options
       ELSE args' = Tail(Tail(args)) /\ options' = [options EXCEPT !.file = args[2]]
  /\ UNCHANGED <<sys, phase, scanning, output>>

ParseOther ==
  /\ phase = "arguments" /\ args # << >>
  /\ Head(args) \in {"-h", "a.html", "--what"}
  /\ printed' = {"usage"}
  /\ Exit(IF Head(args) = "-h" THEN 0 ELSE 1)
  /\ UNCHANGED <<sys, args, options, scanning, saved>>

(* syssec_scan() *)
LocalChecks ==
  <<"processes", "users", "filesystem", "disks", "dev", "sys", "ttys", "services", "security",
    "ssh", "suid", "logs", "updates", "deepParse">>

(* Mutant: the call at the head of the list is not commented out. *)
ScanOrderTwiceSys ==
  <<"sys">> \o LocalChecks \o (IF options.skip THEN << >> ELSE <<"network", "networkDeep">>)

ScanOrder == LocalChecks \o (IF options.skip THEN << >> ELSE <<"network", "networkDeep">>)

(* -n overrides -N. *)
Start ==
  /\ phase = "arguments" /\ args = << >>
  /\ printed' = IF options.quiet \/ options.critical THEN {} ELSE {"banner"}
  /\ todo' = IF options.only THEN <<"networkDeep">> ELSE ScanOrder
  /\ phase' = "scan"
  /\ UNCHANGED <<sys, args, options, found, results, counters, saved, exitCode>>

(* A check starts.  check_start() asks the log level, but G_LOG_LEVEL is a
   constant: every use is of a new atomic, at Info, whatever was stored. *)
LogLevel == "Info"

RunCheck ==
  /\ phase = "scan" /\ found = << >> /\ todo # << >>
  /\ found' = Checks[Head(todo)]
  /\ todo' = Tail(todo)
  /\ printed' = IF LogLevel = "Error" THEN printed ELSE printed \cup {"items"}
  /\ UNCHANGED <<sys, args, options, phase, results, counters, saved, exitCode>>

Counted(c, r) ==
  LET count(n, status) == IF r.status = status THEN n + 1 ELSE n
  IN  [passed |-> count(c.passed, "Pass"), warnings |-> count(c.warnings, "Warn"),
       failures |-> count(c.failures, "Fail")]

(* Mutants: the result is counted before the list is found full; the list is
   found full one result too late. *)
AddResultCountsFirst ==
  LET r == Head(found)
      full == Len(results) >= MaxResults
  IN  /\ phase = "scan" /\ found # << >>
      /\ found' = Tail(found)
      /\ results' = IF full THEN results ELSE Append(results, r)
      /\ counters' = Counted(counters, r)
      /\ UNCHANGED <<sys, args, options, phase, todo, output>>

AddResultTooMany ==
  LET r == Head(found)
      full == Len(results) > MaxResults
  IN  /\ phase = "scan" /\ found # << >>
      /\ found' = Tail(found)
      /\ results' = IF full THEN results ELSE Append(results, r)
      /\ counters' = IF full THEN counters ELSE Counted(counters, r)
      /\ UNCHANGED <<sys, args, options, phase, todo, output>>

(* add_result() *)
AddResult ==
  LET r == Head(found)
      full == Len(results) >= MaxResults
  IN  /\ phase = "scan" /\ found # << >>
      /\ found' = Tail(found)
      /\ results' = IF full THEN results ELSE Append(results, r)
      /\ counters' = IF full THEN counters ELSE Counted(counters, r)
      /\ UNCHANGED <<sys, args, options, phase, todo, output>>

Scanned == phase = "scan" /\ found = << >> /\ todo = << >>
Verdict == IF counters.failures > 0 THEN 1 ELSE 0

(* main() after the scan of the network alone. *)
EndNetworkOnly ==
  /\ Scanned /\ options.only
  /\ printed' = IF options.quiet THEN printed ELSE printed \cup {"summary"}
  /\ Exit(Verdict)
  /\ UNCHANGED <<sys, args, options, scanning, saved>>

Sections ==
  IF options.critical THEN {"critical"}
  ELSE IF options.verbose THEN {"summary", "results", "recommendations"}
  ELSE IF ~options.quiet THEN {"summary", "recommendations"}
  ELSE {}

Report ==
  /\ Scanned /\ ~options.only
  /\ printed' = printed \cup Sections
  /\ phase' = "save"
  /\ UNCHANGED <<sys, args, options, scanning, saved, exitCode>>

(* Mutant: a report that cannot be written is what the exit code tells. *)
SaveDecides ==
  /\ phase = "save"
  /\ saved' \in {None, options.file}
  /\ Exit(IF saved' = options.file THEN Verdict ELSE 0)
  /\ UNCHANGED <<sys, args, options, scanning, printed>>

(* save_report() may fail, which is logged and changes nothing. *)
Save ==
  /\ phase = "save"
  /\ saved' \in {None, options.file}
  /\ Exit(Verdict)
  /\ UNCHANGED <<sys, args, options, scanning, printed>>

Next ==
  \/ ParseFlag \/ ParseOutput \/ ParseOther
  \/ Start \/ RunCheck \/ AddResult
  \/ EndNetworkOnly \/ Report \/ Save

Spec == Init /\ [][Next]_vars

-----------------------------------------------------------------------------
TypeOK ==
  /\ sys \in Systems
  /\ args \in Seq(Arguments)
  /\ options \in [verbose : BOOLEAN, quiet : BOOLEAN, critical : BOOLEAN, only : BOOLEAN,
                  skip : BOOLEAN, file : Arguments \cup {None}]
  /\ phase \in {"arguments", "scan", "save", "over"}
  /\ found \in Seq(Result)
  /\ results \in Seq(Result) /\ Len(results) <= MaxResults
  /\ counters \in [passed : Nat, warnings : Nat, failures : Nat]
  /\ saved \in Arguments \cup {None}
  /\ exitCode \in {0, 1, None}

HowMany(status) == Cardinality({i \in DOMAIN results : results[i].status = status})

(***************************************************************************)
(* The three counters, which add_result() keeps beside the list, are those *)
(* of the results listed, at every moment and also when results no longer  *)
(* fit: the summary, the HTML report and the exit code tell the same story *)
(* (syssec.rs add_result, report.rs).                                      *)
(***************************************************************************)
CountersMatch ==
  counters = [passed |-> HowMany("Pass"), warnings |-> HowMany("Warn"),
              failures |-> HowMany("Fail")]

(* What the checks of this command line find out about the system, whether or
   not the list has room for it. *)
ChecksRun == IF options.only THEN <<"networkDeep">> ELSE ScanOrder
FailsIn(seq) == \E i \in DOMAIN seq : seq[i].status = "Fail"
SomeCheckFails == \E k \in DOMAIN ChecksRun : FailsIn(Checks[ChecksRun[k]])

Told == phase = "over" /\ printed # {"usage"}

(***************************************************************************)
(* The exit code tells whether a check that was run found a failure, of    *)
(* any severity, whatever was asked to be printed and whether or not the   *)
(* report could be written: 1 is never without such a failure, and 0 only  *)
(* if there is none or the list of results ran full (main.rs, syssec.rs    *)
(* add_result).  The documentation has it that 1 stands for a critical     *)
(* failure and 0 for none at all.                                          *)
(***************************************************************************)
ExitTellsFailures ==
  Told => /\ exitCode = 1 => SomeCheckFails
          /\ SomeCheckFails /\ Len(results) < MaxResults => exitCode = 1

(***************************************************************************)
(* Results of a category are neighbours, which is what makes the headings  *)
(* of print_results() and save_report() group by category: they start a    *)
(* new group whenever the category changes.                                *)
(***************************************************************************)
GroupedByCategory ==
  \A i, j, k \in DOMAIN results :
    i < j /\ j < k /\ results[i].category = results[k].category =>
      results[j].category = results[i].category

(***************************************************************************)
(* The two gradings of a result do not contradict each other, in any check *)
(* on any system: what is critical has failed, what passes is no more than *)
(* information, and whoever fails is told what to do about it.             *)
(***************************************************************************)
GradesAgree ==
  \A i \in DOMAIN results :
    LET r == results[i]
    IN  /\ r.severity = "Critical" => r.status = "Fail"
        /\ r.status \in {"Pass", "Unknown"} <=> r.severity = "Info"
        /\ r.status = "Fail" => r.advice

=============================================================================
