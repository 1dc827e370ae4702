------------------------------- MODULE MCScan -------------------------------
(* Scan for TLC: a healthy system, systems that differ from it in one respect
   or a few, and all command lines of at most two arguments with some longer. *)
EXTENDS Scan

Account(name, uid) == [name |-> name, uid |-> uid]

Healthy ==
  [processes |-> 300, zombies |-> 0,
   accounts |-> <<Account("root", 0), Account("ann", 1001)>>,
   files |-> <<"expected", "expected", "expected", "expected">>,
   dirs |-> <<"sticky", "sticky", "absent">>,
   mounts |-> <<40>>, disks |-> 1, swap |-> <<0>>,
   dev |-> [writable |-> 0, essential |-> <<TRUE, TRUE>>],
   sysfs |-> None,
   daemons |-> <<TRUE>>, insecure |-> <<FALSE>>,
   securelevel |-> 1, aslr |-> 1, hiddenModules |-> 0,
   sshd |-> {}, suid |-> 0, logs |-> 1, update |-> TRUE, pkg |-> TRUE,
   binaries |-> <<"fine", "fine">>,
   ports |-> 3, firewall |-> TRUE, forwarding |-> 0, alerts |-> << >>]

MCSystems ==
  {Healthy,
   [Healthy EXCEPT !.processes = None, !.dev = None, !.sshd = None],
   [Healthy EXCEPT !.processes = 501, !.mounts = <<95, 80>>, !.swap = <<50, 90>>],
   [Healthy EXCEPT !.accounts = <<Account("root", 0), Account("toor", 0), Account("ann", 1001),
                                  Account("bob", 1001)>>],
   [Healthy EXCEPT !.files = <<"expected", "differs", "missing", "expected">>],
   [Healthy EXCEPT !.files = <<"writable", "writable", "expected", "missing">>,
                   !.dirs = <<"writable", "closed", "absent">>],
   [Healthy EXCEPT !.dev = [writable |-> 2, essential |-> <<TRUE, FALSE>>], !.sysfs = 2],
   [Healthy EXCEPT !.daemons = <<FALSE>>, !.insecure = <<TRUE>>, !.hiddenModules = 1],
   [Healthy EXCEPT !.securelevel = 0, !.aslr = 0, !.sshd = {"rootLogin", "password", "x11"}],
   [Healthy EXCEPT !.securelevel = None, !.aslr = None, !.suid = 3, !.logs = 0, !.update = FALSE],
   [Healthy EXCEPT !.binaries = <<"missing", "writable", "foreign", "notExecutable">>],
   [Healthy EXCEPT !.binaries = <<"fine", "notExecutable">>, !.firewall = FALSE],
   [Healthy EXCEPT !.ports = 21, !.forwarding = 1,
                   !.alerts = <<"UnusualPort", "ExternalConn", "UnusualPort">>]}

MCCommandLines ==
  UNION {[1 .. n -> Arguments] : n \in 0 .. 2}
    \cup {<<"-q", "-o", "a.html">>, <<"-n", "-o", "a.html">>, <<"-c", "-q", "-N">>}
=============================================================================
