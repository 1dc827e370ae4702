----------------------------- MODULE Netinspect ------------------------------
(***************************************************************************)
(* The network inspector of syssec (netinspect.rs), as                     *)
(* syssec_check_network_deep() runs it: sockstat is called twice and its   *)
(* lines parsed into the list of connections, from which the tables of     *)
(* addresses and ports, the alerts and the report are made.  Each list is  *)
(* bounded on its own.                                                     *)
(*                                                                         *)
(* A line is what its whitespace-separated fields say.  The state is the   *)
(* eighth of them.  FreeBSD's sockstat prints that column only when called *)
(* with -s, which netinspect_scan() does not do, so that what it reads     *)
(* there are lines of seven fields; the format documented with the parser  *)
(* has eight.  The model takes lines of either kind.  The snapshots, to    *)
(* which nothing is ever added, and what is printed are left out.          *)
(***************************************************************************)
EXTENDS Integers, FiniteSets, Sequences, Findings

CONSTANTS
  Outputs,        \* what the calls of sockstat may print: sequences of lines
  Nothing,        \* a call that fails or cannot be made
  MaxConnections, \* NET_MAX_CONNECTIONS (2048)
  MaxIps,         \* NET_MAX_UNIQUE_IPS (512)
  MaxPorts,       \* NET_MAX_PORTS (1024)
  MaxAlerts,      \* NET_MAX_ALERTS (256)
  ManyConns,      \* connections of an address that are too many (50)
  ReportLimit     \* alerts looked at by netinspect_report() (10)

(* An IPv4 address is known by its first two numbers, an IPv6 address by the
   prefix the code compares it with.  The empty address is treated as "*" is. *)
Star == <<"*">>
V4Any == <<"v4", 0, 0>>
V6Any == <<"v6", "::">>
LocalPrefixes == {"::1", "fe80:", "fc00:", "fd"}
Prefixes == LocalPrefixes \cup {"::", "2001:"}
Address ==
  {Star} \cup {<<"v4", a, b>> : a, b \in 0 .. 255} \cup {<<"v6", p>> : p \in Prefixes}

Protos == {"Tcp", "Udp", "Tcp6", "Udp6", "Unknown"}
(* Those the code tells apart; the others are Unknown here. *)
States == {"Listen", "Established", "Unknown"}
Kinds == {"None", "UnusualPort", "HighPort", "ExternalConn"}
Ports == 0 .. 65535
SafeProcesses == {"sshd", "httpd", "nginx", "apache", "sendmail", "postfix", "dovecot", "ntpd",
                  "chrome", "firefox"}

Line == [fields : 0 .. 8, proto : Protos, state : States, local : Address, localPort : Ports,
         remote : Address, process : STRING]

ASSUME NetinspectAssumption ==
  /\ Outputs \ {Nothing} \subseteq Seq(Line)
  /\ {MaxConnections, MaxIps, MaxPorts, MaxAlerts, ManyConns, ReportLimit} \subseteq Nat

VARIABLES
  calls,       \* what the calls of sockstat still to be read print
  lines,       \* the lines of the current call not yet parsed
  phase,       \* where syssec_check_network_deep() is
  at,          \* how many connections the current loop is through with
  connections, \* Snapshot::connections
  ips, ports,  \* the tables of addresses and ports
  totals,      \* the totals of Netinspect
  suspicious,  \* suspicious_count
  alerts,      \* the kinds of the alerts, with the connection they are about
  report       \* the results added

scan == <<calls, lines, connections>>
tables == <<ips, ports>>
verdict == <<suspicious, alerts, report>>
vars == <<scan, phase, at, tables, totals, verdict>>

-----------------------------------------------------------------------------
(* is_public_ip(): the link-local network of IPv4 is 169.254, but the code
   says 167.254. *)
IsPublic(addr) ==
  LET a == addr[2]
      b == addr[3]
  IN  IF addr[1] = "v6" THEN a \notin LocalPrefixes
      ELSE addr[1] = "v4" /\ ~ \/ a \in {0, 10, 127}
                               \/ a = 172 /\ b \in 16 .. 31
                               \/ a = 192 /\ b = 168
                               \/ a = 167 /\ b = 254
                               \/ a >= 224

IsWellKnown(p) == p > 0 /\ p < 1024

IsSuspicious(p) ==
  p \in {4444, 4445, 5555, 6666, 6667, 6668, 7777, 8888, 9999, 1337, 31337, 31338, 12345, 54321,
         11111, 22222, 33333}

IsWildcard(addr) == addr \in {Star, V4Any, V6Any}

(* parse_sockstat_line(): the state is the eighth field, if there is one. *)
Parsed(line) ==
  [proto |-> line.proto, state |-> IF line.fields < 8 THEN "Unknown" ELSE line.state,
   local |-> line.local, localPort |-> line.localPort, remote |-> line.remote,
   process |-> line.process, kind |-> "None"]

Count(P(_), n) == Cardinality({i \in 1 .. n : P(connections[i])})

-----------------------------------------------------------------------------
(* netinspect_scan() *)
ReadCall ==
  /\ phase = "scan" /\ lines = << >> /\ calls # << >>
  /\ lines' = IF Head(calls) = Nothing THEN << >> ELSE Head(calls)
  /\ calls' = Tail(calls)
  /\ UNCHANGED <<connections, phase, at, tables, totals, verdict>>

(* Mutant: the list is found full one connection too late. *)
ReadLineLate ==
  /\ phase = "scan" /\ lines # << >>
  /\ IF Len(connections) > MaxConnections
       THEN lines' = << >> /\ UNCHANGED connections
       ELSE /\ lines' = Tail(lines)
            /\ connections' = IF Head(lines).fields < 7 THEN connections
                              ELSE Append(connections, Parsed(Head(lines)))
  /\ UNCHANGED <<calls, phase, at, tables, totals, verdict>>

(* The rest of the lines is skipped when the list is full. *)
ReadLine ==
  /\ phase = "scan" /\ lines # << >>
  /\ IF Len(connections) >= MaxConnections
       THEN lines' = << >> /\ UNCHANGED connections
       ELSE /\ lines' = Tail(lines)
            /\ connections' = IF Head(lines).fields < 7 THEN connections
                              ELSE Append(connections, Parsed(Head(lines)))
  /\ UNCHANGED <<calls, phase, at, tables, totals, verdict>>

(* The loop over the connections at the end of netinspect_scan(). *)
CountStates ==
  /\ phase = "scan" /\ lines = << >> /\ calls = << >>
  /\ totals' = [totals EXCEPT
       !.connections = Len(connections),
       !.listeners = Count(LAMBDA c : c.state = "Listen", Len(connections)),
       !.established = Count(LAMBDA c : c.state = "Established", Len(connections))]
  /\ phase' = "ips"
  /\ UNCHANGED <<scan, at, tables, verdict>>

-----------------------------------------------------------------------------
(* The table with a row for an address, added if there is none but room for
   one. *)
WithIp(table, addr) ==
  IF (\E i \in DOMAIN table : table[i].addr = addr) \/ Len(table) >= MaxIps THEN table
  ELSE Append(table, [addr |-> addr, public |-> IsPublic(addr), conns |-> 0, listens |-> 0,
                      ports |-> {}, many |-> FALSE])

One(b) == IF b THEN 1 ELSE 0

(* The local and the remote address of a connection are counted, in the row
   there is or in none. *)
AddLocal(table, c) ==
  LET t == WithIp(table, c.local)
  IN  [i \in DOMAIN t |->
         IF t[i].addr # c.local THEN t[i]
         ELSE [t[i] EXCEPT !.conns = @ + 1, !.listens = @ + One(c.state = "Listen"),
                           !.ports = IF Cardinality(@) < MaxPorts THEN @ \cup {c.localPort}
                                                                  ELSE @]]

AddRemote(table, c) ==
  LET t == WithIp(table, c.remote)
  IN  [i \in DOMAIN t |->
         IF t[i].addr # c.remote THEN t[i] ELSE [t[i] EXCEPT !.conns = @ + 1]]

(* Mutant: the remote address is looked at only when the local one is new. *)
AddIpsOnce(table, c) ==
  LET withLocal == AddLocal(table, c)
  IN  IF IsWildcard(c.local) THEN table
      ELSE IF c.remote \in {Star, V4Any} \/ Len(withLocal) = Len(table) THEN withLocal
      ELSE AddRemote(withLocal, c)

(* One turn of the loop: the remote address of a connection whose local address
   is a wildcard is not looked at either. *)
AddIps(table, c) ==
  IF IsWildcard(c.local) THEN table
  ELSE IF c.remote \in {Star, V4Any} THEN AddLocal(table, c)
  ELSE AddRemote(AddLocal(table, c), c)

(* netinspect_aggregate_ips() *)
AggregateIp ==
  /\ phase = "ips" /\ at < Len(connections)
  /\ ips' = AddIps(ips, connections[at + 1])
  /\ at' = at + 1
  /\ UNCHANGED <<scan, phase, ports, totals, verdict>>

HowManyIps(public) == Cardinality({i \in DOMAIN ips : ips[i].public = public})

CountIps ==
  /\ phase = "ips" /\ at = Len(connections)
  /\ totals' = [totals EXCEPT !.public = HowManyIps(TRUE), !.local = HowManyIps(FALSE)]
  /\ phase' = "ports" /\ at' = 0
  /\ UNCHANGED <<scan, tables, verdict>>

-----------------------------------------------------------------------------
(* Mutant: rows are told apart by their ports only. *)
SamePortOnly(row, c) == row.port = c.localPort

SamePort(row, c) == row.port = c.localPort /\ row.proto = c.proto

(* One turn of the loop of netinspect_aggregate_ports().  A row belongs to the
   process that was there first. *)
AddPort(table, c) ==
  LET known == \E i \in DOMAIN table : SamePort(table[i], c)
      new == [port |-> c.localPort, proto |-> c.proto, listeners |-> 0, established |-> 0,
              process |-> c.process, wellKnown |-> IsWellKnown(c.localPort),
              suspicious |-> IsSuspicious(c.localPort)]
      all == IF known \/ Len(table) >= MaxPorts THEN table ELSE Append(table, new)
  IN  IF c.localPort = 0 THEN table
      ELSE [i \in DOMAIN all |->
              IF SamePort(all[i], c)
                THEN [all[i] EXCEPT !.listeners = @ + One(c.state = "Listen"),
                                    !.established = @ + One(c.state = "Established")]
                ELSE all[i]]

AggregatePort ==
  /\ phase = "ports" /\ at < Len(connections)
  /\ ports' = AddPort(ports, connections[at + 1])
  /\ at' = at + 1
  /\ UNCHANGED <<scan, phase, ips, totals, verdict>>

PortsDone ==
  /\ phase = "ports" /\ at = Len(connections)
  /\ phase' = "analyze" /\ at' = 0
  /\ UNCHANGED <<scan, tables, totals, verdict>>

-----------------------------------------------------------------------------
OnBackdoorPort(c) == c.state = "Listen" /\ IsSuspicious(c.localPort)

OnHighPort(c) ==
  c.state = "Listen" /\ IsWildcard(c.local) /\ c.localPort > 10000 /\ c.localPort < 49152

TalksOutside(c) ==
  c.state = "Established" /\ IsPublic(c.remote) /\ c.process \notin SafeProcesses

(* Mutant: the rules in another order. *)
SuspicionHighFirst(c) ==
  IF OnHighPort(c) THEN "HighPort"
  ELSE IF OnBackdoorPort(c) THEN "UnusualPort"
  ELSE IF TalksOutside(c) THEN "ExternalConn" ELSE "None"

(* analyze_connection(): the first rule that applies. *)
Suspicion(c) ==
  IF OnBackdoorPort(c) THEN "UnusualPort"
  ELSE IF OnHighPort(c) THEN "HighPort"
  ELSE IF TalksOutside(c) THEN "ExternalConn" ELSE "None"

(* Mutant: what gets no alert is not counted. *)
AnalyzeAlertsOnly ==
  LET kind == Suspicion(connections[at + 1])
      alert == kind # "None" /\ Len(alerts) < MaxAlerts
  IN  /\ phase = "analyze" /\ at < Len(connections)
      /\ connections' = [connections EXCEPT ![at + 1].kind = kind]
      /\ suspicious' = suspicious + One(alert)
      /\ alerts' = IF alert THEN Append(alerts, [kind |-> kind, about |-> at + 1]) ELSE alerts
      /\ at' = at + 1
      /\ UNCHANGED <<calls, lines, phase, tables, totals, report>>

(* netinspect_analyze() *)
Analyze ==
  LET kind == Suspicion(connections[at + 1])
      alert == kind # "None" /\ Len(alerts) < MaxAlerts
  IN  /\ phase = "analyze" /\ at < Len(connections)
      /\ connections' = [connections EXCEPT ![at + 1].kind = kind]
      /\ suspicious' = suspicious + One(kind # "None")
      /\ alerts' = IF alert THEN Append(alerts, [kind |-> kind, about |-> at + 1]) ELSE alerts
      /\ at' = at + 1
      /\ UNCHANGED <<calls, lines, phase, tables, totals, report>>

AnalyzeIps ==
  /\ phase = "analyze" /\ at = Len(connections)
  /\ ips' = [i \in DOMAIN ips |-> [ips[i] EXCEPT !.many = ips[i].conns > ManyConns]]
  /\ phase' = "report"
  /\ UNCHANGED <<scan, at, ports, totals, verdict>>

(* netinspect_report() *)
Report ==
  /\ phase = "report"
  /\ report' = NetinspectReport([i \in DOMAIN alerts |-> alerts[i].kind], ReportLimit)
  /\ phase' = "over"
  /\ UNCHANGED <<scan, at, tables, totals, suspicious, alerts>>

-----------------------------------------------------------------------------
Init ==
  /\ calls \in Outputs \X Outputs   \* sockstat -4, sockstat -6
  /\ lines = << >>
  /\ phase = "scan"
  /\ at = 0
  /\ connections = << >>
  /\ ips = << >> /\ ports = << >>
  /\ totals = [connections |-> 0, listeners |-> 0, established |-> 0, public |-> 0, local |-> 0]
  /\ suspicious = 0
  /\ alerts = << >>
  /\ report = << >>

Next ==
  \/ ReadCall \/ ReadLine \/ CountStates
  \/ AggregateIp \/ CountIps
  \/ AggregatePort \/ PortsDone
  \/ Analyze \/ AnalyzeIps
  \/ Report

Spec == Init /\ [][Next]_vars

-----------------------------------------------------------------------------
Connection == [proto : Protos, state : States, local : Address, localPort : Ports,
               remote : Address, process : STRING, kind : Kinds]
IpRow == [addr : Address, public : BOOLEAN, conns : Nat, listens : Nat, ports : SUBSET Ports,
          many : BOOLEAN]
PortRow == [port : Ports, proto : Protos, listeners : Nat, established : Nat, process : STRING,
            wellKnown : BOOLEAN, suspicious : BOOLEAN]
Alert == [kind : Kinds, about : Nat]

TypeOK ==
  /\ phase \in {"scan", "ips", "ports", "analyze", "report", "over"}
  /\ connections \in Seq(Connection) /\ Len(connections) <= MaxConnections
  /\ at \in 0 .. Len(connections)
  /\ ips \in Seq(IpRow) /\ Len(ips) <= MaxIps
  /\ ports \in Seq(PortRow) /\ Len(ports) <= MaxPorts
  /\ alerts \in Seq(Alert) /\ Len(alerts) <= MaxAlerts
  /\ \A i \in DOMAIN ips : Cardinality(ips[i].ports) <= MaxPorts
  /\ totals \in [connections : Nat, listeners : Nat, established : Nat, public : Nat, local : Nat]
  /\ report \in Seq(Result)

(* How many connections the loop of a phase is through with. *)
Order == [scan |-> 1, ips |-> 2, ports |-> 3, analyze |-> 4, report |-> 5, over |-> 6]
Through(p) ==
  IF Order[phase] < Order[p] THEN 0 ELSE IF phase = p THEN at ELSE Len(connections)

(***************************************************************************)
(* The tables are exact: an address, or a port with its protocol, has at   *)
(* most one row; what a row counts is what the connections say; and one    *)
(* has no row only if it came when the table was full.  The connections    *)
(* the address table is about are those with a local address of their own: *)
(* of one that is bound to all of them neither end is looked at            *)
(* (netinspect.rs netinspect_aggregate_ips, netinspect_aggregate_ports).   *)
(***************************************************************************)
PortsAreExact ==
  LET n == Through("ports")
      mine(row, c) == c.localPort = row.port /\ c.proto = row.proto
  IN  /\ \A i, j \in DOMAIN ports :
           ports[i].port = ports[j].port /\ ports[i].proto = ports[j].proto => i = j
      /\ \A i \in DOMAIN ports :
           LET row == ports[i]
           IN  /\ row.listeners = Count(LAMBDA c : mine(row, c) /\ c.state = "Listen", n)
               /\ row.established = Count(LAMBDA c : mine(row, c) /\ c.state = "Established", n)
      /\ Len(ports) < MaxPorts =>
           \A k \in 1 .. n : connections[k].localPort # 0 =>
             \E i \in DOMAIN ports : mine(ports[i], connections[k])

IpsAreExact ==
  LET seen == {k \in 1 .. Through("ips") : ~IsWildcard(connections[k].local)}
      from(addr) == {k \in seen : connections[k].local = addr}
      to(addr) == {k \in seen : connections[k].remote = addr}
      hasRow(addr) == \E i \in DOMAIN ips : ips[i].addr = addr
      rowIsExact(row) ==
        LET portsUsed == {connections[k].localPort : k \in from(row.addr)}
        IN  /\ row.public = IsPublic(row.addr)
            /\ row.conns = Cardinality(from(row.addr)) + Cardinality(to(row.addr))
            /\ row.listens = Cardinality({k \in from(row.addr) : connections[k].state = "Listen"})
            /\ row.ports \subseteq portsUsed
            /\ Cardinality(row.ports) < MaxPorts => row.ports = portsUsed
  IN  /\ \A i, j \in DOMAIN ips : ips[i].addr = ips[j].addr => i = j
      /\ \A i \in DOMAIN ips : rowIsExact(ips[i])
      /\ Len(ips) < MaxIps =>
           \A k \in seen : /\ hasRow(connections[k].local)
                           /\ connections[k].remote \notin {Star, V4Any} => hasRow(connections[k].remote)

TablesAreExact == PortsAreExact /\ IpsAreExact

(***************************************************************************)
(* An alert about a connection to the outside is matched by a row of the   *)
(* address table, which says that the address is public: the alerts and    *)
(* the summary do not contradict each other, as long as the table has room *)
(* and the connection has a local address of its own, as every connected   *)
(* socket has; an alert about one bound to all addresses would have no row *)
(* (netinspect.rs parse_sockstat_line, netinspect_aggregate_ips).          *)
(***************************************************************************)
OutsideIsListed ==
  Len(ips) < MaxIps =>
    \A i \in DOMAIN alerts :
      LET c == connections[alerts[i].about]
      IN  alerts[i].kind = "ExternalConn" /\ ~IsWildcard(c.local) =>
            \E k \in DOMAIN ips : ips[k].addr = c.remote /\ ips[k].public

(***************************************************************************)
(* The alerts are about the first suspicious connections, in their order,  *)
(* and the count goes on when there is no room for more alerts             *)
(* (netinspect.rs netinspect_analyze).                                     *)
(***************************************************************************)
AlertsAreTheFirst ==
  LET found == {k \in 1 .. Through("analyze") : connections[k].kind # "None"}
  IN  /\ suspicious = Cardinality(found)
      /\ Len(alerts) = (IF suspicious < MaxAlerts THEN suspicious ELSE MaxAlerts)
      /\ \A i \in DOMAIN alerts :
           /\ alerts[i].about \in found
           /\ Cardinality({k \in found : k <= alerts[i].about}) = i

(***************************************************************************)
(* The audit fails exactly if a connection is read with the state LISTEN   *)
(* on a known backdoor port, whatever else that listener is guilty of, and *)
(* fewer suspicious connections come before it than the report looks at.   *)
(* So it misses a backdoor that others hide, and every one whose line has  *)
(* no column for the state, as all lines of sockstat have none that is not *)
(* asked for it (netinspect.rs parse_sockstat_line, analyze_connection,    *)
(* netinspect_report).                                                     *)
(***************************************************************************)
Uncovered(k) ==
  LET before == {j \in 1 .. k - 1 : connections[j].kind # "None"}
  IN  Cardinality(before) < ReportLimit /\ Cardinality(before) < MaxAlerts

BackdoorFails ==
  phase = "over" =>
    ((\E i \in DOMAIN report : report[i].status = "Fail") <=>
       \E k \in DOMAIN connections : OnBackdoorPort(connections[k]) /\ Uncovered(k))

=============================================================================
