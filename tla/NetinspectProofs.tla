--------------------------- MODULE NetinspectProofs ---------------------------
(***************************************************************************)
(* Proofs about Netinspect, for whatever sockstat may print and every      *)
(* bound of the lists.                                                     *)
(*                                                                         *)
(* The tables are shown to be exact by lemmas about one turn of each loop, *)
(* which speak of a table, the connections and how many of them it counts. *)
(* The invariant puts them together with how far each loop has come and    *)
(* with what the analysis has written down about each connection.          *)
(***************************************************************************)
EXTENDS Netinspect, FiniteSetTheorems, SequenceTheorems, TLAPS

-----------------------------------------------------------------------------
(* A table of ports that counts the first n of the connections cs. *)
AtPort(cs, n, row, state) ==
  {k \in 1 .. n : (cs[k].localPort = row.port /\ cs[k].proto = row.proto) /\ cs[k].state = state}

PortsExact(t, cs, n) ==
  /\ \A i, j \in DOMAIN t : t[i].port = t[j].port /\ t[i].proto = t[j].proto => i = j
  /\ \A i \in DOMAIN t :
       /\ t[i].port # 0
       /\ t[i].listeners = Cardinality(AtPort(cs, n, t[i], "Listen"))
       /\ t[i].established = Cardinality(AtPort(cs, n, t[i], "Established"))
  /\ Len(t) < MaxPorts =>
       \A k \in 1 .. n : cs[k].localPort # 0 =>
         \E i \in DOMAIN t : cs[k].localPort = t[i].port /\ cs[k].proto = t[i].proto

(* A table of addresses that counts the local addresses of the connections in
   L and the remote ones of those in R. *)
Unlisted == {Star, V4Any}

LocalAt(cs, L, addr) == {k \in L : cs[k].local = addr}
RemoteAt(cs, R, addr) == {k \in R : cs[k].remote = addr}

IpsExact(t, cs, L, R) ==
  /\ \A i, j \in DOMAIN t : t[i].addr = t[j].addr => i = j
  /\ \A i \in DOMAIN t :
       /\ t[i].addr \notin Unlisted
       /\ t[i].public = IsPublic(t[i].addr)
       /\ t[i].conns = Cardinality(LocalAt(cs, L, t[i].addr))
                         + Cardinality(RemoteAt(cs, R, t[i].addr))
  /\ Len(t) < MaxIps =>
       /\ \A k \in L : \E i \in DOMAIN t : t[i].addr = cs[k].local
       /\ \A k \in R : cs[k].remote \notin Unlisted =>
            \E i \in DOMAIN t : t[i].addr = cs[k].remote

(* What a row says of the connections whose local address it is about. *)
ListensAt(cs, L, addr) == {k \in LocalAt(cs, L, addr) : cs[k].state = "Listen"}
PortsAt(cs, L, addr) == {cs[k].localPort : k \in LocalAt(cs, L, addr)}

LocalExact(t, cs, L) ==
  \A i \in DOMAIN t :
    /\ t[i].listens = Cardinality(ListensAt(cs, L, t[i].addr))
    /\ t[i].ports \subseteq PortsAt(cs, L, t[i].addr)
    /\ Cardinality(t[i].ports) < MaxPorts => t[i].ports = PortsAt(cs, L, t[i].addr)

(* The first n connections are counted, those of a local wildcard address left
   out. *)
Seen(cs, n) == {k \in 1 .. n : ~IsWildcard(cs[k].local)}
SeenExact(t, cs, n) == IpsExact(t, cs, Seen(cs, n), Seen(cs, n))

-----------------------------------------------------------------------------
(* The inductive invariant. *)
Reading ==
  /\ calls \in Seq(Outputs) /\ lines \in Seq(Line)
  /\ suspicious \in Nat

InTurn ==
  /\ phase = "scan" => at = 0
  /\ phase \in {"report", "over"} => at = Len(connections)

Judged ==
  /\ \A k \in 1 .. Through("analyze") : connections[k].kind = Suspicion(connections[k])
  /\ \A i \in DOMAIN alerts : alerts[i].kind = connections[alerts[i].about].kind

Told == phase = "over" => report = NetinspectReport([i \in DOMAIN alerts |-> alerts[i].kind], ReportLimit)

IInv ==
  /\ TypeOK /\ Reading /\ InTurn
  /\ PortsExact(ports, connections, Through("ports"))
  /\ SeenExact(ips, connections, Through("ips"))
  /\ LocalExact(ips, connections, Seen(connections, Through("ips")))
  /\ AlertsAreTheFirst /\ Judged
  /\ Told

-----------------------------------------------------------------------------
(* Counting positions. *)

LEMMA Positions ==
  ASSUME NEW n \in Nat, NEW A, A \subseteq 1 .. n
  PROVE  IsFiniteSet(A) /\ Cardinality(A) \in Nat
<1>1. IsFiniteSet(1 .. n)
  BY FS_Interval
<1>2. IsFiniteSet(A)
  BY <1>1, FS_Subset, Zenon
<1> QED BY <1>2, FS_CardinalityType, Zenon

LEMMA OneMore ==
  ASSUME NEW n \in Nat, NEW A, A \subseteq 1 .. n, NEW m, m \notin A,
         NEW B, \A k : k \in B <=> k \in A \/ k = m
  PROVE  Cardinality(B) = Cardinality(A) + 1
<1>1. IsFiniteSet(A) /\ Cardinality(A) \in Nat
  BY Positions
<1>2. B = A \cup {m}
  BY Zenon
<1>3. Cardinality(A \cup {m}) = Cardinality(A) + 1
  BY <1>1, FS_AddElement
<1> QED BY <1>2, <1>3

-----------------------------------------------------------------------------
(* The table of ports. *)

LEMMA AtPortPositions ==
  ASSUME NEW cs, NEW n \in Nat, NEW row, NEW state
  PROVE  AtPort(cs, n, row, state) \subseteq 1 .. n
BY DEF AtPort

(* What is counted is told by the ports, protocols and states alone. *)
LEMMA PortsSame ==
  ASSUME NEW t, NEW cs, NEW ds, NEW n \in Nat, PortsExact(t, cs, n),
         \A k \in 1 .. n : /\ ds[k].localPort = cs[k].localPort /\ ds[k].proto = cs[k].proto
                          /\ ds[k].state = cs[k].state
  PROVE  PortsExact(t, ds, n)
<1>1. \A row, state : AtPort(ds, n, row, state) = AtPort(cs, n, row, state)
  BY DEF AtPort
<1>2. \A i \in DOMAIN t :
        /\ t[i].port # 0
        /\ t[i].listeners = Cardinality(AtPort(ds, n, t[i], "Listen"))
        /\ t[i].established = Cardinality(AtPort(ds, n, t[i], "Established"))
  BY <1>1 DEF PortsExact
<1>3. Len(t) < MaxPorts =>
        \A k \in 1 .. n : ds[k].localPort # 0 =>
          \E i \in DOMAIN t : ds[k].localPort = t[i].port /\ ds[k].proto = t[i].proto
  BY DEF PortsExact
<1> QED BY <1>2, <1>3, Zenon DEF PortsExact

LEMMA AtPortMore ==
  ASSUME NEW cs, NEW n \in Nat, NEW row, NEW state
  PROVE  LET hit == cs[n + 1].localPort = row.port /\ cs[n + 1].proto = row.proto
                      /\ cs[n + 1].state = state
             old == Cardinality(AtPort(cs, n, row, state))
             now == Cardinality(AtPort(cs, n + 1, row, state))
         IN  old \in Nat /\ (hit => now = old + 1) /\ (~hit => now = old)
<1>1. \A k : k \in 1 .. n + 1 <=> k \in 1 .. n \/ k = n + 1
  OBVIOUS
<1>2. n + 1 \notin 1 .. n
  OBVIOUS
<1> DEFINE A == AtPort(cs, n, row, state)
           B == AtPort(cs, n + 1, row, state)
           hit == cs[n + 1].localPort = row.port /\ cs[n + 1].proto = row.proto
                    /\ cs[n + 1].state = state
<1>3. A \subseteq 1 .. n /\ n + 1 \notin A
  BY <1>2 DEF AtPort
<1>4. \A k : k \in B <=> k \in A \/ (k = n + 1 /\ hit)
  BY <1>1, Zenon DEF AtPort
<1> HIDE DEF A, B, hit
<1>5. Cardinality(A) \in Nat
  BY <1>3, Positions
<1>6. hit => Cardinality(B) = Cardinality(A) + 1
  <2> HAVE hit
  <2>1. \A k : k \in B <=> k \in A \/ k = n + 1
    BY <1>4, Zenon
  <2> QED BY <1>3, <2>1, OneMore
<1>7. ~hit => Cardinality(B) = Cardinality(A)
  <2> HAVE ~hit
  <2>1. B = A
    BY <1>4, Zenon
  <2> QED BY <2>1
<1> QED BY <1>5, <1>6, <1>7, Zenon DEF A, B, hit

(* A row for a port and a protocol that no connection has had yet. *)
LEMMA PortsRoom ==
  ASSUME NEW t \in Seq(PortRow), NEW cs, NEW n \in Nat, PortsExact(t, cs, n),
         Len(t) < MaxPorts, NEW row \in PortRow, row.port # 0,
         row.listeners = 0, row.established = 0,
         \A i \in DOMAIN t : ~(row.port = t[i].port /\ row.proto = t[i].proto)
  PROVE  PortsExact(Append(t, row), cs, n)
<1> DEFINE all == Append(t, row)
<1>1. /\ Len(all) = Len(t) + 1 /\ DOMAIN all = 1 .. Len(t) + 1 /\ DOMAIN t = 1 .. Len(t)
      /\ \A i \in DOMAIN t : i \in DOMAIN all /\ all[i] = t[i]
      /\ all[Len(t) + 1] = row /\ Len(t) \in Nat
  OBVIOUS
<1> HIDE DEF all
<1>2. \A k \in 1 .. n : ~(cs[k].localPort = row.port /\ cs[k].proto = row.proto)
  BY DEF PortsExact
<1>3. \A state : Cardinality(AtPort(cs, n, row, state)) = 0
  <2> TAKE state
  <2>1. AtPort(cs, n, row, state) = {}
    BY <1>2, Zenon DEF AtPort
  <2> QED BY <2>1, FS_EmptySet, Zenon
<1>4. \A i \in DOMAIN all : i \in DOMAIN t \/ i = Len(t) + 1
  BY <1>1
<1>5. \A i, j \in DOMAIN all : all[i].port = all[j].port /\ all[i].proto = all[j].proto => i = j
  BY <1>1, <1>4 DEF PortsExact
<1>6. \A i \in DOMAIN all :
        /\ all[i].port # 0
        /\ all[i].listeners = Cardinality(AtPort(cs, n, all[i], "Listen"))
        /\ all[i].established = Cardinality(AtPort(cs, n, all[i], "Established"))
  <2> TAKE i \in DOMAIN all
  <2>1. CASE i \in DOMAIN t
    <3>1. all[i] = t[i]
      BY <1>1, <2>1
    <3> QED BY <2>1, <3>1, Zenon DEF PortsExact
  <2>2. CASE i = Len(t) + 1
    <3>1. all[i] = row
      BY <1>1, <2>2
    <3> QED BY <1>3, <3>1, Zenon
  <2> QED BY <1>4, <2>1, <2>2
<1>7. Len(all) < MaxPorts =>
        \A k \in 1 .. n : cs[k].localPort # 0 =>
          \E i \in DOMAIN all : cs[k].localPort = all[i].port /\ cs[k].proto = all[i].proto
  <2>1. \A k \in 1 .. n : cs[k].localPort # 0 =>
          \E i \in DOMAIN t : cs[k].localPort = t[i].port /\ cs[k].proto = t[i].proto
    BY DEF PortsExact
  <2>2. \A i \in DOMAIN t : i \in DOMAIN all /\ all[i] = t[i]
    BY <1>1
  <2> QED BY <2>1, <2>2, Zenon
<1>8. PortsExact(all, cs, n)
  BY <1>5, <1>6, <1>7, Zenon DEF PortsExact
<1> QED BY <1>8 DEF all

LEMMA CountedRow ==
  ASSUME NEW row \in PortRow, NEW l \in Nat, NEW e \in Nat
  PROVE  LET now == [row EXCEPT !.listeners = @ + l, !.established = @ + e]
         IN  /\ now \in PortRow /\ now.port = row.port /\ now.proto = row.proto
             /\ now.listeners = row.listeners + l /\ now.established = row.established + e
<1>1. row.listeners + l \in Nat /\ row.established + e \in Nat
  BY DEF PortRow
<1> DEFINE a == row.listeners + l
           b == row.established + e
           now == [row EXCEPT !.listeners = a, !.established = b]
<1>2. a \in Nat /\ b \in Nat
  BY <1>1
<1> HIDE DEF a, b
<1>3. now \in PortRow /\ now.port = row.port /\ now.proto = row.proto
      /\ now.listeners = a /\ now.established = b
  BY <1>2 DEF PortRow
<1> QED BY <1>3, Zenon DEF a, b

(* One turn of the loop of netinspect_aggregate_ports(). *)
LEMMA PortsStep ==
  ASSUME NEW t \in Seq(PortRow), Len(t) <= MaxPorts, NEW cs, NEW n \in Nat,
         cs[n + 1] \in Connection, PortsExact(t, cs, n)
  PROVE  /\ AddPort(t, cs[n + 1]) \in Seq(PortRow)
         /\ Len(AddPort(t, cs[n + 1])) <= MaxPorts
         /\ PortsExact(AddPort(t, cs[n + 1]), cs, n + 1)
<1> DEFINE c == cs[n + 1]
           same(i, s) == SamePort(s[i], c)
           known == \E i \in DOMAIN t : same(i, t)
           new == [port |-> c.localPort, proto |-> c.proto, listeners |-> 0, established |-> 0,
                   process |-> c.process, wellKnown |-> IsWellKnown(c.localPort),
                   suspicious |-> IsSuspicious(c.localPort)]
           all == IF known \/ Len(t) >= MaxPorts THEN t ELSE Append(t, new)
           t2 == [i \in DOMAIN all |->
                    IF same(i, all)
                      THEN [all[i] EXCEPT !.listeners = @ + One(c.state = "Listen"),
                                          !.established = @ + One(c.state = "Established")]
                      ELSE all[i]]
<1>1. MaxPorts \in Nat
  BY NetinspectAssumption
<1>2. \A k : k \in 1 .. n + 1 <=> k \in 1 .. n \/ k = n + 1
  OBVIOUS
<1>3. CASE c.localPort = 0
  <2>1. AddPort(t, c) = t
    BY <1>3, Zenon DEF AddPort
  <2>2. \A i \in DOMAIN t :
          /\ t[i].port # 0
          /\ t[i].listeners = Cardinality(AtPort(cs, n + 1, t[i], "Listen"))
          /\ t[i].established = Cardinality(AtPort(cs, n + 1, t[i], "Established"))
    <3> TAKE i \in DOMAIN t
    <3>1. t[i].port # 0
      BY DEF PortsExact
    <3>2. ~(c.localPort = t[i].port /\ c.proto = t[i].proto)
      BY <1>3, <3>1
    <3>3. \A state : Cardinality(AtPort(cs, n + 1, t[i], state))
                     = Cardinality(AtPort(cs, n, t[i], state))
      BY <3>2, AtPortMore
    <3> QED BY <3>1, <3>3 DEF PortsExact
  <2>3. \A i, j \in DOMAIN t : t[i].port = t[j].port /\ t[i].proto = t[j].proto => i = j
    BY DEF PortsExact
  <2>4. Len(t) < MaxPorts =>
          \A k \in 1 .. n + 1 : cs[k].localPort # 0 =>
            \E i \in DOMAIN t : cs[k].localPort = t[i].port /\ cs[k].proto = t[i].proto
    BY <1>2, <1>3 DEF PortsExact
  <2>5. PortsExact(t, cs, n + 1)
    BY <2>2, <2>3, <2>4, Zenon DEF PortsExact
  <2> QED BY <2>1, <2>5
<1>4. CASE c.localPort # 0
  <2>1. AddPort(t, c) = t2
    BY <1>4, Zenon DEF AddPort
  <2>2. new \in PortRow /\ new.port = c.localPort /\ new.proto = c.proto
        /\ new.listeners = 0 /\ new.established = 0
    BY DEF PortRow, Connection, IsWellKnown, IsSuspicious
  <2> HIDE DEF new
  <2>3. /\ all \in Seq(PortRow) /\ Len(all) <= MaxPorts /\ PortsExact(all, cs, n)
        /\ Len(all) < MaxPorts => \E i \in DOMAIN all : same(i, all)
    <3>1. CASE known \/ Len(t) >= MaxPorts
      <4>1. all = t
        BY <3>1, Zenon
      <4>2. Len(t) < MaxPorts => \E i \in DOMAIN t : same(i, t)
        <5>1. Len(t) \in Nat
          OBVIOUS
        <5> QED BY <1>1, <3>1, <5>1
      <4> HIDE DEF all, same
      <4> QED BY <4>1, <4>2
    <3>2. CASE ~(known \/ Len(t) >= MaxPorts)
      <4>1. all = Append(t, new)
        BY <3>2, Zenon
      <4>2. Len(t) \in Nat /\ Len(t) < MaxPorts
        BY <1>1, <3>2
      <4>3. \A i \in DOMAIN t : ~(new.port = t[i].port /\ new.proto = t[i].proto)
        BY <2>2, <3>2 DEF SamePort
      <4>4. PortsExact(Append(t, new), cs, n)
        BY <1>4, <2>2, <4>2, <4>3, PortsRoom
      <4>5. /\ Append(t, new) \in Seq(PortRow) /\ Len(Append(t, new)) <= MaxPorts
            /\ Len(t) + 1 \in DOMAIN Append(t, new) /\ Append(t, new)[Len(t) + 1] = new
        BY <1>1, <2>2, <4>2
      <4>6. same(Len(t) + 1, Append(t, new))
        BY <2>2, <4>5 DEF SamePort
      <4> HIDE DEF all, same
      <4> QED BY <4>1, <4>4, <4>5, <4>6
    <3> QED BY <3>1, <3>2
  <2> HIDE DEF all
  <2>4. DOMAIN t2 = DOMAIN all /\ DOMAIN all = 1 .. Len(all) /\ Len(all) \in Nat
    BY <2>3
  <2>5. \A i \in DOMAIN all :
          /\ all[i] \in PortRow
          /\ t2[i] \in PortRow /\ t2[i].port = all[i].port /\ t2[i].proto = all[i].proto
          /\ t2[i].listeners = IF same(i, all) /\ c.state = "Listen" THEN all[i].listeners + 1
                               ELSE all[i].listeners
          /\ t2[i].established = IF same(i, all) /\ c.state = "Established"
                                   THEN all[i].established + 1 ELSE all[i].established
    <3> TAKE i \in DOMAIN all
    <3>1. all[i] \in PortRow
      BY <2>3
    <3>2. CASE same(i, all)
      <4>1. t2[i] = [all[i] EXCEPT !.listeners = @ + One(c.state = "Listen"),
                                   !.established = @ + One(c.state = "Established")]
        BY <3>2, Zenon
      <4> DEFINE l == One(c.state = "Listen")
                 e == One(c.state = "Established")
      <4>2. /\ l \in Nat /\ (c.state = "Listen" => l = 1) /\ (c.state # "Listen" => l = 0)
            /\ e \in Nat /\ (c.state = "Established" => e = 1) /\ (c.state # "Established" => e = 0)
        BY DEF One
      <4> HIDE DEF t2, same, l, e
      <4>3. t2[i] = [all[i] EXCEPT !.listeners = @ + l, !.established = @ + e]
        BY <4>1, Zenon DEF l, e
      <4>4. /\ t2[i] \in PortRow /\ t2[i].port = all[i].port /\ t2[i].proto = all[i].proto
            /\ t2[i].listeners = all[i].listeners + l
            /\ t2[i].established = all[i].established + e
        <5> DEFINE row == all[i]
                   now == [row EXCEPT !.listeners = @ + l, !.established = @ + e]
        <5>1. row \in PortRow /\ l \in Nat /\ e \in Nat
          BY <3>1, <4>2
        <5>2. t2[i] = now
          BY <4>3, Zenon
        <5> HIDE DEF row
        <5>3. /\ now \in PortRow /\ now.port = row.port /\ now.proto = row.proto
              /\ now.listeners = row.listeners + l /\ now.established = row.established + e
          BY <5>1, CountedRow
        <5> HIDE DEF now
        <5> QED BY <5>2, <5>3, Zenon DEF row
      <4>5. all[i].listeners \in Nat /\ all[i].established \in Nat
        BY <3>1 DEF PortRow
      <4> QED BY <3>1, <3>2, <4>2, <4>4, <4>5
    <3>3. CASE ~same(i, all)
      <4>1. t2[i] = all[i]
        BY <3>3, Zenon
      <4> HIDE DEF t2
      <4> QED BY <3>1, <3>3, <4>1
    <3> QED BY <3>2, <3>3
  <2> HIDE DEF t2
  <2>6. t2 \in Seq(PortRow) /\ Len(t2) = Len(all)
    <3>1. t2 \in [1 .. Len(all) -> PortRow]
      <4>1. t2 = [i \in DOMAIN t2 |-> t2[i]]
        BY Zenon DEF t2
      <4> QED BY <2>4, <2>5, <4>1
    <3> QED BY <2>4, <3>1
  <2>7. \A i, j \in DOMAIN t2 : t2[i].port = t2[j].port /\ t2[i].proto = t2[j].proto => i = j
    <3>1. \A i, j \in DOMAIN all : all[i].port = all[j].port /\ all[i].proto = all[j].proto => i = j
      BY <2>3, Zenon DEF PortsExact
    <3> QED BY <2>4, <2>5, <3>1
  <2>8. \A i \in DOMAIN t2 :
          /\ t2[i].port # 0
          /\ t2[i].listeners = Cardinality(AtPort(cs, n + 1, t2[i], "Listen"))
          /\ t2[i].established = Cardinality(AtPort(cs, n + 1, t2[i], "Established"))
    <3> TAKE i \in DOMAIN t2
    <3>1. i \in DOMAIN all
      BY <2>4
    <3>2. /\ all[i].port # 0
          /\ all[i].listeners = Cardinality(AtPort(cs, n, all[i], "Listen"))
          /\ all[i].established = Cardinality(AtPort(cs, n, all[i], "Established"))
      BY <2>3, <3>1, Zenon DEF PortsExact
    <3>3. \A state : AtPort(cs, n + 1, t2[i], state) = AtPort(cs, n + 1, all[i], state)
      BY <2>5, <3>1, Zenon DEF AtPort
    <3>4. same(i, all) <=> c.localPort = all[i].port /\ c.proto = all[i].proto
      BY Zenon DEF SamePort
    <3>5. \A state :
            LET old == Cardinality(AtPort(cs, n, all[i], state))
                now == Cardinality(AtPort(cs, n + 1, all[i], state))
            IN  /\ same(i, all) /\ c.state = state => now = old + 1
                /\ ~(same(i, all) /\ c.state = state) => now = old
      BY <3>4, AtPortMore
    <3> HIDE DEF same
    <3>6. t2[i].listeners = Cardinality(AtPort(cs, n + 1, all[i], "Listen"))
      BY <2>5, <3>1, <3>2, <3>5
    <3>7. t2[i].established = Cardinality(AtPort(cs, n + 1, all[i], "Established"))
      BY <2>5, <3>1, <3>2, <3>5
    <3> QED BY <2>5, <3>1, <3>2, <3>3, <3>6, <3>7
  <2>9. Len(t2) < MaxPorts =>
          \A k \in 1 .. n + 1 : cs[k].localPort # 0 =>
            \E i \in DOMAIN t2 : cs[k].localPort = t2[i].port /\ cs[k].proto = t2[i].proto
    <3> HAVE Len(t2) < MaxPorts
    <3>1. \A k \in 1 .. n : cs[k].localPort # 0 =>
            \E i \in DOMAIN all : cs[k].localPort = all[i].port /\ cs[k].proto = all[i].proto
      BY <2>3, <2>6 DEF PortsExact
    <3>2. \E i \in DOMAIN all : c.localPort = all[i].port /\ c.proto = all[i].proto
      BY <2>3, <2>6 DEF SamePort
    <3> QED BY <1>2, <2>4, <2>5, <3>1, <3>2
  <2>10. PortsExact(t2, cs, n + 1)
    BY <2>7, <2>8, <2>9, Zenon DEF PortsExact
  <2> QED BY <2>1, <2>3, <2>6, <2>10
<1> QED BY <1>3, <1>4

-----------------------------------------------------------------------------
(* The table of addresses. *)
Table(t) ==
  /\ t \in Seq(IpRow) /\ Len(t) <= MaxIps
  /\ \A i \in DOMAIN t : Cardinality(t[i].ports) <= MaxPorts

(* u is the table t after an address has been counted, in a row there was, in a
   new one, or in none for lack of room. *)
Bumped(t, a, u) ==
  /\ Table(u)
  /\ \A i \in DOMAIN t :
       /\ i \in DOMAIN u
       /\ u[i].addr = t[i].addr /\ u[i].public = t[i].public
       /\ u[i].conns = IF t[i].addr = a THEN t[i].conns + 1 ELSE t[i].conns
  /\ \A i \in DOMAIN u : i \notin DOMAIN t =>
       /\ Len(t) < MaxIps /\ \A j \in DOMAIN t : t[j].addr # a
       /\ i = Len(t) + 1
       /\ u[i].addr = a /\ u[i].public = IsPublic(a) /\ u[i].conns = 1
  /\ Len(u) < MaxIps => Len(t) < MaxIps /\ \E i \in DOMAIN u : u[i].addr = a

LEMMA PublicIsBoolean == \A a : IsPublic(a) \in BOOLEAN
BY DEF IsPublic

(* The row there is, or a new one if there is room. *)
LEMMA RoomForIp ==
  ASSUME NEW t, Table(t), NEW a \in Address
  PROVE  LET u == WithIp(t, a)
         IN  /\ Table(u)
             /\ \A i \in DOMAIN t : i \in DOMAIN u /\ u[i] = t[i]
             /\ \A i \in DOMAIN u : i \notin DOMAIN t =>
                  /\ Len(t) < MaxIps /\ \A j \in DOMAIN t : t[j].addr # a
                  /\ i = Len(t) + 1
                  /\ u[i].addr = a /\ u[i].public = IsPublic(a) /\ u[i].conns = 0
                  /\ u[i].listens = 0 /\ u[i].ports = {}
             /\ Len(u) < MaxIps => Len(t) < MaxIps /\ \E i \in DOMAIN u : u[i].addr = a
<1> DEFINE known == \E i \in DOMAIN t : t[i].addr = a
           public == IsPublic(a)
           row(many) == [addr |-> a, public |-> public, conns |-> 0, listens |-> 0,
                         ports |-> {}, many |-> many]
           new == row(FALSE)
<1>1. MaxIps \in Nat /\ MaxPorts \in Nat /\ Len(t) \in Nat /\ t \in Seq(IpRow) /\ Len(t) <= MaxIps
  BY NetinspectAssumption DEF Table
<1>2. WithIp(t, a) = IF known \/ Len(t) >= MaxIps THEN t ELSE Append(t, new)
  BY Zenon DEF WithIp
<1>3. CASE known \/ Len(t) >= MaxIps
  <2>1. WithIp(t, a) = t
    BY <1>2, <1>3, Zenon
  <2>2. Len(t) < MaxIps => known
    BY <1>1, <1>3
  <2> QED BY <2>1, <2>2, Zenon
<1>4. CASE ~(known \/ Len(t) >= MaxIps)
  <2>1. new \in IpRow /\ new.addr = a /\ new.public = IsPublic(a) /\ new.conns = 0
        /\ new.listens = 0 /\ new.ports = {}
    <3>1. public \in BOOLEAN
      BY PublicIsBoolean
    <3> HIDE DEF public
    <3>2. \A many \in BOOLEAN : row(many) \in IpRow
      BY <3>1 DEF IpRow
    <3>3. /\ new \in IpRow /\ new.addr = a /\ new.public = public /\ new.conns = 0
          /\ new.listens = 0 /\ new.ports = {}
      BY <3>2
    <3> QED BY <3>3, Zenon DEF public
  <2> HIDE DEF new
  <2>2. Cardinality(new.ports) = 0
    BY <2>1, FS_EmptySet, Zenon
  <2> DEFINE u == Append(t, new)
  <2>3. WithIp(t, a) = u
    BY <1>2, <1>4, Zenon
  <2>4. /\ u \in Seq(IpRow) /\ Len(u) = Len(t) + 1
        /\ DOMAIN u = 1 .. Len(t) + 1 /\ DOMAIN t = 1 .. Len(t)
        /\ \A i \in DOMAIN t : i \in DOMAIN u /\ u[i] = t[i]
        /\ u[Len(t) + 1] = new
    BY <1>1, <2>1
  <2>5. ~known /\ Len(t) < MaxIps
    BY <1>1, <1>4
  <2> HIDE DEF u, known
  <2>6. \A i \in DOMAIN u : i \in DOMAIN t \/ i = Len(t) + 1
    BY <1>1, <2>4
  <2>7. Table(u)
    <3>1. \A i \in DOMAIN u : Cardinality(u[i].ports) <= MaxPorts
      <4> TAKE i \in DOMAIN u
      <4>1. CASE i \in DOMAIN t
        BY <2>4, <4>1 DEF Table
      <4>2. CASE i = Len(t) + 1
        BY <1>1, <2>2, <2>4, <4>2
      <4> QED BY <2>6, <4>1, <4>2
    <3>2. Len(u) <= MaxIps
      BY <1>1, <2>4, <2>5
    <3> QED BY <2>4, <3>1, <3>2 DEF Table
  <2>8. \A i \in DOMAIN u : i \notin DOMAIN t =>
          /\ Len(t) < MaxIps /\ \A j \in DOMAIN t : t[j].addr # a
          /\ i = Len(t) + 1
          /\ u[i].addr = a /\ u[i].public = IsPublic(a) /\ u[i].conns = 0
          /\ u[i].listens = 0 /\ u[i].ports = {}
    BY <2>1, <2>4, <2>5, <2>6, Zenon DEF known
  <2>9. Len(t) + 1 \in DOMAIN u /\ u[Len(t) + 1].addr = a
    BY <1>1, <2>1, <2>4
  <2> QED BY <2>3, <2>4, <2>5, <2>7, <2>8, <2>9, Zenon
<1> QED BY <1>3, <1>4

LEMMA RowsBumped ==
  ASSUME NEW t, Table(t), NEW a \in Address, NEW f,
         LET u == WithIp(t, a)
         IN  /\ DOMAIN f = DOMAIN u /\ f = [i \in DOMAIN f |-> f[i]]
             /\ \A i \in DOMAIN u :
                  /\ f[i] \in IpRow /\ Cardinality(f[i].ports) <= MaxPorts
                  /\ f[i].addr = u[i].addr /\ f[i].public = u[i].public
                  /\ f[i].conns = IF u[i].addr = a THEN u[i].conns + 1 ELSE u[i].conns
  PROVE  Bumped(t, a, f)
<1> DEFINE u == WithIp(t, a)
<1>1. /\ Table(u)
      /\ \A i \in DOMAIN t : i \in DOMAIN u /\ u[i] = t[i]
      /\ \A i \in DOMAIN u : i \notin DOMAIN t =>
           /\ Len(t) < MaxIps /\ \A j \in DOMAIN t : t[j].addr # a
           /\ i = Len(t) + 1
           /\ u[i].addr = a /\ u[i].public = IsPublic(a) /\ u[i].conns = 0
      /\ Len(u) < MaxIps => Len(t) < MaxIps /\ \E i \in DOMAIN u : u[i].addr = a
  BY RoomForIp
<1>2. /\ DOMAIN f = DOMAIN u /\ f = [i \in DOMAIN f |-> f[i]]
      /\ \A i \in DOMAIN u :
           /\ f[i] \in IpRow /\ Cardinality(f[i].ports) <= MaxPorts
           /\ f[i].addr = u[i].addr /\ f[i].public = u[i].public
           /\ f[i].conns = IF u[i].addr = a THEN u[i].conns + 1 ELSE u[i].conns
  BY Zenon
<1> HIDE DEF u
<1>3. DOMAIN u = 1 .. Len(u) /\ Len(u) \in Nat /\ Len(u) <= MaxIps
  BY <1>1 DEF Table
<1>4. f \in [1 .. Len(u) -> IpRow]
  BY <1>2, <1>3
<1>5. f \in Seq(IpRow) /\ Len(f) = Len(u)
  BY <1>3, <1>4
<1>6. Table(f)
  BY <1>2, <1>3, <1>5 DEF Table
<1>7. \A i \in DOMAIN t :
        /\ i \in DOMAIN f
        /\ f[i].addr = t[i].addr /\ f[i].public = t[i].public
        /\ f[i].conns = IF t[i].addr = a THEN t[i].conns + 1 ELSE t[i].conns
  <2> TAKE i \in DOMAIN t
  <2>1. i \in DOMAIN u /\ u[i] = t[i]
    BY <1>1, Zenon
  <2> QED BY <1>2, <2>1, Zenon
<1>8. \A i \in DOMAIN f : i \notin DOMAIN t =>
        /\ Len(t) < MaxIps /\ \A j \in DOMAIN t : t[j].addr # a
        /\ i = Len(t) + 1
        /\ f[i].addr = a /\ f[i].public = IsPublic(a) /\ f[i].conns = 1
  <2> SUFFICES ASSUME NEW i \in DOMAIN u, i \notin DOMAIN t
               PROVE  /\ Len(t) < MaxIps /\ \A j \in DOMAIN t : t[j].addr # a
                      /\ i = Len(t) + 1
                      /\ f[i].addr = a /\ f[i].public = IsPublic(a) /\ f[i].conns = 1
    BY <1>2, Zenon
  <2>1. u[i].addr = a /\ u[i].conns = 0
    BY <1>1, Zenon
  <2>2. f[i].conns = 1
    BY <1>2, <2>1
  <2> QED BY <1>1, <1>2, <2>2, Zenon
<1>9. Len(f) < MaxIps => Len(t) < MaxIps /\ \E i \in DOMAIN f : f[i].addr = a
  BY <1>1, <1>2, <1>5, Zenon
<1> QED BY <1>6, <1>7, <1>8, <1>9, Zenon DEF Bumped

LEMMA PortsAreFinite ==
  ASSUME NEW some, some \subseteq Ports
  PROVE  IsFiniteSet(some) /\ Cardinality(some) \in Nat
<1>1. \A b \in Int : IsFiniteSet(0 .. b)
  BY FS_Interval
<1>2. IsFiniteSet(Ports)
  <2> DEFINE top == 65535
  <2>1. top \in Int /\ Ports = 0 .. top
    BY DEF Ports
  <2> HIDE DEF top
  <2> QED BY <1>1, <2>1, Zenon
<1>3. IsFiniteSet(some)
  BY <1>2, FS_Subset, Zenon
<1> QED BY <1>3, FS_CardinalityType, Zenon

LEMMA AddLocalBumps ==
  ASSUME NEW t, Table(t), NEW c \in Connection
  PROVE  Bumped(t, c.local, AddLocal(t, c))
<1> DEFINE a == c.local
           u == WithIp(t, a)
           more(ps) == IF Cardinality(ps) < MaxPorts THEN ps \cup {c.localPort} ELSE ps
           f == [i \in DOMAIN u |->
                   IF u[i].addr # a THEN u[i]
                   ELSE [u[i] EXCEPT !.conns = @ + 1, !.listens = @ + One(c.state = "Listen"),
                                     !.ports = more(@)]]
<1>1. AddLocal(t, c) = f
  BY Zenon DEF AddLocal
<1>2. a \in Address /\ c.localPort \in Ports /\ MaxPorts \in Nat
  BY NetinspectAssumption DEF Connection
<1>3. Table(u)
  BY <1>2, RoomForIp
<1>4. \A ps \in SUBSET Ports : Cardinality(ps) <= MaxPorts =>
        more(ps) \in SUBSET Ports /\ Cardinality(more(ps)) <= MaxPorts
  <2> TAKE ps \in SUBSET Ports
  <2> HAVE Cardinality(ps) <= MaxPorts
  <2>1. IsFiniteSet(ps) /\ Cardinality(ps) \in Nat
    BY PortsAreFinite
  <2>2. CASE Cardinality(ps) < MaxPorts
    <3>1. more(ps) = ps \cup {c.localPort}
      BY <2>2, Zenon
    <3>2. Cardinality(ps \cup {c.localPort}) = Cardinality(ps) \/
            Cardinality(ps \cup {c.localPort}) = Cardinality(ps) + 1
      BY <2>1, FS_AddElement
    <3> HIDE DEF more
    <3> QED BY <1>2, <2>1, <2>2, <3>1, <3>2
  <2>3. CASE ~(Cardinality(ps) < MaxPorts)
    <3>1. more(ps) = ps
      BY <2>3, Zenon
    <3> HIDE DEF more
    <3> QED BY <3>1
  <2> QED BY <2>2, <2>3
<1> HIDE DEF u, more
<1>5. DOMAIN f = DOMAIN u /\ f = [i \in DOMAIN f |-> f[i]]
  BY Zenon
<1>6. \A i \in DOMAIN u :
        /\ f[i] \in IpRow /\ Cardinality(f[i].ports) <= MaxPorts
        /\ f[i].addr = u[i].addr /\ f[i].public = u[i].public
        /\ f[i].conns = IF u[i].addr = a THEN u[i].conns + 1 ELSE u[i].conns
  <2> TAKE i \in DOMAIN u
  <2> DEFINE row == u[i]
             l == One(c.state = "Listen")
             ps == more(row.ports)
             now == [row EXCEPT !.conns = @ + 1, !.listens = @ + l, !.ports = ps]
  <2>1. row \in IpRow /\ Cardinality(row.ports) <= MaxPorts
    BY <1>3 DEF Table
  <2>2. l \in Nat
    BY DEF One
  <2>3. ps \in SUBSET Ports /\ Cardinality(ps) <= MaxPorts
    <3>1. row.ports \in SUBSET Ports
      BY <2>1 DEF IpRow
    <3> HIDE DEF row
    <3> QED BY <1>4, <2>1, <3>1
  <2>4. CASE row.addr # a
    <3>1. f[i] = row
      BY <2>4, Zenon
    <3> HIDE DEF f
    <3> QED BY <2>1, <2>4, <3>1
  <2>5. CASE row.addr = a
    <3>1. f[i] = now
      BY <2>5, Zenon
    <3> HIDE DEF row, l, ps
    <3>2. /\ now \in IpRow /\ now.ports = ps
          /\ now.addr = row.addr /\ now.public = row.public /\ now.conns = row.conns + 1
      <4> DEFINE conns == row.conns + 1
                 listens == row.listens + l
                 other == [row EXCEPT !.conns = conns, !.listens = listens, !.ports = ps]
      <4>1. conns \in Nat /\ listens \in Nat
        BY <2>1, <2>2 DEF IpRow
      <4>2. now = other
        BY Zenon
      <4> HIDE DEF conns, listens, now
      <4>3. /\ other \in IpRow /\ other.ports = ps /\ other.conns = conns
            /\ other.addr = row.addr /\ other.public = row.public
        BY <2>1, <2>3, <4>1 DEF IpRow
      <4> HIDE DEF other
      <4> QED BY <4>2, <4>3, Zenon DEF conns
    <3> HIDE DEF f, now
    <3>3. /\ f[i] \in IpRow /\ Cardinality(f[i].ports) <= MaxPorts
          /\ f[i].addr = row.addr /\ f[i].public = row.public /\ f[i].conns = row.conns + 1
      BY <2>3, <3>1, <3>2
    <3> QED BY <2>5, <3>3 DEF row
  <2> QED BY <2>4, <2>5
<1> HIDE DEF f
<1>7. Bumped(t, a, f)
  BY <1>2, <1>5, <1>6, RowsBumped DEF u
<1> QED BY <1>1, <1>7

LEMMA AddRemoteBumps ==
  ASSUME NEW t, Table(t), NEW c \in Connection
  PROVE  Bumped(t, c.remote, AddRemote(t, c))
<1> DEFINE a == c.remote
           u == WithIp(t, a)
           f == [i \in DOMAIN u |->
                   IF u[i].addr # a THEN u[i] ELSE [u[i] EXCEPT !.conns = @ + 1]]
<1>1. AddRemote(t, c) = f
  BY Zenon DEF AddRemote
<1>2. a \in Address
  BY DEF Connection
<1>3. Table(u)
  BY <1>2, RoomForIp
<1> HIDE DEF u
<1>4. DOMAIN f = DOMAIN u /\ f = [i \in DOMAIN f |-> f[i]]
  BY Zenon
<1>5. \A i \in DOMAIN u :
        /\ f[i] \in IpRow /\ Cardinality(f[i].ports) <= MaxPorts
        /\ f[i].addr = u[i].addr /\ f[i].public = u[i].public
        /\ f[i].conns = IF u[i].addr = a THEN u[i].conns + 1 ELSE u[i].conns
  <2> TAKE i \in DOMAIN u
  <2> DEFINE row == u[i]
             now == [row EXCEPT !.conns = @ + 1]
  <2>1. row \in IpRow /\ Cardinality(row.ports) <= MaxPorts
    BY <1>3 DEF Table
  <2>2. CASE row.addr # a
    <3>1. f[i] = row
      BY <2>2, Zenon
    <3> HIDE DEF f
    <3> QED BY <2>1, <2>2, <3>1
  <2>3. CASE row.addr = a
    <3>1. f[i] = now
      BY <2>3, Zenon
    <3> HIDE DEF row
    <3>2. /\ now \in IpRow /\ now.ports = row.ports
          /\ now.addr = row.addr /\ now.public = row.public /\ now.conns = row.conns + 1
      BY <2>1 DEF IpRow
    <3> HIDE DEF f, now
    <3>3. /\ f[i] \in IpRow /\ Cardinality(f[i].ports) <= MaxPorts
          /\ f[i].addr = row.addr /\ f[i].public = row.public /\ f[i].conns = row.conns + 1
      BY <2>1, <3>1, <3>2
    <3> QED BY <2>3, <3>3 DEF row
  <2> QED BY <2>2, <2>3
<1> HIDE DEF f
<1>6. Bumped(t, a, f)
  BY <1>2, <1>4, <1>5, RowsBumped DEF u
<1> QED BY <1>1, <1>6

LEMMA IpsLocal ==
  ASSUME NEW t, Table(t), NEW cs, NEW n \in Nat, NEW L, NEW R, L \subseteq 1 .. n, R \subseteq 1 .. n,
         IpsExact(t, cs, L, R), NEW k, k \notin L, NEW M, M = L \cup {k},
         cs[k].local \notin Unlisted,
         NEW u, Bumped(t, cs[k].local, u)
  PROVE  IpsExact(u, cs, M, R)
<1> DEFINE a == cs[k].local
<1>1. /\ \A i \in DOMAIN t :
           /\ i \in DOMAIN u /\ u[i].addr = t[i].addr /\ u[i].public = t[i].public
           /\ u[i].conns = IF t[i].addr = a THEN t[i].conns + 1 ELSE t[i].conns
      /\ \A i \in DOMAIN u : i \notin DOMAIN t =>
           /\ Len(t) < MaxIps /\ \A j \in DOMAIN t : t[j].addr # a
           /\ i = Len(t) + 1
           /\ u[i].addr = a /\ u[i].public = IsPublic(a) /\ u[i].conns = 1
      /\ Len(u) < MaxIps => Len(t) < MaxIps /\ \E i \in DOMAIN u : u[i].addr = a
  BY DEF Bumped
<1>2. /\ \A i, j \in DOMAIN t : t[i].addr = t[j].addr => i = j
      /\ \A i \in DOMAIN t :
           /\ t[i].addr \notin Unlisted /\ t[i].public = IsPublic(t[i].addr)
           /\ t[i].conns = Cardinality(LocalAt(cs, L, t[i].addr))
                             + Cardinality(RemoteAt(cs, R, t[i].addr))
      /\ Len(t) < MaxIps =>
           /\ \A m \in L : \E i \in DOMAIN t : t[i].addr = cs[m].local
           /\ \A m \in R : cs[m].remote \notin Unlisted =>
                \E i \in DOMAIN t : t[i].addr = cs[m].remote
  BY DEF IpsExact
<1>3. \A i, j \in DOMAIN u : u[i].addr = u[j].addr => i = j
  <2> TAKE i, j \in DOMAIN u
  <2> HAVE u[i].addr = u[j].addr
  <2>1. CASE i \in DOMAIN t /\ j \in DOMAIN t
    BY <1>1, <1>2, <2>1, Zenon
  <2>2. CASE i \in DOMAIN t /\ j \notin DOMAIN t
    BY <1>1, <2>2, Zenon
  <2>3. CASE i \notin DOMAIN t /\ j \in DOMAIN t
    BY <1>1, <2>3, Zenon
  <2>4. CASE i \notin DOMAIN t /\ j \notin DOMAIN t
    BY <1>1, <2>4, Zenon
  <2> QED BY <2>1, <2>2, <2>3, <2>4
<1>4. \A i \in DOMAIN u :
        /\ u[i].addr \notin Unlisted /\ u[i].public = IsPublic(u[i].addr)
        /\ u[i].conns = Cardinality(LocalAt(cs, M, u[i].addr))
                          + Cardinality(RemoteAt(cs, R, u[i].addr))
  <2> TAKE i \in DOMAIN u
  <2> DEFINE x == u[i].addr
             mine == Cardinality(LocalAt(cs, L, x))
             now == Cardinality(LocalAt(cs, M, x))
             other == Cardinality(RemoteAt(cs, R, x))
  <2>1. mine \in Nat /\ (a = x => now = mine + 1) /\ (a # x => now = mine)
    <3> DEFINE A == LocalAt(cs, L, x)
               B == LocalAt(cs, M, x)
               hit == a = x
    <3>1. A \subseteq 1 .. n /\ k \notin A
      BY DEF LocalAt
    <3>2. \A m : m \in B <=> m \in A \/ (m = k /\ hit)
      BY Zenon DEF LocalAt
    <3> HIDE DEF A, B, hit
    <3>3. Cardinality(A) \in Nat
      BY <3>1, Positions
    <3>4. hit => Cardinality(B) = Cardinality(A) + 1
      <4> HAVE hit
      <4>1. \A m : m \in B <=> m \in A \/ m = k
        BY <3>2, Zenon
      <4> QED BY <3>1, <4>1, OneMore
    <3>5. ~hit => Cardinality(B) = Cardinality(A)
      <4> HAVE ~hit
      <4>1. B = A
        BY <3>2, Zenon
      <4> QED BY <4>1
    <3> QED BY <3>3, <3>4, <3>5, Zenon DEF A, B, hit
  <2>2. other \in Nat
    <3>1. RemoteAt(cs, R, x) \subseteq 1 .. n
      BY DEF RemoteAt
    <3> QED BY <3>1, Positions
  <2>3. CASE i \in DOMAIN t
    <3>1. x = t[i].addr /\ u[i].public = t[i].public
      BY <1>1, <2>3, Zenon
    <3>2. t[i].conns = mine + other
      BY <1>2, <2>3, <3>1
    <3>3. u[i].conns = IF x = a THEN t[i].conns + 1 ELSE t[i].conns
      BY <1>1, <2>3, <3>1
    <3>4. x \notin Unlisted /\ u[i].public = IsPublic(x)
      BY <1>2, <2>3, <3>1
    <3> HIDE DEF a, x, mine, now, other
    <3>5. u[i].conns = now + other
      BY <2>1, <2>2, <3>2, <3>3
    <3> QED BY <3>4, <3>5, Zenon DEF x, now, other
  <2>4. CASE i \notin DOMAIN t
    <3>1. /\ Len(t) < MaxIps /\ \A j \in DOMAIN t : t[j].addr # a
          /\ x = a /\ u[i].public = IsPublic(a) /\ u[i].conns = 1
      BY <1>1, <2>4, Zenon
    <3>2. (\A m \in L : cs[m].local # a) /\ (\A m \in R : cs[m].remote # a)
      BY <1>2, <3>1
    <3>3. LocalAt(cs, L, x) = {} /\ RemoteAt(cs, R, x) = {}
      BY <3>1, <3>2, Zenon DEF LocalAt, RemoteAt
    <3>4. mine = 0 /\ other = 0
      BY <3>3, FS_EmptySet, Zenon
    <3> HIDE DEF mine, now, other, x
    <3>5. u[i].conns = now + other
      BY <2>1, <3>1, <3>4
    <3>6. x \notin Unlisted /\ u[i].public = IsPublic(x)
      BY <3>1
    <3> QED BY <3>5, <3>6, Zenon DEF x, now, other
  <2> QED BY <2>3, <2>4
<1>5. Len(u) < MaxIps =>
        /\ \A m \in M : \E i \in DOMAIN u : u[i].addr = cs[m].local
        /\ \A m \in R : cs[m].remote \notin Unlisted =>
             \E i \in DOMAIN u : u[i].addr = cs[m].remote
  <2> HAVE Len(u) < MaxIps
  <2>1. Len(t) < MaxIps /\ \E i \in DOMAIN u : u[i].addr = a
    BY <1>1, Zenon
  <2>2. \A b : (\E i \in DOMAIN t : t[i].addr = b) => \E i \in DOMAIN u : u[i].addr = b
    BY <1>1, Zenon
  <2>3. \A m \in M : \E i \in DOMAIN u : u[i].addr = cs[m].local
    BY <1>2, <2>1, <2>2
  <2>4. \A m \in R : cs[m].remote \notin Unlisted =>
          \E i \in DOMAIN u : u[i].addr = cs[m].remote
    BY <1>2, <2>1, <2>2
  <2> QED BY <2>3, <2>4
<1> QED BY <1>3, <1>4, <1>5, Zenon DEF IpsExact

LEMMA IpsRemote ==
  ASSUME NEW t, Table(t), NEW cs, NEW n \in Nat, NEW L, NEW R, L \subseteq 1 .. n, R \subseteq 1 .. n,
         IpsExact(t, cs, L, R), NEW k, k \notin R, NEW M, M = R \cup {k},
         cs[k].remote \notin Unlisted,
         NEW u, Bumped(t, cs[k].remote, u)
  PROVE  IpsExact(u, cs, L, M)
<1> DEFINE a == cs[k].remote
<1>1. /\ \A i \in DOMAIN t :
           /\ i \in DOMAIN u /\ u[i].addr = t[i].addr /\ u[i].public = t[i].public
           /\ u[i].conns = IF t[i].addr = a THEN t[i].conns + 1 ELSE t[i].conns
      /\ \A i \in DOMAIN u : i \notin DOMAIN t =>
           /\ Len(t) < MaxIps /\ \A j \in DOMAIN t : t[j].addr # a
           /\ i = Len(t) + 1
           /\ u[i].addr = a /\ u[i].public = IsPublic(a) /\ u[i].conns = 1
      /\ Len(u) < MaxIps => Len(t) < MaxIps /\ \E i \in DOMAIN u : u[i].addr = a
  BY DEF Bumped
<1>2. /\ \A i, j \in DOMAIN t : t[i].addr = t[j].addr => i = j
      /\ \A i \in DOMAIN t :
           /\ t[i].addr \notin Unlisted /\ t[i].public = IsPublic(t[i].addr)
           /\ t[i].conns = Cardinality(LocalAt(cs, L, t[i].addr))
                             + Cardinality(RemoteAt(cs, R, t[i].addr))
      /\ Len(t) < MaxIps =>
           /\ \A m \in L : \E i \in DOMAIN t : t[i].addr = cs[m].local
           /\ \A m \in R : cs[m].remote \notin Unlisted =>
                \E i \in DOMAIN t : t[i].addr = cs[m].remote
  BY DEF IpsExact
<1>3. \A i, j \in DOMAIN u : u[i].addr = u[j].addr => i = j
  <2> TAKE i, j \in DOMAIN u
  <2> HAVE u[i].addr = u[j].addr
  <2>1. CASE i \in DOMAIN t /\ j \in DOMAIN t
    BY <1>1, <1>2, <2>1, Zenon
  <2>2. CASE i \in DOMAIN t /\ j \notin DOMAIN t
    BY <1>1, <2>2, Zenon
  <2>3. CASE i \notin DOMAIN t /\ j \in DOMAIN t
    BY <1>1, <2>3, Zenon
  <2>4. CASE i \notin DOMAIN t /\ j \notin DOMAIN t
    BY <1>1, <2>4, Zenon
  <2> QED BY <2>1, <2>2, <2>3, <2>4
<1>4. \A i \in DOMAIN u :
        /\ u[i].addr \notin Unlisted /\ u[i].public = IsPublic(u[i].addr)
        /\ u[i].conns = Cardinality(LocalAt(cs, L, u[i].addr))
                          + Cardinality(RemoteAt(cs, M, u[i].addr))
  <2> TAKE i \in DOMAIN u
  <2> DEFINE x == u[i].addr
             mine == Cardinality(RemoteAt(cs, R, x))
             now == Cardinality(RemoteAt(cs, M, x))
             other == Cardinality(LocalAt(cs, L, x))
  <2>1. mine \in Nat /\ (a = x => now = mine + 1) /\ (a # x => now = mine)
    <3> DEFINE A == RemoteAt(cs, R, x)
               B == RemoteAt(cs, M, x)
               hit == a = x
    <3>1. A \subseteq 1 .. n /\ k \notin A
      BY DEF RemoteAt
    <3>2. \A m : m \in B <=> m \in A \/ (m = k /\ hit)
      BY Zenon DEF RemoteAt
    <3> HIDE DEF A, B, hit
    <3>3. Cardinality(A) \in Nat
      BY <3>1, Positions
    <3>4. hit => Cardinality(B) = Cardinality(A) + 1
      <4> HAVE hit
      <4>1. \A m : m \in B <=> m \in A \/ m = k
        BY <3>2, Zenon
      <4> QED BY <3>1, <4>1, OneMore
    <3>5. ~hit => Cardinality(B) = Cardinality(A)
      <4> HAVE ~hit
      <4>1. B = A
        BY <3>2, Zenon
      <4> QED BY <4>1
    <3> QED BY <3>3, <3>4, <3>5, Zenon DEF A, B, hit
  <2>2. other \in Nat
    <3>1. LocalAt(cs, L, x) \subseteq 1 .. n
      BY DEF LocalAt
    <3> QED BY <3>1, Positions
  <2>3. CASE i \in DOMAIN t
    <3>1. x = t[i].addr /\ u[i].public = t[i].public
      BY <1>1, <2>3, Zenon
    <3>2. t[i].conns = other + mine
      BY <1>2, <2>3, <3>1
    <3>3. u[i].conns = IF x = a THEN t[i].conns + 1 ELSE t[i].conns
      BY <1>1, <2>3, <3>1
    <3>4. x \notin Unlisted /\ u[i].public = IsPublic(x)
      BY <1>2, <2>3, <3>1
    <3> HIDE DEF a, x, mine, now, other
    <3>5. u[i].conns = other + now
      BY <2>1, <2>2, <3>2, <3>3
    <3> QED BY <3>4, <3>5, Zenon DEF x, now, other
  <2>4. CASE i \notin DOMAIN t
    <3>1. /\ Len(t) < MaxIps /\ \A j \in DOMAIN t : t[j].addr # a
          /\ x = a /\ u[i].public = IsPublic(a) /\ u[i].conns = 1
      BY <1>1, <2>4, Zenon
    <3>2. (\A m \in L : cs[m].local # a) /\ (\A m \in R : cs[m].remote # a)
      BY <1>2, <3>1
    <3>3. LocalAt(cs, L, x) = {} /\ RemoteAt(cs, R, x) = {}
      BY <3>1, <3>2, Zenon DEF LocalAt, RemoteAt
    <3>4. mine = 0 /\ other = 0
      BY <3>3, FS_EmptySet, Zenon
    <3> HIDE DEF mine, now, other, x
    <3>5. u[i].conns = other + now
      BY <2>1, <3>1, <3>4
    <3>6. x \notin Unlisted /\ u[i].public = IsPublic(x)
      BY <3>1
    <3> QED BY <3>5, <3>6, Zenon DEF x, now, other
  <2> QED BY <2>3, <2>4
<1>5. Len(u) < MaxIps =>
        /\ \A m \in L : \E i \in DOMAIN u : u[i].addr = cs[m].local
        /\ \A m \in M : cs[m].remote \notin Unlisted =>
             \E i \in DOMAIN u : u[i].addr = cs[m].remote
  <2> HAVE Len(u) < MaxIps
  <2>1. Len(t) < MaxIps /\ \E i \in DOMAIN u : u[i].addr = a
    BY <1>1, Zenon
  <2>2. \A b : (\E i \in DOMAIN t : t[i].addr = b) => \E i \in DOMAIN u : u[i].addr = b
    BY <1>1, Zenon
  <2>3. \A m \in L : \E i \in DOMAIN u : u[i].addr = cs[m].local
    BY <1>2, <2>1, <2>2
  <2>4. \A m \in M : cs[m].remote \notin Unlisted =>
          \E i \in DOMAIN u : u[i].addr = cs[m].remote
    BY <1>2, <2>1, <2>2
  <2> QED BY <2>3, <2>4
<1> QED BY <1>3, <1>4, <1>5, Zenon DEF IpsExact

LEMMA SeenSame ==
  ASSUME NEW t, NEW cs, NEW ds, NEW n \in Nat, SeenExact(t, cs, n),
         \A k \in 1 .. n : ds[k].local = cs[k].local /\ ds[k].remote = cs[k].remote
  PROVE  SeenExact(t, ds, n)
<1> DEFINE S == Seen(cs, n)
<1>1. Seen(ds, n) = S
  BY DEF Seen
<1>2. S \subseteq 1 .. n
  BY DEF Seen
<1>3. IpsExact(t, cs, S, S)
  BY DEF SeenExact
<1> HIDE DEF S
<1>4. \A x : LocalAt(ds, S, x) = LocalAt(cs, S, x) /\ RemoteAt(ds, S, x) = RemoteAt(cs, S, x)
  BY <1>2 DEF LocalAt, RemoteAt
<1>5. \A i \in DOMAIN t :
        /\ t[i].addr \notin Unlisted
        /\ t[i].public = IsPublic(t[i].addr)
        /\ t[i].conns = Cardinality(LocalAt(ds, S, t[i].addr))
                          + Cardinality(RemoteAt(ds, S, t[i].addr))
  BY <1>3, <1>4 DEF IpsExact
<1>6. Len(t) < MaxIps =>
        /\ \A k \in S : \E i \in DOMAIN t : t[i].addr = ds[k].local
        /\ \A k \in S : ds[k].remote \notin Unlisted =>
             \E i \in DOMAIN t : t[i].addr = ds[k].remote
  BY <1>2, <1>3 DEF IpsExact
<1>7. IpsExact(t, ds, S, S)
  BY <1>3, <1>5, <1>6, Zenon DEF IpsExact
<1> QED BY <1>1, <1>7 DEF SeenExact

(* One turn of the loop of netinspect_aggregate_ips(). *)
LEMMA SeenStep ==
  ASSUME NEW t, Table(t), NEW cs, NEW n \in Nat, cs[n + 1] \in Connection, SeenExact(t, cs, n)
  PROVE  Table(AddIps(t, cs[n + 1])) /\ SeenExact(AddIps(t, cs[n + 1]), cs, n + 1)
<1> DEFINE c == cs[n + 1]
           k == n + 1
           S == Seen(cs, n)
           T == Seen(cs, n + 1)
<1>1. \A m : m \in 1 .. n + 1 <=> m \in 1 .. n \/ m = n + 1
  OBVIOUS
<1>2. k \notin 1 .. n /\ S \subseteq 1 .. n /\ k \notin S
  BY DEF Seen
<1>3. IpsExact(t, cs, S, S)
  BY DEF SeenExact
<1>4. CASE IsWildcard(c.local)
  <2>1. AddIps(t, c) = t
    BY <1>4, Zenon DEF AddIps
  <2>2. T = S
    BY <1>1, <1>4, Zenon DEF Seen
  <2> QED BY <1>3, <2>1, <2>2 DEF SeenExact
<1>5. CASE ~IsWildcard(c.local)
  <2> DEFINE u == AddLocal(t, c)
  <2>1. T = S \cup {k}
    BY <1>1, <1>5, Zenon DEF Seen
  <2>2. cs[k].local \notin Unlisted
    BY <1>5 DEF Unlisted, IsWildcard
  <2>3. Bumped(t, c.local, u)
    BY AddLocalBumps
  <2> HIDE DEF u, S, T
  <2>4. IpsExact(u, cs, T, S)
    <3> HIDE DEF k
    <3>1. Bumped(t, cs[k].local, u)
      BY <2>3 DEF k
    <3> QED BY <1>2, <1>3, <2>1, <2>2, <3>1, IpsLocal
  <2>5. Table(u)
    BY <2>3 DEF Bumped
  <2>6. CASE c.remote \in {Star, V4Any}
    <3>1. AddIps(t, c) = u
      BY <1>5, <2>6, Zenon DEF AddIps, u
    <3>2. \A x : x \notin Unlisted => RemoteAt(cs, T, x) = RemoteAt(cs, S, x)
      BY <2>1, <2>6, Zenon DEF RemoteAt, Unlisted
    <3>3. \A i \in DOMAIN u :
            /\ u[i].addr \notin Unlisted /\ u[i].public = IsPublic(u[i].addr)
            /\ u[i].conns = Cardinality(LocalAt(cs, T, u[i].addr))
                              + Cardinality(RemoteAt(cs, T, u[i].addr))
      BY <2>4, <3>2 DEF IpsExact
    <3>4. Len(u) < MaxIps =>
            /\ \A m \in T : \E i \in DOMAIN u : u[i].addr = cs[m].local
            /\ \A m \in T : cs[m].remote \notin Unlisted =>
                 \E i \in DOMAIN u : u[i].addr = cs[m].remote
      BY <2>1, <2>4, <2>6 DEF IpsExact, Unlisted
    <3>5. IpsExact(u, cs, T, T)
      BY <2>4, <3>3, <3>4, Zenon DEF IpsExact
    <3> QED BY <2>5, <3>1, <3>5 DEF SeenExact, T
  <2>7. CASE c.remote \notin {Star, V4Any}
    <3> DEFINE v == AddRemote(u, c)
    <3>1. AddIps(t, c) = v
      BY <1>5, <2>7, Zenon DEF AddIps, u
    <3>2. cs[k].remote \notin Unlisted
      BY <2>7 DEF Unlisted
    <3>3. Bumped(u, c.remote, v)
      BY <2>5, AddRemoteBumps
    <3> HIDE DEF v
    <3>4. IpsExact(v, cs, T, T)
      <4>1. k \in Nat /\ T \subseteq 1 .. k /\ S \subseteq 1 .. k
        BY <1>1, <1>2, <2>1
      <4> HIDE DEF k
      <4>2. Bumped(u, cs[k].remote, v)
        BY <3>3 DEF k
      <4> QED BY <1>2, <2>1, <2>4, <2>5, <3>2, <4>1, <4>2, IpsRemote
    <3>5. Table(v)
      BY <3>3 DEF Bumped
    <3> QED BY <3>1, <3>4, <3>5 DEF SeenExact, T
  <2> QED BY <2>6, <2>7
<1> QED BY <1>4, <1>5

-----------------------------------------------------------------------------
(* The columns of the table of addresses that are about local addresses only:
   listeners and ports. *)
LEMMA LocalSame ==
  ASSUME NEW t, NEW cs, NEW ds, NEW L, NEW u, LocalExact(t, cs, L),
         \A k \in L : /\ ds[k].local = cs[k].local /\ ds[k].localPort = cs[k].localPort
                       /\ ds[k].state = cs[k].state,
         DOMAIN u = DOMAIN t,
         \A i \in DOMAIN t : /\ u[i].addr = t[i].addr
                             /\ u[i].listens = t[i].listens /\ u[i].ports = t[i].ports
  PROVE  LocalExact(u, ds, L)
<1>1. \A x : LocalAt(ds, L, x) = LocalAt(cs, L, x)
  BY DEF LocalAt
<1>2. \A x : ListensAt(ds, L, x) = ListensAt(cs, L, x)
  BY <1>1 DEF ListensAt, LocalAt
<1>3. \A x : PortsAt(ds, L, x) = PortsAt(cs, L, x)
  BY <1>1 DEF PortsAt, LocalAt
<1> QED BY <1>2, <1>3 DEF LocalExact

(* A row that is new is about an address no connection counted so far has. *)
LEMMA LocalRoom ==
  ASSUME NEW t, Table(t), NEW a \in Address, NEW cs, NEW L, NEW R, IpsExact(t, cs, L, R),
         LocalExact(t, cs, L)
  PROVE  LocalExact(WithIp(t, a), cs, L)
<1> DEFINE u == WithIp(t, a)
<1>1. /\ \A i \in DOMAIN t : i \in DOMAIN u /\ u[i] = t[i]
      /\ \A i \in DOMAIN u : i \notin DOMAIN t =>
           /\ Len(t) < MaxIps /\ \A j \in DOMAIN t : t[j].addr # a
           /\ u[i].addr = a /\ u[i].listens = 0 /\ u[i].ports = {}
  BY RoomForIp
<1> HIDE DEF u
<1>2. ASSUME NEW i \in DOMAIN u
      PROVE  /\ u[i].listens = Cardinality(ListensAt(cs, L, u[i].addr))
             /\ u[i].ports \subseteq PortsAt(cs, L, u[i].addr)
             /\ Cardinality(u[i].ports) < MaxPorts => u[i].ports = PortsAt(cs, L, u[i].addr)
  <2>1. CASE i \in DOMAIN t
    <3>1. u[i] = t[i]
      BY <1>1, <2>1, Zenon
    <3>2. /\ t[i].listens = Cardinality(ListensAt(cs, L, t[i].addr))
          /\ t[i].ports \subseteq PortsAt(cs, L, t[i].addr)
          /\ Cardinality(t[i].ports) < MaxPorts => t[i].ports = PortsAt(cs, L, t[i].addr)
      BY <2>1, Zenon DEF LocalExact
    <3> QED BY <3>1, <3>2
  <2>2. CASE i \notin DOMAIN t
    <3>0. Len(t) < MaxIps /\ \A j \in DOMAIN t : t[j].addr # a
      BY <1>1, <2>2, Zenon
    <3>1. \A m \in L : cs[m].local # a
      <4>1. \A m \in L : \E j \in DOMAIN t : t[j].addr = cs[m].local
        BY <3>0 DEF IpsExact
      <4> QED BY <3>0, <4>1, Zenon
    <3>2. LocalAt(cs, L, a) = {}
      BY <3>1, Zenon DEF LocalAt
    <3>3. ListensAt(cs, L, a) = {} /\ PortsAt(cs, L, a) = {}
      BY <3>2, Zenon DEF ListensAt, PortsAt
    <3>4. Cardinality(ListensAt(cs, L, a)) = 0
      BY <3>3, FS_EmptySet, Zenon
    <3>5. u[i].addr = a /\ u[i].listens = 0 /\ u[i].ports = {}
      BY <1>1, <2>2, Zenon
    <3> QED BY <3>3, <3>4, <3>5
  <2> QED BY <2>1, <2>2
<1> QED BY <1>2, Zenon DEF LocalExact, u

LEMMA LocalCounted ==
  ASSUME NEW t, Table(t), NEW cs, NEW n \in Nat, NEW L, L \subseteq 1 .. n,
         IpsExact(t, cs, L, L), LocalExact(t, cs, L),
         NEW k, k \notin L, NEW M, M = L \cup {k}, cs[k] \in Connection
  PROVE  LocalExact(AddLocal(t, cs[k]), cs, M)
<1> DEFINE c == cs[k]
           a == c.local
           w == WithIp(t, a)
           l == One(c.state = "Listen")
           more(ps) == IF Cardinality(ps) < MaxPorts THEN ps \cup {c.localPort} ELSE ps
           f == [i \in DOMAIN w |->
                   IF w[i].addr # a THEN w[i]
                   ELSE [w[i] EXCEPT !.conns = @ + 1, !.listens = @ + l, !.ports = more(@)]]
<1>1. AddLocal(t, c) = f
  BY Zenon DEF AddLocal
<1>2. a \in Address
  BY DEF Connection
<1>3. Table(w) /\ LocalExact(w, cs, L)
  BY <1>2, RoomForIp, LocalRoom
<1> HIDE DEF w, l, more
<1>4. ASSUME NEW i \in DOMAIN f
      PROVE  /\ f[i].listens = Cardinality(ListensAt(cs, M, f[i].addr))
             /\ f[i].ports \subseteq PortsAt(cs, M, f[i].addr)
             /\ Cardinality(f[i].ports) < MaxPorts => f[i].ports = PortsAt(cs, M, f[i].addr)
  <2>1. i \in DOMAIN w
    BY Zenon
  <2> DEFINE row == w[i]
             x == row.addr
             A == ListensAt(cs, L, x)
             B == ListensAt(cs, M, x)
             P == PortsAt(cs, L, x)
             Q == PortsAt(cs, M, x)
  <2>2. /\ row \in IpRow /\ row.listens = Cardinality(A) /\ row.ports \subseteq P
        /\ Cardinality(row.ports) < MaxPorts => row.ports = P
    BY <1>3, <2>1 DEF Table, LocalExact
  <2>3. CASE x # a
    <3>1. f[i] = row
      BY <2>1, <2>3, Zenon
    <3>2. LocalAt(cs, M, x) = LocalAt(cs, L, x)
      BY <2>3, Zenon DEF LocalAt
    <3>3. B = A /\ Q = P
      BY <3>2, Zenon DEF ListensAt, PortsAt
    <3> HIDE DEF f, A, B, P, Q
    <3>4. /\ row.listens = Cardinality(B) /\ row.ports \subseteq Q
          /\ Cardinality(row.ports) < MaxPorts => row.ports = Q
      BY <2>2, <3>3
    <3> QED BY <3>1, <3>4, Zenon DEF B, Q
  <2>4. CASE x = a
    <3> DEFINE conns == row.conns + 1
               listens == row.listens + l
               ps == more(row.ports)
               now == [row EXCEPT !.conns = conns, !.listens = listens, !.ports = ps]
    <3>1. f[i] = now
      BY <2>1, <2>4, Zenon
    <3>2. now.addr = x /\ now.listens = listens /\ now.ports = ps
      <4> HIDE DEF row, conns, listens, ps
      <4> QED BY <2>2 DEF IpRow, row
    <3>3. \A m : m \in LocalAt(cs, M, x) <=> m \in LocalAt(cs, L, x) \/ m = k
      BY <2>4, Zenon DEF LocalAt
    <3>4. Q = P \cup {c.localPort}
      BY <3>3 DEF PortsAt
    <3>5. A \subseteq 1 .. n /\ k \notin A
      BY DEF ListensAt, LocalAt
    <3>6. \A m : m \in B <=> m \in A \/ (m = k /\ c.state = "Listen")
      BY <3>3, Zenon DEF ListensAt
    <3> HIDE DEF f, now, A, B, P, Q, row, x
    <3>7. listens = Cardinality(B)
      <4>1. CASE c.state = "Listen"
        <5>1. l = 1
          BY <4>1 DEF One, l
        <5>2. \A m : m \in B <=> m \in A \/ m = k
          BY <3>6, <4>1, Zenon
        <5>3. Cardinality(B) = Cardinality(A) + 1
          BY <3>5, <5>2, OneMore
        <5> QED BY <2>2, <5>1, <5>3
      <4>2. CASE c.state # "Listen"
        <5>1. l = 0
          BY <4>2 DEF One, l
        <5>2. B = A
          BY <3>6, <4>2, Zenon
        <5>3. Cardinality(A) \in Nat
          BY <3>5, Positions
        <5> QED BY <2>2, <5>1, <5>2, <5>3
      <4> QED BY <4>1, <4>2
    <3>8. ps \subseteq Q /\ (Cardinality(ps) < MaxPorts => ps = Q)
      <4>1. CASE Cardinality(row.ports) < MaxPorts
        <5>1. ps = row.ports \cup {c.localPort}
          BY <4>1, Zenon DEF more
        <5>2. ps = Q
          BY <2>2, <3>4, <4>1, <5>1
        <5> QED BY <5>2
      <4>2. CASE ~(Cardinality(row.ports) < MaxPorts)
        <5>1. ps = row.ports
          BY <4>2, Zenon DEF more
        <5> HIDE DEF ps
        <5> QED BY <2>2, <3>4, <4>2, <5>1
      <4> QED BY <4>1, <4>2
    <3> HIDE DEF listens, ps
    <3>9. f[i].addr = x /\ f[i].listens = listens /\ f[i].ports = ps
      BY <3>1, <3>2
    <3> QED BY <3>7, <3>8, <3>9, Zenon DEF B, Q
  <2> QED BY <2>3, <2>4
<1> HIDE DEF f
<1>5. LocalExact(f, cs, M)
  BY <1>4, Zenon DEF LocalExact
<1> QED BY <1>1, <1>5

LEMMA LocalOfRemote ==
  ASSUME NEW t, Table(t), NEW c \in Connection, NEW cs, NEW L, NEW R, IpsExact(t, cs, L, R),
         LocalExact(t, cs, L)
  PROVE  LocalExact(AddRemote(t, c), cs, L)
<1> DEFINE a == c.remote
           w == WithIp(t, a)
           f == [i \in DOMAIN w |->
                   IF w[i].addr # a THEN w[i] ELSE [w[i] EXCEPT !.conns = @ + 1]]
<1>1. AddRemote(t, c) = f
  BY Zenon DEF AddRemote
<1>2. a \in Address
  BY DEF Connection
<1>3. Table(w) /\ LocalExact(w, cs, L)
  BY <1>2, RoomForIp, LocalRoom
<1> HIDE DEF w
<1>4. \A i \in DOMAIN w : /\ f[i].addr = w[i].addr /\ f[i].listens = w[i].listens
                           /\ f[i].ports = w[i].ports
  <2> TAKE i \in DOMAIN w
  <2> DEFINE row == w[i]
             now == [row EXCEPT !.conns = @ + 1]
  <2>1. row \in IpRow
    BY <1>3 DEF Table
  <2>2. CASE row.addr # a
    BY <2>2, Zenon
  <2>3. CASE row.addr = a
    <3>1. f[i] = now
      BY <2>3, Zenon
    <3> HIDE DEF row, f
    <3>2. now.addr = row.addr /\ now.listens = row.listens /\ now.ports = row.ports
      BY <2>1 DEF IpRow
    <3> QED BY <3>1, <3>2 DEF row
  <2> QED BY <2>2, <2>3
<1>5. DOMAIN f = DOMAIN w
  BY Zenon
<1> HIDE DEF f
<1>6. LocalExact(f, cs, L)
  BY <1>3, <1>4, <1>5, Zenon, LocalSame
<1> QED BY <1>1, <1>6

(* One turn of the loop. *)
LEMMA LocalStep ==
  ASSUME NEW t, Table(t), NEW cs, NEW n \in Nat, cs[n + 1] \in Connection, SeenExact(t, cs, n),
         LocalExact(t, cs, Seen(cs, n))
  PROVE  LocalExact(AddIps(t, cs[n + 1]), cs, Seen(cs, n + 1))
<1> DEFINE c == cs[n + 1]
           k == n + 1
           S == Seen(cs, n)
           T == Seen(cs, n + 1)
<1>1. \A m : m \in 1 .. n + 1 <=> m \in 1 .. n \/ m = n + 1
  OBVIOUS
<1>2. k \notin 1 .. n /\ S \subseteq 1 .. n /\ k \notin S
  BY DEF Seen
<1>3. IpsExact(t, cs, S, S) /\ LocalExact(t, cs, S)
  BY DEF SeenExact
<1>4. CASE IsWildcard(c.local)
  <2>1. AddIps(t, c) = t
    BY <1>4, Zenon DEF AddIps
  <2>2. T = S
    BY <1>1, <1>4, Zenon DEF Seen
  <2> QED BY <1>3, <2>1, <2>2
<1>5. CASE ~IsWildcard(c.local)
  <2> DEFINE u == AddLocal(t, c)
  <2>1. T = S \cup {k}
    BY <1>1, <1>5, Zenon DEF Seen
  <2>2. cs[k].local \notin Unlisted
    BY <1>5 DEF Unlisted, IsWildcard
  <2>3. Bumped(t, c.local, u)
    BY AddLocalBumps
  <2> HIDE DEF S, T
  <2>4. LocalExact(u, cs, T)
    <3> HIDE DEF k, c
    <3>1. cs[k] \in Connection /\ u = AddLocal(t, cs[k])
      BY DEF k, c
    <3> HIDE DEF u
    <3>2. LocalExact(AddLocal(t, cs[k]), cs, T)
      BY <1>2, <1>3, <2>1, <3>1, LocalCounted
    <3> QED BY <3>1, <3>2
  <2> HIDE DEF u
  <2>5. IpsExact(u, cs, T, S)
    <3> HIDE DEF k
    <3>1. Bumped(t, cs[k].local, u)
      BY <2>3 DEF k
    <3> QED BY <1>2, <1>3, <2>1, <2>2, <3>1, IpsLocal
  <2>6. Table(u)
    BY <2>3 DEF Bumped
  <2>7. CASE c.remote \in {Star, V4Any}
    <3>1. AddIps(t, c) = u
      BY <1>5, <2>7, Zenon DEF AddIps, u
    <3> QED BY <2>4, <3>1 DEF T
  <2>8. CASE c.remote \notin {Star, V4Any}
    <3>1. AddIps(t, c) = AddRemote(u, c)
      BY <1>5, <2>8, Zenon DEF AddIps, u
    <3>2. LocalExact(AddRemote(u, c), cs, T)
      BY <2>4, <2>5, <2>6, LocalOfRemote
    <3> QED BY <3>1, <3>2 DEF T
  <2> QED BY <2>7, <2>8
<1> QED BY <1>4, <1>5

-----------------------------------------------------------------------------
(* The report. *)

LEMMA Results ==
  /\ Passed("Network-Deep") \in Result /\ Warned("Network-Deep") \in Result
  /\ Failed("Network-Deep") \in Result /\ Failed("Network-Deep").status = "Fail"
  /\ Passed("Network-Deep").status # "Fail" /\ Warned("Network-Deep").status # "Fail"
BY DEF Passed, Warned, Failed, Res, Result, Categories, Severities, Statuses

(* Two summaries; if there are alerts, a warning follows, and then a failure
   for each grave one among the first, and for no other. *)
LEMMA ReportParts ==
  ASSUME NEW n \in Nat, NEW kinds \in [1 .. n -> Kinds], NEW limit \in Nat
  PROVE  /\ NetinspectReport(kinds, limit) \in Seq(Result)
         /\ \A i \in 1 .. n : i <= limit /\ kinds[i] = "UnusualPort" =>
              \E r \in DOMAIN NetinspectReport(kinds, limit) :
                NetinspectReport(kinds, limit)[r].status = "Fail"
         /\ \A r \in DOMAIN NetinspectReport(kinds, limit) :
              NetinspectReport(kinds, limit)[r].status = "Fail" =>
                \E i \in 1 .. n : i <= limit /\ kinds[i] \in {"UnusualPort", "Blacklisted"}
<1> DEFINE cat == "Network-Deep"
           first == First(limit, kinds)
           positions == {i \in DOMAIN first : first[i] \in {"UnusualPort", "Blacklisted"}}
           grave == OfKinds({"UnusualPort", "Blacklisted"}, first)
           size == Cardinality(positions)
           failed == Failed(cat)
           fails == [i \in 1 .. size |-> failed]
           head == <<Passed(cat), Passed(cat)>>
           tail == <<Warned(cat)>> \o fails
<1>1. kinds \in Seq(Kinds) /\ Len(kinds) = n /\ DOMAIN kinds = 1 .. n
  OBVIOUS
<1>2. DOMAIN first = 1 .. (IF n < limit THEN n ELSE limit)
      /\ \A i \in DOMAIN first : first[i] = kinds[i]
  BY <1>1 DEF First
<1> HIDE DEF first
<1>3. positions \subseteq 1 .. (IF n < limit THEN n ELSE limit)
  BY <1>2
<1>4. IsFiniteSet(positions) /\ size \in Nat
  <2>1. (IF n < limit THEN n ELSE limit) \in Nat
    OBVIOUS
  <2> HIDE DEF positions
  <2> QED BY <1>3, <2>1, Positions
<1>5. DOMAIN grave = 1 .. size
  BY Zenon DEF OfKinds
<1>6. Each(grave, LAMBDA k : Failed(cat)) = fails
  BY <1>5, Zenon DEF Each
<1>7. head \in Seq(Result) /\ <<Warned(cat)>> \in Seq(Result) /\ <<Passed(cat)>> \in Seq(Result)
      /\ Len(head) = 2 /\ Len(<<Warned(cat)>>) = 1
  <2> DEFINE passed == Passed(cat)
             warned == Warned(cat)
  <2>1. passed \in Result /\ warned \in Result
    BY Results
  <2> HIDE DEF passed, warned
  <2>2. <<passed, passed>> \in Seq(Result) /\ <<warned>> \in Seq(Result) /\ <<passed>> \in Seq(Result)
        /\ Len(<<passed, passed>>) = 2 /\ Len(<<warned>>) = 1
    BY <2>1
  <2> QED BY <2>2 DEF passed, warned
<1> HIDE DEF size
<1>8. failed \in Result /\ failed.status = "Fail"
  BY Results
<1> HIDE DEF failed
<1>9. fails \in Seq(Result) /\ Len(fails) = size /\ \A i \in 1 .. size : fails[i] = failed
  BY <1>4, <1>8
<1>10. NetinspectReport(kinds, limit) = head \o (IF kinds = << >> THEN <<Passed(cat)>> ELSE tail)
  <2>1. NetinspectReport(kinds, limit)
          = head \o (IF kinds = << >> THEN <<Passed(cat)>>
                     ELSE <<Warned(cat)>> \o Each(grave, LAMBDA k : Failed(cat)))
    BY Zenon DEF NetinspectReport, first
  <2> HIDE DEF head, fails, grave
  <2> QED BY <1>6, <2>1, Zenon
<1> DEFINE warned == <<Warned(cat)>>
           passed == <<Passed(cat)>>
<1>15. /\ Len(passed) = 1 /\ passed[1].status # "Fail" /\ warned[1].status # "Fail"
       /\ \A i \in 1 .. 2 : head[i].status # "Fail"
  BY Results
<1> HIDE DEF head, fails, warned, passed
<1>11. /\ tail \in Seq(Result) /\ Len(tail) = 1 + size /\ tail[1] = warned[1]
       /\ size > 0 => tail[2] = failed
  <2>1. warned \in Seq(Result) /\ Len(warned) = 1
    BY <1>7 DEF warned
  <2>2. tail = warned \o fails
    BY Zenon DEF warned
  <2> HIDE DEF tail
  <2>3. /\ warned \o fails \in Seq(Result) /\ Len(warned \o fails) = Len(warned) + Len(fails)
        /\ \A i \in 1 .. Len(warned) + Len(fails) :
             (warned \o fails)[i] = IF i <= Len(warned) THEN warned[i] ELSE fails[i - Len(warned)]
    BY <1>9, <2>1, ConcatProperties
  <2>4. 1 \in 1 .. 1 + size /\ (size > 0 => 2 \in 1 .. 1 + size /\ 1 \in 1 .. size)
    BY <1>4
  <2> QED BY <1>4, <1>9, <2>1, <2>2, <2>3, <2>4
<1> HIDE DEF tail
<1>12. NetinspectReport(kinds, limit) \in Seq(Result)
  <2>1. passed \in Seq(Result) /\ head \in Seq(Result)
    BY <1>7 DEF passed
  <2>2. head \o passed \in Seq(Result) /\ head \o tail \in Seq(Result)
    BY <1>11, <2>1, ConcatProperties
  <2>3. CASE kinds = << >>
    BY <1>10, <2>2, <2>3 DEF passed
  <2>4. CASE kinds # << >>
    BY <1>10, <2>2, <2>4
  <2> QED BY <2>3, <2>4
<1>13. ASSUME NEW i \in 1 .. n, i <= limit, kinds[i] = "UnusualPort"
       PROVE  \E r \in DOMAIN NetinspectReport(kinds, limit) :
                NetinspectReport(kinds, limit)[r].status = "Fail"
  <2>1. i \in positions
    BY <1>2, <1>13
  <2>2. size > 0
    <3>1. positions # {}
      BY <2>1
    <3>2. size # 0
      BY <1>4, <3>1, FS_EmptySet, Zenon DEF size
    <3> QED BY <1>4, <3>2
  <2>3. NetinspectReport(kinds, limit) = head \o tail
    <3>1. kinds # << >>
      BY <1>1
    <3> QED BY <1>10, <3>1
  <2>4. /\ Len(head \o tail) = Len(head) + Len(tail)
        /\ \A m \in 1 .. Len(head) + Len(tail) :
             (head \o tail)[m] = IF m <= Len(head) THEN head[m] ELSE tail[m - Len(head)]
        /\ head \o tail \in Seq(Result)
    BY <1>7, <1>11, ConcatProperties
  <2>5. 4 \in DOMAIN (head \o tail) /\ (head \o tail)[4] = failed
    BY <1>4, <1>7, <1>11, <2>2, <2>4
  <2> QED BY <1>8, <2>3, <2>5
<1>14. ASSUME NEW r \in DOMAIN NetinspectReport(kinds, limit),
              NetinspectReport(kinds, limit)[r].status = "Fail"
       PROVE  \E i \in 1 .. n : i <= limit /\ kinds[i] \in {"UnusualPort", "Blacklisted"}
  <2>1. passed \in Seq(Result) /\ head \in Seq(Result) /\ tail \in Seq(Result) /\ Len(head) = 2
    BY <1>7, <1>11 DEF passed
  <2>2. CASE kinds = << >>
    <3>1. NetinspectReport(kinds, limit) = head \o passed
      BY <1>10, <2>2 DEF passed
    <3>2. /\ Len(head \o passed) = 3 /\ head \o passed \in Seq(Result)
          /\ \A m \in 1 .. 3 :
               (head \o passed)[m] = IF m <= 2 THEN head[m] ELSE passed[m - 2]
      <4>1. /\ head \o passed \in Seq(Result) /\ Len(head \o passed) = Len(head) + Len(passed)
            /\ \A m \in 1 .. Len(head) + Len(passed) :
                 (head \o passed)[m] = IF m <= Len(head) THEN head[m] ELSE passed[m - Len(head)]
        BY <2>1, ConcatProperties
      <4>2. Len(head) = 2 /\ Len(head) + Len(passed) = 3
        BY <1>15, <2>1
      <4> QED BY <4>1, <4>2
    <3>3. r \in 1 .. 3
      BY <1>14, <3>1, <3>2
    <3>4. r \in 1 .. 2 \/ r - 2 = 1
      BY <3>3
    <3>5. (head \o passed)[r].status # "Fail"
      BY <1>15, <3>2, <3>3, <3>4
    <3> QED BY <1>14, <3>1, <3>5
  <2>3. CASE kinds # << >>
    <3>1. NetinspectReport(kinds, limit) = head \o tail
      BY <1>10, <2>3
    <3>2. /\ Len(head \o tail) = 3 + size /\ head \o tail \in Seq(Result)
          /\ \A m \in 1 .. 3 + size :
               (head \o tail)[m] = IF m <= 2 THEN head[m] ELSE tail[m - 2]
      <4>1. /\ head \o tail \in Seq(Result) /\ Len(head \o tail) = Len(head) + Len(tail)
            /\ \A m \in 1 .. Len(head) + Len(tail) :
                 (head \o tail)[m] = IF m <= Len(head) THEN head[m] ELSE tail[m - Len(head)]
        BY <2>1, ConcatProperties
      <4>2. Len(head) = 2 /\ Len(head) + Len(tail) = 3 + size
        BY <1>4, <1>11, <2>1
      <4> QED BY <4>1, <4>2
    <3>3. r \in 1 .. 3 + size
      BY <1>14, <3>1, <3>2
    <3>4. CASE size = 0
      <4>1. r \in 1 .. 2 \/ r - 2 = 1
        BY <3>3, <3>4
      <4>2. (head \o tail)[r].status # "Fail"
        BY <1>11, <1>15, <3>2, <3>3, <4>1
      <4> QED BY <1>14, <3>1, <4>2
    <3>5. CASE size # 0
      <4>1. positions # {}
        BY <3>5, FS_EmptySet, Zenon DEF size
      <4>2. PICK i \in DOMAIN first : first[i] \in {"UnusualPort", "Blacklisted"}
        BY <4>1
      <4>3. i \in 1 .. n /\ i <= limit /\ kinds[i] = first[i]
        BY <1>2, <4>2
      <4> QED BY <4>2, <4>3
    <3> QED BY <3>4, <3>5
  <2> QED BY <2>2, <2>3
<1> QED BY <1>12, <1>13, <1>14

-----------------------------------------------------------------------------
(* Types and turns. *)

LEMMA ParsedIsConnection ==
  ASSUME NEW line \in Line
  PROVE  Parsed(line) \in Connection /\ Parsed(line).kind = "None"
BY DEF Parsed, Line, Connection, States, Kinds

LEMMA SuspicionIsKind == \A c : Suspicion(c) \in Kinds
BY DEF Suspicion, Kinds

(* What the analysis writes down is the kind and nothing else. *)
JudgedAs(cs, m, kind) == [cs EXCEPT ![m].kind = kind]

LEMMA JudgedConnections ==
  ASSUME NEW cs \in Seq(Connection), NEW m \in 1 .. Len(cs), NEW kind \in Kinds
  PROVE  LET ds == JudgedAs(cs, m, kind)
         IN  /\ ds \in Seq(Connection) /\ Len(ds) = Len(cs) /\ DOMAIN ds = DOMAIN cs
             /\ ds[m] = [cs[m] EXCEPT !.kind = kind]
             /\ \A k \in DOMAIN cs : k # m => ds[k] = cs[k]
<1> DEFINE c == [cs[m] EXCEPT !.kind = kind]
           now == [cs EXCEPT ![m] = c]
<1>1. DOMAIN cs = 1 .. Len(cs) /\ Len(cs) \in Nat /\ cs[m] \in Connection
  OBVIOUS
<1>2. c \in Connection /\ c.kind = kind
  BY <1>1 DEF Connection
<1> HIDE DEF c
<1>3. /\ now \in Seq(Connection) /\ Len(now) = Len(cs) /\ DOMAIN now = DOMAIN cs
      /\ now[m] = c /\ \A k \in DOMAIN cs : k # m => now[k] = cs[k]
  BY <1>1, <1>2
<1>4. JudgedAs(cs, m, kind) = now
  BY Zenon DEF c, JudgedAs
<1> HIDE DEF now
<1> QED BY <1>2, <1>3, <1>4, Zenon DEF c

LEMMA TypesKept ==
  ASSUME IInv, [Next]_vars
  PROVE  TypeOK' /\ Reading' /\ InTurn'
<1> USE DEF TypeOK, Reading, InTurn
<1>0. TypeOK /\ Reading /\ InTurn /\ PortsExact(ports, connections, Through("ports"))
      /\ SeenExact(ips, connections, Through("ips"))
  BY DEF IInv
<1> USE <1>0
<1>1. /\ MaxConnections \in Nat /\ MaxIps \in Nat /\ MaxPorts \in Nat /\ MaxAlerts \in Nat
      /\ ManyConns \in Nat /\ ReportLimit \in Nat
  BY NetinspectAssumption
<1>2. CASE ReadCall
  <2>1. lines' \in Seq(Line) /\ calls' \in Seq(Outputs)
    <3>1. Head(calls) \in Outputs /\ Tail(calls) \in Seq(Outputs)
      BY <1>2 DEF ReadCall
    <3>2. Head(calls) # Nothing => Head(calls) \in Seq(Line)
      BY <3>1, NetinspectAssumption
    <3> QED BY <1>2, <3>1, <3>2 DEF ReadCall
  <2> QED BY <1>2, <2>1 DEF ReadCall, tables, verdict
<1>3. CASE ReadLine
  <2>1. /\ lines' \in Seq(Line) /\ connections' \in Seq(Connection)
        /\ Len(connections') <= MaxConnections /\ Len(connections') >= Len(connections)
    <3>1. Head(lines) \in Line /\ Tail(lines) \in Seq(Line)
      BY <1>3 DEF ReadLine
    <3> DEFINE added == Parsed(Head(lines))
    <3>2. added \in Connection
      BY <3>1, ParsedIsConnection
    <3>3. \/ lines' = << >> /\ connections' = connections
          \/ lines' = Tail(lines) /\ connections' = connections
          \/ /\ lines' = Tail(lines) /\ connections' = Append(connections, added)
             /\ ~(Len(connections) >= MaxConnections)
      BY <1>3, Zenon DEF ReadLine
    <3> HIDE DEF added
    <3>4. Append(connections, added) \in Seq(Connection)
          /\ Len(Append(connections, added)) = Len(connections) + 1 /\ Len(connections) \in Nat
      BY <3>2
    <3>5. CASE lines' = << >> /\ connections' = connections
      <4>1. << >> \in Seq(Line)
        OBVIOUS
      <4> QED BY <3>5, <4>1
    <3>6. CASE lines' = Tail(lines) /\ connections' = connections
      BY <3>1, <3>6
    <3>7. CASE /\ lines' = Tail(lines) /\ connections' = Append(connections, added)
               /\ ~(Len(connections) >= MaxConnections)
      <4>1. Len(connections) + 1 <= MaxConnections
        BY <1>1, <3>4, <3>7
      <4> QED BY <3>1, <3>4, <3>7, <4>1
    <3> QED BY <3>3, <3>5, <3>6, <3>7
  <2>2. at' \in 0 .. Len(connections')
    BY <1>3, <2>1 DEF ReadLine
  <2> QED BY <1>3, <2>1, <2>2 DEF ReadLine, tables, verdict
<1>4. CASE CountStates
  <2> DEFINE n == Len(connections)
             listeners == Count(LAMBDA c : c.state = "Listen", n)
             established == Count(LAMBDA c : c.state = "Established", n)
  <2>1. n \in Nat
    OBVIOUS
  <2>2. listeners \in Nat /\ established \in Nat
    <3> DEFINE A == {i \in 1 .. n : connections[i].state = "Listen"}
               B == {i \in 1 .. n : connections[i].state = "Established"}
    <3>1. A \subseteq 1 .. n /\ B \subseteq 1 .. n
      OBVIOUS
    <3>2. listeners = Cardinality(A) /\ established = Cardinality(B)
      BY Zenon DEF Count
    <3> HIDE DEF A, B
    <3> QED BY <2>1, <3>1, <3>2, Positions
  <2>3. totals' = [totals EXCEPT !.connections = n, !.listeners = listeners,
                                 !.established = established]
    BY <1>4, Zenon DEF CountStates
  <2> HIDE DEF n, listeners, established
  <2>4. totals' \in [connections : Nat, listeners : Nat, established : Nat, public : Nat, local : Nat]
    BY <2>1, <2>2, <2>3
  <2> QED BY <1>4, <2>4 DEF CountStates, scan, tables, verdict
<1>5. CASE AggregateIp
  <2>1. Table(ips') /\ at' \in 0 .. Len(connections')
    <3>1. at \in Nat /\ at + 1 \in 1 .. Len(connections) /\ connections[at + 1] \in Connection
      BY <1>5 DEF AggregateIp
    <3>2. Table(ips) /\ phase = "ips"
      BY <1>5 DEF Table, AggregateIp
    <3>3. SeenExact(ips, connections, at)
      BY <3>2 DEF Through, Order
    <3>4. Table(AddIps(ips, connections[at + 1]))
      BY <3>1, <3>2, <3>3, SeenStep
    <3> QED BY <1>5, <3>1, <3>4 DEF AggregateIp, scan
  <2> QED BY <1>5, <2>1 DEF AggregateIp, Table, scan, verdict
<1>6. CASE CountIps
  <2> DEFINE public == HowManyIps(TRUE)
             local == HowManyIps(FALSE)
  <2>1. public \in Nat /\ local \in Nat
    <3>1. \A b : {i \in DOMAIN ips : ips[i].public = b} \subseteq 1 .. Len(ips)
      OBVIOUS
    <3>2. Len(ips) \in Nat
      OBVIOUS
    <3>3. \A b : Cardinality({i \in DOMAIN ips : ips[i].public = b}) \in Nat
      BY <3>1, <3>2, Positions, Zenon
    <3> QED BY <3>3, Zenon DEF HowManyIps
  <2>2. totals' = [totals EXCEPT !.public = public, !.local = local]
    BY <1>6, Zenon DEF CountIps
  <2> HIDE DEF public, local
  <2>3. totals' \in [connections : Nat, listeners : Nat, established : Nat, public : Nat, local : Nat]
    BY <2>1, <2>2
  <2> QED BY <1>6, <2>3 DEF CountIps, scan, tables, verdict
<1>7. CASE AggregatePort
  <2>1. ports' \in Seq(PortRow) /\ Len(ports') <= MaxPorts /\ at' \in 0 .. Len(connections')
    <3>1. at \in Nat /\ at + 1 \in 1 .. Len(connections) /\ connections[at + 1] \in Connection
      BY <1>7 DEF AggregatePort
    <3>2. PortsExact(ports, connections, at)
      BY <1>7 DEF Through, Order, AggregatePort
    <3>3. /\ AddPort(ports, connections[at + 1]) \in Seq(PortRow)
          /\ Len(AddPort(ports, connections[at + 1])) <= MaxPorts
      BY <3>1, <3>2, PortsStep
    <3> QED BY <1>7, <3>1, <3>3 DEF AggregatePort, scan
  <2> QED BY <1>7, <2>1 DEF AggregatePort, scan, verdict
<1>8. CASE PortsDone
  BY <1>8 DEF PortsDone, scan, tables, verdict
<1>9. CASE Analyze
  <2> DEFINE kind == Suspicion(connections[at + 1])
             entry == [kind |-> kind, about |-> at + 1]
             guilty == kind # "None"
  <2>1. at + 1 \in 1 .. Len(connections) /\ at + 1 \in Nat /\ at \in Nat
    BY <1>9 DEF Analyze
  <2>2. kind \in Kinds
    BY SuspicionIsKind
  <2>3. /\ connections' = [connections EXCEPT ![at + 1].kind = kind]
        /\ suspicious' = suspicious + One(guilty)
        /\ alerts' = alerts \/ (alerts' = Append(alerts, entry) /\ Len(alerts) < MaxAlerts)
    BY <1>9, Zenon DEF Analyze
  <2> HIDE DEF kind
  <2>4. entry \in Alert
    BY <2>1, <2>2 DEF Alert
  <2>5. One(guilty) \in Nat
    BY DEF One
  <2> HIDE DEF entry, guilty
  <2>6. connections' \in Seq(Connection) /\ Len(connections') = Len(connections)
    <3> DEFINE m == at + 1
    <3>1. connections \in Seq(Connection) /\ m \in 1 .. Len(connections)
      BY <2>1
    <3>2. connections' = JudgedAs(connections, m, kind)
      BY <2>3, Zenon DEF JudgedAs
    <3> HIDE DEF m
    <3> QED BY <2>2, <3>1, <3>2, JudgedConnections
  <2>7. alerts' \in Seq(Alert) /\ Len(alerts') <= MaxAlerts
    <3>1. Append(alerts, entry) \in Seq(Alert) /\ Len(Append(alerts, entry)) = Len(alerts) + 1
          /\ Len(alerts) \in Nat
      BY <2>4
    <3>2. CASE alerts' = alerts
      BY <3>2
    <3>3. CASE alerts' = Append(alerts, entry) /\ Len(alerts) < MaxAlerts
      <4>1. Len(alerts) + 1 <= MaxAlerts
        BY <1>1, <3>1, <3>3
      <4> QED BY <3>1, <3>3, <4>1
    <3> QED BY <2>3, <3>2, <3>3
  <2>8. suspicious' \in Nat
    BY <2>3, <2>5
  <2>9. /\ at' = at + 1 /\ phase' = phase /\ phase = "analyze"
        /\ UNCHANGED <<calls, lines, ips, ports, totals, report>>
    BY <1>9 DEF Analyze, tables
  <2> QED BY <2>1, <2>6, <2>7, <2>8, <2>9
<1>10. CASE AnalyzeIps
  <2> DEFINE many(i) == ips[i].conns > ManyConns
             row(i) == [ips[i] EXCEPT !.many = many(i)]
  <2>1. ips' = [i \in DOMAIN ips |-> row(i)]
    BY <1>10, Zenon DEF AnalyzeIps
  <2>2. \A i \in DOMAIN ips : row(i) \in IpRow /\ row(i).ports = ips[i].ports
    <3> TAKE i \in DOMAIN ips
    <3>1. many(i) \in BOOLEAN /\ ips[i] \in IpRow
      OBVIOUS
    <3> HIDE DEF many
    <3> QED BY <3>1 DEF IpRow
  <2> HIDE DEF row
  <2>3. ips' \in Seq(IpRow) /\ Len(ips') = Len(ips) /\ DOMAIN ips' = DOMAIN ips
    <3>1. DOMAIN ips = 1 .. Len(ips) /\ Len(ips) \in Nat
      OBVIOUS
    <3>2. ips' \in [1 .. Len(ips) -> IpRow]
      BY <2>1, <2>2, <3>1
    <3>3. \A n \in Nat : \A f \in [1 .. n -> IpRow] :
            f \in Seq(IpRow) /\ Len(f) = n /\ DOMAIN f = 1 .. n
      OBVIOUS
    <3> QED BY <3>1, <3>2, <3>3, Zenon
  <2>4. \A i \in DOMAIN ips' : Cardinality(ips'[i].ports) <= MaxPorts
    BY <2>1, <2>2, <2>3
  <2> QED BY <1>10, <2>3, <2>4 DEF AnalyzeIps, scan, verdict
<1>11. CASE Report
  <2> DEFINE kinds == [i \in DOMAIN alerts |-> alerts[i].kind]
  <2>1. kinds \in [1 .. Len(alerts) -> Kinds] /\ Len(alerts) \in Nat
    <3>1. DOMAIN alerts = 1 .. Len(alerts) /\ Len(alerts) \in Nat
      OBVIOUS
    <3>2. \A i \in DOMAIN alerts : alerts[i].kind \in Kinds
      <4> TAKE i \in DOMAIN alerts
      <4>1. alerts[i] \in Alert
        BY <3>1
      <4> QED BY <4>1 DEF Alert
    <3> QED BY <3>1, <3>2
  <2>2. NetinspectReport(kinds, ReportLimit) \in Seq(Result)
    <3> HIDE DEF kinds
    <3> QED BY <1>1, <2>1, ReportParts
  <2>3. report' \in Seq(Result)
    BY <1>11, <2>2 DEF Report
  <2> QED BY <1>11, <2>3 DEF Report, scan, tables
<1>12. CASE UNCHANGED vars
  BY <1>12 DEF vars, scan, tables, verdict
<1> QED BY <1>2, <1>3, <1>4, <1>5, <1>6, <1>7, <1>8, <1>9, <1>10, <1>11, <1>12 DEF Next

-----------------------------------------------------------------------------
(* What is kept: each step but one of a loop leaves that loop where it is, and
   the connections it is through with as they were. *)

SameButKind(c, d) ==
  /\ d.proto = c.proto /\ d.state = c.state /\ d.local = c.local /\ d.localPort = c.localPort
  /\ d.remote = c.remote /\ d.process = c.process

LEMMA ConnectionsKept ==
  ASSUME IInv, [Next]_vars
  PROVE  \A k \in DOMAIN connections :
           /\ k \in DOMAIN connections'
           /\ SameButKind(connections[k], connections'[k])
           /\ k # at + 1 => connections'[k] = connections[k]
           /\ ~Analyze => connections'[k] = connections[k]
<1>1. connections \in Seq(Connection) /\ at \in Nat
  BY DEF IInv, TypeOK
<1>2. CASE connections' = connections
  BY <1>2 DEF SameButKind
<1>3. CASE ReadLine /\ connections' # connections
  <2>1. connections' = Append(connections, Parsed(Head(lines)))
    BY <1>3, Zenon DEF ReadLine
  <2>2. \A k \in DOMAIN connections :
          k \in DOMAIN connections' /\ connections'[k] = connections[k]
    BY <1>1, <2>1
  <2> QED BY <2>2 DEF SameButKind
<1>4. CASE Analyze
  <2> DEFINE kind == Suspicion(connections[at + 1])
             m == at + 1
  <2>1. connections' = JudgedAs(connections, m, kind)
    BY <1>4, Zenon DEF Analyze, JudgedAs
  <2>2. kind \in Kinds
    BY SuspicionIsKind
  <2>3. m \in 1 .. Len(connections)
    BY <1>1, <1>4 DEF Analyze, IInv, TypeOK
  <2> HIDE DEF kind, m
  <2>4. /\ DOMAIN connections' = DOMAIN connections
        /\ connections'[m] = [connections[m] EXCEPT !.kind = kind]
        /\ \A k \in DOMAIN connections : k # m => connections'[k] = connections[k]
    BY <1>1, <2>1, <2>2, <2>3, JudgedConnections
  <2>5. SameButKind(connections[m], connections'[m])
    <3>1. connections[m] \in Connection
      BY <1>1, <2>3
    <3> QED BY <2>4, <3>1 DEF SameButKind, Connection
  <2>6. \A k \in DOMAIN connections : SameButKind(connections[k], connections'[k])
    <3> TAKE k \in DOMAIN connections
    <3>1. CASE k = m
      BY <2>5, <3>1
    <3>2. CASE k # m
      BY <2>4, <3>2 DEF SameButKind
    <3> QED BY <3>1, <3>2
  <2> QED BY <1>4, <2>4, <2>6, Zenon DEF m
<1>5. connections' = connections \/ ReadLine \/ Analyze
  <2>1. CASE UNCHANGED vars
    BY <2>1, Zenon DEF vars, scan
  <2>2. CASE Next
    BY <2>2, Zenon DEF Next, ReadCall, CountStates, AggregateIp, CountIps, AggregatePort, PortsDone,
                       AnalyzeIps, Report, scan
  <2> QED BY <2>1, <2>2
<1> QED BY <1>2, <1>3, <1>4, <1>5

LEMMA Advances ==
  ASSUME IInv, [Next]_vars
  PROVE  /\ \A p \in {"ips", "ports", "analyze"} : Through(p) \in 0 .. Len(connections)
         /\ \/ AggregateIp /\ Through("ips") = at /\ Through("ips")' = at + 1
            \/ (ips' = ips \/ AnalyzeIps) /\ Through("ips")' = Through("ips")
         /\ \/ AggregatePort /\ Through("ports") = at /\ Through("ports")' = at + 1
            \/ ports' = ports /\ Through("ports")' = Through("ports")
         /\ \/ Analyze /\ Through("analyze") = at /\ Through("analyze")' = at + 1
            \/ /\ ~Analyze /\ UNCHANGED <<alerts, suspicious>>
               /\ Through("analyze")' = Through("analyze")
<1>1. TypeOK /\ InTurn /\ Len(connections) \in Nat /\ at \in 0 .. Len(connections)
  BY DEF IInv, TypeOK
<1>2. \A p \in {"ips", "ports", "analyze"} : Through(p) \in 0 .. Len(connections)
  BY <1>1 DEF Through
<1>3. CASE ReadCall
  BY <1>1, <1>2, <1>3 DEF ReadCall, Analyze, tables, verdict, Through, Order, TypeOK, InTurn
<1>4. CASE ReadLine
  BY <1>1, <1>2, <1>4 DEF ReadLine, Analyze, tables, verdict, Through, Order, TypeOK, InTurn
<1>5. CASE CountStates
  BY <1>1, <1>2, <1>5 DEF CountStates, Analyze, scan, tables, verdict, Through, Order, TypeOK, InTurn
<1>6. CASE AggregateIp
  BY <1>1, <1>2, <1>6 DEF AggregateIp, Analyze, scan, verdict, Through, Order, TypeOK, InTurn
<1>7. CASE CountIps
  BY <1>1, <1>2, <1>7 DEF CountIps, Analyze, scan, tables, verdict, Through, Order, TypeOK, InTurn
<1>8. CASE AggregatePort
  BY <1>1, <1>2, <1>8 DEF AggregatePort, Analyze, scan, verdict, Through, Order, TypeOK, InTurn
<1>9. CASE PortsDone
  BY <1>1, <1>2, <1>9 DEF PortsDone, Analyze, scan, tables, verdict, Through, Order, TypeOK, InTurn
<1>10. CASE Analyze
  BY <1>1, <1>2, <1>10 DEF Analyze, tables, Through, Order, TypeOK, InTurn
<1>11. CASE AnalyzeIps
  BY <1>1, <1>2, <1>11 DEF AnalyzeIps, Analyze, scan, verdict, Through, Order, TypeOK, InTurn
<1>12. CASE Report
  BY <1>1, <1>2, <1>12 DEF Report, Analyze, scan, tables, Through, Order, TypeOK, InTurn
<1>13. CASE UNCHANGED vars
  <2>1. at \in Nat /\ at' = at
    BY <1>1, <1>13 DEF vars
  <2> QED BY <1>1, <1>2, <1>13, <2>1 DEF vars, scan, tables, verdict, Analyze, Through, Order
<1> QED BY <1>3, <1>4, <1>5, <1>6, <1>7, <1>8, <1>9, <1>10, <1>11, <1>12, <1>13 DEF Next

-----------------------------------------------------------------------------
(* Each step keeps the tables exact, the alerts the first and the report
   faithful. *)

LEMMA PortsKept ==
  ASSUME IInv, [Next]_vars
  PROVE  PortsExact(ports, connections, Through("ports"))'
<1> DEFINE n == Through("ports")
<1>1. /\ n \in 0 .. Len(connections) /\ DOMAIN connections = 1 .. Len(connections)
      /\ Len(connections) \in Nat
  BY Advances DEF IInv, TypeOK
<1>2. PortsExact(ports, connections, n)
  BY DEF IInv
<1>3. CASE AggregatePort /\ n = at /\ n' = at + 1
  <2>1. /\ ports \in Seq(PortRow) /\ Len(ports) <= MaxPorts
        /\ at \in Nat /\ connections[at + 1] \in Connection
    BY <1>3 DEF IInv, TypeOK, AggregatePort
  <2>2. PortsExact(AddPort(ports, connections[at + 1]), connections, at + 1)
    BY <1>2, <1>3, <2>1, PortsStep
  <2>3. ports' = AddPort(ports, connections[at + 1]) /\ connections' = connections
    BY <1>3 DEF AggregatePort, scan
  <2> HIDE DEF n
  <2> QED BY <1>3, <2>2, <2>3 DEF n
<1>4. CASE ports' = ports /\ n' = n
  <2>1. \A k \in 1 .. n : SameButKind(connections[k], connections'[k])
    BY <1>1, ConnectionsKept
  <2> HIDE DEF n
  <2>2. \A k \in 1 .. n :
          /\ connections'[k].localPort = connections[k].localPort
          /\ connections'[k].proto = connections[k].proto
          /\ connections'[k].state = connections[k].state
    BY <2>1 DEF SameButKind
  <2>3. PortsExact(ports, connections', n)
    BY <1>1, <1>2, <2>2, PortsSame
  <2> QED BY <1>4, <2>3 DEF n
<1> QED BY <1>3, <1>4, Advances

(* Only the flag of a row that says it has too many connections is set. *)
LEMMA ManyIsOutside ==
  ASSUME NEW t, NEW u, NEW cs, NEW n, SeenExact(t, cs, n),
         Len(u) = Len(t), DOMAIN u = DOMAIN t,
         \A i \in DOMAIN t : /\ u[i].addr = t[i].addr /\ u[i].public = t[i].public
                             /\ u[i].conns = t[i].conns
  PROVE  SeenExact(u, cs, n)
<1> DEFINE S == Seen(cs, n)
<1>1. IpsExact(t, cs, S, S)
  BY DEF SeenExact
<1> HIDE DEF S
<1>2. \A i, j \in DOMAIN u : u[i].addr = u[j].addr => i = j
  BY <1>1 DEF IpsExact
<1>3. \A i \in DOMAIN u :
        /\ u[i].addr \notin Unlisted /\ u[i].public = IsPublic(u[i].addr)
        /\ u[i].conns = Cardinality(LocalAt(cs, S, u[i].addr))
                          + Cardinality(RemoteAt(cs, S, u[i].addr))
  BY <1>1 DEF IpsExact
<1>4. Len(u) < MaxIps =>
        /\ \A k \in S : \E i \in DOMAIN u : u[i].addr = cs[k].local
        /\ \A k \in S : cs[k].remote \notin Unlisted =>
             \E i \in DOMAIN u : u[i].addr = cs[k].remote
  BY <1>1 DEF IpsExact
<1>5. IpsExact(u, cs, S, S)
  BY <1>2, <1>3, <1>4, Zenon DEF IpsExact
<1> QED BY <1>5 DEF SeenExact, S

LEMMA IpsKept ==
  ASSUME IInv, [Next]_vars
  PROVE  SeenExact(ips, connections, Through("ips"))'
<1> DEFINE n == Through("ips")
<1>1. /\ n \in 0 .. Len(connections) /\ DOMAIN connections = 1 .. Len(connections)
      /\ Len(connections) \in Nat
  BY Advances DEF IInv, TypeOK
<1>2. SeenExact(ips, connections, n)
  BY DEF IInv
<1>3. CASE AggregateIp /\ n = at /\ n' = at + 1
  <2>1. Table(ips) /\ at \in Nat /\ connections[at + 1] \in Connection
    BY <1>3 DEF IInv, TypeOK, AggregateIp, Table
  <2>2. SeenExact(AddIps(ips, connections[at + 1]), connections, at + 1)
    BY <1>2, <1>3, <2>1, SeenStep
  <2>3. ips' = AddIps(ips, connections[at + 1]) /\ connections' = connections
    BY <1>3 DEF AggregateIp, scan
  <2> HIDE DEF n
  <2> QED BY <1>3, <2>2, <2>3 DEF n
<1>4. CASE ips' = ips /\ n' = n
  <2>1. \A k \in 1 .. n : SameButKind(connections[k], connections'[k])
    BY <1>1, ConnectionsKept
  <2> HIDE DEF n
  <2>2. \A k \in 1 .. n : /\ connections'[k].local = connections[k].local
                         /\ connections'[k].remote = connections[k].remote
    BY <2>1 DEF SameButKind
  <2>3. SeenExact(ips, connections', n)
    BY <1>1, <1>2, <2>2, SeenSame
  <2> QED BY <1>4, <2>3 DEF n
<1>5. CASE AnalyzeIps /\ n' = n
  <2> DEFINE many(i) == ips[i].conns > ManyConns
             row(i) == [ips[i] EXCEPT !.many = many(i)]
  <2>1. ips \in Seq(IpRow)
    BY DEF IInv, TypeOK
  <2>2. ips' = [i \in DOMAIN ips |-> row(i)] /\ connections' = connections
    BY <1>5, Zenon DEF AnalyzeIps, scan
  <2>3. \A i \in DOMAIN ips : /\ row(i).addr = ips[i].addr /\ row(i).public = ips[i].public
                             /\ row(i).conns = ips[i].conns
    <3> TAKE i \in DOMAIN ips
    <3>1. ips[i] \in IpRow
      BY <2>1
    <3> HIDE DEF many
    <3> QED BY <3>1 DEF IpRow
  <2> HIDE DEF row
  <2>4. Len(ips') = Len(ips) /\ DOMAIN ips' = DOMAIN ips
    BY <2>1, <2>2
  <2>5. \A i \in DOMAIN ips : /\ ips'[i].addr = ips[i].addr /\ ips'[i].public = ips[i].public
                             /\ ips'[i].conns = ips[i].conns
    BY <2>2, <2>3
  <2> HIDE DEF n
  <2>6. SeenExact(ips', connections, n)
    BY <1>2, <2>4, <2>5, ManyIsOutside
  <2> QED BY <1>5, <2>2, <2>6 DEF n
<1> QED BY <1>3, <1>4, <1>5, Advances

LEMMA LocalKept ==
  ASSUME IInv, [Next]_vars
  PROVE  LocalExact(ips, connections, Seen(connections, Through("ips")))'
<1> DEFINE n == Through("ips")
           S == Seen(connections, n)
<1>1. /\ n \in 0 .. Len(connections) /\ DOMAIN connections = 1 .. Len(connections)
      /\ Len(connections) \in Nat
  BY Advances DEF IInv, TypeOK
<1>2. SeenExact(ips, connections, n) /\ LocalExact(ips, connections, S)
  BY DEF IInv
<1>3. CASE AggregateIp /\ n = at /\ n' = at + 1
  <2>1. Table(ips) /\ at \in Nat /\ connections[at + 1] \in Connection
    BY <1>3 DEF IInv, TypeOK, AggregateIp, Table
  <2>2. LocalExact(AddIps(ips, connections[at + 1]), connections, Seen(connections, at + 1))
    BY <1>2, <1>3, <2>1, LocalStep
  <2>3. ips' = AddIps(ips, connections[at + 1]) /\ connections' = connections
    BY <1>3 DEF AggregateIp, scan
  <2>4. Seen(connections', n') = Seen(connections, at + 1)
    BY <1>3, <2>3, Zenon
  <2> HIDE DEF n
  <2>5. LocalExact(ips', connections', Seen(connections', n'))
    BY <2>2, <2>3, <2>4
  <2> QED BY <2>5 DEF n
<1>4. ASSUME (ips' = ips \/ AnalyzeIps) /\ n' = n
      PROVE  LocalExact(ips', connections', Seen(connections', n'))
  <2>1. \A k \in 1 .. n : SameButKind(connections[k], connections'[k])
    BY <1>1, ConnectionsKept
  <2> HIDE DEF n
  <2>2. \A k \in 1 .. n : /\ connections'[k].local = connections[k].local
                         /\ connections'[k].localPort = connections[k].localPort
                         /\ connections'[k].state = connections[k].state
    BY <2>1 DEF SameButKind
  <2>3. Seen(connections', n') = S /\ S \subseteq 1 .. n
    BY <1>4, <2>2 DEF Seen
  <2>4. DOMAIN ips' = DOMAIN ips /\ \A i \in DOMAIN ips :
          /\ ips'[i].addr = ips[i].addr
          /\ ips'[i].listens = ips[i].listens /\ ips'[i].ports = ips[i].ports
    <3>1. CASE ips' = ips
      BY <3>1
    <3>2. CASE AnalyzeIps
      <4> DEFINE many(i) == ips[i].conns > ManyConns
                 row(i) == [ips[i] EXCEPT !.many = many(i)]
      <4>1. ips \in Seq(IpRow)
        BY DEF IInv, TypeOK
      <4>2. ips' = [i \in DOMAIN ips |-> row(i)]
        BY <3>2, Zenon DEF AnalyzeIps
      <4>3. \A i \in DOMAIN ips : /\ row(i).addr = ips[i].addr /\ row(i).listens = ips[i].listens
                                 /\ row(i).ports = ips[i].ports
        <5> TAKE i \in DOMAIN ips
        <5>1. ips[i] \in IpRow
          BY <4>1
        <5> HIDE DEF many
        <5> QED BY <5>1 DEF IpRow
      <4> HIDE DEF row
      <4> QED BY <4>2, <4>3
    <3> QED BY <1>4, <3>1, <3>2
  <2> HIDE DEF S
  <2>5. \A k \in S : /\ connections'[k].local = connections[k].local
                     /\ connections'[k].localPort = connections[k].localPort
                     /\ connections'[k].state = connections[k].state
    BY <2>2, <2>3
  <2>6. LocalExact(ips', connections', S)
    BY <1>2, <2>4, <2>5, LocalSame
  <2> QED BY <2>3, <2>6
<1> QED BY <1>3, <1>4, Advances

LEMMA ToldKept ==
  ASSUME IInv, [Next]_vars
  PROVE  Told'
<1>1. CASE Report
  BY <1>1, Zenon DEF Report, Told
<1>2. CASE UNCHANGED vars
  BY <1>2, Zenon DEF vars, verdict, Told, IInv
<1>3. ReadCall \/ ReadLine \/ AggregateIp \/ AggregatePort \/ Analyze => phase' = phase /\ phase # "over"
  BY DEF ReadCall, ReadLine, AggregateIp, AggregatePort, Analyze
<1>4. CountStates \/ CountIps \/ PortsDone \/ AnalyzeIps => phase' # "over"
  BY DEF CountStates, CountIps, PortsDone, AnalyzeIps
<1> QED BY <1>1, <1>2, <1>3, <1>4 DEF Next, Told

(* AlertsAreTheFirst for the positions found so far. *)
AlertsFor(found, n, as) ==
  /\ n = Cardinality(found)
  /\ Len(as) = (IF n < MaxAlerts THEN n ELSE MaxAlerts)
  /\ \A i \in DOMAIN as :
       /\ as[i].about \in found
       /\ Cardinality({k \in found : k <= as[i].about}) = i

LEMMA LastAppended ==
  ASSUME NEW R, NEW seq \in Seq(R), NEW x \in R
  PROVE  /\ Len(Append(seq, x)) = Len(seq) + 1 /\ Append(seq, x)[Len(seq) + 1] = x
         /\ \A i \in DOMAIN Append(seq, x) :
              i = Len(seq) + 1 \/ (i \in DOMAIN seq /\ Append(seq, x)[i] = seq[i])
<1> DEFINE longer == Append(seq, x)
<1>1. /\ Len(longer) = Len(seq) + 1 /\ DOMAIN longer = 1 .. Len(seq) + 1
      /\ DOMAIN seq = 1 .. Len(seq) /\ Len(seq) \in Nat
      /\ longer[Len(seq) + 1] = x /\ \A i \in 1 .. Len(seq) : longer[i] = seq[i]
  OBVIOUS
<1> HIDE DEF longer
<1>2. \A i \in DOMAIN longer : i = Len(seq) + 1 \/ (i \in DOMAIN seq /\ longer[i] = seq[i])
  BY <1>1
<1> QED BY <1>1, <1>2, Zenon DEF longer

LEMMA FoundOne ==
  ASSUME NEW m \in Nat, NEW found, found \subseteq 1 .. m, NEW top, top = m + 1,
         NEW as \in Seq(Alert), NEW n \in Nat,
         AlertsFor(found, n, as), NEW more, \A k : k \in more <=> k \in found \/ k = top,
         NEW new \in Alert, new.about = top,
         NEW bs, Len(as) < MaxAlerts => bs = Append(as, new), ~(Len(as) < MaxAlerts) => bs = as
  PROVE  AlertsFor(more, n + 1, bs)
<1>1. IsFiniteSet(found) /\ Cardinality(found) \in Nat
  BY Positions
<1>2. top \notin found
  OBVIOUS
<1>3. Cardinality(more) = n + 1
  <2>1. Cardinality(more) = Cardinality(found) + 1
    BY <1>2, OneMore
  <2> QED BY <2>1 DEF AlertsFor
<1>4. MaxAlerts \in Nat /\ Len(as) \in Nat /\ Len(as) = (IF n < MaxAlerts THEN n ELSE MaxAlerts)
  BY NetinspectAssumption DEF AlertsFor
<1>5. top \in Nat /\ \A k \in found : k \in Nat /\ ~(top <= k) /\ k <= top
  OBVIOUS
<1>6. ASSUME NEW i \in DOMAIN as
      PROVE  as[i].about \in more /\ Cardinality({k \in more : k <= as[i].about}) = i
  <2> DEFINE a == as[i].about
  <2>1. a \in found /\ Cardinality({k \in found : k <= a}) = i
    BY DEF AlertsFor
  <2>2. ~(top <= a)
    BY <1>5, <2>1, Zenon
  <2> HIDE DEF a
  <2>3. {k \in more : k <= a} = {k \in found : k <= a}
    BY <2>2, Zenon
  <2>4. a \in more /\ Cardinality({k \in more : k <= a}) = i
    BY <2>1, <2>3, Zenon
  <2> QED BY <2>4 DEF a
<1>7. CASE Len(as) < MaxAlerts
  <2>1. bs = Append(as, new)
    BY <1>7, Zenon
  <2>2. Len(as) = n
    BY <1>4, <1>7
  <2>3. /\ Len(bs) = n + 1 /\ bs[n + 1] = new
        /\ \A i \in DOMAIN bs : i = n + 1 \/ (i \in DOMAIN as /\ bs[i] = as[i])
    <3>1. /\ Len(Append(as, new)) = Len(as) + 1 /\ Append(as, new)[Len(as) + 1] = new
          /\ \A i \in DOMAIN Append(as, new) :
               i = Len(as) + 1 \/ (i \in DOMAIN as /\ Append(as, new)[i] = as[i])
      BY LastAppended, Zenon
    <3> QED BY <2>1, <2>2, <3>1, Zenon
  <2>4. {k \in more : k <= top} = more /\ top \in more
    <3>1. top <= top
      BY <1>5
    <3>2. \A k \in more : k <= top
      BY <1>5, <3>1, Zenon
    <3> QED BY <3>2, Zenon
  <2>5. \A i \in DOMAIN bs :
          bs[i].about \in more /\ Cardinality({k \in more : k <= bs[i].about}) = i
    <3> TAKE i \in DOMAIN bs
    <3>1. CASE i = n + 1
      <4>1. bs[i].about = top
        BY <2>3, <3>1
      <4> QED BY <1>3, <2>4, <3>1, <4>1, Zenon
    <3>2. CASE i \in DOMAIN as /\ bs[i] = as[i]
      BY <1>6, <3>2, Zenon
    <3> QED BY <2>3, <3>1, <3>2
  <2>6. Len(bs) = IF n + 1 < MaxAlerts THEN n + 1 ELSE MaxAlerts
    BY <1>4, <1>7, <2>2, <2>3
  <2> QED BY <1>3, <2>5, <2>6 DEF AlertsFor
<1>8. CASE ~(Len(as) < MaxAlerts)
  <2>1. bs = as
    BY <1>8, Zenon
  <2>2. Len(bs) = IF n + 1 < MaxAlerts THEN n + 1 ELSE MaxAlerts
    <3>1. Len(as) = MaxAlerts /\ ~(n + 1 < MaxAlerts)
      BY <1>4, <1>8
    <3> QED BY <2>1, <3>1, Zenon
  <2>3. \A i \in DOMAIN bs :
          bs[i].about \in more /\ Cardinality({k \in more : k <= bs[i].about}) = i
    BY <1>6, <2>1, Zenon
  <2> QED BY <1>3, <2>2, <2>3 DEF AlertsFor
<1> QED BY <1>7, <1>8

Found == {k \in 1 .. Through("analyze") : connections[k].kind # "None"}

LEMMA SuspicionOfFields ==
  ASSUME NEW c, NEW d, SameButKind(c, d)
  PROVE  Suspicion(d) = Suspicion(c)
BY DEF SameButKind, Suspicion, OnBackdoorPort, OnHighPort, TalksOutside

LEMMA AlertsKept ==
  ASSUME IInv, [Next]_vars
  PROVE  AlertsAreTheFirst' /\ Judged'
<1> DEFINE n == Through("analyze")
<1>1. /\ n \in Nat /\ n <= Len(connections) /\ DOMAIN connections = 1 .. Len(connections)
      /\ Len(connections) \in Nat /\ connections \in Seq(Connection)
      /\ alerts \in Seq(Alert) /\ suspicious \in Nat
  <2>1. n \in 0 .. Len(connections) /\ Len(connections) \in Nat
    BY Advances DEF IInv, TypeOK
  <2> QED BY <2>1 DEF IInv, TypeOK, Reading
<1>2. AlertsFor(Found, suspicious, alerts) /\ Found \subseteq 1 .. n
  BY Zenon DEF IInv, AlertsAreTheFirst, AlertsFor, Found
<1>3. /\ \A k \in 1 .. n : connections[k].kind = Suspicion(connections[k])
      /\ \A i \in DOMAIN alerts : alerts[i].kind = connections[alerts[i].about].kind
      /\ \A i \in DOMAIN alerts : alerts[i].about \in 1 .. n
  <2>1. \A i \in DOMAIN alerts : alerts[i].about \in Found
    BY <1>2 DEF AlertsFor
  <2>2. \A i \in DOMAIN alerts : alerts[i].about \in 1 .. n
    BY <1>2, <2>1, Zenon
  <2> QED BY <2>2, Zenon DEF IInv, Judged
<1>4. AlertsFor(Found', suspicious', alerts') => AlertsAreTheFirst'
  BY Zenon DEF AlertsAreTheFirst, AlertsFor, Found
<1>5. CASE ~Analyze /\ UNCHANGED <<alerts, suspicious>> /\ n' = n
  <2>1. \A k \in 1 .. n : connections'[k] = connections[k]
    BY <1>1, <1>5, ConnectionsKept
  <2>2. Found' = Found
    <3>1. 1 .. n' = 1 .. n
      BY <1>5, Zenon
    <3> HIDE DEF n
    <3>2. {k \in 1 .. n' : connections'[k].kind # "None"} = {k \in 1 .. n : connections[k].kind # "None"}
      BY <2>1, <3>1
    <3> QED BY <3>2, Zenon DEF Found, n
  <2>3. AlertsAreTheFirst'
    BY <1>2, <1>4, <1>5, <2>2, Zenon
  <2>4. Judged'
    <3>1. /\ \A k \in 1 .. n : connections'[k].kind = Suspicion(connections'[k])
          /\ \A i \in DOMAIN alerts : alerts[i].kind = connections'[alerts[i].about].kind
      BY <1>3, <2>1, Zenon
    <3> QED BY <1>5, <3>1, Zenon DEF Judged
  <2> QED BY <2>3, <2>4
<1>6. CASE Analyze /\ n = at /\ n' = at + 1
  <2> DEFINE kind == Suspicion(connections[at + 1])
             m == at + 1
             new == [kind |-> kind, about |-> m]
  <2>1. m \in 1 .. Len(connections) /\ m = n + 1 /\ n' = m
    BY <1>1, <1>6 DEF Analyze
  <2>2. kind \in Kinds
    BY SuspicionIsKind
  <2>3. connections' = JudgedAs(connections, m, kind)
    BY <1>6, Zenon DEF Analyze, JudgedAs
  <2>4. /\ suspicious' = suspicious + One(kind # "None")
        /\ alerts' = IF kind # "None" /\ Len(alerts) < MaxAlerts THEN Append(alerts, new) ELSE alerts
    BY <1>6, Zenon DEF Analyze
  <2>5. \A k \in 1 .. n : connections'[k] = connections[k]
    BY <1>1, <1>6, ConnectionsKept
  <2>6. SameButKind(connections[m], connections'[m])
    BY <1>1, <2>1, ConnectionsKept
  <2>7. kind = Suspicion(connections'[m])
    BY <2>6, SuspicionOfFields
  <2> HIDE DEF kind, m
  <2>8. connections'[m].kind = kind
    <3>1. connections \in Seq(Connection) /\ m \in 1 .. Len(connections)
      BY <1>1, <2>1
    <3> HIDE DEF n
    <3>2. connections'[m] = [connections[m] EXCEPT !.kind = kind]
      BY <2>2, <2>3, <3>1, JudgedConnections
    <3>3. connections[m] \in Connection
      BY <3>1
    <3> QED BY <3>2, <3>3 DEF Connection
  <2>9. new \in Alert /\ new.about = m /\ new.kind = kind
    BY <2>1, <2>2 DEF Alert
  <2> HIDE DEF new, n
  <2>10. \A k : k \in Found' <=> k \in Found \/ (k = m /\ kind # "None")
    <3>1. \A k : k \in 1 .. n' <=> k \in 1 .. n \/ k = m
      BY <1>1, <2>1
    <3>2. Found' = {k \in 1 .. n' : connections'[k].kind # "None"}
      BY Zenon DEF Found, n
    <3>3. Found = {k \in 1 .. n : connections[k].kind # "None"}
      BY Zenon DEF Found, n
    <3> QED BY <2>5, <2>8, <3>1, <3>2, <3>3, Zenon
  <2>11. \A k \in 1 .. n' : connections'[k].kind = Suspicion(connections'[k])
    <3>1. \A k : k \in 1 .. n' => k \in 1 .. n \/ k = m
      BY <1>1, <2>1
    <3> QED BY <1>3, <2>5, <2>7, <2>8, <3>1, Zenon
  <2>12. CASE kind # "None"
    <3>1. suspicious' = suspicious + 1
      BY <2>4, <2>12 DEF One
    <3>2. alerts' = IF Len(alerts) < MaxAlerts THEN Append(alerts, new) ELSE alerts
      BY <2>4, <2>12, Zenon
    <3>3. \A k : k \in Found' <=> k \in Found \/ k = m
      BY <2>10, <2>12, Zenon
    <3>4. AlertsFor(Found', suspicious + 1, alerts')
      BY <1>1, <1>2, <2>1, <2>9, <3>2, <3>3, FoundOne
    <3>5. \A i \in DOMAIN alerts' : alerts'[i] = new \/ (i \in DOMAIN alerts /\ alerts'[i] = alerts[i])
      <4>1. CASE Len(alerts) < MaxAlerts
        <5>1. alerts' = Append(alerts, new)
          BY <3>2, <4>1
        <5> QED BY <1>1, <5>1
      <4>2. CASE ~(Len(alerts) < MaxAlerts)
        BY <3>2, <4>2
      <4> QED BY <4>1, <4>2
    <3>6. \A i \in DOMAIN alerts' : alerts'[i].kind = connections'[alerts'[i].about].kind
      <4> TAKE i \in DOMAIN alerts'
      <4>1. CASE alerts'[i] = new
        BY <2>8, <2>9, <4>1
      <4>2. CASE i \in DOMAIN alerts /\ alerts'[i] = alerts[i]
        BY <1>3, <2>5, <4>2, Zenon
      <4> QED BY <3>5, <4>1, <4>2
    <3>7. AlertsAreTheFirst'
      BY <1>4, <3>1, <3>4, Zenon
    <3>8. Judged'
      BY <2>11, <3>6, Zenon DEF Judged, n
    <3> QED BY <3>7, <3>8
  <2>13. CASE kind = "None"
    <3>1. suspicious' = suspicious /\ alerts' = alerts
      <4>1. One(kind # "None") = 0
        BY <2>13 DEF One
      <4> QED BY <1>1, <2>4, <2>13, <4>1
    <3>2. Found' = Found
      BY <2>10, <2>13, Zenon
    <3>3. AlertsAreTheFirst'
      BY <1>2, <1>4, <3>1, <3>2, Zenon
    <3>4. \A i \in DOMAIN alerts : alerts[i].kind = connections'[alerts[i].about].kind
      BY <1>3, <2>5, Zenon
    <3>5. Judged'
      BY <2>11, <3>1, <3>4, Zenon DEF Judged, n
    <3> QED BY <3>3, <3>5
  <2> QED BY <2>12, <2>13
<1> QED BY <1>5, <1>6, Advances

-----------------------------------------------------------------------------
(* The invariant. *)

LEMMA Initially == Init => IInv
<1> SUFFICES ASSUME Init PROVE IInv
  OBVIOUS
<1> USE DEF Init
<1>1. \A p \in {"ips", "ports", "analyze"} : Through(p) = 0
  BY DEF Through, Order
<1>2. TypeOK
  <2>1. /\ MaxConnections \in Nat /\ MaxIps \in Nat /\ MaxPorts \in Nat /\ MaxAlerts \in Nat
    BY NetinspectAssumption
  <2>2. /\ Len(connections) = 0 /\ Len(ips) = 0 /\ Len(ports) = 0 /\ Len(alerts) = 0
        /\ DOMAIN ips = {} /\ connections \in Seq(Connection) /\ ips \in Seq(IpRow)
        /\ ports \in Seq(PortRow) /\ alerts \in Seq(Alert) /\ report \in Seq(Result)
    OBVIOUS
  <2>3. totals \in [connections : Nat, listeners : Nat, established : Nat, public : Nat, local : Nat]
    OBVIOUS
  <2> QED BY <2>1, <2>2, <2>3 DEF TypeOK
<1>3. Reading /\ InTurn
  <2>1. calls \in Seq(Outputs)
    <3>1. calls \in [1 .. 2 -> Outputs]
      OBVIOUS
    <3>2. \A n \in Nat : [1 .. n -> Outputs] \subseteq Seq(Outputs)
      OBVIOUS
    <3>3. 2 \in Nat
      OBVIOUS
    <3> QED BY <3>1, <3>2, <3>3, Zenon
  <2>2. lines \in Seq(Line)
    OBVIOUS
  <2> QED BY <2>1, <2>2 DEF Reading, InTurn
<1>4. PortsExact(ports, connections, Through("ports"))
  <2>1. DOMAIN ports = {} /\ 1 .. Through("ports") = {}
    BY <1>1
  <2> QED BY <2>1, Zenon DEF PortsExact
<1>5. SeenExact(ips, connections, Through("ips"))
  <2>1. DOMAIN ips = {} /\ 1 .. Through("ips") = {}
    BY <1>1
  <2>2. Seen(connections, Through("ips")) = {}
    BY <2>1, Zenon DEF Seen
  <2> QED BY <2>1, <2>2, Zenon DEF SeenExact, IpsExact
<1>8. LocalExact(ips, connections, Seen(connections, Through("ips")))
  <2>1. DOMAIN ips = {}
    OBVIOUS
  <2> QED BY <2>1, Zenon DEF LocalExact
<1>6. AlertsAreTheFirst
  <2>1. DOMAIN alerts = {} /\ 1 .. Through("analyze") = {} /\ Len(alerts) = 0
    BY <1>1
  <2>2. Found = {}
    BY <2>1, Zenon DEF Found
  <2>3. Cardinality(Found) = 0
    BY <2>2, FS_EmptySet, Zenon
  <2>4. Len(alerts) = IF suspicious < MaxAlerts THEN suspicious ELSE MaxAlerts
    <3>1. MaxAlerts \in Nat
      BY NetinspectAssumption
    <3> QED BY <2>1, <3>1
  <2>5. suspicious = 0
    OBVIOUS
  <2> QED BY <2>1, <2>3, <2>4, <2>5, Zenon DEF AlertsAreTheFirst, Found
<1>7. Judged /\ Told
  <2>1. DOMAIN alerts = {} /\ 1 .. Through("analyze") = {} /\ phase # "over"
    BY <1>1
  <2> QED BY <2>1, Zenon DEF Judged, Told
<1> QED BY <1>2, <1>3, <1>4, <1>5, <1>6, <1>7, <1>8 DEF IInv

(* Every step of the inspector keeps the invariant. *)
THEOREM Invariance == Spec => []IInv
<1>1. IInv /\ [Next]_vars => IInv'
  <2> SUFFICES ASSUME IInv, [Next]_vars PROVE IInv'
    OBVIOUS
  <2>1. TypeOK' /\ Reading' /\ InTurn'
    BY TypesKept
  <2>2. PortsExact(ports, connections, Through("ports"))'
    BY PortsKept
  <2>3. SeenExact(ips, connections, Through("ips"))'
    BY IpsKept
  <2>4. LocalExact(ips, connections, Seen(connections, Through("ips")))'
    BY LocalKept
  <2>5. AlertsAreTheFirst' /\ Judged'
    BY AlertsKept
  <2>6. Told'
    BY ToldKept
  <2> QED BY <2>1, <2>2, <2>3, <2>4, <2>5, <2>6, Zenon DEF IInv
<1> QED BY Initially, <1>1, PTL DEF Spec

(* The lists never outgrow their bounds and hold what they should, whatever
   sockstat prints (netinspect.rs). *)
THEOREM TypeCorrect == Spec => []TypeOK
<1>1. IInv => TypeOK
  BY DEF IInv
<1> QED BY <1>1, Invariance, PTL

(* Every row of the tables of addresses and ports says exactly what the
   connections it is about say, and only a full table leaves an address or a
   port out; where addresses are concerned, of the connections with a local
   address of their own (netinspect_aggregate_ips, netinspect_aggregate_ports). *)
THEOREM TablesCountTheConnections == Spec => []TablesAreExact
<1>1. IInv => TablesAreExact
  <2> SUFFICES ASSUME IInv PROVE TablesAreExact
    OBVIOUS
  <2>1. PortsAreExact
    <3>1. PortsExact(ports, connections, Through("ports"))
      BY DEF IInv
    <3> QED BY <3>1, Zenon DEF PortsExact, AtPort, PortsAreExact, Count
  <2>2. IpsAreExact
    <3>1. /\ SeenExact(ips, connections, Through("ips"))
          /\ LocalExact(ips, connections, Seen(connections, Through("ips")))
      BY DEF IInv
    <3> QED BY <3>1, Zenon DEF SeenExact, IpsExact, LocalExact, ListensAt, PortsAt, LocalAt, RemoteAt,
                               Unlisted, Seen, IpsAreExact
  <2> QED BY <2>1, <2>2 DEF TablesAreExact
<1> QED BY <1>1, Invariance, PTL

(* The alerts are about the first suspicious connections and the count goes on
   without them (netinspect_analyze). *)
THEOREM AlertsTellTheFirst == Spec => []AlertsAreTheFirst
<1>1. IInv => AlertsAreTheFirst
  BY DEF IInv
<1> QED BY <1>1, Invariance, PTL

(* What is known of the connection an alert is about. *)
LEMMA Alerted ==
  ASSUME IInv, NEW i \in DOMAIN alerts
  PROVE  /\ alerts[i].about \in Found
         /\ Cardinality({k \in Found : k <= alerts[i].about}) = i
         /\ alerts[i].about \in 1 .. Through("analyze")
         /\ alerts[i].kind = Suspicion(connections[alerts[i].about])
         /\ alerts[i].kind = connections[alerts[i].about].kind
<1>1. alerts[i].about \in Found /\ Cardinality({k \in Found : k <= alerts[i].about}) = i
  BY Zenon DEF IInv, AlertsAreTheFirst, Found
<1>2. alerts[i].about \in 1 .. Through("analyze")
  BY <1>1, Zenon DEF Found
<1> QED BY <1>1, <1>2, Zenon DEF IInv, Judged

(* An alert about a connection to the outside is matched by a public row of the
   table of addresses, unless the table is full or the connection has no local
   address of its own (analyze_connection, netinspect_aggregate_ips). *)
THEOREM OutsideIsInTheTable == Spec => []OutsideIsListed
<1>1. IInv => OutsideIsListed
  <2> SUFFICES ASSUME IInv, Len(ips) < MaxIps, NEW i \in DOMAIN alerts,
                      alerts[i].kind = "ExternalConn",
                      ~IsWildcard(connections[alerts[i].about].local)
               PROVE  \E k \in DOMAIN ips :
                        ips[k].addr = connections[alerts[i].about].remote /\ ips[k].public
    BY Zenon DEF OutsideIsListed
  <2> DEFINE a == alerts[i].about
             c == connections[a]
  <2>1. a \in 1 .. Through("analyze") /\ Suspicion(c) = "ExternalConn"
    BY Alerted, Zenon
  <2>2. a \in 1 .. Through("ips")
    <3>1. /\ phase \in {"scan", "ips", "ports", "analyze", "report", "over"}
          /\ Len(connections) \in Nat /\ at \in 0 .. Len(connections)
      BY DEF IInv, TypeOK
    <3>2. CASE phase \in {"scan", "ips", "ports"}
      <4>1. Through("analyze") = 0
        BY <3>2 DEF Through, Order
      <4> QED BY <2>1, <4>1
    <3>3. CASE phase \in {"analyze", "report", "over"}
      <4>1. Through("ips") = Len(connections) /\ Through("analyze") \in 0 .. Len(connections)
        BY <3>1, <3>3 DEF Through, Order
      <4> HIDE DEF a
      <4> QED BY <2>1, <3>1, <4>1
    <3> QED BY <3>1, <3>2, <3>3
  <2>3. IsPublic(c.remote) = TRUE /\ c.remote \notin Unlisted
    <3>1. TalksOutside(c)
      BY <2>1 DEF Suspicion
    <3>2. IsPublic(c.remote)
      BY <3>1 DEF TalksOutside
    <3>3. ~IsPublic(Star) /\ ~IsPublic(V4Any)
      BY DEF IsPublic, Star, V4Any
    <3> QED BY <3>2, <3>3, PublicIsBoolean DEF Unlisted
  <2>4. a \in Seen(connections, Through("ips"))
    BY <2>2, Zenon DEF Seen
  <2>5. PICK k \in DOMAIN ips : ips[k].addr = c.remote
    BY <2>3, <2>4, Zenon DEF IInv, SeenExact, IpsExact
  <2>6. ips[k].public = IsPublic(ips[k].addr)
    BY Zenon DEF IInv, SeenExact, IpsExact
  <2>7. ips[k].public = TRUE
    BY <2>3, <2>5, <2>6, Zenon
  <2> QED BY <2>5, <2>7, Zenon
<1> QED BY <1>1, Invariance, PTL

(* What is true of every alert when the report is made. *)
LEMMA AtTheEnd ==
  ASSUME IInv, phase = "over"
  PROVE  /\ Through("analyze") = Len(connections) /\ Len(connections) \in Nat
         /\ DOMAIN connections = 1 .. Len(connections)
         /\ ReportLimit \in Nat /\ MaxAlerts \in Nat /\ alerts \in Seq(Alert) /\ suspicious \in Nat
         /\ Found = {j \in 1 .. Len(connections) : connections[j].kind # "None"}
         /\ report = NetinspectReport([i \in DOMAIN alerts |-> alerts[i].kind], ReportLimit)
         /\ [i \in DOMAIN alerts |-> alerts[i].kind] \in [1 .. Len(alerts) -> Kinds]
         /\ Len(alerts) \in Nat /\ DOMAIN alerts = 1 .. Len(alerts) /\ Len(alerts) <= MaxAlerts
<1>1. TypeOK /\ InTurn /\ Reading
  BY DEF IInv
<1>2. /\ Len(connections) \in Nat /\ DOMAIN connections = 1 .. Len(connections)
      /\ alerts \in Seq(Alert) /\ Len(alerts) <= MaxAlerts
  BY <1>1 DEF TypeOK
<1>3. Through("analyze") = Len(connections)
  BY <1>1 DEF InTurn, Through, Order
<1>4. Found = {j \in 1 .. Len(connections) : connections[j].kind # "None"}
  BY <1>3, Zenon DEF Found
<1>5. report = NetinspectReport([i \in DOMAIN alerts |-> alerts[i].kind], ReportLimit)
  BY Zenon DEF IInv, Told
<1>6. \A i \in DOMAIN alerts : alerts[i].kind \in Kinds
  <2> TAKE i \in DOMAIN alerts
  <2>1. alerts[i] \in Alert
    BY <1>2
  <2> QED BY <2>1 DEF Alert
<1>7. Len(alerts) \in Nat /\ DOMAIN alerts = 1 .. Len(alerts)
  BY <1>2
<1> QED BY NetinspectAssumption, <1>1, <1>2, <1>3, <1>4, <1>5, <1>6, <1>7 DEF Reading

(* A failure comes of an alert the report looks at, and that alert of a
   listener on a backdoor port. *)
LEMMA FailuresAreOfBackdoors ==
  ASSUME IInv, phase = "over", NEW r \in DOMAIN report, report[r].status = "Fail"
  PROVE  \E k \in DOMAIN connections : OnBackdoorPort(connections[k]) /\ Uncovered(k)
<1> DEFINE kinds == [i \in DOMAIN alerts |-> alerts[i].kind]
<1>1. PICK i \in 1 .. Len(alerts) : i <= ReportLimit /\ kinds[i] \in {"UnusualPort", "Blacklisted"}
  <2>1. /\ kinds \in [1 .. Len(alerts) -> Kinds] /\ Len(alerts) \in Nat /\ ReportLimit \in Nat
        /\ report = NetinspectReport(kinds, ReportLimit)
    BY AtTheEnd
  <2> HIDE DEF kinds
  <2> QED BY <2>1, ReportParts
<1> DEFINE k == alerts[i].about
           before == {j \in 1 .. k - 1 : connections[j].kind # "None"}
           upTo == {j \in Found : j <= k}
<1>2. i \in DOMAIN alerts /\ i \in Nat /\ i <= MaxAlerts
  BY <1>1, AtTheEnd
<1>3. /\ alerts[i].kind \in {"UnusualPort", "Blacklisted"}
      /\ alerts[i].kind = Suspicion(connections[k]) /\ k \in Found /\ Cardinality(upTo) = i
  BY <1>1, <1>2, Alerted, Zenon
<1>4. k \in 1 .. Len(connections) /\ connections[k].kind # "None"
  BY <1>3, AtTheEnd
<1>5. OnBackdoorPort(connections[k])
  BY <1>3 DEF Suspicion
<1>6. Uncovered(k)
  <2> HIDE DEF k
  <2>1. Len(connections) \in Nat
    BY AtTheEnd
  <2>2. /\ k \in Nat /\ k - 1 \in Nat /\ before \subseteq 1 .. k - 1 /\ k \notin before
        /\ \A j \in 1 .. Len(connections) : j <= k <=> j \in 1 .. k - 1 \/ j = k
        /\ \A j \in 1 .. k - 1 : j \in 1 .. Len(connections)
    BY <1>4, <2>1
  <2>3. \A j : j \in Found <=> j \in 1 .. Len(connections) /\ connections[j].kind # "None"
    BY AtTheEnd
  <2>4. \A j : j \in upTo <=> j \in before \/ j = k
    BY <1>4, <2>2, <2>3, Zenon
  <2> HIDE DEF upTo, before
  <2>5. Cardinality(upTo) = Cardinality(before) + 1
    BY <2>2, <2>4, OneMore
  <2>6. Cardinality(before) \in Nat
    BY <2>2, Positions
  <2>7. Cardinality(before) < ReportLimit /\ Cardinality(before) < MaxAlerts
    BY <1>1, <1>2, <1>3, <2>5, <2>6, AtTheEnd
  <2> QED BY <2>7 DEF Uncovered, before
<1>7. k \in DOMAIN connections
  BY <1>4, AtTheEnd
<1> QED BY <1>5, <1>6, <1>7, Zenon

(* The alert about a backdoor that few others come before is looked at. *)
LEMMA BackdoorsAreFailures ==
  ASSUME IInv, phase = "over", NEW k \in DOMAIN connections,
         OnBackdoorPort(connections[k]), Uncovered(k)
  PROVE  \E r \in DOMAIN report : report[r].status = "Fail"
<1> DEFINE before == {j \in 1 .. k - 1 : connections[j].kind # "None"}
           upTo(m) == {j \in Found : j <= m}
           rank == Cardinality(before) + 1
           n == Through("analyze")
           kinds == [i \in DOMAIN alerts |-> alerts[i].kind]
<1>1. /\ n = Len(connections) /\ n \in Nat /\ k \in 1 .. n /\ ReportLimit \in Nat /\ MaxAlerts \in Nat
      /\ alerts \in Seq(Alert) /\ suspicious \in Nat
  BY AtTheEnd
<1> HIDE DEF n
<1>2. connections[k].kind = "UnusualPort"
  <2>1. connections[k].kind = Suspicion(connections[k])
    BY <1>1, Zenon DEF IInv, Judged, n
  <2> QED BY <2>1 DEF Suspicion
<1>3. /\ Found = {j \in 1 .. n : connections[j].kind # "None"} /\ Found \subseteq 1 .. n
      /\ k \in Found
  BY <1>1, <1>2 DEF Found, n
<1>4. IsFiniteSet(Found) /\ Cardinality(Found) \in Nat
  BY <1>1, <1>3, Positions
<1>5. \A m \in Nat : /\ upTo(m) \subseteq Found /\ IsFiniteSet(upTo(m))
                     /\ Cardinality(upTo(m)) \in Nat /\ Cardinality(upTo(m)) <= Cardinality(Found)
  <2> TAKE m \in Nat
  <2>1. upTo(m) \subseteq Found
    OBVIOUS
  <2> HIDE DEF upTo
  <2>2. IsFiniteSet(upTo(m)) /\ Cardinality(upTo(m)) <= Cardinality(Found)
    BY <1>4, <2>1, FS_Subset
  <2>3. Cardinality(upTo(m)) \in Nat
    BY <2>2, FS_CardinalityType, Zenon
  <2> QED BY <2>1, <2>2, <2>3
<1>6. Cardinality(upTo(k)) = rank /\ Cardinality(before) \in Nat
  <2>1. /\ k \in Nat /\ k - 1 \in Nat /\ before \subseteq 1 .. k - 1 /\ k \notin before
        /\ \A j \in 1 .. n : j <= k <=> j \in 1 .. k - 1 \/ j = k
        /\ \A j \in 1 .. k - 1 : j \in 1 .. n
    BY <1>1
  <2>2. \A j : j \in upTo(k) <=> j \in before \/ j = k
    BY <1>2, <1>3, <2>1, Zenon
  <2> HIDE DEF upTo, before
  <2>3. Cardinality(upTo(k)) = Cardinality(before) + 1
    BY <2>1, <2>2, OneMore
  <2>4. Cardinality(before) \in Nat
    BY <2>1, Positions
  <2> QED BY <2>3, <2>4
<1> HIDE DEF before
<1>7. rank \in DOMAIN alerts /\ rank <= ReportLimit
  <2>1. suspicious = Cardinality(Found) /\ Len(alerts) = IF suspicious < MaxAlerts THEN suspicious ELSE MaxAlerts
    BY Zenon DEF IInv, AlertsAreTheFirst, Found
  <2>2. rank <= Cardinality(Found)
    <3> HIDE DEF upTo, rank
    <3>1. k \in Nat
      BY <1>1
    <3>2. Cardinality(upTo(k)) <= Cardinality(Found)
      BY <1>5, <3>1
    <3> QED BY <1>6, <3>2
  <2>3. Cardinality(before) < ReportLimit /\ Cardinality(before) < MaxAlerts
    BY DEF before, Uncovered
  <2>4. rank \in 1 .. Len(alerts)
    BY <1>1, <1>4, <1>6, <2>1, <2>2, <2>3
  <2> QED BY <1>1, <1>6, <2>3, <2>4
<1> HIDE DEF rank
<1>8. alerts[rank].kind = "UnusualPort"
  <2> DEFINE m == alerts[rank].about
  <2>1. /\ m \in Found /\ Cardinality(upTo(m)) = rank
        /\ alerts[rank].kind = connections[m].kind
    BY <1>7, Alerted, Zenon
  <2>2. m \in Nat /\ k \in Nat
    BY <1>1, <1>3, <2>1
  <2> HIDE DEF m
  <2>3. upTo(m) = upTo(k)
    <3>1. upTo(m) \subseteq upTo(k) \/ upTo(k) \subseteq upTo(m)
      <4>1. \A j \in Found : j \in Nat
        BY <1>3
      <4> QED BY <2>2, <4>1
    <3>2. /\ IsFiniteSet(upTo(m)) /\ IsFiniteSet(upTo(k))
          /\ Cardinality(upTo(m)) = Cardinality(upTo(k))
      BY <1>5, <1>6, <2>1, <2>2 DEF rank
    <3> HIDE DEF upTo
    <3> QED BY <3>1, <3>2, FS_Subset
  <2>4. m \in upTo(m) /\ k \in upTo(k)
    BY <1>3, <2>1, <2>2
  <2>5. m <= k /\ k <= m
    BY <2>3, <2>4
  <2>6. m = k
    BY <2>2, <2>5
  <2> QED BY <1>2, <2>1, <2>6
<1>9. \E r \in DOMAIN NetinspectReport(kinds, ReportLimit) :
        NetinspectReport(kinds, ReportLimit)[r].status = "Fail"
  <2>1. Len(alerts) \in Nat /\ kinds \in [1 .. Len(alerts) -> Kinds] /\ ReportLimit \in Nat
    BY AtTheEnd
  <2>2. rank \in 1 .. Len(alerts) /\ kinds[rank] = "UnusualPort"
    BY <1>7, <1>8, AtTheEnd
  <2> HIDE DEF kinds
  <2>3. \A i \in 1 .. Len(alerts) : i <= ReportLimit /\ kinds[i] = "UnusualPort" =>
          \E r \in DOMAIN NetinspectReport(kinds, ReportLimit) :
            NetinspectReport(kinds, ReportLimit)[r].status = "Fail"
    BY <2>1, ReportParts
  <2> QED BY <1>7, <2>2, <2>3, Zenon
<1>10. report = NetinspectReport(kinds, ReportLimit)
  BY Zenon DEF IInv, Told
<1> QED BY <1>9, <1>10, Zenon

(* The audit fails exactly if a connection is read with the state LISTEN on a
   known backdoor port and fewer suspicious ones come before it than the report
   looks at and the list of alerts has room for (analyze_connection,
   netinspect_report). *)
THEOREM BackdoorsFailTheAudit == Spec => []BackdoorFails
<1>1. IInv => BackdoorFails
  <2>1. ASSUME IInv, phase = "over", NEW r \in DOMAIN report, report[r].status = "Fail"
        PROVE  \E k \in DOMAIN connections : OnBackdoorPort(connections[k]) /\ Uncovered(k)
    BY <2>1, FailuresAreOfBackdoors
  <2>2. ASSUME IInv, phase = "over", NEW k \in DOMAIN connections,
               OnBackdoorPort(connections[k]), Uncovered(k)
        PROVE  \E r \in DOMAIN report : report[r].status = "Fail"
    BY <2>2, BackdoorsAreFailures
  <2> QED BY <2>1, <2>2, Zenon DEF BackdoorFails
<1> QED BY <1>1, Invariance, PTL
===============================================================================
