----------------------------- MODULE Protocols ------------------------------
(***************************************************************************)
(* From a captured packet to the protocol counters of nicwatch: decoding   *)
(* (parse.rs), the inference of the direction (capture/stats.rs), the      *)
(* classifiers (domain.rs) and IfaceWindow::ingest (aggregate.rs).         *)
(*                                                                         *)
(* A packet is what the libraries make of its bytes: the ethertype of its  *)
(* Ethernet header, or the address family of a loopback header, the two    *)
(* hardware addresses, and what etherparse finds when it reads the rest as *)
(* an IP packet.  The two rate windows of IfaceWindow are the subject of   *)
(* module SlidingWindow, which this one is extended together with: hence   *)
(* the names of its specification.                                         *)
(***************************************************************************)
EXTENDS Integers, FiniteSets, Sequences

CONSTANTS
  Packets,    \* the packets that can be captured
  OwnMac,     \* the hardware address of the interface, or Nothing
  Broadcast,
  Nothing,    \* None
  Rejected,   \* what decode() returns for a frame it does not count
  MaxPackets  \* bound of the model: packets captured

Protocol3 == {"Ipv4", "Ipv6", "Arp", "Other"}
Protocol4 == {"Tcp", "Udp", "Icmp", "IcmpV6", "Unknown"}
Directions == {"Rx", "Tx"}
Flags == {"SYN", "ACK", "FIN", "RST"}
Ports == 0 .. 2^16 - 1
AppHints == {"Http", "Https", "Ssh", "Dns", "Smtp", "Imap", "Pop3", "Ntp", "Mdns", "Dhcp", "Quic",
             "Tls", "Unknown"}

(* link: the link type and what its header says; ip: what SlicedPacket::from_ip
   finds in the rest, with the transport it recognises. *)
ASSUME ProtocolsAssumption ==
  /\ \A p \in Packets :
       /\ p.link \in {"Ethernet", "Loopback", "Other"}
       /\ p.short \in BOOLEAN   \* shorter than its link header
       /\ p.l3 \in Protocol3
       /\ p.link = "Loopback" => p.l3 # "Arp"
       /\ p.ip \in {"no", "yes"}
       /\ p.transport \in Protocol4
       /\ p.srcPort \in Ports /\ p.dstPort \in Ports
       /\ p.flags \subseteq Flags
       /\ p.transport # "Tcp" => p.flags = {}
  /\ MaxPackets \in Nat

(* What decoding makes of a packet that is counted. *)
Frames == [l3 : Protocol3, dir : Directions, l4 : Protocol4, flow : BOOLEAN,
           flags : SUBSET Flags, app : AppHints]

(* An error is not a frame. *)
ASSUME RejectedAssumption == Rejected \notin Frames

VARIABLES
  packets,   \* totals_rx.packets and totals_tx.packets
  l3, l4,    \* l3_rx and l3_tx, l4_rx and l4_tx: [direction -> [index -> count]]
  apps,      \* app_rx and app_tx
  flagged,   \* syn_rx, syn_tx, rst_rx, rst_tx
  flagTotal, \* syn, fin, rst
  captured   \* history: the packets captured, in their order

counterVars == <<packets, l3, l4, apps, flagged, flagTotal, captured>>

-----------------------------------------------------------------------------
(* AppHint::from_ports: the smaller port decides. *)
HintOf(p) ==
  CASE p = 80 -> "Http"   [] p = 443 -> "Https" [] p = 22 -> "Ssh"
    [] p = 53 -> "Dns"    [] p = 25 -> "Smtp"   [] p = 587 -> "Smtp"
    [] p = 143 -> "Imap"  [] p = 110 -> "Pop3"  [] p = 123 -> "Ntp"
    [] p = 5353 -> "Mdns" [] p = 67 -> "Dhcp"   [] p = 68 -> "Dhcp"
    [] OTHER -> "Unknown"

(* Mutant: the destination port decides. *)
FromDestination(src, dst) == HintOf(dst)

FromPorts(src, dst) == HintOf(IF src < dst THEN src ELSE dst)

IsSyn(flags) == "SYN" \in flags /\ "ACK" \notin flags

(* classify_direction *)
Direction(src, dst) == IF OwnMac # Nothing /\ src = OwnMac /\ dst # Broadcast THEN "Tx" ELSE "Rx"

(* decode_l3: what the link header said of the protocol is not looked at. *)
DecodeL3(p) ==
  LET ports == p.transport \in {"Tcp", "Udp"}
  IN  [l4 |-> p.transport, flow |-> ports, flags |-> p.flags,
       app |-> IF ports THEN FromPorts(p.srcPort, p.dstPort) ELSE "Unknown"]

(* A frame; the direction is a placeholder. *)
FrameOf(p, d) ==
  [l3 |-> p.l3, dir |-> "Rx", l4 |-> d.l4, flow |-> d.flow, flags |-> d.flags, app |-> d.app]

DecodeEthernet(p) ==
  IF p.short \/ p.ip = "no" THEN Rejected ELSE FrameOf(p, DecodeL3(p))

(* Other address families than those of IP are frames without contents. *)
DecodeLoopback(p) ==
  LET isIp == p.l3 \in {"Ipv4", "Ipv6"}
      nothing == [l4 |-> "Unknown", flow |-> FALSE, flags |-> {}, app |-> "Unknown"]
  IN  IF p.short \/ (isIp /\ p.ip = "no") THEN Rejected
      ELSE FrameOf(p, IF isIp THEN DecodeL3(p) ELSE nothing)

Decode(p) ==
  CASE p.link = "Ethernet" -> DecodeEthernet(p)
    [] p.link = "Loopback" -> DecodeLoopback(p)
    [] p.link = "Other" -> Rejected

(* read_batch() sets the direction of the frames with hardware addresses. *)
Classified(p) ==
  IF p.link = "Ethernet" THEN [Decode(p) EXCEPT !.dir = Direction(p.src, p.dst)] ELSE Decode(p)

-----------------------------------------------------------------------------
(* l3_idx, l4_idx, app_idx *)
L3Idx(p) == CHOOSE i \in 0 .. 3 : <<"Ipv4", "Ipv6", "Arp", "Other">>[i + 1] = p

L4Names == <<"Tcp", "Udp", "Icmp", "IcmpV6", "Igmp", "Other", "Unknown">>
L4Idx(p) == CHOOSE i \in 0 .. 6 : L4Names[i + 1] = p

AppNames == <<"Http", "Https", "Ssh", "Dns", "Smtp", "Imap", "Pop3", "Ntp", "Mdns", "Dhcp", "Quic",
              "Tls">>
AppIdx(a) == IF a = "Unknown" THEN 0 ELSE CHOOSE i \in 0 .. 11 : AppNames[i + 1] = a

Count(table, dir, i) == [table EXCEPT ![dir][i] = @ + 1]

(* Mutant: a class of the sent frames is counted among the received. *)
IngestOneSided(f) ==
  /\ packets' = [packets EXCEPT ![f.dir] = @ + 1]
  /\ l3' = Count(l3, f.dir, L3Idx(f.l3))
  /\ l4' = Count(l4, "Rx", L4Idx(f.l4))
  /\ apps' = Count(apps, f.dir, AppIdx(f.app))
  /\ flagged' = [flagged EXCEPT
                   ![f.dir].syn = @ + (IF IsSyn(f.flags) THEN 1 ELSE 0),
                   ![f.dir].rst = @ + (IF "RST" \in f.flags THEN 1 ELSE 0)]
  /\ flagTotal' = [syn |-> flagTotal.syn + (IF IsSyn(f.flags) THEN 1 ELSE 0),
                   fin |-> flagTotal.fin + (IF "FIN" \in f.flags THEN 1 ELSE 0),
                   rst |-> flagTotal.rst + (IF "RST" \in f.flags THEN 1 ELSE 0)]

(* IfaceWindow::ingest *)
Ingest(f) ==
  /\ packets' = [packets EXCEPT ![f.dir] = @ + 1]
  /\ l3' = Count(l3, f.dir, L3Idx(f.l3))
  /\ l4' = Count(l4, f.dir, L4Idx(f.l4))
  /\ apps' = Count(apps, f.dir, AppIdx(f.app))
  /\ flagged' = [flagged EXCEPT
                   ![f.dir].syn = @ + (IF IsSyn(f.flags) THEN 1 ELSE 0),
                   ![f.dir].rst = @ + (IF "RST" \in f.flags THEN 1 ELSE 0)]
  /\ flagTotal' = [syn |-> flagTotal.syn + (IF IsSyn(f.flags) THEN 1 ELSE 0),
                   fin |-> flagTotal.fin + (IF "FIN" \in f.flags THEN 1 ELSE 0),
                   rst |-> flagTotal.rst + (IF "RST" \in f.flags THEN 1 ELSE 0)]

(* A packet arrives: it is decoded, and counted if there is a frame. *)
Capture(p) ==
  /\ Len(captured) < MaxPackets
  /\ captured' = Append(captured, p)
  /\ IF Decode(p) = Rejected THEN UNCHANGED <<packets, l3, l4, apps, flagged, flagTotal>>
                             ELSE Ingest(Classified(p))

(* Mutant: the arrays are one longer. *)
ZerosAndOne(n) == [d \in Directions |-> [i \in 0 .. n |-> 0]]

Zeros(n) == [d \in Directions |-> [i \in 0 .. n - 1 |-> 0]]

CountersInit ==
  /\ packets = [d \in Directions |-> 0]
  /\ l3 = Zeros(4)
  /\ l4 = Zeros(8)
  /\ apps = Zeros(12)
  /\ flagged = [d \in Directions |-> [syn |-> 0, rst |-> 0]]
  /\ flagTotal = [syn |-> 0, fin |-> 0, rst |-> 0]
  /\ captured = << >>

CountersNext == \E p \in Packets : Capture(p)

CountersSpec == CountersInit /\ [][CountersNext]_counterVars

-----------------------------------------------------------------------------
CountersTypeOK ==
  /\ packets \in [Directions -> Nat]
  /\ l3 \in [Directions -> [0 .. 3 -> Nat]]
  /\ l4 \in [Directions -> [0 .. 7 -> Nat]]
  /\ apps \in [Directions -> [0 .. 11 -> Nat]]
  /\ flagged \in [Directions -> [syn : Nat, rst : Nat]]
  /\ flagTotal \in [syn : Nat, fin : Nat, rst : Nat]
  /\ captured \in Seq(Packets)

(* How often packets among `those` were captured. *)
HowMany(those) == Cardinality({i \in DOMAIN captured : captured[i] \in those})

(***************************************************************************)
(* What the counters are compared with, from the packets as they came:     *)
(* which ones are to be counted, namely IP packets in whole frames, and on *)
(* a loopback interface what is of another address family; which ones the  *)
(* interface sent, broadcasts aside; their transport; and the service of   *)
(* the smaller port.                                                       *)
(***************************************************************************)
IsCounted(p) ==
  /\ ~p.short
  /\ \/ p.link = "Ethernet" /\ p.ip = "yes"
     \/ p.link = "Loopback" /\ (p.ip = "yes" \/ p.l3 = "Other")

IsOurs(p) == p.link = "Ethernet" /\ OwnMac # Nothing /\ p.src = OwnMac
IsSent(p) == IsOurs(p) /\ p.dst # Broadcast

TransportOf(p) == IF p.link = "Loopback" /\ p.l3 = "Other" THEN "Unknown" ELSE p.transport

SmallerPort(p) == CHOOSE n \in {p.srcPort, p.dstPort} : n <= p.srcPort /\ n <= p.dstPort

ServicePorts ==
  [Http |-> {80}, Https |-> {443}, Ssh |-> {22}, Dns |-> {53}, Smtp |-> {25, 587}, Ntp |-> {123},
   Mdns |-> {5353}, Dhcp |-> {67, 68}]

Serves(p, label) ==
  TransportOf(p) \in {"Tcp", "Udp"} /\ SmallerPort(p) \in ServicePorts[label]

(* The packets a direction has to have counted. *)
Carried(d) == {p \in Packets : IsCounted(p) /\ (IsSent(p) <=> d = "Tx")}

(* The total of a table of four, eight or twelve places. *)
FourFrom(t, k) == t[k] + t[k + 1] + t[k + 2] + t[k + 3]
L3Total(t) == FourFrom(t, 0)
L4Total(t) == FourFrom(t, 0) + FourFrom(t, 4)
AppTotal(t) == FourFrom(t, 0) + FourFrom(t, 4) + FourFrom(t, 8)

(* render_protocols(): the labels of the rows of the three panels; the counter
   beside a label is that of the row's place. *)
L3Rows == <<"Ipv4", "Ipv6", "Arp", "Other">>
L4Rows == <<"Tcp", "Udp", "Icmp", "IcmpV6", "Igmp", "Other", "Unknown">>
AppRows == <<"Http", "Https", "Ssh", "Dns", "Smtp", "Ntp", "Mdns", "Dhcp">>

(* Each breakdown classifies every packet of a direction, once. *)
EachPacketOnce(d) ==
  /\ packets[d] = HowMany(Carried(d))
  /\ L3Total(l3[d]) = packets[d]
  /\ L4Total(l4[d]) = packets[d]
  /\ AppTotal(apps[d]) = packets[d]

(* The rows of the first two panels, and four of the third, count the packets
   of their label. *)
RowCountsItsService(d, i) == apps[d][i - 1] = HowMany({p \in Carried(d) : Serves(p, AppRows[i])})

RowsCountTheirLabels(d) ==
  /\ \A i \in DOMAIN L3Rows :
       l3[d][i - 1] = HowMany({p \in Carried(d) : p.l3 = L3Rows[i]})
  /\ \A i \in DOMAIN L4Rows :
       l4[d][i - 1] = HowMany({p \in Carried(d) : TransportOf(p) = L4Rows[i]})
  /\ \A i \in 2 .. 5 : RowCountsItsService(d, i)

(* The flag counters are those of TCP frames, and the totals are of both
   directions. *)
FlagsOfTcp ==
  /\ \A d \in Directions : flagged[d].syn <= l4[d][0] /\ flagged[d].rst <= l4[d][0]
  /\ flagTotal.syn = flagged["Rx"].syn + flagged["Tx"].syn
  /\ flagTotal.rst = flagged["Rx"].rst + flagged["Tx"].rst
  /\ flagTotal.fin <= l4["Rx"][0] + l4["Tx"][0]

(***************************************************************************)
(* The breakdowns are right about the packets that came: each classifies   *)
(* every packet to be counted, once, under the direction it went, so that  *)
(* all percentages are of the same total; the rows of the L3 and L4 panels *)
(* and the rows HTTPS, SSH, DNS and SMTP of the third count the packets of *)
(* their label; and the flag counters are those of TCP frames (parse.rs,   *)
(* stats.rs classify_direction, aggregate.rs IfaceWindow, app.rs           *)
(* render_protocols).  The other four rows of the third panel are left     *)
(* out: the unknown count as HTTP, and the labels NTP, mDNS and DHCP stand *)
(* beside the counts of IMAP, POP3 and NTP (aggregate.rs app_idx).         *)
(***************************************************************************)
BreakdownsAgree ==
  /\ \A d \in Directions : EachPacketOnce(d) /\ RowsCountTheirLabels(d)
  /\ FlagsOfTcp

(***************************************************************************)
(* The two directions of a conversation get the same hint, so that a flow  *)
(* row, which shows the last known one, does not flicker (domain.rs        *)
(* AppHint::from_ports).                                                   *)
(***************************************************************************)
OneHintPerConversation ==
  \A i, j \in DOMAIN captured :
    LET p == captured[i]
        q == captured[j]
    IN  Decode(p) # Rejected /\ Decode(q) # Rejected /\ Decode(p).flow /\ Decode(q).flow
          /\ p.srcPort = q.dstPort /\ p.dstPort = q.srcPort
        => Decode(p).app = Decode(q).app

=============================================================================
