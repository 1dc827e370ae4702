---------------------------- MODULE MCProtocols -----------------------------
(* Protocols for TLC: a request, its reply, a close, a broadcast of ours, mail,
   a lookup, ping, ARP, a runt, and what a loopback interface carries. *)
EXTENDS Protocols

Eth(src, dst, l3p, isIp, tr, sp, dp, fl) ==
  [link |-> "Ethernet", short |-> FALSE, src |-> src, dst |-> dst, l3 |-> l3p, ip |-> isIp,
   transport |-> tr, srcPort |-> sp, dstPort |-> dp, flags |-> fl]

Looped(l3p, isIp, tr) ==
  [Eth("nobody", "nobody", l3p, isIp, tr, 0, 0, {}) EXCEPT !.link = "Loopback"]

Request   == Eth("own", "peer", "Ipv4", "yes", "Tcp", 40000, 443, {"SYN"})
Reply     == Eth("peer", "own", "Ipv4", "yes", "Tcp", 443, 40000, {"SYN", "ACK"})
Close     == Eth("peer", "own", "Ipv4", "yes", "Tcp", 443, 40000, {"FIN", "RST"})
Discover  == Eth("own", "broadcast", "Ipv4", "yes", "Udp", 68, 67, {})
Mail      == Eth("peer", "own", "Ipv6", "yes", "Tcp", 143, 50000, {"ACK"})
Lookup    == Eth("own", "peer", "Ipv6", "yes", "Udp", 50001, 53, {})
Ping      == Eth("peer", "own", "Ipv4", "yes", "Icmp", 0, 0, {})
WhoHas    == Eth("peer", "broadcast", "Arp", "no", "Unknown", 0, 0, {})
Runt      == [Ping EXCEPT !.short = TRUE]
Foreign   == [Ping EXCEPT !.link = "Other"]

MCPackets == {Request, Reply, Close, Discover, Mail, Lookup, Ping, WhoHas, Runt, Foreign,
              Looped("Ipv4", "yes", "Tcp"), Looped("Ipv6", "no", "Unknown"),
              Looped("Other", "no", "Unknown")}
=============================================================================
