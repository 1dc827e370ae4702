------------------------------- MODULE Opening -------------------------------
(***************************************************************************)
(* How nicwatch gets to its frames: main() chooses an interface (main.rs), *)
(* and the thread of the capture, or main() itself with --probe, opens an  *)
(* AF_PACKET socket (backend_linux.rs) or a BPF device                     *)
(* (backend_freebsd.rs) on it and reads its hardware address (stats.rs).   *)
(*                                                                         *)
(* The opening is a row of system calls, each of which may fail, while     *)
(* interfaces come, go and change their names; the socket is bound by      *)
(* index and the address is read by name.  An interface is its index; the  *)
(* hardware address of an interface is written as its index, too.          *)
(***************************************************************************)
EXTENDS Integers, Sequences

CONSTANTS
  Platforms,  \* what the program may be built for: "linux", "freebsd"
  Names,      \* the names of interfaces, in alphabetical order
  Family,     \* what each begins with: "lo", "pflog", "wired", "wireless", "other"
  Hosts,      \* the interfaces there may be at the start: names to indices
  Bare,       \* by platform, the interfaces that have no hardware address
  MaxIndex,   \* bound: indices given out
  MaxChanges, \* bound: changes to the interfaces
  None        \* Option::None

Name == {Names[i] : i \in DOMAIN Names}
Index == 1 .. MaxIndex
Gone == 0
Indices == Index \cup {Gone}
Unbound == 0

Errors == {"PermissionDenied", "NoSuchInterface", "Capture"}

ASSUME OpeningAssumption ==
  /\ Platforms \subseteq {"linux", "freebsd"}
  /\ Names \in Seq(Name) /\ Family \in [Name -> {"lo", "pflog", "wired", "wireless", "other"}]
  /\ \E n \in Name : Family[n] = "lo"
  /\ MaxIndex \in Nat /\ MaxChanges \in Nat
  /\ Hosts \subseteq [Name -> Indices]
  /\ Bare \in [Platforms -> SUBSET Index]
  /\ None \notin Name /\ None \notin Indices /\ None \notin Errors

VARIABLES
  platform, \* what the program is built for
  mode,     \* --list, --probe or neither
  asked,    \* the interface of the command line
  ifs,      \* the interfaces of the host, by name
  changes,  \* how often they changed
  main,     \* where main() is
  step,     \* the next step of the opening
  device,   \* FreeBSD: the candidate for the device that is tried next
  iface,    \* the interface to open
  ifindex,  \* Linux: its index
  fd,       \* the descriptor
  bound,    \* the interface the descriptor is bound to, or Unbound
  inbox,    \* the interfaces the frames waiting in the descriptor came from
  mac,      \* iface_mac
  error,    \* what the opening failed with
  \* the checks' own records
  denied,   \* a permission was refused
  broken,   \* a call failed that need not have
  listed,   \* the interfaces autodetection was given
  held      \* what has borne the name of the interface since it was chosen: interfaces, or Gone

cli == <<platform, mode, asked>>
host == <<ifs, changes>>
opening == <<step, device, ifindex, fd, bound, mac, error>>
records == <<denied, broken, listed, held>>
vars == <<cli, host, main, iface, opening, inbox, records>>

(* The system calls of an opening, each with the one that follows it. *)
LinuxSteps ==
  [socket |-> "if_nametoindex", if_nametoindex |-> "bind", bind |-> "options",
   options |-> "mac_of", mac_of |-> "opened"]
FreeBSDSteps ==
  [open |-> "BIOCSBLEN", BIOCSBLEN |-> "BIOCSETIF", BIOCSETIF |-> "BIOCIMMEDIATE",
   BIOCIMMEDIATE |-> "options", options |-> "BIOCGDLT", BIOCGDLT |-> "BIOCGBLEN",
   BIOCGBLEN |-> "mac_of", mac_of |-> "opened"]
After(s) == IF platform = "linux" THEN LinuxSteps[s] ELSE FreeBSDSteps[s]
StepsOf(p) == DOMAIN (IF p = "linux" THEN LinuxSteps ELSE FreeBSDSteps)

(* open_bpf_device(): /dev/bpf, /dev/bpf0, /dev/bpf1 and /dev/bpf2. *)
Devices == 4

There == {n \in Name : ifs[n] # Gone}
Ends == main \in {"exit0", "exit1"}

Init ==
  /\ platform \in Platforms
  /\ mode \in {"list", "probe", "run"}
  /\ asked \in Name \cup {None}
  /\ ifs \in Hosts /\ changes = 0
  /\ main = "start" /\ step = "notYet" /\ device = 1
  /\ iface = None /\ ifindex = Gone
  /\ fd = "none" /\ bound = None /\ inbox = {}
  /\ mac = None /\ error = None
  /\ denied = FALSE /\ broken = FALSE /\ listed = {} /\ held = {}

-----------------------------------------------------------------------------
(* list_interfaces(): alphabetical on Linux, as ifconfig has them on FreeBSD,
   which is in the order in which they were attached. *)
Place(n) == IF platform = "linux" THEN CHOOSE i \in DOMAIN Names : Names[i] = n ELSE ifs[n]

(* --list, which fails if the interfaces cannot be listed. *)
List ==
  /\ main = "start" /\ mode = "list"
  /\ main' \in {"exit0", "exit1"}
  /\ UNCHANGED <<cli, host, iface, opening, inbox, records>>

Loopback == CHOOSE n \in Name : Family[n] = "lo"

(* The first of the interfaces listed that is in the set. *)
First(names) ==
  IF names = {} THEN Loopback
  ELSE CHOOSE n \in names : \A m \in names : Place(n) <= Place(m)

(* autodetect_interface(), for a list that is empty if it cannot be made. *)
Autodetected(list) ==
  LET of(families) == {n \in list : Family[n] \in families}
  IN  IF platform = "freebsd" THEN First(of({"wired", "wireless", "other"}))
      ELSE IF of({"wired"}) # {} THEN First(of({"wired"}))
      ELSE IF of({"wireless"}) # {} THEN First(of({"wireless"}))
      ELSE First(of({"other", "pflog"}))

(* The interface is chosen; the pipeline is started with a thread that opens
   it, and the user interface comes up. *)
Choose ==
  /\ main = "start" /\ mode # "list"
  /\ \/ asked # None /\ iface' = asked /\ UNCHANGED <<broken, listed>>
     \/ asked = None /\ listed' = There /\ iface' = Autodetected(listed') /\ UNCHANGED broken
     \/ asked = None /\ listed' = {} /\ iface' = Autodetected(listed') /\ broken' = TRUE
  /\ held' = {ifs[iface']}
  /\ main' = IF mode = "probe" THEN "probing" ELSE "ui"
  /\ step' = IF platform = "linux" THEN "socket" ELSE "open"
  /\ UNCHANGED <<cli, host, device, ifindex, fd, bound, mac, error, inbox, denied>>

-----------------------------------------------------------------------------
(* open() returns early with an error; the descriptor is closed as its owner
   goes out of scope. *)
Fail(e) ==
  /\ step' = "failed" /\ error' = e
  /\ fd' = IF fd = "open" THEN "closed" ELSE fd
  /\ UNCHANGED <<device, ifindex, bound, mac>>

Go == step' = After(step)
Still == UNCHANGED <<cli, host, main, iface, inbox, listed, held>>

(* socket(AF_PACKET, .., ETH_P_ALL).  A socket that has a protocol from the
   start receives the frames of all interfaces until it is bound to one. *)
Socket ==
  /\ step = "socket"
  /\ \/ /\ Go /\ fd' = "open" /\ bound' = Unbound
        /\ UNCHANGED <<device, ifindex, mac, error, denied, broken>>
     \/ Fail("PermissionDenied") /\ denied' = TRUE /\ broken' = TRUE
     \/ Fail("Capture") /\ broken' = TRUE /\ UNCHANGED denied
  /\ Still

IfNameToIndex ==
  /\ step = "if_nametoindex"
  /\ IF ifs[iface] = Gone THEN Fail("NoSuchInterface")
     ELSE Go /\ ifindex' = ifs[iface] /\ UNCHANGED <<device, fd, bound, mac, error>>
  /\ UNCHANGED <<denied, broken>> /\ Still

(* Frames that came in before stay in the socket. *)
Bind ==
  /\ step = "bind"
  /\ \/ /\ \E n \in There : ifs[n] = ifindex
        /\ Go /\ bound' = ifindex
        /\ UNCHANGED <<device, ifindex, fd, mac, error, broken>>
     \/ Fail("Capture") /\ broken' = (broken \/ \E n \in There : ifs[n] = ifindex)
  /\ UNCHANGED denied /\ Still

(* Mutants: a refused permission is an error like any other; one candidate
   more than there are. *)
OpenBpfAnyway ==
  /\ step = "open"
  /\ \/ Go /\ fd' = "open" /\ UNCHANGED <<device, ifindex, bound, mac, error, denied, broken>>
     \/ /\ broken' = TRUE /\ denied' \in {denied, TRUE}
        /\ IF device = Devices THEN Fail("Capture")
           ELSE device' = device + 1 /\ UNCHANGED <<step, ifindex, fd, bound, mac, error>>
  /\ Still

OpenBpfTooFar ==
  /\ step = "open"
  /\ \/ Go /\ fd' = "open" /\ UNCHANGED <<device, ifindex, bound, mac, error, denied, broken>>
     \/ /\ broken' = TRUE /\ UNCHANGED denied
        /\ IF device > Devices THEN Fail("Capture")
           ELSE device' = device + 1 /\ UNCHANGED <<step, ifindex, fd, bound, mac, error>>
  /\ Still

(* open_bpf_device(), one candidate. *)
OpenBpf ==
  /\ step = "open"
  /\ \/ Go /\ fd' = "open" /\ UNCHANGED <<device, ifindex, bound, mac, error, denied, broken>>
     \/ Fail("PermissionDenied") /\ denied' = TRUE /\ broken' = TRUE
     \/ /\ broken' = TRUE /\ UNCHANGED denied
        /\ IF device = Devices THEN Fail("Capture")
           ELSE device' = device + 1 /\ UNCHANGED <<step, ifindex, fd, bound, mac, error>>
  /\ Still

(* BIOCSETIF finds the interface by its name; one that is not there fails like
   everything else. *)
SetIf ==
  /\ step = "BIOCSETIF"
  /\ \/ ifs[iface] # Gone /\ Go /\ bound' = ifs[iface]
        /\ UNCHANGED <<device, ifindex, fd, mac, error, broken>>
     \/ Fail("Capture") /\ broken' = (broken \/ ifs[iface] # Gone)
  /\ UNCHANGED denied /\ Still

(* The other calls of BpfCapture::open() that must not fail. *)
Ioctl ==
  /\ step \in {"BIOCSBLEN", "BIOCIMMEDIATE", "BIOCGDLT", "BIOCGBLEN"}
  /\ \/ Go /\ UNCHANGED <<device, ifindex, fd, bound, mac, error, broken>>
     \/ Fail("Capture") /\ broken' = TRUE
  /\ UNCHANGED denied /\ Still

(* Promiscuous mode, buffer size and timeout: best effort. *)
Options ==
  /\ step = "options" /\ Go
  /\ UNCHANGED <<device, ifindex, fd, bound, mac, error, denied, broken>> /\ Still

(* The address the host shows for an interface, if it has one. *)
AddressOf(i) == IF i \in Index \ Bare[platform] THEN i ELSE None

(* Mutant: the address is that of the first interface listed. *)
MacOfFirst ==
  /\ step = "mac_of" /\ Go
  /\ \/ There # {} /\ mac' = AddressOf(ifs[First(There)]) /\ UNCHANGED broken
     \/ mac' = None /\ broken' = TRUE
  /\ UNCHANGED <<device, ifindex, fd, bound, error, denied>> /\ Still

(* mac_of(), by name.  Without an address, because the interface has none, is
   not there any more or the address cannot be read, all frames count as
   received. *)
MacOf ==
  /\ step = "mac_of" /\ Go
  /\ \/ mac' = AddressOf(ifs[iface]) /\ UNCHANGED broken
     \/ mac' = None /\ broken' = TRUE
  /\ UNCHANGED <<device, ifindex, fd, bound, error, denied>> /\ Still

(* --probe prints what it opened, or the error.  (Without it an error is
   logged by the thread, which ends, and the user interface stays.) *)
Probed ==
  /\ main = "probing" /\ step \in {"opened", "failed"}
  /\ main' = IF step = "opened" THEN "exit0" ELSE "exit1"
  /\ fd' = IF fd = "open" THEN "closed" ELSE fd
  /\ UNCHANGED <<cli, host, iface, step, device, ifindex, bound, mac, error, inbox, records>>

-----------------------------------------------------------------------------
(* The host: a frame passes on interface i; an interface comes, goes or gets
   another name. *)
Arrive ==
  /\ fd = "open" /\ ~Ends
  /\ \E n \in There : bound \in {Unbound, ifs[n]} /\ inbox' = inbox \cup {ifs[n]}
  /\ UNCHANGED <<cli, host, main, iface, opening, records>>

Change ==
  /\ changes < MaxChanges /\ step \notin {"opened", "failed"} /\ ~Ends
  /\ \E n \in Name :
       \/ /\ ifs[n] = Gone
          /\ \E i \in Index : (\A m \in Name : ifs[m] # i) /\ ifs' = [ifs EXCEPT ![n] = i]
       \/ ifs[n] # Gone /\ ifs' = [ifs EXCEPT ![n] = Gone]
       \/ \E m \in Name : ifs[n] # Gone /\ ifs[m] = Gone
                            /\ ifs' = [ifs EXCEPT ![m] = ifs[n], ![n] = Gone]
  /\ changes' = changes + 1
  /\ held' = IF iface = None THEN held ELSE held \cup {ifs'[iface]}
  /\ UNCHANGED <<cli, main, iface, opening, inbox, denied, broken, listed>>

Next ==
  \/ List \/ Choose
  \/ Socket \/ IfNameToIndex \/ Bind
  \/ OpenBpf \/ SetIf \/ Ioctl
  \/ Options \/ MacOf \/ Probed
  \/ Arrive \/ Change

Spec == Init /\ [][Next]_vars

-----------------------------------------------------------------------------
TypeOK ==
  /\ platform \in Platforms /\ mode \in {"list", "probe", "run"}
  /\ asked \in Name \cup {None} /\ iface \in Name \cup {None}
  /\ ifs \in [Name -> Indices] /\ changes \in 0 .. MaxChanges
  /\ main \in {"start", "probing", "ui", "exit0", "exit1"}
  /\ step \in StepsOf(platform) \cup {"notYet", "opened", "failed"}
  /\ device \in 1 .. Devices
  /\ ifindex \in Indices /\ mac \in Index \cup {None}
  /\ fd \in {"none", "open", "closed"} /\ bound \in Indices \cup {None}
  /\ inbox \subseteq Index
  /\ error \in Errors \cup {None}
  /\ {denied, broken} \subseteq BOOLEAN
  /\ listed \subseteq Name /\ held \subseteq Indices

(***************************************************************************)
(* However far the opening got, a failure leaves no descriptor open.  The  *)
(* advice to ask for more rights is given exactly if rights were missing,  *)
(* also when the other devices of FreeBSD fail for another reason.  An     *)
(* interface is called missing only if it was, and on Linux always when    *)
(* nothing but that went wrong; FreeBSD has no such error                  *)
(* (backend_linux.rs open, backend_freebsd.rs open and open_bpf_device).   *)
(***************************************************************************)
FailureTellsTheCause ==
  step = "failed" =>
    /\ fd # "open"
    /\ denied <=> error = "PermissionDenied"
    /\ error = "NoSuchInterface" => Gone \in held
    /\ platform = "linux" /\ ~broken /\ held = {Gone} => error = "NoSuchInterface"

(* As good a choice as there is: a loopback interface, or the log interface of
   the firewall on FreeBSD, only if there is no other; on Linux wired before
   wireless before others.  This is what the code does: of the log interface
   the comment at main.rs:103 knows nothing. *)
Rank(n) ==
  LET rank == IF platform = "freebsd"
                THEN [wired |-> 0, wireless |-> 0, other |-> 0, pflog |-> 3, lo |-> 3]
                ELSE [wired |-> 0, wireless |-> 1, other |-> 2, pflog |-> 2, lo |-> 3]
  IN  rank[Family[n]]

(***************************************************************************)
(* While interfaces come, go and are renamed: what is opened goes by the   *)
(* name that was asked for, or the best of those that were listed; it is   *)
(* bound to an interface that bore the name since, and so did the one      *)
(* whose hardware address tells the directions.  If the name never was     *)
(* free meanwhile, and no call failed that need not have, the opening      *)
(* succeeds, and the address is that of the interface bound, if it has one *)
(* (main.rs autodetect_interface, backend_linux.rs and backend_freebsd.rs  *)
(* open, stats.rs mac_of).                                                 *)
(***************************************************************************)
OpensWhatWasAsked ==
  step \in {"opened", "failed"} =>
    /\ IF asked # None THEN iface = asked ELSE \A n \in listed : Rank(iface) <= Rank(n)
    /\ step = "opened" => bound \in held \ {Gone} /\ mac \in {None} \cup (held \ {Gone})
    /\ ~broken /\ Gone \notin held => step = "opened" /\ mac = AddressOf(bound)

(***************************************************************************)
(* "Interface to monitor" (main.rs:16): only frames of this interface are  *)
(* counted.  What waits in the descriptor that the thread of the capture   *)
(* hands to read_batch() came from the interface it is bound to            *)
(* (backend_linux.rs open).                                                *)
(***************************************************************************)
FramesOfTheInterface == mode = "run" /\ step = "opened" => inbox \subseteq {bound}

=============================================================================
