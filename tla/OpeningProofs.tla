---------------------------- MODULE OpeningProofs ----------------------------
(***************************************************************************)
(* Proofs about Opening, for all hosts, names and numbers of changes.      *)
(*                                                                         *)
(* Three invariants are carried along: the types, with the calls of the    *)
(* platform the only ones that are made; what a failure leaves behind      *)
(* (Failures); and what went by the name of the interface, with what each  *)
(* step made of it (Settled).                                              *)
(***************************************************************************)
EXTENDS Opening, TLAPS, WellFoundedInduction

(* A smallest number, for the choice of the first interface. *)
LEMMA Smallest ==
  ASSUME NEW S, S \subseteq Nat, S # {}
  PROVE  \E x \in S : \A y \in S : x <= y
<1>1. PICK x \in S : \A y \in S : ~ (<<y, x>> \in OpToRel(<, Nat))
  BY NatLessThanWellFounded, WFMin, Zenon
<1>2. \A y \in S : ~ (y < x)
  BY <1>1 DEF OpToRel
<1> QED
  BY <1>2

LEMMA LoopbackType == Loopback \in Name /\ Family[Loopback] = "lo"
BY OpeningAssumption DEF Loopback

LEMMA PlaceType ==
  ASSUME TypeOK, NEW n \in Name
  PROVE  Place(n) \in Nat
<1>1. CASE platform = "linux"
  <2>1. DOMAIN Names \subseteq Nat
    BY OpeningAssumption
  <2>2. \E i \in DOMAIN Names : Names[i] = n
    BY DEF Name
  <2> QED
    BY <1>1, <2>1, <2>2 DEF Place
<1>2. CASE platform # "linux"
  BY <1>2, OpeningAssumption DEF Place, TypeOK, Indices, Index, Gone
<1> QED
  BY <1>1, <1>2

(* The first of a set of interfaces is one of them. *)
LEMMA FirstIsThere ==
  ASSUME TypeOK, NEW names, names \subseteq Name
  PROVE  /\ First(names) \in Name
         /\ names # {} => First(names) \in names
         /\ names = {} => First(names) = Loopback
<1>1. CASE names = {}
  BY <1>1, LoopbackType DEF First
<1>2. CASE names # {}
  <2> DEFINE places == {Place(n) : n \in names}
  <2>1. places \subseteq Nat /\ places # {}
    BY <1>2, PlaceType
  <2>2. PICK x \in places : \A y \in places : x <= y
    BY <2>1, Smallest
  <2>3. \E n \in names : \A m \in names : Place(n) <= Place(m)
    BY <2>2
  <2> QED
    BY <1>2, <2>3 DEF First
<1> QED
  BY <1>1, <1>2

LEMMA RankIs ==
  ASSUME NEW n \in Name
  PROVE  /\ platform = "freebsd" =>
              Rank(n) = IF Family[n] \in {"wired", "wireless", "other"} THEN 0 ELSE 3
         /\ platform # "freebsd" =>
              Rank(n) = IF Family[n] = "wired" THEN 0
                        ELSE IF Family[n] = "wireless" THEN 1
                        ELSE IF Family[n] \in {"other", "pflog"} THEN 2 ELSE 3
<1>1. Family[n] \in {"lo", "pflog", "wired", "wireless", "other"}
  BY OpeningAssumption
<1> QED
  BY <1>1 DEF Rank

(* What autodetection returns is a name, and no other is better. *)
LEMMA AutodetectedIsBest ==
  ASSUME TypeOK, NEW list, list \subseteq Name
  PROVE  /\ Autodetected(list) \in Name
         /\ \A n \in list : Rank(Autodetected(list)) <= Rank(n)
<1> DEFINE of(families) == {n \in list : Family[n] \in families}
<1>1. \A families : /\ of(families) \subseteq Name
                    /\ First(of(families)) \in Name
                    /\ of(families) # {} => First(of(families)) \in of(families)
                    /\ of(families) = {} => First(of(families)) = Loopback
  BY FirstIsThere
<1>2. \A n \in Name : Family[n] \in {"lo", "pflog", "wired", "wireless", "other"}
  BY OpeningAssumption
<1>3. \A n \in Name : Rank(n) \in 0 .. 3
  BY <1>2, RankIs
<1>4. CASE platform = "freebsd"
  <2> DEFINE real == of({"wired", "wireless", "other"})
  <2>1. Autodetected(list) = First(real)
    BY <1>4 DEF Autodetected
  <2>2. First(real) \in Name /\ (real # {} => First(real) \in real)
                          /\ (real = {} => First(real) = Loopback)
    BY <1>1
  <2>3. CASE real # {}
    <3>1. Family[First(real)] \in {"wired", "wireless", "other"}
      BY <2>2, <2>3
    <3>2. Rank(First(real)) = 0
      BY <1>4, <2>2, <3>1, RankIs
    <3> QED
      BY <1>3, <2>1, <2>2, <3>2
  <2>4. CASE real = {}
    <3>1. \A n \in list : Family[n] \notin {"wired", "wireless", "other"}
      BY <2>4
    <3>2. \A n \in list : Rank(n) = 3
      BY <1>4, <3>1, RankIs
    <3> QED
      BY <1>3, <2>1, <2>2, <3>2
  <2> QED
    BY <2>3, <2>4
<1>5. CASE platform # "freebsd"
  <2>1. CASE of({"wired"}) # {}
    <3>1. Autodetected(list) = First(of({"wired"}))
      BY <1>5, <2>1 DEF Autodetected
    <3>2. First(of({"wired"})) \in of({"wired"})
      BY <1>1, <2>1
    <3>3. Rank(First(of({"wired"}))) = 0
      BY <1>5, <3>2, RankIs
    <3> QED
      BY <1>3, <3>1, <3>2, <3>3
  <2>2. CASE of({"wired"}) = {} /\ of({"wireless"}) # {}
    <3>1. Autodetected(list) = First(of({"wireless"}))
      BY <1>5, <2>2 DEF Autodetected
    <3>2. First(of({"wireless"})) \in of({"wireless"})
      BY <1>1, <2>2
    <3>3. Rank(First(of({"wireless"}))) = 1
      BY <1>5, <3>2, RankIs
    <3>4. \A n \in list : Family[n] # "wired"
      BY <2>2
    <3>5. \A n \in list : Rank(n) >= 1
      BY <1>5, <3>4, RankIs
    <3> QED
      BY <3>1, <3>2, <3>3, <3>5
  <2>3. CASE of({"wired"}) = {} /\ of({"wireless"}) = {}
    <3> DEFINE rest == of({"other", "pflog"})
    <3>1. Autodetected(list) = First(rest)
      BY <1>5, <2>3 DEF Autodetected
    <3>2. First(rest) \in Name /\ (rest # {} => First(rest) \in rest)
                            /\ (rest = {} => First(rest) = Loopback)
      BY <1>1
    <3>3. \A n \in list : Family[n] \notin {"wired", "wireless"}
      BY <2>3
    <3>4. CASE rest # {}
      <4>1. Family[First(rest)] \in {"other", "pflog"}
        BY <3>2, <3>4
      <4>2. Rank(First(rest)) = 2
        BY <1>5, <3>2, <4>1, RankIs
      <4>3. \A n \in list : Rank(n) >= 2
        BY <1>5, <3>3, RankIs
      <4> QED
        BY <3>1, <3>2, <4>2, <4>3
    <3>5. CASE rest = {}
      <4>1. \A n \in list : Family[n] \notin {"other", "pflog"}
        BY <3>5
      <4>2. \A n \in list : Rank(n) = 3
        BY <1>5, <3>3, <4>1, RankIs
      <4> QED
        BY <1>3, <3>1, <3>2, <4>2
    <3> QED
      BY <3>4, <3>5
  <2> QED
    BY <2>1, <2>2, <2>3
<1> QED
  BY <1>4, <1>5

-----------------------------------------------------------------------------
(* The calls of each platform, and what follows each. *)
LEMMA LinuxAfter ==
  ASSUME platform = "linux"
  PROVE  /\ StepsOf(platform) = {"socket", "if_nametoindex", "bind", "options", "mac_of"}
         /\ After("socket") = "if_nametoindex" /\ After("if_nametoindex") = "bind"
         /\ After("bind") = "options" /\ After("options") = "mac_of"
         /\ After("mac_of") = "opened"
BY DEF StepsOf, After, LinuxSteps

LEMMA FreeBSDAfter ==
  ASSUME platform = "freebsd"
  PROVE  /\ StepsOf(platform) = {"open", "BIOCSBLEN", "BIOCSETIF", "BIOCIMMEDIATE", "options",
                                 "BIOCGDLT", "BIOCGBLEN", "mac_of"}
         /\ After("open") = "BIOCSBLEN" /\ After("BIOCSBLEN") = "BIOCSETIF"
         /\ After("BIOCSETIF") = "BIOCIMMEDIATE" /\ After("BIOCIMMEDIATE") = "options"
         /\ After("options") = "BIOCGDLT" /\ After("BIOCGDLT") = "BIOCGBLEN"
         /\ After("BIOCGBLEN") = "mac_of" /\ After("mac_of") = "opened"
BY DEF StepsOf, After, FreeBSDSteps

(* The steps that come after the descriptor is bound. *)
Late == {"BIOCIMMEDIATE", "options", "BIOCGDLT", "BIOCGBLEN", "mac_of", "opened"}

(* Where each call of the platform leads. *)
LEMMA AfterType ==
  ASSUME TypeOK, step \in StepsOf(platform)
  PROVE  /\ After(step) \in StepsOf(platform) \cup {"opened"}
         /\ After(step) # "failed" /\ After(step) # "notYet"
         /\ After(step) \in Late <=> step \in Late \cup {"bind", "BIOCSETIF"}
         /\ After(step) = "bind" <=> step = "if_nametoindex"
         /\ After(step) = "opened" <=> step = "mac_of"
<1>1. platform \in {"linux", "freebsd"}
  BY OpeningAssumption DEF TypeOK
<1>2. CASE platform = "linux"
  BY <1>2, LinuxAfter DEF Late
<1>3. CASE platform = "freebsd"
  BY <1>3, FreeBSDAfter DEF Late
<1> QED
  BY <1>1, <1>2, <1>3

(* A name that is called is one of the steps of some platform. *)
LEMMA CallsAreSteps ==
  ASSUME TypeOK, step \notin {"notYet", "opened", "failed"}
  PROVE  step \in StepsOf(platform)
BY DEF TypeOK

(* What a failure leaves behind. *)
Failures ==
  /\ error = None <=> step # "failed"
  /\ denied <=> error = "PermissionDenied"
  /\ step = "failed" => fd # "open"
  /\ error = "NoSuchInterface" => Gone \in held
  /\ step = "failed" /\ platform = "linux" /\ ~broken /\ held = {Gone} => error = "NoSuchInterface"
  /\ step # "notYet" => iface \in Name
  /\ main = "start" => step = "notYet" /\ iface = None

(* What goes by the name of the interface, and what was chosen.  A name goes
   from one interface to another only by way of being free. *)
Holders ==
  /\ iface # None => iface \in Name /\ ifs[iface] \in held
  /\ iface = None => step = "notYet" /\ held = {}
  /\ Gone \in held \/ held = {} \/ held = {ifs[iface]}

Choice ==
  step # "notYet" =>
    IF asked # None THEN iface = asked ELSE \A n \in listed : Rank(iface) <= Rank(n)

(* What the calls made so far have settled. *)
Calls ==
  /\ step = "bind" => ifindex \in held \ {Gone}
  /\ step \in Late => bound \in held \ {Gone}
  /\ step = "opened" => mac \in {None} \cup (held \ {Gone})
  /\ ~broken /\ Gone \notin held =>
       /\ step # "failed"
       /\ step = "opened" => mac = AddressOf(bound)

Settled == Holders /\ Choice /\ Calls

Inv == TypeOK /\ Failures /\ Settled

USE DEF Index, Indices, Gone, Unbound, Errors

LEMMA InvInit == Init => Inv
<1> SUFFICES ASSUME Init PROVE Inv
  OBVIOUS
<1>1. TypeOK
  <2>1. changes \in 0 .. MaxChanges
    BY OpeningAssumption DEF Init
  <2>2. ifs \in [Name -> Indices]
    BY OpeningAssumption DEF Init
  <2>3. step \in StepsOf(platform) \cup {"notYet", "opened", "failed"}
    BY DEF Init
  <2>4. {denied, broken} \subseteq BOOLEAN /\ listed \subseteq Name /\ held \subseteq Indices
    BY DEF Init
  <2>5. device \in 1 .. Devices
    BY DEF Init, Devices
  <2> QED
    BY <2>1, <2>2, <2>3, <2>4, <2>5 DEF Init, TypeOK
<1>2. Failures
  BY OpeningAssumption DEF Init, Failures, Late
<1>3. Settled
  BY OpeningAssumption DEF Init, Settled, Holders, Choice, Calls, Late
<1> QED
  BY <1>1, <1>2, <1>3 DEF Inv

(* A step of the opening changes neither the host nor what was chosen. *)
LEMMA StillKeeps ==
  ASSUME Inv, Still, step # "notYet", step' # "notYet"
  PROVE  Holders' /\ Choice' /\ StepsOf(platform)' = StepsOf(platform)
<1>1. UNCHANGED <<platform, mode, asked, ifs, changes, main, iface, inbox, listed, held>>
  BY DEF Still, cli, host
<1>2. Holders'
  BY <1>1 DEF Inv, Settled, Holders
<1>3. \A n : Rank(n)' = Rank(n)
  BY <1>1 DEF Rank
<1>4. Rank(iface)' = Rank(iface)
  BY <1>1 DEF Rank
<1>5. Choice'
  BY <1>1, <1>3, <1>4 DEF Inv, Settled, Choice
<1> QED
  BY <1>1, <1>2, <1>5 DEF StepsOf

(* The steps of the opening, which leave the host alone. *)
LEMMA OpeningKeepsInv ==
  ASSUME Inv, Socket \/ IfNameToIndex \/ Bind \/ OpenBpf \/ SetIf \/ Ioctl \/ Options \/ MacOf
  PROVE  Inv'
<1>1. Still
  BY DEF Socket, IfNameToIndex, Bind, OpenBpf, SetIf, Ioctl, Options, MacOf
<1>2. step \notin {"notYet", "opened", "failed"}
  BY DEF Socket, IfNameToIndex, Bind, OpenBpf, SetIf, Ioctl, Options, MacOf
<1>3. step \in StepsOf(platform)
  BY <1>2, CallsAreSteps DEF Inv
<1>4. /\ After(step) \in StepsOf(platform) \cup {"opened"}
      /\ After(step) # "failed" /\ After(step) # "notYet"
      /\ After(step) \in Late <=> step \in Late \cup {"bind", "BIOCSETIF"}
      /\ After(step) = "bind" <=> step = "if_nametoindex"
      /\ After(step) = "opened" <=> step = "mac_of"
  BY <1>3, AfterType DEF Inv
<1>5. iface \in Name /\ ifs[iface] \in Indices /\ ifs[iface] \in held /\ main # "start"
  BY <1>2, OpeningAssumption DEF Inv, Failures, Settled, Holders, TypeOK
<1>a. platform = "linux" => step \in {"socket", "if_nametoindex", "bind", "options", "mac_of"}
  BY <1>3, LinuxAfter
<1>b. step' # "notYet"
  BY <1>2, <1>4 DEF Socket, IfNameToIndex, Bind, OpenBpf, SetIf, Ioctl, Options, MacOf, Go, Fail
<1>c. Holders' /\ Choice' /\ StepsOf(platform)' = StepsOf(platform)
  BY <1>1, <1>2, <1>b, StillKeeps
<1>d. UNCHANGED <<platform, ifs, iface, main, held>>
  BY <1>1 DEF Still, cli, host
<1>e. Gone \notin held => held = {ifs[iface]}
  BY <1>5 DEF Inv, Settled, Holders
<1>f. /\ step = "bind" => ifindex \in held \ {Gone}
      /\ step \in Late => bound \in held \ {Gone}
  BY DEF Inv, Settled, Calls
<1> USE <1>1, <1>2, <1>4, <1>5 DEF Inv
<1>6. CASE Socket
  <2>1. TypeOK'
    BY <1>6, <1>c DEF Socket, Go, Fail, Still, cli, host, TypeOK
  <2>2. Failures'
    BY <1>6, <1>a, <1>d, <1>f, OpeningAssumption DEF Socket, Go, Fail, Still, TypeOK, Failures, Late
  <2>3. Calls'
    BY <1>6, <1>d, <1>f DEF Socket, Go, Fail, Settled, Calls, Late
  <2> QED
    BY <1>c, <2>1, <2>2, <2>3 DEF Settled
<1>7. CASE IfNameToIndex
  <2>1. TypeOK'
    BY <1>7, <1>c DEF IfNameToIndex, Go, Fail, Still, cli, host, TypeOK
  <2>2. Failures'
    BY <1>7, <1>a, <1>d, <1>f, OpeningAssumption DEF IfNameToIndex, Go, Fail, Still, TypeOK, Failures, Late
  <2>3. Calls'
    BY <1>7, <1>d, <1>f DEF IfNameToIndex, Go, Fail, Settled, Calls, Late
  <2> QED
    BY <1>c, <2>1, <2>2, <2>3 DEF Settled
<1>8. CASE Bind
  <2>1. TypeOK'
    BY <1>8, <1>c DEF Bind, Go, Fail, There, Still, cli, host, TypeOK
  <2>2. Failures'
    BY <1>8, <1>a, <1>d, <1>f, OpeningAssumption DEF Bind, Go, Fail, There, Still, TypeOK, Failures, Late
  <2>3. Calls'
    <3>1. ifindex \in held \ {Gone} /\ (Gone \notin held => ifindex = ifs[iface])
      BY <1>8, <1>e, <1>f DEF Bind
    <3>2. CASE Go /\ bound' = ifindex /\ UNCHANGED <<device, ifindex, fd, mac, error, broken>>
      BY <1>8, <1>d, <3>1, <3>2 DEF Bind, Go, Calls, Late
    <3>3. CASE Fail("Capture") /\ broken' = (broken \/ \E n \in There : ifs[n] = ifindex)
      <4>1. Gone \notin held => broken'
        BY <3>1, <3>3 DEF There
      <4> QED
        BY <1>d, <3>3, <4>1 DEF Fail, Calls, Late
    <3> QED
      BY <1>8, <3>2, <3>3 DEF Bind
  <2> QED
    BY <1>c, <2>1, <2>2, <2>3 DEF Settled
<1>9. CASE OpenBpf
  <2>1. TypeOK'
    <3>1. device' \in 1 .. Devices
      BY <1>9 DEF OpenBpf, Go, Fail, TypeOK, Devices
    <3>2. step' \in StepsOf(platform) \cup {"notYet", "opened", "failed"}
      BY <1>9 DEF OpenBpf, Go, Fail, TypeOK
    <3>3. error' \in Errors \cup {None} /\ fd' \in {"none", "open", "closed"}
      BY <1>9 DEF OpenBpf, Go, Fail, TypeOK
    <3>4. {denied', broken'} \subseteq BOOLEAN
      BY <1>9 DEF OpenBpf, TypeOK
    <3>5. UNCHANGED <<ifindex, bound, mac>>
      BY <1>9 DEF OpenBpf, Go, Fail
    <3> QED
      BY <1>c, <3>1, <3>2, <3>3, <3>4, <3>5 DEF Still, cli, host, TypeOK
  <2>2. Failures'
    BY <1>9, <1>a, <1>d, <1>f, OpeningAssumption DEF OpenBpf, Go, Fail, Still, TypeOK, Failures, Late
  <2>3. Calls'
    BY <1>9, <1>d, <1>f DEF OpenBpf, Go, Fail, Settled, Calls, Late
  <2> QED
    BY <1>c, <2>1, <2>2, <2>3 DEF Settled
<1>10. CASE SetIf
  <2>1. TypeOK'
    BY <1>10, <1>c DEF SetIf, Go, Fail, Still, cli, host, TypeOK
  <2>2. Failures'
    BY <1>10, <1>a, <1>d, <1>f, OpeningAssumption DEF SetIf, Go, Fail, Still, TypeOK, Failures, Late
  <2>3. Calls'
    BY <1>10, <1>d, <1>f DEF SetIf, Go, Fail, Settled, Calls, Late
  <2> QED
    BY <1>c, <2>1, <2>2, <2>3 DEF Settled
<1>11. CASE Ioctl
  <2>1. TypeOK'
    BY <1>11, <1>c DEF Ioctl, Go, Fail, Still, cli, host, TypeOK
  <2>2. Failures'
    BY <1>11, <1>a, <1>d, <1>f, OpeningAssumption DEF Ioctl, Go, Fail, Still, TypeOK, Failures, Late
  <2>3. Calls'
    BY <1>11, <1>d, <1>f DEF Ioctl, Go, Fail, Settled, Calls, Late
  <2> QED
    BY <1>c, <2>1, <2>2, <2>3 DEF Settled
<1>12. CASE Options
  <2>1. TypeOK'
    BY <1>12, <1>c DEF Options, Go, Fail, Still, cli, host, TypeOK
  <2>2. Failures'
    BY <1>12, <1>a, <1>d, <1>f, OpeningAssumption DEF Options, Go, Fail, Still, TypeOK, Failures, Late
  <2>3. Calls'
    BY <1>12, <1>d, <1>f DEF Options, Go, Fail, Settled, Calls, Late
  <2> QED
    BY <1>c, <2>1, <2>2, <2>3 DEF Settled
<1>13. CASE MacOf
  <2>1. TypeOK'
    <3>1. mac' \in Index \cup {None}
      BY <1>13 DEF MacOf, AddressOf
    <3>2. step' \in StepsOf(platform) \cup {"notYet", "opened", "failed"}
      BY <1>13 DEF MacOf, Go
    <3>3. {denied', broken'} \subseteq BOOLEAN
      BY <1>13 DEF MacOf, TypeOK
    <3>4. UNCHANGED <<device, ifindex, fd, bound, error>>
      BY <1>13 DEF MacOf
    <3> QED
      BY <1>c, <3>1, <3>2, <3>3, <3>4 DEF Still, cli, host, TypeOK
  <2>2. Failures'
    BY <1>13, <1>a, <1>d, <1>f, OpeningAssumption DEF MacOf, Go, Fail, AddressOf, Still, TypeOK, Failures, Late
  <2>3. Calls'
    <3>1. step' = "opened" /\ bound' = bound /\ bound \in held \ {Gone}
      BY <1>13, <1>f DEF MacOf, Go, Late
    <3>2. mac' \in {None} \cup (held \ {Gone})
      BY <1>13 DEF MacOf, AddressOf
    <3>3. ~broken' /\ Gone \notin held => mac' = AddressOf(bound)'
      BY <1>13, <1>d, <1>e, <3>1 DEF MacOf, AddressOf
    <3> QED
      BY <1>d, <3>1, <3>2, <3>3 DEF Calls
  <2> QED
    BY <1>c, <2>1, <2>2, <2>3 DEF Settled
<1> QED
  BY <1>6, <1>7, <1>8, <1>9, <1>10, <1>11, <1>12, <1>13

(* The steps of main() and of the host. *)
LEMMA OthersKeepInv ==
  ASSUME Inv, List \/ Choose \/ Probed \/ Arrive \/ Change
  PROVE  Inv'
<1> USE DEF Inv
<1>1. CASE List
  <2>1. UNCHANGED <<cli, host, iface, opening, inbox, records>>
    BY <1>1 DEF List
  <2>2. TypeOK'
    BY <1>1, <2>1 DEF List, cli, host, opening, records, TypeOK, StepsOf
  <2>3. Failures'
    BY <1>1, <2>1 DEF List, cli, opening, records, Failures
  <2>4. Settled'
    BY <2>1 DEF cli, host, opening, records, Settled, Holders, Choice, Calls, Rank, AddressOf
  <2> QED
    BY <2>2, <2>3, <2>4
<1>2. CASE Choose
  <2>1. platform \in {"linux", "freebsd"}
    BY OpeningAssumption DEF TypeOK
  <2>2. step' \in StepsOf(platform) /\ step' \in {"socket", "open"}
    BY <1>2, <2>1, LinuxAfter, FreeBSDAfter DEF Choose
  <2>3. \A list \in SUBSET Name : /\ Autodetected(list) \in Name
                                  /\ \A n \in list : Rank(Autodetected(list)) <= Rank(n)
    BY AutodetectedIsBest
  <2>4. There \in SUBSET Name /\ {} \in SUBSET Name
    BY DEF There
  <2>5. \/ asked # None /\ iface' = asked /\ UNCHANGED <<broken, listed>>
        \/ asked = None /\ listed' \in SUBSET Name /\ iface' = Autodetected(listed')
             /\ broken' \in {broken, TRUE}
    BY <1>2, <2>4 DEF Choose
  <2>6. iface' \in Name /\ listed' \subseteq Name /\ broken' \in BOOLEAN
    BY <2>3, <2>5 DEF TypeOK
  <2>7. /\ UNCHANGED <<platform, mode, asked, ifs, changes, device, ifindex, fd, bound, mac, error>>
        /\ UNCHANGED <<inbox, denied>>
        /\ main' \in {"probing", "ui"} /\ held' = {ifs[iface']}
    BY <1>2 DEF Choose, cli, host
  <2>8. ifs[iface'] \in Indices
    BY <2>6 DEF TypeOK
  <2>9. TypeOK'
    BY <2>2, <2>6, <2>7, <2>8 DEF TypeOK, StepsOf
  <2>10. Failures'
    <3>1. error = None /\ ~denied
      BY <1>2, OpeningAssumption DEF Choose, Failures
    <3> QED
      BY <2>2, <2>6, <2>7, <3>1, OpeningAssumption DEF Failures
  <2>11. Holders'
    BY <2>6, <2>7, OpeningAssumption DEF Holders
  <2>12. Choice'
    <3>1. \A n : Rank(n)' = Rank(n)
      BY <2>7 DEF Rank
    <3>2. Rank(iface)' = Rank(iface')
      BY <2>7 DEF Rank
    <3>3. CASE asked # None
      BY <2>5, <2>7, <3>3 DEF Choice
    <3>4. CASE asked = None
      <4>1. \A n \in listed' : Rank(iface') <= Rank(n)
        BY <2>3, <2>5, <3>4
      <4> QED
        BY <2>7, <3>1, <3>2, <3>4, <4>1 DEF Choice
    <3> QED
      BY <3>3, <3>4
  <2>13. Calls'
    BY <2>2, <2>7 DEF Calls, Late
  <2> QED
    BY <2>9, <2>10, <2>11, <2>12, <2>13 DEF Settled
<1>3. CASE Probed
  <2>1. UNCHANGED <<cli, host, iface, step, device, ifindex, bound, mac, error, inbox, records>>
    BY <1>3 DEF Probed
  <2>2. TypeOK'
    BY <1>3, <2>1 DEF Probed, cli, host, records, TypeOK, StepsOf
  <2>3. Failures'
    BY <1>3, <2>1 DEF Probed, cli, records, Failures
  <2>4. Settled'
    BY <2>1 DEF cli, host, records, Settled, Holders, Choice, Calls, Rank, AddressOf
  <2> QED
    BY <2>2, <2>3, <2>4
<1>4. CASE Arrive
  <2>1. UNCHANGED <<cli, host, main, iface, opening, records>>
    BY <1>4 DEF Arrive
  <2>2. inbox' \subseteq Index
    BY <1>4 DEF Arrive, There, TypeOK
  <2>3. TypeOK'
    BY <2>1, <2>2 DEF cli, host, opening, records, TypeOK, StepsOf
  <2>4. Failures'
    BY <2>1 DEF cli, opening, records, Failures
  <2>5. Settled'
    BY <2>1 DEF cli, host, opening, records, Settled, Holders, Choice, Calls, Rank, AddressOf
  <2> QED
    BY <2>3, <2>4, <2>5
<1>5. CASE Change
  <2>1. ifs' \in [Name -> Indices]
    BY <1>5 DEF Change, TypeOK
  <2>2. changes' \in 0 .. MaxChanges
    BY <1>5, OpeningAssumption DEF Change, TypeOK
  <2>3. UNCHANGED <<platform, mode, asked, main, iface, step, device, ifindex, fd, bound, mac,
                    error, inbox, denied, broken, listed>>
    BY <1>5 DEF Change, cli, opening
  <2>4. /\ step \notin {"opened", "failed"}
        /\ held' = IF iface = None THEN held ELSE held \cup {ifs'[iface]}
    BY <1>5 DEF Change
  <2>5. iface # None => iface \in Name /\ ifs[iface] \in held /\ ifs'[iface] \in Indices
    BY <2>1 DEF Settled, Holders
  <2>6. held \subseteq held' /\ held' \subseteq Indices
    BY <2>4, <2>5 DEF TypeOK
  <2>7. TypeOK'
    BY <2>1, <2>2, <2>3, <2>6 DEF TypeOK, StepsOf
  <2>8. Failures'
    BY <2>3, <2>4, <2>6, OpeningAssumption DEF Failures
  <2>9. \A n \in Name : ifs'[n] = ifs[n] \/ ifs'[n] = Gone \/ ifs[n] = Gone
    BY <1>5 DEF Change, TypeOK
  <2>10. Holders'
    <3>1. CASE iface = None
      BY <2>3, <2>4, <3>1 DEF Settled, Holders
    <3>2. CASE iface # None
      BY <2>3, <2>4, <2>5, <2>9, <3>2 DEF Settled, Holders
    <3> QED
      BY <3>1, <3>2
  <2>11. Choice'
    BY <2>3 DEF Settled, Choice, Rank
  <2>12. Calls'
    BY <2>3, <2>4, <2>6 DEF Settled, Calls, Late, AddressOf
  <2> QED
    BY <2>7, <2>8, <2>10, <2>11, <2>12 DEF Settled
<1> QED
  BY <1>1, <1>2, <1>3, <1>4, <1>5

LEMMA NextKeepsInv ==
  ASSUME Inv, [Next]_vars
  PROVE  Inv'
<1>1. CASE UNCHANGED vars
  <2>1. UNCHANGED <<platform, mode, asked, ifs, changes, main, iface, step, device, ifindex, fd,
                    bound, mac, error, inbox, denied, broken, listed, held>>
    BY <1>1 DEF vars, cli, host, opening, records
  <2> QED
    BY <2>1 DEF Inv, TypeOK, Failures, Settled, Holders, Choice, Calls, Rank,
               AddressOf, StepsOf
<1>2. CASE Next
  BY <1>2, OpeningKeepsInv, OthersKeepInv DEF Next
<1> QED
  BY <1>1, <1>2

(***************************************************************************)
(* The state is well formed, and only calls of the platform are made       *)
(* (main.rs, backend_linux.rs and backend_freebsd.rs open).                *)
(***************************************************************************)
THEOREM TypeCorrect == Spec => []TypeOK
<1>1. Inv => TypeOK
  BY DEF Inv
<1> QED
  BY <1>1, InvInit, NextKeepsInv, PTL DEF Spec

(***************************************************************************)
(* Whichever call fails, nothing stays open; the error speaks of refused   *)
(* rights exactly if rights were refused, and of a missing interface only  *)
(* if it was missing, on Linux always when nothing but that went wrong     *)
(* (backend_linux.rs open, backend_freebsd.rs open and open_bpf_device).   *)
(***************************************************************************)
THEOREM FailuresTellTheirCause == Spec => []FailureTellsTheCause
<1>1. Inv => FailureTellsTheCause
  BY OpeningAssumption DEF Inv, Failures, FailureTellsTheCause
<1> QED
  BY <1>1, InvInit, NextKeepsInv, PTL DEF Spec

(***************************************************************************)
(* Whatever happens to the interfaces meanwhile, the name asked for is     *)
(* opened, or the best one listed, on an interface that bore it; if the    *)
(* name never was free and no call failed that need not have, the opening  *)
(* succeeds and the address is that interface's own, if it has one         *)
(* (main.rs autodetect_interface, backend_linux.rs and backend_freebsd.rs  *)
(* open, stats.rs mac_of).                                                 *)
(***************************************************************************)
THEOREM TheRightInterfaceIsOpened == Spec => []OpensWhatWasAsked
<1>1. Inv => OpensWhatWasAsked
  <2> SUFFICES ASSUME Inv, step \in {"opened", "failed"}
               PROVE  /\ IF asked # None THEN iface = asked
                                         ELSE \A n \in listed : Rank(iface) <= Rank(n)
                      /\ step = "opened" => bound \in held \ {Gone} /\ mac \in {None} \cup (held \ {Gone})
                      /\ ~broken /\ Gone \notin held => step = "opened" /\ mac = AddressOf(bound)
    BY DEF OpensWhatWasAsked
  <2>1. Choice /\ Calls
    BY DEF Inv, Settled
  <2> QED
    BY <2>1 DEF Choice, Calls, Late
<1> QED
  BY <1>1, InvInit, NextKeepsInv, PTL DEF Spec

=============================================================================
