------------------------------ MODULE ScanProofs ------------------------------
(***************************************************************************)
(* Proofs about Scan, for every set of systems and command lines, every    *)
(* length of the list of results and every number of alerts looked at.     *)
(*                                                                         *)
(* Each check is shown to add only results of its own heading, graded      *)
(* without contradiction, on any system.  The invariant carries that over  *)
(* to what the current check has still to add and to the list, together    *)
(* with the order the checks come in and the counters.                     *)
(***************************************************************************)
EXTENDS Scan, FiniteSetTheorems, SequenceTheorems, WellFoundedInduction, TLAPS

-----------------------------------------------------------------------------
(* The sequences the checks are put together from. *)

LEMMA Smallest ==
  ASSUME NEW S, S \subseteq Nat, S # {}
  PROVE  \E x \in S : \A y \in S : x <= y
<1>1. PICK x \in S : \A y \in S : ~ (<<y, x>> \in OpToRel(<, Nat))
  BY NatLessThanWellFounded, WFMin, Zenon
<1>2. \A y \in S : ~ (y < x)
  BY <1>1 DEF OpToRel
<1> QED
  BY <1>2

LEMMA FunctionIsSeq ==
  ASSUME NEW R, NEW n \in Nat, NEW f \in [1 .. n -> R]
  PROVE  f \in Seq(R)
OBVIOUS

LEMMA OnlyIsSeq ==
  ASSUME NEW R, NEW condition, NEW result, condition => result \in R
  PROVE  Only(condition, result) \in Seq(R)
BY DEF Only

(* Among the positions in a set of them there is an n-th one. *)
LEMMA NthPosition ==
  ASSUME NEW len \in Nat, NEW at \in SUBSET (1 .. len), NEW n \in 1 .. Cardinality(at)
  PROVE  \E i \in at : Cardinality({j \in at : j <= i}) = n
<1> DEFINE front(i) == {j \in at : j <= i}
           upTo(i) == Cardinality(front(i))
           enough == {i \in 0 .. len : upTo(i) >= n}
<1>1. \A j \in at : j \in Nat /\ 1 <= j /\ j <= len
  OBVIOUS
<1>2. \A i \in Int : IsFiniteSet(front(i)) /\ upTo(i) \in Nat
  <2> TAKE i \in Int
  <2>1. IsFiniteSet(1 .. len)
    BY FS_Interval
  <2>2. front(i) \in SUBSET (1 .. len)
    OBVIOUS
  <2>3. IsFiniteSet(front(i))
    BY <2>1, <2>2, FS_Subset, Zenon
  <2> QED BY <2>3, FS_CardinalityType, Zenon
<1>3. upTo(len) = Cardinality(at) /\ upTo(0) = 0
  <2>1. (\A j \in at : j <= len) /\ (\A j \in at : ~(j <= 0))
    BY <1>1
  <2>2. front(len) = at /\ front(0) = {}
    BY <2>1, Zenon
  <2> QED BY <2>2, FS_EmptySet, Zenon
<1>4. \A i \in 1 .. len : upTo(i) = IF i \in at THEN upTo(i - 1) + 1 ELSE upTo(i - 1)
  <2> TAKE i \in 1 .. len
  <2>1. i - 1 \in Int /\ ~(i <= i - 1) /\ i <= i
    OBVIOUS
  <2>2. \A j \in at : j <= i <=> j <= i - 1 \/ j = i
    BY <1>1
  <2>3. CASE i \in at
    <3>1. front(i) = front(i - 1) \cup {i} /\ i \notin front(i - 1)
      BY <2>1, <2>2, <2>3, Zenon
    <3>2. IsFiniteSet(front(i - 1))
      BY <1>2, <2>1
    <3>3. Cardinality(front(i)) = Cardinality(front(i - 1)) + 1
      <4> HIDE DEF front
      <4> QED BY <3>1, <3>2, FS_AddElement
    <3> QED BY <2>3, <3>3
  <2>4. CASE i \notin at
    <3>1. front(i) = front(i - 1)
      BY <2>2, <2>4, Zenon
    <3> QED BY <2>4, <3>1, Zenon
  <2> QED BY <2>3, <2>4
<1> HIDE DEF upTo
<1>5. PICK i \in enough : \A k \in enough : i <= k
  <2>1. Cardinality(at) \in Nat
    <3>1. len \in Int
      OBVIOUS
    <3>2. upTo(len) \in Nat
      BY <1>2, <3>1, Zenon
    <3> QED BY <1>3, <3>2
  <2>2. len \in enough
    BY <1>3, <2>1
  <2>3. enough \subseteq Nat /\ enough # {}
    BY <2>2
  <2> HIDE DEF enough
  <2> QED BY <2>3, Smallest
<1>6. i \in 0 .. len /\ upTo(i) >= n
  OBVIOUS
<1>7. i # 0
  BY <1>3, <1>6
<1>8. i \in 1 .. len /\ i - 1 \in 0 .. len /\ i - 1 \in Int /\ i \in Int /\ ~(i <= i - 1)
  BY <1>6, <1>7
<1>9. ~(upTo(i - 1) >= n)
  BY <1>5, <1>8
<1>10. upTo(i) \in Nat /\ upTo(i - 1) \in Nat
  BY <1>2, <1>8
<1>11. i \in at /\ upTo(i) = n
  <2>1. upTo(i) = IF i \in at THEN upTo(i - 1) + 1 ELSE upTo(i - 1)
    BY <1>4, <1>8
  <2> QED BY <1>6, <1>9, <1>10, <2>1
<1> QED BY <1>11, Zenon DEF upTo

LEMMA OfKindsIsSeq ==
  ASSUME NEW R, NEW seq \in Seq(R), NEW kinds
  PROVE  OfKinds(kinds, seq) \in Seq(kinds)
<1> DEFINE at == {i \in DOMAIN seq : seq[i] \in kinds}
           nth(n) == CHOOSE i \in at : Cardinality({j \in at : j <= i}) = n
<1>1. Len(seq) \in Nat /\ at \in SUBSET (1 .. Len(seq))
  OBVIOUS
<1>2. Cardinality(at) \in Nat
  <2>1. IsFiniteSet(1 .. Len(seq))
    BY <1>1, FS_Interval
  <2>2. IsFiniteSet(at)
    BY <1>1, <2>1, FS_Subset, Zenon
  <2> QED BY <2>2, FS_CardinalityType, Zenon
<1>3. \A n \in 1 .. Cardinality(at) : seq[nth(n)] \in kinds
  <2> TAKE n \in 1 .. Cardinality(at)
  <2>1. \E i \in at : Cardinality({j \in at : j <= i}) = n
    BY <1>1, NthPosition
  <2>2. nth(n) \in at
    BY <2>1
  <2> QED BY <2>2
<1>4. OfKinds(kinds, seq) = [n \in 1 .. Cardinality(at) |-> seq[nth(n)]]
  BY DEF OfKinds
<1> HIDE DEF at, nth
<1>5. OfKinds(kinds, seq) \in [1 .. Cardinality(at) -> kinds]
  BY <1>3, <1>4
<1> QED BY <1>2, <1>5, FunctionIsSeq

LEMMA EachIsSeq ==
  ASSUME NEW R, NEW S, NEW seq \in Seq(S), NEW f, DOMAIN f = DOMAIN seq,
         \A i \in DOMAIN seq : f[i] \in R, f = [i \in DOMAIN f |-> f[i]]
  PROVE  f \in Seq(R)
<1>1. Len(seq) \in Nat /\ DOMAIN seq = 1 .. Len(seq)
  OBVIOUS
<1>2. f \in [1 .. Len(seq) -> R]
  BY <1>1
<1> QED BY <1>1, <1>2, FunctionIsSeq

-----------------------------------------------------------------------------
(* What a check may add: results under its heading whose two gradings agree. *)
Heading ==
  [processes |-> "Processes", users |-> "Users", filesystem |-> "Filesystem", disks |-> "Disks",
   dev |-> "Devices", sys |-> "Sysfs", ttys |-> "TTY", services |-> "Services",
   security |-> "Security", ssh |-> "SSH", suid |-> "SUID", logs |-> "Logs",
   updates |-> "Updates", deepParse |-> "Integrity", network |-> "Network",
   networkDeep |-> "Network-Deep"]

CheckNames ==
  {"processes", "users", "filesystem", "disks", "dev", "sys", "ttys", "services", "security",
   "ssh", "suid", "logs", "updates", "deepParse", "network", "networkDeep"}

Agrees(r) ==
  /\ r.severity = "Critical" => r.status = "Fail"
  /\ r.status \in {"Pass", "Unknown"} <=> r.severity = "Info"
  /\ r.status = "Fail" => r.advice

Sound(heading) == {r \in Result : r.category = heading /\ Agrees(r)}

LEMMA SoundResults ==
  ASSUME NEW cat \in Categories
  PROVE  /\ Passed(cat) \in Sound(cat) /\ Warned(cat) \in Sound(cat) /\ Failed(cat) \in Sound(cat)
         /\ Res(cat, "Info", "Pass", TRUE) \in Sound(cat)
         /\ Res(cat, "Info", "Unknown", TRUE) \in Sound(cat)
         /\ Res(cat, "Warning", "Warn", FALSE) \in Sound(cat)
         /\ Res(cat, "Warning", "Fail", TRUE) \in Sound(cat)
         /\ Res(cat, "Critical", "Fail", TRUE) \in Sound(cat)
BY DEF Sound, Agrees, Passed, Warned, Failed, Res, Result, Severities, Statuses

LEMMA SystemFields ==
  ASSUME NEW s \in System
  PROVE  /\ s.files \in Seq({"missing", "writable", "differs", "expected"})
         /\ s.dirs \in Seq({"absent", "sticky", "writable", "closed"})
         /\ s.mounts \in Seq(Percent) /\ s.swap \in Seq(Percent) /\ s.disks \in Nat
         /\ s.dev # None => s.dev.essential \in Seq(BOOLEAN)
         /\ s.sysfs # None => s.sysfs \in Nat
         /\ s.daemons \in Seq(BOOLEAN) /\ s.insecure \in Seq(BOOLEAN)
         /\ s.logs \in Nat
         /\ s.binaries \in Seq({"fine", "missing", "writable", "foreign", "notExecutable"})
         /\ s.alerts \in Seq({"UnusualPort", "HighPort", "ExternalConn", "Blacklisted"})
BY DEF System, Number

LEMMA ProcessesSound == Processes \in Seq(Sound("Processes"))
<1>1. "Processes" \in Categories
  BY DEF Categories
<1> DEFINE R == Sound("Processes")
<1>2. Passed("Processes") \in R /\ Warned("Processes") \in R
  BY <1>1, SoundResults
<1> HIDE DEF R
<1>3. <<Passed("Processes")>> \in Seq(R) /\ <<Warned("Processes")>> \in Seq(R)
  BY <1>2
<1> QED BY <1>3, Zenon DEF Processes, R

LEMMA UsersSound == Users \in Seq(Sound("Users"))
<1>1. "Users" \in Categories
  BY DEF Categories
<1> DEFINE R == Sound("Users")
           root == \E i \in DOMAIN sys.accounts : sys.accounts[i].uid = 0 /\ sys.accounts[i].name # "root"
           twice == \E i \in DOMAIN sys.accounts :
                      /\ sys.accounts[i].uid # 0
                      /\ \E j \in 1 .. i - 1 : sys.accounts[j].uid = sys.accounts[i].uid
           first == <<Passed("Users"), IF root THEN Failed("Users") ELSE Passed("Users")>>
<1>2. Passed("Users") \in R /\ Warned("Users") \in R /\ Failed("Users") \in R
  BY <1>1, SoundResults
<1> HIDE DEF R, root, twice
<1>3. first \in Seq(R)
  BY <1>2
<1>4. Only(twice, Warned("Users")) \in Seq(R)
  BY <1>2, OnlyIsSeq
<1> HIDE DEF first
<1>5. first \o Only(twice, Warned("Users")) \in Seq(R)
  BY <1>3, <1>4, ConcatProperties
<1> QED BY <1>5, Zenon DEF Users, R, root, twice, first

LEMMA FilesystemSound ==
  ASSUME sys \in System
  PROVE  Filesystem \in Seq(Sound("Filesystem"))
<1>1. "Filesystem" \in Categories
  BY DEF Categories
<1> DEFINE R == Sound("Filesystem")
           cat == "Filesystem"
           file(i) ==
             IF sys.files[i] \in {"missing", "writable"}
               THEN Res(cat, IF i \in CriticalFiles THEN "Critical" ELSE "Warning", "Fail", TRUE)
             ELSE IF sys.files[i] = "differs" THEN Warned(cat) ELSE Passed(cat)
           files == [i \in DOMAIN sys.files |-> file(i)]
           there == OfKinds({"sticky", "writable", "closed"}, sys.dirs)
           dirs == [i \in DOMAIN there |->
                      IF there[i] = "writable" THEN Failed(cat) ELSE Passed(cat)]
<1>2. /\ Passed(cat) \in R /\ Warned(cat) \in R /\ Failed(cat) \in R
      /\ Res(cat, "Warning", "Fail", TRUE) \in R /\ Res(cat, "Critical", "Fail", TRUE) \in R
  BY <1>1, SoundResults
<1>3. \A i : file(i) \in R
  BY <1>2
<1>4. files \in Seq(R)
  <2>1. sys.files \in Seq({"missing", "writable", "differs", "expected"})
    BY SystemFields
  <2> HIDE DEF file
  <2> QED BY <1>3, <2>1, EachIsSeq
<1>5. dirs \in Seq(R)
  <2>1. there \in Seq({"sticky", "writable", "closed"})
    BY SystemFields, OfKindsIsSeq
  <2> HIDE DEF there, R
  <2> QED BY <1>2, <2>1, EachIsSeq
<1>6. Filesystem = files \o dirs
  BY Zenon DEF Filesystem, Each
<1> HIDE DEF files, dirs, R
<1>7. files \o dirs \in Seq(R)
  BY <1>4, <1>5, ConcatProperties
<1> QED BY <1>6, <1>7 DEF R

LEMMA DisksSound ==
  ASSUME sys \in System
  PROVE  Disks \in Seq(Sound("Disks"))
<1>1. "Disks" \in Categories
  BY DEF Categories
<1> DEFINE R == Sound("Disks")
           graded(percent, warnAt, failAt) ==
             IF percent >= failAt THEN Failed("Disks")
             ELSE IF percent >= warnAt THEN Warned("Disks") ELSE Passed("Disks")
           mounts == [i \in DOMAIN sys.mounts |-> graded(sys.mounts[i], 80, 95)]
           disks == [i \in 1 .. sys.disks |-> Passed("Disks")]
           swap == [i \in DOMAIN sys.swap |-> graded(sys.swap[i], 50, 90)]
<1>2. Passed("Disks") \in R /\ Warned("Disks") \in R /\ Failed("Disks") \in R
  BY <1>1, SoundResults
<1> HIDE DEF R
<1>3. \A n, w, f : graded(n, w, f) \in R
  BY <1>2
<1> HIDE DEF graded
<1>4. sys.mounts \in Seq(Percent) /\ sys.swap \in Seq(Percent) /\ sys.disks \in Nat
  BY SystemFields
<1>5. mounts \in Seq(R) /\ swap \in Seq(R)
  BY <1>3, <1>4, EachIsSeq
<1>6. disks \in Seq(R)
  <2>1. disks \in [1 .. sys.disks -> R]
    BY <1>2
  <2> QED BY <1>4, <2>1, FunctionIsSeq
<1>7. Disks = mounts \o disks \o swap
  BY Zenon DEF Disks, Each, graded
<1> HIDE DEF mounts, disks, swap
<1>8. mounts \o disks \in Seq(R)
  BY <1>5, <1>6, ConcatProperties
<1>9. mounts \o disks \o swap \in Seq(R)
  BY <1>5, <1>8, ConcatProperties
<1> QED BY <1>7, <1>9 DEF R

LEMMA DevSound ==
  ASSUME sys \in System
  PROVE  Dev \in Seq(Sound("Devices"))
<1>1. "Devices" \in Categories
  BY DEF Categories
<1> DEFINE R == Sound("Devices")
           writable == sys.dev.writable > 0
           first == <<Passed("Devices"),
                      IF writable THEN Warned("Devices") ELSE Passed("Devices")>>
           essential == [i \in DOMAIN sys.dev.essential |->
                           IF sys.dev.essential[i] THEN Passed("Devices") ELSE Warned("Devices")]
           unread == Res("Devices", "Warning", "Warn", FALSE)
<1>2. Passed("Devices") \in R /\ Warned("Devices") \in R /\ unread \in R
  BY <1>1, SoundResults
<1> HIDE DEF R, writable, unread
<1>3. first \in Seq(R) /\ <<unread>> \in Seq(R)
  BY <1>2
<1>4. CASE sys.dev = None
  BY <1>3, <1>4, Zenon DEF Dev, R, unread
<1>5. CASE sys.dev # None
  <2>1. sys.dev.essential \in Seq(BOOLEAN)
    BY <1>5, SystemFields
  <2>2. essential \in Seq(R)
    BY <1>2, <2>1, EachIsSeq
  <2>3. Dev = first \o essential
    BY <1>5, Zenon DEF Dev, Each, writable
  <2> HIDE DEF first, essential
  <2>4. first \o essential \in Seq(R)
    BY <1>3, <2>2, ConcatProperties
  <2> QED BY <2>3, <2>4 DEF R
<1> QED BY <1>4, <1>5

LEMMA SysfsSound ==
  ASSUME sys \in System
  PROVE  Sysfs \in Seq(Sound("Sysfs"))
<1>1. "Sysfs" \in Categories
  BY DEF Categories
<1> DEFINE R == Sound("Sysfs")
<1>2. Passed("Sysfs") \in R
  BY <1>1, SoundResults
<1> HIDE DEF R
<1>3. <<Passed("Sysfs")>> \in Seq(R)
  BY <1>2
<1>4. CASE sys.sysfs = None
  BY <1>3, <1>4, Zenon DEF Sysfs, R
<1>5. CASE sys.sysfs # None
  <2>1. sys.sysfs \in Nat
    BY <1>5, SystemFields
  <2>2. [i \in 1 .. sys.sysfs |-> Passed("Sysfs")] \in [1 .. sys.sysfs -> R]
    BY <1>2
  <2>3. [i \in 1 .. sys.sysfs |-> Passed("Sysfs")] \in Seq(R)
    BY <2>1, <2>2, FunctionIsSeq
  <2> QED BY <1>5, <2>3, Zenon DEF Sysfs, R
<1> QED BY <1>4, <1>5

LEMMA TtysSound == Ttys \in Seq(Sound("TTY"))
<1>1. "TTY" \in Categories
  BY DEF Categories
<1> QED BY <1>1, SoundResults, OnlyIsSeq DEF Ttys

LEMMA ServicesSound ==
  ASSUME sys \in System
  PROVE  Services \in Seq(Sound("Services"))
<1>1. "Services" \in Categories
  BY DEF Categories
<1> DEFINE R == Sound("Services")
           daemons == [i \in DOMAIN sys.daemons |->
                         IF sys.daemons[i] THEN Passed("Services") ELSE Warned("Services")]
           insecure == [i \in DOMAIN sys.insecure |->
                          IF sys.insecure[i] THEN Failed("Services") ELSE Passed("Services")]
<1>2. Passed("Services") \in R /\ Warned("Services") \in R /\ Failed("Services") \in R
  BY <1>1, SoundResults
<1> HIDE DEF R
<1>3. daemons \in Seq(R) /\ insecure \in Seq(R)
  <2>1. sys.daemons \in Seq(BOOLEAN) /\ sys.insecure \in Seq(BOOLEAN)
    BY SystemFields
  <2> QED BY <1>2, <2>1, EachIsSeq
<1>4. Services = daemons \o insecure
  BY Zenon DEF Services, Each
<1> HIDE DEF daemons, insecure
<1>5. daemons \o insecure \in Seq(R)
  BY <1>3, ConcatProperties
<1> QED BY <1>4, <1>5 DEF R

LEMMA SecuritySound == Security \in Seq(Sound("Security"))
<1>1. "Security" \in Categories
  BY DEF Categories
<1> DEFINE R == Sound("Security")
           graded(n) == IF n = 0 THEN Warned("Security") ELSE Passed("Security")
           level == Only(sys.securelevel # None, graded(sys.securelevel))
           aslr == Only(sys.aslr # None, graded(sys.aslr))
           hidden == sys.hiddenModules > 0
           rest == <<Passed("Security"), IF hidden THEN Failed("Security") ELSE Passed("Security")>>
<1>2. Passed("Security") \in R /\ Warned("Security") \in R /\ Failed("Security") \in R
  BY <1>1, SoundResults
<1> HIDE DEF R, hidden
<1>3. level \in Seq(R) /\ aslr \in Seq(R)
  BY <1>2, OnlyIsSeq
<1>4. rest \in Seq(R)
  BY <1>2
<1>5. Security = level \o aslr \o rest
  BY Zenon DEF Security, hidden
<1> HIDE DEF level, aslr, rest
<1>6. level \o aslr \in Seq(R)
  BY <1>3, ConcatProperties
<1>7. level \o aslr \o rest \in Seq(R)
  BY <1>4, <1>6, ConcatProperties
<1> QED BY <1>5, <1>7 DEF R

LEMMA SshSound == Ssh \in Seq(Sound("SSH"))
<1>1. "SSH" \in Categories
  BY DEF Categories
<1> DEFINE R == Sound("SSH")
           first == <<IF "rootLogin" \in sys.sshd THEN Failed("SSH") ELSE Passed("SSH"),
                      IF "password" \in sys.sshd THEN Warned("SSH") ELSE Passed("SSH")>>
           x11 == Only("x11" \in sys.sshd, Warned("SSH"))
           unknown == Res("SSH", "Info", "Unknown", TRUE)
<1>2. /\ Passed("SSH") \in R /\ Warned("SSH") \in R /\ Failed("SSH") \in R
      /\ unknown \in R
  BY <1>1, SoundResults
<1> HIDE DEF R, unknown
<1>3. first \in Seq(R) /\ <<unknown>> \in Seq(R)
  BY <1>2
<1>4. x11 \in Seq(R)
  BY <1>2, OnlyIsSeq
<1>5. Ssh = IF sys.sshd = None THEN <<unknown>> ELSE first \o x11
  BY Zenon DEF Ssh, unknown
<1> HIDE DEF first, x11
<1>6. first \o x11 \in Seq(R)
  BY <1>3, <1>4, ConcatProperties
<1> QED BY <1>3, <1>5, <1>6 DEF R

LEMMA SuidSound == Suid \in Seq(Sound("SUID"))
<1>1. "SUID" \in Categories
  BY DEF Categories
<1> DEFINE R == Sound("SUID")
           some == sys.suid > 0
<1>2. Passed("SUID") \in R /\ Warned("SUID") \in R
  BY <1>1, SoundResults
<1> HIDE DEF R, some
<1>3. Only(sys.suid # None, IF some THEN Warned("SUID") ELSE Passed("SUID")) \in Seq(R)
  BY <1>2, OnlyIsSeq
<1> QED BY <1>3, Zenon DEF Suid, R, some

LEMMA LogsSound ==
  ASSUME sys \in System
  PROVE  Logs \in Seq(Sound("Logs"))
<1>1. "Logs" \in Categories
  BY DEF Categories
<1> DEFINE R == Sound("Logs")
<1>2. Passed("Logs") \in R /\ Warned("Logs") \in R
  BY <1>1, SoundResults
<1> HIDE DEF R
<1>3. <<Warned("Logs")>> \in Seq(R)
  BY <1>2
<1>4. [i \in 1 .. sys.logs |-> Passed("Logs")] \in Seq(R)
  <2>1. sys.logs \in Nat
    BY SystemFields
  <2>2. [i \in 1 .. sys.logs |-> Passed("Logs")] \in [1 .. sys.logs -> R]
    BY <1>2
  <2> QED BY <2>1, <2>2, FunctionIsSeq
<1> QED BY <1>3, <1>4, Zenon DEF Logs, R

LEMMA UpdatesSound == Updates \in Seq(Sound("Updates"))
<1>1. "Updates" \in Categories
  BY DEF Categories
<1> DEFINE R == Sound("Updates")
           installed == Res("Updates", "Info", "Pass", TRUE)
           first == <<IF sys.update THEN installed ELSE Warned("Updates")>>
<1>2. installed \in R /\ Warned("Updates") \in R
  BY <1>1, SoundResults
<1> HIDE DEF R, installed
<1>3. first \in Seq(R) /\ Only(sys.pkg, installed) \in Seq(R)
  BY <1>2, OnlyIsSeq
<1>4. Updates = first \o Only(sys.pkg, installed)
  BY Zenon DEF Updates, installed
<1> HIDE DEF first
<1>5. first \o Only(sys.pkg, installed) \in Seq(R)
  BY <1>3, ConcatProperties
<1> QED BY <1>4, <1>5 DEF R

LEMMA IntegritySound ==
  ASSUME sys \in System
  PROVE  Integrity \in Seq(Sound("Integrity"))
<1>1. "Integrity" \in Categories
  BY DEF Categories
<1> DEFINE R == Sound("Integrity")
           is(states) == \E i \in DOMAIN sys.binaries : sys.binaries[i] \in states
           summary == IF is({"missing"}) THEN Failed("Integrity")
                      ELSE IF is({"writable", "foreign", "notExecutable"}) THEN Warned("Integrity")
                      ELSE Passed("Integrity")
           reported == OfKinds({"missing", "writable", "foreign"}, sys.binaries)
           each == [i \in DOMAIN reported |->
                      IF reported[i] = "foreign" THEN Warned("Integrity") ELSE Failed("Integrity")]
<1>2. Passed("Integrity") \in R /\ Warned("Integrity") \in R /\ Failed("Integrity") \in R
  BY <1>1, SoundResults
<1> HIDE DEF R, is
<1>3. <<summary>> \in Seq(R)
  BY <1>2
<1>4. each \in Seq(R)
  <2>1. reported \in Seq({"missing", "writable", "foreign"})
    BY SystemFields, OfKindsIsSeq
  <2> HIDE DEF reported
  <2> QED BY <1>2, <2>1, EachIsSeq
<1>5. Integrity = <<summary>> \o each
  BY Zenon DEF Integrity, Each, is
<1> HIDE DEF summary, each
<1>6. <<summary>> \o each \in Seq(R)
  BY <1>3, <1>4, ConcatProperties
<1> QED BY <1>5, <1>6 DEF R

LEMMA NetworkSound == Network \in Seq(Sound("Network"))
<1>1. "Network" \in Categories
  BY DEF Categories
<1> DEFINE R == Sound("Network")
           many == sys.ports > 20
           first == <<IF many THEN Warned("Network") ELSE Passed("Network"),
                      IF sys.firewall THEN Passed("Network") ELSE Failed("Network")>>
           forwarding == Only(sys.forwarding # None, IF sys.forwarding # 0 THEN Warned("Network")
                                                                       ELSE Passed("Network"))
<1>2. Passed("Network") \in R /\ Warned("Network") \in R /\ Failed("Network") \in R
  BY <1>1, SoundResults
<1> HIDE DEF R, many
<1>3. first \in Seq(R)
  BY <1>2
<1>4. forwarding \in Seq(R)
  BY <1>2, OnlyIsSeq
<1>5. Network = first \o forwarding
  BY Zenon DEF Network, many
<1> HIDE DEF first, forwarding
<1>6. first \o forwarding \in Seq(R)
  BY <1>3, <1>4, ConcatProperties
<1> QED BY <1>5, <1>6 DEF R

LEMMA NetworkDeepSound ==
  ASSUME sys \in System
  PROVE  NetworkDeep \in Seq(Sound("Network-Deep"))
<1>1. "Network-Deep" \in Categories
  BY DEF Categories
<1> DEFINE cat == "Network-Deep"
           R == Sound(cat)
           looked == First(AlertLimit, sys.alerts)
           grave == OfKinds({"UnusualPort", "Blacklisted"}, looked)
           failures == [i \in DOMAIN grave |-> Failed(cat)]
           first == <<Passed(cat), Passed(cat)>>
<1>2. Passed(cat) \in R /\ Warned(cat) \in R /\ Failed(cat) \in R
  BY <1>1, SoundResults
<1> HIDE DEF R
<1>3. failures \in Seq(R)
  <2> DEFINE Alerts == {"UnusualPort", "HighPort", "ExternalConn", "Blacklisted"}
  <2>1. sys.alerts \in Seq(Alerts)
    BY SystemFields
  <2> DEFINE n == IF Len(sys.alerts) < AlertLimit THEN Len(sys.alerts) ELSE AlertLimit
  <2> HIDE DEF Alerts
  <2>2. Len(sys.alerts) \in Nat /\ DOMAIN sys.alerts = 1 .. Len(sys.alerts)
    BY <2>1
  <2>3. n \in Nat /\ n <= Len(sys.alerts)
    BY <2>2, ScanAssumption
  <2> HIDE DEF n
  <2>4. \A i \in 1 .. n : sys.alerts[i] \in Alerts
    BY <2>1, <2>2, <2>3
  <2>5. SubSeq(sys.alerts, 1, n) \in Seq(Alerts)
    BY <2>3, <2>4, SubSeqProperties
  <2>6. looked \in Seq(Alerts)
    BY <2>5 DEF First, n
  <2> HIDE DEF looked
  <2>7. grave \in Seq({"UnusualPort", "Blacklisted"})
    BY <2>6, OfKindsIsSeq
  <2> HIDE DEF grave
  <2> QED BY <1>2, <2>7, EachIsSeq
<1>4. first \in Seq(R) /\ <<Warned(cat)>> \in Seq(R) /\ <<Passed(cat)>> \in Seq(R)
  BY <1>2
<1>5. NetworkDeep = first \o (IF sys.alerts = << >> THEN <<Passed(cat)>> ELSE <<Warned(cat)>> \o failures)
  BY Zenon DEF NetworkDeep, NetinspectReport, Each
<1> HIDE DEF first, failures
<1>6. <<Warned(cat)>> \o failures \in Seq(R)
  BY <1>3, <1>4, ConcatProperties
<1>7. (IF sys.alerts = << >> THEN <<Passed(cat)>> ELSE <<Warned(cat)>> \o failures) \in Seq(R)
  BY <1>4, <1>6
<1>8. first \o (IF sys.alerts = << >> THEN <<Passed(cat)>> ELSE <<Warned(cat)>> \o failures) \in Seq(R)
  BY <1>4, <1>7, ConcatProperties
<1> QED BY <1>5, <1>8 DEF R

LEMMA ChecksAreSound ==
  ASSUME sys \in System, NEW c \in CheckNames
  PROVE  Checks[c] \in Seq(Sound(Heading[c]))
BY ProcessesSound, UsersSound, FilesystemSound, DisksSound, DevSound, SysfsSound, TtysSound,
   ServicesSound, SecuritySound, SshSound, SuidSound, LogsSound, UpdatesSound, IntegritySound,
   NetworkSound, NetworkDeepSound DEF Checks, CheckNames, Heading

-----------------------------------------------------------------------------
(* The turn a check has in a scan, and the turn of the check a result is of. *)
Turn ==
  [processes |-> 1, users |-> 2, filesystem |-> 3, disks |-> 4, dev |-> 5, sys |-> 6, ttys |-> 7,
   services |-> 8, security |-> 9, ssh |-> 10, suid |-> 11, logs |-> 12, updates |-> 13,
   deepParse |-> 14, network |-> 15, networkDeep |-> 16]

TurnOf(r) == CHOOSE n \in 1 .. 16 : \E c \in CheckNames : Turn[c] = n /\ Heading[c] = r.category

SoundResult == UNION {Sound(Heading[c]) : c \in CheckNames}

(* The list, what is still to be added to it and the checks to come are in the
   order of the turns; what is to be added is all of one check. *)
InTurn ==
  /\ results \in Seq(SoundResult) /\ found \in Seq(SoundResult) /\ todo \in Seq(CheckNames)
  /\ \A i, j \in DOMAIN results : i < j => TurnOf(results[i]) <= TurnOf(results[j])
  /\ \A i, j \in DOMAIN found : TurnOf(found[i]) = TurnOf(found[j])
  /\ \A i, j \in DOMAIN todo : i < j => Turn[todo[i]] < Turn[todo[j]]
  /\ \A i \in DOMAIN results, j \in DOMAIN found : TurnOf(results[i]) <= TurnOf(found[j])
  /\ \A i \in DOMAIN results, j \in DOMAIN todo : TurnOf(results[i]) < Turn[todo[j]]
  /\ \A i \in DOMAIN found, j \in DOMAIN todo : TurnOf(found[i]) < Turn[todo[j]]

NothingYet == phase = "arguments" => todo = << >> /\ found = << >> /\ results = << >>

ExitIsVerdict == phase = "over" /\ printed # {"usage"} => exitCode = Verdict

IInv == TypeOK /\ InTurn /\ NothingYet /\ CountersMatch /\ ExitIsVerdict

LEMMA TurnsAndHeadings ==
  /\ \A c \in CheckNames : Turn[c] \in 1 .. 16 /\ Heading[c] \in Categories
  /\ \A c, d \in CheckNames : Heading[c] = Heading[d] => c = d
  /\ \A c, d \in CheckNames : Turn[c] = Turn[d] => c = d
<1>1. \A c \in CheckNames : Turn[c] \in 1 .. 16 /\ Heading[c] \in Categories
  BY DEF Turn, Heading, CheckNames, Categories
<1>2. \A c, d \in CheckNames : Heading[c] = Heading[d] => c = d
  BY DEF Heading, CheckNames
<1>3. \A c, d \in CheckNames : Turn[c] = Turn[d] => c = d
  BY DEF Turn, CheckNames
<1> QED BY <1>1, <1>2, <1>3

LEMMA TurnOfResult ==
  ASSUME NEW c \in CheckNames, NEW r \in Sound(Heading[c])
  PROVE  r \in SoundResult /\ TurnOf(r) = Turn[c]
<1>1. r.category = Heading[c]
  BY DEF Sound
<1>2. \A d \in CheckNames : Heading[d] = r.category => d = c
  BY <1>1, TurnsAndHeadings
<1>3. \A n \in 1 .. 16 : (\E d \in CheckNames : Turn[d] = n /\ Heading[d] = r.category) <=> n = Turn[c]
  BY <1>1, <1>2
<1>4. Turn[c] \in 1 .. 16
  BY TurnsAndHeadings
<1>5. TurnOf(r) = Turn[c]
  BY <1>3, <1>4 DEF TurnOf
<1> QED BY <1>5 DEF SoundResult

LEMMA SoundResultType ==
  /\ SoundResult \subseteq Result
  /\ \A r \in SoundResult : TurnOf(r) \in Int /\ Agrees(r)
  /\ \A r, q \in SoundResult : TurnOf(r) = TurnOf(q) <=> r.category = q.category
<1>1. SoundResult \subseteq Result /\ \A r \in SoundResult : Agrees(r)
  BY DEF SoundResult, Sound
<1>2. \A r \in SoundResult : TurnOf(r) \in Int
  <2> TAKE r \in SoundResult
  <2>1. PICK c \in CheckNames : r \in Sound(Heading[c])
    BY DEF SoundResult
  <2> QED BY <2>1, TurnOfResult, TurnsAndHeadings
<1>3. \A r, q \in SoundResult : TurnOf(r) = TurnOf(q) <=> r.category = q.category
  <2> TAKE r, q \in SoundResult
  <2>1. PICK c \in CheckNames : r \in Sound(Heading[c])
    BY DEF SoundResult
  <2>2. PICK d \in CheckNames : q \in Sound(Heading[d])
    BY DEF SoundResult
  <2>3. TurnOf(r) = Turn[c] /\ TurnOf(q) = Turn[d]
    BY <2>1, <2>2, TurnOfResult
  <2>4. r.category = Heading[c] /\ q.category = Heading[d]
    BY <2>1, <2>2 DEF Sound
  <2> QED BY <2>3, <2>4, TurnsAndHeadings
<1> QED BY <1>1, <1>2, <1>3

(* What a check finds, it finds in its turn. *)
LEMMA CheckInTurn ==
  ASSUME sys \in System, NEW c \in CheckNames
  PROVE  /\ Checks[c] \in Seq(SoundResult)
         /\ \A i \in DOMAIN Checks[c] : TurnOf(Checks[c][i]) = Turn[c]
<1>1. Checks[c] \in Seq(Sound(Heading[c]))
  BY ChecksAreSound
<1> DEFINE S == Sound(Heading[c])
           s == Checks[c]
<1>2. \A r \in S : r \in SoundResult /\ TurnOf(r) = Turn[c]
  BY TurnOfResult
<1> HIDE DEF S, s
<1>3. S \subseteq SoundResult
  BY <1>2
<1>4. s \in Seq(SoundResult)
  BY <1>1, <1>3, SeqMonotonic DEF s, S
<1>5. \A i \in DOMAIN s : s[i] \in S
  BY <1>1 DEF s, S
<1> QED BY <1>2, <1>4, <1>5 DEF s

LEMMA ScanOrderInTurn ==
  /\ ScanOrder \in Seq(CheckNames) /\ <<"networkDeep">> \in Seq(CheckNames)
  /\ \A i, j \in DOMAIN ScanOrder : i < j => Turn[ScanOrder[i]] < Turn[ScanOrder[j]]
<1> DEFINE net == IF options.skip THEN << >> ELSE <<"network", "networkDeep">>
<1>1. /\ LocalChecks \in Seq(CheckNames) /\ Len(LocalChecks) = 14
      /\ \A i \in 1 .. 14 : LocalChecks[i] \in CheckNames /\ Turn[LocalChecks[i]] = i
  <2>1. \A i \in 1 .. 14 : LocalChecks[i] \in CheckNames /\ Turn[LocalChecks[i]] = i
    BY DEF LocalChecks, CheckNames, Turn
  <2>2. Len(LocalChecks) = 14 /\ DOMAIN LocalChecks = 1 .. 14
        /\ LocalChecks = [i \in 1 .. 14 |-> LocalChecks[i]]
    BY DEF LocalChecks
  <2>3. LocalChecks \in [1 .. 14 -> CheckNames]
    BY <2>1, <2>2
  <2> QED BY <2>1, <2>2, <2>3, FunctionIsSeq
<1>2. "network" \in CheckNames /\ "networkDeep" \in CheckNames
  BY DEF CheckNames
<1>3. Turn["network"] = 15 /\ Turn["networkDeep"] = 16
  BY DEF Turn
<1>4. /\ net \in Seq(CheckNames) /\ Len(net) \in {0, 2}
      /\ \A i \in 1 .. Len(net) : Turn[net[i]] = i + 14
  <2>1. CASE options.skip
    BY <2>1
  <2>2. CASE ~options.skip
    <3>1. <<"network", "networkDeep">> \in Seq(CheckNames)
      <4> DEFINE a == "network"
                 b == "networkDeep"
      <4>1. a \in CheckNames /\ b \in CheckNames
        BY <1>2
      <4> HIDE DEF a, b
      <4>2. <<a, b>> \in Seq(CheckNames)
        BY <4>1
      <4> QED BY <4>2 DEF a, b
    <3> QED BY <1>3, <2>2, <3>1
  <2> QED BY <2>1, <2>2
<1>5. <<"networkDeep">> \in Seq(CheckNames)
  <2> DEFINE b == "networkDeep"
  <2>1. b \in CheckNames
    BY <1>2
  <2> HIDE DEF b
  <2>2. <<b>> \in Seq(CheckNames)
    BY <2>1
  <2> QED BY <2>2 DEF b
<1>6. ScanOrder = LocalChecks \o net
  BY DEF ScanOrder
<1> HIDE DEF net
<1>7. /\ LocalChecks \o net \in Seq(CheckNames) /\ Len(LocalChecks \o net) = 14 + Len(net)
      /\ \A i \in 1 .. 14 + Len(net) :
           (LocalChecks \o net)[i] = IF i <= 14 THEN LocalChecks[i] ELSE net[i - 14]
  <2>1. /\ LocalChecks \o net \in Seq(CheckNames)
        /\ Len(LocalChecks \o net) = Len(LocalChecks) + Len(net)
        /\ \A i \in 1 .. Len(LocalChecks) + Len(net) : (LocalChecks \o net)[i] =
             IF i <= Len(LocalChecks) THEN LocalChecks[i] ELSE net[i - Len(LocalChecks)]
    <3>1. LocalChecks \in Seq(CheckNames) /\ net \in Seq(CheckNames)
      BY <1>1, <1>4
    <3> QED BY <3>1, ConcatProperties
  <2> QED BY <1>1, <2>1, Zenon
<1>8. \A i \in DOMAIN ScanOrder : i \in Int /\ Turn[ScanOrder[i]] = i
  <2> DEFINE all == LocalChecks \o net
  <2> HIDE DEF all
  <2>1. all \in Seq(CheckNames) /\ Len(all) = 14 + Len(net) /\ Len(net) \in Nat
    BY <1>4, <1>7 DEF all
  <2>2. DOMAIN all = 1 .. 14 + Len(net)
    BY <2>1
  <2>3. SUFFICES ASSUME NEW i \in 1 .. 14 + Len(net) PROVE i \in Int /\ Turn[all[i]] = i
    BY <1>6, <2>2 DEF all
  <2>4. CASE i <= 14
    <3>1. all[i] = LocalChecks[i] /\ i \in 1 .. 14
      BY <1>7, <2>1, <2>3, <2>4 DEF all
    <3> QED BY <1>1, <3>1
  <2>5. CASE ~(i <= 14)
    <3>1. i - 14 \in 1 .. Len(net) /\ (i - 14) + 14 = i
      BY <2>1, <2>5
    <3>2. all[i] = net[i - 14]
      BY <1>7, <2>5 DEF all
    <3>3. Turn[net[i - 14]] = (i - 14) + 14
      BY <1>4, <3>1
    <3> QED BY <3>1, <3>2, <3>3
  <2> QED BY <2>4, <2>5
<1> QED BY <1>5, <1>6, <1>7, <1>8

(* A result more is one more of its status. *)
LEMMA CountAppend ==
  ASSUME NEW s \in Seq(Result), NEW r \in Result, NEW status
  PROVE  LET those(q) == {i \in DOMAIN q : q[i].status = status}
         IN  /\ Cardinality(those(s)) \in Nat
             /\ Cardinality(those(Append(s, r))) =
                  IF r.status = status THEN Cardinality(those(s)) + 1 ELSE Cardinality(those(s))
<1> DEFINE those(q) == {i \in DOMAIN q : q[i].status = status}
           n == Len(s)
           t == Append(s, r)
<1> HIDE DEF t
<1>1. /\ n \in Nat /\ DOMAIN s = 1 .. n /\ DOMAIN t = 1 .. n + 1
      /\ t[n + 1] = r /\ \A i \in 1 .. n : t[i] = s[i]
  BY DEF t
<1>2. IsFiniteSet(those(s)) /\ Cardinality(those(s)) \in Nat
  <2>1. IsFiniteSet(1 .. n) /\ those(s) \in SUBSET (1 .. n)
    BY <1>1, FS_Interval
  <2>2. IsFiniteSet(those(s))
    BY <2>1, FS_Subset, Zenon
  <2> QED BY <2>2, FS_CardinalityType, Zenon
<1>3. n + 1 \notin those(s)
  BY <1>1
<1>4. those(t) = IF r.status = status THEN those(s) \cup {n + 1} ELSE those(s)
  <2>1. \A i \in 1 .. n + 1 : i \in 1 .. n \/ i = n + 1
    BY <1>1
  <2>2. n + 1 \in 1 .. n + 1 /\ \A i \in 1 .. n : i \in 1 .. n + 1
    BY <1>1
  <2> QED BY <1>1, <2>1, <2>2
<1>5. Cardinality(those(s) \cup {n + 1}) = Cardinality(those(s)) + 1
  <2> HIDE DEF those
  <2> QED BY <1>2, <1>3, FS_AddElement
<1> HIDE DEF those
<1>6. Cardinality(those(t)) =
        IF r.status = status THEN Cardinality(those(s)) + 1 ELSE Cardinality(those(s))
  BY <1>4, <1>5
<1> QED BY <1>2, <1>6, Zenon DEF those, t

-----------------------------------------------------------------------------
(* The list without a result, and with one. *)
LEMMA CountNone ==
  ASSUME results = << >>
  PROVE  \A status : HowMany(status) = 0
<1> TAKE status
<1>1. {i \in DOMAIN results : results[i].status = status} = {}
  OBVIOUS
<1> QED BY <1>1, FS_EmptySet, Zenon DEF HowMany

LEMMA InitIInv == Init => IInv
<1> SUFFICES ASSUME Init PROVE IInv
  OBVIOUS
<1>1. TypeOK
  <2>1. sys \in Systems /\ args \in Seq(Arguments) /\ phase = "arguments"
    BY ScanAssumption DEF Init
  <2>2. options \in [verbose : BOOLEAN, quiet : BOOLEAN, critical : BOOLEAN, only : BOOLEAN,
                     skip : BOOLEAN, file : Arguments \cup {None}]
    BY DEF Init
  <2>3. counters \in [passed : Nat, warnings : Nat, failures : Nat]
    BY DEF Init
  <2>4. found \in Seq(Result) /\ results \in Seq(Result) /\ Len(results) <= MaxResults
    BY ScanAssumption DEF Init
  <2> QED BY <2>1, <2>2, <2>3, <2>4 DEF Init, TypeOK
<1>2. InTurn
  BY DEF Init, InTurn
<1>3. NothingYet
  BY DEF Init, NothingYet
<1>4. CountersMatch
  <2>1. HowMany("Pass") = 0 /\ HowMany("Warn") = 0 /\ HowMany("Fail") = 0
    BY CountNone DEF Init
  <2> QED BY <2>1 DEF Init, CountersMatch
<1>5. ExitIsVerdict
  BY DEF Init, ExitIsVerdict
<1> QED BY <1>1, <1>2, <1>3, <1>4, <1>5 DEF IInv

(* The steps of the loop over the arguments, and those after the scan, leave
   the lists and the counters alone. *)
LEMMA SameLists ==
  ASSUME UNCHANGED scanning
  PROVE  /\ InTurn => InTurn'
         /\ CountersMatch => CountersMatch'
         /\ Verdict' = Verdict
BY DEF scanning, InTurn, CountersMatch, HowMany, Verdict

LEMMA ArgumentStep ==
  ASSUME IInv, ParseFlag \/ ParseOutput \/ ParseOther
  PROVE  IInv'
<1>1. InTurn' /\ CountersMatch' /\ Verdict' = Verdict
  BY SameLists DEF IInv, ParseFlag, ParseOutput, ParseOther
<1>2. /\ phase = "arguments" /\ args # << >> /\ UNCHANGED <<sys, todo, found, results, counters>>
      /\ phase' \in {"arguments", "over"} /\ saved' = saved
  BY DEF ParseFlag, ParseOutput, ParseOther, scanning, output, Exit
<1>3. exitCode' \in {0, 1, None}
  BY DEF ParseFlag, ParseOutput, ParseOther, scanning, output, Exit, IInv, TypeOK
<1>4. args \in Seq(Arguments)
  BY DEF IInv, TypeOK
<1>5. args' \in Seq(Arguments)
  <2>1. CASE ParseFlag
    BY <1>4, <2>1 DEF ParseFlag
  <2>2. CASE ParseOutput
    <3>1. Tail(args) \in Seq(Arguments)
      BY <1>2, <1>4
    <3>2. CASE Tail(args) = << >>
      BY <2>2, <3>2 DEF ParseOutput
    <3>3. CASE Tail(args) # << >>
      <4>1. args' = Tail(Tail(args))
        BY <2>2, <3>3 DEF ParseOutput
      <4> QED BY <3>1, <3>3, <4>1
    <3> QED BY <3>2, <3>3
  <2>3. CASE ParseOther
    BY <1>4, <2>3 DEF ParseOther
  <2> QED BY <2>1, <2>2, <2>3
<1> DEFINE Options == [verbose : BOOLEAN, quiet : BOOLEAN, critical : BOOLEAN, only : BOOLEAN,
                       skip : BOOLEAN, file : Arguments \cup {None}]
<1>6. options' \in Options
  <2>1. CASE ParseFlag
    <3>1. PICK f \in DOMAIN Flag : options' = [options EXCEPT ![f] = TRUE]
      BY <2>1 DEF ParseFlag
    <3>2. f \in {"verbose", "quiet", "critical", "only", "skip"}
      BY DEF Flag
    <3> QED BY <3>1, <3>2 DEF IInv, TypeOK
  <2>2. CASE ParseOutput
    <3>1. CASE Tail(args) = << >>
      BY <2>2, <3>1 DEF ParseOutput, IInv, TypeOK
    <3>2. CASE Tail(args) # << >>
      <4>1. options' = [options EXCEPT !.file = args[2]]
        BY <2>2, <3>2 DEF ParseOutput
      <4>2. args[2] \in Arguments
        <5>1. Len(args) >= 2
          BY <1>2, <1>4, <3>2
        <5> QED BY <1>4, <5>1
      <4> QED BY <4>1, <4>2 DEF IInv, TypeOK
    <3> QED BY <3>1, <3>2
  <2>3. CASE ParseOther
    BY <2>3 DEF ParseOther, IInv, TypeOK
  <2> QED BY <2>1, <2>2, <2>3
<1> HIDE DEF Options
<1>7. TypeOK'
  BY <1>2, <1>3, <1>5, <1>6 DEF IInv, TypeOK, Options
<1>8. NothingYet'
  BY <1>2 DEF IInv, NothingYet
<1>9. ExitIsVerdict'
  BY <1>2 DEF ParseFlag, ParseOutput, ParseOther, Exit, ExitIsVerdict
<1> QED BY <1>1, <1>7, <1>8, <1>9 DEF IInv

LEMMA StartStep ==
  ASSUME IInv, Start
  PROVE  IInv'
<1>1. UNCHANGED <<sys, args, options, found, results, counters, saved, exitCode>> /\ phase' = "scan"
  BY DEF Start
<1>2. found = << >> /\ results = << >>
  BY DEF IInv, NothingYet, Start
<1>3. TypeOK'
  BY <1>1 DEF IInv, TypeOK
<1>4. InTurn'
  <2>1. todo' = <<"networkDeep">> \/ todo' = ScanOrder
    BY DEF Start
  <2>2. todo' \in Seq(CheckNames)
    BY <2>1, ScanOrderInTurn
  <2>3. \A i, j \in DOMAIN todo' : i < j => Turn[todo'[i]] < Turn[todo'[j]]
    <3>1. CASE todo' = <<"networkDeep">>
      <4>1. DOMAIN todo' = {1}
        BY <3>1
      <4> QED BY <4>1
    <3>2. CASE todo' = ScanOrder
      BY <3>2, ScanOrderInTurn
    <3> QED BY <2>1, <3>1, <3>2
  <2> QED BY <1>1, <1>2, <2>2, <2>3 DEF InTurn
<1>5. NothingYet' /\ ExitIsVerdict'
  BY <1>1 DEF NothingYet, ExitIsVerdict
<1>6. CountersMatch'
  BY <1>1 DEF IInv, CountersMatch, HowMany
<1> QED BY <1>3, <1>4, <1>5, <1>6 DEF IInv

LEMMA RunCheckStep ==
  ASSUME IInv, RunCheck
  PROVE  IInv'
<1>1. /\ UNCHANGED <<sys, args, options, phase, results, counters, saved, exitCode>>
      /\ found = << >> /\ todo # << >> /\ phase = "scan"
      /\ found' = Checks[Head(todo)] /\ todo' = Tail(todo)
  BY DEF RunCheck
<1> DEFINE c == Head(todo)
<1>2. /\ todo \in Seq(CheckNames) /\ c \in CheckNames /\ Tail(todo) \in Seq(CheckNames)
      /\ \A i \in DOMAIN Tail(todo) : i + 1 \in DOMAIN todo /\ Tail(todo)[i] = todo[i + 1]
      /\ DOMAIN Tail(todo) \subseteq Int
      /\ 1 \in DOMAIN todo /\ c = todo[1]
  BY <1>1 DEF IInv, InTurn
<1>3. sys \in System
  BY ScanAssumption DEF IInv, TypeOK
<1>4. /\ found' \in Seq(SoundResult)
      /\ \A i \in DOMAIN found' : TurnOf(found'[i]) = Turn[c]
  BY <1>1, <1>2, <1>3, CheckInTurn
<1> HIDE DEF c
<1>5. TypeOK'
  <2>1. found' \in Seq(Result)
    BY <1>4, SoundResultType, SeqMonotonic
  <2> QED BY <1>1, <2>1 DEF IInv, TypeOK
<1>6. InTurn'
  <2>1. \A i \in DOMAIN Tail(todo) : Turn[c] < Turn[Tail(todo)[i]]
    <3> TAKE i \in DOMAIN Tail(todo)
    <3>1. i + 1 \in DOMAIN todo /\ 1 < i + 1
      BY <1>2
    <3> QED BY <1>2, <3>1 DEF IInv, InTurn
  <2>2. \A i, j \in DOMAIN Tail(todo) : i < j => Turn[Tail(todo)[i]] < Turn[Tail(todo)[j]]
    <3> SUFFICES ASSUME NEW i \in DOMAIN Tail(todo), NEW j \in DOMAIN Tail(todo), i < j
                 PROVE  Turn[Tail(todo)[i]] < Turn[Tail(todo)[j]]
      OBVIOUS
    <3>1. i + 1 \in DOMAIN todo /\ j + 1 \in DOMAIN todo /\ i + 1 < j + 1
      BY <1>2
    <3>2. Tail(todo)[i] = todo[i + 1] /\ Tail(todo)[j] = todo[j + 1]
      BY <1>2
    <3> QED BY <3>1, <3>2 DEF IInv, InTurn
  <2>3. \A i \in DOMAIN results : TurnOf(results[i]) < Turn[c]
    BY <1>2 DEF IInv, InTurn
  <2>4. \A i \in DOMAIN results : TurnOf(results[i]) \in Int
    <3>1. \A i \in DOMAIN results : results[i] \in SoundResult
      BY DEF IInv, InTurn
    <3> QED BY <3>1, SoundResultType
  <2>5. \A i \in DOMAIN results, j \in DOMAIN Tail(todo) : TurnOf(results[i]) < Turn[Tail(todo)[j]]
    BY <1>2 DEF IInv, InTurn
  <2>6. Turn[c] \in Int
    BY <1>2, TurnsAndHeadings
  <2>7. \A i \in DOMAIN results, j \in DOMAIN found' : TurnOf(results[i]) <= TurnOf(found'[j])
    BY <1>4, <2>3, <2>4, <2>6
  <2>8. \A i, j \in DOMAIN found' : TurnOf(found'[i]) = TurnOf(found'[j])
    BY <1>4
  <2>9. \A i \in DOMAIN found', j \in DOMAIN Tail(todo) : TurnOf(found'[i]) < Turn[Tail(todo)[j]]
    BY <1>4, <2>1
  <2>10. results \in Seq(SoundResult)
         /\ \A i, j \in DOMAIN results : i < j => TurnOf(results[i]) <= TurnOf(results[j])
    BY DEF IInv, InTurn
  <2> QED BY <1>1, <1>2, <1>4, <2>2, <2>5, <2>7, <2>8, <2>9, <2>10 DEF InTurn
<1>7. NothingYet' /\ ExitIsVerdict'
  BY <1>1 DEF NothingYet, ExitIsVerdict
<1>8. CountersMatch'
  BY <1>1 DEF IInv, CountersMatch, HowMany
<1> QED BY <1>5, <1>6, <1>7, <1>8 DEF IInv

LEMMA AddResultStep ==
  ASSUME IInv, AddResult
  PROVE  IInv'
<1> DEFINE r == Head(found)
           full == Len(results) >= MaxResults
<1>1. /\ UNCHANGED <<sys, args, options, phase, todo, printed, saved, exitCode>>
      /\ phase = "scan" /\ found # << >> /\ found' = Tail(found)
      /\ results' = IF full THEN results ELSE Append(results, r)
      /\ counters' = IF full THEN counters ELSE Counted(counters, r)
  BY DEF AddResult, output
<1>2. /\ found \in Seq(SoundResult) /\ r \in SoundResult /\ Tail(found) \in Seq(SoundResult)
      /\ \A i \in DOMAIN Tail(found) : i + 1 \in DOMAIN found /\ Tail(found)[i] = found[i + 1]
      /\ 1 \in DOMAIN found /\ r = found[1]
  BY <1>1 DEF IInv, InTurn
<1>3. /\ results \in Seq(SoundResult) /\ Len(results) \in Nat /\ Len(results) <= MaxResults
      /\ DOMAIN results = 1 .. Len(results)
  BY DEF IInv, InTurn, TypeOK
<1>4. r \in Result /\ results \in Seq(Result) /\ Tail(found) \in Seq(Result)
  BY <1>2, <1>3, SoundResultType, SeqMonotonic
<1>5. counters \in [passed : Nat, warnings : Nat, failures : Nat]
  BY DEF IInv, TypeOK
<1> HIDE DEF r
<1>6. Counted(counters, r) \in [passed : Nat, warnings : Nat, failures : Nat]
  BY <1>5 DEF Counted
<1>7. TypeOK'
  <2>1. counters' \in [passed : Nat, warnings : Nat, failures : Nat]
    BY <1>1, <1>5, <1>6
  <2>2. results' \in Seq(Result) /\ Len(results') <= MaxResults
    <3>1. CASE full
      BY <1>1, <1>3, <1>4, <3>1
    <3>2. CASE ~full
      BY <1>1, <1>3, <1>4, <3>2, ScanAssumption
    <3> QED BY <3>1, <3>2
  <2> QED BY <1>1, <1>4, <2>1, <2>2 DEF IInv, TypeOK
<1>8. NothingYet' /\ ExitIsVerdict'
  BY <1>1 DEF NothingYet, ExitIsVerdict
<1>9. CountersMatch'
  <2>1. CASE full
    BY <1>1, <2>1 DEF IInv, CountersMatch, HowMany
  <2>2. CASE ~full
    <3>1. results' = Append(results, r) /\ counters' = Counted(counters, r)
      BY <1>1, <2>2
    <3> DEFINE more(status) == IF r.status = status THEN HowMany(status) + 1 ELSE HowMany(status)
    <3>2. \A status : HowMany(status)' = more(status)
      <4> TAKE status
      <4> DEFINE those(s) == {i \in DOMAIN s : s[i].status = status}
      <4>1. Cardinality(those(Append(results, r))) =
              IF r.status = status THEN Cardinality(those(results)) + 1
                                   ELSE Cardinality(those(results))
        BY <1>4, CountAppend, Zenon
      <4>2. HowMany(status)' = Cardinality(those(results')) /\ HowMany(status) = Cardinality(those(results))
        BY Zenon DEF HowMany
      <4> HIDE DEF those
      <4> QED BY <3>1, <4>1, <4>2
    <3>3. counters' = [passed |-> more("Pass"), warnings |-> more("Warn"), failures |-> more("Fail")]
      <4>1. counters = [passed |-> HowMany("Pass"), warnings |-> HowMany("Warn"),
                        failures |-> HowMany("Fail")]
        BY DEF IInv, CountersMatch
      <4>2. /\ counters.passed = HowMany("Pass") /\ counters.warnings = HowMany("Warn")
            /\ counters.failures = HowMany("Fail")
        BY <4>1
      <4> QED BY <3>1, <4>2, Zenon DEF Counted
    <3> QED BY <3>2, <3>3, Zenon DEF CountersMatch
  <2> QED BY <2>1, <2>2
<1>10. InTurn'
  <2>1. /\ \A i \in DOMAIN Tail(found) : TurnOf(Tail(found)[i]) = TurnOf(r)
        /\ \A i \in DOMAIN results : TurnOf(results[i]) <= TurnOf(r)
        /\ \A k \in DOMAIN todo : TurnOf(r) < Turn[todo[k]]
    BY <1>2 DEF IInv, InTurn
  <2>2. /\ todo \in Seq(CheckNames)
        /\ \A i, j \in DOMAIN results : i < j => TurnOf(results[i]) <= TurnOf(results[j])
        /\ \A i, j \in DOMAIN todo : i < j => Turn[todo[i]] < Turn[todo[j]]
        /\ \A i \in DOMAIN results, j \in DOMAIN todo : TurnOf(results[i]) < Turn[todo[j]]
    BY DEF IInv, InTurn
  <2>3. TurnOf(r) \in Int
    BY <1>2, SoundResultType
  <2>4. /\ results' \in Seq(SoundResult)
        /\ \A i \in DOMAIN results' :
             \/ i \in DOMAIN results /\ results'[i] = results[i]
             \/ i = Len(results) + 1 /\ results'[i] = r
    <3>1. CASE full
      BY <1>1, <1>3, <3>1
    <3>2. CASE ~full
      <4>1. results' = Append(results, r)
        BY <1>1, <3>2
      <4>2. /\ results' \in Seq(SoundResult)
            /\ DOMAIN results' = 1 .. Len(results) + 1
            /\ results'[Len(results) + 1] = r
            /\ \A i \in 1 .. Len(results) : results'[i] = results[i]
        BY <1>2, <1>3, <4>1
      <4> QED BY <1>3, <4>2
    <3> QED BY <3>1, <3>2
  <2>5. \A i \in DOMAIN results' : TurnOf(results'[i]) <= TurnOf(r)
    BY <2>1, <2>3, <2>4
  <2>6. \A i, j \in DOMAIN results' : i < j => TurnOf(results'[i]) <= TurnOf(results'[j])
    <3> SUFFICES ASSUME NEW i \in DOMAIN results', NEW j \in DOMAIN results', i < j
                 PROVE  TurnOf(results'[i]) <= TurnOf(results'[j])
      OBVIOUS
    <3>1. CASE results'[j] = r
      BY <2>5, <3>1
    <3>2. CASE results'[j] # r
      <4>1. j \in DOMAIN results /\ results'[j] = results[j]
        BY <2>4, <3>2
      <4>2. i \in DOMAIN results /\ results'[i] = results[i]
        BY <1>3, <2>4, <4>1
      <4> QED BY <2>2, <4>1, <4>2
    <3> QED BY <3>1, <3>2
  <2>7. \A i \in DOMAIN results', j \in DOMAIN todo : TurnOf(results'[i]) < Turn[todo[j]]
    BY <2>1, <2>2, <2>4
  <2>8. \A i \in DOMAIN results', j \in DOMAIN Tail(found) : TurnOf(results'[i]) <= TurnOf(Tail(found)[j])
    BY <2>1, <2>5
  <2>9. /\ \A i, j \in DOMAIN Tail(found) : TurnOf(Tail(found)[i]) = TurnOf(Tail(found)[j])
        /\ \A i \in DOMAIN Tail(found), j \in DOMAIN todo : TurnOf(Tail(found)[i]) < Turn[todo[j]]
    BY <2>1
  <2> QED BY <1>1, <1>2, <2>2, <2>4, <2>6, <2>7, <2>8, <2>9 DEF InTurn
<1> QED BY <1>7, <1>8, <1>9, <1>10 DEF IInv

LEMMA EndStep ==
  ASSUME IInv, EndNetworkOnly \/ Report \/ Save
  PROVE  IInv'
<1>1. InTurn' /\ CountersMatch' /\ Verdict' = Verdict
  BY SameLists DEF IInv, EndNetworkOnly, Report, Save
<1>2. /\ UNCHANGED <<sys, args, options, todo, found, results, counters>>
      /\ phase' \in {"save", "over"}
      /\ \/ exitCode' = exitCode /\ phase' = "save"
         \/ exitCode' = Verdict /\ phase' = "over"
  BY DEF EndNetworkOnly, Report, Save, scanning, Exit
<1>3. saved' \in Arguments \cup {None}
  BY DEF EndNetworkOnly, Report, Save, IInv, TypeOK
<1>4. Verdict \in {0, 1}
  BY DEF Verdict
<1>5. exitCode' \in {0, 1, None}
  BY <1>2, <1>4 DEF IInv, TypeOK
<1>6. TypeOK'
  BY <1>2, <1>3, <1>5 DEF IInv, TypeOK
<1>7. NothingYet' /\ ExitIsVerdict'
  BY <1>1, <1>2 DEF NothingYet, ExitIsVerdict
<1> QED BY <1>1, <1>6, <1>7 DEF IInv

LEMMA Invariance == Spec => []IInv
<1>1. IInv /\ [Next]_vars => IInv'
  <2> SUFFICES ASSUME IInv, [Next]_vars PROVE IInv'
    OBVIOUS
  <2>1. CASE ParseFlag \/ ParseOutput \/ ParseOther
    BY <2>1, ArgumentStep
  <2>2. CASE Start
    BY <2>2, StartStep
  <2>3. CASE RunCheck
    BY <2>3, RunCheckStep
  <2>4. CASE AddResult
    BY <2>4, AddResultStep
  <2>5. CASE EndNetworkOnly \/ Report \/ Save
    BY <2>5, EndStep
  <2>6. CASE UNCHANGED vars
    <3>1. UNCHANGED scanning
      BY <2>6 DEF vars
    <3>2. InTurn' /\ CountersMatch' /\ Verdict' = Verdict
      BY <3>1, SameLists DEF IInv
    <3>3. TypeOK'
      BY <2>6 DEF IInv, TypeOK, vars, scanning, output
    <3>4. NothingYet' /\ ExitIsVerdict'
      BY <2>6, <3>2 DEF IInv, NothingYet, ExitIsVerdict, vars, scanning, output
    <3> QED BY <3>2, <3>3, <3>4 DEF IInv
  <2> QED BY <2>1, <2>2, <2>3, <2>4, <2>5, <2>6 DEF Next
<1> QED BY <1>1, InitIInv, PTL DEF Spec

-----------------------------------------------------------------------------
(* The options, the list and the counters are well formed, and the list never
   holds more than MAX_RESULTS results: on any systems, with any command
   lines (main.rs, syssec.rs). *)
THEOREM TypeCorrect == Spec => []TypeOK
<1>1. IInv => TypeOK
  BY DEF IInv
<1> QED BY <1>1, Invariance, PTL

(* The counters are those of the results listed, whatever the checks find and
   also when results no longer fit (syssec.rs add_result). *)
THEOREM CountersTellTheList == Spec => []CountersMatch
<1>1. IInv => CountersMatch
  BY DEF IInv
<1> QED BY <1>1, Invariance, PTL

(* While a scan goes on, some check fails exactly if a failure has been counted,
   or is among what is still to be added or to be run; but for a full list. *)
ChecksFail(names) == \E k \in DOMAIN names : FailsIn(Checks[names[k]])
FailureInSight == counters.failures > 0 \/ FailsIn(found) \/ ChecksFail(todo)

Running == phase \in {"scan", "save"} \/ Told

FailuresInSight ==
  /\ Running => /\ FailureInSight => SomeCheckFails
                /\ SomeCheckFails => FailureInSight \/ Len(results) >= MaxResults
  /\ phase = "save" \/ Told => found = << >> /\ todo = << >>

(* What the checks find is settled with the system and the command line. *)
LEMMA SameChecks ==
  ASSUME UNCHANGED <<sys, options>>
  PROVE  Checks' = Checks /\ ChecksRun' = ChecksRun /\ (SomeCheckFails' <=> SomeCheckFails)
<1>1. Processes' = Processes
  BY DEF Processes
<1>2. Users' = Users
  BY DEF Users, Only
<1>3. Filesystem' = Filesystem
  BY DEF Filesystem, CriticalFiles, Each, OfKinds
<1>4. Disks' = Disks
  BY DEF Disks, Each
<1>5. Dev' = Dev
  BY DEF Dev, Each
<1>6. Sysfs' = Sysfs
  BY DEF Sysfs
<1>7. Ttys' = Ttys
  BY DEF Ttys, Only
<1>8. Services' = Services
  BY DEF Services, Each
<1>9. Security' = Security
  BY DEF Security, Only
<1>10. Ssh' = Ssh
  BY DEF Ssh, Only
<1>11. Suid' = Suid
  BY DEF Suid, Only
<1>12. Logs' = Logs
  BY DEF Logs
<1>13. Updates' = Updates
  BY DEF Updates, Only
<1>14. Integrity' = Integrity
  BY DEF Integrity, Each, OfKinds
<1>15. Network' = Network
  BY DEF Network, Only
<1>16. NetworkDeep' = NetworkDeep
  BY DEF NetworkDeep
<1>17. Checks' = Checks
  BY <1>1, <1>2, <1>3, <1>4, <1>5, <1>6, <1>7, <1>8, <1>9,
     <1>10, <1>11, <1>12, <1>13, <1>14, <1>15, <1>16, Zenon DEF Checks
<1>18. ChecksRun' = ChecksRun
  BY DEF ChecksRun, ScanOrder
<1> QED BY <1>17, <1>18, Zenon DEF SomeCheckFails

LEMMA StartSees ==
  ASSUME IInv, Start
  PROVE  FailuresInSight'
<1>1. /\ UNCHANGED <<sys, options, found, results, counters>> /\ phase' = "scan"
      /\ todo' = ChecksRun
  BY DEF Start, ChecksRun
<1>2. found = << >> /\ results = << >>
  BY DEF IInv, NothingYet, Start
<1>3. counters.failures = 0
  <2>1. DOMAIN results = {}
    BY <1>2
  <2>2. {i \in DOMAIN results : results[i].status = "Fail"} = {}
    BY <2>1, Zenon
  <2>3. HowMany("Fail") = 0
    BY <2>2, FS_EmptySet, Zenon DEF HowMany
  <2> QED BY <2>3 DEF IInv, CountersMatch
<1>4. ChecksRun' = ChecksRun /\ Checks' = Checks
  BY <1>1, SameChecks
<1>5. SomeCheckFails' <=> ChecksFail(todo)'
  BY <1>1, <1>4 DEF SomeCheckFails, ChecksFail
<1>6. ~(counters'.failures > 0) /\ ~FailsIn(found)'
  BY <1>1, <1>2, <1>3 DEF FailsIn
<1> QED BY <1>1, <1>5, <1>6 DEF FailuresInSight, FailureInSight, Told

LEMMA HeadOrTail ==
  ASSUME NEW R, NEW seq \in Seq(R), seq # << >>
  PROVE  /\ \E i \in DOMAIN seq : seq[i] = Head(seq)
         /\ \A i \in DOMAIN Tail(seq) : \E j \in DOMAIN seq : seq[j] = Tail(seq)[i]
         /\ \A i \in DOMAIN seq :
              seq[i] = Head(seq) \/ \E j \in DOMAIN Tail(seq) : Tail(seq)[j] = seq[i]
<1>1. /\ DOMAIN seq = 1 .. Len(seq) /\ Len(seq) \in Nat /\ Head(seq) = seq[1] /\ Len(seq) >= 1
      /\ DOMAIN Tail(seq) = 1 .. Len(seq) - 1
      /\ \A i \in 1 .. Len(seq) - 1 : Tail(seq)[i] = seq[i + 1]
  OBVIOUS
<1>2. ASSUME NEW i \in DOMAIN seq
      PROVE  seq[i] = Head(seq) \/ \E j \in DOMAIN Tail(seq) : Tail(seq)[j] = seq[i]
  <2>1. CASE i = 1
    BY <1>1, <2>1
  <2>2. CASE i # 1
    <3>1. i - 1 \in DOMAIN Tail(seq) /\ Tail(seq)[i - 1] = seq[i]
      BY <1>1, <2>2
    <3> QED BY <3>1
  <2> QED BY <2>1, <2>2
<1>3. 1 \in DOMAIN seq
  BY <1>1
<1>4. \A j \in DOMAIN Tail(seq) : j + 1 \in DOMAIN seq /\ Tail(seq)[j] = seq[j + 1]
  BY <1>1
<1> QED BY <1>1, <1>2, <1>3, <1>4

LEMMA RunCheckSees ==
  ASSUME IInv, FailuresInSight, RunCheck
  PROVE  FailuresInSight'
<1>1. /\ UNCHANGED <<sys, options, phase, results, counters>>
      /\ found = << >> /\ todo # << >> /\ phase = "scan"
      /\ found' = Checks[Head(todo)] /\ todo' = Tail(todo)
  BY DEF RunCheck
<1>2. Checks' = Checks /\ (SomeCheckFails' <=> SomeCheckFails)
  BY <1>1, SameChecks
<1>3. todo \in Seq(CheckNames)
  BY DEF IInv, InTurn
<1>4. ChecksFail(todo) <=> FailsIn(Checks[Head(todo)]) \/ ChecksFail(Tail(todo))
  <2>1. /\ \E i \in DOMAIN todo : todo[i] = Head(todo)
        /\ \A i \in DOMAIN Tail(todo) : \E j \in DOMAIN todo : todo[j] = Tail(todo)[i]
        /\ \A i \in DOMAIN todo :
             todo[i] = Head(todo) \/ \E j \in DOMAIN Tail(todo) : Tail(todo)[j] = todo[i]
    BY <1>1, <1>3, HeadOrTail
  <2> QED BY <2>1, Zenon DEF ChecksFail
<1>5. FailsIn(found)' <=> FailsIn(Checks[Head(todo)])
  BY <1>1 DEF FailsIn
<1>6. ChecksFail(todo)' <=> ChecksFail(Tail(todo))
  BY <1>1, <1>2, Zenon DEF ChecksFail
<1>7. ~FailsIn(found)
  BY <1>1 DEF FailsIn
<1>8. FailureInSight' <=> FailureInSight
  BY <1>1, <1>4, <1>5, <1>6, <1>7, Zenon DEF FailureInSight
<1> QED BY <1>1, <1>2, <1>8 DEF FailuresInSight, Running, Told

LEMMA AddResultSees ==
  ASSUME IInv, FailuresInSight, AddResult
  PROVE  FailuresInSight'
<1> DEFINE r == Head(found)
           full == Len(results) >= MaxResults
<1>1. /\ UNCHANGED <<sys, options, phase, todo>>
      /\ phase = "scan" /\ found # << >> /\ found' = Tail(found)
      /\ results' = IF full THEN results ELSE Append(results, r)
      /\ counters' = IF full THEN counters ELSE Counted(counters, r)
  BY DEF AddResult, output
<1>2. Checks' = Checks /\ (SomeCheckFails' <=> SomeCheckFails)
  BY <1>1, SameChecks
<1>3. found \in Seq(SoundResult) /\ counters.failures \in Nat
  BY DEF IInv, InTurn, TypeOK
<1>4. FailsIn(found) <=> r.status = "Fail" \/ FailsIn(Tail(found))
  <2>1. /\ \E i \in DOMAIN found : found[i] = Head(found)
        /\ \A i \in DOMAIN Tail(found) : \E j \in DOMAIN found : found[j] = Tail(found)[i]
        /\ \A i \in DOMAIN found :
             found[i] = Head(found) \/ \E j \in DOMAIN Tail(found) : Tail(found)[j] = found[i]
    BY <1>1, <1>3, HeadOrTail
  <2> QED BY <2>1, Zenon DEF FailsIn
<1>5. FailsIn(found)' <=> FailsIn(Tail(found))
  BY <1>1 DEF FailsIn
<1>6. ChecksFail(todo)' <=> ChecksFail(todo)
  BY <1>1, <1>2, Zenon DEF ChecksFail
<1>7. CASE full
  <2>1. counters' = counters /\ results' = results
    BY <1>1, <1>7
  <2>2. FailureInSight' => FailureInSight
    BY <1>4, <1>5, <1>6, <2>1, Zenon DEF FailureInSight
  <2> QED BY <1>1, <1>2, <1>7, <2>1, <2>2 DEF FailuresInSight, Running, Told
<1>8. CASE ~full
  <2>1. counters'.failures > 0 <=> counters.failures > 0 \/ r.status = "Fail"
    <3>1. counters'.failures = IF r.status = "Fail" THEN counters.failures + 1
                                                     ELSE counters.failures
      BY <1>1, <1>8 DEF Counted
    <3> QED BY <1>3, <3>1
  <2>2. FailureInSight' <=> FailureInSight
    BY <1>4, <1>5, <1>6, <2>1, Zenon DEF FailureInSight
  <2> QED BY <1>1, <1>2, <1>8, <2>2 DEF FailuresInSight, Running, Told
<1> QED BY <1>7, <1>8

LEMMA EndSees ==
  ASSUME FailuresInSight, EndNetworkOnly \/ Report \/ Save
  PROVE  FailuresInSight'
<1>1. /\ UNCHANGED <<sys, options, todo, found, results, counters>>
      /\ phase \in {"scan", "save"} /\ phase' \in {"save", "over"}
      /\ phase = "scan" => found = << >> /\ todo = << >>
  BY DEF EndNetworkOnly, Report, Save, scanning, Exit, Scanned
<1>2. Checks' = Checks /\ (SomeCheckFails' <=> SomeCheckFails)
  BY <1>1, SameChecks
<1>3. FailureInSight' <=> FailureInSight
  BY <1>1, <1>2, Zenon DEF FailureInSight, FailsIn, ChecksFail
<1> QED BY <1>1, <1>2, <1>3 DEF FailuresInSight, Running

LEMMA FailuresStayInSight == Spec => []FailuresInSight
<1>1. Init => FailuresInSight
  BY DEF Init, FailuresInSight, Running, Told
<1>2. IInv /\ FailuresInSight /\ [Next]_vars => FailuresInSight'
  <2> SUFFICES ASSUME IInv, FailuresInSight, [Next]_vars PROVE FailuresInSight'
    OBVIOUS
  <2>1. CASE ParseFlag \/ ParseOutput \/ ParseOther
    <3>1. \/ phase' = "arguments"
          \/ phase' = "over" /\ printed' = {"usage"}
      BY <2>1 DEF ParseFlag, ParseOutput, ParseOther, Exit
    <3> QED BY <3>1 DEF FailuresInSight, Running, Told
  <2>2. CASE UNCHANGED vars
    <3>1. /\ UNCHANGED <<sys, options, phase, todo, found, results, counters, printed>>
      BY <2>2 DEF vars, scanning, output
    <3>2. Checks' = Checks /\ (SomeCheckFails' <=> SomeCheckFails)
      BY <3>1, SameChecks
    <3>3. FailureInSight' <=> FailureInSight
      BY <3>1, <3>2, Zenon DEF FailureInSight, FailsIn, ChecksFail
    <3> QED BY <3>1, <3>2, <3>3 DEF FailuresInSight, Running, Told
  <2> QED BY <2>1, <2>2, StartSees, RunCheckSees, AddResultSees, EndSees DEF Next
<1> QED BY <1>1, <1>2, Invariance, PTL DEF Spec

(* The exit code tells whether a check that was run found a failure, on any
   system and with any command line: 1 is never without one, and 0 only if
   there is none or the list ran full (main.rs, syssec.rs add_result). *)
THEOREM ExitTellsTheChecks == Spec => []ExitTellsFailures
<1>1. IInv /\ FailuresInSight => ExitTellsFailures
  <2> SUFFICES ASSUME IInv, FailuresInSight, Told
               PROVE  /\ exitCode = 1 => SomeCheckFails
                      /\ SomeCheckFails /\ Len(results) < MaxResults => exitCode = 1
    BY DEF ExitTellsFailures
  <2>1. exitCode = Verdict
    BY DEF IInv, ExitIsVerdict, Told
  <2>2. found = << >> /\ todo = << >>
    BY DEF FailuresInSight
  <2>3. FailureInSight <=> counters.failures > 0
    BY <2>2 DEF FailureInSight, FailsIn, ChecksFail
  <2>4. /\ FailureInSight => SomeCheckFails
        /\ SomeCheckFails => FailureInSight \/ Len(results) >= MaxResults
    BY DEF FailuresInSight, Running
  <2>5. Len(results) \in Nat /\ MaxResults \in Nat
    BY ScanAssumption DEF IInv, TypeOK
  <2> QED BY <2>1, <2>3, <2>4, <2>5 DEF Verdict
<1> QED BY <1>1, Invariance, FailuresStayInSight, PTL

(* The results of a category are neighbours in the list, so that both reports
   head each category once (checks.rs, report.rs). *)
THEOREM CategoriesAreTogether == Spec => []GroupedByCategory
<1>1. IInv => GroupedByCategory
  <2> SUFFICES ASSUME IInv, NEW i \in DOMAIN results, NEW j \in DOMAIN results,
                      NEW k \in DOMAIN results, i < j, j < k,
                      results[i].category = results[k].category
               PROVE  results[j].category = results[i].category
    BY DEF GroupedByCategory
  <2>1. results[i] \in SoundResult /\ results[j] \in SoundResult /\ results[k] \in SoundResult
    BY DEF IInv, InTurn
  <2>2. TurnOf(results[i]) <= TurnOf(results[j]) /\ TurnOf(results[j]) <= TurnOf(results[k])
    BY DEF IInv, InTurn
  <2>3. TurnOf(results[i]) = TurnOf(results[k])
    BY <2>1, SoundResultType
  <2>4. TurnOf(results[i]) \in Int /\ TurnOf(results[j]) \in Int
    BY <2>1, SoundResultType
  <2>5. TurnOf(results[j]) = TurnOf(results[i])
    BY <2>2, <2>3, <2>4
  <2> QED BY <2>1, <2>5, SoundResultType
<1> QED BY <1>1, Invariance, PTL

(* No check grades a result in two ways that contradict each other, on any
   system (checks.rs, parser.rs, netinspect.rs). *)
THEOREM GradesNeverContradict == Spec => []GradesAgree
<1>1. IInv => GradesAgree
  <2> SUFFICES ASSUME IInv, NEW i \in DOMAIN results PROVE Agrees(results[i])
    BY DEF GradesAgree, Agrees
  <2>1. results[i] \in SoundResult
    BY DEF IInv, InTurn
  <2> QED BY <2>1, SoundResultType
<1> QED BY <1>1, Invariance, PTL
=============================================================================
