-------------------------- MODULE AggregatorProofs --------------------------
(***************************************************************************)
(* Proofs about Aggregator, for every set of frames, every hash function   *)
(* and every number of shards.                                             *)
(*                                                                         *)
(* Books is the heart: it says what each table is still due for the frame  *)
(* in hand, statement by statement of ingest().  The promise about         *)
(* snapshots follows from it because counts only grow: when snapshot()     *)
(* copies the interface view, the tables are short of the frame in hand    *)
(* and of nothing else, and they are copied later.                         *)
(***************************************************************************)
EXTENDS Aggregator, FiniteSets, FiniteSetTheorems, TLAPS

LEMMA OneType == \A b \in BOOLEAN : One(b) \in {0, 1}
BY DEF One

LEMMA OwesType ==
  ASSUME NEW f \in Frames
  PROVE  /\ \A k \in Flows : FlowOwes(k, f) \in {0, 1}
         /\ \A a \in Addrs : HostOwes(a, f) \in {0, 1, 2}
         /\ \A m \in Macs : MacOwes(m, f) \in {0, 1, 2}
BY DEF FlowOwes, HostOwes, MacOwes, One

LEMMA CanonicalType == \A k \in Flows : Canonical(k) \in Flows
BY AggregatorAssumption DEF Canonical

LEMMA FrameParts ==
  ASSUME NEW f \in Frames
  PROVE  /\ f.dir \in {"Rx", "Tx"} /\ f.app \in STRING
         /\ f.flow # NoFlow =>
              /\ f.flow \in Flows /\ Canonical(f.flow) \in Flows
              /\ f.flow.src[1] \in Addrs /\ f.flow.dst[1] \in Addrs
         /\ f.macs # NoMacs => f.macs[1] \in Macs /\ f.macs[2] \in Macs
<1>1. f \in [dir : {"Rx", "Tx"}, flow : Flows \cup {NoFlow},
             macs : (Macs \X Macs) \cup {NoMacs}, app : STRING]
  BY AggregatorAssumption
<1>2. ASSUME f.flow # NoFlow
      PROVE  /\ f.flow \in Flows /\ Canonical(f.flow) \in Flows
             /\ f.flow.src[1] \in Addrs /\ f.flow.dst[1] \in Addrs
  <2>1. f.flow \in Flows
    BY <1>1, <1>2
  <2>2. f.flow \in [proto : STRING, src : Addrs \X Nat, dst : Addrs \X Nat]
    BY <2>1, AggregatorAssumption
  <2> QED BY <2>1, <2>2, CanonicalType
<1> QED BY <1>1, <1>2

(* Observing a frame adds one observation of that frame and changes no other
   count. *)
LEMMA ObserveFlowCounts ==
  ASSUME NEW e \in FlowEntry \cup {Absent}, NEW f \in Frames
  PROVE  /\ ObserveFlow(e, f) \in FlowEntry
         /\ \A g \in Frames : Seen(ObserveFlow(e, f), g) = Seen(e, g) + One(g = f)
<1>1. ObserveFlow(e, f) \in FlowEntry
  <2>1. CASE e = Absent
    BY <2>1, FrameParts DEF ObserveFlow, FlowEntry, Bag, NoFrames
  <2>2. CASE e \in FlowEntry
    <3>1. e \in [seen : Bag, dir : {"Rx", "Tx"}, app : STRING] /\ e # Absent
      BY <2>2, AbsentAssumption DEF FlowEntry
    <3>2. [e.seen EXCEPT ![f] = @ + 1] \in Bag
      BY <3>1 DEF Bag
    <3>3. (IF f.app = "Unknown" THEN e.app ELSE f.app) \in STRING
      BY <3>1, FrameParts
    <3>4. ObserveFlow(e, f) = [seen |-> [e.seen EXCEPT ![f] = @ + 1], dir |-> e.dir,
                               app |-> IF f.app = "Unknown" THEN e.app ELSE f.app]
      BY <3>1 DEF ObserveFlow
    <3> QED BY <3>1, <3>2, <3>3, <3>4 DEF FlowEntry
  <2> QED BY <2>1, <2>2
<1>2. ObserveFlow(e, f) # Absent
  BY <1>1, AbsentAssumption
<1>3. ASSUME NEW g \in Frames
      PROVE  Seen(ObserveFlow(e, f), g) = Seen(e, g) + One(g = f)
  <2>1. Seen(ObserveFlow(e, f), g) = ObserveFlow(e, f).seen[g]
    BY <1>2 DEF Seen
  <2>2. CASE e = Absent
    BY <2>1, <2>2 DEF ObserveFlow, Seen, One, NoFrames
  <2>3. CASE e \in FlowEntry
    BY <2>1, <2>3, AbsentAssumption DEF ObserveFlow, Seen, One, FlowEntry, Bag
  <2> QED BY <2>2, <2>3
<1> QED BY <1>1, <1>3

LEMMA ObserveHostCounts ==
  ASSUME NEW e \in HostEntry \cup {Absent}, NEW f \in Frames, NEW m \in Macs
  PROVE  /\ ObserveHost(e, f, m) \in HostEntry
         /\ \A g \in Frames : Seen(ObserveHost(e, f, m), g) = Seen(e, g) + One(g = f)
<1>1. ObserveHost(e, f, m) \in HostEntry
  <2>1. CASE e = Absent
    BY <2>1 DEF ObserveHost, HostEntry, Bag, NoFrames
  <2>2. CASE e \in HostEntry
    BY <2>2, AbsentAssumption DEF ObserveHost, HostEntry, Bag
  <2> QED BY <2>1, <2>2
<1>2. ObserveHost(e, f, m) # Absent
  BY <1>1, AbsentAssumption
<1>3. ASSUME NEW g \in Frames
      PROVE  Seen(ObserveHost(e, f, m), g) = Seen(e, g) + One(g = f)
  <2>1. Seen(ObserveHost(e, f, m), g) = ObserveHost(e, f, m).seen[g]
    BY <1>2 DEF Seen
  <2>2. CASE e = Absent
    BY <2>1, <2>2 DEF ObserveHost, Seen, One, NoFrames
  <2>3. CASE e \in HostEntry
    BY <2>1, <2>3, AbsentAssumption DEF ObserveHost, Seen, One, HostEntry, Bag
  <2> QED BY <2>2, <2>3
<1> QED BY <1>1, <1>3

LEMMA SeenType ==
  ASSUME NEW e \in FlowEntry \cup HostEntry \cup {Absent}, NEW f \in Frames
  PROVE  Seen(e, f) \in Nat
BY DEF Seen, FlowEntry, HostEntry, Bag

-----------------------------------------------------------------------------
(* Where ingest() can be with which frame. *)
Progress ==
  /\ step = "iface" <=> frame = Absent
  /\ step = "flow" => frame.flow # NoFlow
  /\ step \in {"hostSrc", "hostDst"} => frame.flow # NoFlow /\ frame.macs # NoMacs
  /\ step \in {"macSrc", "macDst"} => frame.macs # NoMacs

(* The observations of frame f that ingest() has still to make. *)
FlowDue(k, f) == IF f = frame /\ step = "flow" THEN FlowOwes(k, f) ELSE 0

HostDue(a, f) ==
  IF f # frame THEN 0
  ELSE IF step \in {"flow", "hostSrc"} THEN HostOwes(a, f)
  ELSE IF step = "hostDst" THEN One(f.flow.dst[1] = a)
  ELSE 0

MacDue(m, f) ==
  IF f # frame THEN 0
  ELSE IF step \in {"flow", "hostSrc", "hostDst", "macSrc"} THEN MacOwes(m, f)
  ELSE IF step = "macDst" THEN One(f.macs[2] = m)
  ELSE 0

FlowBook(k, f) == Seen(flows[k], f) + FlowDue(k, f) = FlowOwes(k, f) * iface[f]
HostBook(a, f) == Seen(hosts[a], f) + HostDue(a, f) = HostOwes(a, f) * iface[f]
MacBook(m, f) == Seen(macs[m], f) + MacDue(m, f) = MacOwes(m, f) * iface[f]

Books ==
  \A f \in Frames :
    /\ \A k \in Flows : FlowBook(k, f)
    /\ \A a \in Addrs : HostBook(a, f)
    /\ \A m \in Macs : MacBook(m, f)

LEMMA EmptySnapshotType == EmptySnapshot \in Snapshot
BY DEF EmptySnapshot, Snapshot, Bag, NoFrames, Table

LEMMA InitType == Init => TypeOK /\ Progress
<1> SUFFICES ASSUME Init PROVE TypeOK /\ Progress
  OBVIOUS
<1>1. flows \in Table(Flows, FlowEntry) /\ hosts \in Table(Addrs, HostEntry)
      /\ macs \in Table(Macs, HostEntry) /\ iface \in Bag
  BY DEF Init, EmptySnapshot, Table, Bag, NoFrames
<1>2. view \in Snapshot /\ snap \in Snapshot
  BY EmptySnapshotType DEF Init
<1> QED BY <1>1, <1>2, AggregatorAssumption DEF Init, TypeOK, Progress

LEMMA CopyType ==
  ASSUME NEW keys, NEW entry, NEW hash, DOMAIN hash = keys,
         NEW copy \in Table(keys, entry), NEW table \in Table(keys, entry)
  PROVE  CopyShard(copy, table, hash) \in Table(keys, entry)
BY DEF CopyShard, Table

LEMMA ShardType ==
  ASSUME TypeOK, NEW next \in {"hosts", "macs", "recent"}, NextShard(next)
  PROVE  /\ shard' \in 0 .. Shards - 1
         /\ reading' \in {reading, next}
BY AggregatorAssumption DEF TypeOK, NextShard

LEMMA PushRecentType ==
  ASSUME NEW q \in Seq(Frames), NEW f \in Frames
  PROVE  /\ PushRecent(q, f) \in Seq(Frames)
         /\ RecentCap > 0 /\ Len(q) <= RecentCap => Len(PushRecent(q, f)) <= RecentCap
<1>1. CASE Len(q) = RecentCap /\ q # << >>
  <2>1. Tail(q) \in Seq(Frames) /\ Len(Tail(q)) = Len(q) - 1
    BY <1>1
  <2> QED BY <2>1, <1>1, AggregatorAssumption DEF PushRecent
<1>2. CASE ~(Len(q) = RecentCap /\ q # << >>)
  <2>1. Len(q) \in Nat /\ (q = << >> => Len(q) = 0)
    OBVIOUS
  <2> QED BY <2>1, <1>2, AggregatorAssumption DEF PushRecent
<1> QED BY <1>1, <1>2

(* ingest() keeps its types and its place. *)
LEMMA IngestType ==
  ASSUME TypeOK, Progress, Ingest
  PROVE  TypeOK' /\ Progress'
<1> USE DEF TypeOK, Goto, reader
<1>1. ASSUME NEW f \in Frames, IngestIface(f)
      PROVE  TypeOK' /\ Progress'
  <2>1. iface' \in Bag
    BY <1>1 DEF IngestIface, Bag
  <2>2. step' \in {"flow", "macSrc", "recent"} /\ frame' = f
    BY <1>1 DEF IngestIface
  <2>3. Progress'
    BY <1>1, <2>2, AbsentAssumption DEF IngestIface, Progress
  <2> QED BY <1>1, <2>1, <2>2, <2>3 DEF IngestIface
<1>2. CASE IngestFlow
  <2>1. frame \in Frames /\ frame.flow # NoFlow /\ Canonical(frame.flow) \in Flows
    BY <1>2, FrameParts DEF IngestFlow, Progress
  <2>2. flows' \in Table(Flows, FlowEntry)
    <3>1. flows[Canonical(frame.flow)] \in FlowEntry \cup {Absent}
      BY <2>1 DEF Table
    <3>2. ObserveFlow(flows[Canonical(frame.flow)], frame) \in FlowEntry
      BY <2>1, <3>1, ObserveFlowCounts
    <3> QED BY <1>2, <2>1, <3>2 DEF IngestFlow, Table
  <2>3. step' \in {"hostSrc", "recent"} /\ (step' = "hostSrc" => frame.macs # NoMacs)
    BY <1>2 DEF IngestFlow
  <2>4. Progress'
    BY <1>2, <2>1, <2>3, AbsentAssumption DEF IngestFlow, Progress
  <2> QED BY <1>2, <2>1, <2>2, <2>3, <2>4 DEF IngestFlow
<1>3. CASE IngestHostSrc
  <2>1. frame \in Frames /\ frame.flow # NoFlow /\ frame.macs # NoMacs
        /\ frame.flow.src[1] \in Addrs /\ frame.macs[1] \in Macs
    BY <1>3, FrameParts DEF IngestHostSrc, Progress
  <2>2. hosts' \in Table(Addrs, HostEntry)
    <3>1. hosts[frame.flow.src[1]] \in HostEntry \cup {Absent}
      BY <2>1 DEF Table
    <3>2. ObserveHost(hosts[frame.flow.src[1]], frame, frame.macs[1]) \in HostEntry
      BY <2>1, <3>1, ObserveHostCounts
    <3> QED BY <1>3, <2>1, <3>2 DEF IngestHostSrc, Table
  <2>3. Progress'
    BY <1>3, <2>1, AbsentAssumption DEF IngestHostSrc, Progress
  <2> QED BY <1>3, <2>1, <2>2, <2>3 DEF IngestHostSrc
<1>4. CASE IngestHostDst
  <2>1. frame \in Frames /\ frame.flow # NoFlow /\ frame.macs # NoMacs
        /\ frame.flow.dst[1] \in Addrs /\ frame.macs[2] \in Macs
    BY <1>4, FrameParts DEF IngestHostDst, Progress
  <2>2. hosts' \in Table(Addrs, HostEntry)
    <3>1. hosts[frame.flow.dst[1]] \in HostEntry \cup {Absent}
      BY <2>1 DEF Table
    <3>2. ObserveHost(hosts[frame.flow.dst[1]], frame, frame.macs[2]) \in HostEntry
      BY <2>1, <3>1, ObserveHostCounts
    <3> QED BY <1>4, <2>1, <3>2 DEF IngestHostDst, Table
  <2>3. Progress'
    BY <1>4, <2>1, AbsentAssumption DEF IngestHostDst, Progress
  <2> QED BY <1>4, <2>1, <2>2, <2>3 DEF IngestHostDst
<1>5. CASE IngestMacSrc
  <2>1. frame \in Frames /\ frame.macs # NoMacs /\ frame.macs[1] \in Macs
    BY <1>5, FrameParts DEF IngestMacSrc, Progress
  <2>2. macs' \in Table(Macs, HostEntry)
    <3>1. macs[frame.macs[1]] \in HostEntry \cup {Absent}
      BY <2>1 DEF Table
    <3>2. ObserveHost(macs[frame.macs[1]], frame, frame.macs[1]) \in HostEntry
      BY <2>1, <3>1, ObserveHostCounts
    <3> QED BY <1>5, <2>1, <3>2 DEF IngestMacSrc, Table
  <2>3. Progress'
    BY <1>5, <2>1, AbsentAssumption DEF IngestMacSrc, Progress
  <2> QED BY <1>5, <2>1, <2>2, <2>3 DEF IngestMacSrc
<1>6. CASE IngestMacDst
  <2>1. frame \in Frames /\ frame.macs # NoMacs /\ frame.macs[2] \in Macs
    BY <1>6, FrameParts DEF IngestMacDst, Progress
  <2>2. macs' \in Table(Macs, HostEntry)
    <3>1. macs[frame.macs[2]] \in HostEntry \cup {Absent}
      BY <2>1 DEF Table
    <3>2. ObserveHost(macs[frame.macs[2]], frame, frame.macs[2]) \in HostEntry
      BY <2>1, <3>1, ObserveHostCounts
    <3> QED BY <1>6, <2>1, <3>2 DEF IngestMacDst, Table
  <2>3. Progress'
    BY <1>6, <2>1, AbsentAssumption DEF IngestMacDst, Progress
  <2> QED BY <1>6, <2>1, <2>2, <2>3 DEF IngestMacDst
<1>7. CASE IngestRecent
  <2>1. recent' \in Seq(Frames) /\ (RecentCap > 0 => Len(recent') <= RecentCap)
    BY <1>7, PushRecentType DEF IngestRecent, Progress
  <2>2. Progress'
    BY <1>7 DEF IngestRecent, Progress
  <2> QED BY <1>7, <2>1, <2>2 DEF IngestRecent
<1> QED BY <1>1, <1>2, <1>3, <1>4, <1>5, <1>6, <1>7 DEF Ingest

(* snapshot() keeps its types; it never writes the tables. *)
LEMMA SnapshotType ==
  ASSUME TypeOK, TakeSnapshot
  PROVE  TypeOK' /\ UNCHANGED <<tables, ingesting>>
<1> USE DEF TypeOK, tables, ingesting
<1>1. CASE SnapIface
  <2>1. view' \in Snapshot
    <3>1. view' = [EmptySnapshot EXCEPT !.iface = iface]
      BY <1>1 DEF SnapIface
    <3> QED BY <3>1, EmptySnapshotType DEF Snapshot
  <2> QED BY <1>1, <2>1, AggregatorAssumption DEF SnapIface
<1>2. CASE SnapFlows
  <2>1. CopyShard(view.flows, flows, FlowShard) \in Table(Flows, FlowEntry)
    BY CopyType, AggregatorAssumption DEF Snapshot
  <2>2. view' \in Snapshot
    BY <1>2, <2>1 DEF SnapFlows, Snapshot
  <2>3. shard' \in 0 .. Shards - 1 /\ reading' \in {"flows", "hosts"}
    BY <1>2, ShardType DEF SnapFlows
  <2> QED BY <1>2, <2>2, <2>3 DEF SnapFlows
<1>3. CASE SnapHosts
  <2>1. CopyShard(view.hosts, hosts, AddrShard) \in Table(Addrs, HostEntry)
    BY CopyType, AggregatorAssumption DEF Snapshot
  <2>2. view' \in Snapshot
    BY <1>3, <2>1 DEF SnapHosts, Snapshot
  <2>3. shard' \in 0 .. Shards - 1 /\ reading' \in {"hosts", "macs"}
    BY <1>3, ShardType DEF SnapHosts
  <2> QED BY <1>3, <2>2, <2>3 DEF SnapHosts
<1>4. CASE SnapMacs
  <2>1. CopyShard(view.macs, macs, MacShard) \in Table(Macs, HostEntry)
    BY CopyType, AggregatorAssumption DEF Snapshot
  <2>2. view' \in Snapshot
    BY <1>4, <2>1 DEF SnapMacs, Snapshot
  <2>3. shard' \in 0 .. Shards - 1 /\ reading' \in {"macs", "recent"}
    BY <1>4, ShardType DEF SnapMacs
  <2> QED BY <1>4, <2>2, <2>3 DEF SnapMacs
<1>5. CASE SnapRecent
  <2>1. snap' \in Snapshot
    BY <1>5 DEF SnapRecent, Snapshot
  <2>2. view' \in Snapshot
    BY <1>5, EmptySnapshotType DEF SnapRecent
  <2> QED BY <1>5, <2>1, <2>2 DEF SnapRecent
<1> QED BY <1>1, <1>2, <1>3, <1>4, <1>5 DEF TakeSnapshot

-----------------------------------------------------------------------------
(* What a statement of ingest() adds to each count. *)
LEMMA IngestEffect ==
  ASSUME TypeOK, Progress, Ingest, NEW f \in Frames
  PROVE  /\ \A k \in Flows :
              Seen(flows'[k], f) =
                Seen(flows[k], f) + One(step = "flow" /\ f = frame /\ k = Canonical(f.flow))
         /\ \A a \in Addrs :
              Seen(hosts'[a], f) =
                Seen(hosts[a], f) + One(\/ (step = "hostSrc" /\ f = frame /\ f.flow.src[1] = a)
                                        \/ (step = "hostDst" /\ f = frame /\ f.flow.dst[1] = a))
         /\ \A m \in Macs :
              Seen(macs'[m], f) =
                Seen(macs[m], f) + One(\/ (step = "macSrc" /\ f = frame /\ f.macs[1] = m)
                                       \/ (step = "macDst" /\ f = frame /\ f.macs[2] = m))
<1>1. /\ \A k \in Flows : flows[k] \in FlowEntry \cup {Absent} /\ Seen(flows[k], f) \in Nat
      /\ \A a \in Addrs : hosts[a] \in HostEntry \cup {Absent} /\ Seen(hosts[a], f) \in Nat
      /\ \A m \in Macs : macs[m] \in HostEntry \cup {Absent} /\ Seen(macs[m], f) \in Nat
  BY SeenType DEF TypeOK, Table
<1>3. ASSUME NEW k \in Flows
      PROVE  Seen(flows'[k], f) =
               Seen(flows[k], f) + One(step = "flow" /\ f = frame /\ k = Canonical(f.flow))
  <2>1. CASE step = "flow"
    <3>1. /\ frame \in Frames /\ Canonical(frame.flow) \in Flows
          /\ flows' = [flows EXCEPT ![Canonical(frame.flow)] = ObserveFlow(@, frame)]
      BY <2>1, FrameParts DEF TypeOK, Progress, Ingest, IngestIface, IngestFlow, IngestHostSrc,
                              IngestHostDst, IngestMacSrc, IngestMacDst, IngestRecent
    <3>2. CASE k = Canonical(frame.flow)
      <4>1. flows'[k] = ObserveFlow(flows[k], frame)
        BY <3>1, <3>2 DEF TypeOK, Table
      <4>2. Seen(ObserveFlow(flows[k], frame), f) = Seen(flows[k], f) + One(f = frame)
        BY <3>1, <1>1, ObserveFlowCounts DEF One
      <4> QED BY <4>1, <4>2, <2>1, <3>2 DEF One
    <3>3. CASE k # Canonical(frame.flow)
      <4>1. flows'[k] = flows[k]
        BY <3>1, <3>3 DEF TypeOK, Table
      <4> QED BY <4>1, <3>3, <1>1 DEF One
    <3> QED BY <3>2, <3>3
  <2>2. CASE step # "flow"
    <3>1. UNCHANGED flows
      BY <2>2 DEF Ingest, IngestIface, IngestFlow, IngestHostSrc, IngestHostDst, IngestMacSrc,
                  IngestMacDst, IngestRecent
    <3> QED BY <3>1, <2>2, <1>1 DEF One
  <2> QED BY <2>1, <2>2
<1>4. ASSUME NEW a \in Addrs
      PROVE  Seen(hosts'[a], f) =
               Seen(hosts[a], f) + One(\/ (step = "hostSrc" /\ f = frame /\ f.flow.src[1] = a)
                                       \/ (step = "hostDst" /\ f = frame /\ f.flow.dst[1] = a))
  <2>1. ASSUME NEW b \in Addrs, NEW m \in Macs, frame \in Frames,
               hosts' = [hosts EXCEPT ![b] = ObserveHost(@, frame, m)]
        PROVE  Seen(hosts'[a], f) = Seen(hosts[a], f) + One(f = frame /\ b = a)
    <3>1. CASE b = a
      <4>1. hosts'[a] = ObserveHost(hosts[a], frame, m)
        BY <2>1, <3>1 DEF TypeOK, Table
      <4>2. Seen(ObserveHost(hosts[a], frame, m), f) = Seen(hosts[a], f) + One(f = frame)
        <5>1. hosts[a] \in HostEntry \cup {Absent}
          BY <1>1
        <5>2. frame \in Frames
          BY <2>1
        <5> QED BY <5>1, <5>2, ObserveHostCounts DEF One
      <4> QED BY <4>1, <4>2, <3>1 DEF One
    <3>2. CASE b # a
      <4>1. hosts'[a] = hosts[a]
        BY <2>1, <3>2 DEF TypeOK, Table
      <4> QED BY <4>1, <3>2, <1>1 DEF One
    <3> QED BY <3>1, <3>2
  <2>2. CASE step = "hostSrc"
    <3>1. /\ frame \in Frames /\ frame.flow.src[1] \in Addrs /\ frame.macs[1] \in Macs
          /\ hosts' = [hosts EXCEPT ![frame.flow.src[1]] = ObserveHost(@, frame, frame.macs[1])]
      BY <2>2, FrameParts DEF TypeOK, Progress, Ingest, IngestIface, IngestFlow, IngestHostSrc,
                              IngestHostDst, IngestMacSrc, IngestMacDst, IngestRecent
    <3>2. Seen(hosts'[a], f) = Seen(hosts[a], f) + One(f = frame /\ frame.flow.src[1] = a)
      BY <3>1, <2>1 DEF One
    <3>3. (\/ step = "hostSrc" /\ f = frame /\ f.flow.src[1] = a
           \/ step = "hostDst" /\ f = frame /\ f.flow.dst[1] = a)
            <=> (f = frame /\ frame.flow.src[1] = a)
      BY <2>2
    <3> QED BY <3>2, <3>3, <1>1 DEF One
  <2>3. CASE step = "hostDst"
    <3>1. /\ frame \in Frames /\ frame.flow.dst[1] \in Addrs /\ frame.macs[2] \in Macs
          /\ hosts' = [hosts EXCEPT ![frame.flow.dst[1]] = ObserveHost(@, frame, frame.macs[2])]
      BY <2>3, FrameParts DEF TypeOK, Progress, Ingest, IngestIface, IngestFlow, IngestHostSrc,
                              IngestHostDst, IngestMacSrc, IngestMacDst, IngestRecent
    <3>2. Seen(hosts'[a], f) = Seen(hosts[a], f) + One(f = frame /\ frame.flow.dst[1] = a)
      BY <3>1, <2>1 DEF One
    <3> QED BY <3>2, <2>3 DEF One
  <2>4. CASE step \notin {"hostSrc", "hostDst"}
    <3>1. UNCHANGED hosts
      BY <2>4 DEF Ingest, IngestIface, IngestFlow, IngestHostSrc, IngestHostDst, IngestMacSrc,
                  IngestMacDst, IngestRecent
    <3> QED BY <3>1, <2>4, <1>1 DEF One
  <2> QED BY <2>2, <2>3, <2>4
<1>5. ASSUME NEW m \in Macs
      PROVE  Seen(macs'[m], f) =
               Seen(macs[m], f) + One(\/ (step = "macSrc" /\ f = frame /\ f.macs[1] = m)
                                      \/ (step = "macDst" /\ f = frame /\ f.macs[2] = m))
  <2>1. ASSUME NEW b \in Macs, frame \in Frames,
               macs' = [macs EXCEPT ![b] = ObserveHost(@, frame, b)]
        PROVE  Seen(macs'[m], f) = Seen(macs[m], f) + One(f = frame /\ b = m)
    <3>1. CASE b = m
      <4>1. macs'[m] = ObserveHost(macs[m], frame, m)
        BY <2>1, <3>1 DEF TypeOK, Table
      <4>2. Seen(ObserveHost(macs[m], frame, m), f) = Seen(macs[m], f) + One(f = frame)
        <5>1. macs[m] \in HostEntry \cup {Absent}
          BY <1>1
        <5>2. frame \in Frames
          BY <2>1
        <5> QED BY <5>1, <5>2, ObserveHostCounts DEF One
      <4> QED BY <4>1, <4>2, <3>1 DEF One
    <3>2. CASE b # m
      <4>1. macs'[m] = macs[m]
        BY <2>1, <3>2 DEF TypeOK, Table
      <4> QED BY <4>1, <3>2, <1>1 DEF One
    <3> QED BY <3>1, <3>2
  <2>2. CASE step = "macSrc"
    <3>1. /\ frame \in Frames /\ frame.macs[1] \in Macs
          /\ macs' = [macs EXCEPT ![frame.macs[1]] = ObserveHost(@, frame, frame.macs[1])]
      BY <2>2, FrameParts DEF TypeOK, Progress, Ingest, IngestIface, IngestFlow, IngestHostSrc,
                              IngestHostDst, IngestMacSrc, IngestMacDst, IngestRecent
    <3>2. Seen(macs'[m], f) = Seen(macs[m], f) + One(f = frame /\ frame.macs[1] = m)
      BY <3>1, <2>1 DEF One
    <3>3. (\/ step = "macSrc" /\ f = frame /\ f.macs[1] = m
           \/ step = "macDst" /\ f = frame /\ f.macs[2] = m)
            <=> (f = frame /\ frame.macs[1] = m)
      BY <2>2
    <3> QED BY <3>2, <3>3, <1>1 DEF One
  <2>3. CASE step = "macDst"
    <3>1. /\ frame \in Frames /\ frame.macs[2] \in Macs
          /\ macs' = [macs EXCEPT ![frame.macs[2]] = ObserveHost(@, frame, frame.macs[2])]
      BY <2>3, FrameParts DEF TypeOK, Progress, Ingest, IngestIface, IngestFlow, IngestHostSrc,
                              IngestHostDst, IngestMacSrc, IngestMacDst, IngestRecent
    <3>2. Seen(macs'[m], f) = Seen(macs[m], f) + One(f = frame /\ frame.macs[2] = m)
      BY <3>1, <2>1 DEF One
    <3> QED BY <3>2, <2>3 DEF One
  <2>4. CASE step \notin {"macSrc", "macDst"}
    <3>1. UNCHANGED macs
      BY <2>4 DEF Ingest, IngestIface, IngestFlow, IngestHostSrc, IngestHostDst, IngestMacSrc,
                  IngestMacDst, IngestRecent
    <3> QED BY <3>1, <2>4, <1>1 DEF One
  <2> QED BY <2>2, <2>3, <2>4
<1> QED BY <1>3, <1>4, <1>5

(* What the first statement of ingest() makes the tables owe. *)
LEMMA IfaceDue ==
  ASSUME TypeOK, Progress, NEW g \in Frames, IngestIface(g), NEW f \in Frames
  PROVE  /\ \A k \in Flows : FlowDue(k, f) = 0 /\ FlowDue(k, f)' = FlowOwes(k, f) * One(f = g)
         /\ \A a \in Addrs : HostDue(a, f) = 0 /\ HostDue(a, f)' = HostOwes(a, f) * One(f = g)
         /\ \A m \in Macs : MacDue(m, f) = 0 /\ MacDue(m, f)' = MacOwes(m, f) * One(f = g)
<1>1. /\ step = "iface" /\ f # frame /\ frame' = g
      /\ step' = IF g.flow # NoFlow THEN "flow" ELSE IF g.macs # NoMacs THEN "macSrc" ELSE "recent"
  BY AbsentAssumption DEF IngestIface, Goto, Progress
<1>2. /\ \A k \in Flows : FlowOwes(k, f) \in Nat
      /\ \A a \in Addrs : HostOwes(a, f) \in Nat
      /\ \A m \in Macs : MacOwes(m, f) \in Nat
  BY OwesType
<1>3. CASE f # g
  BY <1>1, <1>2, <1>3 DEF FlowDue, HostDue, MacDue, One
<1>4. CASE f = g
  <2>1. g.flow = NoFlow => /\ \A k \in Flows : FlowOwes(k, f) = 0
                           /\ \A a \in Addrs : HostOwes(a, f) = 0
    BY <1>4 DEF FlowOwes, HostOwes, One
  <2>2. g.macs = NoMacs => \A m \in Macs : MacOwes(m, f) = 0
    BY <1>4 DEF MacOwes
  <2>3. \A k \in Flows : FlowDue(k, f)' = FlowOwes(k, f) * One(f = g)
    BY <1>1, <1>2, <1>4, <2>1 DEF FlowDue, One
  <2>4. \A a \in Addrs : HostDue(a, f)' = HostOwes(a, f) * One(f = g)
    BY <1>1, <1>2, <1>4, <2>1 DEF HostDue, One
  <2>5. \A m \in Macs : MacDue(m, f)' = MacOwes(m, f) * One(f = g)
    BY <1>1, <1>2, <1>4, <2>2 DEF MacDue, One
  <2> QED BY <1>1, <2>3, <2>4, <2>5 DEF FlowDue, HostDue, MacDue
<1> QED BY <1>3, <1>4

(* Every later statement pays what it takes off the debt. *)
LEMMA StatementPays ==
  ASSUME TypeOK, Progress, Ingest, step # "iface", NEW f \in Frames
  PROVE  /\ iface' = iface
         /\ \A k \in Flows :
              FlowDue(k, f) =
                FlowDue(k, f)' + One(step = "flow" /\ f = frame /\ k = Canonical(f.flow))
         /\ \A a \in Addrs :
              HostDue(a, f) =
                HostDue(a, f)' + One(\/ (step = "hostSrc" /\ f = frame /\ f.flow.src[1] = a)
                                     \/ (step = "hostDst" /\ f = frame /\ f.flow.dst[1] = a))
         /\ \A m \in Macs :
              MacDue(m, f) =
                MacDue(m, f)' + One(\/ (step = "macSrc" /\ f = frame /\ f.macs[1] = m)
                                    \/ (step = "macDst" /\ f = frame /\ f.macs[2] = m))
<1>1. frame \in Frames /\ iface' = iface
  BY DEF TypeOK, Ingest, IngestIface, IngestFlow, IngestHostSrc, IngestHostDst, IngestMacSrc,
         IngestMacDst, IngestRecent
<1>2. CASE f # frame
  <2>1. f # frame'
    BY <1>2, AbsentAssumption DEF Ingest, IngestIface, IngestFlow, IngestHostSrc, IngestHostDst,
                                  IngestMacSrc, IngestMacDst, IngestRecent
  <2> QED BY <1>1, <1>2, <2>1 DEF FlowDue, HostDue, MacDue, One
<1>3. CASE f = frame
  <2>1. CASE IngestFlow
    <3>1. /\ step = "flow" /\ f.flow # NoFlow /\ frame' = f
          /\ step' = IF f.macs # NoMacs THEN "hostSrc" ELSE "recent"
      BY <1>3, <2>1 DEF IngestFlow, Goto, Progress
    <3>2. f.macs = NoMacs => /\ \A a \in Addrs : HostOwes(a, f) = 0
                             /\ \A m \in Macs : MacOwes(m, f) = 0
      BY DEF HostOwes, MacOwes
    <3>3. /\ \A a \in Addrs : HostOwes(a, f) \in Nat
          /\ \A m \in Macs : MacOwes(m, f) \in Nat
      BY OwesType
    <3>4. \A k \in Flows :
            FlowDue(k, f) =
              FlowDue(k, f)' + One(step = "flow" /\ f = frame /\ k = Canonical(f.flow))
      BY <1>3, <3>1 DEF FlowDue, FlowOwes, One
    <3>5. \A a \in Addrs : HostDue(a, f) = HostDue(a, f)' + 0
      BY <1>3, <3>1, <3>2, <3>3 DEF HostDue
    <3>6. \A m \in Macs : MacDue(m, f) = MacDue(m, f)' + 0
      BY <1>3, <3>1, <3>2, <3>3 DEF MacDue
    <3> QED BY <1>1, <3>1, <3>4, <3>5, <3>6 DEF One
  <2>2. CASE IngestHostSrc
    <3>1. /\ step = "hostSrc" /\ f.flow # NoFlow /\ f.macs # NoMacs
          /\ frame' = f /\ step' = "hostDst"
      BY <1>3, <2>2 DEF IngestHostSrc, Goto, Progress
    <3>2. \A m \in Macs : MacOwes(m, f) \in Nat
      BY OwesType
    <3> QED BY <1>1, <1>3, <3>1, <3>2 DEF FlowDue, HostDue, MacDue, HostOwes, One
  <2>3. CASE IngestHostDst
    <3>1. step = "hostDst" /\ frame' = f /\ step' = "macSrc"
      BY <1>3, <2>3 DEF IngestHostDst, Goto
    <3>2. \A m \in Macs : MacOwes(m, f) \in Nat
      BY OwesType
    <3> QED BY <1>1, <1>3, <3>1, <3>2 DEF FlowDue, HostDue, MacDue, One
  <2>4. CASE IngestMacSrc
    <3>1. step = "macSrc" /\ f.macs # NoMacs /\ frame' = f /\ step' = "macDst"
      BY <1>3, <2>4 DEF IngestMacSrc, Goto, Progress
    <3> QED BY <1>1, <1>3, <3>1 DEF FlowDue, HostDue, MacDue, MacOwes, One
  <2>5. CASE IngestMacDst
    <3>1. step = "macDst" /\ frame' = f /\ step' = "recent"
      BY <1>3, <2>5 DEF IngestMacDst, Goto
    <3> QED BY <1>1, <1>3, <3>1 DEF FlowDue, HostDue, MacDue, One
  <2>6. CASE IngestRecent
    <3>1. step = "recent" /\ frame' # f
      BY <1>3, <2>6, AbsentAssumption DEF IngestRecent
    <3> QED BY <1>1, <1>3, <3>1 DEF FlowDue, HostDue, MacDue, One
  <2> QED BY <2>1, <2>2, <2>3, <2>4, <2>5, <2>6 DEF Ingest, IngestIface
<1> QED BY <1>2, <1>3

LEMMA InitBooks == Init => Books
<1> SUFFICES ASSUME Init, NEW f \in Frames
             PROVE  /\ \A k \in Flows : FlowBook(k, f)
                    /\ \A a \in Addrs : HostBook(a, f)
                    /\ \A m \in Macs : MacBook(m, f)
  BY DEF Books
<1>1. f # frame /\ iface[f] = 0
  BY AbsentAssumption DEF Init, NoFrames
<1>2. /\ \A k \in Flows : Seen(flows[k], f) = 0 /\ FlowDue(k, f) = 0
      /\ \A a \in Addrs : Seen(hosts[a], f) = 0 /\ HostDue(a, f) = 0
      /\ \A m \in Macs : Seen(macs[m], f) = 0 /\ MacDue(m, f) = 0
  BY <1>1 DEF Init, EmptySnapshot, Seen, FlowDue, HostDue, MacDue
<1>3. /\ \A k \in Flows : FlowOwes(k, f) * 0 = 0
      /\ \A a \in Addrs : HostOwes(a, f) * 0 = 0
      /\ \A m \in Macs : MacOwes(m, f) * 0 = 0
  BY OwesType
<1> QED BY <1>1, <1>2, <1>3 DEF FlowBook, HostBook, MacBook

(* Counts and debts are numbers. *)
LEMMA BookType ==
  ASSUME TypeOK, NEW f \in Frames
  PROVE  /\ iface[f] \in Nat
         /\ \A k \in Flows : Seen(flows[k], f) \in Nat /\ FlowDue(k, f) \in Nat
         /\ \A a \in Addrs : Seen(hosts[a], f) \in Nat /\ HostDue(a, f) \in Nat
         /\ \A m \in Macs : Seen(macs[m], f) \in Nat /\ MacDue(m, f) \in Nat
<1>1. /\ \A k \in Flows : flows[k] \in FlowEntry \cup {Absent}
      /\ \A a \in Addrs : hosts[a] \in HostEntry \cup {Absent}
      /\ \A m \in Macs : macs[m] \in HostEntry \cup {Absent}
      /\ iface[f] \in Nat
  BY DEF TypeOK, Table, Bag
<1>2. /\ \A k \in Flows : FlowDue(k, f) \in Nat
      /\ \A a \in Addrs : HostDue(a, f) \in Nat
      /\ \A m \in Macs : MacDue(m, f) \in Nat
  BY OwesType DEF FlowDue, HostDue, MacDue, One
<1> QED BY <1>1, <1>2, SeenType

LEMMA IngestBooks ==
  ASSUME TypeOK, Progress, Books, Ingest
  PROVE  Books'
<1> SUFFICES ASSUME NEW f \in Frames
             PROVE  /\ \A k \in Flows : FlowBook(k, f)'
                    /\ \A a \in Addrs : HostBook(a, f)'
                    /\ \A m \in Macs : MacBook(m, f)'
  BY DEF Books
<1>0. /\ \A k \in Flows : FlowBook(k, f)
      /\ \A a \in Addrs : HostBook(a, f)
      /\ \A m \in Macs : MacBook(m, f)
  BY DEF Books
<1>2. CASE step = "iface"
  <2>1. PICK g \in Frames : IngestIface(g)
    BY <1>2 DEF Ingest, IngestFlow, IngestHostSrc, IngestHostDst, IngestMacSrc, IngestMacDst,
                IngestRecent
  <2>2. /\ UNCHANGED <<flows, hosts, macs>>
        /\ iface'[f] = iface[f] + One(f = g)
    BY <2>1 DEF IngestIface, TypeOK, Bag, One
  <2>3. One(f = g) \in {0, 1} /\ iface[f] \in Nat
    BY BookType DEF One
  <2>4. \A owes \in {0, 1, 2} :
          owes * (iface[f] + One(f = g)) = owes * iface[f] + owes * One(f = g)
    BY <2>3
  <2>5. ASSUME NEW k \in Flows
        PROVE  FlowBook(k, f)'
    <3>1. FlowOwes(k, f) \in {0, 1, 2} /\ FlowDue(k, f) = 0
          /\ FlowDue(k, f)' = FlowOwes(k, f) * One(f = g)
      BY <2>1, OwesType, IfaceDue DEF One
    <3>2. Seen(flows[k], f) = FlowOwes(k, f) * iface[f]
      BY <1>0, <3>1, BookType DEF FlowBook
    <3>3. Seen(flows[k], f)' = Seen(flows[k], f) /\ FlowOwes(k, f)' = FlowOwes(k, f)
      BY <2>2
    <3> QED BY <2>2, <2>4, <3>1, <3>2, <3>3 DEF FlowBook
  <2>6. ASSUME NEW a \in Addrs
        PROVE  HostBook(a, f)'
    <3>1. HostOwes(a, f) \in {0, 1, 2} /\ HostDue(a, f) = 0
          /\ HostDue(a, f)' = HostOwes(a, f) * One(f = g)
      BY <2>1, OwesType, IfaceDue DEF One
    <3>2. Seen(hosts[a], f) = HostOwes(a, f) * iface[f]
      BY <1>0, <3>1, BookType DEF HostBook
    <3>3. Seen(hosts[a], f)' = Seen(hosts[a], f) /\ HostOwes(a, f)' = HostOwes(a, f)
      BY <2>2
    <3> QED BY <2>2, <2>4, <3>1, <3>2, <3>3 DEF HostBook
  <2>7. ASSUME NEW m \in Macs
        PROVE  MacBook(m, f)'
    <3>1. MacOwes(m, f) \in {0, 1, 2} /\ MacDue(m, f) = 0
          /\ MacDue(m, f)' = MacOwes(m, f) * One(f = g)
      BY <2>1, OwesType, IfaceDue DEF One
    <3>2. Seen(macs[m], f) = MacOwes(m, f) * iface[f]
      BY <1>0, <3>1, BookType DEF MacBook
    <3>3. Seen(macs[m], f)' = Seen(macs[m], f) /\ MacOwes(m, f)' = MacOwes(m, f)
      BY <2>2
    <3> QED BY <2>2, <2>4, <3>1, <3>2, <3>3 DEF MacBook
  <2> QED BY <2>5, <2>6, <2>7
<1>3. CASE step # "iface"
  <2>1. iface' = iface
    BY <1>3, StatementPays
  <2>2. ASSUME NEW k \in Flows
        PROVE  FlowBook(k, f)'
    <3> DEFINE paid == One(step = "flow" /\ f = frame /\ k = Canonical(f.flow))
    <3>1. Seen(flows[k], f)' = Seen(flows[k], f) + paid
      BY IngestEffect
    <3>2. FlowDue(k, f) = FlowDue(k, f)' + paid
      BY <1>3, StatementPays
    <3>3. Seen(flows[k], f) \in Nat /\ FlowDue(k, f)' \in Nat /\ paid \in Nat
      BY BookType, OwesType DEF FlowDue, One
    <3>4. Seen(flows[k], f) + FlowDue(k, f) = FlowOwes(k, f) * iface[f]
      BY <1>0 DEF FlowBook
    <3> HIDE DEF paid
    <3>5. Seen(flows[k], f)' + FlowDue(k, f)' = FlowOwes(k, f) * iface[f]
      BY <3>1, <3>2, <3>3, <3>4
    <3>6. FlowOwes(k, f)' = FlowOwes(k, f)
      OBVIOUS
    <3> QED BY <2>1, <3>5, <3>6 DEF FlowBook
  <2>3. ASSUME NEW a \in Addrs
        PROVE  HostBook(a, f)'
    <3> DEFINE paid == One(\/ (step = "hostSrc" /\ f = frame /\ f.flow.src[1] = a)
                           \/ (step = "hostDst" /\ f = frame /\ f.flow.dst[1] = a))
    <3>1. Seen(hosts[a], f)' = Seen(hosts[a], f) + paid
      BY IngestEffect
    <3>2. HostDue(a, f) = HostDue(a, f)' + paid
      BY <1>3, StatementPays
    <3>3. Seen(hosts[a], f) \in Nat /\ HostDue(a, f)' \in Nat /\ paid \in Nat
      BY BookType, OwesType DEF HostDue, One
    <3>4. Seen(hosts[a], f) + HostDue(a, f) = HostOwes(a, f) * iface[f]
      BY <1>0 DEF HostBook
    <3> HIDE DEF paid
    <3>5. Seen(hosts[a], f)' + HostDue(a, f)' = HostOwes(a, f) * iface[f]
      BY <3>1, <3>2, <3>3, <3>4
    <3>6. HostOwes(a, f)' = HostOwes(a, f)
      OBVIOUS
    <3> QED BY <2>1, <3>5, <3>6 DEF HostBook
  <2>4. ASSUME NEW m \in Macs
        PROVE  MacBook(m, f)'
    <3> DEFINE paid == One(\/ (step = "macSrc" /\ f = frame /\ f.macs[1] = m)
                           \/ (step = "macDst" /\ f = frame /\ f.macs[2] = m))
    <3>1. Seen(macs[m], f)' = Seen(macs[m], f) + paid
      BY IngestEffect
    <3>2. MacDue(m, f) = MacDue(m, f)' + paid
      BY <1>3, StatementPays
    <3>3. Seen(macs[m], f) \in Nat /\ MacDue(m, f)' \in Nat /\ paid \in Nat
      BY BookType, OwesType DEF MacDue, One
    <3>4. Seen(macs[m], f) + MacDue(m, f) = MacOwes(m, f) * iface[f]
      BY <1>0 DEF MacBook
    <3> HIDE DEF paid
    <3>5. Seen(macs[m], f)' + MacDue(m, f)' = MacOwes(m, f) * iface[f]
      BY <3>1, <3>2, <3>3, <3>4
    <3>6. MacOwes(m, f)' = MacOwes(m, f)
      OBVIOUS
    <3> QED BY <2>1, <3>5, <3>6 DEF MacBook
  <2> QED BY <2>2, <2>3, <2>4
<1> QED BY <1>2, <1>3

-----------------------------------------------------------------------------
(* What snapshot() has copied so far. *)
FlowRead(k) == reading \in {"hosts", "macs", "recent"} \/ (reading = "flows" /\ FlowShard[k] < shard)
HostRead(a) == reading \in {"macs", "recent"} \/ (reading = "hosts" /\ AddrShard[a] < shard)
MacRead(m) == reading = "recent" \/ (reading = "macs" /\ MacShard[m] < shard)

(* The tables, and what has been copied of them, show the frames of the view
   that was copied first, save one frame's worth. *)
Counted(f, missing) == view.iface[f] - One(f = missing)

FlowLag(missing) ==
  \A f \in Frames, k \in Flows :
    /\ Seen(flows[k], f) >= FlowOwes(k, f) * Counted(f, missing)
    /\ FlowRead(k) => Seen(view.flows[k], f) >= FlowOwes(k, f) * Counted(f, missing)

HostLag(missing) ==
  \A f \in Frames, a \in Addrs :
    /\ Seen(hosts[a], f) >= HostOwes(a, f) * Counted(f, missing)
    /\ HostRead(a) => Seen(view.hosts[a], f) >= HostOwes(a, f) * Counted(f, missing)

MacLag(missing) ==
  \A f \in Frames, m \in Macs :
    /\ Seen(macs[m], f) >= MacOwes(m, f) * Counted(f, missing)
    /\ MacRead(m) => Seen(view.macs[m], f) >= MacOwes(m, f) * Counted(f, missing)

Lag(missing) == FlowLag(missing) /\ HostLag(missing) /\ MacLag(missing)

Lags == reading # "iface" => \E missing \in Frames \cup {Absent} : Lag(missing)

IInv == TypeOK /\ Progress /\ Books /\ Lags /\ TornByOneFrame

(* A debt is never more than what the frame in hand makes it. *)
LEMMA DueIsOneFrame ==
  ASSUME Progress, NEW f \in Frames
  PROVE  /\ \A k \in Flows : FlowDue(k, f) <= FlowOwes(k, f) * One(f = frame)
         /\ \A a \in Addrs : HostDue(a, f) <= HostOwes(a, f) * One(f = frame)
         /\ \A m \in Macs : MacDue(m, f) <= MacOwes(m, f) * One(f = frame)
<1>1. /\ \A k \in Flows : FlowOwes(k, f) \in {0, 1}
      /\ \A a \in Addrs : HostOwes(a, f) \in {0, 1, 2}
      /\ \A m \in Macs : MacOwes(m, f) \in {0, 1, 2}
  BY OwesType
<1>2. \A k \in Flows : FlowDue(k, f) <= FlowOwes(k, f) * One(f = frame)
  BY <1>1 DEF FlowDue, One
<1>3. ASSUME NEW a \in Addrs
      PROVE  HostDue(a, f) <= HostOwes(a, f) * One(f = frame)
  <2>1. f = frame /\ step = "hostDst" => One(f.flow.dst[1] = a) <= HostOwes(a, f)
    BY DEF Progress, HostOwes, One
  <2> QED BY <1>1, <2>1 DEF HostDue, One
<1>4. ASSUME NEW m \in Macs
      PROVE  MacDue(m, f) <= MacOwes(m, f) * One(f = frame)
  <2>1. f = frame /\ step = "macDst" => One(f.macs[2] = m) <= MacOwes(m, f)
    BY DEF Progress, MacOwes, One
  <2> QED BY <1>1, <2>1 DEF MacDue, One
<1> QED BY <1>2, <1>3, <1>4

LEMMA InitIInv == Init => IInv
<1> SUFFICES ASSUME Init PROVE IInv
  OBVIOUS
<1>1. TypeOK /\ Progress /\ Books
  BY InitType, InitBooks
<1>2. Lags
  BY DEF Init, Lags
<1>3. LagsByAtMost(snap, Absent)
  <2>1. \A f \in Frames : snap.iface[f] - One(f = Absent) = 0
    BY AbsentAssumption DEF Init, EmptySnapshot, NoFrames, One
  <2>2. ASSUME NEW f \in Frames
        PROVE  /\ \A k \in Flows : Seen(snap.flows[k], f) >= FlowOwes(k, f) * 0
               /\ \A a \in Addrs : Seen(snap.hosts[a], f) >= HostOwes(a, f) * 0
               /\ \A m \in Macs : Seen(snap.macs[m], f) >= MacOwes(m, f) * 0
    BY OwesType DEF Init, EmptySnapshot, Seen
  <2> QED BY <2>1, <2>2 DEF LagsByAtMost
<1> QED BY <1>1, <1>2, <1>3 DEF IInv, TornByOneFrame

(* Copying the interface view starts a snapshot that misses the frame in
   hand. *)
LEMMA SnapIfaceLags ==
  ASSUME TypeOK, Progress, Books, SnapIface
  PROVE  Lags'
<1>1. /\ view'.iface = iface /\ UNCHANGED <<flows, hosts, macs>>
      /\ reading' = "flows" /\ shard' = 0
  BY DEF SnapIface, EmptySnapshot, tables
<1>2. PICK missing \in Frames \cup {Absent} : missing = frame
  BY DEF TypeOK
<1>3. ASSUME NEW f \in Frames, NEW owes \in {0, 1, 2}, NEW seen \in Nat, NEW due \in Nat,
             seen + due = owes * iface[f], due <= owes * One(f = missing)
      PROVE  seen >= owes * (iface[f] - One(f = missing))
  <2>1. iface[f] \in Nat /\ One(f = missing) \in {0, 1}
    BY BookType DEF One
  <2> QED BY <1>3, <2>1
<1>4. FlowLag(missing)'
  <2> SUFFICES ASSUME NEW f \in Frames, NEW k \in Flows
               PROVE  /\ Seen(flows[k], f) >= FlowOwes(k, f) * (iface[f] - One(f = missing))
                      /\ ~FlowRead(k)'
    BY <1>1 DEF FlowLag, Counted
  <2>1. FlowBook(k, f) /\ FlowDue(k, f) <= FlowOwes(k, f) * One(f = missing)
    BY <1>2, DueIsOneFrame DEF Books, One
  <2>2. ~FlowRead(k)'
    BY <1>1, AggregatorAssumption DEF FlowRead
  <2>3. FlowOwes(k, f) \in {0, 1, 2}
    BY OwesType
  <2> QED BY <1>3, <2>1, <2>2, <2>3, BookType DEF FlowBook
<1>5. HostLag(missing)'
  <2> SUFFICES ASSUME NEW f \in Frames, NEW a \in Addrs
               PROVE  /\ Seen(hosts[a], f) >= HostOwes(a, f) * (iface[f] - One(f = missing))
                      /\ ~HostRead(a)'
    BY <1>1 DEF HostLag, Counted
  <2>1. HostBook(a, f) /\ HostDue(a, f) <= HostOwes(a, f) * One(f = missing)
    BY <1>2, DueIsOneFrame DEF Books, One
  <2>2. ~HostRead(a)'
    BY <1>1 DEF HostRead
  <2>3. HostOwes(a, f) \in {0, 1, 2}
    BY OwesType
  <2> QED BY <1>3, <2>1, <2>2, <2>3, BookType DEF HostBook
<1>6. MacLag(missing)'
  <2> SUFFICES ASSUME NEW f \in Frames, NEW m \in Macs
               PROVE  /\ Seen(macs[m], f) >= MacOwes(m, f) * (iface[f] - One(f = missing))
                      /\ ~MacRead(m)'
    BY <1>1 DEF MacLag, Counted
  <2>1. MacBook(m, f) /\ MacDue(m, f) <= MacOwes(m, f) * One(f = missing)
    BY <1>2, DueIsOneFrame DEF Books, One
  <2>2. ~MacRead(m)'
    BY <1>1 DEF MacRead
  <2>3. MacOwes(m, f) \in {0, 1, 2}
    BY OwesType
  <2> QED BY <1>3, <2>1, <2>2, <2>3, BookType DEF MacBook
<1> QED BY <1>2, <1>4, <1>5, <1>6 DEF Lags, Lag

(* Copying a shard copies what has not fallen behind. *)
LEMMA SnapFlowsLags ==
  ASSUME TypeOK, Lags, SnapFlows
  PROVE  Lags'
<1>1. PICK missing \in Frames \cup {Absent} : Lag(missing)
  BY DEF Lags, SnapFlows
<1>2. /\ view'.iface = view.iface /\ view'.hosts = view.hosts /\ view'.macs = view.macs
      /\ \A k \in Flows : view'.flows[k] = IF FlowShard[k] = shard THEN flows[k] ELSE view.flows[k]
      /\ UNCHANGED <<flows, hosts, macs>>
  BY AggregatorAssumption DEF SnapFlows, TypeOK, Snapshot, CopyShard, tables
<1>3. /\ reading = "flows" /\ reading' \in {"flows", "hosts"}
      /\ reading' = "hosts" => shard = Shards - 1 /\ shard' = 0
      /\ reading' = "flows" => shard' = shard + 1
  BY DEF SnapFlows, NextShard
<1>4. FlowLag(missing)'
  <2> SUFFICES ASSUME NEW f \in Frames, NEW k \in Flows
               PROVE  /\ Seen(flows[k], f) >= FlowOwes(k, f) * Counted(f, missing)
                      /\ FlowRead(k)' => Seen(view'.flows[k], f) >= FlowOwes(k, f) * Counted(f, missing)
    BY <1>2 DEF FlowLag, Counted
  <2>1. FlowRead(k)' => FlowShard[k] = shard \/ FlowRead(k)
    BY <1>3, AggregatorAssumption DEF FlowRead, TypeOK
  <2> QED BY <1>1, <1>2, <2>1 DEF Lag, FlowLag
<1>5. HostLag(missing)'
  <2>1. \A a \in Addrs : ~HostRead(a)'
    BY <1>3, AggregatorAssumption DEF HostRead
  <2> QED BY <1>1, <1>2, <2>1 DEF Lag, HostLag, Counted
<1>6. MacLag(missing)'
  <2>1. \A m \in Macs : ~MacRead(m)'
    BY <1>3 DEF MacRead
  <2> QED BY <1>1, <1>2, <2>1 DEF Lag, MacLag, Counted
<1> QED BY <1>4, <1>5, <1>6 DEF Lags, Lag

LEMMA SnapHostsLags ==
  ASSUME TypeOK, Lags, SnapHosts
  PROVE  Lags'
<1>1. PICK missing \in Frames \cup {Absent} : Lag(missing)
  BY DEF Lags, SnapHosts
<1>2. /\ view'.iface = view.iface /\ view'.flows = view.flows /\ view'.macs = view.macs
      /\ \A a \in Addrs : view'.hosts[a] = IF AddrShard[a] = shard THEN hosts[a] ELSE view.hosts[a]
      /\ UNCHANGED <<flows, hosts, macs>>
  BY AggregatorAssumption DEF SnapHosts, TypeOK, Snapshot, CopyShard, tables
<1>3. /\ reading = "hosts" /\ reading' \in {"hosts", "macs"}
      /\ reading' = "macs" => shard = Shards - 1 /\ shard' = 0
      /\ reading' = "hosts" => shard' = shard + 1
  BY DEF SnapHosts, NextShard
<1>4. FlowLag(missing)'
  <2>1. \A k \in Flows : FlowRead(k)
    BY <1>3 DEF FlowRead
  <2> QED BY <1>1, <1>2, <2>1 DEF Lag, FlowLag, Counted
<1>5. HostLag(missing)'
  <2> SUFFICES ASSUME NEW f \in Frames, NEW a \in Addrs
               PROVE  /\ Seen(hosts[a], f) >= HostOwes(a, f) * Counted(f, missing)
                      /\ HostRead(a)' => Seen(view'.hosts[a], f) >= HostOwes(a, f) * Counted(f, missing)
    BY <1>2 DEF HostLag, Counted
  <2>1. HostRead(a)' => AddrShard[a] = shard \/ HostRead(a)
    BY <1>3, AggregatorAssumption DEF HostRead, TypeOK
  <2> QED BY <1>1, <1>2, <2>1 DEF Lag, HostLag
<1>6. MacLag(missing)'
  <2>1. \A m \in Macs : ~MacRead(m)'
    BY <1>3, AggregatorAssumption DEF MacRead
  <2> QED BY <1>1, <1>2, <2>1 DEF Lag, MacLag, Counted
<1> QED BY <1>4, <1>5, <1>6 DEF Lags, Lag

LEMMA SnapMacsLags ==
  ASSUME TypeOK, Lags, SnapMacs
  PROVE  Lags'
<1>1. PICK missing \in Frames \cup {Absent} : Lag(missing)
  BY DEF Lags, SnapMacs
<1>2. /\ view'.iface = view.iface /\ view'.flows = view.flows /\ view'.hosts = view.hosts
      /\ \A m \in Macs : view'.macs[m] = IF MacShard[m] = shard THEN macs[m] ELSE view.macs[m]
      /\ UNCHANGED <<flows, hosts, macs>>
  BY AggregatorAssumption DEF SnapMacs, TypeOK, Snapshot, CopyShard, tables
<1>3. /\ reading = "macs" /\ reading' \in {"macs", "recent"}
      /\ reading' = "recent" => shard = Shards - 1 /\ shard' = 0
      /\ reading' = "macs" => shard' = shard + 1
  BY DEF SnapMacs, NextShard
<1>4. FlowLag(missing)'
  <2>1. \A k \in Flows : FlowRead(k)
    BY <1>3 DEF FlowRead
  <2> QED BY <1>1, <1>2, <2>1 DEF Lag, FlowLag, Counted
<1>5. HostLag(missing)'
  <2>1. \A a \in Addrs : HostRead(a)
    BY <1>3 DEF HostRead
  <2> QED BY <1>1, <1>2, <2>1 DEF Lag, HostLag, Counted
<1>6. MacLag(missing)'
  <2> SUFFICES ASSUME NEW f \in Frames, NEW m \in Macs
               PROVE  /\ Seen(macs[m], f) >= MacOwes(m, f) * Counted(f, missing)
                      /\ MacRead(m)' => Seen(view'.macs[m], f) >= MacOwes(m, f) * Counted(f, missing)
    BY <1>2 DEF MacLag, Counted
  <2>1. MacRead(m)' => MacShard[m] = shard \/ MacRead(m)
    BY <1>3, AggregatorAssumption DEF MacRead, TypeOK
  <2> QED BY <1>1, <1>2, <2>1 DEF Lag, MacLag
<1> QED BY <1>4, <1>5, <1>6 DEF Lags, Lag

(* A finished snapshot is a view all of whose parts have been read. *)
LEMMA SnapRecentIsTorn ==
  ASSUME TypeOK, Lags, SnapRecent
  PROVE  Lags' /\ TornByOneFrame'
<1>1. PICK missing \in Frames \cup {Absent} : Lag(missing)
  BY DEF Lags, SnapRecent
<1>2. /\ snap'.iface = view.iface /\ snap'.flows = view.flows
      /\ snap'.hosts = view.hosts /\ snap'.macs = view.macs
      /\ reading = "recent" /\ reading' = "iface"
  BY DEF SnapRecent, TypeOK, Snapshot
<1>3. LagsByAtMost(snap, missing)'
  <2>1. /\ \A k \in Flows : FlowRead(k)
        /\ \A a \in Addrs : HostRead(a)
        /\ \A m \in Macs : MacRead(m)
    BY <1>2 DEF FlowRead, HostRead, MacRead
  <2> QED BY <1>1, <1>2, <2>1 DEF Lag, FlowLag, HostLag, MacLag, Counted, LagsByAtMost
<1> QED BY <1>2, <1>3 DEF Lags, TornByOneFrame

(* Counts only grow, so a table that has caught up stays so. *)
LEMMA IngestLags ==
  ASSUME TypeOK, Progress, Lags, Ingest
  PROVE  Lags'
<1>1. UNCHANGED <<reading, shard, view, snap>>
  BY DEF Ingest, IngestIface, IngestFlow, IngestHostSrc, IngestHostDst, IngestMacSrc,
         IngestMacDst, IngestRecent, reader
<1>2. CASE reading = "iface"
  BY <1>1, <1>2 DEF Lags
<1>3. CASE reading # "iface"
  <2>1. PICK missing \in Frames \cup {Absent} : Lag(missing)
    BY <1>3 DEF Lags
  <2>2. \A f \in Frames : Counted(f, missing) \in Int
    BY DEF Counted, One, TypeOK, Snapshot, Bag
  <2>3. ASSUME NEW old \in Nat, NEW more \in {0, 1}, NEW owes \in {0, 1, 2}, NEW counted \in Int,
               old >= owes * counted
        PROVE  old + more >= owes * counted
    BY <2>3
  <2>4. FlowLag(missing)'
    <3> SUFFICES ASSUME NEW f \in Frames, NEW k \in Flows
                 PROVE  Seen(flows'[k], f) >= FlowOwes(k, f) * Counted(f, missing)
      BY <1>1, <2>1 DEF Lag, FlowLag, Counted, FlowRead
    <3>1. PICK more \in {0, 1} : Seen(flows'[k], f) = Seen(flows[k], f) + more
      BY IngestEffect DEF One
    <3>2. FlowOwes(k, f) \in {0, 1, 2}
      BY OwesType
    <3> QED BY <2>1, <2>2, <2>3, <3>1, <3>2, BookType DEF Lag, FlowLag
  <2>5. HostLag(missing)'
    <3> SUFFICES ASSUME NEW f \in Frames, NEW a \in Addrs
                 PROVE  Seen(hosts'[a], f) >= HostOwes(a, f) * Counted(f, missing)
      BY <1>1, <2>1 DEF Lag, HostLag, Counted, HostRead
    <3>1. PICK more \in {0, 1} : Seen(hosts'[a], f) = Seen(hosts[a], f) + more
      BY IngestEffect DEF One
    <3> QED BY <2>1, <2>2, <2>3, <3>1, OwesType, BookType DEF Lag, HostLag
  <2>6. MacLag(missing)'
    <3> SUFFICES ASSUME NEW f \in Frames, NEW m \in Macs
                 PROVE  Seen(macs'[m], f) >= MacOwes(m, f) * Counted(f, missing)
      BY <1>1, <2>1 DEF Lag, MacLag, Counted, MacRead
    <3>1. PICK more \in {0, 1} : Seen(macs'[m], f) = Seen(macs[m], f) + more
      BY IngestEffect DEF One
    <3> QED BY <2>1, <2>2, <2>3, <3>1, OwesType, BookType DEF Lag, MacLag
  <2> QED BY <2>4, <2>5, <2>6 DEF Lags, Lag
<1> QED BY <1>2, <1>3

LEMMA NextIInv == IInv /\ [Next]_vars => IInv'
<1> SUFFICES ASSUME IInv, [Next]_vars
             PROVE  IInv'
  OBVIOUS
<1> USE DEF IInv
<1>1. CASE Ingest
  <2>1. TypeOK' /\ Progress' /\ Books' /\ Lags'
    BY <1>1, IngestType, IngestBooks, IngestLags
  <2>2. snap' = snap
    BY <1>1 DEF Ingest, IngestIface, IngestFlow, IngestHostSrc, IngestHostDst, IngestMacSrc,
                IngestMacDst, IngestRecent, reader
  <2> QED BY <2>1, <2>2 DEF TornByOneFrame, LagsByAtMost
<1>2. CASE TakeSnapshot
  <2>1. TypeOK' /\ UNCHANGED <<tables, ingesting>>
    BY <1>2, SnapshotType
  <2>2. Progress' /\ Books'
    BY <2>1 DEF Progress, Books, FlowBook, HostBook, MacBook, FlowDue, HostDue, MacDue, tables,
                ingesting
  <2>3. Lags'
    BY <1>2, SnapIfaceLags, SnapFlowsLags, SnapHostsLags, SnapMacsLags, SnapRecentIsTorn
    DEF TakeSnapshot
  <2>4. TornByOneFrame'
    <3>1. CASE SnapRecent
      BY <3>1, SnapRecentIsTorn
    <3>2. CASE ~SnapRecent
      <4>1. snap' = snap
        BY <1>2, <3>2 DEF TakeSnapshot, SnapIface, SnapFlows, SnapHosts, SnapMacs
      <4> QED BY <4>1 DEF TornByOneFrame, LagsByAtMost
    <3> QED BY <3>1, <3>2
  <2> QED BY <2>1, <2>2, <2>3, <2>4
<1>3. CASE UNCHANGED vars
  BY <1>3 DEF vars, tables, ingesting, reader, TypeOK, Progress, Books, FlowBook, HostBook, MacBook,
              FlowDue, HostDue, MacDue, Lags, Lag, FlowLag, HostLag, MacLag, Counted, FlowRead,
              HostRead, MacRead, TornByOneFrame, LagsByAtMost
<1> QED BY <1>1, <1>2, <1>3 DEF Next

LEMMA IInvHolds == Spec => []IInv
BY InitIInv, NextIInv, PTL DEF Spec

(***************************************************************************)
(* The tables, the snapshot under construction and the finished one always *)
(* have their types: no update meets a key or an entry it is not meant     *)
(* for.                                                                    *)
(***************************************************************************)
THEOREM TypeCorrect == Spec => []TypeOK
BY IInvHolds, PTL DEF IInv

(***************************************************************************)
(* However ingest() and snapshot() interleave, every table has observed    *)
(* exactly the frames the interface view counted that concern it, whenever *)
(* ingest() is between frames (aggregate.rs ingest).                       *)
(***************************************************************************)
THEOREM TablesKeepTheBooks == Spec => []BooksBalance
<1>1. IInv => BooksBalance
  <2> SUFFICES ASSUME IInv, step = "iface", NEW f \in Frames
               PROVE  /\ \A k \in Flows : Seen(flows[k], f) = FlowOwes(k, f) * iface[f]
                      /\ \A a \in Addrs : Seen(hosts[a], f) = HostOwes(a, f) * iface[f]
                      /\ \A m \in Macs : Seen(macs[m], f) = MacOwes(m, f) * iface[f]
    BY DEF BooksBalance
  <2>1. f # frame
    BY AbsentAssumption DEF IInv, Progress
  <2>2. TypeOK /\ Books
    BY DEF IInv
  <2> QED BY <2>1, <2>2, BookType DEF Books, FlowBook, HostBook, MacBook, FlowDue, HostDue, MacDue
<1> QED BY <1>1, IInvHolds, PTL

(***************************************************************************)
(* A snapshot put together from many moments misses at most one frame's    *)
(* worth of what its own interface view counts, the same frame in every    *)
(* table (aggregate.rs snapshot).                                          *)
(***************************************************************************)
THEOREM SnapshotsAreTornByOneFrame == Spec => []TornByOneFrame
BY IInvHolds, PTL DEF IInv

-----------------------------------------------------------------------------
(* What a row says of itself. *)
LEMMA CanonicalIsCanonical ==
  ASSUME NEW k \in Flows
  PROVE  /\ Canonical(Canonical(k)) = Canonical(k)
         /\ k = Canonical(k) /\ Reverse(k) = Canonical(Reverse(k)) => k = Reverse(k)
<1>1. k \in [proto : STRING, src : Addrs \X Nat, dst : Addrs \X Nat]
  BY AggregatorAssumption
<1>2. k.src \in Addrs \X Nat /\ k.dst \in Addrs \X Nat /\ Addrs \subseteq Nat
  BY <1>1, AggregatorAssumption
<1>3. /\ Reverse(k).src = k.dst /\ Reverse(k).dst = k.src
      /\ Reverse(Reverse(k)) = k
      /\ k.src = k.dst => Reverse(k) = k
  <2>1. ASSUME NEW c \in [proto : STRING, src : Addrs \X Nat, dst : Addrs \X Nat]
        PROVE  /\ Reverse(c) \in [proto : STRING, src : Addrs \X Nat, dst : Addrs \X Nat]
               /\ Reverse(c).proto = c.proto /\ Reverse(c).src = c.dst /\ Reverse(c).dst = c.src
    BY DEF Reverse
  <2>2. ASSUME NEW c \in [proto : STRING, src : Addrs \X Nat, dst : Addrs \X Nat],
               NEW d \in [proto : STRING, src : Addrs \X Nat, dst : Addrs \X Nat],
               c.proto = d.proto, c.src = d.src, c.dst = d.dst
        PROVE  c = d
    BY <2>2
  <2>3. Reverse(k) \in [proto : STRING, src : Addrs \X Nat, dst : Addrs \X Nat]
        /\ Reverse(Reverse(k)) \in [proto : STRING, src : Addrs \X Nat, dst : Addrs \X Nat]
    BY <1>1, <2>1
  <2>4. Reverse(k).proto = k.proto /\ Reverse(k).src = k.dst /\ Reverse(k).dst = k.src
    BY <1>1, <2>1
  <2>5. /\ Reverse(Reverse(k)).proto = k.proto
        /\ Reverse(Reverse(k)).src = k.src /\ Reverse(Reverse(k)).dst = k.dst
    BY <2>1, <2>3, <2>4
  <2> QED BY <1>1, <2>2, <2>3, <2>4, <2>5
<1>4. ASSUME NEW a \in Addrs \X Nat, NEW b \in Addrs \X Nat
      PROVE  /\ Before(a, b) \/ Before(b, a)
             /\ Before(a, b) /\ Before(b, a) => a = b
  <2>1. a[1] \in Nat /\ a[2] \in Nat /\ b[1] \in Nat /\ b[2] \in Nat
    BY <1>2
  <2>2. a = <<a[1], a[2]>> /\ b = <<b[1], b[2]>>
    OBVIOUS
  <2>3. Before(a, b) \/ Before(b, a)
    BY <2>1 DEF Before
  <2>4. Before(a, b) /\ Before(b, a) => a[1] = b[1] /\ a[2] = b[2]
    BY <2>1 DEF Before
  <2> QED BY <2>2, <2>3, <2>4
<1>5. /\ Before(k.src, k.dst) \/ Before(k.dst, k.src)
      /\ Before(k.src, k.dst) /\ Before(k.dst, k.src) => k.src = k.dst
  BY <1>2, <1>4
<1>6. CASE Before(k.src, k.dst)
  <2>1. Canonical(k) = k
    BY <1>6 DEF Canonical
  <2>2. CASE Before(k.dst, k.src)
    BY <1>3, <1>5, <1>6, <2>1, <2>2
  <2>3. CASE ~Before(k.dst, k.src)
    <3>1. Canonical(Reverse(k)) = k
      BY <1>3, <2>3 DEF Canonical
    <3> QED BY <2>1, <3>1
  <2> QED BY <2>2, <2>3
<1>7. CASE ~Before(k.src, k.dst)
  <2>1. Canonical(k) = Reverse(k) /\ Before(Reverse(k).src, Reverse(k).dst)
    BY <1>3, <1>5, <1>7 DEF Canonical
  <2> QED BY <1>3, <1>5, <2>1 DEF Canonical
<1> QED BY <1>6, <1>7

Keyed == \A k \in Flows : flows[k] # Absent => k = Canonical(k)

(* A statement of ingest() touches at most one row of each table, with
   observe(). *)
LEMMA FlowRows ==
  ASSUME TypeOK, Progress, [Next]_vars, NEW k \in Flows
  PROVE  \/ flows'[k] = flows[k]
         \/ \E f \in Frames : k = Canonical(f.flow) /\ f.flow \in Flows
                              /\ flows'[k] = ObserveFlow(flows[k], f)
<1>1. CASE IngestFlow
  <2>1. frame \in Frames /\ frame.flow # NoFlow
    BY <1>1 DEF IngestFlow, TypeOK, Progress
  <2>2. frame.flow \in Flows /\ Canonical(frame.flow) \in Flows
    BY <2>1, FrameParts
  <2>3. flows' = [flows EXCEPT ![Canonical(frame.flow)] = ObserveFlow(@, frame)]
    BY <1>1 DEF IngestFlow
  <2> QED BY <2>1, <2>2, <2>3 DEF TypeOK, Table
<1>2. CASE ~IngestFlow
  <2>1. UNCHANGED flows
    BY <1>2 DEF Next, Ingest, IngestIface, IngestHostSrc, IngestHostDst, IngestMacSrc, IngestMacDst,
                IngestRecent, TakeSnapshot, SnapIface, SnapFlows, SnapHosts, SnapMacs, SnapRecent,
                vars, tables
  <2> QED BY <2>1
<1> QED BY <1>1, <1>2

LEMMA HostRows ==
  ASSUME TypeOK, Progress, [Next]_vars, NEW a \in Addrs
  PROVE  \/ hosts'[a] = hosts[a]
         \/ \E f \in Frames, m \in Macs : hosts'[a] = ObserveHost(hosts[a], f, m)
<1>1. CASE IngestHostSrc
  <2>1. frame \in Frames /\ frame.flow # NoFlow /\ frame.macs # NoMacs
    BY <1>1 DEF IngestHostSrc, TypeOK, Progress
  <2>2. frame.flow.src[1] \in Addrs /\ frame.macs[1] \in Macs
    BY <2>1, FrameParts
  <2>3. hosts' = [hosts EXCEPT ![frame.flow.src[1]] = ObserveHost(@, frame, frame.macs[1])]
    BY <1>1 DEF IngestHostSrc
  <2> QED BY <2>1, <2>2, <2>3 DEF TypeOK, Table
<1>2. CASE IngestHostDst
  <2>1. frame \in Frames /\ frame.flow # NoFlow /\ frame.macs # NoMacs
    BY <1>2 DEF IngestHostDst, TypeOK, Progress
  <2>2. frame.flow.dst[1] \in Addrs /\ frame.macs[2] \in Macs
    BY <2>1, FrameParts
  <2>3. hosts' = [hosts EXCEPT ![frame.flow.dst[1]] = ObserveHost(@, frame, frame.macs[2])]
    BY <1>2 DEF IngestHostDst
  <2> QED BY <2>1, <2>2, <2>3 DEF TypeOK, Table
<1>3. CASE ~IngestHostSrc /\ ~IngestHostDst
  <2>1. UNCHANGED hosts
    BY <1>3 DEF Next, Ingest, IngestIface, IngestFlow, IngestMacSrc, IngestMacDst, IngestRecent,
                TakeSnapshot, SnapIface, SnapFlows, SnapHosts, SnapMacs, SnapRecent, vars, tables
  <2> QED BY <2>1
<1> QED BY <1>1, <1>2, <1>3

(***************************************************************************)
(* A conversation has one row for any addresses and ports, because only    *)
(* canonical keys ever get one (domain.rs FlowKey::canonical).             *)
(***************************************************************************)
THEOREM ConversationsHaveOneRow == Spec => []OneRowPerConversation
<1>1. Init => Keyed
  BY DEF Init, EmptySnapshot, Keyed
<1>2. IInv /\ Keyed /\ [Next]_vars => Keyed'
  <2> SUFFICES ASSUME IInv, Keyed, [Next]_vars, NEW k \in Flows, flows'[k] # Absent
               PROVE  k = Canonical(k)
    BY DEF Keyed
  <2>1. flows'[k] = flows[k] \/ \E f \in Frames : k = Canonical(f.flow) /\ f.flow \in Flows
    BY FlowRows DEF IInv
  <2> QED BY <2>1, CanonicalIsCanonical DEF Keyed
<1>3. Keyed => OneRowPerConversation
  <2>1. \A k \in Flows : Reverse(k) \in Flows
    BY AggregatorAssumption
  <2> QED BY <2>1, CanonicalIsCanonical DEF Keyed, OneRowPerConversation
<1> QED BY <1>1, <1>2, <1>3, IInvHolds, PTL DEF Spec

LEMMA MacRows ==
  ASSUME TypeOK, Progress, [Next]_vars, NEW m \in Macs
  PROVE  \/ macs'[m] = macs[m]
         \/ \E f \in Frames : macs'[m] = ObserveHost(macs[m], f, m)
<1>1. CASE IngestMacSrc
  <2>1. frame \in Frames /\ frame.macs # NoMacs
    BY <1>1 DEF IngestMacSrc, TypeOK, Progress
  <2>2. frame.macs[1] \in Macs
    BY <2>1, FrameParts
  <2>3. macs' = [macs EXCEPT ![frame.macs[1]] = ObserveHost(@, frame, frame.macs[1])]
    BY <1>1 DEF IngestMacSrc
  <2> QED BY <2>1, <2>2, <2>3 DEF TypeOK, Table
<1>2. CASE IngestMacDst
  <2>1. frame \in Frames /\ frame.macs # NoMacs
    BY <1>2 DEF IngestMacDst, TypeOK, Progress
  <2>2. frame.macs[2] \in Macs
    BY <2>1, FrameParts
  <2>3. macs' = [macs EXCEPT ![frame.macs[2]] = ObserveHost(@, frame, frame.macs[2])]
    BY <1>2 DEF IngestMacDst
  <2> QED BY <2>1, <2>2, <2>3 DEF TypeOK, Table
<1>3. CASE ~IngestMacSrc /\ ~IngestMacDst
  <2>1. UNCHANGED macs
    BY <1>3 DEF Next, Ingest, IngestIface, IngestFlow, IngestHostSrc, IngestHostDst, IngestRecent,
                TakeSnapshot, SnapIface, SnapFlows, SnapHosts, SnapMacs, SnapRecent, vars, tables
  <2> QED BY <2>1
<1> QED BY <1>1, <1>2, <1>3

LEMMA ObservedHostIsKept ==
  ASSUME NEW e \in HostEntry \cup {Absent}, NEW f \in Frames, NEW m \in Macs
  PROVE  HostKept(e, ObserveHost(e, f, m))
<1> SUFFICES ASSUME e # Absent
             PROVE  ObserveHost(e, f, m) # Absent /\ ObserveHost(e, f, m).mac = e.mac
  BY DEF HostKept
<1>1. e \in HostEntry
  OBVIOUS
<1>2. ObserveHost(e, f, m) # Absent
  BY ObserveHostCounts, AbsentAssumption
<1>3. ObserveHost(e, f, m) = [e EXCEPT !.seen[f] = @ + 1]
  BY DEF ObserveHost
<1> QED BY <1>1, <1>2, <1>3 DEF HostEntry

LEMMA ObservedFlowIsKept ==
  ASSUME NEW e \in FlowEntry \cup {Absent}, NEW f \in Frames
  PROVE  FlowKept(e, ObserveFlow(e, f))
<1> SUFFICES ASSUME e # Absent
             PROVE  /\ ObserveFlow(e, f) # Absent
                    /\ ObserveFlow(e, f).dir = e.dir
                    /\ e.app # "Unknown" => ObserveFlow(e, f).app # "Unknown"
  BY DEF FlowKept
<1>1. e \in FlowEntry
  OBVIOUS
<1>2. ObserveFlow(e, f) # Absent
  BY ObserveFlowCounts, AbsentAssumption
<1>3. ObserveFlow(e, f) = [e EXCEPT !.seen[f] = @ + 1,
                                    !.app = IF f.app = "Unknown" THEN @ ELSE f.app]
  BY DEF ObserveFlow
<1>4. /\ ObserveFlow(e, f).dir = e.dir
      /\ ObserveFlow(e, f).app = IF f.app = "Unknown" THEN e.app ELSE f.app
  BY <1>1, <1>3 DEF FlowEntry
<1> QED BY <1>2, <1>4

LEMMA TablesKeepTheirRows ==
  ASSUME TypeOK, Progress, [Next]_vars
  PROVE  /\ \A k \in Flows : FlowKept(flows[k], flows'[k])
         /\ \A a \in Addrs : HostKept(hosts[a], hosts'[a])
         /\ \A m \in Macs : HostKept(macs[m], macs'[m])
<1>1. ASSUME NEW k \in Flows PROVE FlowKept(flows[k], flows'[k])
  <2>1. flows[k] \in FlowEntry \cup {Absent}
    BY DEF TypeOK, Table
  <2>2. FlowKept(flows[k], flows[k])
    BY DEF FlowKept
  <2> QED BY <2>1, <2>2, FlowRows, ObservedFlowIsKept
<1>2. ASSUME NEW a \in Addrs PROVE HostKept(hosts[a], hosts'[a])
  <2>1. hosts[a] \in HostEntry \cup {Absent}
    BY DEF TypeOK, Table
  <2>2. HostKept(hosts[a], hosts[a])
    BY DEF HostKept
  <2> QED BY <2>1, <2>2, HostRows, ObservedHostIsKept
<1>3. ASSUME NEW m \in Macs PROVE HostKept(macs[m], macs'[m])
  <2>1. macs[m] \in HostEntry \cup {Absent}
    BY DEF TypeOK, Table
  <2>2. HostKept(macs[m], macs[m])
    BY DEF HostKept
  <2> QED BY <2>1, <2>2, MacRows, ObservedHostIsKept
<1> QED BY <1>1, <1>2, <1>3

-----------------------------------------------------------------------------
(* A snapshot shows no more than what is being copied, and that no more than
   the tables. *)
FlowsGrow(f) ==
  \A k \in Flows :
    /\ Seen(snap.flows[k], f) <= Seen(flows[k], f)
    /\ Seen(view.flows[k], f) <= Seen(flows[k], f)
    /\ FlowRead(k) => Seen(snap.flows[k], f) <= Seen(view.flows[k], f)

HostsGrow(f) ==
  \A a \in Addrs :
    /\ Seen(snap.hosts[a], f) <= Seen(hosts[a], f)
    /\ Seen(view.hosts[a], f) <= Seen(hosts[a], f)
    /\ HostRead(a) => Seen(snap.hosts[a], f) <= Seen(view.hosts[a], f)

MacsGrow(f) ==
  \A m \in Macs :
    /\ Seen(snap.macs[m], f) <= Seen(macs[m], f)
    /\ Seen(view.macs[m], f) <= Seen(macs[m], f)
    /\ MacRead(m) => Seen(snap.macs[m], f) <= Seen(view.macs[m], f)

IfaceGrows(f) ==
  /\ snap.iface[f] <= iface[f]
  /\ view.iface[f] <= iface[f]
  /\ reading # "iface" => snap.iface[f] <= view.iface[f]

Grown == \A f \in Frames : IfaceGrows(f) /\ FlowsGrow(f) /\ HostsGrow(f) /\ MacsGrow(f)

(* The tables, and what has been copied of them, show the frames of the flow
   rows copied before them, save one passage of one frame. *)
FollowsFlows(missing) ==
  \A f \in Frames, k \in Flows :
    LET shown == Seen(view.flows[k], f) - One(f = missing)
    IN  /\ \A a \in Addrs :
             /\ Seen(hosts[a], f) >= HostOwes(a, f) * shown
             /\ HostRead(a) => Seen(view.hosts[a], f) >= HostOwes(a, f) * shown
        /\ \A m \in Macs :
             /\ Seen(macs[m], f) >= MacOwes(m, f) * shown
             /\ MacRead(m) => Seen(view.macs[m], f) >= MacOwes(m, f) * shown

(* The hardware addresses likewise, of the host rows copied before them. *)
FollowsHosts(missing) ==
  \A f \in Frames, a \in Addrs, m \in Macs :
    LET shown == Seen(view.hosts[a], f) - HostOwes(a, f) * One(f = missing)
    IN  /\ HostOwes(a, f) * Seen(macs[m], f) >= MacOwes(m, f) * shown
        /\ MacRead(m) => HostOwes(a, f) * Seen(view.macs[m], f) >= MacOwes(m, f) * shown

KeepsUp ==
  /\ reading \in {"hosts", "macs", "recent"} =>
       \E missing \in Frames \cup {Absent} : FollowsFlows(missing)
  /\ reading \in {"macs", "recent"} =>
       \E missing \in Frames \cup {Absent} : FollowsHosts(missing)

LEMMA ShownType ==
  ASSUME TypeOK, NEW f \in Frames
  PROVE  /\ view.iface[f] \in Nat /\ snap.iface[f] \in Nat
         /\ \A k \in Flows : Seen(view.flows[k], f) \in Nat /\ Seen(snap.flows[k], f) \in Nat
         /\ \A a \in Addrs : Seen(view.hosts[a], f) \in Nat /\ Seen(snap.hosts[a], f) \in Nat
         /\ \A m \in Macs : Seen(view.macs[m], f) \in Nat /\ Seen(snap.macs[m], f) \in Nat
<1>1. ASSUME NEW s \in Snapshot
      PROVE  /\ s.iface[f] \in Nat
             /\ \A k \in Flows : Seen(s.flows[k], f) \in Nat
             /\ \A a \in Addrs : Seen(s.hosts[a], f) \in Nat
             /\ \A m \in Macs : Seen(s.macs[m], f) \in Nat
  <2>1. /\ \A k \in Flows : s.flows[k] \in FlowEntry \cup {Absent}
        /\ \A a \in Addrs : s.hosts[a] \in HostEntry \cup {Absent}
        /\ \A m \in Macs : s.macs[m] \in HostEntry \cup {Absent}
        /\ s.iface[f] \in Nat
    BY DEF Snapshot, Table, Bag
  <2> QED BY <2>1, SeenType
<1> QED BY <1>1 DEF TypeOK

(* No statement of ingest() takes a count back. *)
LEMMA IngestGrows ==
  ASSUME TypeOK, Progress, Ingest, NEW f \in Frames
  PROVE  /\ iface'[f] >= iface[f] /\ iface'[f] \in Nat
         /\ \A k \in Flows : /\ Seen(flows'[k], f) >= Seen(flows[k], f)
                             /\ Seen(flows'[k], f) \in Nat
         /\ \A a \in Addrs : /\ Seen(hosts'[a], f) >= Seen(hosts[a], f)
                             /\ Seen(hosts'[a], f) \in Nat
         /\ \A m \in Macs : /\ Seen(macs'[m], f) >= Seen(macs[m], f)
                            /\ Seen(macs'[m], f) \in Nat
         /\ UNCHANGED <<reading, shard, view, snap>>
<1>1. UNCHANGED <<reading, shard, view, snap>>
  BY DEF Ingest, IngestIface, IngestFlow, IngestHostSrc, IngestHostDst, IngestMacSrc,
         IngestMacDst, IngestRecent, reader
<1>2. iface'[f] >= iface[f] /\ iface'[f] \in Nat
  <2>1. iface' = iface \/ \E g \in Frames : iface' = [iface EXCEPT ![g] = @ + 1]
    BY DEF Ingest, IngestIface, IngestFlow, IngestHostSrc, IngestHostDst, IngestMacSrc,
           IngestMacDst, IngestRecent
  <2> QED BY <2>1, BookType DEF TypeOK, Bag
<1>3. ASSUME NEW old \in Nat, NEW b \in BOOLEAN
      PROVE  old + One(b) >= old /\ old + One(b) \in Nat
  BY DEF One
<1> HIDE DEF One
<1>4. ASSUME NEW k \in Flows
      PROVE  Seen(flows'[k], f) >= Seen(flows[k], f) /\ Seen(flows'[k], f) \in Nat
  <2> DEFINE here == step = "flow" /\ f = frame /\ k = Canonical(f.flow)
  <2>1. Seen(flows'[k], f) = Seen(flows[k], f) + One(here)
    BY IngestEffect, Zenon
  <2>2. Seen(flows[k], f) \in Nat
    BY BookType, Zenon
  <2>3. here \in BOOLEAN
    BY Zenon
  <2> HIDE DEF here
  <2> QED BY <1>3, <2>1, <2>2, <2>3, Zenon
<1>5. ASSUME NEW a \in Addrs
      PROVE  Seen(hosts'[a], f) >= Seen(hosts[a], f) /\ Seen(hosts'[a], f) \in Nat
  <2> DEFINE here == \/ (step = "hostSrc" /\ f = frame /\ f.flow.src[1] = a)
                   \/ (step = "hostDst" /\ f = frame /\ f.flow.dst[1] = a)
  <2>1. Seen(hosts'[a], f) = Seen(hosts[a], f) + One(here)
    BY IngestEffect, Zenon
  <2>2. Seen(hosts[a], f) \in Nat
    BY BookType, Zenon
  <2>3. here \in BOOLEAN
    BY Zenon
  <2> HIDE DEF here
  <2> QED BY <1>3, <2>1, <2>2, <2>3, Zenon
<1>6. ASSUME NEW m \in Macs
      PROVE  Seen(macs'[m], f) >= Seen(macs[m], f) /\ Seen(macs'[m], f) \in Nat
  <2> DEFINE here == \/ (step = "macSrc" /\ f = frame /\ f.macs[1] = m)
                   \/ (step = "macDst" /\ f = frame /\ f.macs[2] = m)
  <2>1. Seen(macs'[m], f) = Seen(macs[m], f) + One(here)
    BY IngestEffect, Zenon
  <2>2. Seen(macs[m], f) \in Nat
    BY BookType, Zenon
  <2>3. here \in BOOLEAN
    BY Zenon
  <2> HIDE DEF here
  <2> QED BY <1>3, <2>1, <2>2, <2>3, Zenon
<1> QED BY <1>1, <1>2, <1>4, <1>5, <1>6

LEMMA InitGrown == Init => Grown
<1> SUFFICES ASSUME Init, NEW f \in Frames
             PROVE  IfaceGrows(f) /\ FlowsGrow(f) /\ HostsGrow(f) /\ MacsGrow(f)
  BY DEF Grown
<1> QED BY DEF Init, EmptySnapshot, NoFrames, Seen, IfaceGrows, FlowsGrow, HostsGrow, MacsGrow

LEMMA IngestGrown ==
  ASSUME TypeOK, Progress, Grown, Ingest
  PROVE  Grown'
<1> SUFFICES ASSUME NEW f \in Frames
             PROVE  (IfaceGrows(f) /\ FlowsGrow(f) /\ HostsGrow(f) /\ MacsGrow(f))'
  BY DEF Grown
<1>1. IfaceGrows(f) /\ FlowsGrow(f) /\ HostsGrow(f) /\ MacsGrow(f)
  BY DEF Grown
<1>2. IfaceGrows(f)'
  BY <1>1, IngestGrows, BookType, ShownType DEF IfaceGrows
<1>3. FlowsGrow(f)'
  BY <1>1, IngestGrows, BookType, ShownType DEF FlowsGrow, FlowRead
<1>4. HostsGrow(f)'
  BY <1>1, IngestGrows, BookType, ShownType DEF HostsGrow, HostRead
<1>5. MacsGrow(f)'
  BY <1>1, IngestGrows, BookType, ShownType DEF MacsGrow, MacRead
<1> QED BY <1>2, <1>3, <1>4, <1>5

(* What copying a shard does to what is being copied, as far as it matters. *)
LEMMA CopyEffect ==
  ASSUME TypeOK
  PROVE  /\ SnapFlows =>
              /\ view'.iface = view.iface /\ view'.hosts = view.hosts /\ view'.macs = view.macs
              /\ \A k \in Flows :
                   /\ view'.flows[k] = IF FlowShard[k] = shard THEN flows[k] ELSE view.flows[k]
                   /\ FlowRead(k)' => FlowShard[k] = shard \/ FlowRead(k)
                   /\ FlowRead(k) => FlowRead(k)'
              /\ \A a \in Addrs : ~HostRead(a) /\ ~HostRead(a)'
              /\ \A m \in Macs : ~MacRead(m) /\ ~MacRead(m)'
         /\ SnapHosts =>
              /\ view'.iface = view.iface /\ view'.flows = view.flows /\ view'.macs = view.macs
              /\ \A a \in Addrs :
                   /\ view'.hosts[a] = IF AddrShard[a] = shard THEN hosts[a] ELSE view.hosts[a]
                   /\ HostRead(a)' => AddrShard[a] = shard \/ HostRead(a)
              /\ \A k \in Flows : FlowRead(k) /\ FlowRead(k)'
              /\ \A m \in Macs : ~MacRead(m) /\ ~MacRead(m)'
         /\ SnapMacs =>
              /\ view'.iface = view.iface /\ view'.flows = view.flows /\ view'.hosts = view.hosts
              /\ \A m \in Macs :
                   /\ view'.macs[m] = IF MacShard[m] = shard THEN macs[m] ELSE view.macs[m]
                   /\ MacRead(m)' => MacShard[m] = shard \/ MacRead(m)
              /\ \A k \in Flows : FlowRead(k) /\ FlowRead(k)'
              /\ \A a \in Addrs : HostRead(a) /\ HostRead(a)'
<1> USE AggregatorAssumption DEF TypeOK, Snapshot, CopyShard, NextShard, FlowRead, HostRead, MacRead
<1>1. ASSUME SnapFlows
      PROVE  /\ view'.iface = view.iface /\ view'.hosts = view.hosts /\ view'.macs = view.macs
             /\ \A k \in Flows :
                  view'.flows[k] = IF FlowShard[k] = shard THEN flows[k] ELSE view.flows[k]
  BY <1>1 DEF SnapFlows
<1>2. ASSUME SnapFlows
      PROVE  /\ \A k \in Flows : /\ FlowRead(k)' => FlowShard[k] = shard \/ FlowRead(k)
                                 /\ FlowRead(k) => FlowRead(k)'
             /\ \A a \in Addrs : ~HostRead(a) /\ ~HostRead(a)'
             /\ \A m \in Macs : ~MacRead(m) /\ ~MacRead(m)'
  BY <1>2 DEF SnapFlows
<1>3. ASSUME SnapHosts
      PROVE  /\ view'.iface = view.iface /\ view'.flows = view.flows /\ view'.macs = view.macs
             /\ \A a \in Addrs :
                  view'.hosts[a] = IF AddrShard[a] = shard THEN hosts[a] ELSE view.hosts[a]
  BY <1>3 DEF SnapHosts
<1>4. ASSUME SnapHosts
      PROVE  /\ \A a \in Addrs : HostRead(a)' => AddrShard[a] = shard \/ HostRead(a)
             /\ \A k \in Flows : FlowRead(k) /\ FlowRead(k)'
             /\ \A m \in Macs : ~MacRead(m) /\ ~MacRead(m)'
  BY <1>4 DEF SnapHosts
<1>5. ASSUME SnapMacs
      PROVE  /\ view'.iface = view.iface /\ view'.flows = view.flows /\ view'.hosts = view.hosts
             /\ \A m \in Macs :
                  view'.macs[m] = IF MacShard[m] = shard THEN macs[m] ELSE view.macs[m]
  BY <1>5 DEF SnapMacs
<1>6. ASSUME SnapMacs
      PROVE  /\ \A m \in Macs : MacRead(m)' => MacShard[m] = shard \/ MacRead(m)
             /\ \A k \in Flows : FlowRead(k) /\ FlowRead(k)'
             /\ \A a \in Addrs : HostRead(a) /\ HostRead(a)'
  BY <1>6 DEF SnapMacs
<1> QED BY <1>1, <1>2, <1>3, <1>4, <1>5, <1>6

LEMMA SnapshotGrown ==
  ASSUME TypeOK, Grown, TakeSnapshot
  PROVE  Grown'
<1> SUFFICES ASSUME NEW f \in Frames
             PROVE  (IfaceGrows(f) /\ FlowsGrow(f) /\ HostsGrow(f) /\ MacsGrow(f))'
  BY DEF Grown
<1>1. IfaceGrows(f) /\ FlowsGrow(f) /\ HostsGrow(f) /\ MacsGrow(f)
  BY DEF Grown
<1>2. UNCHANGED tables
  BY SnapshotType
<1>3. CASE SnapIface
  <2>1. /\ view' = [EmptySnapshot EXCEPT !.iface = iface] /\ snap' = snap
        /\ reading' = "flows" /\ shard' = 0
    BY <1>3 DEF SnapIface
  <2>2. /\ view'.iface = iface
        /\ \A k \in Flows : Seen(view'.flows[k], f) = 0 /\ ~FlowRead(k)'
        /\ \A a \in Addrs : Seen(view'.hosts[a], f) = 0 /\ ~HostRead(a)'
        /\ \A m \in Macs : Seen(view'.macs[m], f) = 0 /\ ~MacRead(m)'
    BY <2>1, AggregatorAssumption DEF EmptySnapshot, Seen, FlowRead, HostRead, MacRead
  <2> QED BY <1>1, <1>2, <2>1, <2>2, BookType
          DEF tables, IfaceGrows, FlowsGrow, HostsGrow, MacsGrow
<1>4. CASE SnapFlows
  <2>1. snap' = snap /\ reading = "flows"
    BY <1>4 DEF SnapFlows
  <2> QED BY <1>1, <1>2, <1>4, <2>1, CopyEffect, BookType
          DEF tables, IfaceGrows, FlowsGrow, HostsGrow, MacsGrow
<1>5. CASE SnapHosts
  <2>1. snap' = snap /\ reading = "hosts"
    BY <1>5 DEF SnapHosts
  <2> QED BY <1>1, <1>2, <1>5, <2>1, CopyEffect, BookType
          DEF tables, IfaceGrows, FlowsGrow, HostsGrow, MacsGrow
<1>6. CASE SnapMacs
  <2>1. snap' = snap /\ reading = "macs"
    BY <1>6 DEF SnapMacs
  <2> QED BY <1>1, <1>2, <1>6, <2>1, CopyEffect, BookType
          DEF tables, IfaceGrows, FlowsGrow, HostsGrow, MacsGrow
<1>7. CASE SnapRecent
  <2>1. /\ snap'.iface = view.iface /\ snap'.flows = view.flows
        /\ snap'.hosts = view.hosts /\ snap'.macs = view.macs
        /\ view' = EmptySnapshot /\ reading' = "iface"
    BY <1>7 DEF SnapRecent, TypeOK, Snapshot
  <2>2. /\ view'.iface[f] = 0
        /\ \A k \in Flows : Seen(view'.flows[k], f) = 0 /\ ~FlowRead(k)'
        /\ \A a \in Addrs : Seen(view'.hosts[a], f) = 0 /\ ~HostRead(a)'
        /\ \A m \in Macs : Seen(view'.macs[m], f) = 0 /\ ~MacRead(m)'
    BY <2>1 DEF EmptySnapshot, NoFrames, Seen, FlowRead, HostRead, MacRead
  <2> QED BY <1>1, <1>2, <2>1, <2>2, BookType
          DEF tables, IfaceGrows, FlowsGrow, HostsGrow, MacsGrow
<1> QED BY <1>3, <1>4, <1>5, <1>6, <1>7 DEF TakeSnapshot

LEMMA GrownHolds == Spec => []Grown
<1>1. IInv /\ Grown /\ [Next]_vars => Grown'
  <2> SUFFICES ASSUME IInv, Grown, [Next]_vars PROVE Grown'
    OBVIOUS
  <2>1. CASE UNCHANGED vars
    BY <2>1 DEF vars, tables, ingesting, reader, Grown, IfaceGrows, FlowsGrow, HostsGrow, MacsGrow,
                FlowRead, HostRead, MacRead
  <2> QED BY <2>1, IngestGrown, SnapshotGrown DEF IInv, Next
<1> QED BY <1>1, InitGrown, IInvHolds, PTL DEF Spec

(***************************************************************************)
(* However ingest() and snapshot() interleave, the next snapshot shows at  *)
(* least what this one showed (aggregate.rs snapshot).                     *)
(***************************************************************************)
THEOREM NothingShownIsTakenBack == Spec => NothingIsTakenBack
<1>1. ASSUME IInv, Grown, [Next]_vars
      PROVE  \A f \in Frames :
               /\ snap'.iface[f] >= snap.iface[f]
               /\ \A k \in Flows : Seen(snap'.flows[k], f) >= Seen(snap.flows[k], f)
               /\ \A a \in Addrs : Seen(snap'.hosts[a], f) >= Seen(snap.hosts[a], f)
               /\ \A m \in Macs : Seen(snap'.macs[m], f) >= Seen(snap.macs[m], f)
  <2> SUFFICES ASSUME NEW f \in Frames
               PROVE  /\ snap'.iface[f] >= snap.iface[f]
                      /\ \A k \in Flows : Seen(snap'.flows[k], f) >= Seen(snap.flows[k], f)
                      /\ \A a \in Addrs : Seen(snap'.hosts[a], f) >= Seen(snap.hosts[a], f)
                      /\ \A m \in Macs : Seen(snap'.macs[m], f) >= Seen(snap.macs[m], f)
    OBVIOUS
  <2>1. TypeOK
    BY <1>1 DEF IInv
  <2>2. CASE SnapRecent
    <3>1. /\ snap'.iface = view.iface /\ snap'.flows = view.flows
          /\ snap'.hosts = view.hosts /\ snap'.macs = view.macs
          /\ reading = "recent"
      BY <2>1, <2>2 DEF SnapRecent, TypeOK, Snapshot
    <3>2. IfaceGrows(f) /\ FlowsGrow(f) /\ HostsGrow(f) /\ MacsGrow(f)
      BY <1>1 DEF Grown
    <3> QED BY <2>1, <3>1, <3>2, ShownType
            DEF IfaceGrows, FlowsGrow, HostsGrow, MacsGrow, FlowRead, HostRead, MacRead
  <2>3. CASE ~SnapRecent
    <3>1. snap' = snap
      BY <1>1, <2>3 DEF Next, Ingest, IngestIface, IngestFlow, IngestHostSrc, IngestHostDst,
                        IngestMacSrc, IngestMacDst, IngestRecent, TakeSnapshot, SnapIface, SnapFlows,
                        SnapHosts, SnapMacs, vars, reader
    <3> QED BY <2>1, <3>1, ShownType
  <2> QED BY <2>2, <2>3
<1> QED BY <1>1, IInvHolds, GrownHolds, PTL DEF Spec, NothingIsTakenBack

-----------------------------------------------------------------------------
(* What has become of the rows shown by the last snapshot: they are in the
   tables, and where the next snapshot has been copied they are in it. *)
FlowsKept ==
  \A k \in Flows :
    /\ FlowKept(snap.flows[k], flows[k])
    /\ FlowKept(view.flows[k], flows[k])
    /\ FlowRead(k) => FlowKept(snap.flows[k], view.flows[k])

HostsKept ==
  \A a \in Addrs :
    /\ HostKept(snap.hosts[a], hosts[a])
    /\ HostKept(view.hosts[a], hosts[a])
    /\ HostRead(a) => HostKept(snap.hosts[a], view.hosts[a])

MacsKept ==
  \A m \in Macs :
    /\ HostKept(snap.macs[m], macs[m])
    /\ HostKept(view.macs[m], macs[m])
    /\ MacRead(m) => HostKept(snap.macs[m], view.macs[m])

Kept == FlowsKept /\ HostsKept /\ MacsKept

LEMMA KeptIsTransitive ==
  ASSUME NEW x, NEW y, NEW z
  PROVE  /\ FlowKept(x, y) /\ FlowKept(y, z) => FlowKept(x, z)
         /\ HostKept(x, y) /\ HostKept(y, z) => HostKept(x, z)
<1>1. FlowKept(x, y) /\ FlowKept(y, z) => FlowKept(x, z)
  BY DEF FlowKept
<1>2. HostKept(x, y) /\ HostKept(y, z) => HostKept(x, z)
  BY DEF HostKept
<1> QED BY <1>1, <1>2

LEMMA KeptAtOnce ==
  ASSUME NEW x
  PROVE  FlowKept(x, x) /\ HostKept(x, x) /\ FlowKept(Absent, x) /\ HostKept(Absent, x)
BY DEF FlowKept, HostKept

LEMMA InitKept == Init => Kept
BY KeptAtOnce DEF Init, EmptySnapshot, Kept, FlowsKept, HostsKept, MacsKept

LEMMA IngestKept ==
  ASSUME TypeOK, Progress, Kept, Ingest
  PROVE  Kept'
<1>1. [Next]_vars
  BY DEF Next
<1>2. UNCHANGED <<reading, shard, view, snap>>
  BY DEF Ingest, IngestIface, IngestFlow, IngestHostSrc, IngestHostDst, IngestMacSrc,
         IngestMacDst, IngestRecent, reader
<1>3. /\ \A k \in Flows : FlowKept(flows[k], flows'[k])
      /\ \A a \in Addrs : HostKept(hosts[a], hosts'[a])
      /\ \A m \in Macs : HostKept(macs[m], macs'[m])
  BY <1>1, TablesKeepTheirRows
<1>4. FlowsKept'
  BY <1>2, <1>3, KeptIsTransitive DEF Kept, FlowsKept, FlowRead
<1>5. HostsKept'
  BY <1>2, <1>3, KeptIsTransitive DEF Kept, HostsKept, HostRead
<1>6. MacsKept'
  BY <1>2, <1>3, KeptIsTransitive DEF Kept, MacsKept, MacRead
<1> QED BY <1>4, <1>5, <1>6 DEF Kept

LEMMA SnapshotKept ==
  ASSUME TypeOK, Kept, TakeSnapshot
  PROVE  Kept'
<1>1. UNCHANGED tables
  BY SnapshotType
<1>2. CASE SnapIface
  <2>1. /\ view' = [EmptySnapshot EXCEPT !.iface = iface] /\ snap' = snap
        /\ reading' = "flows" /\ shard' = 0
    BY <1>2 DEF SnapIface
  <2>2. /\ \A k \in Flows : view'.flows[k] = Absent /\ ~FlowRead(k)'
        /\ \A a \in Addrs : view'.hosts[a] = Absent /\ ~HostRead(a)'
        /\ \A m \in Macs : view'.macs[m] = Absent /\ ~MacRead(m)'
    BY <2>1, AggregatorAssumption DEF EmptySnapshot, FlowRead, HostRead, MacRead
  <2> QED BY <1>1, <2>1, <2>2, KeptAtOnce DEF tables, Kept, FlowsKept, HostsKept, MacsKept
<1>3. CASE SnapFlows
  <2>1. snap' = snap /\ reading = "flows"
    BY <1>3 DEF SnapFlows
  <2> QED BY <1>1, <1>3, <2>1, CopyEffect, KeptAtOnce DEF tables, Kept, FlowsKept, HostsKept, MacsKept
<1>4. CASE SnapHosts
  <2>1. snap' = snap /\ reading = "hosts"
    BY <1>4 DEF SnapHosts
  <2> QED BY <1>1, <1>4, <2>1, CopyEffect, KeptAtOnce DEF tables, Kept, FlowsKept, HostsKept, MacsKept
<1>5. CASE SnapMacs
  <2>1. snap' = snap /\ reading = "macs"
    BY <1>5 DEF SnapMacs
  <2> QED BY <1>1, <1>5, <2>1, CopyEffect, KeptAtOnce DEF tables, Kept, FlowsKept, HostsKept, MacsKept
<1>6. CASE SnapRecent
  <2>1. /\ snap'.flows = view.flows /\ snap'.hosts = view.hosts /\ snap'.macs = view.macs
        /\ view' = EmptySnapshot /\ reading' = "iface"
    BY <1>6 DEF SnapRecent, TypeOK, Snapshot
  <2>2. /\ \A k \in Flows : view'.flows[k] = Absent /\ ~FlowRead(k)'
        /\ \A a \in Addrs : view'.hosts[a] = Absent /\ ~HostRead(a)'
        /\ \A m \in Macs : view'.macs[m] = Absent /\ ~MacRead(m)'
    BY <2>1 DEF EmptySnapshot, FlowRead, HostRead, MacRead
  <2> QED BY <1>1, <2>1, <2>2, KeptAtOnce DEF tables, Kept, FlowsKept, HostsKept, MacsKept
<1> QED BY <1>2, <1>3, <1>4, <1>5, <1>6 DEF TakeSnapshot

LEMMA KeptHolds == Spec => []Kept
<1>1. IInv /\ Kept /\ [Next]_vars => Kept'
  <2> SUFFICES ASSUME IInv, Kept, [Next]_vars PROVE Kept'
    OBVIOUS
  <2>1. CASE UNCHANGED vars
    BY <2>1 DEF vars, tables, ingesting, reader, Kept, FlowsKept, HostsKept, MacsKept,
                FlowRead, HostRead, MacRead
  <2> QED BY <2>1, IngestKept, SnapshotKept DEF IInv, Next
<1> QED BY <1>1, InitKept, IInvHolds, PTL DEF Spec

(* What is shown changes with the last statement of snapshot() only. *)
LEMMA ShownChanges ==
  ASSUME TypeOK, [Next]_vars
  PROVE  \/ snap' = snap
         \/ /\ snap'.flows = view.flows /\ snap'.hosts = view.hosts /\ snap'.macs = view.macs
            /\ reading = "recent"
<1>1. CASE SnapRecent
  BY <1>1 DEF SnapRecent, TypeOK, Snapshot
<1>2. CASE ~SnapRecent
  BY <1>2 DEF Next, Ingest, IngestIface, IngestFlow, IngestHostSrc, IngestHostDst,
              IngestMacSrc, IngestMacDst, IngestRecent, TakeSnapshot, SnapIface, SnapFlows,
              SnapHosts, SnapMacs, vars, reader
<1> QED BY <1>1, <1>2

LEMMA ShownRowsAreKept ==
  ASSUME IInv, Kept, [Next]_vars
  PROVE  /\ \A k \in Flows : FlowKept(snap.flows[k], snap'.flows[k])
         /\ \A a \in Addrs : HostKept(snap.hosts[a], snap'.hosts[a])
         /\ \A m \in Macs : HostKept(snap.macs[m], snap'.macs[m])
<1>1. CASE snap' = snap
  BY <1>1, KeptAtOnce
<1>2. CASE /\ snap'.flows = view.flows /\ snap'.hosts = view.hosts /\ snap'.macs = view.macs
           /\ reading = "recent"
  BY <1>2 DEF Kept, FlowsKept, HostsKept, MacsKept, FlowRead, HostRead, MacRead
<1> QED BY <1>1, <1>2, ShownChanges DEF IInv

(***************************************************************************)
(* The first direction of a flow and the hardware address of a host are    *)
(* never rewritten, a known application is never forgotten and no row      *)
(* disappears, in the tables and on the screen, whatever frames come and   *)
(* however they meet the snapshots (aggregate.rs observe, snapshot).       *)
(***************************************************************************)
THEOREM IdentityIsKept == Spec => RowsKeepTheirIdentity
<1>1. ASSUME IInv, Kept, [Next]_vars
      PROVE  /\ \A k \in Flows : /\ FlowKept(flows[k], flows'[k])
                                 /\ FlowKept(snap.flows[k], snap'.flows[k])
             /\ \A a \in Addrs : /\ HostKept(hosts[a], hosts'[a])
                                 /\ HostKept(snap.hosts[a], snap'.hosts[a])
             /\ \A m \in Macs : /\ HostKept(macs[m], macs'[m])
                                /\ HostKept(snap.macs[m], snap'.macs[m])
  BY <1>1, TablesKeepTheirRows, ShownRowsAreKept DEF IInv
<1> QED BY <1>1, IInvHolds, KeptHolds, PTL DEF Spec, RowsKeepTheirIdentity

(* The number of rows a table of a snapshot has. *)
RowsOf(table) == {k \in DOMAIN table : table[k] # Absent}

(***************************************************************************)
(* No table a snapshot shows is shorter than the one before, for finitely  *)
(* many flows and addresses: what the user interface relies on, module App *)
(* assumes of its snapshots (aggregate.rs snapshot, app.rs).               *)
(***************************************************************************)
THEOREM ShownTablesNeverShrink ==
  ASSUME IsFiniteSet(Flows), IsFiniteSet(Addrs)
  PROVE  Spec => [][/\ Cardinality(RowsOf(snap.flows)) <= Cardinality(RowsOf(snap.flows))'
                    /\ Cardinality(RowsOf(snap.hosts)) <= Cardinality(RowsOf(snap.hosts))']_vars
<1>1. ASSUME IInv, IInv', Kept, [Next]_vars
      PROVE  /\ Cardinality(RowsOf(snap.flows)) <= Cardinality(RowsOf(snap.flows))'
             /\ Cardinality(RowsOf(snap.hosts)) <= Cardinality(RowsOf(snap.hosts))'
  <2>1. /\ DOMAIN snap.flows = Flows /\ DOMAIN snap'.flows = Flows
        /\ DOMAIN snap.hosts = Addrs /\ DOMAIN snap'.hosts = Addrs
    BY <1>1 DEF IInv, TypeOK, Snapshot, Table
  <2>2. /\ \A k \in Flows : FlowKept(snap.flows[k], snap'.flows[k])
        /\ \A a \in Addrs : HostKept(snap.hosts[a], snap'.hosts[a])
    BY <1>1, ShownRowsAreKept
  <2>3. RowsOf(snap.flows) \subseteq RowsOf(snap'.flows) /\ RowsOf(snap'.flows) \subseteq Flows
    BY <2>1, <2>2, Zenon DEF RowsOf, FlowKept
  <2>4. RowsOf(snap.hosts) \subseteq RowsOf(snap'.hosts) /\ RowsOf(snap'.hosts) \subseteq Addrs
    BY <2>1, <2>2, Zenon DEF RowsOf, HostKept
  <2>5. IsFiniteSet(RowsOf(snap'.flows)) /\ IsFiniteSet(RowsOf(snap'.hosts))
    BY <2>3, <2>4, FS_Subset, Zenon
  <2>6. /\ Cardinality(RowsOf(snap.flows)) <= Cardinality(RowsOf(snap'.flows))
        /\ Cardinality(RowsOf(snap.hosts)) <= Cardinality(RowsOf(snap'.hosts))
    BY <2>3, <2>4, <2>5, FS_Subset, Zenon
  <2> QED BY <2>6
<1> QED BY <1>1, IInvHolds, KeptHolds, PTL DEF Spec

(* The frame in hand is all that a table lacks of one updated before it. *)
LEMMA FrameInHandIsLacking ==
  ASSUME IInv, NEW f \in Frames
  PROVE  /\ \A k \in Flows : Seen(flows[k], f) <= iface[f]
         /\ \A a \in Addrs :
              /\ Seen(hosts[a], f) <= HostOwes(a, f) * iface[f]
              /\ Seen(hosts[a], f) >= HostOwes(a, f) * (iface[f] - One(f = frame))
         /\ \A m \in Macs : Seen(macs[m], f) >= MacOwes(m, f) * (iface[f] - One(f = frame))
<1>1. TypeOK /\ Progress /\ Books
  BY DEF IInv
<1>2. ASSUME NEW owes \in {0, 1, 2}, NEW seen \in Nat, NEW due \in Nat, NEW counted \in Nat,
             NEW one \in {0, 1}, seen + due = owes * counted, due <= owes * one
      PROVE  seen <= owes * counted /\ seen >= owes * (counted - one)
  BY <1>2
<1>3. One(f = frame) \in {0, 1}
  BY DEF One
<1>4. ASSUME NEW k \in Flows
      PROVE  Seen(flows[k], f) <= iface[f]
  <2>1. Seen(flows[k], f) + FlowDue(k, f) = FlowOwes(k, f) * iface[f]
    BY <1>1 DEF Books, FlowBook
  <2>2. /\ FlowOwes(k, f) \in {0, 1} /\ iface[f] \in Nat
        /\ Seen(flows[k], f) \in Nat /\ FlowDue(k, f) \in Nat
    BY <1>1, OwesType, BookType
  <2> QED BY <2>1, <2>2
<1>5. ASSUME NEW a \in Addrs
      PROVE  /\ Seen(hosts[a], f) <= HostOwes(a, f) * iface[f]
             /\ Seen(hosts[a], f) >= HostOwes(a, f) * (iface[f] - One(f = frame))
  <2>1. Seen(hosts[a], f) + HostDue(a, f) = HostOwes(a, f) * iface[f]
    BY <1>1 DEF Books, HostBook
  <2>2. HostDue(a, f) <= HostOwes(a, f) * One(f = frame)
    BY <1>1, DueIsOneFrame
  <2>3. /\ HostOwes(a, f) \in {0, 1, 2} /\ iface[f] \in Nat
        /\ Seen(hosts[a], f) \in Nat /\ HostDue(a, f) \in Nat
    BY <1>1, OwesType, BookType
  <2> QED BY <1>2, <1>3, <2>1, <2>2, <2>3
<1>6. ASSUME NEW m \in Macs
      PROVE  Seen(macs[m], f) >= MacOwes(m, f) * (iface[f] - One(f = frame))
  <2>1. Seen(macs[m], f) + MacDue(m, f) = MacOwes(m, f) * iface[f]
    BY <1>1 DEF Books, MacBook
  <2>2. MacDue(m, f) <= MacOwes(m, f) * One(f = frame)
    BY <1>1, DueIsOneFrame
  <2>3. /\ MacOwes(m, f) \in {0, 1, 2} /\ iface[f] \in Nat
        /\ Seen(macs[m], f) \in Nat /\ MacDue(m, f) \in Nat
    BY <1>1, OwesType, BookType
  <2> QED BY <1>2, <1>3, <2>1, <2>2, <2>3
<1> QED BY <1>4, <1>5, <1>6

NoHostRead == \A a \in Addrs : ~HostRead(a)
NoMacRead == \A m \in Macs : ~MacRead(m)

(* When the flow table has been copied, what it showed is followed. *)
LEMMA FlowsLeadByOneFrame ==
  IInv /\ Grown /\ NoHostRead /\ NoMacRead => FollowsFlows(frame)
<1> SUFFICES ASSUME IInv, Grown, NoHostRead, NoMacRead PROVE FollowsFlows(frame)
  OBVIOUS
<1> SUFFICES ASSUME NEW f \in Frames, NEW k \in Flows
             PROVE  LET shown == Seen(view.flows[k], f) - One(f = frame)
                    IN  /\ \A a \in Addrs : Seen(hosts[a], f) >= HostOwes(a, f) * shown
                        /\ \A m \in Macs : Seen(macs[m], f) >= MacOwes(m, f) * shown
  BY DEF FollowsFlows, NoHostRead, NoMacRead
<1>1. ASSUME NEW owes \in {0, 1, 2}, NEW seen \in Nat, NEW counted \in Nat, NEW led \in Nat,
             NEW one \in {0, 1}, led <= counted, seen >= owes * (counted - one)
      PROVE  seen >= owes * (led - one)
  BY <1>1
<1>2. Seen(view.flows[k], f) <= iface[f]
  <2>1. /\ Seen(view.flows[k], f) <= Seen(flows[k], f)
        /\ Seen(flows[k], f) <= iface[f]
    BY FrameInHandIsLacking DEF Grown, FlowsGrow
  <2> QED BY <2>1, BookType, ShownType DEF IInv
<1>3. One(f = frame) \in {0, 1}
  BY DEF One
<1>4. Seen(view.flows[k], f) \in Nat /\ iface[f] \in Nat
  BY BookType, ShownType DEF IInv
<1>5. ASSUME NEW a \in Addrs
      PROVE  Seen(hosts[a], f) >= HostOwes(a, f) * (Seen(view.flows[k], f) - One(f = frame))
  <2>1. HostOwes(a, f) \in {0, 1, 2} /\ Seen(hosts[a], f) \in Nat
    BY OwesType, BookType DEF IInv
  <2>2. Seen(hosts[a], f) >= HostOwes(a, f) * (iface[f] - One(f = frame))
    BY FrameInHandIsLacking
  <2> QED BY <1>1, <1>2, <1>3, <1>4, <2>1, <2>2
<1>6. ASSUME NEW m \in Macs
      PROVE  Seen(macs[m], f) >= MacOwes(m, f) * (Seen(view.flows[k], f) - One(f = frame))
  <2>1. MacOwes(m, f) \in {0, 1, 2} /\ Seen(macs[m], f) \in Nat
    BY OwesType, BookType DEF IInv
  <2>2. Seen(macs[m], f) >= MacOwes(m, f) * (iface[f] - One(f = frame))
    BY FrameInHandIsLacking
  <2> QED BY <1>1, <1>2, <1>3, <1>4, <2>1, <2>2
<1> QED BY <1>5, <1>6

(* When the host table has been copied, so is what it showed. *)
LEMMA HostsLeadByOneFrame ==
  IInv /\ Grown /\ NoMacRead => FollowsHosts(frame)
<1> SUFFICES ASSUME IInv, Grown, NoMacRead PROVE FollowsHosts(frame)
  OBVIOUS
<1> SUFFICES ASSUME NEW f \in Frames, NEW a \in Addrs, NEW m \in Macs
             PROVE  HostOwes(a, f) * Seen(macs[m], f)
                      >= MacOwes(m, f) * (Seen(view.hosts[a], f) - HostOwes(a, f) * One(f = frame))
  BY DEF FollowsHosts, NoMacRead
<1>1. ASSUME NEW h \in {0, 1, 2}, NEW owes \in {0, 1, 2}, NEW seen \in Nat, NEW counted \in Nat,
             NEW led \in Nat, NEW one \in {0, 1}, led <= h * counted,
             seen >= owes * (counted - one)
      PROVE  h * seen >= owes * (led - h * one)
  <2>1. owes * (led - h * one) <= owes * (h * (counted - one))
    BY <1>1
  <2>2. h * seen >= h * (owes * (counted - one))
    BY <1>1
  <2>3. h * (owes * (counted - one)) = owes * (h * (counted - one))
    BY <1>1
  <2>4. /\ h * seen \in Int /\ h * (owes * (counted - one)) \in Int
        /\ owes * (led - h * one) \in Int
    BY <1>1
  <2> QED BY <2>1, <2>2, <2>3, <2>4
<1>2. Seen(view.hosts[a], f) <= HostOwes(a, f) * iface[f]
  <2>1. /\ Seen(view.hosts[a], f) <= Seen(hosts[a], f)
        /\ Seen(hosts[a], f) <= HostOwes(a, f) * iface[f]
    BY FrameInHandIsLacking DEF Grown, HostsGrow
  <2>2. HostOwes(a, f) * iface[f] \in Int
    BY OwesType, BookType DEF IInv
  <2> QED BY <2>1, <2>2, BookType, ShownType DEF IInv
<1>3. Seen(macs[m], f) >= MacOwes(m, f) * (iface[f] - One(f = frame))
  BY FrameInHandIsLacking
<1>4. One(f = frame) \in {0, 1}
  BY DEF One
<1>5. /\ Seen(view.hosts[a], f) \in Nat /\ iface[f] \in Nat /\ Seen(macs[m], f) \in Nat
      /\ HostOwes(a, f) \in {0, 1, 2} /\ MacOwes(m, f) \in {0, 1, 2}
  BY OwesType, BookType, ShownType DEF IInv
<1> QED BY <1>1, <1>2, <1>3, <1>4, <1>5

(* And so in the state after a step. *)
LEMMA LeadsByOneFrameNext ==
  /\ (IInv /\ Grown /\ NoHostRead /\ NoMacRead => FollowsFlows(frame))'
  /\ (IInv /\ Grown /\ NoMacRead => FollowsHosts(frame))'
BY FlowsLeadByOneFrame, HostsLeadByOneFrame, PTL

(* ingest() takes nothing from the tables copied later. *)
LEMMA IngestKeepsUp ==
  ASSUME TypeOK, Progress, KeepsUp, Ingest
  PROVE  KeepsUp'
<1>1. UNCHANGED <<reading, shard, view>>
  BY DEF Ingest, IngestIface, IngestFlow, IngestHostSrc, IngestHostDst, IngestMacSrc,
         IngestMacDst, IngestRecent, reader
<1>2. /\ \A a \in Addrs : HostRead(a)' = HostRead(a)
      /\ \A m \in Macs : MacRead(m)' = MacRead(m)
  BY <1>1 DEF HostRead, MacRead
<1>3. ASSUME NEW missing \in Frames \cup {Absent}, FollowsFlows(missing)
      PROVE  FollowsFlows(missing)'
  <2> SUFFICES ASSUME NEW f \in Frames, NEW k \in Flows
               PROVE  LET shown == Seen(view.flows[k], f) - One(f = missing)
                      IN  /\ \A a \in Addrs :
                               /\ Seen(hosts'[a], f) >= HostOwes(a, f) * shown
                               /\ HostRead(a) => Seen(view.hosts[a], f) >= HostOwes(a, f) * shown
                          /\ \A m \in Macs :
                               /\ Seen(macs'[m], f) >= MacOwes(m, f) * shown
                               /\ MacRead(m) => Seen(view.macs[m], f) >= MacOwes(m, f) * shown
    BY <1>1, <1>2 DEF FollowsFlows
  <2> DEFINE shown == Seen(view.flows[k], f) - One(f = missing)
  <2>1. shown \in Int
    BY ShownType DEF One
  <2>2. /\ \A a \in Addrs :
             /\ Seen(hosts[a], f) >= HostOwes(a, f) * shown
             /\ HostRead(a) => Seen(view.hosts[a], f) >= HostOwes(a, f) * shown
        /\ \A m \in Macs :
             /\ Seen(macs[m], f) >= MacOwes(m, f) * shown
             /\ MacRead(m) => Seen(view.macs[m], f) >= MacOwes(m, f) * shown
    BY <1>3 DEF FollowsFlows
  <2> HIDE DEF shown
  <2>3. ASSUME NEW a \in Addrs
        PROVE  Seen(hosts'[a], f) >= HostOwes(a, f) * shown
    <3>1. HostOwes(a, f) * shown \in Int
      BY <2>1, OwesType
    <3>2. /\ Seen(hosts'[a], f) >= Seen(hosts[a], f) /\ Seen(hosts'[a], f) \in Nat
          /\ Seen(hosts[a], f) \in Nat /\ Seen(hosts[a], f) >= HostOwes(a, f) * shown
      BY <2>2, IngestGrows, BookType
    <3> QED BY <3>1, <3>2
  <2>4. ASSUME NEW m \in Macs
        PROVE  Seen(macs'[m], f) >= MacOwes(m, f) * shown
    <3>1. MacOwes(m, f) * shown \in Int
      BY <2>1, OwesType
    <3>2. /\ Seen(macs'[m], f) >= Seen(macs[m], f) /\ Seen(macs'[m], f) \in Nat
          /\ Seen(macs[m], f) \in Nat /\ Seen(macs[m], f) >= MacOwes(m, f) * shown
      BY <2>2, IngestGrows, BookType
    <3> QED BY <3>1, <3>2
  <2> QED BY <2>2, <2>3, <2>4 DEF shown
<1>4. ASSUME NEW missing \in Frames \cup {Absent}, FollowsHosts(missing)
      PROVE  FollowsHosts(missing)'
  <2> SUFFICES ASSUME NEW f \in Frames, NEW a \in Addrs, NEW m \in Macs
               PROVE  LET shown == Seen(view.hosts[a], f) - HostOwes(a, f) * One(f = missing)
                      IN  /\ HostOwes(a, f) * Seen(macs'[m], f) >= MacOwes(m, f) * shown
                          /\ MacRead(m) =>
                               HostOwes(a, f) * Seen(view.macs[m], f) >= MacOwes(m, f) * shown
    BY <1>1, <1>2 DEF FollowsHosts
  <2> DEFINE shown == Seen(view.hosts[a], f) - HostOwes(a, f) * One(f = missing)
  <2>1. HostOwes(a, f) \in {0, 1, 2} /\ MacOwes(m, f) \in {0, 1, 2}
    BY OwesType
  <2>2. shown \in Int
    BY <2>1, ShownType DEF One
  <2>3. /\ HostOwes(a, f) * Seen(macs[m], f) >= MacOwes(m, f) * shown
        /\ MacRead(m) => HostOwes(a, f) * Seen(view.macs[m], f) >= MacOwes(m, f) * shown
    BY <1>4 DEF FollowsHosts
  <2> HIDE DEF shown
  <2>4. /\ Seen(macs'[m], f) >= Seen(macs[m], f) /\ Seen(macs'[m], f) \in Nat
        /\ Seen(macs[m], f) \in Nat
    BY IngestGrows, BookType
  <2>5. HostOwes(a, f) * Seen(macs'[m], f) >= MacOwes(m, f) * shown
    BY <2>1, <2>2, <2>3, <2>4
  <2> QED BY <2>3, <2>5 DEF shown
<1> QED BY <1>1, <1>3, <1>4 DEF KeepsUp

(* Copying a shard takes nothing from what has been copied before, and adds
   what the table has. *)
LEMMA CopyKeepsUp ==
  ASSUME TypeOK, SnapHosts \/ SnapMacs, NEW missing \in Frames \cup {Absent}
  PROVE  /\ FollowsFlows(missing) => FollowsFlows(missing)'
         /\ SnapMacs /\ FollowsHosts(missing) => FollowsHosts(missing)'
<1>0. UNCHANGED tables
  BY SnapshotType DEF TakeSnapshot
<1>1. ASSUME FollowsFlows(missing), NEW f \in Frames, NEW k \in Flows
      PROVE  LET shown == Seen(view'.flows[k], f) - One(f = missing)
             IN  /\ \A a \in Addrs :
                      /\ Seen(hosts'[a], f) >= HostOwes(a, f) * shown
                      /\ HostRead(a)' => Seen(view'.hosts[a], f) >= HostOwes(a, f) * shown
                 /\ \A m \in Macs :
                      /\ Seen(macs'[m], f) >= MacOwes(m, f) * shown
                      /\ MacRead(m)' => Seen(view'.macs[m], f) >= MacOwes(m, f) * shown
  <2> DEFINE shown == Seen(view.flows[k], f) - One(f = missing)
  <2>1. /\ \A a \in Addrs :
             /\ Seen(hosts[a], f) >= HostOwes(a, f) * shown
             /\ HostRead(a) => Seen(view.hosts[a], f) >= HostOwes(a, f) * shown
        /\ \A m \in Macs :
             /\ Seen(macs[m], f) >= MacOwes(m, f) * shown
             /\ MacRead(m) => Seen(view.macs[m], f) >= MacOwes(m, f) * shown
    BY <1>1 DEF FollowsFlows
  <2>2. view'.flows = view.flows
    BY CopyEffect
  <2> HIDE DEF shown
  <2>3. CASE SnapHosts
    BY <1>0, <2>1, <2>3, CopyEffect DEF tables, shown
  <2>4. CASE SnapMacs
    BY <1>0, <2>1, <2>4, CopyEffect DEF tables, shown
  <2> QED BY <2>3, <2>4
<1>2. ASSUME SnapMacs, FollowsHosts(missing), NEW f \in Frames, NEW a \in Addrs, NEW m \in Macs
      PROVE  LET shown == Seen(view'.hosts[a], f) - HostOwes(a, f) * One(f = missing)
             IN  /\ HostOwes(a, f) * Seen(macs'[m], f) >= MacOwes(m, f) * shown
                 /\ MacRead(m)' =>
                      HostOwes(a, f) * Seen(view'.macs[m], f) >= MacOwes(m, f) * shown
  <2> DEFINE shown == Seen(view.hosts[a], f) - HostOwes(a, f) * One(f = missing)
  <2>1. /\ HostOwes(a, f) * Seen(macs[m], f) >= MacOwes(m, f) * shown
        /\ MacRead(m) => HostOwes(a, f) * Seen(view.macs[m], f) >= MacOwes(m, f) * shown
    BY <1>2 DEF FollowsHosts
  <2>2. /\ view'.hosts = view.hosts
        /\ view'.macs[m] = IF MacShard[m] = shard THEN macs[m] ELSE view.macs[m]
        /\ MacRead(m)' => MacShard[m] = shard \/ MacRead(m)
    BY <1>2, CopyEffect
  <2> QED BY <1>0, <2>1, <2>2 DEF tables
<1>3. FollowsFlows(missing) => FollowsFlows(missing)'
  BY <1>1 DEF FollowsFlows
<1>4. SnapMacs /\ FollowsHosts(missing) => FollowsHosts(missing)'
  BY <1>2 DEF FollowsHosts
<1> QED BY <1>3, <1>4

LEMMA SnapshotKeepsUp ==
  ASSUME IInv, IInv', Grown', KeepsUp, LaterTablesKeepUp, TakeSnapshot
  PROVE  KeepsUp' /\ LaterTablesKeepUp'
<1>0. TypeOK /\ UNCHANGED <<tables, ingesting>>
  BY SnapshotType DEF IInv
<1>1. frame' \in Frames \cup {Absent}
  BY DEF IInv, TypeOK
<1>2. CASE SnapIface
  BY <1>2 DEF SnapIface, KeepsUp, LaterTablesKeepUp
<1>3. CASE SnapFlows
  <2>1. snap' = snap /\ reading' \in {"flows", "hosts"}
    BY <1>3 DEF SnapFlows, NextShard
  <2>2. NoHostRead' /\ NoMacRead'
    BY <1>0, <1>3, CopyEffect DEF NoHostRead, NoMacRead
  <2>3. FollowsFlows(frame)'
    BY <2>2, LeadsByOneFrameNext
  <2> QED BY <1>1, <2>1, <2>3 DEF KeepsUp, LaterTablesKeepUp
<1>4. CASE SnapHosts
  <2>1. snap' = snap /\ reading = "hosts" /\ reading' \in {"hosts", "macs"}
    BY <1>4 DEF SnapHosts, NextShard
  <2>2. PICK missing \in Frames \cup {Absent} : FollowsFlows(missing)
    BY <2>1 DEF KeepsUp
  <2>3. FollowsFlows(missing)'
    BY <1>0, <1>4, <2>2, CopyKeepsUp
  <2>4. NoMacRead'
    BY <1>0, <1>4, CopyEffect DEF NoMacRead
  <2>5. FollowsHosts(frame)'
    BY <2>4, LeadsByOneFrameNext
  <2> QED BY <1>1, <2>1, <2>3, <2>5 DEF KeepsUp, LaterTablesKeepUp
<1>5. CASE SnapMacs
  <2>1. snap' = snap /\ reading = "macs"
    BY <1>5 DEF SnapMacs
  <2>2. PICK flow \in Frames \cup {Absent} : FollowsFlows(flow)
    BY <2>1 DEF KeepsUp
  <2>3. PICK host \in Frames \cup {Absent} : FollowsHosts(host)
    BY <2>1 DEF KeepsUp
  <2>4. FollowsFlows(flow)' /\ FollowsHosts(host)'
    BY <1>0, <1>5, <2>2, <2>3, CopyKeepsUp
  <2> QED BY <2>1, <2>4 DEF KeepsUp, LaterTablesKeepUp
<1>6. CASE SnapRecent
  <2>1. /\ snap'.flows = view.flows /\ snap'.hosts = view.hosts /\ snap'.macs = view.macs
        /\ reading = "recent" /\ reading' = "iface"
    BY <1>0, <1>6 DEF SnapRecent, TypeOK, Snapshot
  <2>2. (\A a \in Addrs : HostRead(a)) /\ (\A m \in Macs : MacRead(m))
    BY <2>1 DEF HostRead, MacRead
  <2>3. PICK flow \in Frames \cup {Absent} : FollowsFlows(flow)
    BY <2>1 DEF KeepsUp
  <2>4. PICK host \in Frames \cup {Absent} : FollowsHosts(host)
    BY <2>1 DEF KeepsUp
  <2>5. FlowsAreFollowed(snap', flow)
    BY <2>1, <2>2, <2>3 DEF FollowsFlows, FlowsAreFollowed
  <2>6. HostsAreFollowed(snap', host)
    BY <2>1, <2>2, <2>4 DEF FollowsHosts, HostsAreFollowed
  <2> QED BY <2>1, <2>5, <2>6 DEF KeepsUp, LaterTablesKeepUp
<1> QED BY <1>2, <1>3, <1>4, <1>5, <1>6 DEF TakeSnapshot

(***************************************************************************)
(* In a finished snapshot the hosts and the hardware addresses have seen   *)
(* every frame its flow rows show, but for one passage of one frame, the   *)
(* same for all rows, and so the hardware addresses every frame its host   *)
(* rows show: for any frames and shards (aggregate.rs ingest, snapshot).   *)
(***************************************************************************)
THEOREM LaterTablesLagByOneFrame == Spec => []LaterTablesKeepUp
<1>1. Init => KeepsUp /\ LaterTablesKeepUp
  <2> SUFFICES ASSUME Init PROVE KeepsUp /\ LaterTablesKeepUp
    OBVIOUS
  <2>1. KeepsUp
    BY DEF Init, KeepsUp
  <2>2. ASSUME NEW f \in Frames
        PROVE  /\ One(f = Absent) = 0
               /\ \A k \in Flows : Seen(snap.flows[k], f) = 0
               /\ \A a \in Addrs : Seen(snap.hosts[a], f) = 0
               /\ \A m \in Macs : Seen(snap.macs[m], f) = 0
    BY AbsentAssumption DEF Init, EmptySnapshot, Seen, One
  <2>3. FlowsAreFollowed(snap, Absent)
    BY <2>2, OwesType DEF FlowsAreFollowed
  <2>4. HostsAreFollowed(snap, Absent)
    BY <2>2, OwesType DEF HostsAreFollowed
  <2> QED BY <2>1, <2>3, <2>4 DEF LaterTablesKeepUp
<1>2. IInv /\ IInv' /\ Grown' /\ KeepsUp /\ LaterTablesKeepUp /\ [Next]_vars
        => (KeepsUp /\ LaterTablesKeepUp)'
  <2> SUFFICES ASSUME IInv, IInv', Grown', KeepsUp, LaterTablesKeepUp, [Next]_vars
               PROVE  KeepsUp' /\ LaterTablesKeepUp'
    OBVIOUS
  <2>1. CASE Ingest
    <3>1. snap' = snap
      BY <2>1 DEF Ingest, IngestIface, IngestFlow, IngestHostSrc, IngestHostDst, IngestMacSrc,
                  IngestMacDst, IngestRecent, reader
    <3> QED BY <2>1, <3>1, IngestKeepsUp DEF IInv, LaterTablesKeepUp
  <2>2. CASE TakeSnapshot
    BY <2>2, SnapshotKeepsUp
  <2>3. CASE UNCHANGED vars
    BY <2>3 DEF vars, tables, ingesting, reader, KeepsUp, LaterTablesKeepUp, FollowsFlows,
                FollowsHosts, HostRead, MacRead
  <2> QED BY <2>1, <2>2, <2>3 DEF Next
<1> QED BY <1>1, <1>2, IInvHolds, GrownHolds, PTL DEF Spec
=============================================================================
