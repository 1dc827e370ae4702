----------------------------- MODULE Aggregator -----------------------------
(***************************************************************************)
(* The shared tables of nicwatch (nicwatch/src/aggregate.rs, Aggregator):  *)
(* the ingest task runs ingest() frame by frame while the snapshot task    *)
(* runs snapshot().  Neither holds a lock across the whole call: ingest()  *)
(* takes the interface mutex, then one DashMap shard per table update,     *)
(* then the mutex of the recent ring; snapshot() copies the interface      *)
(* view, then each table one shard at a time, then the ring.  Every locked *)
(* section is one action here, and the two calls interleave between them.  *)
(*                                                                         *)
(* An entry's counters (packets, bytes by direction, flag bits, first and  *)
(* last stamp) are folds of the frames it observed, and so are all         *)
(* counters of the interface view except the two rate windows (module      *)
(* SlidingWindow): they are represented by the bag of frames observed.     *)
(* The order of the sorted vectors of a snapshot is determined by the      *)
(* entries, up to ties, and is left to the module that displays them.      *)
(***************************************************************************)
EXTENDS Integers, Sequences, Functions

CONSTANTS
  Frames,     \* the frames that can arrive: records [dir, flow, macs, app]
  Flows,      \* 5-tuples: records [proto, src, dst], endpoints <<address, port>>
  Addrs,      \* IP addresses, ordered as numbers
  Macs,       \* hardware addresses
  NoFlow,     \* the flow of a frame without ports (ICMP, ...)
  NoMacs,     \* the address pair of a frame without an Ethernet header
  Absent,     \* a key without an entry
  Shards,     \* number of shards of a DashMap
  FlowShard, AddrShard, MacShard, \* the shard a key of each table hashes to
  RecentCap,  \* --recent
  MaxFrames   \* bound of the model: number of frames ingested

(* (address, port) pairs compare lexicographically. *)
Before(a, b) == a[1] < b[1] \/ (a[1] = b[1] /\ a[2] <= b[2])

Reverse(k) == [k EXCEPT !.src = k.dst, !.dst = k.src]

(* Mutant: the key is used as it comes. *)
CanonicalAsItComes(k) == k

(* FlowKey::canonical. *)
Canonical(k) == IF Before(k.src, k.dst) THEN k ELSE Reverse(k)

ASSUME AggregatorAssumption ==
  /\ Addrs \subseteq Nat
  /\ NoFlow \notin Flows
  /\ Flows \subseteq [proto : STRING, src : Addrs \X Nat, dst : Addrs \X Nat]
  /\ \A k \in Flows : Reverse(k) \in Flows
  /\ NoMacs \notin Macs \X Macs
  /\ Frames \subseteq [dir : {"Rx", "Tx"}, flow : Flows \cup {NoFlow},
                       macs : (Macs \X Macs) \cup {NoMacs}, app : STRING]
  /\ Shards \in Nat \ {0}
  /\ FlowShard \in [Flows -> 0 .. Shards - 1]
  /\ AddrShard \in [Addrs -> 0 .. Shards - 1]
  /\ MacShard \in [Macs -> 0 .. Shards - 1]
  /\ RecentCap \in Nat
  /\ MaxFrames \in Nat

VARIABLES
  iface,    \* the interface window: how often each frame was counted
  flows,    \* the flow table
  hosts,    \* the host table
  macs,     \* the hardware address table
  recent,   \* the ring of the Live tab
  frame,    \* the frame ingest() is working on
  step,     \* the next statement of ingest()
  reading,  \* the next statement of snapshot()
  shard,    \* the shard the table iterator of snapshot() is at
  view,     \* the snapshot under construction
  snap      \* the last finished snapshot

tables == <<iface, flows, hosts, macs, recent>>
ingesting == <<frame, step>>
reader == <<reading, shard, view, snap>>
vars == <<tables, ingesting, reader>>

-----------------------------------------------------------------------------
Bag == [Frames -> Nat]
NoFrames == [f \in Frames |-> 0]
FlowEntry == [seen : Bag, dir : {"Rx", "Tx"}, app : STRING]
HostEntry == [seen : Bag, mac : Macs]

(* An absent row is no row. *)
ASSUME AbsentAssumption ==
  Absent \notin FlowEntry /\ Absent \notin HostEntry /\ Absent \notin Frames

Table(keys, entry) == [keys -> entry \cup {Absent}]

Snapshot == [iface : Bag, flows : Table(Flows, FlowEntry), hosts : Table(Addrs, HostEntry),
             macs : Table(Macs, HostEntry), recent : Seq(Frames)]

EmptySnapshot ==
  [iface |-> NoFrames, flows |-> [k \in Flows |-> Absent], hosts |-> [a \in Addrs |-> Absent],
   macs |-> [m \in Macs |-> Absent], recent |-> << >>]

(* "--recent bounds the Live tab's ring" (README): with a capacity of 0 it does not. *)
TypeOK ==
  /\ iface \in Bag
  /\ flows \in Table(Flows, FlowEntry)
  /\ hosts \in Table(Addrs, HostEntry)
  /\ macs \in Table(Macs, HostEntry)
  /\ recent \in Seq(Frames) /\ (RecentCap > 0 => Len(recent) <= RecentCap)
  /\ frame \in Frames \cup {Absent}
  /\ step \in {"iface", "flow", "hostSrc", "hostDst", "macSrc", "macDst", "recent"}
  /\ step # "iface" => frame \in Frames
  /\ reading \in {"iface", "flows", "hosts", "macs", "recent"}
  /\ shard \in 0 .. Shards - 1
  /\ view \in Snapshot
  /\ snap \in Snapshot

(* How often frame f was observed by entry e, and so far in all. *)
Seen(e, f) == IF e = Absent THEN 0 ELSE e.seen[f]
Taken == FoldFunction(+, 0, iface)

-----------------------------------------------------------------------------
(* Mutant: the last hint wins even when it is unknown. *)
ObserveFlowLastHint(e, f) ==
  IF e = Absent
    THEN [seen |-> [NoFrames EXCEPT ![f] = 1], dir |-> f.dir, app |-> f.app]
    ELSE [e EXCEPT !.seen[f] = @ + 1, !.app = f.app]

(* Mutant: insert() instead of entry().or_insert_with(). *)
ObserveFlowAfresh(e, f) == [seen |-> [NoFrames EXCEPT ![f] = 1], dir |-> f.dir, app |-> f.app]

(* FlowEntry::observe.  The direction is the first one seen, the application
   the last one known. *)
ObserveFlow(e, f) ==
  IF e = Absent
    THEN [seen |-> [NoFrames EXCEPT ![f] = 1], dir |-> f.dir, app |-> f.app]
    ELSE [e EXCEPT !.seen[f] = @ + 1, !.app = IF f.app = "Unknown" THEN @ ELSE f.app]

(* HostEntry::observe, with the address learnt first. *)
ObserveHost(e, f, mac) ==
  IF e = Absent
    THEN [seen |-> [NoFrames EXCEPT ![f] = 1], mac |-> mac]
    ELSE [e EXCEPT !.seen[f] = @ + 1]

-----------------------------------------------------------------------------
(* ingest(frame), one action per locked section. *)
Goto(s) == step' = s

IngestIface(f) ==
  /\ step = "iface"
  /\ Taken < MaxFrames
  /\ frame' = f
  /\ iface' = [iface EXCEPT ![f] = @ + 1]
  /\ Goto(IF f.flow # NoFlow THEN "flow" ELSE IF f.macs # NoMacs THEN "macSrc" ELSE "recent")
  /\ UNCHANGED <<flows, hosts, macs, recent, reader>>

IngestFlow ==
  /\ step = "flow"
  /\ LET k == Canonical(frame.flow)
     IN  flows' = [flows EXCEPT ![k] = ObserveFlow(@, frame)]
  /\ Goto(IF frame.macs # NoMacs THEN "hostSrc" ELSE "recent")
  /\ UNCHANGED <<iface, hosts, macs, recent, frame, reader>>

IngestHostSrc ==
  /\ step = "hostSrc"
  /\ LET a == frame.flow.src[1]
     IN  hosts' = [hosts EXCEPT ![a] = ObserveHost(@, frame, frame.macs[1])]
  /\ Goto("hostDst")
  /\ UNCHANGED <<iface, flows, macs, recent, frame, reader>>

(* Mutant: the destination's row is keyed by the source. *)
IngestHostDstMiskeyed ==
  /\ step = "hostDst"
  /\ LET a == frame.flow.src[1]
     IN  hosts' = [hosts EXCEPT ![a] = ObserveHost(@, frame, frame.macs[2])]
  /\ Goto("macSrc")
  /\ UNCHANGED <<iface, flows, macs, recent, frame, reader>>

IngestHostDst ==
  /\ step = "hostDst"
  /\ LET a == frame.flow.dst[1]
     IN  hosts' = [hosts EXCEPT ![a] = ObserveHost(@, frame, frame.macs[2])]
  /\ Goto("macSrc")
  /\ UNCHANGED <<iface, flows, macs, recent, frame, reader>>

IngestMacSrc ==
  /\ step = "macSrc"
  /\ LET m == frame.macs[1]
     IN  macs' = [macs EXCEPT ![m] = ObserveHost(@, frame, m)]
  /\ Goto("macDst")
  /\ UNCHANGED <<iface, flows, hosts, recent, frame, reader>>

IngestMacDst ==
  /\ step = "macDst"
  /\ LET m == frame.macs[2]
     IN  macs' = [macs EXCEPT ![m] = ObserveHost(@, frame, m)]
  /\ Goto("recent")
  /\ UNCHANGED <<iface, flows, hosts, recent, frame, reader>>

(* Mutant: room is made one frame too late. *)
PushRecentLate(q, f) ==
  LET kept == IF Len(q) = RecentCap + 1 THEN Tail(q) ELSE q
  IN  Append(kept, f)

(* Makes room only when the length is exactly the capacity. *)
PushRecent(q, f) ==
  LET kept == IF Len(q) = RecentCap /\ q # << >> THEN Tail(q) ELSE q
  IN  Append(kept, f)

IngestRecent ==
  /\ step = "recent"
  /\ recent' = PushRecent(recent, frame)
  /\ frame' = Absent
  /\ Goto("iface")
  /\ UNCHANGED <<iface, flows, hosts, macs, reader>>

-----------------------------------------------------------------------------
(* snapshot(), one action per locked section: the interface mutex, each shard
   of each table, the ring. *)
SnapIface ==
  /\ reading = "iface"
  /\ view' = [EmptySnapshot EXCEPT !.iface = iface]
  /\ reading' = "flows"
  /\ shard' = 0
  /\ UNCHANGED <<tables, ingesting, snap>>

(* Copies the entries of the current shard of a table. *)
CopyShard(copy, table, hash) ==
  [k \in DOMAIN hash |-> IF hash[k] = shard THEN table[k] ELSE copy[k]]

NextShard(next) ==
  IF shard = Shards - 1 THEN reading' = next /\ shard' = 0
                        ELSE UNCHANGED reading /\ shard' = shard + 1

SnapFlows ==
  /\ reading = "flows"
  /\ view' = [view EXCEPT !.flows = CopyShard(@, flows, FlowShard)]
  /\ NextShard("hosts")
  /\ UNCHANGED <<tables, ingesting, snap>>

(* Mutant: the iteration ends with the first shard. *)
SnapHostsFirstShard ==
  /\ reading = "hosts"
  /\ view' = [view EXCEPT !.hosts = CopyShard(@, hosts, AddrShard)]
  /\ reading' = "macs" /\ shard' = 0
  /\ UNCHANGED <<tables, ingesting, snap>>

SnapHosts ==
  /\ reading = "hosts"
  /\ view' = [view EXCEPT !.hosts = CopyShard(@, hosts, AddrShard)]
  /\ NextShard("macs")
  /\ UNCHANGED <<tables, ingesting, snap>>

SnapMacs ==
  /\ reading = "macs"
  /\ view' = [view EXCEPT !.macs = CopyShard(@, macs, MacShard)]
  /\ NextShard("recent")
  /\ UNCHANGED <<tables, ingesting, snap>>

(* Mutant: the interface view is copied last. *)
SnapRecentIfaceLast ==
  /\ reading = "recent"
  /\ snap' = [view EXCEPT !.recent = recent, !.iface = iface]
  /\ view' = EmptySnapshot
  /\ reading' = "iface"
  /\ UNCHANGED <<tables, ingesting, shard>>

SnapRecent ==
  /\ reading = "recent"
  /\ snap' = [view EXCEPT !.recent = recent]
  /\ view' = EmptySnapshot
  /\ reading' = "iface"
  /\ UNCHANGED <<tables, ingesting, shard>>

-----------------------------------------------------------------------------
Init ==
  /\ iface = NoFrames
  /\ flows = EmptySnapshot.flows
  /\ hosts = EmptySnapshot.hosts
  /\ macs = EmptySnapshot.macs
  /\ recent = << >>
  /\ frame = Absent
  /\ step = "iface"
  /\ reading = "iface"
  /\ shard = 0
  /\ view = EmptySnapshot
  /\ snap = EmptySnapshot

Ingest ==
  \/ \E f \in Frames : IngestIface(f)
  \/ IngestFlow
  \/ IngestHostSrc
  \/ IngestHostDst
  \/ IngestMacSrc
  \/ IngestMacDst
  \/ IngestRecent

TakeSnapshot == SnapIface \/ SnapFlows \/ SnapHosts \/ SnapMacs \/ SnapRecent

Next == Ingest \/ TakeSnapshot

Spec == Init /\ [][Next]_vars

-----------------------------------------------------------------------------
(* What the tables owe a frame once ingest() is through with it: how often a
   flow, a host or a hardware address has to have observed it. *)
One(b) == IF b THEN 1 ELSE 0
FlowOwes(k, f) == One(f.flow # NoFlow /\ Canonical(f.flow) = k)
HostOwes(a, f) ==
  IF f.flow = NoFlow \/ f.macs = NoMacs THEN 0
  ELSE One(f.flow.src[1] = a) + One(f.flow.dst[1] = a)
MacOwes(m, f) ==
  IF f.macs = NoMacs THEN 0 ELSE One(f.macs[1] = m) + One(f.macs[2] = m)

(***************************************************************************)
(* No frame is lost or counted twice by a table: when ingest() is between  *)
(* frames, every flow, host and hardware address has observed exactly the  *)
(* frames the interface view counted that concern it (aggregate.rs         *)
(* ingest).                                                                *)
(***************************************************************************)
BooksBalance ==
  step = "iface" =>
    \A f \in Frames :
      /\ \A k \in Flows : Seen(flows[k], f) = FlowOwes(k, f) * iface[f]
      /\ \A a \in Addrs : Seen(hosts[a], f) = HostOwes(a, f) * iface[f]
      /\ \A m \in Macs : Seen(macs[m], f) = MacOwes(m, f) * iface[f]

(***************************************************************************)
(* A snapshot is not an instant, but its tables never lag the interface    *)
(* view it shows by more than the one frame that was being ingested when   *)
(* the view was copied: what each table is short of is at most one frame's *)
(* worth, and of the same frame in all three (aggregate.rs snapshot reads  *)
(* the interface first, ingest writes it first).                           *)
(***************************************************************************)
LagsByAtMost(s, missing) ==
  \A f \in Frames :
    LET counted == s.iface[f] - One(f = missing)
    IN  /\ \A k \in Flows : Seen(s.flows[k], f) >= FlowOwes(k, f) * counted
        /\ \A a \in Addrs : Seen(s.hosts[a], f) >= HostOwes(a, f) * counted
        /\ \A m \in Macs : Seen(s.macs[m], f) >= MacOwes(m, f) * counted

TornByOneFrame == \E missing \in Frames \cup {Absent} : LagsByAtMost(snap, missing)

(***************************************************************************)
(* Nor does a table read later lag one read earlier by more than a frame:  *)
(* the hosts and the hardware addresses of a snapshot have seen every      *)
(* frame its flow rows show, but for one passage of one frame, the same    *)
(* for every row; and so its hardware addresses every frame its host rows  *)
(* show (aggregate.rs: both calls go through the tables in one order).     *)
(***************************************************************************)
FlowsAreFollowed(s, missing) ==
  \A f \in Frames, k \in Flows :
    LET shown == Seen(s.flows[k], f) - One(f = missing)
    IN  /\ \A a \in Addrs : Seen(s.hosts[a], f) >= HostOwes(a, f) * shown
        /\ \A m \in Macs : Seen(s.macs[m], f) >= MacOwes(m, f) * shown

HostsAreFollowed(s, missing) ==
  \A f \in Frames, a \in Addrs, m \in Macs :
    LET shown == Seen(s.hosts[a], f) - HostOwes(a, f) * One(f = missing)
    IN  HostOwes(a, f) * Seen(s.macs[m], f) >= MacOwes(m, f) * shown

LaterTablesKeepUp ==
  /\ \E missing \in Frames \cup {Absent} : FlowsAreFollowed(snap, missing)
  /\ \E missing \in Frames \cup {Absent} : HostsAreFollowed(snap, missing)

(***************************************************************************)
(* The next snapshot shows at least what this one showed: no row of the    *)
(* user interface loses traffic or disappears, although every snapshot is  *)
(* put together from several moments.                                      *)
(***************************************************************************)
NothingIsTakenBack ==
  [][\A f \in Frames :
       /\ snap'.iface[f] >= snap.iface[f]
       /\ \A k \in Flows : Seen(snap'.flows[k], f) >= Seen(snap.flows[k], f)
       /\ \A a \in Addrs : Seen(snap'.hosts[a], f) >= Seen(snap.hosts[a], f)
       /\ \A m \in Macs : Seen(snap'.macs[m], f) >= Seen(snap.macs[m], f)]_vars

(***************************************************************************)
(* A conversation has one row: frames of the two directions never end up   *)
(* under two keys (domain.rs FlowKey::canonical).                          *)
(***************************************************************************)
OneRowPerConversation ==
  \A k \in Flows :
    flows[k] # Absent /\ flows[Reverse(k)] # Absent => k = Reverse(k)

(* What becomes of a row: it stays, with its first direction or its hardware
   address, and a known application is not forgotten. *)
FlowKept(old, new) ==
  old # Absent =>
    new # Absent /\ new.dir = old.dir /\ (old.app # "Unknown" => new.app # "Unknown")

HostKept(old, new) == old # Absent => new # Absent /\ new.mac = old.mac

(***************************************************************************)
(* What a row says of itself is settled, in the tables and from one        *)
(* snapshot to the next: its first direction and a host's hardware address *)
(* never change, a known application is never forgotten, and no row        *)
(* disappears (aggregate.rs observe, snapshot).                            *)
(***************************************************************************)
RowsKeepTheirIdentity ==
  [][/\ \A k \in Flows : /\ FlowKept(flows[k], flows'[k])
                         /\ FlowKept(snap.flows[k], snap'.flows[k])
     /\ \A a \in Addrs : /\ HostKept(hosts[a], hosts'[a])
                         /\ HostKept(snap.hosts[a], snap'.hosts[a])
     /\ \A m \in Macs : /\ HostKept(macs[m], macs'[m])
                        /\ HostKept(snap.macs[m], snap'.macs[m])]_vars

=============================================================================
