# Specifications of Beastinator_syssec

The repository holds two programs and an ancestor of one of them:

* **nicwatch** (`src/nicwatch/src/`), a terminal monitor of a network interface: a
  capture thread, a bounded channel, two asynchronous tasks, shared concurrent tables
  and a terminal user interface;
* **syssec** (`src/src/rust/src/`), an auditor of a FreeBSD system: sixteen
  checks run one after the other, which add graded results to a list from which the
  summary, the HTML report and the exit code are made;
* the **C original of syssec** (`src/src/c/`), from which the Rust version was ported.

This directory holds TLA+ models of them, configurations that model-check the models
with TLC on small instances, and theorems about them with proofs checked by TLAPS.
File names below are short: `aggregate.rs` is `src/nicwatch/src/aggregate.rs`.
`PROJECT.json` says for every definition which lines it models.

## Inventory

### nicwatch

| Part | State | Operations | Talks to |
|---|---|---|---|
| capture thread (`capture/source.rs`, `linux.rs`, `freebsd.rs` backends) | the socket or BPF device, its read buffer | open, read a batch, decode, classify the direction, `try_send` each frame, look whether the receiver is gone | kernel; channel |
| channel (tokio mpsc, `pipeline.rs`) | up to `channel_capacity` frames | `try_send`, `recv`, drop of either end | capture thread, ingest task |
| ingest task (`pipeline.rs`) | none | `select!` of cancellation and `recv`; `Aggregator::ingest` | channel, tables |
| aggregator (`aggregate.rs`) | interface view (mutex), flow, host and hardware address tables (DashMaps of locked shards), recent ring (mutex) | `ingest`, `snapshot` | called by two tasks at once |
| rate windows (`SlidingWindow` in `aggregate.rs`) | 512 slots, head, length | `push`, `evict`, `sum` | part of the interface view |
| snapshot task (`pipeline.rs`) | none | every tick `snapshot()` and `send` into a watch channel | tables, user interface |
| decoder and classifiers (`parse.rs`, `domain.rs`, `capture/stats.rs`) | none | bytes to frame; application hint; canonical flow key; direction | capture thread, tables |
| user interface (`ui/app.rs`) | tab, pause, help, selection, snapshot, histories; the terminal's mode | keys, redraw tick, resize, set up, restore | watch channel, terminal |
| choosing and opening an interface (`main.rs`, `capture/mod.rs`, backends, `capture/stats.rs`) | socket or BPF device, the hardware address | list, autodetect, `--list`, `--probe`, the system calls of `open()`, `mac_of()` | kernel; capture thread |
| `main.rs` | cancellation token, join handles | start, run the interface, cancel, join | everything |

What is hard here: two tasks work on five structures under separate locks, and nobody
holds two of them; the capture thread is a plain thread that talks to asynchronous
tasks; frames can be dropped in four places; `select!` takes its branches at random, so
that the end of the program depends on fairness; the ring buffer wraps, overwrites and
evicts; what the user selects is an index into data that is replaced under it; interfaces
come, go and are renamed while one is opened, which uses its index, its name and its name again.

What makes it correct: each frame reaches every table it concerns exactly once, or is
dropped at a place where dropping is allowed; frames are never reordered or duplicated;
a snapshot, though torn, is torn by one frame at most and later ones never show less; a
conversation is one row; the rate window holds exactly the window; the user interface
catches up, ends when told to and gives the terminal back; what is opened is what was
asked for, or the best there is, and a failure tells its cause and leaves nothing open.

### syssec

| Part | State | Operations | Talks to |
|---|---|---|---|
| `main.rs` | options | parse arguments, scan, report, save, exit code | everything below |
| `Syssec` (`syssec.rs`) | result list (at most 1024), three counters, log level | `add_result`, `check_start`, `check_item`, `set_log_level` | every check |
| checks (`checks.rs`) | what they read of the system | sixteen functions that add results | sysctl, files, commands |
| report (`report.rs`) | none | summary, list, recommendations, HTML | result list |
| binary integrity and tree walk (`parser.rs`) | table of binaries, the entries and counters of a walk | stat and compare, walk directories | checks |
| network inspector (`netinspect.rs`) | connections, statistics by address and port, alerts, ring of snapshots | parse `sockstat`, aggregate, analyze, compare snapshots | checks |
| kernel modules, sysctl (`freebsd/`) | none | thin wrappers of system calls | checks |

syssec itself does one thing at a time and keeps nothing, but the process table and the file
system change while it reads them. What is hard: a list with a
capacity, counters kept beside it, and about seventy hand-written pairs of severity and
status that the summary, the report and the exit code each read in their own way.

What makes it correct: counters and list agree also when the list is full; the exit
code tells what was found, whatever is printed or cannot be written; categories stay
together; the two grades of a result do not contradict each other; the counters of a walk are
those of what it found, and what stands still is listed whole.

## Modules

| Module | Models | Read with |
|---|---|---|
| `SlidingWindow` | the ring of `aggregate.rs:14-86` | `MCSlidingWindow`, `IfaceWindowProofs` |
| `RateWindow` | what the ring stands for: a sequence that drops from the front | |
| `Aggregator` | `Aggregator::ingest` and `snapshot` | `MCAggregator`, `AggregatorProofs` |
| `Pipeline` | capture thread, channel, both tasks, shutdown | `MCPipeline`, `PipelineProofs` |
| `LossyFeed` | what the pipeline promises: a lossy FIFO | |
| `Protocols` | decoding, direction, hints, protocol counters | `MCProtocols`, `IfaceWindowProofs` |
| `App` | the user interface | `MCApp`, `AppProofs` |
| `Scan` | syssec from the arguments to the exit code | `MCScan`, `ScanProofs` |
| `Netinspect` | the network inspector from the lines of `sockstat` to its report | `MCNetinspect`, `NetinspectProofs` |
| `Opening` | choosing an interface and opening it, on Linux and FreeBSD | `MCOpening`, `OpeningProofs` |
| `Walk` | the tree walk of `parser.rs` over a changing file system | `MCWalk`, `WalkProofs` |
| `ProcessList` | the two calls that read the process table | `MCProcessList` |
| `Findings` | the graded results and the inspector's report, used by `Scan` and `Netinspect` | |

**SlidingWindow.** `buf`, `head`, `len` are the fields of the struct. `Push` is the whole
of `push()`: room is made when the ring is full (`MakeRoom`), the entry is stored and
`evict()` runs. The loop of `evict()` is not replayed: it stops after the only number
of rounds `k` for which `Evicts` holds. `clock` and the history `log` of all pushes are
not in the code; they are what the ring is compared with. A stamp is the capture
time of a frame; one capture thread and a FIFO channel make stamps monotone.

**Aggregator.** One action per locked section: `IngestIface` for the mutex of the interface
view, `IngestFlow` .. `IngestMacDst` for each DashMap entry, `IngestRecent` for the ring;
`SnapIface`, then one step per shard and table, then `SnapRecent`. `step` and `reading`
are the program counters of the two tasks. The counters of an entry are sums over the
frames it observed, so an entry holds a bag of frames; what is not a sum (first
direction, first hardware address, last known application) is kept as it is. Sorting a
snapshot is a function of its entries and is left out.

**Pipeline.** The tasks and threads of the program with their wait points: `src`, `ingest`,
`snapper`, `main` say where each is. `Read` differs by `backend`: AF_PACKET takes one
frame per call and drains the socket before it looks at `is_closed()`; BPF and the
synthetic source bring a batch. A BPF read may leave the rest of its buffer unread: the walk
over the records rounds their lengths to 4 bytes, a 64-bit kernel to 8. A record read is offered to the
channel (`Offer`) or does not decode and is passed over (`PassOver`). The space bar (`TogglePause`) is
here because a redraw of a paused user interface takes no snapshot. Any `TagCount` of the
frames carry tags, numbered in the order they arrive, which `log`, `skipped`, `undecoded`, `refused`, `lost`,
`shown` and `screen` follow; the others are `Plain`. Arrivals never
stop, so load is unbounded over time and bounded by `WireCap` at any moment. `LossyFeed` knows an item by the
number it has in the order of arrival: it is accepted, and delivered in that order or lost.

**Protocols.** A packet is what etherparse makes of it (external: the model assumes only
that it says what the network and transport layers are). `Capture` is the way of a packet
through `decode`, the direction set in `read_batch`, and `IfaceWindow::ingest`. The history `captured`, a sequence of
packets, is what the tables are compared with: the properties say of a packet what it carries, where it
goes and what service it is of without `Decode` or the index functions. The struct holds these counters and two rate
windows: the theorems about both halves are in `IfaceWindowProofs`.

**App.** `Act` is the match of `on_key()`, `Redraw`, `Key`, `Resize`, `StreamEnds` the branches
of the `select!` in `run()`, and the phases `setup` .. `restore` the calls on the terminal
before and after it, each of which can fail.

**Scan.** `sys` is what the checks read; each check is an operator that gives the results it
adds, in order, and `Checks` names them. `System` is the set of all there is to read: percentages up to
100, any number of processes, accounts, disks, binaries. `RunCheck` starts a check, `AddResult` is
`add_result()`. The operators are the control flow of the checks; texts, numbers inside texts and commands run are left out.

**Netinspect.** The handler `syssec_check_network_deep()` step by step: `ReadCall` and `ReadLine` are
`netinspect_scan()`, and each turn of the three loops that follow is a step (`AggregateIp`,
`AggregatePort`, `Analyze`, counted by `at`). A line is what its fields say; an IPv4 address is
known by its first two numbers and an IPv6 address by the prefix it is compared with, which is all
`is_public_ip()` looks at. `sockstat` is external: the model assumes only that a line has some
number of fields, each of which says one of the things the code tells apart (`Line`). Its state column is the eighth
field, which `sockstat` prints only with `-s`, and the calls are made without: then all states are unknown and no
alert is raised. Lines of seven fields and of eight are both in the runs. What is said of alerts is about
lines that have the state, and `BackdoorFails`, which says exactly when the report fails, also that no other line
makes it fail. `NetinspectReport` of `Findings` is
what `Scan` takes of it, so the two modules meet in the sequence of alerts.

**Opening.** `step` runs through the system calls of `PacketSocketCapture::open()` or
`BpfCapture::open()`, in their order; each is an action that succeeds or fails, and `Fail` is the early return
with the descriptor closed. `main()` chooses the interface in `Choose` and ends with `--list` or `--probe`;
otherwise the user interface stays whatever becomes of the opening. Between any two
calls a frame can arrive (`Arrive`: from every interface until the socket is bound) and interfaces
can change (`Change`). An interface is its index, and its hardware address is written as its index; those in `Bare` have
none, which is no failure (`MacOf`). Four histories are not in the code: `held`, the indices the name
has had since it was chosen (0 when it was free), `listed`, the names there were to choose from,
`denied`, that a permission was refused, and `broken`, that a call failed that need not have. In
`Pipeline` the whole of it is one step that succeeds or fails.

**Walk.** `stack` is the recursion of `walk_recursive()`: per call the directory and the names still to
come. `OpenDir` reads the names, `Visit` looks up one of them, counts it and descends, `PassOver` and
`Return` are the early returns, `Merge` is what `parser_parse_bin()` does with the
walk of each of its four directories. `Change` lets nodes come and go; a directory that is open may or may not
return a name that appeared after it was opened. `symlink_metadata()` keeps the walk from entering links, but
a link can take the place of a directory between the two calls, and then `read_dir()` and the paths below
it go through the link (`ThroughLink`): any of the names there are may be found there, and any node or none
under each (`Lookups`). `Scan` takes of this only that the three
trees are parsed and graded as informational.

**ProcessList.** `Size` and `Fill` are the two sysctl calls and `Count` the loop over the buffer. It is
kept apart from `Scan`, which goes on with the grade.

## Runs

| Run | Instance | Shows |
|---|---|---|
| `SlidingWindow` | 3 slots, window 2, 6 pushes, clock to 5 | `WindowExact`: the ring holds the retained pushes in order and nothing else; it implements `RateWindow` |
| `Aggregator` | 2 shards, 2 frames, conversations in both directions, `--recent 1` | the books balance; a snapshot lacks at most one frame; tables read later have seen what those read earlier show, but for one passage of one frame; nothing shown is taken back; rows stay and keep their identity, in the tables and on the screen; one row per conversation; the ring is bounded |
| `Pipeline` | the three backends, channel of 2, 2 frames waiting, any of them undecodable, a user who pauses | lossy FIFO; each frame accounted for; quitting ends the program; frames reach the screen of a user who watches |
| `App` | 3 snapshots, one key of a kind, page of 2 | selections are rows; the screen catches up; a quit key ends `run()`; the terminal is restored |
| `Protocols` | one packet of each kind, 4 packets | each breakdown has every packet to be counted once, in its direction; the rows of the L3 and L4 panels and HTTPS, SSH, DNS and SMTP are right; both directions get one hint |
| `Netinspect` | pairs of calls with up to 2 (some 3 or 4) of 12 kinds of lines, one alert looked at | the tables are exact, at both ends of a connection and in all columns; alerts to the outside have their row; alerts are the first suspicious connections; the report fails exactly if a backdoor whose line says LISTEN is among the alerts looked at |
| `Walk` | two file systems of up to 21 paths, 5 entries per list, 2 changes, to directories, files or links | counters and entries belong together, also beyond the limit; a tree that stands still is listed whole; the deep parse ends |
| `Opening` | both platforms, 6 hosts of up to 4 interfaces, some without address, 2 changes, every call failing or not | the advice to ask for more rights is given exactly if they were missing; what is opened is what was asked for or the best there was, bound to an interface that bore the name; no descriptor is left |
| `Scan` | 13 systems, command lines of up to 2 arguments, room for 38 results | counters match the list; the exit code tells whether a check found a failure, unless the list ran full; categories stay together; grades agree |

Why the bounds are enough. Three slots allow wrap-around, overwriting and the eviction
of none, some and all older entries, and six pushes go twice around. Two shards and
two frames let a snapshot miss a frame in one shard and see it in another, and let the
second frame meet rows of the first; the theorems hold for any number of both. A channel
of two can be empty, partly full and full, and two tagged frames are what is
needed to see one overtake or replace the other. Three snapshots let tables be
empty and grow past a page. 38 results are more than some of the systems
yield and fewer than others. The lists of `Netinspect` have room for four connections, three
addresses, two ports and two alerts, less than the calls explored need. The trees of `Walk` are deeper
than each of the walks goes and the directories of programs hold more than fits; two changes
let a name go and come back, or a directory become a link between its listing and
its opening. Two changes of the interfaces let one take the name or the place of another. In the window no
frame waits to be pushed longer than one unit of time (`MaxDelay`).

### Disagreements of the code with its documentation

Three runs each check one sentence of the documentation, or of a comment, and end with a
counterexample; the findings of `PROJECT.json` quote it with its place:

| Run | It is said that | The code |
|---|---|---|
| `SlidingWindow_RateIsCurrent` | "Sliding window for rate calculation" | evicts only when something is pushed: after traffic stops the last rate stays |
| `Opening_FramesOfTheInterface` | "Interface to monitor" | the packet socket takes in the frames of all interfaces until it is bound, and keeps them |
| `ProcessList_StatesAddUp` | "312 total (2 running, 308 sleeping, 2 zombie)" | the numbers of the states are compared with letters, so every process is in none of them |

Others were met while modelling. The models do what the code does here, and the properties say what is true of
it; none has a run of its own. README is that of nicwatch where the place is in nicwatch, else `src/README.md`.

* the Protocols tab counts the unknown as HTTP, and the labels NTP, mDNS and DHCP stand beside the counts of
  IMAP, POP3 and NTP (`aggregate.rs:171`, `app.rs:563`); `BreakdownsAgree` is about the other four rows;
* an ARP packet does not decode, so the ARP row is always 0 (`parse.rs:98`, README:18);
* own broadcasts count as received (`stats.rs:226`; README:193 says "if the source MAC equals ours, it's TX");
* after a record whose length the kernel rounds to 8 bytes and the walk to 4, the rest of a BPF buffer is
  dropped, with an empty channel (`backend_freebsd.rs:154`, README:215);
* the hardware address is read by name, four calls after the socket was bound by index: the name may be
  another interface's by then (`backend_linux.rs:139`, README:192); `OpensWhatWasAsked` is about a name that
  was never free meanwhile;
* autodetection on FreeBSD passes over `pflog`, too (`main.rs:112`; `main.rs:103` says "first non-`lo` interface");
* on FreeBSD a missing interface is a failed ioctl like every other (`backend_freebsd.rs:73`, README:232);
* any failure ends with exit code 1, also that of a missing file of severity Warning (`checks.rs:171`; README:269
  says "severity `Critical` with status `Fail`");
* a failure found when 1024 results are listed is not counted (`syssec.rs:93`, README:268); there is a result
  for every line of `df`, so a host with a thousand mounted file systems gets there;
* `sockstat` is called without `-s` and prints no state, so nothing is known to listen (`netinspect.rs:297`, README:39;
  `netinspect.c:205` takes the column for granted);
* only the first ten alerts are looked at for the result (`netinspect.rs:684`, README:238);
* 169.254.0.0/16 is taken for public and 167.254.0.0/16 is not (`netinspect.rs:200`, `netinspect.c:100`);
* the total of the processes is the room the first call asked for; the result of the second is ignored
  (`checks.rs:72-77`; `syssec.c:335` and `:340` look at it);
* `s` changes the label of the sort mode and not the order of the rows (`app.rs:122`, README:150);
* `-q` "suppresses banners and summaries, only the report file is written", and the items of every
  check are printed (`syssec.rs:167`);
* a missing right gives the advice of `error.rs` and not the messages of README:229 and :237;
* when nothing can be opened the error goes to the log and the user interface stays up, empty;
* the ring has 512 slots whatever the window is, so rates saturate (`aggregate.rs:31`);
* frames without hardware addresses give no host a row (`aggregate.rs:269`, README:16);
* the help swallows `q` and Ctrl-C (`app.rs:110`, README:144);
* the Live tab shows a prefix that grows instead of scrolling (`app.rs:593`, README:148);
* the selection can pass the 500 rows displayed (`app.rs:145`, `app.rs:408`);
* `errors`, `iface_mac` and `link_type` are never filled in (README:216-217);
* `--refresh 0` makes the interval of `pipeline.rs:114` panic;
* `-n` ignores `-o` (`main.rs:82` of syssec, the file is saved at `:126`);
* the System category is never checked (`checks.rs:771`, function at `:229`);
* with `--recent 0` the recent ring grows for ever (`aggregate.rs:297`, README:222);
* the snapshots that are to be compared (`src/README.md:318`) are never taken
  (`netinspect.rs:517`), and the mark for addresses with many connections is never read.

## Fairness

Safety is checked without any. The liveness properties assume:

* `Pipeline`: weak fairness for the capture thread, each step of a task that has been
  chosen, the ticks and the joins: the operating system runs every thread and tokio polls
  every ready task. Strong fairness for `Receive` and `IngestCancelled`: they are branches of
  one `select!`, which polls in a random order, so a branch that is ready every time
  the task selects is taken in the end; weak fairness would not do, because
  ingesting takes the task out of the `select!`. Nothing is assumed of arrivals, decoding, read
  errors, the opening of a device, or of when the user quits, pauses or goes on. That frames reach the
  screen is claimed for a user who does, from some moment on, neither quit nor pause (`<>[]Watching`): a paused
  interface shows nothing new, by design.
* `App`: weak fairness for the calls on the terminal and for the redraw tick, which stays
  ready until it is taken; that a draw fails is possible and never assumed. Keys, resizes and snapshots are not fair.
* `Walk`: weak fairness of the walk as a whole: it is one sequential program that the system runs. The
  file system changes a bounded number of times; names that come and
  go for ever, each gone again before it is looked up, would keep the loop over them busy for ever.

## Proofs

Eight modules prove, for every value of the constants that satisfies the named assumptions of
the modules they are about. Each has an inductive invariant (`IInv`, or what is named below) that is shown to hold at the start and to be kept by every
action, and derives from it what the runs check of small instances.

`IfaceWindowProofs`:

* `TypeCorrect`, `RingHoldsTheWindow`, `RingImplementsRateWindow`: for every capacity above 0,
  window and sequence of pushes, `WindowExact` and the refinement of `RateWindow`. The
  invariant is `TypeOK`, `WindowExact` and the order of the stamps in `log`. `WindowExact` alone is
  not inductive: only because stamps are monotone do the retained pushes form a suffix of the
  log, which is what head and length can represent. The lemmas say what `SlotOf` does
  modulo the capacity (distinct positions are distinct slots), what making room
  does to the invariant, and that eviction stops at exactly one place.
* `CountersWellTyped`, `BreakdownsAlwaysAgree`, `OneHintPerConversationAlways`: for any packets that `ProtocolsAssumption` describes, in
  any order and number. `BreakdownsAgree` compares the tables with the packets, in terms of its own; the invariant
  `CountersTypeOK /\ DecodedAgree` compares them with what `Decode` makes of the packets, and `DecodedAreCarried` shows that
  decoding says of each packet what the packet is (the four rows of applications that are wrong are in neither). A frame is of a kind each table has a place for (`FrameShape`,
  `FrameHasPlaces`), so counting it adds one to one place of each table of its direction and leaves the other direction
  alone (`IngestRows`), and one to the number of packets captured of every set it belongs to (`HowManyMore`); the label of
  a row is that of the kind counted at its place (`LabelsOfPlaces`). The flag counters stay below
  those of TCP because no other frame has flags. Both directions get one hint because the smaller of two ports does not
  depend on their order.

`AggregatorProofs`:

* `TypeCorrect`, `TablesKeepTheBooks`, `SnapshotsAreTornByOneFrame`: for any frames, keys and
  number of shards; that the recent ring keeps to its capacity, if that is not 0, is part of `TypeOK`. The invariant is
  `TypeOK /\ Progress /\ Books /\ Lags /\ TornByOneFrame`. `BooksBalance` speaks of the moments between frames
  only; `Books` extends it to every step by counting which of its tables the frame at hand has
  reached, and `Progress` ties the program counter to the frame's shape. `TornByOneFrame`
  speaks of a finished snapshot; `Lags` says it of the one under construction, for the tables
  and shards copied so far, with the frame that was at hand when the interface view was
  copied as the one that may be missing.
* `LaterTablesLagByOneFrame`: `LaterTablesKeepUp` compares two copies that were made at different times. `KeepsUp` compares
  a copy with the live tables first: what the flow rows copied so far show is in the host and hardware address tables, but for
  one passage of one frame, which is the one in hand when the last shard of flows was copied; the same frame excuses all
  rows. So for the hosts and the hardware addresses. It rests on `ingest()` and `snapshot()` going through the
  tables in the same order.
* `NothingShownIsTakenBack`, an action property over two snapshots: `Grown` keeps, for every frame, the last snapshot below
  the one under construction where it is copied and below the live tables where it is not.
* `ConversationsHaveOneRow`, from `Keyed` (only canonical keys have rows) and the fact that of a
  flow and its reverse one is canonical, also when addresses or ports are equal.
* `IdentityIsKept`, an action property of the tables and of the snapshots: `Kept` says that the rows of the last snapshot are in the
  tables, and in the snapshot under construction where it has been copied. `ShownTablesNeverShrink` counts
  them: with finitely many flows and addresses, the tables shown never get shorter, which `App` assumes.

`PipelineProofs`:

* `TypeCorrect`, `FramesAreAccountedFor`, `PipelineImplementsLossyFeed`: for every backend, capacities of the channel and of
  the kernel's buffer, and number of frames followed. That each place holds a frame once does not show that frames stay
  in order: the invariant adds that every place is ascending and that what is in a place nearer to the tables arrived
  before what is in one farther away (`Settled`). Then what `Ingest` appends to the log
  is the smallest frame under way, which is what `Deliver` of `LossyFeed` asks for; a read that leaves part of its buffer, a record
  that does not decode, a refused `try_send` and a cancelled task are `Lose`, and every other step is a stutter. The
  properties are those of `Spec`, without fairness.

`AppProofs`:

* `TypeCorrect`, `SelectionsAreRows`, `TheTerminalIsGivenBack`: for any growing snapshots, keys and page.
  A key pressed while a table is empty may select its first row, so `SelectionInTable` is true
  but not inductive; `Selections` allows the first row of an empty table and says that the snapshot displayed
  is never newer than the one in the watch channel. `Modes` tells for each phase of `run()`
  what it has done to the terminal.

`OpeningProofs`:

* `TypeCorrect`, `FailuresTellTheirCause`, `TheRightInterfaceIsOpened`: for any hosts, names and number of
  changes, at any moments. `FailureTellsTheCause` speaks of the end of an opening; `Failures` adds what holds on the
  way, above all that no refused permission is forgotten. It tells apart a refused permission from the rest on both platforms and
  a missing interface on Linux only. `OpensWhatWasAsked` needs `Settled`: which indices the name has had
  (`Holders`: it goes from one interface to another only by way of being free), how the name was chosen, and that what was looked up,
  bound and asked for its address so far were all among them. That the choice is the best one of those listed is
  `AutodetectedIsBest`, which rests on there being a smallest place in the list.

`ScanProofs`:

* `TypeCorrect`, `CountersTellTheList`, `ExitTellsTheChecks`, `CategoriesAreTogether`, `GradesNeverContradict`: for every system
  that `System` describes, every command line, any room for results. One lemma per check says that on any
  system it adds only results of its own heading whose severity and status agree. `InTurn` carries this
  over to the list: the categories listed so far, the one at hand and those of the checks still to come follow one another in
  `ScanOrder`. The counters are those of the list because `add_result()` returns
  before it counts when the list is full, and the exit code is computed from
  the counters before anything is saved (`ExitIsVerdict`). `ExitTellsFailures` compares it with what the checks find,
  whether or not that was listed: a failure found is in `FailuresInSight`, among the results listed, those of the check
  at hand or the checks to come, until the list is full.

`NetinspectProofs`:

* `TypeCorrect`, `TablesCountTheConnections`, `AlertsTellTheFirst`, `OutsideIsInTheTable`, `BackdoorsFailTheAudit`: for any lines of
  `sockstat` and any bounds of the lists. `PortsExact` and `SeenExact` say of a table, the connections and a number `n` that
  the table counts the first `n` of them; a turn of a loop takes them from `n` to `n + 1`, and the analysis, which
  writes into the connections, does not touch what they look at. A row is missing only
  once the table is full, and a full table stays full. `SeenExact` counts a connection
  at both ends, `LocalExact` what only the local end changes (listeners and ports). `Judged` says what the
  analysis has written down so far, `Told` that the report is that of the alerts. `BackdoorFails` goes both ways:
  `FailuresAreOfBackdoors` finds the listener behind a failure, `BackdoorsAreFailures` the failure of a listener.

`WalkProofs`:

* `TypeCorrect`, `SummariesAddUp`, `TreesAreListedWhole`: for any paths, file systems, nodes that appear, changes and room for entries. The file
  system stays a tree because a node goes with all that is below it. `SummaryAddsUp` says little of a tree
  whose walk is going on; `UnderWay` says that what was found in the tree so far is, entry by
  entry as long as there is room and always in the counters, what the result holds followed by
  what the current walk has found.
* `WalkIsComplete` compares the list of a finished tree with all that can be reached in it, which says nothing of a walk
  under way. `JInv` does: the open calls are for directories one below the other, each as deep as its call, below a root
  that has been started and with only UTF-8 names on the way (`Shape`); a name still to come has not been listed,
  nor has anything below it (`AheadOf`, from which the order of the list and that nothing is in it twice follow); and unless the list is full,
  whatever can be reached from the roots started so far is listed, below a name still to come, or below a directory
  not yet opened (`Covered`). That a reachable path passes through a name of each directory above it (`NameOnTheWay`) rests on
  the file system being a tree (`DirsAbove`); that a call that is too deep leaves nothing out, on the bound of `Reachable` being the
  depth at which `walk_recursive()` returns. In a tree at rest no link is met on the way to an entry (`FoundInPlace`); a walk
  that opens a link is no longer `calm`, and `WalkIsComplete` says nothing of it.

Assumptions: the shapes of the constants, that the flows are closed under reversal, that one name is that of
a loopback interface, that the tables shown to the user interface never get shorter (which `ShownTablesNeverShrink` proves of `Aggregator`), that
the path above a path is one too and the file system is a tree at the start, and that the marks for "no entry" are not entries.

Only model-checked: liveness under fairness (`QuitEnds`, `FramesReachTheScreen`, `ScreenCatchesUp`, `QuitLeaves`, `WalkEnds`). The refinements are proved for
the specifications without fairness. What a recursive definition computes for all data is beyond the prover too; the filter `OfKinds` of
`Findings` is for that reason written without recursion, as the sequence of the elements at the n-th positions.

## Not modelled

Rendering, colours and number formats; the parsing of options by clap; wrappers of system calls; the
HTML of the report; the texts of results and what is printed of each.

`if_stats()` and what it needs, `syssec_check_information()`, `compute_sha256()` and
`netinspect_diff_snapshots()` past its first line are never reached: no binary has an expected hash, no snapshot
is ever stored, and the other two have no caller.

The C program is not modelled. The Rust one was ported from it function by function, and a model of it would
repeat `Scan`, `Netinspect` and `Walk`; where it shows what the port was meant to do, it is quoted
under the disagreements.

## Plan

Done: the core of nicwatch, in the order windows, tables, pipeline, interface, protocols, then
syssec's scan and network inspector, then the opening of an interface, the tree walk and the reading of
the process table; theorems about every safety property of the passing runs. What could still be added to the
models: a composition of `Aggregator`, `SlidingWindow` and `Protocols`, whose two windows and counters are
changed in one locked section.

Runs are kept few: a new one takes the place of one whose question another run answers too.
