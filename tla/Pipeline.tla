------------------------------ MODULE Pipeline ------------------------------
(***************************************************************************)
(* The runtime of nicwatch: the capture thread (capture/source.rs and the  *)
(* read_batch of the two backends), the bounded channel to the ingest task,*)
(* the snapshot task and its watch channel (pipeline.rs), the user         *)
(* interface at the other end and the shutdown in main.rs.                 *)
(*                                                                         *)
(* The transport never looks into a frame, so the frames are alike but for *)
(* some that are tagged 1, 2, ... in the order they arrive; arrivals never *)
(* end.  The pauses of the capture thread (100 ms after an error, 1 ms     *)
(* after a batch that sent nothing) only take time and are left out.       *)
(***************************************************************************)
EXTENDS Integers, Sequences

CONSTANTS
  Backends,  \* what frames may come from: "af_packet", "bpf", "synthetic"
  Capacity,  \* PipelineConfig::channel_capacity
  WireCap,   \* bound of the model: frames waiting in the kernel
  TagCount   \* bound of the model: frames that are followed on their way

ASSUME PipelineAssumption ==
  /\ Backends \subseteq {"af_packet", "bpf", "synthetic"}
  /\ Capacity \in Nat \ {0}
  /\ WireCap \in Nat \ {0}
  /\ TagCount \in Nat

VARIABLES
  backend,   \* what frames come from; chosen when the program is built or started
  wire,      \* frames the kernel holds for the capture thread
  tagged,    \* how many tagged frames have arrived
  src,       \* where the capture thread is
  batch,     \* frames it has read and not yet offered to the channel
  queue,     \* the channel
  ingest,    \* where the ingest task is
  hand,      \* the frame it is ingesting
  log,       \* history: the tagged frames ingested, in order
  skipped,   \* history: the tagged frames left behind in a read buffer
  undecoded, \* history: the tagged frames decode() made nothing of
  refused,   \* history: the tagged frames try_send refused
  lost,      \* history: the tagged frames dropped with the channel
  snapper,   \* whether the snapshot task runs
  shown,     \* the tagged frames in the last snapshot sent
  screen,    \* the tagged frames in the snapshot on the screen
  paused,    \* App::paused
  cancelled, \* the cancellation token
  main       \* where main() is

capture == <<wire, tagged, src, batch>>
ingestion == <<ingest, hand, log>>
history == <<skipped, undecoded, refused, lost>>
display == <<snapper, shown, screen, paused>>
control == <<cancelled, main>>
vars == <<backend, capture, queue, ingestion, history, display, control>>

Tags == 1 .. TagCount
Plain == 0
Frame == Tags \cup {Plain}
None == -1

Elems(s) == {s[i] : i \in DOMAIN s}
TagsIn(s) == Elems(s) \cap Tags

TypeOK ==
  /\ backend \in Backends
  /\ wire \in Seq(Frame) /\ Len(wire) <= WireCap
  /\ tagged \in 0 .. TagCount
  /\ src \in {"opening", "reading", "checking", "ended"}
  /\ batch \in Seq(Frame)
  /\ queue \in Seq(Frame) /\ Len(queue) <= Capacity
  /\ ingest \in {"waiting", "ingesting", "ended"}
  /\ hand \in Frame \cup {None}
  /\ log \in Seq(Tags)
  /\ {skipped, undecoded, refused, lost, shown, screen} \subseteq SUBSET Tags
  /\ snapper \in {"running", "ended"}
  /\ {paused, cancelled} \subseteq BOOLEAN
  /\ main \in {"ui", "joinIngest", "joinSnapper", "exited"}

-----------------------------------------------------------------------------
(* A frame reaches the interface. *)
Arrive ==
  /\ Len(wire) < WireCap
  /\ \E f \in {Plain, tagged + 1} \cap Frame :
       /\ wire' = Append(wire, f)
       /\ tagged' = IF f = Plain THEN tagged ELSE f
  /\ UNCHANGED <<src, batch, queue, ingestion, history, display, control>>

(* The thread opens its backend, or logs an error and returns, which drops
   the only sender of the channel. *)
Open ==
  /\ src = "opening"
  /\ src' \in {"reading", "ended"}
  /\ UNCHANGED <<wire, tagged, batch, queue, ingestion, history, display, control>>

(* read_batch().  AF_PACKET reads one frame per call of recvfrom() and goes on
   until it would block; the synthetic source makes one burst.  BPF reads all
   the kernel has in one go and walks through the records, rounding their
   lengths up to 4 bytes.  The kernel of a 64-bit FreeBSD rounds them to 8:
   after a record of the wrong length the walk ends on a zero and the rest of
   the buffer is never looked at. *)
Read ==
  /\ src = "reading" /\ batch = << >> /\ wire # << >>
  /\ \E n \in 1 .. Len(wire) :
       /\ backend = "synthetic" => n = Len(wire)
       /\ backend = "af_packet" => n = 1
       /\ batch' = SubSeq(wire, 1, n)
       /\ LET rest == SubSeq(wire, n + 1, Len(wire))
          IN  IF backend = "af_packet"
                THEN wire' = rest /\ UNCHANGED skipped
                ELSE wire' = << >> /\ skipped' = skipped \cup TagsIn(rest)
  /\ UNCHANGED <<tagged, src, queue, ingestion, undecoded, refused, lost, display, control>>

(* The walk goes on to the next record.  Over AF_PACKET that is the next call
   of recvfrom(); otherwise read_batch() ends with the last record. *)
NextRecord ==
  /\ batch' = Tail(batch)
  /\ src' = IF backend # "af_packet" /\ batch' = << >> THEN "checking" ELSE src

(* Mutant: a full channel makes room by dropping its oldest frame. *)
OfferToRing ==
  LET f == Head(batch)
      room == IF Len(queue) = Capacity THEN Tail(queue) ELSE queue
  IN  /\ src = "reading" /\ batch # << >>
      /\ NextRecord
      /\ queue' = Append(room, f)
      /\ UNCHANGED <<wire, tagged, ingestion, history, display, control>>

(* Mutant: the channel is unbounded. *)
OfferUnbounded ==
  LET f == Head(batch)
  IN  /\ src = "reading" /\ batch # << >>
      /\ NextRecord
      /\ queue' = Append(queue, f)
      /\ Len(queue) <= Capacity
      /\ UNCHANGED <<wire, tagged, ingestion, history, display, control>>

(* try_send(): refused when the channel is full or its receiver is gone. *)
Offer ==
  LET f == Head(batch)
      accepted == Len(queue) < Capacity /\ ingest # "ended"
  IN  /\ src = "reading" /\ batch # << >>
      /\ NextRecord
      /\ queue' = IF accepted THEN Append(queue, f) ELSE queue
      /\ refused' = IF accepted THEN refused ELSE refused \cup ({f} \cap Tags)
      /\ UNCHANGED <<wire, tagged, ingestion, skipped, undecoded, lost, display, control>>

(* decode() fails on the record, or finds nothing in it: the record is passed
   over and nobody is told.  Synthetic frames are made, not decoded. *)
PassOver ==
  /\ backend # "synthetic"
  /\ src = "reading" /\ batch # << >>
  /\ NextRecord
  /\ undecoded' = undecoded \cup ({Head(batch)} \cap Tags)
  /\ UNCHANGED <<wire, tagged, queue, ingestion, skipped, refused, lost, display, control>>

(* The read times out: nothing was waiting. *)
ReadTimesOut ==
  /\ src = "reading" /\ batch = << >> /\ wire = << >>
  /\ src' = "checking"
  /\ UNCHANGED <<wire, tagged, batch, queue, ingestion, history, display, control>>

(* The read is interrupted or fails. *)
ReadFails ==
  /\ backend # "synthetic"
  /\ src = "reading" /\ batch = << >>
  /\ src' = "checking"
  /\ UNCHANGED <<wire, tagged, batch, queue, ingestion, history, display, control>>

(* is_closed() *)
Check ==
  /\ src = "checking"
  /\ src' = IF ingest = "ended" THEN "ended" ELSE "reading"
  /\ UNCHANGED <<wire, tagged, batch, queue, ingestion, history, display, control>>

CaptureThread == Open \/ Read \/ Offer \/ PassOver \/ ReadTimesOut \/ Check

-----------------------------------------------------------------------------
(* Mutant: frames are taken from the wrong end of the channel. *)
ReceiveNewest ==
  /\ ingest = "waiting" /\ queue # << >>
  /\ hand' = queue[Len(queue)]
  /\ queue' = SubSeq(queue, 1, Len(queue) - 1)
  /\ ingest' = "ingesting"
  /\ UNCHANGED <<capture, log, history, display, control>>

(* The ingest task: rx.recv() returns a frame ... *)
Receive ==
  /\ ingest = "waiting" /\ queue # << >>
  /\ hand' = Head(queue)
  /\ queue' = Tail(queue)
  /\ ingest' = "ingesting"
  /\ UNCHANGED <<capture, log, history, display, control>>

(* ... which is ingested before the task selects again ... *)
Ingest ==
  /\ ingest = "ingesting"
  /\ log' = IF hand \in Tags THEN Append(log, hand) ELSE log
  /\ hand' = None
  /\ ingest' = "waiting"
  /\ UNCHANGED <<capture, queue, history, display, control>>

(* ... or None, when the sender is gone and the channel empty. *)
ReceiveNone ==
  /\ ingest = "waiting" /\ queue = << >> /\ src = "ended"
  /\ ingest' = "ended"
  /\ UNCHANGED <<capture, queue, hand, log, history, display, control>>

(* Mutant: frames come before the cancellation. *)
IngestCancelledWhenIdle ==
  /\ ingest = "waiting" /\ cancelled /\ queue = << >>
  /\ ingest' = "ended"
  /\ UNCHANGED <<capture, queue, hand, log, history, display, control>>

(* The other branch of the select: the receiver is dropped with what the
   channel holds. *)
IngestCancelled ==
  /\ ingest = "waiting" /\ cancelled
  /\ ingest' = "ended"
  /\ queue' = << >>
  /\ lost' = lost \cup TagsIn(queue)
  /\ UNCHANGED <<capture, hand, log, skipped, undecoded, refused, display, control>>

-----------------------------------------------------------------------------
(* Mutant: the ticker stops once there was something to show. *)
SnapTickOnce ==
  /\ snapper = "running" /\ shown = {}
  /\ shown' = Elems(log)
  /\ UNCHANGED <<capture, queue, ingestion, history, snapper, screen, paused, control>>

(* The snapshot task: a tick of its interval.  What a snapshot shows of the
   frame being ingested is the subject of module Aggregator. *)
SnapTick ==
  /\ snapper = "running"
  /\ shown' = Elems(log)
  /\ UNCHANGED <<capture, queue, ingestion, history, snapper, screen, paused, control>>

SnapCancelled ==
  /\ snapper = "running" /\ cancelled
  /\ snapper' = "ended"
  /\ UNCHANGED <<capture, queue, ingestion, history, shown, screen, paused, control>>

(* The redraw tick of the user interface: it takes the latest snapshot unless
   the user has paused, and draws what it has. *)
Redraw ==
  /\ main = "ui"
  /\ screen' = IF paused THEN screen ELSE shown
  /\ UNCHANGED <<capture, queue, ingestion, history, snapper, shown, paused, control>>

(* The space bar.  The other keys are the subject of module App. *)
TogglePause ==
  /\ main = "ui"
  /\ paused' = ~paused
  /\ UNCHANGED <<capture, queue, ingestion, history, snapper, shown, screen, control>>

-----------------------------------------------------------------------------
(* app::run() returns, whatever the reason; main() cancels and waits for the
   two tasks, in this order. *)
UiReturns ==
  /\ main = "ui"
  /\ main' = "joinIngest"
  /\ cancelled' = TRUE
  /\ UNCHANGED <<capture, queue, ingestion, history, display>>

Join ==
  /\ \/ main = "joinIngest" /\ ingest = "ended" /\ main' = "joinSnapper"
     \/ main = "joinSnapper" /\ snapper = "ended" /\ main' = "exited"
  /\ UNCHANGED <<capture, queue, ingestion, history, display, cancelled>>

-----------------------------------------------------------------------------
(* The synthetic source has nothing to open, and looks before it reads. *)
FirstStep(b) == IF b = "synthetic" THEN "checking" ELSE "opening"

Init ==
  /\ backend \in Backends
  /\ wire = << >>
  /\ tagged = 0
  /\ src = FirstStep(backend)
  /\ batch = << >>
  /\ queue = << >>
  /\ ingest = "waiting"
  /\ hand = None
  /\ log = << >>
  /\ skipped = {}
  /\ undecoded = {}
  /\ refused = {}
  /\ lost = {}
  /\ snapper = "running"
  /\ shown = {}
  /\ screen = {}
  /\ paused = FALSE
  /\ cancelled = FALSE
  /\ main = "ui"

(* The capture thread is detached: it ends with the process at the latest. *)
Next ==
  /\ main # "exited"
  /\ UNCHANGED backend
  /\ \/ Arrive
     \/ CaptureThread
     \/ ReadFails
     \/ Receive \/ Ingest \/ ReceiveNone \/ IngestCancelled
     \/ SnapTick \/ SnapCancelled
     \/ Redraw \/ TogglePause \/ UiReturns \/ Join

(***************************************************************************)
(* The operating system runs every thread.  select! polls its branches in  *)
(* a random order, so a branch that is ready again and again is taken in   *)
(* the end: strong fairness for the branches of the ingest task, whose     *)
(* body takes it out of the select.  Nothing makes frames arrive, reads    *)
(* fail, or the user quit, pause or go on.                                 *)
(***************************************************************************)
Alive(A) == main # "exited" /\ UNCHANGED backend /\ A

Fairness ==
  /\ WF_vars(Alive(CaptureThread))
  /\ SF_vars(Alive(Receive))
  /\ WF_vars(Alive(Ingest))
  /\ WF_vars(Alive(ReceiveNone))
  /\ SF_vars(Alive(IngestCancelled))
  /\ WF_vars(Alive(SnapTick))
  /\ WF_vars(Alive(SnapCancelled))
  /\ WF_vars(Alive(Redraw))
  /\ WF_vars(Alive(Join))

Spec == Init /\ [][Next]_vars
FairSpec == Spec /\ Fairness

-----------------------------------------------------------------------------
(* The tagged frames on their way. *)
InHand == {hand} \cap Tags
UnderWay == InHand \cup TagsIn(queue) \cup TagsIn(batch) \cup TagsIn(wire)

(***************************************************************************)
(* The pipeline is a lossy FIFO: whatever the capture thread, the channel  *)
(* and the tasks do, a frame is ingested at most once and never before one *)
(* that arrived earlier (source.rs, pipeline.rs).                          *)
(***************************************************************************)
Feed == INSTANCE LossyFeed WITH accepted <- tagged, pending <- UnderWay, delivered <- log

ImplementsLossyFeed == Feed!Spec

(***************************************************************************)
(* Every frame that arrived is accounted for: it is in one place of the    *)
(* way, ingested, left in a read buffer, passed over by decode(), refused  *)
(* or lost with the channel, and nowhere twice (source.rs, pipeline.rs,    *)
(* the two backends).  Of how many end up in which place it says nothing.  *)
(***************************************************************************)
Places == <<InHand, TagsIn(queue), TagsIn(batch), TagsIn(wire), Elems(log),
            skipped, undecoded, refused, lost>>

OnceIn(s) == \A i, j \in DOMAIN s : s[i] \in Tags /\ s[i] = s[j] => i = j

EveryFrameAccountedFor ==
  /\ UNION Elems(Places) = 1 .. tagged
  /\ \A i, j \in DOMAIN Places : i # j => Places[i] \cap Places[j] = {}
  /\ OnceIn(queue) /\ OnceIn(batch) /\ OnceIn(wire) /\ OnceIn(log)

(***************************************************************************)
(* The user who quits gets the prompt back, however much traffic keeps     *)
(* coming in: both tasks see the cancellation (pipeline.rs select!,        *)
(* main.rs).                                                               *)
(***************************************************************************)
QuitEnds == (main # "ui") ~> (main = "exited")

(***************************************************************************)
(* For a user who stays, and does not pause for ever or again and again, a *)
(* frame accepted by the channel is on the screen in the end (pipeline.rs  *)
(* ingest and snapshot tasks, ui/app.rs redraw).                           *)
(***************************************************************************)
Watching == main = "ui" /\ ~paused

FramesReachTheScreen ==
  <>[]Watching => \A t \in Tags : (t \in Elems(queue)) ~> (t \in screen)

=============================================================================
