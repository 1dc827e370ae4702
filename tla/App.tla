-------------------------------- MODULE App --------------------------------
(***************************************************************************)
(* The user interface of nicwatch (ui/app.rs): the state App keeps, its    *)
(* key bindings, and run(), the event loop that select!s between a redraw  *)
(* tick and terminal events, from setting the terminal up to restoring it. *)
(*                                                                         *)
(* The snapshots the aggregator publishes are a given sequence, of which   *)
(* the watch channel keeps the last; a snapshot is how many flows and      *)
(* hosts it has and a rate.  What is drawn of it is left out.              *)
(***************************************************************************)
EXTENDS Integers, Sequences, Functions

CONSTANTS
  Snapshots,  \* the snapshots published, in order
  Keys,       \* the keys pressed
  Page,       \* rows per page key (10)
  HistCap,    \* length of a rate history (120)
  MaxOffset   \* bound of the model: scrolling of the Live tab

AllKeys == {"q", "Esc", "c", "^C", " ", "?", "h", "s", "Tab", "l", "BackTab", "H", "1", "2", "3",
            "4", "5", "Down", "j", "Up", "k", "PageDown", "PageUp", "x"}

(* The tables of the aggregator only grow (Aggregator, NothingIsTakenBack). *)
ASSUME AppAssumption ==
  /\ Snapshots \in Seq([flows : Nat, hosts : Nat, rate : Nat])
  /\ Snapshots # << >>
  /\ \A i, j \in DOMAIN Snapshots : i <= j =>
       Snapshots[i].flows <= Snapshots[j].flows /\ Snapshots[i].hosts <= Snapshots[j].hosts
  /\ Keys \subseteq AllKeys
  /\ {Page, HistCap, MaxOffset} \subseteq Nat \ {0}

VARIABLES
  tab, paused, shouldQuit, sortMode, showHelp,
  flowSel,    \* the selected row of the flow table, counted from 0, or None
  hostSel,    \* the selected row of the host table
  liveOffset,
  snapshot,   \* which snapshot is displayed, 0 for none
  history,    \* rx_history (tx_history is its twin)
  latest,     \* which snapshot the watch channel holds
  phase,      \* where run() is
  raw,        \* raw mode is on
  alternate,  \* the alternate screen is on and the cursor hidden
  failed      \* history: an operation on the terminal itself failed

selection == <<flowSel, hostSel, liveOffset>>
data == <<snapshot, history>>
app == <<tab, paused, shouldQuit, sortMode, showHelp, selection, data>>
terminal == <<raw, alternate>>
vars == <<app, latest, phase, terminal, failed>>

Tabs == <<"Overview", "Flows", "Hosts", "Protocols", "Live">>
TabKeys == <<"1", "2", "3", "4", "5">>
SortModes == <<"bytes", "packets", "name">>
None == -1

Smaller(a, b) == IF a <= b THEN a ELSE b
Floor(n) == IF n < 0 THEN 0 ELSE n

FlowCount == IF snapshot = 0 THEN 0 ELSE Snapshots[snapshot].flows
HostCount == IF snapshot = 0 THEN 0 ELSE Snapshots[snapshot].hosts

TypeOK ==
  /\ tab \in Range(Tabs)
  /\ {paused, shouldQuit, showHelp, raw, alternate, failed} \subseteq BOOLEAN
  /\ sortMode \in Range(SortModes)
  /\ flowSel \in Nat \cup {None} /\ hostSel \in Nat \cup {None}
  /\ liveOffset \in 0 .. MaxOffset
  /\ snapshot \in 0 .. Len(Snapshots)
  /\ history \in Seq(Nat) /\ Len(history) <= HistCap
  /\ latest \in 1 .. Len(Snapshots)
  /\ phase \in {"setup", "enter", "build", "loop", "leave", "restore", "over"}

-----------------------------------------------------------------------------
(* Mutant: the history keeps everything. *)
PushHistUnbounded(q, v) == Append(q, v)

(* push_hist *)
PushHist(q, v) == Append(IF Len(q) = HistCap THEN Tail(q) ELSE q, v)

(* Mutant: the number of rows is taken for the last index. *)
SelectNextPastEnd(sel, n, len) ==
  IF len = 0 THEN sel ELSE Smaller((IF sel = None THEN 0 ELSE sel) + n, len)

(* select_next, select_prev: the clamp is to the rows of the snapshot. *)
SelectNext(sel, n, len) ==
  IF len = 0 THEN sel ELSE Smaller((IF sel = None THEN 0 ELSE sel) + n, len - 1)

SelectPrev(sel, n) == Floor((IF sel = None THEN 0 ELSE sel) - n)

ScrollDownBy(n) ==
  /\ flowSel' = IF tab = "Flows" THEN SelectNext(flowSel, n, FlowCount) ELSE flowSel
  /\ hostSel' = IF tab = "Hosts" THEN SelectNext(hostSel, n, HostCount) ELSE hostSel
  /\ liveOffset' = IF tab = "Live" THEN Smaller(liveOffset + n, MaxOffset) ELSE liveOffset

ScrollUpBy(n) ==
  /\ flowSel' = IF tab = "Flows" THEN SelectPrev(flowSel, n) ELSE flowSel
  /\ hostSel' = IF tab = "Hosts" THEN SelectPrev(hostSel, n) ELSE hostSel
  /\ liveOffset' = IF tab = "Live" THEN Floor(liveOffset - n) ELSE liveOffset

(* The element of ring s that is n places after x. *)
After(s, x, n) ==
  LET i == CHOOSE i \in DOMAIN s : s[i] = x
  IN  s[((i - 1 + n) % Len(s)) + 1]

(* The match of on_key(). *)
Act(k) ==
  \/ /\ k \in {"q", "Esc", "^C"}
     /\ shouldQuit' = TRUE
     /\ UNCHANGED <<tab, paused, sortMode, showHelp, selection>>
  \/ /\ k = " "
     /\ paused' = ~paused
     /\ UNCHANGED <<tab, shouldQuit, sortMode, showHelp, selection>>
  \/ /\ k \in {"?", "h"}
     /\ showHelp' = TRUE
     /\ UNCHANGED <<tab, paused, shouldQuit, sortMode, selection>>
  \/ /\ k = "s"
     /\ sortMode' = After(SortModes, sortMode, 1)
     /\ UNCHANGED <<tab, paused, shouldQuit, showHelp, selection>>
  \/ /\ k \in {"Tab", "l"}
     /\ tab' = After(Tabs, tab, 1)
     /\ UNCHANGED <<paused, shouldQuit, sortMode, showHelp, selection>>
  \/ /\ k \in {"BackTab", "H"}
     /\ tab' = After(Tabs, tab, Len(Tabs) - 1)
     /\ UNCHANGED <<paused, shouldQuit, sortMode, showHelp, selection>>
  \/ /\ \E i \in DOMAIN Tabs : k = TabKeys[i] /\ tab' = Tabs[i]
     /\ UNCHANGED <<paused, shouldQuit, sortMode, showHelp, selection>>
  \/ /\ \/ k \in {"Down", "j"} /\ ScrollDownBy(1)
        \/ k \in {"Up", "k"} /\ ScrollUpBy(1)
        \/ k = "PageDown" /\ ScrollDownBy(Page)
        \/ k = "PageUp" /\ ScrollUpBy(Page)
     /\ UNCHANGED <<tab, paused, shouldQuit, sortMode, showHelp>>
  \/ /\ k \in {"c", "x"}
     /\ UNCHANGED <<tab, paused, shouldQuit, sortMode, showHelp, selection>>

(* on_key(): any key closes the help and does nothing else. *)
OnKey(k) ==
  IF showHelp
    THEN /\ showHelp' = FALSE
         /\ UNCHANGED <<tab, paused, shouldQuit, sortMode, selection>>
    ELSE Act(k)

-----------------------------------------------------------------------------
(* A call on the terminal fails: run() returns at once, by the ? operator.
   Switching the screen may have taken effect nevertheless. *)
Fail ==
  /\ failed' = TRUE
  /\ phase' = "over"

(* The four calls before the loop. *)
EnableRaw ==
  /\ phase = "setup"
  /\ \/ Fail /\ UNCHANGED raw
     \/ raw' = TRUE /\ phase' = "enter" /\ UNCHANGED failed
  /\ UNCHANGED <<app, latest, alternate>>

EnterAlternate ==
  /\ phase = "enter"
  /\ \/ Fail /\ alternate' \in BOOLEAN
     \/ alternate' = TRUE /\ phase' = "build" /\ UNCHANGED failed
  /\ UNCHANGED <<app, latest, raw>>

BuildTerminal ==
  /\ phase = "build"
  /\ \/ Fail
     \/ phase' = "loop" /\ UNCHANGED failed
  /\ UNCHANGED <<app, latest, terminal>>

(* A draw, after which the loop goes on or is left. *)
Draw(next) == Fail \/ (phase' = next /\ UNCHANGED failed)

(* update() *)
Update(v) ==
  /\ snapshot' = v
  /\ history' = PushHist(history, Snapshots[v].rate)

(* Mutant: the pause is never lifted for the data. *)
RedrawOnce ==
  /\ phase = "loop"
  /\ IF paused \/ snapshot # 0 THEN UNCHANGED data ELSE Update(latest)
  /\ Draw(IF shouldQuit THEN "leave" ELSE "loop")
  /\ UNCHANGED <<tab, paused, shouldQuit, sortMode, showHelp, selection, latest, terminal>>

(* The redraw tick. *)
Redraw ==
  /\ phase = "loop"
  /\ IF paused THEN UNCHANGED data ELSE Update(latest)
  /\ Draw(IF shouldQuit THEN "leave" ELSE "loop")
  /\ UNCHANGED <<tab, paused, shouldQuit, sortMode, showHelp, selection, latest, terminal>>

(* Mutant: quitting waits for the next turn of the loop. *)
KeyStays(k) ==
  /\ phase = "loop"
  /\ OnKey(k)
  /\ UNCHANGED <<data, latest, phase, terminal, failed>>

Key(k) ==
  /\ phase = "loop"
  /\ OnKey(k)
  /\ phase' = IF shouldQuit' THEN "leave" ELSE "loop"
  /\ UNCHANGED <<data, latest, terminal, failed>>

Resize ==
  /\ phase = "loop"
  /\ Draw("loop")
  /\ UNCHANGED <<app, latest, terminal>>

(* Mutant: an error of the event stream is returned with the ? operator. *)
StreamEndsAbruptly ==
  /\ phase = "loop"
  /\ phase' \in {"leave", "over"}
  /\ UNCHANGED <<app, latest, terminal, failed>>

(* The event stream ends or fails: the loop is left, with or without an
   error to return. *)
StreamEnds ==
  /\ phase = "loop"
  /\ phase' = "leave"
  /\ UNCHANGED <<app, latest, terminal, failed>>

(* After the loop. *)
DisableRaw ==
  /\ phase = "leave"
  /\ \/ Fail /\ UNCHANGED raw
     \/ raw' = FALSE /\ phase' = "restore" /\ UNCHANGED failed
  /\ UNCHANGED <<app, latest, alternate>>

LeaveAlternate ==
  /\ phase = "restore"
  /\ \/ Fail /\ alternate' \in BOOLEAN
     \/ alternate' = FALSE /\ phase' = "over" /\ UNCHANGED failed
  /\ UNCHANGED <<app, latest, raw>>

(* The snapshot task sends the next snapshot. *)
Publish ==
  /\ latest < Len(Snapshots)
  /\ latest' = latest + 1
  /\ UNCHANGED <<app, phase, terminal, failed>>

-----------------------------------------------------------------------------
Init ==
  /\ tab = "Overview"
  /\ paused = FALSE /\ shouldQuit = FALSE /\ showHelp = FALSE
  /\ raw = FALSE /\ alternate = FALSE /\ failed = FALSE
  /\ sortMode = "bytes"
  /\ flowSel = None /\ hostSel = None
  /\ liveOffset = 0
  /\ snapshot = 0
  /\ history = << >>
  /\ latest = 1
  /\ phase = "setup"

Next ==
  \/ EnableRaw \/ EnterAlternate \/ BuildTerminal
  \/ Redraw
  \/ \E k \in Keys : Key(k)
  \/ Resize
  \/ StreamEnds
  \/ DisableRaw \/ LeaveAlternate
  \/ Publish

Spec == Init /\ [][Next]_vars

(* The runtime polls the loop; select! takes the redraw tick in the end,
   however many events are ready.  Nothing makes a draw fail. *)
FairSpec ==
  /\ Spec
  /\ WF_vars(EnableRaw) /\ WF_vars(EnterAlternate) /\ WF_vars(BuildTerminal)
  /\ WF_vars(Redraw /\ UNCHANGED failed)
  /\ WF_vars(DisableRaw) /\ WF_vars(LeaveAlternate)

-----------------------------------------------------------------------------
(***************************************************************************)
(* A selection is a row of the displayed snapshot, whichever keys are      *)
(* pressed and however snapshots come and go meanwhile, except in a table  *)
(* without rows (app.rs select_next, select_prev, update).                 *)
(***************************************************************************)
SelectionInTable ==
  /\ FlowCount > 0 => flowSel < FlowCount
  /\ HostCount > 0 => hostSel < HostCount

(***************************************************************************)
(* Nothing published stays hidden: unless the user pauses or leaves, the   *)
(* screen gets to every snapshot or a later one (app.rs run).              *)
(***************************************************************************)
ScreenCatchesUp ==
  \A v \in DOMAIN Snapshots : (latest = v) ~> (snapshot >= v \/ paused \/ phase = "over")

(***************************************************************************)
(* The shell gets its terminal back on every way out of the loop: quit     *)
(* keys, the end of the input, an input error.  Only when the terminal     *)
(* itself fails are raw mode or the alternate screen left on (app.rs run). *)
(***************************************************************************)
TerminalRestored == phase = "over" /\ ~failed => ~raw /\ ~alternate

(***************************************************************************)
(* A quit key, when it is obeyed, ends run(), and without another turn of  *)
(* the loop: no key, tick or resize comes between.                         *)
(***************************************************************************)
QuitLeaves ==
  /\ [](shouldQuit => phase # "loop")
  /\ shouldQuit ~> (phase = "over")

=============================================================================
