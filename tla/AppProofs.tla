------------------------------ MODULE AppProofs ------------------------------
(***************************************************************************)
(* Proofs about App, for any sequence of snapshots that grow, any keys and *)
(* any page.                                                               *)
(*                                                                         *)
(* SelectionInTable is not inductive: a key pressed while a table is empty *)
(* selects its first row, and the row is there only when a later snapshot  *)
(* has one.  Selections says what is true of every table; that no snapshot *)
(* is older than the one before it needs the watch channel in it, too.     *)
(***************************************************************************)
EXTENDS App, TLAPS

(* A selection, if any, is the first row or one of n rows. *)
Fits(sel, n) == sel <= 0 \/ sel < n

Selections ==
  /\ snapshot <= latest
  /\ Fits(flowSel, FlowCount) /\ Fits(hostSel, HostCount)

(* What each phase of run() has done to the terminal. *)
Modes ==
  /\ phase = "setup" => ~raw /\ ~alternate
  /\ phase = "enter" => ~alternate
  /\ phase = "restore" => ~raw
  /\ phase = "over" /\ ~failed => ~raw /\ ~alternate

Inv == TypeOK /\ Selections

LEMMA SnapshotType ==
  /\ DOMAIN Snapshots = 1 .. Len(Snapshots) /\ Len(Snapshots) \in Nat \ {0}
  /\ \A v \in DOMAIN Snapshots : Snapshots[v] \in [flows : Nat, hosts : Nat, rate : Nat]
<1> DEFINE S == [flows : Nat, hosts : Nat, rate : Nat]
<1>1. Snapshots \in Seq(S) /\ Snapshots # << >>
  BY AppAssumption
<1> HIDE DEF S
<1>2. /\ DOMAIN Snapshots = 1 .. Len(Snapshots) /\ Len(Snapshots) \in Nat \ {0}
      /\ \A v \in DOMAIN Snapshots : Snapshots[v] \in S
  BY <1>1
<1> QED
  BY <1>2 DEF S

LEMMA Counts ==
  ASSUME TypeOK
  PROVE  FlowCount \in Nat /\ HostCount \in Nat
<1>1. CASE snapshot = 0
  BY <1>1 DEF FlowCount, HostCount
<1>2. CASE snapshot # 0
  <2>1. snapshot \in DOMAIN Snapshots
    BY <1>2, SnapshotType DEF TypeOK
  <2>2. Snapshots[snapshot] \in [flows : Nat, hosts : Nat, rate : Nat]
    BY <2>1, SnapshotType
  <2> QED
    BY <1>2, <2>2 DEF FlowCount, HostCount
<1> QED
  BY <1>1, <1>2

(* Moving a selection keeps it in the table. *)
LEMMA SelectFits ==
  ASSUME NEW sel \in Nat \cup {None}, NEW n \in Nat \ {0}, NEW len \in Nat, Fits(sel, len)
  PROVE  /\ SelectNext(sel, n, len) \in Nat \cup {None} /\ Fits(SelectNext(sel, n, len), len)
         /\ SelectPrev(sel, n) \in Nat \cup {None} /\ Fits(SelectPrev(sel, n), len)
BY DEF Fits, SelectNext, SelectPrev, Smaller, Floor, None

LEMMA ScrollFits ==
  ASSUME Inv, NEW n \in Nat \ {0}, ScrollDownBy(n) \/ ScrollUpBy(n)
  PROVE  /\ flowSel' \in Nat \cup {None} /\ hostSel' \in Nat \cup {None}
         /\ liveOffset' \in 0 .. MaxOffset
         /\ Fits(flowSel', FlowCount) /\ Fits(hostSel', HostCount)
<1>1. FlowCount \in Nat /\ HostCount \in Nat
  BY Counts DEF Inv
<1>2. liveOffset' \in 0 .. MaxOffset
  <2>1. liveOffset \in 0 .. MaxOffset /\ MaxOffset \in Nat
    BY AppAssumption DEF Inv, TypeOK
  <2>2. CASE ScrollDownBy(n)
    BY <2>1, <2>2 DEF ScrollDownBy, Smaller
  <2>3. CASE ScrollUpBy(n)
    BY <2>1, <2>3 DEF ScrollUpBy, Floor
  <2> QED
    BY <2>2, <2>3
<1>3. /\ SelectNext(flowSel, n, FlowCount) \in Nat \cup {None}
      /\ Fits(SelectNext(flowSel, n, FlowCount), FlowCount)
      /\ SelectPrev(flowSel, n) \in Nat \cup {None} /\ Fits(SelectPrev(flowSel, n), FlowCount)
  BY <1>1, SelectFits DEF Inv, TypeOK, Selections
<1>4. /\ SelectNext(hostSel, n, HostCount) \in Nat \cup {None}
      /\ Fits(SelectNext(hostSel, n, HostCount), HostCount)
      /\ SelectPrev(hostSel, n) \in Nat \cup {None} /\ Fits(SelectPrev(hostSel, n), HostCount)
  BY <1>1, SelectFits DEF Inv, TypeOK, Selections
<1> QED
  BY <1>2, <1>3, <1>4 DEF Inv, TypeOK, Selections, ScrollDownBy, ScrollUpBy

(* A place in a ring, some steps further on. *)
LEMMA AfterType ==
  ASSUME NEW s, NEW len \in Nat \ {0}, Len(s) = len, DOMAIN s = 1 .. len,
         NEW x \in Range(s), NEW n \in Nat
  PROVE  After(s, x, n) \in Range(s)
<1>1. PICK i \in DOMAIN s : i = CHOOSE j \in DOMAIN s : s[j] = x
  BY DEF Range
<1>2. ((i - 1 + n) % len) + 1 \in DOMAIN s
  BY <1>1
<1> QED
  BY <1>1, <1>2 DEF After, Range

LEMMA Rings ==
  /\ Len(Tabs) = 5 /\ DOMAIN Tabs = 1 .. 5 /\ "Overview" \in Range(Tabs)
  /\ Len(SortModes) = 3 /\ DOMAIN SortModes = 1 .. 3 /\ "bytes" \in Range(SortModes)
<1>1. Len(Tabs) = 5 /\ DOMAIN Tabs = 1 .. 5 /\ Tabs[1] = "Overview"
  BY DEF Tabs
<1>2. Len(SortModes) = 3 /\ DOMAIN SortModes = 1 .. 3 /\ SortModes[1] = "bytes"
  BY DEF SortModes
<1> QED
  BY <1>1, <1>2 DEF Range

LEMMA PushHistType ==
  ASSUME NEW q \in Seq(Nat), Len(q) <= HistCap, NEW v \in Nat
  PROVE  PushHist(q, v) \in Seq(Nat) /\ Len(PushHist(q, v)) <= HistCap
<1>1. HistCap \in Nat \ {0}
  BY AppAssumption
<1>2. CASE Len(q) = HistCap
  <2>1. q # << >>
    BY <1>1, <1>2
  <2>2. Tail(q) \in Seq(Nat) /\ Len(Tail(q)) = Len(q) - 1
    BY <2>1
  <2> QED
    BY <1>1, <1>2, <2>2 DEF PushHist
<1>3. CASE Len(q) # HistCap
  BY <1>1, <1>3 DEF PushHist
<1> QED
  BY <1>2, <1>3

-----------------------------------------------------------------------------
LEMMA InvInit == Init => Inv /\ Modes
<1> SUFFICES ASSUME Init PROVE Inv /\ Modes
  OBVIOUS
<1>1. TypeOK
  <2>1. liveOffset \in 0 .. MaxOffset /\ history \in Seq(Nat) /\ Len(history) <= HistCap
    BY AppAssumption DEF Init
  <2>2. {paused, shouldQuit, showHelp, raw, alternate, failed} \subseteq BOOLEAN
    BY DEF Init
  <2>3. snapshot \in 0 .. Len(Snapshots) /\ latest \in 1 .. Len(Snapshots)
    BY SnapshotType DEF Init
  <2> QED
    BY <2>1, <2>2, <2>3, Rings DEF Init, TypeOK
<1>2. Selections /\ Modes
  BY DEF Init, Selections, Fits, None, Modes
<1> QED
  BY <1>1, <1>2 DEF Inv

(* A key moves selections and changes the state of the interface, nothing else. *)
LEMMA KeyKeepsInv ==
  ASSUME Inv, NEW k \in Keys, Key(k)
  PROVE  Inv'
<1>1. /\ phase = "loop" /\ OnKey(k) /\ phase' \in {"loop", "leave"}
      /\ UNCHANGED <<data, latest, terminal, failed>>
  BY DEF Key
<1>2. FlowCount' = FlowCount /\ HostCount' = HostCount
  BY <1>1 DEF data, FlowCount, HostCount
<1>3. \/ UNCHANGED selection
      \/ \E n \in Nat \ {0} : ScrollDownBy(n) \/ ScrollUpBy(n)
  <2>1. 1 \in Nat \ {0} /\ Page \in Nat \ {0}
    BY AppAssumption
  <2>2. \/ UNCHANGED selection
        \/ ScrollDownBy(1) \/ ScrollUpBy(1) \/ ScrollDownBy(Page) \/ ScrollUpBy(Page)
    BY <1>1, Zenon DEF OnKey, Act
  <2> QED
    BY <2>1, <2>2
<1>4. /\ flowSel' \in Nat \cup {None} /\ hostSel' \in Nat \cup {None}
      /\ liveOffset' \in 0 .. MaxOffset
      /\ Fits(flowSel', FlowCount) /\ Fits(hostSel', HostCount)
  <2>1. CASE UNCHANGED selection
    BY <2>1 DEF selection, Inv, TypeOK, Selections
  <2>2. CASE \E n \in Nat \ {0} : ScrollDownBy(n) \/ ScrollUpBy(n)
    BY <2>2, ScrollFits
  <2> QED
    BY <1>3, <2>1, <2>2
<1>5. tab' \in Range(Tabs)
  <2>1. tab \in Range(Tabs)
    BY DEF Inv, TypeOK
  <2>2. After(Tabs, tab, 1) \in Range(Tabs) /\ After(Tabs, tab, Len(Tabs) - 1) \in Range(Tabs)
    <3>1. 5 \in Nat \ {0} /\ 1 \in Nat /\ Len(Tabs) - 1 \in Nat
      BY Rings
    <3> QED
      BY <2>1, <3>1, Rings, AfterType, Zenon
  <2>3. \A i \in DOMAIN Tabs : Tabs[i] \in Range(Tabs)
    BY DEF Range
  <2>4. \/ tab' = tab \/ tab' = After(Tabs, tab, 1) \/ tab' = After(Tabs, tab, Len(Tabs) - 1)
        \/ \E i \in DOMAIN Tabs : tab' = Tabs[i]
    <3>1. CASE showHelp
      BY <1>1, <3>1 DEF OnKey
    <3>2. CASE ~showHelp
      BY <1>1, <3>2 DEF OnKey, Act
    <3> QED
      BY <3>1, <3>2
  <2> QED
    BY <2>1, <2>2, <2>3, <2>4
<1>6. sortMode' \in Range(SortModes)
  <2>1. sortMode \in Range(SortModes)
    BY DEF Inv, TypeOK
  <2>2. After(SortModes, sortMode, 1) \in Range(SortModes)
    <3>1. 3 \in Nat \ {0} /\ 1 \in Nat
      OBVIOUS
    <3> QED
      BY <2>1, <3>1, Rings, AfterType, Zenon
  <2>3. sortMode' = sortMode \/ sortMode' = After(SortModes, sortMode, 1)
    <3>1. CASE showHelp
      BY <1>1, <3>1 DEF OnKey
    <3>2. CASE ~showHelp
      BY <1>1, <3>2 DEF OnKey, Act
    <3> QED
      BY <3>1, <3>2
  <2> QED
    BY <2>1, <2>2, <2>3
<1>7. {paused', shouldQuit', showHelp'} \subseteq BOOLEAN
  BY <1>1 DEF OnKey, Act, Inv, TypeOK
<1>8. TypeOK'
  BY <1>1, <1>4, <1>5, <1>6, <1>7 DEF data, terminal, Inv, TypeOK
<1>9. Selections'
  BY <1>1, <1>2, <1>4 DEF data, Inv, Selections, Fits
<1> QED
  BY <1>8, <1>9 DEF Inv

(* A draw may bring a newer snapshot, whose tables are no shorter. *)
LEMMA RedrawKeepsInv ==
  ASSUME Inv, Redraw
  PROVE  Inv'
<1>1. /\ phase' \in {"loop", "leave", "over"} /\ failed' \in {failed, TRUE}
      /\ UNCHANGED <<tab, paused, shouldQuit, sortMode, showHelp, selection, latest, terminal>>
  BY DEF Redraw, Draw, Fail
<1>2. CASE UNCHANGED data
  <2>1. FlowCount' = FlowCount /\ HostCount' = HostCount
    BY <1>2 DEF data, FlowCount, HostCount
  <2>2. TypeOK'
    BY <1>1, <1>2 DEF data, selection, terminal, Inv, TypeOK
  <2>3. Selections'
    BY <1>1, <1>2, <2>1 DEF data, selection, Inv, Selections, Fits
  <2> QED
    BY <2>2, <2>3 DEF Inv
<1>3. CASE Update(latest)
  <2>1. latest \in DOMAIN Snapshots /\ snapshot \in 0 .. latest
    BY SnapshotType DEF Inv, TypeOK, Selections
  <2>2. Snapshots[latest] \in [flows : Nat, hosts : Nat, rate : Nat]
    BY <2>1, SnapshotType
  <2>3. history' \in Seq(Nat) /\ Len(history') <= HistCap
    BY <1>3, <2>2, PushHistType DEF Update, Inv, TypeOK
  <2>4. snapshot' = latest
    BY <1>3 DEF Update
  <2>5. TypeOK'
    <3>1. {paused', shouldQuit', showHelp', raw', alternate', failed'} \subseteq BOOLEAN
      BY <1>1 DEF terminal, Inv, TypeOK
    <3>2. snapshot' \in 0 .. Len(Snapshots)
      BY <2>1, <2>4, SnapshotType
    <3> QED
      BY <1>1, <2>3, <3>1, <3>2 DEF selection, Inv, TypeOK
  <2>6. FlowCount <= FlowCount' /\ HostCount <= HostCount'
    <3>1. CASE snapshot = 0
      BY <2>1, <2>2, <2>4, <3>1 DEF FlowCount, HostCount
    <3>2. CASE snapshot # 0
      <4>1. snapshot \in DOMAIN Snapshots /\ snapshot <= latest /\ latest # 0
        BY <2>1, <3>2, SnapshotType
      <4>2. /\ Snapshots[snapshot].flows <= Snapshots[latest].flows
            /\ Snapshots[snapshot].hosts <= Snapshots[latest].hosts
        BY <2>1, <4>1, AppAssumption
      <4> QED
        BY <2>4, <3>2, <4>1, <4>2 DEF FlowCount, HostCount
    <3> QED
      BY <3>1, <3>2
  <2>7. FlowCount \in Nat /\ HostCount \in Nat /\ FlowCount' \in Nat /\ HostCount' \in Nat
    BY <2>1, <2>2, <2>4, Counts, SnapshotType DEF Inv, FlowCount, HostCount
  <2>8. Selections'
    BY <1>1, <2>1, <2>4, <2>6, <2>7 DEF selection, Inv, TypeOK, Selections, Fits, None
  <2> QED
    BY <2>5, <2>8 DEF Inv
<1> QED
  BY <1>2, <1>3 DEF Redraw

(* The calls on the terminal, the end of its input and the snapshot task. *)
LEMMA OthersKeepInv ==
  ASSUME Inv, \/ EnableRaw \/ EnterAlternate \/ BuildTerminal \/ Resize \/ StreamEnds
              \/ DisableRaw \/ LeaveAlternate \/ Publish
  PROVE  Inv'
<1>1. UNCHANGED <<tab, paused, shouldQuit, sortMode, showHelp, flowSel, hostSel, liveOffset,
                  snapshot, history>>
  BY DEF EnableRaw, EnterAlternate, BuildTerminal, Resize, StreamEnds, DisableRaw,
         LeaveAlternate, Publish, app, selection, data
<1>2. {raw', alternate', failed'} \subseteq BOOLEAN
  BY DEF EnableRaw, EnterAlternate, BuildTerminal, Resize, Draw, StreamEnds, DisableRaw,
         LeaveAlternate, Publish, Fail, terminal, Inv, TypeOK
<1>3. phase' \in {"setup", "enter", "build", "loop", "leave", "restore", "over"}
  BY DEF EnableRaw, EnterAlternate, BuildTerminal, Resize, Draw, StreamEnds, DisableRaw,
         LeaveAlternate, Publish, Fail, Inv, TypeOK
<1>4. latest' \in 1 .. Len(Snapshots) /\ latest <= latest'
  BY SnapshotType DEF EnableRaw, EnterAlternate, BuildTerminal, Resize, StreamEnds, DisableRaw,
         LeaveAlternate, Publish, Inv, TypeOK
<1>5. FlowCount' = FlowCount /\ HostCount' = HostCount
  BY <1>1 DEF FlowCount, HostCount
<1>6. TypeOK'
  BY <1>1, <1>2, <1>3, <1>4 DEF Inv, TypeOK
<1>7. Selections'
  BY <1>1, <1>4, <1>5 DEF Inv, TypeOK, Selections, Fits
<1> QED
  BY <1>6, <1>7 DEF Inv

LEMMA NextKeepsInv ==
  ASSUME Inv, [Next]_vars
  PROVE  Inv'
<1>1. CASE UNCHANGED vars
  <2>1. UNCHANGED <<tab, paused, shouldQuit, sortMode, showHelp, flowSel, hostSel, liveOffset,
                    snapshot, history, latest, phase, raw, alternate, failed>>
    BY <1>1 DEF vars, app, selection, data, terminal
  <2> QED
    BY <2>1 DEF Inv, TypeOK, Selections, Fits, FlowCount, HostCount
<1>2. CASE Next
  BY <1>2, KeyKeepsInv, RedrawKeepsInv, OthersKeepInv DEF Next
<1> QED
  BY <1>1, <1>2

LEMMA NextKeepsModes ==
  ASSUME TypeOK, Modes, [Next]_vars
  PROVE  Modes'
<1>1. CASE UNCHANGED vars
  BY <1>1 DEF vars, terminal, Modes
<1>2. CASE EnableRaw \/ EnterAlternate \/ BuildTerminal
  BY <1>2 DEF EnableRaw, EnterAlternate, BuildTerminal, Fail, Modes
<1>3. CASE Redraw \/ Resize \/ StreamEnds
  BY <1>3 DEF Redraw, Resize, StreamEnds, Draw, Fail, Modes
<1>4. CASE \E k \in Keys : Key(k)
  BY <1>4 DEF Key, Modes
<1>5. CASE DisableRaw \/ LeaveAlternate
  BY <1>5 DEF DisableRaw, LeaveAlternate, Fail, Modes
<1>6. CASE Publish
  BY <1>6 DEF Publish, terminal, Modes
<1> QED
  BY <1>1, <1>2, <1>3, <1>4, <1>5, <1>6 DEF Next

(***************************************************************************)
(* The state of the interface is well formed: the tab is a tab, the        *)
(* histories are bounded (app.rs on_key, push_hist, run).                  *)
(***************************************************************************)
THEOREM TypeCorrect == Spec => []TypeOK
<1>1. Inv => TypeOK
  BY DEF Inv
<1> QED
  BY <1>1, InvInit, NextKeepsInv, PTL DEF Spec

(***************************************************************************)
(* Whatever the keys and however the tables grow, a selection is a row     *)
(* of a table that has rows (app.rs select_next, select_prev, update).     *)
(***************************************************************************)
THEOREM SelectionsAreRows == Spec => []SelectionInTable
<1>1. Inv => SelectionInTable
  <2> SUFFICES ASSUME Inv PROVE SelectionInTable
    OBVIOUS
  <2>1. FlowCount \in Nat /\ HostCount \in Nat
    BY Counts DEF Inv
  <2> QED
    BY <2>1 DEF Inv, TypeOK, Selections, Fits, SelectionInTable, None
<1> QED
  BY <1>1, InvInit, NextKeepsInv, PTL DEF Spec

(***************************************************************************)
(* Unless the terminal itself fails, run() never returns with raw mode or  *)
(* the alternate screen on (app.rs run).                                   *)
(***************************************************************************)
THEOREM TheTerminalIsGivenBack == Spec => []TerminalRestored
<1>1. Modes => TerminalRestored
  BY DEF Modes, TerminalRestored
<1>2. Init => Modes
  BY InvInit
<1>3. TypeOK /\ Modes /\ [Next]_vars => Modes'
  BY NextKeepsModes
<1> QED
  BY <1>1, <1>2, <1>3, TypeCorrect, PTL DEF Spec

=============================================================================
