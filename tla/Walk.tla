-------------------------------- MODULE Walk ---------------------------------
(***************************************************************************)
(* The tree walk of syssec (parser.rs: walk_recursive(), parser_parse_*()) *)
(* as syssec_check_deep_parse() runs it: /dev, then /sys, then the four    *)
(* directories of programs, whose walks are merged into one result.        *)
(*                                                                         *)
(* The recursion is a stack of open directories.  The file system changes  *)
(* under it: the names of a directory are read before each is looked up,   *)
(* and an entry is found to be a directory before it is opened.            *)
(*                                                                         *)
(* A path is a sequence of names that starts with a root; a root that is a *)
(* link stands for what it leads to.  A link is listed and not followed,   *)
(* unless it took the place of a directory after that was looked up: what  *)
(* lies behind it can be anything.  The output, the target of links, sizes *)
(* and device numbers are left out.                                        *)
(***************************************************************************)
EXTENDS Integers, FiniteSets, Sequences, SequencesExt

CONSTANTS
  Paths,      \* the paths there may be
  NotUtf8,    \* those whose last name is not UTF-8
  Trees,      \* the file systems to start with
  NewNodes,   \* what may appear while the walk is on, or lie behind a link
  MaxEntries, \* PARSER_MAX_ENTRIES (4096)
  MaxChanges, \* bound: changes to the file system
  Absent      \* no node at a path

Kinds == {"dir", "regular", "symlink", "char", "block", "fifo", "socket"}
Marks == {"setuid", "setgid", "worldWritable", "rootOwned"}
Node == [kind : Kinds, marks : SUBSET Marks]
Parent(path) == Front(path)

(* A path below a root has a directory above it, and a root is no link. *)
IsTree(t) ==
  \A p \in Paths : t[p] # Absent =>
    IF Len(p) > 1 THEN t[Parent(p)] # Absent /\ t[Parent(p)].kind = "dir"
    ELSE t[p].kind # "symlink"

ASSUME WalkAssumption ==
  /\ \A p \in Paths : p \in Seq(STRING) /\ p # << >> /\ (Len(p) > 1 => Parent(p) \in Paths)
  /\ NotUtf8 \subseteq Paths
  /\ Trees \subseteq [Paths -> Node \cup {Absent}] /\ \A t \in Trees : IsTree(t)
  /\ NewNodes \subseteq Node
  /\ MaxEntries \in Nat /\ MaxChanges \in Nat
  /\ Absent \notin Node

VARIABLES
  fs,      \* the file system
  changes, \* how often it changed
  jobs,    \* the trees still to parse, the current one first
  roots,   \* the directories of the current one still to walk
  stack,   \* the calls of walk_recursive(): a directory and its names still to come
  walking, \* whether parser_walk_dir() runs
  tmp,     \* the ParseResult it fills
  result,  \* the ParseResult of the current tree
  \* the checks' own records
  walked,  \* all entries found in the current tree
  calm     \* nothing changed and nothing failed while it was parsed

call == <<jobs, roots>>
vars == <<fs, changes, call, stack, walking, tmp, result, walked, calm>>

-----------------------------------------------------------------------------
(* parser_parse_dev(), parser_parse_sys() and parser_parse_bin(). *)
Job(name, depth, dirs) == [name |-> name, depth |-> depth, roots |-> dirs]
AllJobs ==
  <<Job("dev", 1, <<"dev">>), Job("sys", 3, <<"sys">>),
    Job("bin", 1, <<"bin", "sbin", "usr/bin", "usr/sbin">>)>>

(* The counters of ParseResult, one per kind and one per mark. *)
Counts == Kinds \cup Marks
Empty == [entries |-> << >>, counts |-> [c \in Counts |-> 0]]
Classes(node) == {node.kind} \cup node.marks

IsDir(p) == p \in Paths /\ fs[p] # Absent /\ fs[p].kind = "dir"
Children(dir) == {p \in Paths : Len(p) > 1 /\ Parent(p) = dir}
Names(dir) == {p \in Children(dir) : fs[p] # Absent}

(* Whether the system meets a link on its way to the end of a path, and what
   it can find where a path ends. *)
ThroughLink(path) ==
  \E n \in 1 .. Len(path) :
    LET p == SubSeq(path, 1, n) IN p \in Paths /\ fs[p] # Absent /\ fs[p].kind = "symlink"
Lookups(p) == IF ThroughLink(Parent(p)) THEN NewNodes \cup {Absent} ELSE {fs[p]}

Top == stack[Len(stack)]
Depth == Len(stack) - 1
Full(r) == Len(r.entries) >= MaxEntries
Frame(dir) == [dir |-> dir, opened |-> FALSE, rest |-> {}]

-----------------------------------------------------------------------------
Init ==
  /\ fs \in Trees /\ changes = 0
  /\ jobs = AllJobs /\ roots = AllJobs[1].roots
  /\ stack = << >> /\ walking = FALSE
  /\ tmp = Empty /\ result = Empty
  /\ walked = << >> /\ calm = TRUE

(* Mutant: a directory that is not there is waited for. *)
StartRootWaits ==
  /\ jobs # << >> /\ ~walking /\ roots # << >>
  /\ LET root == <<Head(roots)>>
     IN  /\ Head(jobs).name = "dev" \/ (root \in Paths /\ fs[root] # Absent)
         /\ stack' = <<Frame(root)>> /\ walking' = TRUE /\ tmp' = Empty
  /\ roots' = Tail(roots)
  /\ UNCHANGED <<fs, changes, jobs, result, walked, calm>>

(* The next directory of the tree.  /sys and the directories of programs are
   looked up first and passed over when they are not there; /dev is not, and
   cannot be opened then, which comes to the same. *)
StartRoot ==
  /\ jobs # << >> /\ ~walking /\ roots # << >>
  /\ roots' = Tail(roots)
  /\ LET root == <<Head(roots)>>
         there == root \in Paths /\ fs[root] # Absent
     IN  IF Head(jobs).name # "dev" /\ ~there
           THEN UNCHANGED <<stack, walking, tmp>>
           ELSE stack' = <<Frame(root)>> /\ walking' = TRUE /\ tmp' = Empty
  /\ UNCHANGED <<fs, changes, jobs, result, walked, calm>>

(* Mutant: the deepest directories are not entered. *)
TooDeepByOne == Head(jobs).depth > 0 /\ Depth >= Head(jobs).depth

(* walk_recursive() up to the loop: it returns at once when it is too deep or
   the result is full, and when the directory cannot be read. *)
TooDeep == Head(jobs).depth > 0 /\ Depth > Head(jobs).depth

PassOver ==
  /\ stack # << >> /\ ~Top.opened
  /\ TooDeep \/ Full(tmp)
  /\ stack' = Front(stack)
  /\ UNCHANGED <<fs, changes, call, walking, tmp, result, walked, calm>>

(* read_dir() follows a link that stands where a directory was looked up; in
   a tree at rest there is none. *)
Opened(names) == [Frame(Top.dir) EXCEPT !.opened = TRUE, !.rest = names]

OpenDir ==
  /\ stack # << >> /\ ~Top.opened
  /\ ~TooDeep /\ ~Full(tmp)
  /\ \/ /\ IsDir(Top.dir)
        /\ stack' = Append(Front(stack), Opened(Names(Top.dir)))
        /\ UNCHANGED calm
     \/ /\ ThroughLink(Top.dir)
        /\ \E names \in SUBSET Children(Top.dir) : stack' = Append(Front(stack), Opened(names))
        /\ calm' = FALSE
     \/ /\ stack' = Front(stack)
        /\ calm' = (calm /\ ~IsDir(Top.dir))
  /\ UNCHANGED <<fs, changes, call, walking, tmp, result, walked>>

(* The entry p of the top directory, whose name has been read: it is looked
   up, counted and listed; a directory is walked before the next name. *)
AddEntry(p, node) ==
  LET entry == [path |-> p, node |-> node]
      rest == [stack EXCEPT ![Len(stack)].rest = @ \ {p}]
      one(c) == IF c \in Classes(node) THEN 1 ELSE 0
  IN  IF node = Absent THEN stack' = rest /\ UNCHANGED <<tmp, walked>>
      ELSE /\ tmp' = [entries |-> Append(tmp.entries, entry),
                      counts |-> [c \in Counts |-> tmp.counts[c] + one(c)]]
           /\ walked' = Append(walked, entry)
           /\ stack' = IF node.kind = "dir" THEN Append(rest, Frame(p)) ELSE rest

(* Mutant: the list is found full one entry too late. *)
VisitTooMany ==
  /\ stack # << >> /\ Top.opened /\ Len(tmp.entries) <= MaxEntries
  /\ \E p \in Top.rest : p \notin NotUtf8 /\ \E node \in Lookups(p) : AddEntry(p, node)
  /\ UNCHANGED <<fs, changes, call, walking, result, calm>>

(* One turn of the loop over the names, in whatever order they come. *)
Visit ==
  /\ stack # << >> /\ Top.opened /\ ~Full(tmp)
  /\ \E p \in Top.rest : p \notin NotUtf8 /\ \E node \in Lookups(p) : AddEntry(p, node)
  /\ UNCHANGED <<fs, changes, call, walking, result, calm>>

(* A name that is not UTF-8, or that cannot be read. *)
SkipName ==
  /\ stack # << >> /\ Top.opened /\ ~Full(tmp)
  /\ \E p \in Top.rest :
       /\ stack' = [stack EXCEPT ![Len(stack)].rest = @ \ {p}]
       /\ calm' = (calm /\ p \in NotUtf8)
  /\ UNCHANGED <<fs, changes, call, walking, tmp, result, walked>>

(* The names are through, or the result is full. *)
Return ==
  /\ stack # << >> /\ Top.opened
  /\ Top.rest = {} \/ Full(tmp)
  /\ stack' = Front(stack)
  /\ UNCHANGED <<fs, changes, call, walking, tmp, result, walked, calm>>

(* Mutant: the counters go with the entries that still fit. *)
MergeAllOrNothing ==
  /\ walking /\ stack = << >>
  /\ result' = IF Len(result.entries \o tmp.entries) > MaxEntries THEN result
               ELSE [entries |-> result.entries \o tmp.entries,
                     counts |-> [c \in Counts |-> result.counts[c] + tmp.counts[c]]]
  /\ walking' = FALSE
  /\ UNCHANGED <<fs, changes, call, stack, tmp, walked, calm>>

(* The end of a walk.  Entries are taken over while they fit, the counters
   always.  (/dev and /sys are walked into the result itself, which is what
   taking over into an empty one gives.) *)
Merge ==
  /\ walking /\ stack = << >>
  /\ LET both == result.entries \o tmp.entries
     IN  result' = [entries |-> IF Len(both) > MaxEntries THEN SubSeq(both, 1, MaxEntries) ELSE both,
                    counts |-> [c \in Counts |-> result.counts[c] + tmp.counts[c]]]
  /\ walking' = FALSE
  /\ UNCHANGED <<fs, changes, call, stack, tmp, walked, calm>>

(* parser_print_result(), and on to the next tree. *)
Parsed == jobs # << >> /\ ~walking /\ roots = << >>

PrintResult ==
  /\ Parsed
  /\ jobs' = Tail(jobs)
  /\ roots' = IF Len(jobs) = 1 THEN << >> ELSE jobs[2].roots
  /\ result' = Empty /\ walked' = << >> /\ calm' = TRUE
  /\ UNCHANGED <<fs, changes, stack, walking, tmp>>

-----------------------------------------------------------------------------
(* The file system: a node appears, which an open directory may or may not
   still return, or a node goes with all that is below it. *)
Appear ==
  \E p \in Paths, node \in NewNodes :
    /\ fs[p] = Absent
    /\ fs' = [fs EXCEPT ![p] = node] /\ IsTree(fs')
    /\ \/ UNCHANGED stack
       \/ \E i \in DOMAIN stack :
            /\ Len(p) > 1 /\ stack[i].dir = Parent(p) /\ stack[i].opened
            /\ stack' = [stack EXCEPT ![i].rest = @ \cup {p}]

Vanish ==
  \E p \in Paths :
    /\ fs[p] # Absent
    /\ fs' = [q \in Paths |-> IF IsPrefix(p, q) THEN Absent ELSE fs[q]]
    /\ UNCHANGED stack

Change ==
  /\ jobs # << >> /\ changes < MaxChanges
  /\ Appear \/ Vanish
  /\ changes' = changes + 1
  /\ calm' = FALSE
  /\ UNCHANGED <<call, walking, tmp, result, walked>>

Step ==
  \/ StartRoot \/ PassOver \/ OpenDir \/ Visit \/ SkipName
  \/ Return \/ Merge \/ PrintResult

Next == Step \/ Change

Spec == Init /\ [][Next]_vars
FairSpec == Spec /\ WF_vars(Step)

-----------------------------------------------------------------------------
Entries == Seq([path : Paths, node : Node])
Results == [entries : Entries, counts : [Counts -> Nat]]

(* The directories a walk starts at, which need not be there. *)
Starts == {"dev", "sys", "bin", "sbin", "usr/bin", "usr/sbin"}
Dirs == Paths \cup {<<root>> : root \in Starts}

TypeOK ==
  /\ fs \in [Paths -> Node \cup {Absent}] /\ IsTree(fs)
  /\ changes \in 0 .. MaxChanges
  /\ IsSuffix(jobs, AllJobs)
  /\ jobs # << >> => IsSuffix(roots, Head(jobs).roots)
  /\ stack \in Seq([dir : Dirs, opened : BOOLEAN, rest : SUBSET Paths])
  /\ walking \in BOOLEAN /\ (stack # << >> => walking /\ jobs # << >>)
  /\ {tmp, result} \subseteq Results
  /\ Len(tmp.entries) <= MaxEntries /\ Len(result.entries) <= MaxEntries
  /\ walked \in Entries /\ calm \in BOOLEAN

Tally(entries) ==
  [c \in Counts |-> Cardinality({i \in DOMAIN entries : c \in Classes(entries[i].node)})]

(***************************************************************************)
(* What a summary prints belongs together, whatever changes under the      *)
(* walk: the counters of a walk are those of the entries it lists, and     *)
(* those of a merged tree are those of every entry found in it, the ones   *)
(* beyond PARSER_MAX_ENTRIES included, while the entries are the first of  *)
(* them.  Kinds add up to more than the entries only when the list is full *)
(* (parser.rs walk_recursive, parser_parse_bin).                           *)
(***************************************************************************)
SummaryAddsUp ==
  /\ tmp.counts = Tally(tmp.entries)
  /\ ~walking => /\ IsPrefix(result.entries, walked)
                 /\ Len(result.entries) < MaxEntries => result.entries = walked
                 /\ result.counts = Tally(walked)

(* What a walk should find: all that can be reached through directories and
   UTF-8 names, one level below the last that is entered. *)
Reachable ==
  {p \in Paths :
    /\ \E i \in DOMAIN Head(jobs).roots : p[1] = Head(jobs).roots[i]
    /\ Len(p) \in 2 .. Head(jobs).depth + 2
    /\ fs[p] # Absent
    /\ \A n \in 2 .. Len(p) : SubSeq(p, 1, n) \notin NotUtf8}

(***************************************************************************)
(* A tree that stands still is listed whole: nothing twice, nothing that   *)
(* is not there, a directory before what is in it, and nothing left out    *)
(* unless the list is full (parser.rs walk_recursive).                     *)
(***************************************************************************)
WalkIsComplete ==
  Parsed /\ calm =>
    LET list == result.entries
    IN  /\ {list[i].path : i \in DOMAIN list} \subseteq Reachable
        /\ \A i, j \in DOMAIN list : i < j => ~IsPrefix(list[j].path, list[i].path)
        /\ Len(list) < MaxEntries => Len(list) = Cardinality(Reachable)

(***************************************************************************)
(* The deep parse ends, also when names go and come while it is walking.   *)
(***************************************************************************)
WalkEnds == <>(jobs = << >>)

=============================================================================
