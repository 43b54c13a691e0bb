------------------------------ MODULE DirTree -------------------------------
(***************************************************************************)
(* dirtree.c (src/SP_LAB2): a walk over the directories named on the       *)
(* command line that prints their entries, sorted, and counts them.  Each  *)
(* directory is read twice, to count its entries and to store them; the    *)
(* entries stay in the buffer of the stream, that readdir fills again each *)
(* time it has handed out what is in it.  Others may create and remove     *)
(* files all the while.                                                    *)
(*                                                                         *)
(* A node is a number, and the order of the numbers is that of the names.  *)
(* Every node has a name of the same length, so an entry read again lies   *)
(* where an earlier one lay.  The output is a sequence of lines, records   *)
(* of what they show; pstr is a sequence of the pieces it is put together  *)
(* from.  Widths, and cutting what is too wide, are left out; with -v      *)
(* every file has size 1.                                                  *)
(***************************************************************************)
EXTENDS Integers, Sequences, SequencesExt, FiniteSetsExt

CONSTANTS Nodes,      \* the nodes there may be; the names' order is <
          Root,       \* the directory named by each path of the command line
          Disks,      \* the disks to begin with: where each node is, and its type
          Options,    \* the sets of options that may be given
          Paths,      \* how many paths the command line may name
          MAX_DIR,
          Block,      \* how many entries the buffer of a stream holds
          MaxChanges, \* bound: the nodes created or removed meanwhile
          MaxFaults   \* bound: how often a directory is unreadable, or memory runs out

Counted == {"dir", "reg", "lnk", "fifo", "sock"}
FileTypes == Counted \cup {"chr", "blk"}
FRESH  == -1   \* the place of a node that is not created yet
GONE   == -2   \* that of one that has been removed
DENIED == -3   \* "ERROR: Permission denied" in the place of a name

ASSUME DirTreeAssumption ==
  /\ Nodes \subseteq Nat /\ IsFiniteSet(Nodes) /\ Root \in Nat \ Nodes
  /\ Disks \subseteq [Nodes -> [in : Nodes \cup {Root, FRESH}, type : FileTypes]]
  /\ Options \subseteq SUBSET {"tree", "summary", "verbose"}
  /\ Paths \subseteq Nat /\ MAX_DIR \in Nat \ {0} /\ Block \in Nat \ {0}
  /\ MaxChanges \in Nat /\ MaxFaults \in Nat

VARIABLES disk, order,     \* the nodes, and their order in the directory files
          flags,           \* the options
          ndir, done,      \* the directories to process, and those processed
          pc,              \* main: "next", "walking" in processDir, "end" or "undefined"
          stack,           \* the calls of processDir_recursive
          streams,         \* how many directory streams are open
          rows,            \* the lines printed
          dstats, tstats,
          changes, faults  \* history: how much has changed, and failed, so far

fsVars == <<disk, order, flags, changes>>
dirTreeVars == <<fsVars, ndir, done, pc, stack, streams, rows, dstats, tstats, faults>>

NoStats == [t \in Counted \cup {"size"} |-> 0]

\* The command line: without a path the current directory; too many are ignored.
DirTreeInit ==
  /\ disk \in Disks /\ order \in {o \in [Nodes -> 1 .. Cardinality(Nodes)] : IsInjective(o)}
  /\ flags \in Options
  /\ \E n \in Paths : ndir = CASE n = 0 -> 1 [] n > MAX_DIR -> MAX_DIR [] OTHER -> n
  /\ done = 0 /\ pc = "next" /\ stack = <<>> /\ streams = 0 /\ rows = <<>>
  /\ dstats = NoStats /\ tstats = NoStats /\ changes = 0 /\ faults = 0

Exists(n)   == n \in {Root} \cup {m \in Nodes : disk[m].in \notin {FRESH, GONE}}
IsDir(n)    == n \in {Root} \cup {m \in Nodes : disk[m].type = "dir"}
Children(d) == {n \in Nodes : disk[n].in = d}

(***************************************************************************)
(* The others.                                                             *)
(***************************************************************************)
\* history: the directory has changed between the passes over it.
Notice(d) ==
  stack' = [k \in DOMAIN stack |->
    IF stack[k].dir = d /\ stack[k].at \in {"count", "store"}
    THEN [stack[k] EXCEPT !.changed = TRUE] ELSE stack[k]]

Change(n, where) ==
  /\ changes < MaxChanges /\ pc \notin {"end", "undefined"}
  /\ disk' = [disk EXCEPT ![n].in = where]
  /\ changes' = changes + 1
  /\ UNCHANGED <<order, flags, ndir, done, pc, streams, rows, dstats, tstats, faults>>

CreateFile(n, d) ==
  /\ disk[n].in = FRESH /\ Exists(d) /\ IsDir(d)
  /\ Change(n, d) /\ Notice(d)

RemoveFile(n) ==
  /\ Exists(n) /\ Children(n) = {}
  /\ Change(n, GONE) /\ Notice(disk[n].in)

(***************************************************************************)
(* The calls of processDir_recursive.  A frame: the directory and its      *)
(* pstr, how far the call is, the position and the buffer of the stream,   *)
(* count, entries as positions in that buffer, and i.                      *)
(***************************************************************************)
Frame(d, pstr) ==
  [dir |-> d, pstr |-> pstr, at |-> "open", pos |-> 0, buf |-> <<>>, count |-> 0,
   entries |-> <<>>, i |-> 1, changed |-> FALSE]

Top == Last(stack)
Doing(where) == pc = "walking" /\ stack # <<>> /\ Top.at = where
SetTop(frame) == Append(Front(stack), frame)
Fails == faults < MaxFaults /\ faults' = faults + 1

\* Variant: the stream is left open when there is no memory for the entries.
ClosedAtReturn_NotEarly(frame) == IF frame.at = "count" THEN 0 ELSE 1
ClosedAtReturn(frame) == IF frame.at = "open" THEN 0 ELSE 1

Return ==
  /\ stack' = Front(stack)
  /\ streams' = streams - ClosedAtReturn(Top)

\* handle_pstr: what stands before the name, and before the names below it (a
\* backtick is written as a quote).
Branch(last) == IF "tree" \notin flags THEN "  " ELSE IF last THEN "'-" ELSE "|-"

Stem(last) == IF "tree" \in flags /\ ~last THEN "| " ELSE "  "

TypeChar(t) ==
  CASE t = "dir" -> "d" [] t = "lnk" -> "l" [] t = "chr" -> "c" [] t = "blk" -> "b"
    [] t = "fifo" -> "f" [] t = "sock" -> "s" [] OTHER -> " "

\* print_row: with -v also what fstatat says, unless the file is gone.
Row(pstr, n) ==
  [pstr |-> pstr, name |-> n,
   info |-> IF "verbose" \notin flags THEN "" ELSE IF ~Exists(n) THEN "No such file"
            ELSE TypeChar(disk[n].type)]

ErrorRow(pstr) == [pstr |-> Append(pstr, Branch(TRUE)), name |-> DENIED, info |-> ""]

Header ==
  (IF "summary" \in flags THEN <<[titles |-> IF "verbose" \in flags THEN 5 ELSE 1]>> ELSE <<>>)
    \o <<[path |-> Root]>>

Shown(stats) == [t \in Counted \cup (IF "verbose" \in flags THEN {"size"} ELSE {}) |-> stats[t]]
RULER == [ruler |-> TRUE]
Footer(stats) == IF "summary" \in flags THEN <<RULER, [footer |-> Shown(stats)]>> ELSE <<>>

OpenDir ==
  /\ Doing("open") /\ Exists(Top.dir)
  /\ stack' = SetTop([Top EXCEPT !.at = "count"])
  /\ streams' = streams + 1
  /\ UNCHANGED <<fsVars, ndir, done, pc, rows, dstats, tstats, faults>>

\* Variant: only EACCES is taken for a failure.
OpenDirFails_Denied ==
  /\ Doing("open") /\ Exists(Top.dir) /\ Fails /\ Return
  /\ rows' = Append(rows, ErrorRow(Top.pstr))
  /\ UNCHANGED <<fsVars, ndir, done, pc, dstats, tstats>>

\* Only EACCES is reported.
OpenDirFails ==
  /\ Doing("open") /\ Return
  /\ \/ Exists(Top.dir) /\ Fails /\ rows' = Append(rows, ErrorRow(Top.pstr))
     \/ Exists(Top.dir) /\ Fails /\ rows' = rows
     \/ ~Exists(Top.dir) /\ UNCHANGED <<rows, faults>>
  /\ UNCHANGED <<fsVars, ndir, done, pc, dstats, tstats>>

Ahead(frame) == {n \in Children(frame.dir) : order[n] > frame.pos}

\* What the next call of getdents puts into the buffer: as many of the entries ahead
\* as it holds, each preceded by all that come before it.
NextBlocks(frame) ==
  LET ahead == Ahead(frame)
      size  == Min({Block, Cardinality(ahead)})
  IN {b \in [1 .. size -> ahead] : \A k \in 1 .. size, n \in ahead :
        order[n] < order[b[k]] <=> \E j \in 1 .. k - 1 : b[j] = n}

Filled(frame, b) ==
  [frame EXCEPT !.pos = order[Last(b)], !.buf = b \o SubSeq(@, Len(b) + 1, Len(@))]

\* readdir up to the end of the buffer, in the first pass and in the second.
CountEntries ==
  /\ Doing("count") /\ Ahead(Top) # {}
  /\ \E b \in NextBlocks(Top) :
       stack' = SetTop([Filled(Top, b) EXCEPT !.count = @ + Len(b)])
  /\ UNCHANGED <<fsVars, ndir, done, pc, streams, rows, dstats, tstats, faults>>

\* Variant: the stream is not rewound.
Rewound_Not(frame) == [frame EXCEPT !.at = "store"]
Rewound(frame) == [frame EXCEPT !.at = "store", !.pos = 0]

\* malloc(count) and rewinddir.
Rewind ==
  /\ Doing("count") /\ Ahead(Top) = {}
  /\ stack' = SetTop(Rewound(Top))
  /\ UNCHANGED <<fsVars, ndir, done, pc, streams, rows, dstats, tstats, faults>>

NoMemoryForEntries ==
  /\ Doing("count") /\ Ahead(Top) = {}
  /\ Fails /\ Return
  /\ UNCHANGED <<fsVars, ndir, done, pc, rows, dstats, tstats>>

\* An entry stored beyond the array: what happens then is not modelled.
StoreEntries ==
  /\ Doing("store") /\ Ahead(Top) # {}
  /\ \E b \in NextBlocks(Top) :
       LET stored == Top.entries \o [k \in DOMAIN b |-> k] IN
       IF Len(stored) > Top.count THEN pc' = "undefined" /\ UNCHANGED stack
       ELSE stack' = SetTop([Filled(Top, b) EXCEPT !.entries = stored]) /\ UNCHANGED pc
  /\ UNCHANGED <<fsVars, ndir, done, streams, rows, dstats, tstats, faults>>

\* dirent_compare

\* Variant: the entries are sorted by name only.
Precedes_ByName(m, n) == m < n
Precedes(m, n) == IF IsDir(m) # IsDir(n) THEN IsDir(m) ELSE m < n

\* The orders that qsort may leave the pointers in: none follows one it precedes.
Sorted(frame) ==
  LET places == DOMAIN frame.entries
      moved  == {[k \in places |-> frame.entries[p[k]]] :
                   p \in {q \in [places -> places] : IsInjective(q)}}
  IN {s \in moved : \A j, k \in places :
        j < k => ~Precedes(frame.buf[s[k]], frame.buf[s[j]])}

\* qsort over count pointers; those that were not stored point anywhere.
Sort ==
  /\ Doing("store") /\ Ahead(Top) = {}
  /\ IF Len(Top.entries) < Top.count THEN pc' = "undefined" /\ UNCHANGED stack
     ELSE /\ \E s \in Sorted(Top) :
               stack' = SetTop([Top EXCEPT !.at = "print", !.entries = s])
          /\ UNCHANGED pc
  /\ UNCHANGED <<fsVars, ndir, done, streams, rows, dstats, tstats, faults>>

\* update_dstats, and update_dstats_metadata if print_row has called fstatat.
WithNode(stats, n) ==
  LET sized == "verbose" \in flags /\ Exists(n) IN
  [t \in DOMAIN stats |-> stats[t] + IF t = disk[n].type \/ (t = "size" /\ sized) THEN 1 ELSE 0]

PrintRow ==
  /\ Doing("print") /\ Top.i <= Top.count
  /\ LET n == Top.buf[Top.entries[Top.i]]
         last == Top.i = Top.count
         next == SetTop([Top EXCEPT !.i = @ + 1])
     IN /\ rows' = Append(rows, Row(Append(Top.pstr, Branch(last)), n))
        /\ dstats' = WithNode(dstats, n)
        /\ stack' = IF IsDir(n) THEN Append(next, Frame(n, Append(Top.pstr, Stem(last)))) ELSE next
  /\ UNCHANGED <<fsVars, ndir, done, pc, streams, tstats, faults>>

\* asprintf fails: the rest of the directory is left out.
NoMemoryForRow ==
  /\ Doing("print") /\ Top.i <= Top.count
  /\ Fails /\ Return
  /\ UNCHANGED <<fsVars, ndir, done, pc, rows, dstats, tstats>>

CloseDir ==
  /\ Doing("print") /\ Top.i > Top.count
  /\ Return
  /\ UNCHANGED <<fsVars, ndir, done, pc, rows, dstats, tstats, faults>>

(***************************************************************************)
(* processDir and main.                                                    *)
(***************************************************************************)
\* Variant: the statistics of a directory are not reset.
StatsAtStart_Kept == dstats
StatsAtStart == NoStats

StartDir ==
  /\ pc = "next" /\ done < ndir
  /\ pc' = "walking" /\ stack' = <<Frame(Root, <<>>)>> /\ dstats' = StatsAtStart
  /\ rows' = rows \o Header
  /\ UNCHANGED <<fsVars, ndir, done, streams, tstats, faults>>

\* opendir fails at once: neither footer nor statistics.
SkipDir ==
  /\ pc = "next" /\ done < ndir /\ Fails
  /\ done' = done + 1
  /\ \E error \in {<<>>, <<ErrorRow(<<>>)>>} : rows' = rows \o Header \o error
  /\ UNCHANGED <<fsVars, ndir, pc, stack, streams, dstats, tstats>>

\* asprintf may fail in print_footer, after the ruler.
EndDir ==
  /\ pc = "walking" /\ stack = <<>>
  /\ tstats' = [t \in DOMAIN tstats |-> tstats[t] + dstats[t]]
  /\ done' = done + 1 /\ pc' = "next"
  /\ \/ rows' = rows \o Footer(dstats) /\ UNCHANGED faults
     \/ "summary" \in flags /\ Fails /\ rows' = Append(rows, RULER)
  /\ UNCHANGED <<fsVars, ndir, stack, streams, dstats>>

GrandTotal ==
  /\ pc = "next" /\ done = ndir
  /\ pc' = "end"
  /\ rows' = IF "summary" \in flags /\ ndir > 1
             THEN Append(rows, [directories |-> ndir, total |-> Shown(tstats)]) ELSE rows
  /\ UNCHANGED <<fsVars, ndir, done, stack, streams, dstats, tstats, faults>>

Walk == OpenDir \/ OpenDirFails \/ CountEntries \/ Rewind \/ NoMemoryForEntries
        \/ StoreEntries \/ Sort \/ PrintRow \/ NoMemoryForRow \/ CloseDir
        \/ StartDir \/ SkipDir \/ EndDir \/ GrandTotal

DirTreeNext ==
  \/ Walk
  \/ \E n \in Nodes : RemoveFile(n) \/ \E d \in Nodes \cup {Root} : CreateFile(n, d)

DirTreeSpec ==
  DirTreeInit /\ [][DirTreeNext]_dirTreeVars /\ WF_dirTreeVars(Walk)
-----------------------------------------------------------------------------
(* Properties *)

\* The lines of the tree as README.md (src/SP_LAB2) draws it: the entries of each
\* directory in alphabetical order, directories first and followed by their own.
Tree ==
  LET under[d \in Nodes \cup {Root}] ==
        LET names == SetToSortSeq({n \in Children(d) : IsDir(n)}, <)
                     \o SetToSortSeq({n \in Children(d) : ~IsDir(n)}, <)
        IN FlattenSeq([k \in DOMAIN names |->
             LET last  == k = Len(names)
                 lines == IF "tree" \in flags /\ ~last THEN <<"|-", "| ">>
                          ELSE IF "tree" \in flags THEN <<"'-", "  ">> ELSE <<"  ", "  ">>
                 below == IF IsDir(names[k]) THEN under[names[k]] ELSE <<>>
             IN <<Row(<<lines[1]>>, names[k])>>
                \o [r \in DOMAIN below |-> [below[r] EXCEPT !.pstr = <<lines[2]>> \o @]]])
  IN under[Root]

Lines(field) == {k \in DOMAIN rows : field \in DOMAIN rows[k]}
Listed ==
  SelectSeq(rows, LAMBDA r : DOMAIN r \cap {"path", "name"} # {})
    = FlattenSeq([k \in 1 .. ndir |-> <<[path |-> Root]>> \o Tree])

Undisturbed == changes = 0 /\ faults = 0

\* Every file is printed once for each path, in its place of the tree.
AllListed == pc = "end" /\ Undisturbed => Listed

\* So it is when the entries of each directory fit into the buffer of a stream:
\* positions, passes, sorting and recursion make no mistake by themselves.
SmallListed ==
  pc = "end" /\ Undisturbed /\ (\A d \in Nodes \cup {Root} : Cardinality(Children(d)) <= Block)
    => Listed

\* Memory is not misused, neither beyond the array nor by a pointer never stored,
\* unless somebody has changed the directory between the two passes over it.
ArrayFits == pc = "undefined" => Top.changed

\* Each call has at most its own stream open, and at the end, also after failures
\* at any point, all are closed.
StreamsClosed ==
  streams = Cardinality({k \in DOMAIN stack : stack[k].at # "open"})

\* Neither memory nor streams are misused, at any depth and after any failure.
WalkSound == ArrayFits /\ StreamsClosed

\* Every summary is that of the lines printed since the directory was begun, and
\* the grand total that of all, whatever failed or changed on the way; errors are
\* not counted, nor the size of a file that is gone.
Entries(from, to) == {k \in Lines("name") : from < k /\ k < to /\ rows[k].name \in Nodes}
Agrees(stats, entries) == \A t \in DOMAIN stats :
  stats[t] = Cardinality({k \in entries : IF t = "size" THEN rows[k].info \notin {"", "No such file"}
                                          ELSE disk[rows[k].name].type = t})
TotalsAgree ==
  /\ \A k \in Lines("footer") :
       Agrees(rows[k].footer, Entries(Max({j \in Lines("path") : j < k}), k))
  /\ \A k \in Lines("total") : Agrees(rows[k].total, Entries(0, k))
  /\ pc = "end" => Agrees(tstats, Entries(0, Len(rows) + 1))

\* A walk that has begun ends, unless it has gone astray, whatever the tree, the
\* failures and the changes: links are not followed.
WalkEnds == pc = "walking" ~> pc \in {"end", "undefined"}
=============================================================================
