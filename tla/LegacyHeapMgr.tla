--------------------------- MODULE LegacyHeapMgr ----------------------------
(***************************************************************************)
(* "heapmgr1 legacyt.c" (src/SP_LAB3/src): the step between heapmgrbase    *)
(* and heapmgr1.  Chunks have footers with the address of the previous     *)
(* free chunk, which nothing reads yet; the free list is still one list in *)
(* the order of addresses, and the search for neighbours still goes        *)
(* through it.                                                             *)
(*                                                                         *)
(* Memory is that of Chunks, and compiled with NDEBUG.  A chunk of units + *)
(* 2 is split for a request of units: what stays in the list has room for  *)
(* nothing but its header and footer.                                      *)
(***************************************************************************)
EXTENDS Integers, Functions, FiniteSetsExt, TLC

CONSTANTS MaxHeap,    \* what sbrk gives at most, in units
          MinGrow,    \* MEMALLOC_MIN
          UnitSize,   \* CHUNK_UNIT
          Sizes       \* what the program may ask for, in bytes

VARIABLES heap,   \* see Chunks; the one list is bins[1]
          live    \* history: the bytes the program asked for, by pointer in use

vars == <<heap, live>>

C == INSTANCE Chunks WITH ExpBins <- 0, FixedBins <- 0, Interval <- 1

NULL == C!NULL
DATA == [link |-> NULL, units |-> 0, status |-> "data"]
Init ==
  /\ heap = [mem |-> [a \in C!Addr |-> C!Fresh], end |-> 0, bins |-> <<NULL>>]
  /\ live = <<>>

Head(h) == h.bins[1]
SetHead(h, c) == C!SetHead(h, 1, c)
SizeToUnits(size) == (size + UnitSize - 1) \div UnitSize

(***************************************************************************)
(* Chunks and the free list.  chunk_set_units writes the header only, and  *)
(* so says where the footer is.                                            *)
(***************************************************************************)
SetUnits(h, c, n) == [h EXCEPT !.mem[c].units = n]

\* The footer of the chunk after, if there is one, is told its predecessor.
TellNext(h, next, prev) == IF next = NULL THEN h ELSE C!SetPrev(h, next, prev)

\* Variant: one header and footer is not counted.
MergeChunk_NoGap(h, c1, c2) ==
  LET next == h.mem[c2].link
      one  == SetUnits(C!Forget(h, {c2 - 1, c2}), c1, h.mem[c1].units + h.mem[c2].units)
  IN TellNext(C!SetNext(one, c1, next), next, c1)
MergeChunk(h, c1, c2) ==
  LET next == h.mem[c2].link
      one  == SetUnits(C!Forget(h, {c2 - 1, c2}), c1, h.mem[c1].units + h.mem[c2].units + 2)
  IN TellNext(C!SetNext(one, c1, next), next, c1)

\* The second part is the one that is taken.
SplitChunk(h, c, units) ==
  LET rest == h.mem[c].units - units - 2
      both == SetUnits(SetUnits(h, c, rest), c + rest + 2, units)
  IN TellNext(C!SetStatus(both, c + rest + 2, C!IN_USE), h.mem[c].link, c)

InsertChunk(h, c) ==
  LET first == Head(h)
      put   == C!SetPrev(C!SetNext(C!SetStatus(h, c, C!FREE), c, first), c, NULL)
      told  == TellNext(put, first, c)
      all   == IF first # NULL /\ C!NextAdjacent(told, c) = first
               THEN MergeChunk(told, c, first) ELSE told
  IN SetHead(all, c)

InsertChunkAfter(h, e, c) ==
  LET put   == C!SetStatus(C!SetNext(C!SetNext(h, c, h.mem[e].link), e, c), c, C!FREE)
      joins == C!NextAdjacent(h, e) = c
      lower == IF joins THEN MergeChunk(put, e, c) ELSE put
      n     == C!NextAdjacent(h, c)
  IN IF C!IsFree(h, n) THEN MergeChunk(lower, IF joins THEN e ELSE c, n) ELSE lower

RemoveChunk(h, prev, c) ==
  LET next == h.mem[c].link
      out  == IF prev = NULL THEN SetHead(h, next) ELSE C!SetNext(h, prev, next)
  IN C!SetStatus(C!SetNext(out, c, NULL), c, C!IN_USE)

FreeList(h) ==
  LET at[i \in 0 .. MaxHeap] ==
        IF i = 0 THEN Head(h) ELSE LET c == at[i - 1] IN IF c = NULL THEN NULL ELSE h.mem[c].link
  IN at

\* The first element that is in S, or NULL, and the one before it.
FirstIn(h, S) ==
  LET list == FreeList(h)
      i == Min({i \in DOMAIN list : list[i] \in S \union {NULL}})
  IN [c |-> list[i], prev |-> IF i = 0 THEN NULL ELSE list[i - 1]]

(***************************************************************************)
(* heapmgr_malloc and heapmgr_free.  The program writes what it asked for. *)
(***************************************************************************)
Written(p, size) == p .. p + SizeToUnits(size) - 1

Return(h, c, size) ==
  /\ heap' = [h EXCEPT !.mem = [a \in C!Addr |->
                IF a \in Written(c + 1, size) THEN DATA ELSE h.mem[a]]]
  /\ live' = live @@ (c + 1 :> size)

Take(h, prev, c, units, size) ==
  IF h.mem[c].units > units + 1
  THEN Return(SplitChunk(h, c, units), c + h.mem[c].units - units, size)
  ELSE Return(RemoveChunk(h, prev, c), c, size)

Fitting(units) == FirstIn(heap, {c \in C!Addr : heap.mem[c].units >= units})

MallocFinds(size) ==
  LET units == SizeToUnits(size)   found == Fitting(units)
  IN found.c # NULL /\ Take(heap, found.prev, found.c, units, size)

\* allocate_more_memory puts the new chunk at the end of the list, where it may
\* be merged with the last element, prev.
MallocGrows(size) ==
  LET units == SizeToUnits(size)
      n     == C!GrowBy(units)
      prev  == Fitting(units).prev
      pprev == FirstIn(heap, {prev}).prev
      more  == C!SetStatus(SetUnits([heap EXCEPT !.end = @ + n + 2], heap.end, n),
                           heap.end, C!IN_USE)
      grown == IF prev = NULL THEN InsertChunk(more, heap.end)
               ELSE InsertChunkAfter(more, prev, heap.end)
      c     == FirstIn(grown, {}).prev
  IN /\ Fitting(units).c = NULL /\ heap.end + n + 2 <= MaxHeap
     /\ Take(grown, IF c = prev THEN pprev ELSE prev, c, units, size)

Free(p) ==
  LET c    == p - 1
      prev == FirstIn(heap, p .. MaxHeap).prev
      h    == C!Forget(heap, Written(p, live[p]))
  IN /\ heap' = IF prev = NULL THEN InsertChunk(h, c) ELSE InsertChunkAfter(h, prev, c)
     /\ live' = Restrict(live, DOMAIN live \ {p})

Next == \/ \E size \in Sizes : size > 0 /\ (MallocFinds(size) \/ MallocGrows(size))
        \/ \E p \in DOMAIN live : Free(p)

Spec == Init /\ [][Next]_vars
-----------------------------------------------------------------------------
(* Properties *)

FirstOf(S, default) == IF S = {} THEN default ELSE Min(S)

\* The headers, found by going from each to the next.
Headers ==
  LET at[i \in 0 .. MaxHeap] ==
        IF i = 0 THEN 0
        ELSE LET c == at[i - 1] IN IF c >= heap.end THEN heap.end ELSE c + heap.mem[c].units + 2
  IN Range(at) \ {heap.end}

\* Headers, footers and the program's data keep out of each other's way; the
\* chunks in use are the program's; and the free list is the free chunks,
\* the empty ones included, in the order of their addresses, no two of them
\* neighbours.
ListInOrder ==
  LET free == {c \in Headers : C!IsFree(heap, c)}
      After(c) == FirstOf({d \in free : d > c}, NULL)
  IN /\ \A c \in Headers : C!Footer(heap, c) < heap.end
     /\ DOMAIN live = {c + 1 : c \in Headers \ free}
     /\ \A p \in DOMAIN live : \A a \in Written(p, live[p]) : heap.mem[a] = DATA
     /\ Head(heap) = FirstOf(free, NULL)
     /\ \A c \in free : /\ heap.mem[c].link = After(c)
                        /\ C!NextAdjacent(heap, c) \notin free
=============================================================================
