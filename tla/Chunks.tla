------------------------------- MODULE Chunks -------------------------------
(***************************************************************************)
(* The memory of the heap managers of src/SP_LAB3 and the operations on    *)
(* chunks and free lists that both are made of (chunk.c, and the functions *)
(* of the same name in heapmgr1.c and heapmgr2.c).                         *)
(*                                                                         *)
(* Memory is an array of units of CHUNK_UNIT bytes.  A unit is a chunk's   *)
(* header (link = next), its footer (link = prev), or part of its data.    *)
(* A heap is a record: mem, the end of what sbrk has given, the heads of   *)
(* the free lists, and the library the program is linked with.             *)
(*                                                                         *)
(* What the managers leave behind inside a chunk (a footer and a header    *)
(* between merged chunks, freed data) is forgotten: it becomes what sbrk's *)
(* fresh memory is, a free header of 0 units, which nothing may take for a *)
(* chunk.                                                                  *)
(***************************************************************************)
EXTENDS Integers, Functions, FiniteSetsExt

CONSTANTS MaxHeap,      \* what sbrk gives at most, in units
          MinGrow,      \* MEMALLOC_MIN
          ExpBins,      \* EXPONENTIAL_BINS
          FixedBins,    \* FIXED_BINS
          Interval      \* FIXED_BLOCK_INTERVAL

ASSUME ChunksAssumption ==
  /\ MaxHeap \in Nat /\ MinGrow \in Nat \ {0}
  /\ ExpBins \in Nat \ {0} /\ FixedBins \in Nat /\ Interval \in Nat \ {0}

Addr == 0 .. MaxHeap - 1
MaxChunks == MaxHeap \div 3   \* a header, a unit of data and a footer each
NULL == -1
FREE == "free"      \* 0, which is also what sbrk's fresh memory holds
IN_USE == "in use"

Fresh == [link |-> NULL, units |-> 0, status |-> FREE]

Forget(h, cells) ==
  [h EXCEPT !.mem = [a \in Addr |-> IF a \in cells THEN Fresh ELSE @[a]]]

(***************************************************************************)
(* The bins.  heapmgr1 has one list; heapmgr2 has bins for chunks of up to *)
(* 1, 2, 4, ... units, then bins of Interval sizes each, then one for the  *)
(* rest.                                                                   *)
(***************************************************************************)
\* 1, and twice as much from one bin to the next (1 << i).
ExpSizes[b \in 1 .. ExpBins] == IF b = 1 THEN 1 ELSE 2 * ExpSizes[b - 1]
ExpSize(b) == ExpSizes[b]

MaxExp     == ExpSize(ExpBins)
MinFixed   == MaxExp + 1
MaxFixed   == MaxExp + FixedBins * Interval
Exp(lib)   == IF lib = 2 THEN 1 .. ExpBins ELSE {}
Fixed(lib) == IF lib = 2 THEN ExpBins + 1 .. ExpBins + FixedBins ELSE {}
Large      == ExpBins + FixedBins + 1
Bins(lib)  == Exp(lib) \cup Fixed(lib) \cup {Large}

FixedTop(b) == MinFixed + (b - ExpBins) * Interval - 1

FindBin(lib, units) ==
  Min({b \in Exp(lib) : units <= ExpSize(b)} \cup
      {b \in Fixed(lib) : units <= FixedTop(b)} \cup {Large})

\* Variant: only the chunk's own bin is searched.
Searched_OwnBin(lib, units) == {FindBin(lib, units)}

\* The bins find_best_fit_chunk looks through.  A fixed bin is left out when
\* the request exceeds the LEAST size of the bin.
Searched(lib, units) ==
  {b \in Exp(lib) : units <= ExpSize(b)} \cup
  {b \in Fixed(lib) : units <= MinFixed + (b - ExpBins - 1) * Interval} \cup
  {Large}

(***************************************************************************)
(* chunk.c.                                                                *)
(***************************************************************************)
Footer(h, c) == c + h.mem[c].units + 1

NextAdjacent(h, c) ==
  LET n == c + h.mem[c].units + 2 IN IF n >= h.end THEN NULL ELSE n

PrevAdjacent(h, c) ==
  IF c = 0 THEN NULL ELSE c - 1 - h.mem[c - 1].units - 1

IsFree(h, c) == c # NULL /\ h.mem[c].status = FREE

\* The header's size and, where that puts it, the footer's.
SetUnits(h, c, n) ==
  [h EXCEPT !.mem[c].units = n, !.mem[c + n + 1].units = n]

SetStatus(h, c, s) == [h EXCEPT !.mem[c].status = s]
SetNext(h, c, n)   == [h EXCEPT !.mem[c].link = n]
SetPrev(h, c, p)   == [h EXCEPT !.mem[Footer(h, c)].link = p]

(***************************************************************************)
(* Free lists.                                                             *)
(***************************************************************************)
SetHead(h, b, c) == [h EXCEPT !.bins[b] = c]

\* c becomes the first of list b.
InsertFirst(h, b, c) ==
  LET first  == h.bins[b]
      linked == SetHead(SetPrev(SetNext(h, c, first), c, NULL), b, c)
  IN IF first = NULL THEN linked ELSE SetPrev(linked, first, c)

InsertChunk(h, c) == InsertFirst(h, FindBin(h.lib, h.mem[c].units), c)

\* Variant: the next chunk's footer keeps its link.
RelinkNext_Not(h, next, prev) == h
RelinkNext(h, next, prev) == IF next = NULL THEN h ELSE SetPrev(h, next, prev)

Unlink(h, b, c) ==
  LET prev == h.mem[Footer(h, c)].link
      next == h.mem[c].link
      around == IF prev = NULL THEN SetHead(h, b, next) ELSE SetNext(h, prev, next)
      alone  == SetPrev(SetNext(RelinkNext(around, next, prev), c, NULL), c, NULL)
  IN SetStatus(alone, c, IN_USE)

RemoveChunk(h, c) == Unlink(h, FindBin(h.lib, h.mem[c].units), c)

\* Variant: the footer and header between the two are not counted.
MergedUnits_DataOnly(m, n) == m + n

\* Variant: both chunks' headers and footers are.
MergedUnits_All(m, n) == m + n + 4
MergedUnits(m, n) == m + n + 2

MergeChunk(h, c1, c2) ==
  LET units == MergedUnits(h.mem[c1].units, h.mem[c2].units)
  IN SetPrev(SetUnits(Forget(h, {c2 - 1, c2}), c1, units), c1, NULL)

\* The i-th chunk of a free list, NULL after its end.
FreeList(h, b) ==
  LET at[i \in 0 .. MaxChunks] ==
        IF i = 0 THEN h.bins[b]
        ELSE LET c == at[i - 1] IN IF c = NULL THEN NULL ELSE h.mem[c].link
  IN at

\* The first chunk of a list that is large enough.
FirstFit(h, b, units) ==
  LET list == FreeList(h, b)
      fits == {i \in DOMAIN list : list[i] # NULL /\ h.mem[list[i]].units >= units}
  IN IF fits = {} THEN NULL ELSE list[Min(fits)]

FindBestFit(h, units) ==
  LET bins == {b \in Searched(h.lib, units) : FirstFit(h, b, units) # NULL}
  IN IF bins = {} THEN NULL ELSE FirstFit(h, Min(bins), units)

(***************************************************************************)
(* check_heap_validity, which is asserted before and after every call.     *)
(***************************************************************************)
ChunkIsValid(h, c) == 0 <= c /\ c < h.end /\ h.mem[c].units # 0

BinRange(lib, b) ==
  CASE b \in Exp(lib)   -> (IF b = 1 THEN 1 ELSE ExpSize(b - 1) + 1) .. ExpSize(b)
    [] b \in Fixed(lib) -> MinFixed + (b - ExpBins - 1) * Interval .. FixedTop(b)
    [] OTHER            -> MaxFixed + 1 .. MaxHeap

Valid(h, c) == IsFree(h, c) /\ ChunkIsValid(h, c)

\* The headers, found by going from each to the next.
HeaderWalk(h) ==
  LET at[i \in 0 .. MaxChunks] ==
        IF i = 0 THEN 0
        ELSE LET c == at[i - 1]
             IN IF c >= h.end THEN h.end ELSE c + h.mem[c].units + 2
  IN at

Headers(h) == Range(HeaderWalk(h)) \ {h.end}

\* heapmgr1 looks at all chunks and at its list, heapmgr2 only at its bins.
CheckHeap(h) ==
  /\ h.end = 0 => h.bins[Large] = NULL
  /\ \A c \in Headers(h) : ChunkIsValid(h, c)
  /\ \A c \in Range(FreeList(h, Large)) \ {NULL} : Valid(h, c)

CheckBins(h) ==
  \A b \in Bins(2) : \A c \in Range(FreeList(h, b)) \ {NULL} :
    h.mem[c].units \in BinRange(2, b) /\ Valid(h, c)

CheckHeapValidity(h) == IF h.lib = 1 THEN CheckHeap(h) ELSE CheckBins(h)

(***************************************************************************)
(* Growing and splitting.                                                  *)
(***************************************************************************)
GrowBy(units) == IF units < MinGrow THEN MinGrow ELSE units

\* allocate_more_memory: the new chunk begins where the heap ended.
Grown(h, units) ==
  LET n == GrowBy(units)
      more == [h EXCEPT !.end = @ + n + 2]
  IN SetStatus(SetPrev(SetUnits(more, h.end, n), h.end, NULL), h.end, FREE)

Splits(h, c, units) == h.mem[c].units > units + 2

\* split_chunk of heapmgr1: c keeps its place in the list and the second part,
\* which will be taken, is linked in after it.
SplitChunk(h, c, units) ==
  LET rest == h.mem[c].units - units - 2
      next == h.mem[c].link
      prev == h.mem[Footer(h, c)].link
      c2   == c + rest + 2
      h1   == SetPrev(SetUnits(h, c, rest), c, prev)
      h2   == SetPrev(SetUnits(h1, c2, units), c2, c)
      h3   == SetNext(SetNext(SetStatus(h2, c2, FREE), c, c2), c2, next)
  IN IF next = NULL THEN h3 ELSE SetPrev(h3, next, c2)

\* split_and_relocate_remaining_chunk of heapmgr2: c moves to the list of what
\* is left of it.
SplitAndRelocate(h, c, units) ==
  LET rest == h.mem[c].units - units - 2
      c2   == c + rest + 2
      h1   == SetStatus(SetUnits(RemoveChunk(h, c), c, rest), c, FREE)
  IN SetStatus(SetUnits(InsertChunk(h1, c), c2, units), c2, IN_USE)

\* What malloc does with fresh memory: the FIRST part is taken.
SplitFresh(h, c, units) ==
  LET rest == h.mem[c].units - units - 2
      c2   == c + units + 2
      h1   == SetUnits(SetUnits(h, c, units), c2, rest)
  IN InsertChunk(SetStatus(h1, c2, FREE), c2)
=============================================================================
