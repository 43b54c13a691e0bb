------------------------------ MODULE HeapMgr -------------------------------
(***************************************************************************)
(* heapmgr_malloc and heapmgr_free of src/SP_LAB3: heapmgr1.c (one free    *)
(* list, first fit) and heapmgr2.c (bins by size), used by one thread.     *)
(*                                                                         *)
(* The program may write the bytes it asked for as soon as it has them, so *)
(* Malloc ends with that: the units of a block in use hold DATA, which no  *)
(* step of the managers makes.                                             *)
(*                                                                         *)
(* sbrk continues where it ended, as nobody else calls it, and fails when  *)
(* MaxHeap is reached.  Requests are far from 2^31 units.                  *)
(***************************************************************************)
EXTENDS Chunks

CONSTANTS Libraries,   \* which managers are linked with: {1}, {2} or {1, 2}
          UnitSize,    \* CHUNK_UNIT
          Sizes        \* what the program may ask for, in bytes

ASSUME HeapMgrAssumption ==
  /\ Libraries \subseteq {1, 2} /\ UnitSize \in Nat \ {0} /\ Sizes \subseteq Nat

VARIABLES heap,   \* see Chunks
          live    \* history: the bytes the program asked for, by pointer in use

vars == <<heap, live>>

DATA == [link |-> NULL, units |-> 0, status |-> "data"]

Init ==
  /\ \E lib \in Libraries :
       heap = [mem |-> [a \in Addr |-> Fresh], end |-> 0, lib |-> lib,
               bins |-> [b \in Bins(lib) |-> NULL]]
  /\ live = <<>>

\* Variant: a part of a unit is not counted.
SizeToUnits_Down(size) == size \div UnitSize
SizeToUnits(size) == (size + UnitSize - 1) \div UnitSize

Written(p, size) == p .. p + SizeToUnits(size) - 1

\* Chunk c of heap h is returned, and the program writes what it asked for.
Return(h, c, size) ==
  /\ heap' = [h EXCEPT !.mem = [a \in Addr |->
                IF a \in Written(c + 1, size) THEN DATA ELSE h.mem[a]]]
  /\ live' = [p \in DOMAIN live \cup {c + 1} |-> IF p = c + 1 THEN size ELSE live[p]]

\* A free chunk is large enough.
MallocFinds(size) ==
  LET units == SizeToUnits(size)
      c     == FindBestFit(heap, units)
      c2    == c + heap.mem[c].units - units
  IN
  /\ c # NULL
  /\ \/ /\ ~Splits(heap, c, units)
        /\ Return(RemoveChunk(heap, c), c, size)
     \/ /\ Splits(heap, c, units) /\ heap.lib = 1
        /\ Return(RemoveChunk(SplitChunk(heap, c, units), c2), c2, size)
     \/ /\ Splits(heap, c, units) /\ heap.lib = 2
        /\ Return(SplitAndRelocate(heap, c, units), c2, size)

\* None is, and sbrk gives more memory.
MallocGrows(size) ==
  LET units == SizeToUnits(size)
      c     == heap.end
      grown == Grown(heap, units)
      split == IF Splits(grown, c, units) THEN SplitFresh(grown, c, units) ELSE grown
  IN
  /\ FindBestFit(heap, units) = NULL
  /\ heap.end + GrowBy(units) + 2 <= MaxHeap
  /\ Return(SetStatus(split, c, IN_USE), c, size)

MergePrev(h, c) == IsFree(h, PrevAdjacent(h, c))
MergeNext(h, c) == IsFree(h, NextAdjacent(h, c))

Free(p) ==
  LET c    == p - 1
      h0   == Forget(heap, Written(p, live[p]))
      next == NextAdjacent(heap, c)
      prev == PrevAdjacent(heap, c)
      h1   == IF MergeNext(heap, c)
              THEN MergeChunk(RemoveChunk(h0, next), c, next) ELSE h0
      h2   == IF MergePrev(heap, c)
              THEN MergeChunk(RemoveChunk(h1, prev), prev, c) ELSE h1
      all  == IF MergePrev(heap, c) THEN prev ELSE c
  IN
  /\ heap' = InsertChunk(SetStatus(h2, all, FREE), all)
  /\ live' = Restrict(live, DOMAIN live \ {p})

Next == \/ \E size \in Sizes : size > 0 /\ (MallocFinds(size) \/ MallocGrows(size))
        \/ \E p \in DOMAIN live : Free(p)

Spec == Init /\ [][Next]_vars
-----------------------------------------------------------------------------
(* Properties *)

InUse      == {c \in Headers(heap) : heap.mem[c].status = IN_USE}
FreeChunks == {c \in Headers(heap) : heap.mem[c].status = FREE}

\* The chunks cover the heap without gap or overlap; every footer has the
\* size of its header, so that going back from a chunk leads to the one
\* before; and the chunks in use are those the program has pointers to.
Tiled ==
  /\ \A c \in Headers(heap) : /\ heap.mem[c].units >= 1 /\ Footer(heap, c) < heap.end
                         /\ heap.mem[Footer(heap, c)].units = heap.mem[c].units
  /\ Headers(heap) = InUse \cup FreeChunks
  /\ DOMAIN live = {c + 1 : c \in InUse}

\* Freed memory is merged: no two free chunks are neighbours, whatever the
\* order of the frees.
Coalesced ==
  LET free == FreeChunks IN \A c \in free : NextAdjacent(heap, c) \notin free

\* The free lists hold the free chunks and nothing else, each once and in the
\* bin of its size; the list through the headers and the one back through
\* the footers are each other's reverse.
ListsExact ==
  LET free == FreeChunks IN
  \A b \in Bins(heap.lib) :
    LET list == FreeList(heap, b)
        members == {i \in DOMAIN list : list[i] # NULL}
    IN /\ {list[i] : i \in members} =
            {c \in free : FindBin(heap.lib, heap.mem[c].units) = b}
       /\ \A i, j \in members : list[i] = list[j] => i = j
       /\ \A i \in members : heap.mem[Footer(heap, list[i])].link =
                              IF i = 0 THEN NULL ELSE list[i - 1]

\* The memory is in order at all times, and what the managers assert of
\* themselves before and after every call never fails.
MemoryInOrder == Tiled /\ Coalesced /\ CheckHeapValidity(heap)

\* What the program has written into its blocks is never overwritten, neither
\* by headers and footers nor by handing a unit out twice.
DataKept ==
  \A p \in DOMAIN live : \A a \in Written(p, live[p]) : heap.mem[a] = DATA

\* More memory is asked for only when no free chunk would do: heapmgr1 finds
\* any, and heapmgr2 any but those in the fixed bin of the request itself,
\* which it searches only for the least size of the bin.
Overlooked(c, units) ==
  LET b == FindBin(heap.lib, units)
  IN b \in Fixed(heap.lib) /\ FindBin(heap.lib, heap.mem[c].units) = b
GrowsOnlyWhenFull ==
  [][\A p \in DOMAIN live' \ DOMAIN live :
       LET units == SizeToUnits(live'[p]) IN
       heap'.end > heap.end =>
         \A c \in FreeChunks : heap.mem[c].units >= units => Overlooked(c, units)]_vars

\* Every step is one that Allocator promises: what is handed out is as large
\* as asked for, inside the heap, apart from every block in use, and neither
\* moves nor changes its size before it is freed.
Promise == INSTANCE Allocator WITH
  Units <- Addr, blocks <- [p \in DOMAIN live |-> heap.mem[p - 1].units]
ImplementsAllocator == Promise!Spec
=============================================================================
