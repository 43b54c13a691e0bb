---------------------------- MODULE BaseHeapMgr -----------------------------
(***************************************************************************)
(* heapmgrbase.c (src/SP_LAB3/reference): the allocator that heapmgr1 and  *)
(* heapmgr2 start from.  A chunk is a header and units of data, without a  *)
(* footer; the free ones form one list, in the order of their addresses.   *)
(*                                                                         *)
(* chunks has a field for each header there is: one that is merged into    *)
(* the chunk before it is forgotten.                                       *)
(***************************************************************************)
EXTENDS Integers, Functions, FiniteSetsExt, TLC

CONSTANTS MaxHeap,    \* what sbrk gives at most, in units
          MinGrow,    \* MEMALLOC_MIN
          UnitSize,   \* CHUNK_UNIT
          Sizes       \* what the program may ask for, in bytes

VARIABLES heap,   \* the chunks by address, g_free_head and g_heap_end
          live    \* history: the bytes the program asked for, by pointer in use

vars == <<heap, live>>

NULL == -1

Init == heap = [chunks |-> <<>>, head |-> NULL, end |-> 0] /\ live = <<>>

SizeToUnits(size) == (size + UnitSize - 1) \div UnitSize

(***************************************************************************)
(* chunkbase.c.                                                            *)
(***************************************************************************)
Chunk(units, next, status) == [units |-> units, next |-> next, status |-> status]

NextAdjacent(h, c) ==
  LET n == c + h.chunks[c].units + 1 IN IF n >= h.end THEN NULL ELSE n

IsFree(h, c) == c # NULL /\ h.chunks[c].status = "free"

(***************************************************************************)
(* The functions of heapmgrbase.c that work on chunks.  prev and e are     *)
(* elements of the free list, or prev is NULL for its beginning.           *)
(***************************************************************************)
MergeChunk(h, c1, c2) ==
  LET one == Chunk(h.chunks[c1].units + h.chunks[c2].units + 1, h.chunks[c2].next, "free")
  IN [h EXCEPT !.chunks = (c1 :> one) @@ Restrict(@, DOMAIN @ \ {c2})]

\* The second part is the one that is taken; it is in no list.
SplitChunk(h, c, units) ==
  LET rest == h.chunks[c].units - units - 1
  IN [h EXCEPT !.chunks = (c :> [@[c] EXCEPT !.units = rest])
                       @@ (c + rest + 1 :> Chunk(units, @[c].next, "in use")) @@ @]

LinkAfter(h, prev, c) ==
  IF prev = NULL THEN [h EXCEPT !.head = c] ELSE [h EXCEPT !.chunks[prev].next = c]

RemoveChunk(h, prev, c) ==
  LET rest == LinkAfter(h, prev, h.chunks[c].next)
  IN [rest EXCEPT !.chunks[c] = Chunk(@.units, NULL, "in use")]

InsertFirst(h, c) ==
  LET free == [h EXCEPT !.head = c, !.chunks[c] = Chunk(@.units, h.head, "free")]
  IN IF h.head # NULL /\ NextAdjacent(h, c) = h.head
     THEN MergeChunk(free, c, h.head) ELSE free

InsertAfter(h, e, c) ==
  LET linked == [h EXCEPT !.chunks[c] = Chunk(@.units, h.chunks[e].next, "free"),
                          !.chunks[e].next = c]
      below  == NextAdjacent(h, e) = c
      lower  == IF below THEN MergeChunk(linked, e, c) ELSE linked
      n      == NextAdjacent(h, c)
  IN IF IsFree(h, n) THEN MergeChunk(lower, IF below THEN e ELSE c, n) ELSE lower

\* The free list, NULL after its end; the first element that is in S, and
\* the one before it.
FreeList(h) ==
  LET at[i \in 0 .. MaxHeap] ==
        IF i = 0 THEN h.head
        ELSE LET c == at[i - 1] IN IF c = NULL THEN NULL ELSE h.chunks[c].next
  IN at

FirstIn(h, S) ==
  LET list == FreeList(h)
      i == Min({i \in DOMAIN list : list[i] \in S \union {NULL}})
  IN [c |-> list[i], prev |-> IF i = 0 THEN NULL ELSE list[i - 1]]

ChunkIsValid(h, c) == 0 <= c /\ c < h.end /\ h.chunks[c].units # 0

\* What is asserted before and after every call.
CheckHeapValidity(h) ==
  LET free == {c \in Range(FreeList(h)) : c # NULL} IN
  /\ h.end = 0 => h.head = NULL
  /\ \A c \in DOMAIN h.chunks : ChunkIsValid(h, c)
  /\ \A c \in free : /\ IsFree(h, c) /\ ChunkIsValid(h, c)
                     /\ NextAdjacent(h, c) = NULL \/ NextAdjacent(h, c) # h.chunks[c].next

LastFree(h) == FirstIn(h, {}).prev

(***************************************************************************)
(* heapmgr_malloc and heapmgr_free.                                        *)
(***************************************************************************)
Return(h, c, size) == heap' = h /\ live' = live @@ (c + 1 :> size)

\* Variant: a chunk is split even if nothing is left of the first part.
Take_Empty(h, prev, c, units, size) ==
  IF h.chunks[c].units > units
  THEN Return(SplitChunk(h, c, units), c + h.chunks[c].units - units, size)
  ELSE Return(RemoveChunk(h, prev, c), c, size)

\* A chunk one unit larger than the request is handed out whole.
Take(h, prev, c, units, size) ==
  IF h.chunks[c].units > units + 1
  THEN Return(SplitChunk(h, c, units), c + h.chunks[c].units - units, size)
  ELSE Return(RemoveChunk(h, prev, c), c, size)

Fitting(units) == FirstIn(heap, {c \in DOMAIN heap.chunks : heap.chunks[c].units >= units})

Malloc(size) ==
  LET units == SizeToUnits(size)
      found == Fitting(units)
  IN found.c # NULL /\ Take(heap, found.prev, found.c, units, size)

\* allocate_more_memory: the new chunk goes to the end of the free list, where it
\* may be merged with the last element.
MallocGrows(size) ==
  LET units == SizeToUnits(size)
      n     == IF units < MinGrow THEN MinGrow ELSE units
      prev  == LastFree(heap)
      more  == [heap EXCEPT !.end = @ + n + 1,
                            !.chunks = (heap.end :> Chunk(n, NULL, "in use")) @@ @]
      grown == IF heap.head = NULL THEN InsertFirst(more, heap.end)
               ELSE InsertAfter(more, prev, heap.end)
      c     == LastFree(grown)
      pprev == FirstIn(heap, {prev}).prev
  IN
  /\ Fitting(units).c = NULL
  /\ heap.end + n + 1 <= MaxHeap
  /\ Take(grown, IF c = prev THEN pprev ELSE prev, c, units, size)

Free(p) ==
  LET c == p - 1
      prev == FirstIn(heap, p .. MaxHeap).prev
  IN
  /\ heap' = IF prev = NULL THEN InsertFirst(heap, c) ELSE InsertAfter(heap, prev, c)
  /\ live' = Restrict(live, DOMAIN live \ {p})

Next == \/ \E size \in Sizes : Malloc(size) \/ MallocGrows(size)
        \/ \E p \in DOMAIN live : Free(p)

Spec == Init /\ [][Next]_vars
-----------------------------------------------------------------------------
(* Properties *)

FirstOf(S, default) == IF S = {} THEN default ELSE Min(S)

\* The chunks cover the heap; those in use are the program's; the free list is
\* the free chunks in the order of their addresses, no two of them
\* neighbours, whatever the order of the mallocs and frees.
ListInOrder ==
  LET all  == DOMAIN heap.chunks
      free == {c \in all : IsFree(heap, c)}
      After(S, c) == {d \in S : d > c}
  IN /\ FirstOf(all, heap.end) = 0
     /\ \A c \in all : c + heap.chunks[c].units + 1 = FirstOf(After(all, c), heap.end)
     /\ DOMAIN live = {c + 1 : c \in all \ free}
     /\ heap.head = FirstOf(free, NULL)
     /\ \A c \in free : /\ heap.chunks[c].next = FirstOf(After(free, c), NULL)
                        /\ NextAdjacent(heap, c) \notin free
=============================================================================
