----------------------------- MODULE KRHeapMgr ------------------------------
(***************************************************************************)
(* heapmgrkr.c (src/SP_LAB3/reference): the allocator of Kernighan and     *)
(* Ritchie that the others are measured against.  The free blocks form a   *)
(* ring through a header outside the heap, and each search goes on where   *)
(* the last call left freep.  A block's size counts its header.            *)
(*                                                                         *)
(* blocks has a field for each header there is: one that is joined to      *)
(* another is forgotten.                                                   *)
(***************************************************************************)
EXTENDS Integers, Functions, FiniteSetsExt, TLC

CONSTANTS MaxHeap,    \* what sbrk gives at most, in units
          NALLOC,
          UnitSize,   \* sizeof(Header)
          Sizes       \* what the program may ask for, in bytes

VARIABLES heap,   \* the blocks by address, freep, and where sbrk goes on
          live    \* history: the bytes the program asked for, by pointer in use

vars == <<heap, live>>

BASE == -1   \* base, a static variable: below the heap and next to nothing
NULL == -2

Block(size, ptr) == [size |-> size, ptr |-> ptr]

Init == heap = [blocks |-> (BASE :> Block(0, NULL)), freep |-> NULL, end |-> 0] /\ live = <<>>

UnitsFor(size) == (size + UnitSize - 1) \div UnitSize + 1

\* The first call makes a ring of base alone.
Ready(h) ==
  IF h.freep = NULL THEN [h EXCEPT !.blocks[BASE].ptr = BASE, !.freep = BASE] ELSE h

(***************************************************************************)
(* heapmgr_free.                                                           *)
(***************************************************************************)
\* The i-th element of the ring after freep; one round is enough for any loop.
Ring(h) ==
  LET at[i \in 0 .. Cardinality(DOMAIN h.blocks)] ==
        IF i = 0 THEN h.freep ELSE LET p == at[i - 1] IN h.blocks[p].ptr
  IN at

\* bp goes between p and the next block, or beyond the last or before the first.
Between(h, p, bp) ==
  LET q == h.blocks[p].ptr IN (p < bp /\ bp < q) \/ (p >= q /\ (bp > p \/ bp < q))

Without(h, p) == [h EXCEPT !.blocks = Restrict(@, DOMAIN @ \ {p})]

\* bp takes over what follows p, joined to bp if they touch.
JoinUpper(h, p, bp) ==
  LET q == h.blocks[p].ptr   size == h.blocks[bp].size IN
  IF bp + size = q
  THEN [Without(h, q) EXCEPT !.blocks[bp] = Block(size + h.blocks[q].size, h.blocks[q].ptr)]
  ELSE [h EXCEPT !.blocks[bp].ptr = q]

\* Variant: p takes over bp's size and keeps its own successor.
JoinLower_KeepPtr(h, p, bp) ==
  IF p + h.blocks[p].size = bp
  THEN [Without(h, bp) EXCEPT !.blocks[p].size = @ + h.blocks[bp].size]
  ELSE [h EXCEPT !.blocks[p].ptr = bp]
JoinLower(h, p, bp) ==
  IF p + h.blocks[p].size = bp
  THEN [Without(h, bp) EXCEPT !.blocks[p] = Block(@.size + h.blocks[bp].size, h.blocks[bp].ptr)]
  ELSE [h EXCEPT !.blocks[p].ptr = bp]

Freed(h, bp) ==
  LET ring == Ring(h)
      p == ring[Min({i \in DOMAIN ring : Between(h, ring[i], bp)})]
  IN [JoinLower(JoinUpper(h, p, bp), p, bp) EXCEPT !.freep = p]

Free(p) ==
  /\ heap' = Freed(heap, p - 1)
  /\ live' = Restrict(live, DOMAIN live \ {p})

(***************************************************************************)
(* heapmgr_malloc.                                                         *)
(***************************************************************************)
\* The positions of the ring, in the order of the search, that are big enough.
BigEnough(h, n) ==
  LET ring == Ring(h) IN {i \in DOMAIN ring \ {0} : h.blocks[ring[i]].size >= n}

\* Variant: the header is not counted in what is taken.
TailAt_NoHeader(size, n) == size - n + 1
TailAt(size, n) == size - n

\* The first one is unlinked if it has the right size; otherwise its tail is taken.
Take(h, n, size) ==
  LET ring == Ring(h)   i == Min(BigEnough(h, n))
      p == ring[i]      prev == ring[i - 1]
      rest == TailAt(h.blocks[p].size, n)
      q == p + rest
      from == [h EXCEPT !.freep = prev]
  IN IF h.blocks[p].size = n
     THEN /\ heap' = [from EXCEPT !.blocks[prev].ptr = h.blocks[p].ptr]
          /\ live' = live @@ (p + 1 :> size)
     ELSE /\ heap' = [from EXCEPT !.blocks = (p :> Block(rest, @[p].ptr))
                                          @@ (q :> Block(n, NULL)) @@ @]
          /\ live' = live @@ (q + 1 :> size)

Malloc(size) ==
  /\ BigEnough(Ready(heap), UnitsFor(size)) # {}
  /\ Take(Ready(heap), UnitsFor(size), size)

\* morecore frees the new block, and the search goes on.
MallocGrows(size) ==
  LET h == Ready(heap)
      n == UnitsFor(size)
      nu == IF n < NALLOC THEN NALLOC ELSE n
      more == [h EXCEPT !.end = @ + nu, !.blocks = (h.end :> Block(nu, NULL)) @@ @]
  IN
  /\ BigEnough(h, n) = {} /\ h.end + nu <= MaxHeap
  /\ Take(Freed(more, h.end), n, size)

\* No memory: only the ring may have been made.
MallocFails(size) ==
  LET h == Ready(heap)   n == UnitsFor(size) IN
  /\ BigEnough(h, n) = {} /\ h.end + (IF n < NALLOC THEN NALLOC ELSE n) > MaxHeap
  /\ heap' = h /\ UNCHANGED live

Next == \/ \E size \in Sizes : Malloc(size) \/ MallocGrows(size) \/ MallocFails(size)
        \/ \E p \in DOMAIN live : Free(p)

Spec == Init /\ [][Next]_vars
-----------------------------------------------------------------------------
(* Properties *)

FirstOf(S, default) == IF S = {} THEN default ELSE Min(S)

\* The blocks cover the heap; those in use are the program's; the ring runs
\* through the others in the order of their addresses and back through base,
\* no two of them touch, and freep is one of them, wherever the last call
\* has left it.
RingInOrder ==
  LET all  == DOMAIN heap.blocks \ {BASE}
      free == {p \in all : p + 1 \notin DOMAIN live}
      After(S, p) == {q \in S : q > p}
  IN /\ FirstOf(all, heap.end) = 0
     /\ \A p \in all : p + heap.blocks[p].size = FirstOf(After(all, p), heap.end)
     /\ {q - 1 : q \in DOMAIN live} \subseteq all
     /\ heap.freep \in free \cup {BASE} \/ (heap.freep = NULL /\ all = {})
     /\ heap.freep # NULL =>
          \A p \in free \cup {BASE} : heap.blocks[p].ptr = FirstOf(After(free, p), BASE)
     /\ \A p \in free : p + heap.blocks[p].size \notin free
=============================================================================
