----------------------------- MODULE Allocator ------------------------------
(***************************************************************************)
(* What malloc and free of src/SP_LAB3 promise the program: a pointer to a *)
(* block of memory at least as large as asked for, that overlaps no other  *)
(* block and keeps its place and size until it is freed.  When there is no *)
(* memory, malloc changes nothing.                                         *)
(***************************************************************************)
EXTENDS Integers, Functions

CONSTANTS Units,     \* the addresses, in units
          UnitSize,  \* the bytes of a unit
          Sizes      \* what is asked for, in bytes

VARIABLE blocks      \* the units each pointer in use leads to

Init == blocks = <<>>

Extent(p, n) == p .. p + n - 1

Alloc(p, n, size) ==
  /\ p \notin DOMAIN blocks
  /\ size <= n * UnitSize /\ Extent(p, n) \subseteq Units
  /\ \A q \in DOMAIN blocks : Extent(p, n) \cap Extent(q, blocks[q]) = {}
  /\ blocks' = [q \in DOMAIN blocks \cup {p} |-> IF q = p THEN n ELSE blocks[q]]

Free(p) == blocks' = Restrict(blocks, DOMAIN blocks \ {p})

Next == \/ \E p, n \in Units, size \in Sizes : Alloc(p, n, size)
        \/ \E p \in DOMAIN blocks : Free(p)

Spec == Init /\ [][Next]_blocks
=============================================================================
