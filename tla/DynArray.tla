------------------------------ MODULE DynArray ------------------------------
(***************************************************************************)
(* dynarray.c (src/SP_LAB4): the array the shell keeps the tokens of a     *)
(* line in.  It has room for iPhysLength elements, of which iLength are in *)
(* use; when they all are, it moves to twice the room.  What realloc adds  *)
(* is not initialised.                                                     *)
(***************************************************************************)
EXTENDS Integers, Sequences

CONSTANTS Tokens,           \* what may be stored
          NO_TOKEN,         \* NULL, which calloc fills the room with
          GARBAGE,          \* what realloc leaves in what it adds
          MIN_PHYS_LENGTH, GROWTH_FACTOR,
          MaxLength         \* bound: how long an array may become

ASSUME DynArrayAssumption ==
  /\ NO_TOKEN \notin Tokens /\ GARBAGE \notin Tokens \cup {NO_TOKEN}
  /\ MIN_PHYS_LENGTH \in Nat \ {0} /\ GROWTH_FACTOR \in Nat \ {0, 1} /\ MaxLength \in Nat

VARIABLES ppvArray,      \* the room, by index; an array of 0 elements when there is none
          iLength, iPhysLength,
          returned       \* history: what the last call returned, or passed to pfApply

dynArrayVars == <<ppvArray, iLength, iPhysLength, returned>>

NoArray == [i \in {} |-> NO_TOKEN]

DynArrayInit == ppvArray = NoArray /\ iLength = 0 /\ iPhysLength = 0 /\ returned = <<>>

Created == iPhysLength > 0

\* Asserted by every call.
IsValid ==
  /\ iLength >= 0 /\ iPhysLength >= MIN_PHYS_LENGTH /\ iLength <= iPhysLength
  /\ ppvArray # NoArray

DynNew(n) ==
  /\ ~Created
  /\ iLength' = n
  /\ iPhysLength' = IF n > MIN_PHYS_LENGTH THEN n ELSE MIN_PHYS_LENGTH
  /\ ppvArray' = [i \in 0 .. iPhysLength' - 1 |-> NO_TOKEN]
  /\ returned' = <<>>

DynFree == Created /\ ppvArray' = NoArray /\ iLength' = 0 /\ iPhysLength' = 0 /\ returned' = <<>>

\* Variant: the elements are not moved.
Grown_Empty(room, phys) == [i \in 0 .. phys * GROWTH_FACTOR - 1 |-> GARBAGE]

\* dynarray_grow.
Grown(room, phys) ==
  [i \in 0 .. phys * GROWTH_FACTOR - 1 |-> IF i < phys THEN room[i] ELSE GARBAGE]

\* Variant: the array grows when an element has found no room.
Full_Late(length, phys) == length > phys
Full(length, phys) == length = phys

DynAdd(t) ==
  /\ Created /\ iLength < MaxLength
  /\ LET full == Full(iLength, iPhysLength)
         room == IF full THEN Grown(ppvArray, iPhysLength) ELSE ppvArray
     IN /\ iPhysLength' = IF full THEN iPhysLength * GROWTH_FACTOR ELSE iPhysLength
        /\ ppvArray' = [i \in DOMAIN room |-> IF i = iLength THEN t ELSE room[i]]
  /\ iLength' = iLength + 1
  /\ returned' = <<>>

DynGet(i) == returned' = <<ppvArray[i]>> /\ UNCHANGED <<ppvArray, iLength, iPhysLength>>

DynSet(i, t) ==
  /\ returned' = <<ppvArray[i]>>
  /\ ppvArray' = [ppvArray EXCEPT ![i] = t]
  /\ UNCHANGED <<iLength, iPhysLength>>

\* pfApply is called with each element in turn.
DynMap ==
  /\ Created
  /\ returned' = [k \in 1 .. iLength |-> ppvArray[k - 1]]
  /\ UNCHANGED <<ppvArray, iLength, iPhysLength>>

DynArrayNext ==
  \/ \E n \in 0 .. MaxLength : DynNew(n)
  \/ \E t \in Tokens : DynAdd(t)
  \/ \E i \in 0 .. iLength - 1 : DynGet(i) \/ \E t \in Tokens : DynSet(i, t)
  \/ DynMap \/ DynFree

DynArraySpec == DynArrayInit /\ [][DynArrayNext]_dynArrayVars
-----------------------------------------------------------------------------
(* Properties *)

\* To the shell the array is a sequence: growing neither loses nor moves an
\* element, and nothing uninitialised is handed out.  The assertion that begins
\* every call never fails, and the room is as large as iPhysLength says.
AsVector == INSTANCE Vector WITH
  Elements <- Tokens, NoElement <- NO_TOKEN,
  elems <- [k \in 1 .. iLength |-> ppvArray[k - 1]], exists <- Created, answer <- returned
ArrayValid == Created => IsValid /\ DOMAIN ppvArray = 0 .. iPhysLength - 1
ImplementsVector == []ArrayValid /\ AsVector!Spec
=============================================================================
