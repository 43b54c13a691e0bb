------------------------------- MODULE Vector -------------------------------
(***************************************************************************)
(* What dynarray.h (src/SP_LAB4) promises the shell: a sequence of         *)
(* elements that grows at its end, with no limit to be seen.  An element   *)
(* that has not been set yet is NoElement.                                 *)
(***************************************************************************)
EXTENDS Integers, Sequences

CONSTANTS Elements, NoElement

VARIABLES elems,    \* the sequence, or <<>> when there is none
          exists,
          answer    \* what the last call has returned, or has passed to a function

Init == elems = <<>> /\ exists = FALSE /\ answer = <<>>

\* A new vector may have elements already, none of them set.
New ==
  /\ ~exists
  /\ exists' = TRUE /\ elems' \in Seq({NoElement}) /\ answer' = <<>>

Add(e) ==
  /\ exists
  /\ elems' = Append(elems, e) /\ answer' = <<>> /\ UNCHANGED exists

Get(i) == exists /\ answer' = <<elems[i]>> /\ UNCHANGED <<elems, exists>>

Set(i, e) ==
  /\ exists
  /\ elems' = [elems EXCEPT ![i] = e] /\ answer' = <<elems[i]>> /\ UNCHANGED exists

Map == exists /\ answer' = elems /\ UNCHANGED <<elems, exists>>

Free == exists /\ exists' = FALSE /\ elems' = <<>> /\ answer' = <<>>

Next == \/ New
        \/ \E e \in Elements : Add(e)
        \/ \E i \in DOMAIN elems : Get(i) \/ \E e \in Elements : Set(i, e)
        \/ Map \/ Free

Spec == Init /\ [][Next]_<<elems, exists, answer>>
=============================================================================
