----------------------------- MODULE MCDirTree ------------------------------
(* An instance of DirTree for TLC. *)
EXTENDS DirTree

\* Three files in one directory.
OneDirectory == {[n \in Nodes |-> [in |-> Root, type |-> type]] : type \in {"reg", "lnk"}}
=============================================================================
