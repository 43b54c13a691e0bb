---------------------------- MODULE MCSnushJobs -----------------------------
(* Instances of SnushJobs for TLC. *)
EXTENDS SnushJobs

CONSTANTS p1, p2, p3, p4
=============================================================================
