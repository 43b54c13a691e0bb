------------------------------ MODULE MCRWLock ------------------------------
(* Instances of RWLock and of the version before it for TLC.  A behaviour is *)
(* one of either, as version says.                                           *)
EXTENDS RWLock

CONSTANTS w1, w2, w3

VARIABLES version, reads, writes, slots, head, tail, at

earlierVars == <<reads, writes, slots, head, tail, at>>

Earlier == INSTANCE EarlierRWLock WITH
  read_count <- reads, write_count <- writes, pc <- at,
  writer_ring <- slots, writer_ring_head <- head, writer_ring_tail <- tail

VersionsInit == version \in {"rwlock", "backup"} /\ Init /\ Earlier!Init

VersionsNext ==
  \/ version = "rwlock" /\ Next /\ UNCHANGED <<version, earlierVars>>
  \/ version = "backup" /\ Earlier!EarlierNext /\ UNCHANGED <<version, vars>>

VersionsSpec ==
  VersionsInit /\ [][VersionsNext]_<<version, vars, earlierVars>> /\ Fairness

\* The earlier version keeps threads apart and loses none of them.
EarlierLockSound == Earlier!EarlierLockSound
=============================================================================
