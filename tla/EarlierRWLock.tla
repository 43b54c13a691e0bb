--------------------------- MODULE EarlierRWLock ----------------------------
(***************************************************************************)
(* rwlock백업.c (src/SP_LAB5/src): the lock before readers were made to go *)
(* first.  A reader is counted when it gets the lock, not when it asks for *)
(* it, and a writer that leaves wakes readers and a writer alike.  The     *)
(* state is that of RWLock, and so are the functions not redefined here.   *)
(***************************************************************************)
EXTENDS RWLock

EarlierReaderTests(t) ==
  /\ \/ /\ write_count > 0
        /\ pc' = [pc EXCEPT ![t] = "rwait"]
        /\ UNCHANGED read_count
     \/ /\ write_count = 0
        /\ pc' = [pc EXCEPT ![t] = "reading"]
        /\ read_count' = read_count + 1
  /\ UNCHANGED <<write_count, ring>>

EarlierReadLock(t) == Outside(t) /\ EarlierReaderTests(t)

EarlierReadWake(t) == pc[t] = "rwoken" /\ EarlierReaderTests(t)

\* rwlock_read_unlock and rwlock_write_lock, which the later version kept.
EarlierReadUnlock(t) == ReadUnlock(t)
EarlierWriteLock(t)  == WriteLock(t) \/ WriteLockFails(t)
EarlierWriteWake(t)  == WriteWake(t)

\* Variant: no writer is signalled while readers wait.
EarlierWakes_ReadersFirst(p) ==
  IF \E u \in Threads : p[u] = "rwait" THEN {AfterBroadcastReaders(p)} ELSE AfterSignalWriters(p)
EarlierWakes(p) == AfterSignalWriters(AfterBroadcastReaders(p))

EarlierWriteUnlock(t) ==
  /\ pc[t] = "writing"
  /\ write_count' = write_count - 1
  /\ LET released == [pc EXCEPT ![t] = "idle"]
     IN pc' \in IF write_count' = 0 THEN EarlierWakes(released) ELSE {released}
  /\ UNCHANGED <<read_count, ring>>

EarlierNext == \E t \in Threads :
  \/ EarlierReadLock(t)  \/ EarlierReadWake(t)  \/ EarlierReadUnlock(t)
  \/ EarlierWriteLock(t) \/ EarlierWriteWake(t) \/ EarlierWriteUnlock(t)
  \/ SpuriousWakeup(t)

EarlierSpec == Init /\ [][EarlierNext]_vars
-----------------------------------------------------------------------------
(* Properties *)

\* Counting readers late does not let one in beside a writer, forget a waiting
\* writer, or leave a thread asleep whose turn it is: the mutex is held
\* from the test to the count, and the wake-ups that are too many are harmless.
EarlierLockSound ==
  /\ MutualExclusion /\ RingHoldsWaiters /\ NoLostWakeup
  /\ read_count = Cardinality(At({"reading"}))
=============================================================================
