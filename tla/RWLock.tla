------------------------------- MODULE RWLock -------------------------------
(***************************************************************************)
(* The reader-writer lock of src/SP_LAB5/src/rwlock.c: one mutex, two      *)
(* condition variables (readers, writers), two counters and a ring of      *)
(* waiting writers.                                                        *)
(*                                                                         *)
(* Every field is read and written only between pthread_mutex_lock and     *)
(* pthread_mutex_unlock or pthread_cond_wait, so one such critical section *)
(* is one action.  A thread asleep in pthread_cond_wait is in the wait set *)
(* of its condition variable (pc "rwait" or "wwait"); a signalled one has  *)
(* left it and must still win the mutex and test its condition again (pc   *)
(* "rwoken" or "wwoken").  pthread_cond_signal wakes any one sleeper, the  *)
(* choice is not the caller's, and a sleeper may wake for no reason.  The  *)
(* pthread calls themselves are assumed not to fail.                       *)
(***************************************************************************)
EXTENDS Integers, FiniteSets, Sequences

CONSTANTS Threads,     \* the worker threads
          RingSize,    \* WRITER_RING_SIZE
          NoThread     \* the zero that calloc leaves in an unused slot

ASSUME RWLockAssumption ==
  /\ IsFiniteSet(Threads)
  /\ RingSize \in Nat \ {0}
  /\ NoThread \notin Threads

VARIABLES read_count, write_count,
          writer_ring, writer_ring_head, writer_ring_tail,
          pc           \* where each thread is in the functions of rwlock.c

ring == <<writer_ring, writer_ring_head, writer_ring_tail>>
vars == <<read_count, write_count, ring, pc>>

Slots == 0 .. RingSize - 1
PCs   == {"idle", "failed", "rwait", "rwoken", "reading",
          "wwait", "wwoken", "writing"}

At(S) == {t \in Threads : pc[t] \in S}

\* calloc zeroes the ring, so its slots hold no thread.
Init ==
  /\ read_count = 0 /\ write_count = 0
  /\ writer_ring = [i \in Slots |-> NoThread]
  /\ writer_ring_head = 0 /\ writer_ring_tail = 0
  /\ pc = [t \in Threads |-> "idle"]

\* A call is made by a thread that is in none: its last one returned 0, or -1.
Outside(t) == pc[t] \in {"idle", "failed"}

\* Variant: the index does not wrap round.
NextSlot_NoWrap(i) == i + 1

NextSlot(i) == (i + 1) % RingSize
-----------------------------------------------------------------------------
(* pthread_cond_signal and pthread_cond_broadcast, as functions on pc *)

AfterSignalWriters(p) ==
  LET sleepers == {u \in Threads : p[u] = "wwait"}
  IN IF sleepers = {} THEN {p}
     ELSE {[p EXCEPT ![u] = "wwoken"] : u \in sleepers}

AfterBroadcastReaders(p) ==
  [u \in Threads |-> IF p[u] = "rwait" THEN "rwoken" ELSE p[u]]
-----------------------------------------------------------------------------
(* rwlock_read_lock and rwlock_read_unlock *)

\* The while loop of a reader: back to sleep, or out with the lock.
ReaderTests(t) ==
  /\ pc' = [pc EXCEPT ![t] = IF write_count > 0 THEN "rwait" ELSE "reading"]
  /\ UNCHANGED <<write_count, ring>>

ReadLock(t) ==
  /\ Outside(t)
  /\ read_count' = read_count + 1
  /\ ReaderTests(t)

\* Variant: if in place of while, the condition is not tested again.
ReadWake_NoRetest(t) ==
  /\ pc[t] = "rwoken"
  /\ pc' = [pc EXCEPT ![t] = "reading"]
  /\ UNCHANGED <<read_count, write_count, ring>>

ReadWake(t) ==
  /\ pc[t] = "rwoken"
  /\ UNCHANGED read_count
  /\ ReaderTests(t)

\* Variant: the last reader signals nobody.
ReadUnlock_NoSignal(t) ==
  /\ pc[t] = "reading"
  /\ read_count' = read_count - 1
  /\ pc' = [pc EXCEPT ![t] = "idle"]
  /\ UNCHANGED <<write_count, ring>>

ReadUnlock(t) ==
  /\ pc[t] = "reading"
  /\ read_count' = read_count - 1
  /\ LET released == [pc EXCEPT ![t] = "idle"]
     IN pc' \in IF read_count' = 0 THEN AfterSignalWriters(released)
                                   ELSE {released}
  /\ UNCHANGED <<write_count, ring>>
-----------------------------------------------------------------------------
(* rwlock_write_lock and rwlock_write_unlock *)

\* Variant: any waiting writer may go, whoever is at the head.
MustWait_AnyTurn(t, slots) == write_count > 0 \/ read_count > 0

MustWait(t, slots) ==
  write_count > 0 \/ read_count > 0 \/ slots[writer_ring_head] # t

\* Variant: the wake-up is not passed on.
WriterSleeps_Silent(t) ==
  /\ pc' = [pc EXCEPT ![t] = "wwait"]
  /\ UNCHANGED <<write_count, writer_ring_head>>

\* A writer whose turn has not come passes the wake-up on before it sleeps
\* when the lock is free: the turn is somebody else's.
WriterSleeps(t) ==
  /\ LET passed == IF write_count = 0 /\ read_count = 0
                   THEN AfterSignalWriters(pc) ELSE {pc}
     IN \E p \in passed : pc' = [p EXCEPT ![t] = "wwait"]
  /\ UNCHANGED <<write_count, writer_ring_head>>

WriterEnters(t) ==
  /\ write_count' = write_count + 1
  /\ writer_ring_head' = NextSlot(writer_ring_head)
  /\ pc' = [pc EXCEPT ![t] = "writing"]

\* The while loop of a writer, over the ring as the caller left it.
WriterTests(t, slots) ==
  \/ MustWait(t, slots)  /\ WriterSleeps(t)
  \/ ~MustWait(t, slots) /\ WriterEnters(t)

\* Variant: no overflow test.
RingFull_Never == FALSE

RingFull == NextSlot(writer_ring_tail) = writer_ring_head

WriteLock(t) ==
  /\ Outside(t)
  /\ ~RingFull
  /\ writer_ring' = [writer_ring EXCEPT ![writer_ring_tail] = t]
  /\ writer_ring_tail' = NextSlot(writer_ring_tail)
  /\ WriterTests(t, writer_ring')
  /\ UNCHANGED read_count

\* The ring overflows: -1 to the caller, nothing else changes.
WriteLockFails(t) ==
  /\ Outside(t)
  /\ RingFull
  /\ pc' = [pc EXCEPT ![t] = "failed"]
  /\ UNCHANGED <<read_count, write_count, ring>>

WriteWake(t) ==
  /\ pc[t] = "wwoken"
  /\ WriterTests(t, writer_ring)
  /\ UNCHANGED <<read_count, writer_ring, writer_ring_tail>>

\* Variant: the writer signals writers only.
WriteUnlock_WritersOnly(t) ==
  /\ pc[t] = "writing"
  /\ write_count' = write_count - 1
  /\ pc' \in AfterSignalWriters([pc EXCEPT ![t] = "idle"])
  /\ UNCHANGED <<read_count, ring>>

\* Readers, waiting ones included, go before writers.
WriteUnlock(t) ==
  /\ pc[t] = "writing"
  /\ write_count' = write_count - 1
  /\ LET released == [pc EXCEPT ![t] = "idle"]
     IN pc' \in CASE write_count' # 0 -> {released}
                  [] write_count' = 0 /\ read_count = 0 ->
                       AfterSignalWriters(released)
                  [] OTHER -> {AfterBroadcastReaders(released)}
  /\ UNCHANGED <<read_count, ring>>
-----------------------------------------------------------------------------
\* POSIX allows pthread_cond_wait to return without a signal.
SpuriousWakeup(t) ==
  /\ pc[t] \in {"rwait", "wwait"}
  /\ pc' = [pc EXCEPT ![t] = IF pc[t] = "rwait" THEN "rwoken" ELSE "wwoken"]
  /\ UNCHANGED <<read_count, write_count, ring>>

Step(t) ==
  \/ ReadLock(t)  \/ ReadWake(t)       \/ ReadUnlock(t)
  \/ WriteLock(t) \/ WriteLockFails(t) \/ WriteWake(t) \/ WriteUnlock(t)

Next == \E t \in Threads : Step(t) \/ SpuriousWakeup(t)

Spec == Init /\ [][Next]_vars
-----------------------------------------------------------------------------
(* Fairness.  A thread that was woken gets the mutex in the end; a thread  *)
(* that holds the lock does a bounded amount of work and unlocks (every    *)
(* path of hashtable.c does).  Nothing obliges a thread to ask for the     *)
(* lock, and no wake-up comes unless somebody signals.  The last conjunct  *)
(* says that a sleeper is not passed over by every one of infinitely many  *)
(* signals: pthread_cond_signal may choose whom it likes, but glibc wakes  *)
(* the sleepers of a condition variable group by group, oldest first.      *)

SignalReaches(u) == /\ \E t \in Threads : Step(t)
                    /\ pc[u] = "wwait" /\ pc'[u] = "wwoken"

Fairness == \A t \in Threads :
  /\ WF_vars(ReadWake(t))   /\ WF_vars(WriteWake(t))
  /\ WF_vars(ReadUnlock(t)) /\ WF_vars(WriteUnlock(t))
  /\ SF_vars(SignalReaches(t))

FairSpec == Spec /\ Fairness
-----------------------------------------------------------------------------
(* Properties *)

TypeOK ==
  /\ read_count \in Nat /\ write_count \in Nat
  /\ writer_ring \in [Slots -> Threads \cup {NoThread}]
  /\ writer_ring_head \in Slots /\ writer_ring_tail \in Slots
  /\ pc \in [Threads -> PCs]

\* A thread between rwlock_write_lock and rwlock_write_unlock is alone: no
\* other thread writes, and none reads.
MutualExclusion ==
  \A t \in At({"writing"}) : At({"reading", "writing"}) = {t}

\* The counters that every test of the lock goes by agree with the threads:
\* read_count counts the readers from their request on, write_count the
\* writer inside.
CountsAgree ==
  /\ read_count  = Cardinality(At({"rwait", "rwoken", "reading"}))
  /\ write_count = Cardinality(At({"writing"}))

\* The slots from writer_ring_head up to, not including, writer_ring_tail.
InUse(i) ==
  IF writer_ring_head <= writer_ring_tail
  THEN writer_ring_head <= i /\ i < writer_ring_tail
  ELSE writer_ring_head <= i \/ i < writer_ring_tail
UsedSlots == {i \in Slots : InUse(i)}

\* The ring holds each waiting writer exactly once and nobody else: none is
\* overwritten when the ring wraps, forgotten, or left behind after its turn.
RingHoldsWaiters ==
  /\ \A i \in UsedSlots : writer_ring[i] \in At({"wwait", "wwoken"})
  /\ \A t \in At({"wwait", "wwoken"}) :
       \E i \in UsedSlots : writer_ring[i] = t
  /\ \A i, j \in UsedSlots : writer_ring[i] = writer_ring[j] => i = j

\* No wake-up is lost.  While the lock is free and writers sleep, one
\* writer is awake and will test the condition, or pass the signal on; and
\* no reader sleeps unless a writer is inside and will wake it.
NoLostWakeup ==
  /\ (write_count = 0 /\ read_count = 0 /\ At({"wwait"}) # {})
       => At({"wwoken"}) # {}
  /\ write_count = 0 => At({"rwait"}) = {}

\* A reader that waits gets the lock (readers go first).
ReadersProgress ==
  \A t \in Threads : pc[t] = "rwait" ~> pc[t] = "reading"

\* A writer that waits gets the lock, if from some time on nobody asks to
\* read: readers go first and may starve it, which the handout excludes.
WritersProgress ==
  <>[](At({"rwait", "rwoken", "reading"}) = {})
    => \A t \in Threads : pc[t] = "wwait" ~> pc[t] = "writing"

\* Nobody waits for ever, on those terms.
WaitersProgress == ReadersProgress /\ WritersProgress

\* The lock implements RWLockSpec: threads get it in the order, and under
\* the conditions, that it promises, and a thread is refused only when
\* RingSize - 1 writers wait.
PromisedMode(p) ==
  [t \in Threads |-> CASE p[t] \in {"rwait", "rwoken"} -> "wantRead"
                       [] p[t] \in {"wwait", "wwoken"} -> "wantWrite"
                       [] p[t] = "failed" -> "refused"
                       [] OTHER -> p[t]]

QueueIn(slots, head, tail) ==
  [k \in 1 .. (tail - head) % RingSize |-> slots[(head + k - 1) % RingSize]]

Promise == INSTANCE RWLockSpec WITH
  Capacity <- RingSize - 1,
  mode  <- PromisedMode(pc),
  queue <- QueueIn(writer_ring, writer_ring_head, writer_ring_tail)
ImplementsPromise == Promise!Spec
=============================================================================
