----------------------------- MODULE RWLockSpec -----------------------------
(***************************************************************************)
(* What the reader-writer lock of src/SP_LAB5/src/rwlock.c promises its    *)
(* callers, without the mutex, the condition variables, the counters and   *)
(* the ring of waiting writers it is built from.  A thread that wants to   *)
(* read waits only for a writer; a thread that wants to write waits until  *)
(* nobody reads, wants to read or writes, and until every writer that      *)
(* asked before it has had its turn.  The queue of waiting writers holds   *)
(* at most Capacity threads: a request that finds it full is refused.      *)
(***************************************************************************)
EXTENDS Naturals, Sequences

CONSTANTS Threads,     \* the worker threads that use the lock
          Capacity     \* how many writers can wait at once

VARIABLES mode,        \* what each thread is doing with the lock
          queue        \* the waiting writers, oldest first

vars == <<mode, queue>>

Free  == {"idle", "refused"}     \* outside: the last call, if any, is over

Readers == {t \in Threads : mode[t] \in {"wantRead", "reading"}}
Writers == {t \in Threads : mode[t] = "writing"}

Init == /\ mode = [t \in Threads |-> "idle"]
        /\ queue = <<>>

Become(t, m) == mode' = [mode EXCEPT ![t] = m]
-----------------------------------------------------------------------------
RequestRead(t) ==
  /\ mode[t] \in Free
  /\ Become(t, IF Writers = {} THEN "reading" ELSE "wantRead")
  /\ UNCHANGED queue

GrantRead(t) ==
  /\ mode[t] = "wantRead"
  /\ Writers = {}
  /\ Become(t, "reading")
  /\ UNCHANGED queue

ReleaseRead(t) ==
  /\ mode[t] = "reading"
  /\ Become(t, "idle")
  /\ UNCHANGED queue

\* Granted at once only to a writer that has nobody to wait for.
RequestWrite(t) ==
  /\ mode[t] \in Free
  /\ Len(queue) < Capacity
  /\ IF Writers = {} /\ Readers = {} /\ queue = <<>>
     THEN Become(t, "writing") /\ UNCHANGED queue
     ELSE Become(t, "wantWrite") /\ queue' = Append(queue, t)

RefuseWrite(t) ==
  /\ mode[t] \in Free
  /\ Len(queue) = Capacity
  /\ Become(t, "refused")
  /\ UNCHANGED queue

\* A thread that was refused turns to something else.
Forget(t) ==
  /\ mode[t] = "refused"
  /\ Become(t, "idle")
  /\ UNCHANGED queue

GrantWrite(t) ==
  /\ Writers = {} /\ Readers = {}
  /\ queue # <<>> /\ Head(queue) = t
  /\ Become(t, "writing")
  /\ queue' = Tail(queue)

ReleaseWrite(t) ==
  /\ mode[t] = "writing"
  /\ Become(t, "idle")
  /\ UNCHANGED queue

Next == \E t \in Threads :
  \/ RequestRead(t)  \/ GrantRead(t)   \/ ReleaseRead(t)
  \/ RequestWrite(t) \/ GrantWrite(t)  \/ ReleaseWrite(t)
  \/ RefuseWrite(t)  \/ Forget(t)

Spec == Init /\ [][Next]_vars
=============================================================================
