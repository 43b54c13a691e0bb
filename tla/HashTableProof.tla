--------------------------- MODULE HashTableProof ---------------------------
(***************************************************************************)
(* The hash table, for any numbers of threads, keys, values and nodes and  *)
(* any hash function.                                                      *)
(*                                                                         *)
(* Whatever the requests, locks are used as their promise allows.  That    *)
(* the table is sound and answers as a store does holds only if the mix of *)
(* requests is orderly: no two threads may send requests that Clash, for   *)
(* each such pair is broken by what the code does with the head it reads   *)
(* before it has the lock, or with the pointer it keeps after.  TableInv   *)
(* is inductive under that condition.  It says what the memory must look   *)
(* like for the buckets to hold chains, and, for a thread that is half way *)
(* through an operation, that what it has read of the table still holds.   *)
(***************************************************************************)
EXTENDS HashTable, Induction

(***************************************************************************)
(* Types.                                                                  *)
(***************************************************************************)
Heads == Nodes \cup {NULL}
Node  == [key : Keys, value : Cells, next : Heads]

\* A thread that serves no request is at "idle"; any other serves one of its
\* clients'.
Serving == \A t \in Threads :
  IF pc[t] = "idle" THEN req[t] = NoRequest ELSE req[t] \in mix[t]

\* The steps of one thread.
Steps(t) == (Defined(t) /\ UNCHANGED undefined) \/ Find(t) \/ Reply(t)

(***************************************************************************)
(* The locks.                                                              *)
(***************************************************************************)
Requested == mix \in Mixes /\ pc \in [Threads -> PCs]
             /\ req \in [Threads -> Requests \cup {NoRequest}]
             /\ Serving

\* A writer that waits is in the queue of the lock it waits for.
Queued ==
  /\ queue \in [Buckets -> Seq(Threads)]
  /\ \A t \in Threads : pc[t] = "waiting" /\ req[t].op # "READ" =>
       \E i \in 1 .. Len(queue[Bucket(t)]) : queue[Bucket(t)][i] = t

\* NoRequest is no request.
LEMMA RequestKinds ==
  ASSUME NEW r \in Requests
  PROVE  /\ r # NoRequest /\ r.op \in Ops /\ r.key \in Keys /\ Hash[r.key] \in Buckets
PROOF
<1>1. r.op \in Ops /\ r.key \in Keys BY DEF Requests, Ops
<1>2. NoRequest.op = "none" BY DEF NoRequest
<1>3. r # NoRequest BY <1>1, <1>2 DEF Ops
<1> QED BY <1>1, <1>3, HashTableAssumption

LEMMA ServedRequest ==
  ASSUME Requested, NEW t \in Threads, pc[t] # "idle"
  PROVE  req[t] \in Requests /\ req[t] \in mix[t] /\ Bucket(t) \in Buckets
PROOF
<1>1. req[t] \in mix[t] BY DEF Requested, Serving
<1>2. req[t] \in Requests BY <1>1, HashTableAssumption DEF Requested
<1> QED BY <1>1, <1>2, RequestKinds DEF Bucket

\* What each step does to the place of its thread.
LEMMA OwnPlace ==
  ASSUME Requested, NEW t \in Threads, Steps(t)
  PROVE  /\ pc' = [pc EXCEPT ![t] = pc'[t]] /\ pc'[t] \in PCs
         /\ \/ Call(t) /\ req'[t] \in mix[t] /\ req' = [req EXCEPT ![t] = req'[t]]
            \/ Reply(t) /\ req' = [req EXCEPT ![t] = NoRequest] /\ pc'[t] = "idle"
            \/ req' = req /\ pc[t] # "idle" /\ pc'[t] # "idle" /\ ~Call(t) /\ ~Reply(t)
PROOF
<1>0. pc \in [Threads -> PCs] /\ req \in [Threads -> Requests \cup {NoRequest}]
  BY DEF Requested
<1> USE DEF GoTo, PCs, Holding, locals
<1>1. CASE Call(t)
  BY <1>0, <1>1 DEF Call
<1>2. CASE Reply(t)
  BY <1>0, <1>2 DEF Reply
<1>3. CASE ReadLock(t) \/ ReadGranted(t)
  BY <1>0, <1>3 DEF ReadLock, ReadGranted, Call, Reply
<1>4. CASE WriteLock(t) \/ WriteGranted(t) \/ WriteRefused(t)
  BY <1>0, <1>4 DEF WriteLock, WriteGranted, WriteRefused, Call, Reply
<1>5. CASE Insert(t)
  BY <1>0, <1>5 DEF Insert, Finds, Misses, Fruitless, Returns, Counts, Call, Reply
<1>6. CASE Update(t)
  BY <1>0, <1>6 DEF Update, Finds, Misses, Fruitless, Returns, Counts, Call, Reply
<1>7. CASE Delete(t)
  BY <1>0, <1>7 DEF Delete, Finds, Misses, Fruitless, Returns, Counts, Call, Reply
<1>8. CASE Search(t)
  BY <1>0, <1>8 DEF Search, Finds, Misses, Fruitless, Returns, Counts, Call, Reply
<1>9. CASE LoadTotal(t) \/ StoreTotal(t) \/ Unlock(t) \/ Find(t)
  BY <1>0, <1>9 DEF LoadTotal, StoreTotal, Unlock, Find, Call, Reply
<1> QED BY <1>1, <1>2, <1>3, <1>4, <1>5, <1>6, <1>7, <1>8, <1>9 DEF Steps, Defined

LEMMA RequestedStep ==
  Requested /\ [Next]_vars => Requested'
PROOF
<1> SUFFICES ASSUME Requested, [Next]_vars PROVE Requested' OBVIOUS
<1>0. pc \in [Threads -> PCs] /\ req \in [Threads -> Requests \cup {NoRequest}] /\ mix \in Mixes
  BY DEF Requested
<1>1. ASSUME NEW t \in Threads, Steps(t), mix' = mix PROVE Requested'
  <2>1. pc' \in [Threads -> PCs] BY <1>0, <1>1, OwnPlace
  <2>2. req'[t] \in mix[t] => req'[t] \in Requests BY <1>0, HashTableAssumption
  <2>3. req' \in [Threads -> Requests \cup {NoRequest}] BY <1>0, <1>1, <2>2, OwnPlace
  <2>4. Serving'
    <3> SUFFICES ASSUME NEW u \in Threads
                 PROVE  IF pc'[u] = "idle" THEN req'[u] = NoRequest ELSE req'[u] \in mix[u]
      BY <1>1 DEF Serving
    <3>1. IF pc[u] = "idle" THEN req[u] = NoRequest ELSE req[u] \in mix[u]
      BY DEF Requested, Serving
    <3>2. Call(t) => pc'[t] = "called" BY <1>0 DEF Call, GoTo
    <3> QED BY <1>0, <1>1, <3>1, <3>2, OwnPlace
  <2> QED BY <1>0, <1>1, <2>1, <2>3, <2>4 DEF Requested
<1>2. CASE UNCHANGED vars BY <1>2 DEF vars, locals, Requested, Serving
<1> QED BY <1>1, <1>2 DEF Next, Steps


In(q, t) == \E i \in 1 .. Len(q) : q[i] = t

LEMMA QueueFacts ==
  ASSUME NEW q \in Seq(Threads), NEW t \in Threads, NEW u \in Threads, In(q, u)
  PROVE  /\ In(Append(q, t), u)
         /\ q # <<>> /\ (Head(q) = t /\ u # t => In(Tail(q), u))
PROOF
<1>1. PICK i \in 1 .. Len(q) : q[i] = u BY DEF In
<1>2. In(Append(q, t), u) BY <1>1 DEF In
<1>3. ASSUME Head(q) = t, u # t PROVE In(Tail(q), u)
  <2>1. i # 1 BY <1>1, <1>3
  <2>2. i - 1 \in 1 .. Len(Tail(q)) /\ Tail(q)[i - 1] = u BY <1>1, <2>1
  <2> QED BY <2>2 DEF In
<1> QED BY <1>1, <1>2, <1>3

\* The queues change only where writers are queued and let in.
LEMMA QueueStep ==
  ASSUME Requested, Queued, NEW t \in Threads, Steps(t)
  PROVE  Queued'
PROOF
<1>0. /\ pc \in [Threads -> PCs] /\ req \in [Threads -> Requests \cup {NoRequest}]
      /\ queue \in [Buckets -> Seq(Threads)]
  BY DEF Requested, Queued
<1>1. ASSUME NEW u \in Threads, u # t PROVE pc'[u] = pc[u] /\ req'[u] = req[u]
  BY <1>0, <1>1, OwnPlace
<1>2. ASSUME NEW u \in Threads, pc[u] = "waiting", req[u].op # "READ"
      PROVE  Bucket(u) \in Buckets /\ In(queue[Bucket(u)], u)
  BY <1>2, ServedRequest DEF Queued, In
<1> SUFFICES /\ queue' \in [Buckets -> Seq(Threads)]
             /\ \A u \in Threads : pc'[u] = "waiting" /\ req'[u].op # "READ" =>
                  In(queue'[Hash[req'[u].key]], u)
  BY DEF Queued, In, Bucket
<1>3. CASE queue' = queue /\ ~(pc'[t] = "waiting" /\ req'[t].op # "READ")
  BY <1>0, <1>1, <1>2, <1>3 DEF Bucket
<1>4. CASE WriteLock(t) \/ WriteGranted(t)
  <2>1. pc[t] \in {"called", "waiting"} /\ req' = req
    BY <1>4 DEF WriteLock, WriteGranted, locals
  <2> DEFINE b == Bucket(t)
  <2>2. b \in Buckets BY <2>1, ServedRequest
  <2>3. \/ queue' = queue /\ pc'[t] = "inside"
        \/ queue' = [queue EXCEPT ![b] = Append(queue[b], t)]
        \/ /\ queue' = [queue EXCEPT ![b] = Tail(queue[b])] /\ Head(queue[b]) = t
           /\ pc[t] = "waiting" /\ req[t].op # "READ" /\ pc'[t] = "inside"
    BY <1>0, <1>4 DEF WriteLock, WriteGranted, GoTo
  <2>4. CASE queue' = queue /\ pc'[t] = "inside" BY <1>3, <2>4
  <2>5. CASE queue' = [queue EXCEPT ![b] = Append(queue[b], t)]
    <3>1. queue[b] \in Seq(Threads) /\ Append(queue[b], t) \in Seq(Threads) BY <1>0, <2>2
    <3>2. queue' \in [Buckets -> Seq(Threads)] BY <1>0, <2>5, <3>1
    <3>3. queue'[b] = Append(queue[b], t) /\ \A c \in Buckets : c # b => queue'[c] = queue[c]
      BY <1>0, <2>2, <2>5
    <3>4. In(Append(queue[b], t), t) BY <3>1 DEF In
    <3>5. ASSUME NEW u \in Threads, u # t, pc'[u] = "waiting", req'[u].op # "READ"
          PROVE  In(queue'[Bucket(u)], u)
      <4>1. Bucket(u) \in Buckets /\ In(queue[Bucket(u)], u) BY <1>1, <1>2, <3>5
      <4>2. In(queue[b], u) => In(Append(queue[b], t), u) BY <3>1, QueueFacts
      <4> QED BY <3>3, <4>1, <4>2
    <3> QED BY <2>1, <3>2, <3>3, <3>4, <3>5 DEF Bucket
  <2>6. CASE /\ queue' = [queue EXCEPT ![b] = Tail(queue[b])] /\ Head(queue[b]) = t
             /\ pc[t] = "waiting" /\ req[t].op # "READ" /\ pc'[t] = "inside"
    <3>0. In(queue[b], t) BY <1>2, <2>6
    <3>1. queue[b] \in Seq(Threads) /\ queue[b] # <<>> BY <1>0, <2>2, <3>0, QueueFacts
    <3>4. Tail(queue[b]) \in Seq(Threads) BY <3>1
    <3>2. queue' \in [Buckets -> Seq(Threads)] BY <1>0, <2>6, <3>4
    <3>3. queue'[b] = Tail(queue[b]) /\ \A c \in Buckets : c # b => queue'[c] = queue[c]
      BY <1>0, <2>2, <2>6
    <3>5. ASSUME NEW u \in Threads, u # t, pc'[u] = "waiting", req'[u].op # "READ"
          PROVE  In(queue'[Bucket(u)], u)
      <4>1. Bucket(u) \in Buckets /\ In(queue[Bucket(u)], u) BY <1>1, <1>2, <3>5
      <4>2. In(queue[b], u) => In(Tail(queue[b]), u) BY <2>6, <3>1, <3>5, QueueFacts
      <4> QED BY <3>3, <4>1, <4>2
    <3> QED BY <2>1, <2>6, <3>2, <3>3, <3>5 DEF Bucket
  <2> QED BY <2>3, <2>4, <2>5, <2>6
<1>5. CASE Call(t)
  BY <1>0, <1>3, <1>5 DEF Call, GoTo
<1>6. CASE ReadLock(t) \/ ReadGranted(t) \/ WriteRefused(t)
  BY <1>0, <1>3, <1>6 DEF ReadLock, ReadGranted, WriteRefused, GoTo, locals
<1>7. CASE Insert(t) \/ Update(t)
  BY <1>0, <1>3, <1>7 DEF Insert, Update, Fruitless, Returns, Counts, GoTo
<1>8. CASE Delete(t) \/ Search(t)
  BY <1>0, <1>3, <1>8 DEF Delete, Search, Fruitless, Returns, Counts, GoTo
<1>9. CASE LoadTotal(t) \/ StoreTotal(t) \/ Unlock(t) \/ Find(t) \/ Reply(t)
  BY <1>0, <1>3, <1>9 DEF LoadTotal, StoreTotal, Unlock, Find, Reply, GoTo
<1> QED BY <1>4, <1>5, <1>6, <1>7, <1>8, <1>9 DEF Steps, Defined

\* The mapping to RWLockSpec: what the other threads do with any lock stays as it
\* is.
Modes(b) == [t \in Threads |-> LockMode(t, b)]

LEMMA ModeStep ==
  ASSUME Requested, NEW t \in Threads, Steps(t), NEW b \in Buckets
  PROVE  Modes(b)' = [Modes(b) EXCEPT ![t] = LockMode(t, b)']
PROOF
<1>0. pc \in [Threads -> PCs] /\ req \in [Threads -> Requests \cup {NoRequest}]
  BY DEF Requested
<1>1. ASSUME NEW u \in Threads, u # t PROVE LockMode(u, b)' = LockMode(u, b)
  <2>1. pc'[u] = pc[u] /\ req'[u] = req[u] BY <1>0, <1>1, OwnPlace
  <2> QED BY <2>1 DEF LockMode, Bucket
<1> QED BY <1>1 DEF Modes

\* The readers and the writers of a lock are those of RWLockSpec.
LEMMA LockUsers ==
  ASSUME Requested, NEW b \in Buckets
  PROVE  LockOf(b)!Writers = WritersOf(b) /\ LockOf(b)!Readers = ReadersOf(b)
PROOF
<1>1. ASSUME NEW u \in Threads
      PROVE  /\ LockMode(u, b) = "writing" <=> u \in WritersOf(b)
             /\ LockMode(u, b) \in {"wantRead", "reading"} <=> u \in ReadersOf(b)
  <2>1. CASE pc[u] = "idle"
    BY <2>1 DEF Requested, Serving, LockMode, WritersOf, ReadersOf, Holding
  <2>2. CASE pc[u] # "idle"
    <3>1. req[u] # NoRequest /\ req[u].op \in Ops BY <2>2, ServedRequest, RequestKinds
    <3> QED BY <3>1 DEF LockMode, WritersOf, ReadersOf, Holding
  <2> QED BY <2>1, <2>2
<1> QED BY <1>1 DEF LockOf!Writers, LockOf!Readers, WritersOf, ReadersOf

\* The steps between the lock and the unlock.
LEMMA QueueKept ==
  ASSUME Requested, NEW t \in Threads, Steps(t)
  PROVE  /\ queue' = queue \/ WriteLock(t) \/ WriteGranted(t)
         /\ \/ Call(t) \/ Reply(t) \/ ReadLock(t) \/ ReadGranted(t) \/ WriteLock(t)
            \/ WriteGranted(t) \/ WriteRefused(t) \/ Unlock(t)
            \/ queue' = queue /\ pc[t] \in Holding /\ pc'[t] \in Holding
PROOF
<1>0. pc \in [Threads -> PCs] BY DEF Requested
<1> USE DEF GoTo, Holding
<1>1. CASE Insert(t) \/ Update(t)
  BY <1>0, <1>1 DEF Insert, Update, Finds, Misses, Fruitless, Returns, Counts
<1>2. CASE Delete(t) \/ Search(t)
  BY <1>0, <1>2 DEF Delete, Search, Finds, Misses, Fruitless, Returns, Counts
<1>3. CASE LoadTotal(t) \/ StoreTotal(t) \/ Find(t)
  BY <1>0, <1>3 DEF LoadTotal, StoreTotal, Find
<1>4. CASE \/ Call(t) \/ Reply(t) \/ ReadLock(t) \/ ReadGranted(t) \/ WriteRefused(t)
           \/ Unlock(t)
  BY <1>4 DEF Call, Reply, ReadLock, ReadGranted, WriteRefused, Unlock
<1> QED BY <1>1, <1>2, <1>3, <1>4 DEF Steps, Defined

\* Every step is one of RWLockSpec's with the lock of t's bucket, or none, and
\* leaves the other locks alone.
LEMMA LockStep ==
  ASSUME Requested, Queued, NEW t \in Threads, Steps(t), NEW b \in Buckets
  PROVE  LockOf(b)!Next \/ UNCHANGED LockOf(b)!vars
PROOF
<1>0. /\ pc \in [Threads -> PCs] /\ req \in [Threads -> Requests \cup {NoRequest}]
      /\ queue \in [Buckets -> Seq(Threads)]
  BY DEF Requested, Queued
<1>1. Modes(b)' = [Modes(b) EXCEPT ![t] = LockMode(t, b)'] BY ModeStep
<1>2. LockOf(b)!Writers = WritersOf(b) /\ LockOf(b)!Readers = ReadersOf(b) BY LockUsers
<1> DEFINE before == LockMode(t, b)
           after == LockMode(t, b)'
<1>3. Modes(b)[t] = before BY DEF Modes
<1>4. ASSUME after = before, queue'[b] = queue[b] PROVE UNCHANGED LockOf(b)!vars
  <2>1. Modes(b)' = Modes(b) BY <1>1, <1>3, <1>4 DEF Modes
  <2> QED BY <1>4, <2>1 DEF LockOf!vars, Modes
<1> HIDE DEF before, after
<1>5. ASSUME \E u \in Threads :
               \/ LockOf(b)!RequestRead(u)  \/ LockOf(b)!GrantRead(u)
               \/ LockOf(b)!ReleaseRead(u)  \/ LockOf(b)!RequestWrite(u)
               \/ LockOf(b)!GrantWrite(u)   \/ LockOf(b)!ReleaseWrite(u)
               \/ LockOf(b)!RefuseWrite(u)  \/ LockOf(b)!Forget(u)
      PROVE  LockOf(b)!Next
  BY <1>5 DEF LockOf!Next
<1> USE DEF Modes
<1>6. CASE Call(t)
  <2>1. pc[t] = "idle" /\ pc'[t] = "called" /\ queue' = queue BY <1>0, <1>6 DEF Call, GoTo
  <2>2. req[t] = NoRequest BY <2>1 DEF Requested, Serving
  <2> QED BY <1>4, <2>1, <2>2 DEF before, after, LockMode, Holding
<1>7. CASE Reply(t)
  <2>1. /\ pc[t] \in {"answer", "refused"} /\ pc'[t] = "idle" /\ queue' = queue
        /\ req'[t] = NoRequest
    BY <1>0, <1>7 DEF Reply, GoTo
  <2>2. after = "idle" /\ before \in {"idle", "refused"}
    BY <2>1 DEF before, after, LockMode, Holding
  <2>3. CASE before = "idle" BY <1>4, <2>1, <2>2, <2>3
  <2>4. CASE before = "refused"
    <3>1. LockOf(b)!Forget(t)
      BY <1>1, <1>3, <2>1, <2>2, <2>4 DEF LockOf!Forget, LockOf!Become, after, before
    <3> QED BY <1>5, <3>1
  <2> QED BY <2>2, <2>3, <2>4
<1>8. CASE req' = req /\ pc[t] # "idle" /\ pc'[t] # "idle" /\ ~Call(t) /\ ~Reply(t)
  <2>0. /\ req[t] \in Requests /\ req[t] # NoRequest /\ req[t].op \in Ops
        /\ req'[t] = req[t] /\ Bucket(t) \in Buckets
    BY <1>8, ServedRequest, RequestKinds
  <2>1. CASE Bucket(t) # b
    <3>1. before = "idle" /\ after = "idle"
      BY <2>0, <2>1 DEF before, after, LockMode, Bucket
    <3>2. queue'[b] = queue[b]
      <4>1. queue' = queue \/ WriteLock(t) \/ WriteGranted(t) BY <1>8, QueueKept DEF Steps, Defined
      <4>2. (WriteLock(t) \/ WriteGranted(t)) => queue'[b] = queue[b]
        BY <1>0, <2>0, <2>1 DEF WriteLock, WriteGranted
      <4> QED BY <4>1, <4>2
    <3> QED BY <1>4, <3>1, <3>2
  <2>2. CASE Bucket(t) = b
    <3>0. /\ before = LET kind(r, w) == IF req[t].op = "READ" THEN r ELSE w IN
                      CASE pc[t] = "waiting" -> kind("wantRead", "wantWrite")
                        [] pc[t] \in Holding -> kind("reading", "writing")
                        [] pc[t] = "refused" -> "refused"
                        [] OTHER -> "idle"
          /\ after = LET kind(r, w) == IF req[t].op = "READ" THEN r ELSE w IN
                     CASE pc'[t] = "waiting" -> kind("wantRead", "wantWrite")
                       [] pc'[t] \in Holding -> kind("reading", "writing")
                       [] pc'[t] = "refused" -> "refused"
                       [] OTHER -> "idle"
      BY <2>0, <2>2 DEF before, after, LockMode, Bucket
    <3> DEFINE q == queue[b]
               q1 == queue'[b]
    <3>1. CASE ReadLock(t)
      <4>1. /\ before = "idle" /\ q1 = q
            /\ after = IF WritersOf(b) = {} THEN "reading" ELSE "wantRead"
        BY <1>0, <2>2, <3>0, <3>1 DEF ReadLock, GoTo, Holding
      <4>2. LockOf(b)!RequestRead(t)
        BY <1>1, <1>2, <1>3, <4>1 DEF LockOf!RequestRead, LockOf!Become, LockOf!Free, after, before
      <4> QED BY <1>5, <4>2
    <3>2. CASE ReadGranted(t)
      <4>1. /\ before = "wantRead" /\ q1 = q /\ after = "reading" /\ WritersOf(b) = {}
        BY <1>0, <2>2, <3>0, <3>2 DEF ReadGranted, GoTo, Holding
      <4>2. LockOf(b)!GrantRead(t)
        BY <1>1, <1>2, <1>3, <4>1 DEF LockOf!GrantRead, LockOf!Become, after, before
      <4> QED BY <1>5, <4>2
    <3>3. CASE WriteLock(t)
      <4>1. /\ before = "idle" /\ Len(q) < Capacity
            /\ IF WritersOf(b) = {} /\ ReadersOf(b) = {} /\ q = <<>>
               THEN after = "writing" /\ q1 = q
               ELSE after = "wantWrite" /\ q1 = Append(q, t)
        BY <1>0, <2>0, <2>2, <3>0, <3>3 DEF WriteLock, GoTo, Holding
      <4>2. LockOf(b)!RequestWrite(t)
        BY <1>1, <1>2, <1>3, <4>1
           DEF LockOf!RequestWrite, LockOf!Become, LockOf!Free, after, before
      <4> QED BY <1>5, <4>2
    <3>4. CASE WriteGranted(t)
      <4>1. /\ before = "wantWrite" /\ after = "writing" /\ q1 = Tail(q) /\ Head(q) = t
            /\ WritersOf(b) = {} /\ ReadersOf(b) = {}
            /\ pc[t] = "waiting" /\ req[t].op # "READ"
        BY <1>0, <2>0, <2>2, <3>0, <3>4 DEF WriteGranted, GoTo, Holding
      <4>2. q # <<>>
        <5>1. q \in Seq(Threads) /\ In(q, t) BY <1>0, <2>2, <4>1 DEF Queued, In
        <5> HIDE DEF q
        <5> QED BY <5>1, QueueFacts
      <4>3. LockOf(b)!GrantWrite(t)
        BY <1>1, <1>2, <1>3, <4>1, <4>2 DEF LockOf!GrantWrite, LockOf!Become, after, before
      <4> QED BY <1>5, <4>3
    <3>5. CASE WriteRefused(t)
      <4>1. before = "idle" /\ after = "refused" /\ q1 = q /\ Len(q) = Capacity
        BY <1>0, <2>0, <2>2, <3>0, <3>5 DEF WriteRefused, GoTo, Holding
      <4>2. LockOf(b)!RefuseWrite(t)
        BY <1>1, <1>2, <1>3, <4>1
           DEF LockOf!RefuseWrite, LockOf!Become, LockOf!Free, after, before
      <4> QED BY <1>5, <4>2
    <3>6. CASE Unlock(t)
      <4>1. before \in {"reading", "writing"} /\ after = "idle" /\ q1 = q
        BY <1>0, <2>2, <3>0, <3>6 DEF Unlock, GoTo, Holding
      <4>2. LockOf(b)!ReleaseRead(t) \/ LockOf(b)!ReleaseWrite(t)
        BY <1>1, <1>3, <4>1
           DEF LockOf!ReleaseRead, LockOf!ReleaseWrite, LockOf!Become, after, before
      <4> QED BY <1>5, <4>2
    <3>7. CASE /\ queue' = queue /\ pc[t] \in Holding /\ pc'[t] \in Holding
      <4>1. before = after BY <3>0, <3>7 DEF Holding
      <4> QED BY <1>4, <3>7, <4>1
    <3> QED
      BY <1>8, <3>1, <3>2, <3>3, <3>4, <3>5, <3>6, <3>7, QueueKept DEF Steps, Defined
  <2> QED BY <2>1, <2>2
<1> QED BY <1>6, <1>7, <1>8, OwnPlace

LEMMA LocksInitially ==
  ASSUME Init
  PROVE  Requested /\ Queued /\ \A b \in Buckets : LockOf(b)!Init
PROOF
<1>1. Requested BY DEF Init, Requested, Serving, PCs
<1>2. Queued BY DEF Init, Queued
<1>3. \A b \in Buckets : LockOf(b)!Init BY DEF Init, LockOf!Init, LockMode
<1> QED BY <1>1, <1>2, <1>3

\* Each bucket's lock is asked for, granted and released as RWLockSpec says, on
\* every path through every operation, whatever the requests, the hash function,
\* the size of the heap and the number of threads.
THEOREM LocksUsedAsPromised == Spec => LocksObeyed
PROOF
<1> DEFINE Each == \A b \in Buckets : LockOf(b)!Next \/ UNCHANGED LockOf(b)!vars
           Inv == Requested /\ Queued
<1>1. Init => Inv /\ \A b \in Buckets : LockOf(b)!Init BY LocksInitially
<1>2. Inv /\ [Next]_vars => Inv'
  <2> SUFFICES ASSUME Inv, [Next]_vars PROVE Inv' OBVIOUS
  <2>1. CASE UNCHANGED vars
    BY <2>1, RequestedStep DEF vars, locals, Queued, Bucket
  <2>2. CASE Next BY <2>2, RequestedStep, QueueStep DEF Next, Steps
  <2> QED BY <2>1, <2>2
<1>3. Inv /\ [Next]_vars => [Each]_vars
  BY LockStep DEF Next, Steps
<1> HIDE DEF Each, Inv
<1>4. Spec => (\A b \in Buckets : LockOf(b)!Init) /\ [][Each]_vars
  BY <1>1, <1>2, <1>3, PTL DEF Spec
<1> QED BY <1>4 DEF LocksObeyed, Each

(***************************************************************************)
(* Chains.  A chain is written here from its end: s[1] is the last node,   *)
(* whose next is NULL, and s[Len(s)] the one the bucket points to, so that *)
(* a node added in front goes to the end of s.  A head that was read once  *)
(* leads to the first p elements of s for some p.                          *)
(***************************************************************************)
Memory(nd) == DOMAIN nd \in SUBSET Nodes /\ nd \in [DOMAIN nd -> Node]

Link(s, i) == IF i = 0 THEN NULL ELSE s[i]

Threaded(nd, s) ==
  /\ s \in Seq(Nodes)
  /\ \A i \in 1 .. Len(s) : s[i] \in DOMAIN nd /\ nd[s[i]].next = Link(s, i - 1)
  /\ \A i, j \in 1 .. Len(s) : s[i] = s[j] => i = j

\* Walk of the nodes nd.
WalkIn(nd, h, k) ==
  LET at[i \in 0 .. Cardinality(Nodes)] ==
        IF i = 0 THEN h
        ELSE LET n == at[i - 1]
             IN IF n \in DOMAIN nd /\ nd[n].key # k THEN nd[n].next ELSE n
  IN at

\* The nodes a walk meets, and the elements i to p of a chain.
Meets(nd, h, k)  == {WalkIn(nd, h, k)[x] : x \in 0 .. Cardinality(Nodes)}
Between(s, i, p) == {s[j] : j \in i .. p}

\* No more nodes are on a chain than there are.
LEMMA ChainFits ==
  ASSUME NEW nd, NEW s, Threaded(nd, s)
  PROVE  Len(s) \in Nat /\ Cardinality(Nodes) \in Nat /\ Len(s) <= Cardinality(Nodes)
PROOF
<1>1. Len(s) \in Nat BY DEF Threaded
<1> DEFINE I == 1 .. Len(s)
<1>2. IsFiniteSet(I) /\ Cardinality(I) = Len(s) BY <1>1, FS_Interval
<1>3. s \in [I -> Nodes] /\ \A i, j \in I : s[i] = s[j] => i = j BY DEF Threaded
<1>4. s \in Injection(I, Nodes)
  <2> HIDE DEF I
  <2> QED BY <1>3 DEF Injection, IsInjective
<1>5. Cardinality(I) <= Cardinality(Nodes)
  <2> HIDE DEF I
  <2> QED BY <1>4, FS_Injection, HashTableAssumption
<1> QED BY <1>1, <1>2, <1>5, FS_CardinalityType, HashTableAssumption

\* The definition of a walk can be unfolded.
LEMMA WalkUnfolds ==
  ASSUME NEW nd, Memory(nd), NEW h \in Heads, NEW k
  PROVE  LET at == WalkIn(nd, h, k) IN
           /\ at \in [0 .. Cardinality(Nodes) -> Heads]
           /\ at[0] = h
           /\ \A i \in 0 .. Cardinality(Nodes) : i < Cardinality(Nodes) =>
                at[i + 1] = IF at[i] \in DOMAIN nd /\ nd[at[i]].key # k
                            THEN nd[at[i]].next ELSE at[i]
PROOF
<1> DEFINE N == Cardinality(Nodes)
           step == [n \in Heads |-> IF n \in DOMAIN nd /\ nd[n].key # k THEN nd[n].next ELSE n]
<1>0. N \in Nat BY FS_CardinalityType, HashTableAssumption
<1>1. step \in [Heads -> Heads] BY DEF Memory, Node
<1>2. PICK f \in [0 .. N -> Heads] :
             f = [i \in 0 .. N |-> IF i = 0 THEN h ELSE step[f[i - 1]]]
  <2> HIDE DEF N, step
  <2> QED BY <1>0, <1>1, Iterated
<1>3. f = [i \in 0 .. N |-> IF i = 0 THEN h
             ELSE LET n == f[i - 1]
                  IN IF n \in DOMAIN nd /\ nd[n].key # k THEN nd[n].next ELSE n]
  <2>1. ASSUME NEW i \in 0 .. N
        PROVE  f[i] = IF i = 0 THEN h
                      ELSE IF f[i - 1] \in DOMAIN nd /\ nd[f[i - 1]].key # k
                           THEN nd[f[i - 1]].next ELSE f[i - 1]
    <3>1. i # 0 => i - 1 \in 0 .. N BY <1>0
    <3> QED BY <1>2, <3>1
  <2> QED BY <1>2, <2>1
<1> DEFINE at == WalkIn(nd, h, k)
<1>4. at = [i \in 0 .. N |-> IF i = 0 THEN h
             ELSE LET n == at[i - 1]
                  IN IF n \in DOMAIN nd /\ nd[n].key # k THEN nd[n].next ELSE n]
  BY <1>3 DEF WalkIn
<1>5. \A i \in 0 .. N : at[i] \in Heads
  <2> DEFINE S == {i \in 0 .. N : at[i] \in Heads}
  <2> HIDE DEF at
  <2>1. 0 \in S BY <1>0, <1>4
  <2>2. ASSUME NEW i \in 0 .. N, i < N, i \in S PROVE i + 1 \in S
    <3>1. i + 1 \in 0 .. N /\ (i + 1) - 1 = i /\ i + 1 # 0 BY <1>0, <2>2
    <3>2. at[i + 1] = IF at[i] \in DOMAIN nd /\ nd[at[i]].key # k
                      THEN nd[at[i]].next ELSE at[i]
      BY <1>4, <3>1
    <3> QED BY <2>2, <3>1, <3>2 DEF Memory, Node
  <2>3. 0 .. N \subseteq S
    <3> HIDE DEF S, N
    <3> QED BY <1>0, <2>1, <2>2, BoundedInduction
  <2> QED BY <2>3
<1>6. ASSUME NEW i \in 0 .. N, i < N
      PROVE  at[i + 1] = IF at[i] \in DOMAIN nd /\ nd[at[i]].key # k
                         THEN nd[at[i]].next ELSE at[i]
  <2> HIDE DEF at
  <2>1. i + 1 \in 0 .. N /\ (i + 1) - 1 = i /\ i + 1 # 0 BY <1>0, <1>6
  <2> QED BY <1>4, <2>1
<1>7. at \in [0 .. N -> Heads] /\ at[0] = h
  <2> HIDE DEF at
  <2> QED BY <1>0, <1>4, <1>5
<1> QED BY <1>6, <1>7

\* Where a walk from the p-th element is after i steps.
Falls(nd, s, p, k, i, n) ==
  \/ n = NULL /\ p <= i /\ \A j \in 1 .. p : nd[s[j]].key # k
  \/ \E j \in 1 .. p : /\ n = s[j] /\ p - i <= j /\ (nd[s[j]].key = k \/ j = p - i)
                       /\ \A l \in j + 1 .. p : nd[s[l]].key # k

LEMMA WalkFalls ==
  ASSUME NEW nd, Memory(nd), NEW s, Threaded(nd, s), NEW p \in 0 .. Len(s), NEW k,
         NEW i \in 0 .. Cardinality(Nodes)
  PROVE  Falls(nd, s, p, k, i, WalkIn(nd, Link(s, p), k)[i])
PROOF
<1> DEFINE N == Cardinality(Nodes)
           h == Link(s, p)
           at == WalkIn(nd, h, k)
           S == {x \in 0 .. N : Falls(nd, s, p, k, x, at[x])}
<1>0. /\ N \in Nat /\ Len(s) \in Nat /\ p \in Nat
      /\ \A j \in 1 .. p : /\ s[j] \in DOMAIN nd /\ s[j] \in Nodes
                           /\ nd[s[j]].next = IF j = 1 THEN NULL ELSE s[j - 1]
  BY ChainFits DEF Threaded, Link
<1>1. h \in Heads /\ h = IF p = 0 THEN NULL ELSE s[p] BY <1>0 DEF Link, Heads
<1>2. /\ at[0] = h
      /\ \A x \in 0 .. N : x < N => at[x + 1] = IF at[x] \in DOMAIN nd /\ nd[at[x]].key # k
                                                THEN nd[at[x]].next ELSE at[x]
  <2> HIDE DEF h
  <2> QED BY <1>1, WalkUnfolds
<1> HIDE DEF at, h, N
<1>3. 0 \in S
  <2>1. CASE p = 0 BY <1>0, <1>1, <1>2, <2>1 DEF Falls
  <2>2. CASE p # 0 BY <1>0, <1>1, <1>2, <2>2 DEF Falls
  <2> QED BY <2>1, <2>2
<1>4. ASSUME NEW x \in 0 .. N, x < N, x \in S PROVE x + 1 \in S
  <2>0. at[x + 1] = IF at[x] \in DOMAIN nd /\ nd[at[x]].key # k
                    THEN nd[at[x]].next ELSE at[x]
    BY <1>2, <1>4
  <2>1. CASE at[x] = NULL /\ p <= x /\ \A j \in 1 .. p : nd[s[j]].key # k
    <3>1. NULL \notin DOMAIN nd BY HashTableAssumption DEF Memory
    <3>2. at[x + 1] = NULL BY <2>0, <2>1, <3>1
    <3> QED BY <1>0, <1>4, <2>1, <3>2 DEF Falls
  <2>2. ASSUME NEW j \in 1 .. p, at[x] = s[j], p - x <= j, nd[s[j]].key = k \/ j = p - x,
               \A l \in j + 1 .. p : nd[s[l]].key # k
        PROVE  Falls(nd, s, p, k, x + 1, at[x + 1])
    <3>1. CASE nd[s[j]].key = k
      <4>1. at[x + 1] = s[j] BY <2>0, <2>2, <3>1
      <4> QED BY <2>2, <3>1, <4>1 DEF Falls
    <3>2. CASE nd[s[j]].key # k
      <4>1. j = p - x /\ at[x + 1] = nd[s[j]].next BY <1>0, <2>0, <2>2, <3>2
      <4>2. \A l \in j .. p : nd[s[l]].key # k BY <1>0, <2>2, <3>2
      <4>3. CASE j = 1
        <5>1. at[x + 1] = NULL /\ p <= x + 1 BY <1>0, <4>1, <4>3
        <5> QED BY <4>2, <4>3, <5>1 DEF Falls
      <4>4. CASE j # 1
        <5>1. /\ j - 1 \in 1 .. p /\ at[x + 1] = s[j - 1] /\ j - 1 = p - (x + 1)
              /\ (j - 1) + 1 = j
          BY <1>0, <4>1, <4>4
        <5> QED BY <4>2, <5>1 DEF Falls
      <4> QED BY <4>3, <4>4
    <3> QED BY <3>1, <3>2
  <2>3. Falls(nd, s, p, k, x + 1, at[x + 1])
    BY <1>4, <2>1, <2>2 DEF Falls
  <2> QED BY <1>0, <1>4, <2>3
<1>5. 0 .. N \subseteq S
  <2> HIDE DEF S
  <2> QED BY <1>0, <1>3, <1>4, BoundedInduction
<1>6. i \in S BY <1>5 DEF N
<1> QED BY <1>6 DEF at, h, N

\* A search finds the node with the key, or the end of the chain when there is
\* none.
LEMMA SearchEnds ==
  ASSUME NEW nd, Memory(nd), NEW s, Threaded(nd, s), NEW p \in 0 .. Len(s), NEW k
  PROVE  LET n == WalkIn(nd, Link(s, p), k)[Cardinality(Nodes)] IN
           \/ n = NULL /\ \A j \in 1 .. p : nd[s[j]].key # k
           \/ \E j \in 1 .. p : n = s[j] /\ nd[s[j]].key = k
PROOF
<1> DEFINE N == Cardinality(Nodes)
           n == WalkIn(nd, Link(s, p), k)[N]
<1>1. N \in Nat /\ Len(s) \in Nat /\ Len(s) <= N BY ChainFits
<1>2. Falls(nd, s, p, k, N, n) BY <1>1, WalkFalls
<1> HIDE DEF N, n
<1>3. p - N <= 0 /\ p \in Nat BY <1>1
<1>4. \A j \in 1 .. p : j # p - N BY <1>1, <1>3
<1>5. \/ n = NULL /\ \A j \in 1 .. p : nd[s[j]].key # k
      \/ \E j \in 1 .. p : n = s[j] /\ nd[s[j]].key = k
  BY <1>2, <1>4 DEF Falls
<1> QED BY <1>5 DEF N, n

\* A walk that looks for no key of the chain meets all its nodes.
LEMMA WalkMeetsAll ==
  ASSUME NEW nd, Memory(nd), NEW s, Threaded(nd, s), NEW p \in 0 .. Len(s), NEW k,
         \A j \in 1 .. p : nd[s[j]].key # k
  PROVE  Meets(nd, Link(s, p), k) \ {NULL} = Between(s, 1, p)
PROOF
<1> DEFINE N == Cardinality(Nodes)
           at == WalkIn(nd, Link(s, p), k)
<1>1. N \in Nat /\ Len(s) \in Nat /\ Len(s) <= N /\ p \in Nat BY ChainFits
<1>2. \A i \in 0 .. N : Falls(nd, s, p, k, i, at[i]) BY WalkFalls
<1>3. \A j \in 1 .. p : s[j] # NULL BY HashTableAssumption DEF Threaded
<1> HIDE DEF N, at
<1>4. ASSUME NEW i \in 0 .. N, at[i] # NULL PROVE at[i] \in {s[j] : j \in 1 .. p}
  BY <1>2, <1>4 DEF Falls
<1>5. ASSUME NEW j \in 1 .. p PROVE p - j \in 0 .. N /\ at[p - j] = s[j]
  <2>1. p - j \in 0 .. N /\ ~(p <= p - j) /\ p - (p - j) = j BY <1>1
  <2>2. Falls(nd, s, p, k, p - j, at[p - j]) BY <1>2, <2>1
  <2>3. PICK l \in 1 .. p : at[p - j] = s[l] /\ (nd[s[l]].key = k \/ l = p - (p - j))
    BY <2>1, <2>2 DEF Falls
  <2> QED BY <2>1, <2>3
<1>6. {at[i] : i \in 0 .. N} \ {NULL} = {s[j] : j \in 1 .. p}
  <2>1. ASSUME NEW n \in {at[i] : i \in 0 .. N} \ {NULL} PROVE n \in {s[j] : j \in 1 .. p}
    BY <1>4
  <2>2. ASSUME NEW j \in 1 .. p PROVE s[j] \in {at[i] : i \in 0 .. N} \ {NULL}
    <3>1. s[j] # NULL BY <1>3
    <3>2. p - j \in 0 .. N /\ at[p - j] = s[j] BY <1>5
    <3>3. s[j] \in {at[i] : i \in 0 .. N} BY <3>2
    <3> QED BY <3>1, <3>3
  <2> QED BY <2>1, <2>2
<1> QED BY <1>6 DEF N, at, Meets, Between

\* The walk up to the node found has met all nodes before it on the chain.
LEMMA WalkMeets ==
  ASSUME NEW nd, Memory(nd), NEW s, Threaded(nd, s), NEW p \in 0 .. Len(s), NEW k,
         NEW i \in 1 .. p, nd[s[i]].key = k,
         \A j \in 1 .. p : nd[s[j]].key = k => j = i
  PROVE  Meets(nd, Link(s, p), k) = Between(s, i, p)
PROOF
<1> DEFINE N == Cardinality(Nodes)
           at == WalkIn(nd, Link(s, p), k)
<1>1. N \in Nat /\ Len(s) \in Nat /\ Len(s) <= N /\ p \in Nat BY ChainFits
<1>2. \A x \in 0 .. N : Falls(nd, s, p, k, x, at[x]) BY WalkFalls
<1> HIDE DEF N, at
<1>3. ASSUME NEW x \in 0 .. N PROVE at[x] \in {s[j] : j \in i .. p}
  <2>1. Falls(nd, s, p, k, x, at[x]) BY <1>2
  <2>2. PICK j \in 1 .. p : /\ at[x] = s[j]
                            /\ \A l \in j + 1 .. p : nd[s[l]].key # k
    BY <2>1 DEF Falls
  <2>3. ~(i \in j + 1 .. p) BY <2>2
  <2>4. j \in i .. p BY <1>1, <2>3
  <2> QED BY <2>2, <2>4
<1>4. ASSUME NEW j \in i .. p PROVE \E x \in 0 .. N : at[x] = s[j]
  <2>1. p - j \in 0 .. N /\ j \in 1 .. p BY <1>1
  <2>2. PICK l \in 1 .. p : /\ at[p - j] = s[l] /\ p - (p - j) <= l
                            /\ (nd[s[l]].key = k \/ l = p - (p - j))
    <3>1. Falls(nd, s, p, k, p - j, at[p - j]) BY <1>2, <2>1
    <3>2. ~\A x \in 1 .. p : nd[s[x]].key # k OBVIOUS
    <3> QED BY <3>1, <3>2 DEF Falls
  <2>3. p - (p - j) = j BY <1>1, <2>1
  <2>4. l = j
    <3>1. CASE nd[s[l]].key = k
      <4>1. l = i BY <3>1
      <4> QED BY <1>1, <2>1, <2>2, <2>3, <4>1
    <3>2. CASE l = p - (p - j) BY <2>3, <3>2
    <3> QED BY <2>2, <3>1, <3>2
  <2> QED BY <2>1, <2>2, <2>4
<1>5. {at[x] : x \in 0 .. N} = {s[j] : j \in i .. p} BY <1>3, <1>4
<1> QED BY <1>5 DEF N, at, Meets, Between

(***************************************************************************)
(* The table: first and size are the arrays buckets and bucket_sizes, nd   *)
(* and cl the memory.                                                      *)
(***************************************************************************)
Contents(cl) == DOMAIN cl \in SUBSET Cells /\ cl \in [DOMAIN cl -> Values]

\* The nodes whose keys belong into bucket b.
Placed(nd, b) == {n \in DOMAIN nd : Hash[nd[n].key] = b}

IsChain(nd, b, s) == Threaded(nd, s) /\ {s[i] : i \in 1 .. Len(s)} = Placed(nd, b)

KeysOnce(nd) == \A m, n \in DOMAIN nd : nd[m].key = nd[n].key => m = n

\* Each node has a value of its own, and there are no other values.
Owns(nd, cl) ==
  /\ {nd[n].value : n \in DOMAIN nd} = DOMAIN cl
  /\ \A m, n \in DOMAIN nd : nd[m].value = nd[n].value => m = n

Stores(first, size, nd, b, s) ==
  IsChain(nd, b, s) /\ size[b] = Len(s) /\ first[b] = Link(s, Len(s))

Table(first, size, nd, cl) ==
  /\ first \in [Buckets -> Heads] /\ size \in [Buckets -> Int]
  /\ Memory(nd) /\ Contents(cl) /\ KeysOnce(nd) /\ Owns(nd, cl)
  /\ \A b \in Buckets : \E s : Stores(first, size, nd, b, s)

\* The nodes of bucket b are there still, with the same keys and links.
Grows(nd, nd2, b) ==
  \A n \in Placed(nd, b) : n \in DOMAIN nd2 /\ nd2[n].key = nd[n].key /\ nd2[n].next = nd[n].next

LEMMA ChainElements ==
  ASSUME NEW nd, Memory(nd), NEW b, NEW s, IsChain(nd, b, s)
  PROVE  /\ Len(s) \in Nat
         /\ \A i \in 1 .. Len(s) : /\ s[i] \in DOMAIN nd /\ Hash[nd[s[i]].key] = b /\ s[i] # NULL
                                   /\ nd[s[i]].next = Link(s, i - 1)
         /\ \A n \in Placed(nd, b) : \E i \in 1 .. Len(s) : s[i] = n
PROOF
<1>1. Len(s) \in Nat BY DEF IsChain, Threaded
<1>2. NULL \notin DOMAIN nd BY HashTableAssumption DEF Memory
<1>3. ASSUME NEW i \in 1 .. Len(s)
      PROVE /\ s[i] \in DOMAIN nd /\ Hash[nd[s[i]].key] = b /\ s[i] # NULL
            /\ nd[s[i]].next = Link(s, i - 1)
  <2>1. s[i] \in Placed(nd, b) BY DEF IsChain
  <2> QED BY <1>2, <2>1 DEF IsChain, Threaded, Placed
<1>4. ASSUME NEW n \in Placed(nd, b) PROVE \E i \in 1 .. Len(s) : s[i] = n BY DEF IsChain
<1> QED BY <1>1, <1>3, <1>4

\* A search from a head that was read once gives the same in nodes that have
\* grown.
LEMMA SearchSame ==
  ASSUME NEW nd, NEW nd2, Memory(nd), Memory(nd2), NEW b, NEW s, IsChain(nd, b, s), KeysOnce(nd),
         Grows(nd, nd2, b), NEW h \in Placed(nd, b) \cup {NULL}, NEW k
  PROVE  WalkIn(nd2, h, k)[Cardinality(Nodes)] = WalkIn(nd, h, k)[Cardinality(Nodes)]
PROOF
<1>0. Len(s) \in Nat /\ \A i \in 1 .. Len(s) : s[i] \in DOMAIN nd /\ s[i] \in Placed(nd, b)
  BY ChainElements DEF Placed
<1>1. PICK p \in 0 .. Len(s) : h = Link(s, p)
  <2>1. CASE h = NULL BY <1>0, <2>1 DEF Link
  <2>2. CASE h # NULL
    <3>1. PICK i \in 1 .. Len(s) : s[i] = h BY <2>2, ChainElements
    <3> QED BY <1>0, <3>1 DEF Link
  <2> QED BY <2>1, <2>2
<1>2. Threaded(nd, s) BY DEF IsChain
<1>3. Threaded(nd2, s)
  BY <1>0, <1>2 DEF Threaded, Grows
<1> DEFINE n == WalkIn(nd, h, k)[Cardinality(Nodes)]
           n2 == WalkIn(nd2, h, k)[Cardinality(Nodes)]
<1>4. \/ n = NULL /\ \A j \in 1 .. p : nd[s[j]].key # k
      \/ \E j \in 1 .. p : n = s[j] /\ nd[s[j]].key = k
  BY <1>1, <1>2, SearchEnds
<1>5. \/ n2 = NULL /\ \A j \in 1 .. p : nd2[s[j]].key # k
      \/ \E j \in 1 .. p : n2 = s[j] /\ nd2[s[j]].key = k
  BY <1>1, <1>3, SearchEnds
<1>6. \A j \in 1 .. p : s[j] \in DOMAIN nd /\ nd2[s[j]].key = nd[s[j]].key
  BY <1>0 DEF Grows
<1> HIDE DEF n, n2
<1>7. n2 = n BY <1>4, <1>5, <1>6 DEF KeysOnce
<1> QED BY <1>7 DEF n, n2

\* What a search finds that starts at the bucket, or at a head read once.
LEMMA SearchFinds ==
  ASSUME NEW first, NEW size, NEW nd, NEW cl, Table(first, size, nd, cl), NEW k \in Keys,
         NEW h \in Placed(nd, Hash[k]) \cup {NULL}
  PROVE  LET n == WalkIn(nd, h, k)[Cardinality(Nodes)] IN
           /\ n = NULL \/ (n \in DOMAIN nd /\ nd[n].key = k)
           /\ h = first[Hash[k]] /\ n = NULL => \A m \in DOMAIN nd : nd[m].key # k
PROOF
<1> DEFINE b == Hash[k]
           n == WalkIn(nd, h, k)[Cardinality(Nodes)]
<1>1. b \in Buckets BY HashTableAssumption
<1>2. PICK s : Stores(first, size, nd, b, s) BY <1>1 DEF Table
<1>3. IsChain(nd, b, s) /\ Threaded(nd, s) /\ Memory(nd) BY <1>2 DEF Stores, IsChain, Table
<1>4. /\ Len(s) \in Nat /\ \A i \in 1 .. Len(s) : s[i] \in DOMAIN nd /\ s[i] # NULL
      /\ \A m \in Placed(nd, b) : \E i \in 1 .. Len(s) : s[i] = m
  BY <1>3, ChainElements
<1>5. PICK p \in 0 .. Len(s) : h = Link(s, p) /\ (h = first[b] => p = Len(s))
  <2>1. CASE h = first[b] BY <1>2, <1>4, <2>1 DEF Stores
  <2>2. CASE h # first[b] /\ h = NULL BY <1>4, <2>2 DEF Link
  <2>3. CASE h # first[b] /\ h # NULL
    <3>1. PICK i \in 1 .. Len(s) : s[i] = h BY <1>4, <2>3
    <3> QED BY <1>4, <2>3, <3>1 DEF Link
  <2> QED BY <2>1, <2>2, <2>3
<1>6. \/ n = NULL /\ \A j \in 1 .. p : nd[s[j]].key # k
      \/ \E j \in 1 .. p : n = s[j] /\ nd[s[j]].key = k
  BY <1>3, <1>5, SearchEnds
<1> HIDE DEF n
<1>7. n = NULL \/ (n \in DOMAIN nd /\ nd[n].key = k) BY <1>4, <1>5, <1>6
<1>8. ASSUME h = first[b], n = NULL, NEW m \in DOMAIN nd, nd[m].key = k PROVE FALSE
  <2>1. m \in Placed(nd, b) BY <1>8 DEF Placed
  <2>2. PICK i \in 1 .. Len(s) : s[i] = m BY <1>4, <2>1
  <2>3. \A j \in 1 .. p : s[j] # NULL BY <1>4
  <2> QED BY <1>4, <1>5, <1>6, <1>8, <2>2, <2>3
<1> QED BY <1>7, <1>8 DEF n

LEMMA ValuesAre ==
  ASSUME NEW nd, NEW D, \A n \in DOMAIN nd : nd[n].value \in D,
         \A d \in D : \E n \in DOMAIN nd : nd[n].value = d
  PROVE  {nd[n].value : n \in DOMAIN nd} = D
PROOF
<1>1. \A x \in {nd[n].value : n \in DOMAIN nd} : x \in D OBVIOUS
<1>2. ASSUME NEW d \in D PROVE d \in {nd[n].value : n \in DOMAIN nd} OBVIOUS
<1> QED BY <1>1, <1>2

\* A new node in front of the chain of its bucket.
Adding(first, size, nd, cl, k, new, c, v, first2, size2, nd2, cl2) ==
  /\ nd2 = With(nd, new, [key |-> k, value |-> c, next |-> first[Hash[k]]])
  /\ cl2 = With(cl, c, v)
  /\ first2 = [first EXCEPT ![Hash[k]] = new] /\ size2 = [size EXCEPT ![Hash[k]] = @ + 1]

Added(nd, cl, k, new, v, nd2, cl2) ==
  /\ \A n \in DOMAIN nd : n \in DOMAIN nd2 /\ nd2[n] = nd[n]
  /\ \A d \in DOMAIN cl : d \in DOMAIN cl2 /\ cl2[d] = cl[d]
  /\ DOMAIN nd2 = DOMAIN nd \cup {new} /\ nd2[new].key = k /\ cl2[nd2[new].value] = v

LEMMA AddOne ==
  ASSUME NEW first, NEW size, NEW nd, NEW cl, Table(first, size, nd, cl),
         NEW k \in Keys, \A n \in DOMAIN nd : nd[n].key # k,
         NEW new \in Nodes \ DOMAIN nd, NEW c \in Cells \ DOMAIN cl, NEW v \in Values,
         NEW first2, NEW size2, NEW nd2, NEW cl2,
         Adding(first, size, nd, cl, k, new, c, v, first2, size2, nd2, cl2)
  PROVE  Table(first2, size2, nd2, cl2) /\ Added(nd, cl, k, new, v, nd2, cl2)
PROOF
<1> DEFINE a == Hash[k]
           r == [key |-> k, value |-> c, next |-> first[a]]
<1> first2 = [first EXCEPT ![a] = new] /\ size2 = [size EXCEPT ![a] = @ + 1]
  BY DEF Adding
<1>0. /\ first \in [Buckets -> Heads] /\ size \in [Buckets -> Int] /\ a \in Buckets
      /\ DOMAIN nd \in SUBSET Nodes /\ nd \in [DOMAIN nd -> Node]
      /\ DOMAIN cl \in SUBSET Cells /\ cl \in [DOMAIN cl -> Values]
      /\ KeysOnce(nd) /\ Owns(nd, cl) /\ Memory(nd)
  BY HashTableAssumption DEF Table, Memory, Contents
<1>1. first[a] \in Heads /\ r \in Node BY <1>0 DEF Node
<1>2. /\ r.key = k /\ r.value = c /\ r.next = first[a] OBVIOUS
<1> HIDE DEF r
<1>3. /\ DOMAIN nd2 = DOMAIN nd \cup {new} /\ nd2[new] = r
      /\ \A n \in DOMAIN nd : nd2[n] = nd[n] /\ n # new
      /\ nd2 = [x \in DOMAIN nd2 |-> nd2[x]]
  BY DEF With, r, Adding
<1>4. /\ DOMAIN cl2 = DOMAIN cl \cup {c} /\ cl2[c] = v
      /\ \A d \in DOMAIN cl : cl2[d] = cl[d] /\ d # c
      /\ cl2 = [x \in DOMAIN cl2 |-> cl2[x]]
  BY DEF With, Adding
<1>5. Memory(nd2) BY <1>0, <1>1, <1>3 DEF Memory
<1>6. Contents(cl2) BY <1>0, <1>4 DEF Contents
<1>7. KeysOnce(nd2) BY <1>0, <1>2, <1>3 DEF KeysOnce
<1>8. Owns(nd2, cl2)
  <2>1. \A n \in DOMAIN nd : nd[n].value \in DOMAIN cl BY <1>0 DEF Owns
  <2>2. ASSUME NEW d \in DOMAIN cl PROVE \E n \in DOMAIN nd : nd[n].value = d
    BY <1>0 DEF Owns
  <2>3. \A n \in DOMAIN nd2 : nd2[n].value \in DOMAIN cl2 BY <1>2, <1>3, <1>4, <2>1
  <2>4. \A d \in DOMAIN cl2 : \E n \in DOMAIN nd2 : nd2[n].value = d BY <1>2, <1>3, <1>4, <2>2
  <2>5. ASSUME NEW m \in DOMAIN nd2, NEW n \in DOMAIN nd2, nd2[m].value = nd2[n].value
        PROVE  m = n
    BY <1>0, <1>2, <1>3, <2>1, <2>5 DEF Owns
  <2>6. {nd2[n].value : n \in DOMAIN nd2} = DOMAIN cl2 BY ONLY <2>3, <2>4, ValuesAre
  <2> QED BY <2>5, <2>6 DEF Owns
<1>9. first2 \in [Buckets -> Heads] /\ size2 \in [Buckets -> Int] BY <1>0 DEF Heads
<1>10. ASSUME NEW b \in Buckets PROVE \E s : Stores(first2, size2, nd2, b, s)
  <2>1. PICK s : Stores(first, size, nd, b, s) BY DEF Table
  <2>2. IsChain(nd, b, s) /\ size[b] = Len(s) /\ first[b] = Link(s, Len(s)) BY <2>1 DEF Stores
  <2>3. /\ Len(s) \in Nat /\ s \in Seq(Nodes)
        /\ \A i \in 1 .. Len(s) : /\ s[i] \in DOMAIN nd /\ Hash[nd[s[i]].key] = b
                                  /\ nd[s[i]].next = Link(s, i - 1)
        /\ \A i, j \in 1 .. Len(s) : s[i] = s[j] => i = j
        /\ \A n \in Placed(nd, b) : \E i \in 1 .. Len(s) : s[i] = n
    <3>1. /\ s \in Seq(Nodes) /\ \A i, j \in 1 .. Len(s) : s[i] = s[j] => i = j
      BY <2>2 DEF IsChain, Threaded
    <3>2. IsChain(nd, b, s) /\ Memory(nd) BY <1>0, <2>2
    <3> QED BY ONLY <3>1, <3>2, ChainElements
  <2>4. CASE b # a
    <3>1. Placed(nd2, b) = Placed(nd, b) BY <1>2, <1>3, <2>4 DEF Placed
    <3>2. Threaded(nd2, s) BY <1>3, <2>3 DEF Threaded
    <3>3. Stores(first2, size2, nd2, b, s)
      BY <1>0, <2>2, <2>4, <3>1, <3>2 DEF Stores, IsChain
    <3> QED BY <3>3
  <2>5. CASE b = a
    <3> DEFINE w == Append(s, new)
    <3>1. /\ w \in Seq(Nodes) /\ Len(w) = Len(s) + 1 /\ w[Len(s) + 1] = new
          /\ \A i \in 1 .. Len(s) : w[i] = s[i]
      BY <2>3
    <3> HIDE DEF w
    <3>2. \A i \in 0 .. Len(s) : Link(w, i) = Link(s, i) BY <2>3, <3>1 DEF Link
    <3>3. ASSUME NEW i \in 1 .. Len(w) PROVE w[i] \in DOMAIN nd2 /\ nd2[w[i]].next = Link(w, i - 1)
      <4>1. CASE i \in 1 .. Len(s)
        <5>1. w[i] = s[i] /\ i - 1 \in 0 .. Len(s) BY ONLY <2>3, <3>1, <4>1
        <5>2. s[i] \in DOMAIN nd2 /\ nd2[s[i]].next = Link(s, i - 1) BY ONLY <1>3, <2>3, <4>1
        <5> QED BY ONLY <3>2, <5>1, <5>2
      <4>2. CASE i = Len(s) + 1
        <5>1. w[i] = new /\ i - 1 = Len(s) /\ Len(s) \in 0 .. Len(s) BY <2>3, <3>1, <4>2
        <5>2. nd2[new].next = Link(s, Len(s)) /\ new \in DOMAIN nd2 BY <1>2, <1>3, <2>2, <2>5
        <5> QED BY ONLY <3>2, <5>1, <5>2
      <4> QED BY <2>3, <3>1, <4>1, <4>2
    <3>4. ASSUME NEW i \in 1 .. Len(w), NEW j \in 1 .. Len(w), w[i] = w[j] PROVE i = j
      <4>1. \A x \in 1 .. Len(s) : s[x] # new BY <1>3, <2>3
      <4>2. CASE i \in 1 .. Len(s) /\ j \in 1 .. Len(s) BY <2>3, <3>1, <3>4, <4>2
      <4>3. CASE i = Len(s) + 1 /\ j \in 1 .. Len(s) BY <3>1, <3>4, <4>1, <4>3
      <4>4. CASE i \in 1 .. Len(s) /\ j = Len(s) + 1 BY <3>1, <3>4, <4>1, <4>4
      <4> QED BY <2>3, <3>1, <4>2, <4>3, <4>4
    <3>5. Threaded(nd2, w) BY <3>1, <3>3, <3>4 DEF Threaded
    <3>6. {w[i] : i \in 1 .. Len(w)} = Placed(nd2, b)
      <4>1. ASSUME NEW i \in 1 .. Len(w) PROVE w[i] \in Placed(nd2, b)
        <5>1. CASE i \in 1 .. Len(s) BY <1>3, <2>3, <3>1, <5>1 DEF Placed
        <5>2. CASE i = Len(s) + 1 BY <1>2, <1>3, <2>5, <3>1, <5>2 DEF Placed
        <5> QED BY <2>3, <3>1, <5>1, <5>2
      <4>2. ASSUME NEW n \in Placed(nd2, b) PROVE \E i \in 1 .. Len(w) : w[i] = n
        <5>1. CASE n = new
          <6>1. Len(s) + 1 \in 1 .. Len(w) BY <2>3, <3>1
          <6> QED BY <3>1, <5>1, <6>1
        <5>2. CASE n # new
          <6>1. n \in Placed(nd, b) BY <1>3, <5>2 DEF Placed
          <6>2. PICK i \in 1 .. Len(s) : s[i] = n BY <2>3, <6>1
          <6>3. i \in 1 .. Len(w) BY <2>3, <3>1
          <6> QED BY <3>1, <6>2, <6>3
        <5> QED BY <5>1, <5>2
      <4> QED BY <4>1, <4>2
    <3>7. first2[b] = Link(w, Len(w)) BY <1>0, <2>3, <2>5, <3>1 DEF Link
    <3>8. size2[b] = Len(w) BY <1>0, <2>2, <2>5, <3>1
    <3>9. Stores(first2, size2, nd2, b, w) BY <3>5, <3>6, <3>7, <3>8 DEF Stores, IsChain
    <3> QED BY <3>9
  <2> QED BY <2>4, <2>5
<1>11. Table(first2, size2, nd2, cl2)
  <2> QED BY <1>5, <1>6, <1>7, <1>8, <1>9, <1>10 DEF Table
<1>12. cl2[nd2[new].value] = v /\ nd2[new].key = k BY <1>2, <1>3, <1>4
<1> QED BY <1>3, <1>4, <1>11, <1>12 DEF Added

\* Another value in the place of that of node m.
Replacing(nd, cl, m, c, v, nd2, cl2) ==
  /\ nd2 = [nd EXCEPT ![m].value = c]
  /\ cl2 = With(Restrict(cl, DOMAIN cl \ {nd[m].value}), c, v)

LEMMA ReplaceOne ==
  ASSUME NEW first, NEW size, NEW nd, NEW cl, Table(first, size, nd, cl),
         NEW m \in DOMAIN nd, NEW c \in Cells \ DOMAIN cl, NEW v \in Values,
         NEW nd2, NEW cl2, Replacing(nd, cl, m, c, v, nd2, cl2)
  PROVE  /\ Table(first, size, nd2, cl2)
         /\ DOMAIN nd2 = DOMAIN nd
         /\ \A n \in DOMAIN nd : /\ nd2[n].key = nd[n].key /\ nd2[n].next = nd[n].next
                                 /\ n # m => /\ nd2[n].value = nd[n].value
                                             /\ cl2[nd[n].value] = cl[nd[n].value]
         /\ cl2[nd2[m].value] = v
PROOF
<1>0. /\ first \in [Buckets -> Heads] /\ size \in [Buckets -> Int]
      /\ DOMAIN nd \in SUBSET Nodes /\ nd \in [DOMAIN nd -> Node]
      /\ DOMAIN cl \in SUBSET Cells /\ cl \in [DOMAIN cl -> Values]
      /\ KeysOnce(nd) /\ Owns(nd, cl) /\ Memory(nd)
  BY DEF Table, Memory, Contents
<1>1. /\ DOMAIN nd2 = DOMAIN nd /\ nd2 \in [DOMAIN nd -> Node]
      /\ nd2[m].value = c
      /\ \A n \in DOMAIN nd : /\ nd2[n].key = nd[n].key /\ nd2[n].next = nd[n].next
                              /\ n # m => nd2[n].value = nd[n].value
  BY <1>0 DEF Node, Replacing
<1> DEFINE old == nd[m].value
<1>2. /\ DOMAIN cl2 = (DOMAIN cl \ {old}) \cup {c} /\ cl2[c] = v
      /\ \A d \in DOMAIN cl \ {old} : cl2[d] = cl[d] /\ d # c
      /\ cl2 = [x \in DOMAIN cl2 |-> cl2[x]]
  BY DEF With, Restrict, Replacing
<1> HIDE DEF old
<1>3. Memory(nd2) BY <1>0, <1>1 DEF Memory
<1>4. Contents(cl2) BY <1>0, <1>2 DEF Contents
<1>5. KeysOnce(nd2) BY <1>0, <1>1 DEF KeysOnce
<1>6. /\ \A n \in DOMAIN nd : nd[n].value \in DOMAIN cl /\ (n # m => nd[n].value # old)
      /\ \A d \in DOMAIN cl : \E n \in DOMAIN nd : nd[n].value = d
  BY <1>0 DEF Owns, old
<1>7. Owns(nd2, cl2)
  <2>3. \A n \in DOMAIN nd2 : nd2[n].value \in DOMAIN cl2 BY <1>1, <1>2, <1>6
  <2>4. ASSUME NEW d \in DOMAIN cl2 PROVE \E n \in DOMAIN nd2 : nd2[n].value = d
    <3>1. CASE d = c BY <1>1, <3>1
    <3>2. CASE d \in DOMAIN cl /\ d # old
      <4>1. PICK n \in DOMAIN nd : nd[n].value = d BY <1>6, <3>2
      <4>2. n # m BY <3>2, <4>1 DEF old
      <4> QED BY <1>1, <4>1, <4>2
    <3> QED BY <1>2, <3>1, <3>2
  <2>5. ASSUME NEW i \in DOMAIN nd2, NEW n \in DOMAIN nd2, nd2[i].value = nd2[n].value
        PROVE  i = n
    BY <1>0, <1>1, <1>6, <2>5 DEF Owns
  <2>6. {nd2[n].value : n \in DOMAIN nd2} = DOMAIN cl2 BY ONLY <2>3, <2>4, ValuesAre
  <2> QED BY <2>5, <2>6 DEF Owns
<1>8. ASSUME NEW b \in Buckets PROVE \E s : Stores(first, size, nd2, b, s)
  <2>1. PICK s : Stores(first, size, nd, b, s) BY DEF Table
  <2>2. Placed(nd2, b) = Placed(nd, b) BY <1>1 DEF Placed
  <2>3. \A i \in 1 .. Len(s) : s[i] \in DOMAIN nd BY <2>1 DEF Stores, IsChain, Threaded
  <2>4. Stores(first, size, nd2, b, s)
    BY <1>1, <2>1, <2>2, <2>3 DEF Stores, IsChain, Threaded
  <2> QED BY <2>4
<1>9. Table(first, size, nd2, cl2) BY <1>0, <1>3, <1>4, <1>5, <1>7, <1>8 DEF Table
<1> QED BY <1>1, <1>2, <1>6, <1>9

\* The chain s without its i-th element: no element twice, and a link in the place
\* of two.
Spliced(s, i) == [j \in 1 .. Len(s) - 1 |-> IF j < i THEN s[j] ELSE s[j + 1]]

IsSpliced(S, s, i, w) ==
  /\ w \in Seq(S) /\ Len(w) = Len(s) - 1 /\ Len(w) \in Nat
  /\ \A j \in 1 .. Len(w) : j < i => w[j] = s[j]
  /\ \A j \in 1 .. Len(w) : i <= j => w[j] = s[j + 1] /\ j + 1 \in 1 .. Len(s)
  /\ \A x, y \in 1 .. Len(w) : w[x] = w[y] => x = y
  /\ \A x \in 1 .. Len(w) : w[x] # s[i]
  /\ \A j \in 1 .. Len(s) : j # i => \E x \in 1 .. Len(w) : w[x] = s[j]

LEMMA SplicedChain ==
  ASSUME NEW S, NEW s \in Seq(S), NEW i \in 1 .. Len(s),
         \A x, y \in 1 .. Len(s) : s[x] = s[y] => x = y,
         NEW w, w = Spliced(s, i)
  PROVE  IsSpliced(S, s, i, w)
PROOF
<1>1. Len(s) \in Nat /\ Len(s) - 1 \in Nat OBVIOUS
<1>2. \A j \in 1 .. Len(s) - 1 : /\ w[j] = IF j < i THEN s[j] ELSE s[j + 1]
                                 /\ j \in 1 .. Len(s) /\ j + 1 \in 1 .. Len(s)
  BY <1>1 DEF Spliced
<1>3. w \in Seq(S) /\ Len(w) = Len(s) - 1
  <2>1. \A j \in 1 .. Len(s) - 1 : w[j] \in S BY <1>2
  <2>2. w = [j \in 1 .. Len(s) - 1 |-> w[j]] BY DEF Spliced
  <2> QED BY ONLY <1>1, <2>1, <2>2
<1>4. /\ \A j \in 1 .. Len(w) : j < i => w[j] = s[j]
      /\ \A j \in 1 .. Len(w) : i <= j => w[j] = s[j + 1] /\ j + 1 \in 1 .. Len(s)
      /\ \A j \in 1 .. Len(w) : j \in 1 .. Len(s)
  <2>1. \A j \in 1 .. Len(w) : j \in 1 .. Len(s) - 1 BY <1>3
  <2>2. \A j \in 1 .. Len(w) : (i <= j) = ~(j < i) BY <1>1, <1>3
  <2> QED BY ONLY <1>2, <2>1, <2>2
<1>5. ASSUME NEW x \in 1 .. Len(w), NEW y \in 1 .. Len(w), w[x] = w[y] PROVE x = y
  <2> DEFINE u == IF x < i THEN x ELSE x + 1
             v == IF y < i THEN y ELSE y + 1
  <2>1. u \in 1 .. Len(s) /\ v \in 1 .. Len(s) /\ (u = v => x = y) BY <1>1, <1>3
  <2>2. w[x] = s[u] /\ w[y] = s[v] BY <1>2, <1>3
  <2> HIDE DEF u, v
  <2> QED BY <1>5, <2>1, <2>2
<1>6. \A x \in 1 .. Len(w) : w[x] # s[i] BY <1>1, <1>2, <1>3
<1>7. ASSUME NEW j \in 1 .. Len(s), j # i PROVE \E x \in 1 .. Len(w) : w[x] = s[j]
  <2>1. CASE j < i
    <3>1. j \in 1 .. Len(w) BY <1>1, <1>3, <2>1
    <3> QED BY <1>4, <2>1, <3>1
  <2>2. CASE i < j
    <3>1. j - 1 \in 1 .. Len(w) /\ i <= j - 1 /\ (j - 1) + 1 = j BY <1>1, <1>3, <2>2
    <3>2. w[j - 1] = s[j] BY <1>4, <3>1
    <3> QED BY <3>1, <3>2
  <2> QED BY <1>1, <1>7, <2>1, <2>2
<1> QED BY <1>1, <1>3, <1>4, <1>5, <1>6, <1>7 DEF IsSpliced

\* Node m is unlinked from the node before it, if any, and freed with its value.
Removing(first, size, nd, cl, k, m, first2, size2, nd2, cl2) ==
  /\ LET before == {p \in Meets(nd, first[Hash[k]], k) \cap DOMAIN nd : nd[p].next = m}
     IN nd2 = Restrict([p \in DOMAIN nd |->
                          IF p \in before THEN [nd[p] EXCEPT !.next = nd[m].next] ELSE nd[p]],
                       DOMAIN nd \ {m})
  /\ cl2 = Restrict(cl, DOMAIN cl \ {nd[m].value})
  /\ first2 = [first EXCEPT ![Hash[k]] = IF @ = m THEN nd[m].next ELSE @]
  /\ size2 = [size EXCEPT ![Hash[k]] = @ + -1]

LEMMA RemoveOne ==
  ASSUME NEW first, NEW size, NEW nd, NEW cl, Table(first, size, nd, cl),
         NEW k \in Keys, NEW m \in DOMAIN nd, nd[m].key = k,
         NEW first2, NEW size2, NEW nd2, NEW cl2,
         Removing(first, size, nd, cl, k, m, first2, size2, nd2, cl2)
  PROVE  /\ Table(first2, size2, nd2, cl2)
         /\ DOMAIN nd2 = DOMAIN nd \ {m}
         /\ \A n \in DOMAIN nd2 : /\ nd2[n].key = nd[n].key /\ nd2[n].value = nd[n].value
                                  /\ cl2[nd[n].value] = cl[nd[n].value]
         /\ \A b \in Buckets \ {Hash[k]} : Grows(nd, nd2, b)
PROOF
<1> DEFINE a == Hash[k]
           before == {p \in Meets(nd, first[a], k) \cap DOMAIN nd : nd[p].next = m}
<1> /\ nd2 = Restrict([p \in DOMAIN nd |->
                        IF p \in before THEN [nd[p] EXCEPT !.next = nd[m].next] ELSE nd[p]],
                     DOMAIN nd \ {m})
    /\ cl2 = Restrict(cl, DOMAIN cl \ {nd[m].value})
    /\ first2 = [first EXCEPT ![a] = IF first[a] = m THEN nd[m].next ELSE first[a]]
    /\ size2 = [size EXCEPT ![a] = @ + -1]
  BY DEF Removing
<1>0. /\ first \in [Buckets -> Heads] /\ size \in [Buckets -> Int] /\ a \in Buckets
      /\ DOMAIN nd \in SUBSET Nodes /\ nd \in [DOMAIN nd -> Node]
      /\ DOMAIN cl \in SUBSET Cells /\ cl \in [DOMAIN cl -> Values]
      /\ KeysOnce(nd) /\ Owns(nd, cl) /\ Memory(nd)
  BY HashTableAssumption DEF Table, Memory, Contents
<1>1. PICK s : Stores(first, size, nd, a, s) BY <1>0 DEF Table
<1>2. /\ IsChain(nd, a, s) /\ size[a] = Len(s) /\ first[a] = Link(s, Len(s))
      /\ Threaded(nd, s)
  BY <1>1 DEF Stores, IsChain
<1>3. /\ s \in Seq(Nodes) /\ \A i, j \in 1 .. Len(s) : s[i] = s[j] => i = j
  BY <1>2 DEF Threaded
<1>4. /\ Len(s) \in Nat
      /\ \A i \in 1 .. Len(s) : /\ s[i] \in DOMAIN nd /\ Hash[nd[s[i]].key] = a /\ s[i] # NULL
                                /\ nd[s[i]].next = Link(s, i - 1)
      /\ \A n \in Placed(nd, a) : \E i \in 1 .. Len(s) : s[i] = n
  BY ONLY <1>0, <1>2, ChainElements
<1>5. PICK i \in 1 .. Len(s) : s[i] = m
  <2>1. m \in Placed(nd, a) BY DEF Placed
  <2> QED BY <1>4, <2>1
<1>6. Meets(nd, first[a], k) = {s[j] : j \in i .. Len(s)}
  <2>1. \A j \in 1 .. Len(s) : nd[s[j]].key = k => j = i BY <1>0, <1>3, <1>4, <1>5 DEF KeysOnce
  <2>2. Len(s) \in 0 .. Len(s) /\ i \in 1 .. Len(s) /\ nd[s[i]].key = k BY <1>4, <1>5
  <2>3. Meets(nd, Link(s, Len(s)), k) = Between(s, i, Len(s))
    BY ONLY <1>0, <1>2, <2>1, <2>2, WalkMeets
  <2> QED BY <1>2, <2>3 DEF Between
\* Only the next element of the chain, if there is one, points to m.
<1>7. ASSUME NEW p \in DOMAIN nd, p # m
      PROVE  /\ p \in before <=> i < Len(s) /\ p = s[i + 1]
             /\ nd2[p] = IF p \in before THEN [nd[p] EXCEPT !.next = nd[m].next] ELSE nd[p]
  <2>1. nd2[p] = IF p \in before THEN [nd[p] EXCEPT !.next = nd[m].next] ELSE nd[p]
    BY <1>7 DEF Restrict
  <2>2. ASSUME p \in before PROVE i < Len(s) /\ p = s[i + 1]
    <3>1. p \in {s[j] : j \in i .. Len(s)} /\ nd[p].next = m BY <1>6, <2>2
    <3>2. PICK j \in i .. Len(s) : p = s[j] BY <3>1
    <3>3. j # i /\ j \in 1 .. Len(s) /\ j - 1 \in 1 .. Len(s) BY <1>4, <1>5, <1>7, <3>2
    <3>4. s[j - 1] = m BY <1>4, <3>1, <3>2, <3>3 DEF Link
    <3>5. j - 1 = i BY <1>3, <1>5, <3>3, <3>4
    <3> QED BY <1>4, <3>2, <3>3, <3>5
  <2>3. ASSUME i < Len(s), p = s[i + 1] PROVE p \in before
    <3>1. i + 1 \in i .. Len(s) /\ i + 1 \in 1 .. Len(s) /\ (i + 1) - 1 = i /\ i # 0
      BY <1>4, <2>3
    <3>2. nd[p].next = m BY <1>4, <1>5, <2>3, <3>1 DEF Link
    <3>3. p \in Meets(nd, first[a], k) BY <1>6, <2>3, <3>1
    <3> QED BY <3>2, <3>3
  <2> QED BY <2>1, <2>2, <2>3
<1>8. DOMAIN nd2 = DOMAIN nd \ {m} /\ nd2 = [p \in DOMAIN nd2 |-> nd2[p]] BY DEF Restrict
<1>9. \A p \in DOMAIN nd2 : /\ p \in DOMAIN nd /\ p # m /\ nd2[p] \in Node
                            /\ nd2[p].key = nd[p].key /\ nd2[p].value = nd[p].value
                            /\ nd2[p].next = IF i < Len(s) /\ p = s[i + 1] THEN nd[m].next
                                             ELSE nd[p].next
  <2> SUFFICES ASSUME NEW p \in DOMAIN nd2
               PROVE  /\ p \in DOMAIN nd /\ p # m /\ nd2[p] \in Node
                      /\ nd2[p].key = nd[p].key /\ nd2[p].value = nd[p].value
                      /\ nd2[p].next = IF i < Len(s) /\ p = s[i + 1] THEN nd[m].next
                                       ELSE nd[p].next
    OBVIOUS
  <2>1. p \in DOMAIN nd /\ p # m BY <1>8
  <2>2. nd[p] \in Node /\ nd[m] \in Node /\ nd[m].next \in Heads BY <1>0, <2>1 DEF Node
  <2>3. CASE i < Len(s) /\ p = s[i + 1]
    <3>1. nd2[p] = [nd[p] EXCEPT !.next = nd[m].next] BY <1>7, <2>1, <2>3
    <3> QED BY ONLY <2>1, <2>2, <2>3, <3>1 DEF Node
  <2>4. CASE ~(i < Len(s) /\ p = s[i + 1])
    <3>1. nd2[p] = nd[p] BY <1>7, <2>1, <2>4
    <3> QED BY ONLY <2>1, <2>2, <2>4, <3>1
  <2> QED BY <2>3, <2>4
<1>10. Memory(nd2)
  BY ONLY <1>0, <1>8, <1>9 DEF Memory
<1> DEFINE old == nd[m].value
<1>11. DOMAIN cl2 = DOMAIN cl \ {old} /\ cl2 = [d \in DOMAIN cl2 |-> cl[d]] BY DEF Restrict
<1> HIDE DEF old
<1>12. Contents(cl2) BY ONLY <1>0, <1>11 DEF Contents
<1>13. KeysOnce(nd2) BY ONLY <1>0, <1>9 DEF KeysOnce
<1>14. /\ \A n \in DOMAIN nd : nd[n].value \in DOMAIN cl /\ (n # m => nd[n].value # old)
       /\ \A d \in DOMAIN cl : \E n \in DOMAIN nd : nd[n].value = d
  BY <1>0 DEF Owns, old
<1>15. Owns(nd2, cl2)
  <2>3. \A n \in DOMAIN nd2 : nd2[n].value \in DOMAIN cl2 BY <1>9, <1>11, <1>14
  <2>4. ASSUME NEW d \in DOMAIN cl2 PROVE \E n \in DOMAIN nd2 : nd2[n].value = d
    <3>1. PICK n \in DOMAIN nd : nd[n].value = d BY <1>11, <1>14
    <3>2. n # m BY <1>11, <3>1 DEF old
    <3> QED BY <1>8, <1>9, <3>1, <3>2
  <2>5. ASSUME NEW x \in DOMAIN nd2, NEW n \in DOMAIN nd2, nd2[x].value = nd2[n].value
        PROVE  x = n
    <3>1. x \in DOMAIN nd /\ n \in DOMAIN nd /\ nd[x].value = nd[n].value BY ONLY <1>9, <2>5
    <3> QED BY ONLY <1>0, <3>1 DEF Owns
  <2>6. {nd2[n].value : n \in DOMAIN nd2} = DOMAIN cl2 BY ONLY <2>3, <2>4, ValuesAre
  <2> QED BY <2>5, <2>6 DEF Owns
<1>16. \A n \in DOMAIN nd2 : cl2[nd[n].value] = cl[nd[n].value]
  <2>1. \A n \in DOMAIN nd2 : nd[n].value \in DOMAIN cl2 BY ONLY <1>9, <1>11, <1>14
  <2> QED BY ONLY <1>11, <2>1
<1>17. nd[m] \in Node /\ nd[m].next \in Heads BY <1>0 DEF Node
<1>18. first2 \in [Buckets -> Heads] /\ size2 \in [Buckets -> Int] BY <1>0, <1>17
<1>19. ASSUME NEW b \in Buckets \ {a} PROVE Grows(nd, nd2, b)
  <2> SUFFICES ASSUME NEW n \in Placed(nd, b)
               PROVE  n \in DOMAIN nd2 /\ nd2[n].key = nd[n].key /\ nd2[n].next = nd[n].next
    BY DEF Grows
  <2>1. n \in DOMAIN nd /\ Hash[nd[n].key] # a BY DEF Placed
  <2>2. n # m BY <2>1
  <2>3. ~(i < Len(s) /\ n = s[i + 1])
    <3>1. i < Len(s) => i + 1 \in 1 .. Len(s) BY <1>4
    <3> QED BY ONLY <1>4, <2>1, <3>1
  <2> QED BY <1>8, <1>9, <2>1, <2>2, <2>3
<1>20. ASSUME NEW b \in Buckets \ {a} PROVE \E r : Stores(first2, size2, nd2, b, r)
  <2>1. PICK r : Stores(first, size, nd, b, r) BY DEF Table
  <2>2. IsChain(nd, b, r) /\ size[b] = Len(r) /\ first[b] = Link(r, Len(r)) BY <2>1 DEF Stores
  <2>3. Placed(nd2, b) = Placed(nd, b)
    <3>1. \A n \in Placed(nd, b) : n \in Placed(nd2, b) BY <1>19 DEF Grows, Placed
    <3>2. \A n \in Placed(nd2, b) : n \in Placed(nd, b) BY <1>9 DEF Placed
    <3> QED BY <3>1, <3>2
  <2>4. \A j \in 1 .. Len(r) : r[j] \in Placed(nd, b) BY <2>2 DEF IsChain
  <2>5. Threaded(nd2, r) BY <1>19, <2>2, <2>4 DEF IsChain, Threaded, Grows
  <2>6. first2[b] = first[b] /\ size2[b] = size[b] BY <1>0
  <2>7. Stores(first2, size2, nd2, b, r) BY <2>2, <2>3, <2>5, <2>6 DEF Stores, IsChain
  <2> QED BY <2>7
<1>21. \E w : Stores(first2, size2, nd2, a, w)
  <2>0. PICK w : w = Spliced(s, i) OBVIOUS
  <2>1. /\ w \in Seq(Nodes) /\ Len(w) = Len(s) - 1 /\ Len(w) \in Nat
        /\ \A j \in 1 .. Len(w) : j < i => w[j] = s[j]
        /\ \A j \in 1 .. Len(w) : i <= j => w[j] = s[j + 1] /\ j + 1 \in 1 .. Len(s)
        /\ \A x, y \in 1 .. Len(w) : w[x] = w[y] => x = y
        /\ \A x \in 1 .. Len(w) : w[x] # s[i]
        /\ \A j \in 1 .. Len(s) : j # i => \E x \in 1 .. Len(w) : w[x] = s[j]
    <3>1. i \in 1 .. Len(s) OBVIOUS
    <3>2. IsSpliced(Nodes, s, i, w) BY ONLY <1>3, <2>0, <3>1, SplicedChain
    <3> QED BY ONLY <3>2 DEF IsSpliced
  <2>2. ASSUME NEW j \in 1 .. Len(w) PROVE w[j] \in DOMAIN nd2 /\ nd2[w[j]].next = Link(w, j - 1)
    <3>0. \A x \in 1 .. Len(s) : s[x] = s[i + 1] /\ i < Len(s) => x = i + 1
      BY <1>3, <1>4
    <3>1. CASE j < i
      <4>1. w[j] = s[j] /\ j \in 1 .. Len(s) BY <1>4, <2>1, <3>1
      <4>2. w[j] \in DOMAIN nd2 /\ nd2[w[j]].next = nd[s[j]].next
        <5>1. s[j] # s[i] /\ ~(i < Len(s) /\ s[j] = s[i + 1])
          BY ONLY <1>3, <1>4, <3>0, <3>1, <4>1, i \in 1 .. Len(s)
        <5>2. s[j] \in DOMAIN nd2 BY ONLY <1>4, <1>5, <1>8, <4>1, <5>1
        <5> QED BY ONLY <1>9, <4>1, <5>1, <5>2
      <4>3. Link(w, j - 1) = Link(s, j - 1)
        <5>1. j - 1 = 0 \/ j - 1 \in 1 .. Len(w) BY <2>1
        <5> QED BY <2>1, <3>1, <5>1 DEF Link
      <4> QED BY <1>4, <4>1, <4>2, <4>3
    <3>2. CASE j = i
      <4>1. w[j] = s[i + 1] /\ i < Len(s) /\ i + 1 \in 1 .. Len(s) BY <1>4, <2>1, <3>2
      <4>2. w[j] \in DOMAIN nd2 /\ nd2[w[j]].next = nd[m].next
        BY <1>4, <1>5, <1>8, <1>9, <2>1, <4>1
      <4>3. nd[m].next = Link(s, i - 1) BY <1>4, <1>5
      <4>4. Link(w, j - 1) = Link(s, i - 1)
        <5>1. j - 1 = 0 \/ j - 1 \in 1 .. Len(w) BY <2>1
        <5> QED BY <2>1, <3>2, <5>1 DEF Link
      <4> QED BY <4>2, <4>3, <4>4
    <3>3. CASE i < j
      <4>1. w[j] = s[j + 1] /\ j + 1 \in 1 .. Len(s) /\ j + 1 # i + 1 BY <1>4, <2>1, <3>3
      <4>2. w[j] \in DOMAIN nd2 /\ nd2[w[j]].next = nd[s[j + 1]].next
        <5>1. s[j + 1] # s[i] /\ ~(i < Len(s) /\ s[j + 1] = s[i + 1])
          BY ONLY <1>3, <1>4, <3>0, <3>3, <4>1, i \in 1 .. Len(s), j \in 1 .. Len(w)
        <5>2. s[j + 1] \in DOMAIN nd2 BY ONLY <1>4, <1>5, <1>8, <4>1, <5>1
        <5> QED BY ONLY <1>9, <4>1, <5>1, <5>2
      <4>3. nd[s[j + 1]].next = s[j]
        <5>1. (j + 1) - 1 = j /\ j # 0 BY <1>4
        <5> QED BY <1>4, <4>1, <5>1 DEF Link
      <4>4. Link(w, j - 1) = s[j]
        <5>1. j - 1 \in 1 .. Len(w) /\ i <= j - 1 /\ (j - 1) + 1 = j /\ j - 1 # 0 BY <2>1, <3>3
        <5> QED BY <2>1, <5>1 DEF Link
      <4> QED BY <4>2, <4>3, <4>4
    <3> QED BY <1>4, <2>1, <3>1, <3>2, <3>3
  <2>3. Threaded(nd2, w) BY ONLY <2>1, <2>2 DEF Threaded
  <2>4. {w[j] : j \in 1 .. Len(w)} = Placed(nd2, a)
    <3>1. ASSUME NEW j \in 1 .. Len(w) PROVE w[j] \in Placed(nd2, a)
      <4>1. w[j] \in DOMAIN nd2 BY <2>2
      <4>2. PICK x \in 1 .. Len(s) : w[j] = s[x]
        <5>1. CASE j < i
          <6>1. j \in 1 .. Len(s) BY ONLY <1>4, <2>1, j \in 1 .. Len(w)
          <6> QED BY ONLY <2>1, <5>1, <6>1, j \in 1 .. Len(w)
        <5>2. CASE i <= j BY ONLY <2>1, <5>2, j \in 1 .. Len(w)
        <5> QED BY ONLY <1>4, <2>1, <5>1, <5>2, i \in 1 .. Len(s), j \in 1 .. Len(w)
      <4>3. Hash[nd[w[j]].key] = a /\ nd2[w[j]].key = nd[w[j]].key BY ONLY <1>4, <1>9, <4>1, <4>2
      <4> QED BY ONLY <4>1, <4>3 DEF Placed
    <3>2. ASSUME NEW n \in Placed(nd2, a) PROVE \E x \in 1 .. Len(w) : w[x] = n
      <4>1. n \in Placed(nd, a) /\ n # m BY <1>9 DEF Placed
      <4>2. PICK x \in 1 .. Len(s) : s[x] = n BY <1>4, <4>1
      <4> QED BY <1>5, <2>1, <4>1, <4>2
    <3> QED BY <3>1, <3>2
  <2>5. size2[a] = Len(w) BY <1>0, <1>2, <1>4, <2>1
  <2>6. first2[a] = Link(w, Len(w))
    <3>1. first2[a] = IF first[a] = m THEN nd[m].next ELSE first[a] BY <1>0
    <3>2. first[a] = s[Len(s)] /\ Len(s) \in 1 .. Len(s) BY <1>2, <1>4 DEF Link
    <3>3. CASE i = Len(s)
      <4>1. first2[a] = Link(s, i - 1) BY <1>4, <1>5, <3>1, <3>2, <3>3
      <4> QED BY <1>4, <2>1, <3>3, <4>1 DEF Link
    <3>4. CASE i # Len(s)
      <4>1. first2[a] = s[Len(s)] BY <1>3, <1>5, <3>1, <3>2, <3>4
      <4>2. Len(w) \in 1 .. Len(w) /\ i <= Len(w) /\ Len(w) + 1 = Len(s) /\ Len(w) # 0
        BY <1>4, <2>1, <3>4
      <4>3. w[Len(w)] = s[Len(s)] BY <2>1, <4>2
      <4> QED BY <4>1, <4>2, <4>3 DEF Link
    <3> QED BY <3>3, <3>4
  <2>7. Stores(first2, size2, nd2, a, w) BY <2>3, <2>4, <2>5, <2>6 DEF Stores, IsChain
  <2> QED BY <2>7
<1>22. Table(first2, size2, nd2, cl2)
  BY ONLY <1>10, <1>12, <1>13, <1>15, <1>18, <1>20, <1>21 DEF Table
<1> QED BY <1>8, <1>9, <1>16, <1>19, <1>22

LEMMA Numbers ==
  ASSUME NEW n \in Nat
  PROVE  IsFiniteSet(1 .. n) /\ Cardinality(1 .. n) = n
PROOF BY FS_Interval

\* A set that is numbered without gaps and repetitions has as many elements.
LEMMA SameNumber ==
  ASSUME NEW S, NEW T, IsFiniteSet(S), NEW f \in [S -> T],
         \A x, y \in S : f[x] = f[y] => x = y,
         \A z \in T : \E x \in S : f[x] = z
  PROVE  Cardinality(T) = Cardinality(S)
PROOF
<1>1. f \in Surjection(S, T) BY DEF Surjection
<1>2. f \in Injection(S, T) BY DEF Injection, IsInjective
<1> QED BY ONLY <1>1, <1>2, IsFiniteSet(S), FS_Surjection

\* Such a table is what ListsSound says.
LEMMA TableSound ==
  ASSUME Table(buckets, bucket_sizes, node, cell)
  PROVE  ListsSound
PROOF
<1>0. /\ DOMAIN node \in SUBSET Nodes /\ node \in [DOMAIN node -> Node] /\ Memory(node)
      /\ KeysOnce(node) /\ Owns(node, cell)
  BY DEF Table, Memory
<1>1. ASSUME NEW b \in Buckets
      PROVE  /\ Chain(b) = Placed(node, b)
             /\ bucket_sizes[b] = Cardinality(Chain(b))
  <2>1. PICK s : Stores(buckets, bucket_sizes, node, b, s) BY DEF Table
  <2>2. /\ IsChain(node, b, s) /\ bucket_sizes[b] = Len(s) /\ buckets[b] = Link(s, Len(s))
        /\ Threaded(node, s) /\ s \in Seq(Nodes) /\ Len(s) \in Nat
        /\ \A i, j \in 1 .. Len(s) : s[i] = s[j] => i = j
        /\ {s[j] : j \in 1 .. Len(s)} = Placed(node, b)
    BY <2>1 DEF Stores, IsChain, Threaded
  <2>3. \A j \in 1 .. Len(s) : node[s[j]].key # Absent
    BY <1>0, <2>2, HashTableAssumption DEF Threaded, Node
  <2>4. Meets(node, Link(s, Len(s)), Absent) \ {NULL} = Between(s, 1, Len(s))
    <3>1. Len(s) \in 0 .. Len(s) BY <2>2
    <3> QED BY ONLY <1>0, <2>2, <2>3, <3>1, WalkMeetsAll
  <2>5. Range(Walk(buckets[b], Absent)) = Meets(node, buckets[b], Absent)
    <3>0. NULL \notin DOMAIN node BY <1>0, HashTableAssumption
    <3>1. buckets[b] \in Heads BY DEF Table
    <3>2. DOMAIN WalkIn(node, buckets[b], Absent) = 0 .. Cardinality(Nodes)
      BY ONLY <1>0, <3>1, WalkUnfolds
    <3>3. Walk(buckets[b], Absent) = WalkIn(node, buckets[b], Absent) BY DEF Walk, WalkIn
    <3> QED BY ONLY <3>2, <3>3 DEF Range, Meets
  <2>6. Chain(b) = Placed(node, b) BY <2>2, <2>4, <2>5 DEF Chain, Between
  <2>7. Cardinality(Placed(node, b)) = Len(s)
    <3>0. PICK n \in Nat : n = Len(s) BY <2>2
    <3> DEFINE I == 1 .. n
    <3>1. IsFiniteSet(I) /\ Cardinality(I) = Len(s) BY <3>0, Numbers
    <3>2. /\ s \in [I -> Placed(node, b)] /\ \A x, y \in I : s[x] = s[y] => x = y
          /\ \A z \in Placed(node, b) : \E x \in I : s[x] = z
      BY <2>2, <3>0
    <3> HIDE DEF I
    <3> QED BY ONLY <3>1, <3>2, SameNumber
  <2> QED BY <2>2, <2>6, <2>7
<1>2. UNION {Chain(b) : b \in Buckets} = DOMAIN node
  <2>1. \A n \in DOMAIN node : Hash[node[n].key] \in Buckets
    BY <1>0, HashTableAssumption DEF Node
  <2> QED BY <1>1, <2>1 DEF Placed
<1>3. \A b \in Buckets : \A n \in Chain(b) : Hash[node[n].key] = b BY <1>1 DEF Placed
<1>4. Cardinality(DOMAIN cell) = Cardinality(DOMAIN node)
  <2> DEFINE owned == [n \in DOMAIN node |-> node[n].value]
  <2>1. IsFiniteSet(DOMAIN node) BY <1>0, FS_Subset, HashTableAssumption
  <2>2. /\ owned \in [DOMAIN node -> DOMAIN cell]
        /\ \A x, y \in DOMAIN node : owned[x] = owned[y] => x = y
        /\ \A z \in DOMAIN cell : \E x \in DOMAIN node : owned[x] = z
    BY <1>0 DEF Owns
  <2> HIDE DEF owned
  <2> QED BY ONLY <2>1, <2>2, SameNumber
<1> QED BY <1>0, <1>1, <1>2, <1>3, <1>4 DEF ListsSound, KeysOnce, Owns

(***************************************************************************)
(* The threads, when the mix of requests is orderly: what a thread has     *)
(* read of the table holds still when it comes to use it.                  *)
(***************************************************************************)
Early == {"called", "waiting", "inside", "apply"}

\* A head leads to nodes of its bucket; that of a thread which changes links is
\* the bucket's.
HeadsLead == \A t \in Threads : pc[t] \in Early =>
  /\ head[t] \in Placed(node, Bucket(t)) \cup {NULL}
  /\ req[t].op \in {"CREATE", "DELETE"} => head[t] = buckets[Bucket(t)]

\* A search that is over would end the same.
FindsStand == \A t \in Threads : pc[t] = "apply" => found[t] = ListSearch(head[t], req[t].key)

\* The pointer that READ returned is to the value of its key.
ValuesStand == \A t \in Threads :
  pc[t] \in {"unlock", "answer"} /\ req[t].op = "READ" /\ result[t] = 1 =>
    \E n \in DOMAIN node : node[n].key = req[t].key /\ value[t] = node[n].value

Locals == /\ head \in [Threads -> Heads] /\ found \in [Threads -> Heads]
          /\ result \in [Threads -> {-1, 0, 1}] /\ value \in [Threads -> Cells \cup {NULL}]
          /\ \A t \in Threads : /\ pc[t] = "refused" => result[t] = -1
                                /\ pc[t] \in {"load", "store"} =>
                                     req[t].op \in {"CREATE", "DELETE"} /\ result[t] = 1

TableInv ==
  /\ Requested /\ Orderly(mix) /\ Locals
  /\ Table(buckets, bucket_sizes, node, cell)
  /\ HeadsLead /\ FindsStand /\ ValuesStand
  /\ ~undefined

LEMMA WalkIsWalkIn == \A h, k : /\ Walk(h, k) = WalkIn(node, h, k)
                                /\ Walk(h, k)' = WalkIn(node', h, k)
PROOF BY DEF Walk, WalkIn

\* What the others' work leaves of the table for thread u.
Spares(u) ==
  /\ Grows(node, node', Bucket(u))
  /\ req[u].op \in {"CREATE", "DELETE"} => buckets'[Bucket(u)] = buckets[Bucket(u)]
  /\ req[u].op = "READ" => \A n \in DOMAIN node : node[n].key = req[u].key =>
       /\ n \in DOMAIN node' /\ node'[n].key = node[n].key /\ node'[n].value = node[n].value
       /\ cell'[node[n].value] = cell[node[n].value]

LEMMA NoClash ==
  ASSUME TableInv, NEW t \in Threads, NEW u \in Threads, t # u, pc[t] # "idle", pc[u] # "idle"
  PROVE  /\ req[t].op = "DELETE" => Bucket(t) # Bucket(u)
         /\ req[t].op = "CREATE" /\ req[u].op \in {"CREATE", "DELETE"} => Bucket(t) # Bucket(u)
         /\ req[t].op = "UPDATE" /\ req[u].op = "READ" => req[t].key # req[u].key
PROOF
<1>1. req[t] \in mix[t] /\ req[u] \in mix[u] BY ServedRequest DEF TableInv
<1>2. ~Clash(req[t], req[u]) /\ ~Clash(req[u], req[t]) BY <1>1 DEF TableInv, Orderly
<1> QED BY <1>2 DEF Clash, Bucket

\* At "apply", a thread has found the node with its key, or none; one that was
\* to change links knows that there is none.
LEMMA AtApply ==
  ASSUME TableInv, NEW t \in Threads, pc[t] = "apply"
  PROVE  /\ req[t] \in Requests /\ req[t].key \in Keys /\ Bucket(t) = Hash[req[t].key]
         /\ Bucket(t) \in Buckets
         /\ found[t] = NULL \/ (found[t] \in DOMAIN node /\ node[found[t]].key = req[t].key)
         /\ NULL \notin DOMAIN node
         /\ req[t].op \in {"CREATE", "DELETE"} /\ found[t] = NULL =>
              \A n \in DOMAIN node : node[n].key # req[t].key
PROOF
<1>1. /\ req[t] \in Requests /\ req[t].key \in Keys /\ Bucket(t) = Hash[req[t].key]
      /\ Bucket(t) \in Buckets
  BY ServedRequest, RequestKinds DEF TableInv, Bucket
<1>2. found[t] = WalkIn(node, head[t], req[t].key)[Cardinality(Nodes)]
  BY WalkIsWalkIn DEF TableInv, FindsStand, ListSearch
<1>3. /\ head[t] \in Placed(node, Hash[req[t].key]) \cup {NULL}
      /\ req[t].op \in {"CREATE", "DELETE"} => head[t] = buckets[Hash[req[t].key]]
  BY <1>1 DEF TableInv, HeadsLead, Early
<1>4. Table(buckets, bucket_sizes, node, cell) BY DEF TableInv
<1>5. NULL \notin DOMAIN node BY <1>4, HashTableAssumption DEF Table, Memory
<1>6. LET n == WalkIn(node, head[t], req[t].key)[Cardinality(Nodes)] IN
        /\ n = NULL \/ (n \in DOMAIN node /\ node[n].key = req[t].key)
        /\ head[t] = buckets[Hash[req[t].key]] /\ n = NULL =>
             \A m \in DOMAIN node : node[m].key # req[t].key
  BY ONLY <1>1, <1>3, <1>4, SearchFinds
<1> QED BY <1>1, <1>2, <1>3, <1>5, <1>6

(***************************************************************************)
(* What the memory holds for a key.                                        *)
(***************************************************************************)
Held(nd, cl, k) ==
  IF \E n \in DOMAIN nd : nd[n].key = k
  THEN cl[nd[CHOOSE n \in DOMAIN nd : nd[n].key = k].value] ELSE Absent

LEMMA HeldBy ==
  ASSUME NEW nd, NEW cl, KeysOnce(nd), NEW n \in DOMAIN nd
  PROVE  Held(nd, cl, nd[n].key) = cl[nd[n].value]
PROOF
<1>1. PICK m \in DOMAIN nd :
        /\ nd[m].key = nd[n].key
        /\ Held(nd, cl, nd[n].key) = cl[nd[m].value]
  <2> DEFINE m == CHOOSE x \in DOMAIN nd : nd[x].key = nd[n].key
  <2>1. m \in DOMAIN nd /\ nd[m].key = nd[n].key OBVIOUS
  <2>2. Held(nd, cl, nd[n].key) = cl[nd[m].value] BY DEF Held
  <2> HIDE DEF m
  <2> QED BY <2>1, <2>2
<1> QED BY <1>1 DEF KeysOnce

\* Two memories that show the same of a key hold the same for it.
Alike(nd, cl, nd2, cl2, k) ==
  /\ \A n \in DOMAIN nd : nd[n].key = k =>
       n \in DOMAIN nd2 /\ nd2[n].key = k /\ cl2[nd2[n].value] = cl[nd[n].value]
  /\ \A n \in DOMAIN nd2 : nd2[n].key = k => n \in DOMAIN nd /\ nd[n].key = k

LEMMA HeldAlike ==
  ASSUME NEW nd, NEW cl, NEW nd2, NEW cl2, KeysOnce(nd), KeysOnce(nd2), NEW k,
         Alike(nd, cl, nd2, cl2, k)
  PROVE  Held(nd2, cl2, k) = Held(nd, cl, k)
PROOF
<1>1. CASE \E n \in DOMAIN nd : nd[n].key = k
  <2>1. PICK n \in DOMAIN nd : nd[n].key = k BY <1>1
  <2>2. n \in DOMAIN nd2 /\ nd2[n].key = k /\ cl2[nd2[n].value] = cl[nd[n].value]
    BY <2>1 DEF Alike
  <2> QED BY <2>1, <2>2, HeldBy
<1>2. CASE ~\E n \in DOMAIN nd : nd[n].key = k
  <2>1. ~\E n \in DOMAIN nd2 : nd2[n].key = k
    <3>1. SUFFICES ASSUME NEW n \in DOMAIN nd2, nd2[n].key = k PROVE FALSE OBVIOUS
    <3> QED BY <1>2, <3>1 DEF Alike
  <2> QED BY <1>2, <2>1 DEF Held
<1> QED BY <1>1, <1>2

\* The memory holds v for t's key from now on, and for all others what it held.
Effect(t, v) == \A k \in Keys :
  Held(node', cell', k) = IF k = req[t].key THEN v ELSE Held(node, cell, k)

\* A step keeps the table sound, and spares the other threads what they rely on.
Safe(t) ==
  /\ Table(buckets', bucket_sizes', node', cell')
  /\ \A u \in Threads : u # t /\ pc[u] # "idle" => Spares(u)

LEMMA SafeIfKept ==
  ASSUME TableInv, NEW t \in Threads, UNCHANGED table
  PROVE  Safe(t)
PROOF
<1>1. node' = node /\ cell' = cell /\ buckets' = buckets /\ bucket_sizes' = bucket_sizes
  BY DEF table
<1>2. \A b : Grows(node, node', b) BY <1>1 DEF Grows, Placed
<1> QED BY <1>1, <1>2 DEF Safe, Spares, TableInv

LEMMA SafeInsert ==
  ASSUME TableInv, NEW t \in Threads, Insert(t)
  PROVE  Safe(t) /\ (result'[t] = 1 => Effect(t, req[t].val))
PROOF
<1>0. result \in [Threads -> {-1, 0, 1}] BY DEF TableInv, Locals
<1>1. CASE UNCHANGED table /\ result'[t] # 1 BY <1>1, SafeIfKept
<1>2. CASE /\ Misses(t, "CREATE")
           /\ \E new \in FreeNodes, c \in FreeCells :
                /\ cell' = With(cell, c, req[t].val)
                /\ node' = With(node, new, [key |-> req[t].key, value |-> c, next |-> head[t]])
                /\ buckets' = [buckets EXCEPT ![Bucket(t)] = new]
           /\ Counts(t, 1)
  <2>1. PICK new \in FreeNodes, c \in FreeCells :
                /\ cell' = With(cell, c, req[t].val)
                /\ node' = With(node, new, [key |-> req[t].key, value |-> c, next |-> head[t]])
                /\ buckets' = [buckets EXCEPT ![Bucket(t)] = new]
    BY <1>2
  <2>2. pc[t] = "apply" /\ req[t].op = "CREATE" /\ found[t] = NULL BY <1>2 DEF Misses
  <2>00. PICK k : k = req[t].key OBVIOUS
  <2>3. /\ k \in Keys /\ Bucket(t) = Hash[k] /\ Hash[k] \in Buckets /\ req[t] \in Requests
        /\ \A n \in DOMAIN node : node[n].key # k
    BY <2>00, <2>2, AtApply
  <2>4. req[t].val \in Values BY <2>2, <2>3 DEF Requests
  <2>5. head[t] = buckets[Hash[k]] BY <2>2, <2>3 DEF TableInv, HeadsLead, Early
  <2>6. bucket_sizes' = [bucket_sizes EXCEPT ![Hash[k]] = @ + 1] BY <1>2, <2>3 DEF Counts
  <2>7. Table(buckets, bucket_sizes, node, cell) BY DEF TableInv
  <2>8. new \in Nodes \ DOMAIN node /\ c \in Cells \ DOMAIN cell BY <2>1 DEF FreeNodes, FreeCells
  <2>9. Adding(buckets, bucket_sizes, node, cell, k, new, c, req[t].val,
               buckets', bucket_sizes', node', cell')
    BY <2>00, <2>1, <2>3, <2>5, <2>6 DEF Adding
  <2>10. /\ Table(buckets', bucket_sizes', node', cell')
         /\ \A n \in DOMAIN node : n \in DOMAIN node' /\ node'[n] = node[n]
         /\ \A d \in DOMAIN cell : d \in DOMAIN cell' /\ cell'[d] = cell[d]
         /\ DOMAIN node' = DOMAIN node \cup {new} /\ node'[new].key = k
         /\ cell'[node'[new].value] = req[t].val
    <3>1. /\ Table(buckets', bucket_sizes', node', cell')
          /\ Added(node, cell, k, new, req[t].val, node', cell')
      BY ONLY <2>3, <2>4, <2>7, <2>8, <2>9, AddOne
    <3> QED BY <3>1 DEF Added
  <2>12. \A n \in DOMAIN node : node[n].value \in DOMAIN cell BY <2>7 DEF Table, Owns
  <2>13. ASSUME NEW u \in Threads, u # t, pc[u] # "idle" PROVE Spares(u)
    <3>1. Grows(node, node', Bucket(u)) BY <2>10 DEF Grows, Placed
    <3>2. req[u].op \in {"CREATE", "DELETE"} => buckets'[Bucket(u)] = buckets[Bucket(u)]
      <4>1. req[u].op \in {"CREATE", "DELETE"} => Bucket(u) # Hash[k] /\ Bucket(u) \in Buckets
        BY <2>2, <2>3, <2>13, NoClash, ServedRequest DEF TableInv
      <4>2. buckets \in [Buckets -> Heads] BY <2>7 DEF Table
      <4> QED BY <2>1, <2>3, <4>1, <4>2
    <3> QED BY <2>10, <2>12, <3>1, <3>2 DEF Spares
  <2>14. Effect(t, req[t].val)
    <3>1. KeysOnce(node) /\ KeysOnce(node') BY <2>7, <2>10 DEF Table
    <3>2. Held(node', cell', k) = req[t].val
      <4>1. new \in DOMAIN node' /\ node'[new].key = k /\ cell'[node'[new].value] = req[t].val
        BY <2>10
      <4> QED BY ONLY <3>1, <4>1, HeldBy
    <3>3. ASSUME NEW x \in Keys, x # k PROVE Held(node', cell', x) = Held(node, cell, x)
      <4>1. Alike(node, cell, node', cell', x) BY <2>10, <2>12, <3>3 DEF Alike
      <4> QED BY ONLY <3>1, <4>1, HeldAlike
    <3> QED BY <2>00, <3>2, <3>3 DEF Effect
  <2> QED BY <2>10, <2>13, <2>14 DEF Safe
<1> QED BY <1>0, <1>1, <1>2 DEF Insert, Fruitless, Returns

LEMMA SafeUpdate ==
  ASSUME TableInv, NEW t \in Threads, Update(t)
  PROVE  Safe(t) /\ (result'[t] = 1 => Effect(t, req[t].val))
PROOF
<1>0. result \in [Threads -> {-1, 0, 1}] BY DEF TableInv, Locals
<1>1. CASE UNCHANGED table /\ result'[t] # 1 BY <1>1, SafeIfKept
<1>2. CASE /\ Finds(t, "UPDATE")
           /\ \E c \in FreeCells :
                /\ cell' = With(Restrict(cell, DOMAIN cell \ {node[found[t]].value}),
                                c, req[t].val)
                /\ node' = [node EXCEPT ![found[t]].value = c]
           /\ buckets' = buckets /\ bucket_sizes' = bucket_sizes
  <2>0. PICK m : m = found[t] OBVIOUS
  <2>1. PICK c \in FreeCells :
          /\ cell' = With(Restrict(cell, DOMAIN cell \ {node[m].value}), c, req[t].val)
          /\ node' = [node EXCEPT ![m].value = c]
    BY <1>2, <2>0
  <2>2. pc[t] = "apply" /\ req[t].op = "UPDATE" /\ m \in DOMAIN node BY <1>2, <2>0 DEF Finds
  <2>3. req[t] \in Requests /\ node[m].key = req[t].key BY <2>0, <2>2, AtApply
  <2>4. req[t].val \in Values BY <2>2, <2>3 DEF Requests
  <2>5. Table(buckets, bucket_sizes, node, cell) BY DEF TableInv
  <2>6. c \in Cells \ DOMAIN cell BY <2>1 DEF FreeCells
  <2>7. /\ Table(buckets, bucket_sizes, node', cell')
        /\ DOMAIN node' = DOMAIN node
        /\ \A n \in DOMAIN node : /\ node'[n].key = node[n].key /\ node'[n].next = node[n].next
                                  /\ n # m => /\ node'[n].value = node[n].value
                                              /\ cell'[node[n].value] = cell[node[n].value]
        /\ cell'[node'[m].value] = req[t].val
    <3>1. Replacing(node, cell, m, c, req[t].val, node', cell') BY <2>1 DEF Replacing
    <3> QED BY ONLY <2>2, <2>4, <2>5, <2>6, <3>1, ReplaceOne
  <2>8. ASSUME NEW u \in Threads, u # t, pc[u] # "idle" PROVE Spares(u)
    <3>1. Grows(node, node', Bucket(u)) BY <2>7 DEF Grows, Placed
    <3>2. req[u].op = "READ" => req[u].key # req[t].key BY <2>2, <2>8, NoClash
    <3> QED BY <1>2, <2>3, <2>7, <3>1, <3>2 DEF Spares
  <2>9. Effect(t, req[t].val)
    <3>1. KeysOnce(node) /\ KeysOnce(node') BY <2>5, <2>7 DEF Table
    <3>2. Held(node', cell', req[t].key) = req[t].val
      <4>1. m \in DOMAIN node' /\ node'[m].key = req[t].key BY <2>2, <2>3, <2>7
      <4> QED BY ONLY <2>7, <3>1, <4>1, HeldBy
    <3>3. ASSUME NEW x \in Keys, x # req[t].key
          PROVE  Held(node', cell', x) = Held(node, cell, x)
      <4>1. Alike(node, cell, node', cell', x) BY <2>3, <2>7, <3>3 DEF Alike
      <4> QED BY ONLY <3>1, <4>1, HeldAlike
    <3> QED BY <3>2, <3>3 DEF Effect
  <2> QED BY <1>2, <2>7, <2>8, <2>9 DEF Safe
<1>3. CASE Fruitless(t, 0) \/ Fruitless(t, -1)
  BY <1>0, <1>1, <1>3 DEF Fruitless, Returns
<1> QED BY <1>2, <1>3 DEF Update

LEMMA SafeDelete ==
  ASSUME TableInv, NEW t \in Threads, Delete(t)
  PROVE  Safe(t) /\ (result'[t] = 1 => Effect(t, Absent))
PROOF
<1>0. result \in [Threads -> {-1, 0, 1}] BY DEF TableInv, Locals
<1>1. CASE UNCHANGED table /\ result'[t] # 1 BY <1>1, SafeIfKept
<1>2. CASE /\ Finds(t, "DELETE")
           /\ node' = NodesWithout(t, found[t])
           /\ buckets' = [buckets EXCEPT ![Bucket(t)] = HeadWithout(t, found[t])]
           /\ cell' = Restrict(cell, DOMAIN cell \ {node[found[t]].value})
           /\ Counts(t, -1)
  <2>0. PICK m : m = found[t] OBVIOUS
  <2>00. PICK k : k = req[t].key OBVIOUS
  <2>2. pc[t] = "apply" /\ req[t].op = "DELETE" /\ m \in DOMAIN node BY <1>2, <2>0 DEF Finds
  <2>3. /\ k \in Keys /\ Bucket(t) = Hash[k] /\ Hash[k] \in Buckets /\ node[m].key = k
    BY <2>0, <2>00, <2>2, AtApply
  <2>5. head[t] = buckets[Hash[k]] BY <2>2, <2>3 DEF TableInv, HeadsLead, Early
  <2>6. bucket_sizes' = [bucket_sizes EXCEPT ![Hash[k]] = @ + -1] BY <1>2, <2>3 DEF Counts
  <2>7. Table(buckets, bucket_sizes, node, cell) /\ Memory(node) BY DEF TableInv, Table
  <2>8. Range(Walk(head[t], k)) = Meets(node, buckets[Hash[k]], k)
    <3>1. buckets[Hash[k]] \in Heads BY <2>3, <2>7 DEF Table
    <3>2. DOMAIN WalkIn(node, buckets[Hash[k]], k) = 0 .. Cardinality(Nodes)
      BY ONLY <2>7, <3>1, WalkUnfolds
    <3> QED BY <2>5, <3>2, WalkIsWalkIn DEF Range, Meets
  <2>9. buckets' = [buckets EXCEPT ![Hash[k]] = IF buckets[Hash[k]] = m THEN node[m].next
                                                ELSE buckets[Hash[k]]]
    BY <1>2, <2>0, <2>3, <2>5 DEF HeadWithout
  <2>10. Removing(buckets, bucket_sizes, node, cell, k, m,
                  buckets', bucket_sizes', node', cell')
    BY <1>2, <2>0, <2>00, <2>6, <2>8, <2>9 DEF Removing, NodesWithout
  <2>13. /\ Table(buckets', bucket_sizes', node', cell')
         /\ DOMAIN node' = DOMAIN node \ {m}
         /\ \A n \in DOMAIN node' : /\ node'[n].key = node[n].key /\ node'[n].value = node[n].value
                                    /\ cell'[node[n].value] = cell[node[n].value]
         /\ \A b \in Buckets \ {Hash[k]} : Grows(node, node', b)
    BY ONLY <2>2, <2>3, <2>7, <2>10, RemoveOne
  <2>14. ASSUME NEW u \in Threads, u # t, pc[u] # "idle" PROVE Spares(u)
    <3>1. Bucket(u) # Hash[k] /\ Bucket(u) \in Buckets
      BY <2>2, <2>3, <2>14, NoClash, ServedRequest DEF TableInv
    <3>2. buckets'[Bucket(u)] = buckets[Bucket(u)] BY <2>7, <2>9, <3>1 DEF Table
    <3>3. \A n \in DOMAIN node : node[n].key = req[u].key => n # m BY <2>3, <3>1 DEF Bucket
    <3> QED BY <2>13, <3>1, <3>2, <3>3 DEF Spares
  <2>15. Effect(t, Absent)
    <3>1. KeysOnce(node) /\ KeysOnce(node') BY <2>7, <2>13 DEF Table
    <3>2. Held(node', cell', k) = Absent BY <2>2, <2>3, <2>13, <3>1 DEF Held, KeysOnce
    <3>3. ASSUME NEW x \in Keys, x # k PROVE Held(node', cell', x) = Held(node, cell, x)
      <4>1. Alike(node, cell, node', cell', x) BY <2>3, <2>13, <3>3 DEF Alike
      <4> QED BY ONLY <3>1, <4>1, HeldAlike
    <3> QED BY <2>00, <3>2, <3>3 DEF Effect
  <2> QED BY <2>13, <2>14, <2>15 DEF Safe
<1> QED BY <1>0, <1>1, <1>2 DEF Delete, Fruitless, Returns

LEMMA SafeStep ==
  ASSUME TableInv, NEW t \in Threads, Steps(t)
  PROVE  Safe(t)
PROOF
<1>1. CASE Insert(t) BY <1>1, SafeInsert
<1>2. CASE Update(t) BY <1>2, SafeUpdate
<1>3. CASE Delete(t) BY <1>3, SafeDelete
<1>4. CASE UNCHANGED table BY <1>4, SafeIfKept
<1>5. CASE Call(t) \/ Reply(t) \/ Find(t) BY <1>4, <1>5 DEF Call, Reply, Find
<1>6. CASE ReadLock(t) \/ ReadGranted(t) \/ WriteRefused(t) \/ Unlock(t)
  BY <1>4, <1>6 DEF ReadLock, ReadGranted, WriteRefused, Unlock
<1>7. CASE WriteLock(t) \/ WriteGranted(t) BY <1>4, <1>7 DEF WriteLock, WriteGranted
<1>8. CASE Search(t) \/ LoadTotal(t) \/ StoreTotal(t)
  BY <1>4, <1>8 DEF Search, Fruitless, LoadTotal, StoreTotal
<1> QED BY <1>1, <1>2, <1>3, <1>5, <1>6, <1>7, <1>8 DEF Steps, Defined

\* What each step does to its thread's variables.
Changes(t) ==
  /\ \A u \in Threads : u # t => /\ pc'[u] = pc[u] /\ req'[u] = req[u]
                                 /\ head'[u] = head[u] /\ found'[u] = found[u]
                                 /\ result'[u] = result[u] /\ value'[u] = value[u]
  /\ Locals'
  /\ \/ Call(t) \/ Find(t)
     \/ pc'[t] \notin Early
     \/ /\ pc[t] \in Early /\ pc[t] # "apply" /\ pc'[t] # "apply"
        /\ UNCHANGED <<table, req, head, found>>
  /\ pc'[t] \in {"unlock", "answer"} /\ req'[t].op = "READ" /\ result'[t] = 1 =>
       \/ Search(t) /\ Finds(t, "READ")
       \/ pc[t] = "unlock" /\ UNCHANGED <<table, req, result, value>>

LEMMA ChangesOf ==
  ASSUME TableInv, NEW t \in Threads, Steps(t)
  PROVE  Changes(t)
PROOF
<1>0. /\ pc \in [Threads -> PCs] /\ req \in [Threads -> Requests \cup {NoRequest}]
      /\ head \in [Threads -> Heads] /\ found \in [Threads -> Heads]
      /\ result \in [Threads -> {-1, 0, 1}] /\ value \in [Threads -> Cells \cup {NULL}]
      /\ \A u \in Threads : /\ pc[u] = "refused" => result[u] = -1
                            /\ pc[u] \in {"load", "store"} =>
                                 req[u].op \in {"CREATE", "DELETE"} /\ result[u] = 1
  <2>1. Requested /\ Locals BY DEF TableInv
  <2> QED BY ONLY <2>1 DEF Requested, Locals
<1>00. /\ node \in [DOMAIN node -> Node] /\ buckets \in [Buckets -> Heads]
       /\ NULL \in Heads /\ DOMAIN node \subseteq Heads
  BY DEF TableInv, Table, Memory, Heads
<1> USE DEF GoTo, locals, table, Changes, Locals, Early
<1>1. CASE Call(t)
  <2>1. \A r \in mix[t] : buckets[Hash[r.key]] \in Heads
    BY <1>00, HashTableAssumption, RequestKinds DEF TableInv, Requested
  <2>2. PICK r \in mix[t] : /\ req' = [req EXCEPT ![t] = r]
                            /\ head' = [head EXCEPT ![t] = buckets[Hash[r.key]]]
    BY <1>1 DEF Call
  <2>3. head' \in [Threads -> Heads] /\ pc' = [pc EXCEPT ![t] = "called"]
        /\ UNCHANGED <<found, result, value>>
    BY <1>0, <1>1, <2>1, <2>2 DEF Call
  <2> QED BY <1>0, <1>1, <2>2, <2>3
<1>2. CASE Reply(t) BY <1>0, <1>00, <1>2 DEF Reply
<1>3. CASE ReadLock(t) \/ ReadGranted(t) BY <1>0, <1>3 DEF ReadLock, ReadGranted
<1>4. CASE WriteLock(t) \/ WriteGranted(t) BY <1>0, <1>4 DEF WriteLock, WriteGranted
<1>5. CASE WriteRefused(t) BY <1>0, <1>5 DEF WriteRefused
<1>6. CASE Unlock(t) BY <1>0, <1>6 DEF Unlock
<1>7. CASE Find(t)
  <2>1. head[t] \in Heads /\ ListSearch(head[t], req[t].key) \in Heads
    <3>1. head[t] \in Heads /\ Memory(node) /\ Cardinality(Nodes) \in Nat
      BY <1>0, FS_CardinalityType, HashTableAssumption DEF TableInv, Table
    <3>2. WalkIn(node, head[t], req[t].key) \in [0 .. Cardinality(Nodes) -> Heads]
      BY ONLY <3>1, WalkUnfolds
    <3> QED BY <3>1, <3>2, WalkIsWalkIn DEF ListSearch
  <2> QED BY <1>0, <1>7, <2>1 DEF Find
<1>8. CASE Insert(t)
  BY <1>0, <1>8 DEF Insert, Finds, Misses, Fruitless, Returns, Counts
<1>9. CASE Update(t)
  BY <1>0, <1>9 DEF Update, Finds, Misses, Fruitless, Returns, Counts
<1>10. CASE Delete(t)
  BY <1>0, <1>10 DEF Delete, Finds, Misses, Fruitless, Returns, Counts
<1>11. CASE Search(t)
  <2>1. CASE Misses(t, "READ") /\ Fruitless(t, 0)
    BY <1>0, <2>1 DEF Misses, Fruitless, Returns
  <2>2. CASE /\ Finds(t, "READ")
             /\ value' = [value EXCEPT ![t] = node[found[t]].value]
             /\ Returns(t, 1)
             /\ UNCHANGED <<table, total_entries, req, head, found, loaded, queue>>
    <3>1. node[found[t]].value \in Cells BY <1>00, <2>2 DEF Finds, Node
    <3> QED BY <1>0, <1>11, <2>2, <3>1 DEF Finds, Returns
  <2> QED BY <1>11, <2>1, <2>2 DEF Search
<1>12. CASE LoadTotal(t) \/ StoreTotal(t)
  BY <1>0, <1>12 DEF LoadTotal, StoreTotal
<1> QED
  BY <1>1, <1>2, <1>3, <1>4, <1>5, <1>6, <1>7, <1>8, <1>9, <1>10, <1>11, <1>12
     DEF Steps, Defined

\* The bucket's own head is one that leads to its nodes.
LEMMA FirstLeads ==
  ASSUME NEW first, NEW size, NEW nd, NEW cl, Table(first, size, nd, cl), NEW b \in Buckets
  PROVE  first[b] \in Placed(nd, b) \cup {NULL}
PROOF
<1>1. PICK s : Stores(first, size, nd, b, s) BY DEF Table
<1>2. IsChain(nd, b, s) /\ Len(s) \in Nat /\ first[b] = Link(s, Len(s))
  BY <1>1 DEF Stores, IsChain, Threaded
<1>3. CASE Len(s) = 0 BY <1>2, <1>3 DEF Link
<1>4. CASE Len(s) # 0
  <2>1. Len(s) \in 1 .. Len(s) BY <1>2, <1>4
  <2> QED BY <1>2, <1>4, <2>1 DEF Link, IsChain
<1> QED BY <1>3, <1>4

LEMMA HeadsLeadStep ==
  ASSUME TableInv, NEW t \in Threads, Steps(t), mix' = mix
  PROVE  HeadsLead' /\ FindsStand'
PROOF
<1>1. Safe(t) /\ Changes(t) BY SafeStep, ChangesOf
<1>2. Table(buckets, bucket_sizes, node, cell) /\ Memory(node) /\ KeysOnce(node) /\ Requested
  BY DEF TableInv, Table
<1>3. Memory(node') BY <1>1 DEF Safe, Table
<1> SUFFICES ASSUME NEW u \in Threads, pc'[u] \in Early
             PROVE  /\ head'[u] \in Placed(node', Hash[req'[u].key]) \cup {NULL}
                    /\ req'[u].op \in {"CREATE", "DELETE"} => head'[u] = buckets'[Hash[req'[u].key]]
                    /\ pc'[u] = "apply" =>
                         found'[u] = WalkIn(node', head'[u], req'[u].key)[Cardinality(Nodes)]
  BY WalkIsWalkIn DEF HeadsLead, FindsStand, Bucket, ListSearch, Early
<1>4. ASSUME pc[u] \in Early
      PROVE  /\ head[u] \in Placed(node, Hash[req[u].key]) \cup {NULL}
             /\ req[u].op \in {"CREATE", "DELETE"} => head[u] = buckets[Hash[req[u].key]]
             /\ pc[u] = "apply" =>
                  found[u] = WalkIn(node, head[u], req[u].key)[Cardinality(Nodes)]
  BY <1>4, WalkIsWalkIn DEF TableInv, HeadsLead, FindsStand, Bucket, ListSearch, Early
<1>5. CASE u # t
  <2>1. /\ pc'[u] = pc[u] /\ req'[u] = req[u] /\ head'[u] = head[u] /\ found'[u] = found[u]
        /\ pc[u] \in Early /\ pc[u] # "idle"
    BY <1>1, <1>5 DEF Changes, Early
  <2> DEFINE b == Hash[req[u].key]
  <2>2. Spares(u) /\ Bucket(u) = b /\ b \in Buckets
    BY <1>1, <1>2, <1>5, <2>1, ServedRequest DEF Safe, Bucket
  <2>3. Grows(node, node', b) BY <2>2 DEF Spares
  <2>4. head[u] \in Placed(node', b) \cup {NULL}
    BY <1>4, <2>1, <2>3 DEF Grows, Placed
  <2>5. WalkIn(node', head[u], req[u].key)[Cardinality(Nodes)]
          = WalkIn(node, head[u], req[u].key)[Cardinality(Nodes)]
    <3>1. PICK s : IsChain(node, b, s) BY <1>2, <2>2 DEF Table, Stores
    <3>2. head[u] \in Placed(node, b) \cup {NULL} BY <1>4, <2>1
    <3> HIDE DEF b
    <3> QED BY ONLY <1>2, <1>3, <2>3, <3>1, <3>2, SearchSame
  <2> QED BY <1>4, <2>1, <2>2, <2>4, <2>5 DEF Spares
<1>6. CASE u = t /\ Call(t)
  <2>1. PICK r \in mix[t] : /\ req' = [req EXCEPT ![t] = r]
                            /\ head' = [head EXCEPT ![t] = buckets[Hash[r.key]]]
    BY <1>6 DEF Call
  <2>2. /\ req'[t] = r /\ head'[t] = buckets[Hash[r.key]] /\ pc'[t] = "called"
        /\ node' = node /\ buckets' = buckets
    BY <1>2, <1>6, <2>1 DEF Call, GoTo, table, Requested, TableInv, Locals
  <2>3. Hash[r.key] \in Buckets BY <1>2, HashTableAssumption, RequestKinds DEF Requested
  <2>4. buckets[Hash[r.key]] \in Placed(node, Hash[r.key]) \cup {NULL}
    BY <1>2, <2>3, FirstLeads
  <2> QED BY <1>6, <2>2, <2>4
<1>7. CASE u = t /\ Find(t)
  <2>1. /\ pc[t] = "inside" /\ req' = req /\ head' = head /\ node' = node /\ buckets' = buckets
        /\ found'[t] = ListSearch(head[t], req[t].key)
    BY <1>7 DEF Find, table, TableInv, Locals
  <2> QED BY <1>4, <1>7, <2>1, WalkIsWalkIn DEF Early, ListSearch
<1>8. CASE /\ u = t /\ pc[t] \in Early /\ pc[t] # "apply" /\ pc'[t] # "apply"
           /\ UNCHANGED <<table, req, head, found>>
  BY <1>4, <1>8 DEF table
<1> QED BY <1>1, <1>5, <1>6, <1>7, <1>8 DEF Changes

LEMMA ValuesStandStep ==
  ASSUME TableInv, NEW t \in Threads, Steps(t)
  PROVE  ValuesStand'
PROOF
<1>1. Safe(t) /\ Changes(t) BY SafeStep, ChangesOf
<1> SUFFICES ASSUME NEW u \in Threads, pc'[u] \in {"unlock", "answer"}, req'[u].op = "READ",
                    result'[u] = 1
             PROVE  \E n \in DOMAIN node' : node'[n].key = req'[u].key /\ value'[u] = node'[n].value
  BY DEF ValuesStand
<1>2. ASSUME pc[u] \in {"unlock", "answer"}, req[u].op = "READ", result[u] = 1
      PROVE  \E n \in DOMAIN node : node[n].key = req[u].key /\ value[u] = node[n].value
  BY <1>2 DEF TableInv, ValuesStand
<1>3. CASE u # t
  <2>1. /\ pc'[u] = pc[u] /\ req'[u] = req[u] /\ result'[u] = result[u] /\ value'[u] = value[u]
    BY <1>1, <1>3 DEF Changes
  <2>2. Spares(u) BY <1>1, <1>3, <2>1 DEF Safe
  <2>3. PICK n \in DOMAIN node : node[n].key = req[u].key /\ value[u] = node[n].value
    BY <1>2, <2>1
  <2> QED BY <2>1, <2>2, <2>3 DEF Spares
<1>4. CASE u = t /\ Search(t) /\ Finds(t, "READ")
  <2>1. pc[t] = "apply" /\ found[t] \in DOMAIN node /\ found[t] # NULL
    BY <1>4, AtApply DEF Finds
  <2>2. /\ value'[t] = node[found[t]].value /\ node' = node /\ req' = req
    BY <1>4, <2>1 DEF Search, Misses, table, TableInv, Locals
  <2>3. node[found[t]].key = req[t].key BY <2>1, AtApply
  <2> QED BY <1>4, <2>1, <2>2, <2>3
<1>5. CASE u = t /\ pc[t] = "unlock" /\ UNCHANGED <<table, req, result, value>>
  BY <1>2, <1>5 DEF table
<1> QED BY <1>1, <1>3, <1>4, <1>5 DEF Changes

\* No step touches memory that is not in use.
LEMMA DefinedStep ==
  ASSUME TableInv, NEW t \in Threads, Steps(t)
  PROVE  ~undefined'
PROOF
<1>1. CASE Find(t)
  <2>1. pc[t] = "inside" BY <1>1 DEF Find
  <2>2. req[t].key \in Keys /\ Bucket(t) = Hash[req[t].key]
    BY <2>1, ServedRequest, RequestKinds DEF TableInv, Bucket
  <2>3. head[t] \in Placed(node, Hash[req[t].key]) \cup {NULL}
    BY <2>1, <2>2 DEF TableInv, HeadsLead, Early
  <2>4. Table(buckets, bucket_sizes, node, cell) BY DEF TableInv
  <2>5. LET n == WalkIn(node, head[t], req[t].key)[Cardinality(Nodes)] IN
          n = NULL \/ (n \in DOMAIN node /\ node[n].key = req[t].key)
    BY ONLY <2>2, <2>3, <2>4, SearchFinds
  <2> QED BY <1>1, <2>5, WalkIsWalkIn DEF Find, Found, ListSearch
<1>2. CASE Reply(t)
  <2>1. pc[t] \in {"answer", "refused"} /\ undefined' = DanglingValue(t) BY <1>2 DEF Reply
  <2>2. ASSUME req[t].op = "READ", result[t] = 1 PROVE value[t] \in DOMAIN cell
    <3>1. pc[t] = "answer" BY <2>1, <2>2 DEF TableInv, Locals
    <3>2. PICK n \in DOMAIN node : value[t] = node[n].value
      BY <2>2, <3>1 DEF TableInv, ValuesStand
    <3> QED BY <3>2 DEF TableInv, Table, Owns
  <2> QED BY <2>1, <2>2 DEF DanglingValue
<1> QED BY <1>1, <1>2 DEF Steps, TableInv

LEMMA TableInvStep ==
  ASSUME TableInv, [Next]_vars
  PROVE  TableInv'
PROOF
<1>1. CASE UNCHANGED vars
  BY <1>1, RequestedStep
     DEF vars, table, locals, TableInv, Locals, HeadsLead, FindsStand, ValuesStand, Bucket,
         ListSearch, Walk
<1>2. ASSUME NEW t \in Threads, Steps(t), mix' = mix PROVE TableInv'
  <2>1. Requested' BY RequestedStep DEF TableInv
  <2>2. Safe(t) /\ Changes(t) BY <1>2, SafeStep, ChangesOf
  <2>3. HeadsLead' /\ FindsStand' BY <1>2, HeadsLeadStep
  <2>4. ValuesStand' /\ ~undefined' BY <1>2, ValuesStandStep, DefinedStep
  <2>5. Orderly(mix)' BY <1>2 DEF TableInv, Orderly
  <2> QED BY <2>1, <2>2, <2>3, <2>4, <2>5 DEF TableInv, Safe, Changes
<1> QED BY <1>1, <1>2 DEF Next, Steps

LEMMA TableInitially ==
  ASSUME Init, Orderly(mix)
  PROVE  TableInv
PROOF
<1>1. Requested BY LocksInitially
<1>2. Locals BY DEF Init, Locals, Heads
<1>3. HeadsLead /\ FindsStand /\ ValuesStand BY DEF Init, HeadsLead, FindsStand, ValuesStand, Early
<1>4. DOMAIN node = {} /\ DOMAIN cell = {} /\ node \in [DOMAIN node -> Node]
      /\ cell \in [DOMAIN cell -> Values]
  BY DEF Init
<1>5. ASSUME NEW b \in Buckets PROVE \E s : Stores(buckets, bucket_sizes, node, b, s)
  <2>1. PICK s : s = <<>> OBVIOUS
  <2>2. s \in Seq(Nodes) /\ Len(s) = 0 BY <2>1
  <2>3. Placed(node, b) = {} BY <1>4 DEF Placed
  <2>4. IsChain(node, b, s) BY <2>2, <2>3 DEF IsChain, Threaded
  <2>5. bucket_sizes[b] = 0 /\ buckets[b] = NULL BY DEF Init
  <2> QED BY <2>2, <2>4, <2>5 DEF Stores, Link
<1>6. Table(buckets, bucket_sizes, node, cell)
  <2>1. buckets \in [Buckets -> Heads] /\ bucket_sizes \in [Buckets -> Int] BY DEF Init, Heads
  <2> QED BY <1>4, <1>5, <2>1 DEF Table, Memory, Contents, KeysOnce, Owns
<1> QED BY <1>1, <1>2, <1>3, <1>6 DEF TableInv, Init

\* With clients whose requests the table can keep apart, no thread ever touches
\* a node or a value that was freed, however the threads interleave and
\* whatever the heap reuses: every head read before the lock was granted leads to
\* nodes that are on the chain still, and every pointer READ hands out is to the
\* value of its key until it is copied.
THEOREM NothingFreedIsUsed == Spec /\ Orderly(mix) => []NoUseAfterFree
PROOF
<1>1. Init /\ Orderly(mix) => TableInv BY TableInitially
<1>2. TableInv /\ [Next]_vars => TableInv' BY TableInvStep
<1>3. TableInv => NoUseAfterFree BY DEF TableInv, NoUseAfterFree
<1> QED BY <1>1, <1>2, <1>3, PTL DEF Spec

\* With such clients the chains are always what the table means: each node on
\* the chain of its key's bucket, one node per key, one value per node, every
\* bucket_sizes entry the length of its chain, and nothing leaked.
THEOREM ChainsStaySound == Spec /\ Orderly(mix) => []ListsSound
PROOF
<1>1. Init /\ Orderly(mix) => TableInv BY TableInitially
<1>2. TableInv /\ [Next]_vars => TableInv' BY TableInvStep
<1>3. TableInv => ListsSound BY TableSound DEF TableInv
<1> QED BY <1>1, <1>2, <1>3, PTL DEF Spec

(***************************************************************************)
(* The table as the store of KVStore.                                      *)
(***************************************************************************)
Stored == [k \in Keys |-> Lookup(k)]
Calls  == [t \in Threads |-> Progress(t)]

\* Looking a key up from the head of its bucket gives what the memory holds.
LEMMA LookupHeld ==
  ASSUME NEW first, NEW size, NEW nd, NEW cl, Table(first, size, nd, cl), NEW k \in Keys
  PROVE  LET n == WalkIn(nd, first[Hash[k]], k)[Cardinality(Nodes)]
         IN Held(nd, cl, k) = IF n \in DOMAIN nd /\ nd[n].key = k THEN cl[nd[n].value] ELSE Absent
PROOF
<1>1. PICK n : n = WalkIn(nd, first[Hash[k]], k)[Cardinality(Nodes)] OBVIOUS
<1>2. Hash[k] \in Buckets BY HashTableAssumption
<1>3. PICK h : h = first[Hash[k]] OBVIOUS
<1>4. h \in Placed(nd, Hash[k]) \cup {NULL} BY <1>2, <1>3, FirstLeads
<1>5. LET x == WalkIn(nd, h, k)[Cardinality(Nodes)] IN
        /\ x = NULL \/ (x \in DOMAIN nd /\ nd[x].key = k)
        /\ h = first[Hash[k]] /\ x = NULL => \A m \in DOMAIN nd : nd[m].key # k
  BY ONLY <1>4, Table(first, size, nd, cl), k \in Keys, SearchFinds
<1>6. /\ n = NULL \/ (n \in DOMAIN nd /\ nd[n].key = k)
      /\ n = NULL => \A m \in DOMAIN nd : nd[m].key # k
  BY <1>1, <1>3, <1>5
<1>7. KeysOnce(nd) /\ NULL \notin DOMAIN nd BY HashTableAssumption DEF Table, Memory
<1>8. Held(nd, cl, k) = IF n \in DOMAIN nd /\ nd[n].key = k THEN cl[nd[n].value] ELSE Absent
  <2>1. CASE n = NULL BY <1>6, <1>7, <2>1 DEF Held
  <2>2. CASE n # NULL BY <1>6, <1>7, <2>2, HeldBy
  <2> QED BY <2>1, <2>2
<1> QED BY <1>1, <1>8

LEMMA StoredHeld ==
  /\ Table(buckets, bucket_sizes, node, cell) => Stored = [k \in Keys |-> Held(node, cell, k)]
  /\ Table(buckets', bucket_sizes', node', cell') =>
       Stored' = [k \in Keys |-> Held(node', cell', k)]
PROOF
<1>1. ASSUME Table(buckets, bucket_sizes, node, cell), NEW k \in Keys
      PROVE  Lookup(k) = Held(node, cell, k)
  BY <1>1, LookupHeld, WalkIsWalkIn DEF Lookup, ListSearch, Found
<1>2. ASSUME Table(buckets', bucket_sizes', node', cell'), NEW k \in Keys
      PROVE  Lookup(k)' = Held(node', cell', k)
  BY <1>2, LookupHeld, WalkIsWalkIn DEF Lookup, ListSearch, Found
<1> QED BY <1>1, <1>2 DEF Stored

\* A key is in the store if and only if some node has it.
LEMMA StoredKey ==
  ASSUME TableInv, NEW k \in Keys
  PROVE  /\ Stored[k] = Absent <=> \A n \in DOMAIN node : node[n].key # k
         /\ \A n \in DOMAIN node : node[n].key = k => Stored[k] = cell[node[n].value]
PROOF
<1>1. /\ Table(buckets, bucket_sizes, node, cell) /\ KeysOnce(node) /\ Contents(cell)
      /\ Owns(node, cell)
  BY DEF TableInv, Table
<1>2. Stored[k] = Held(node, cell, k) BY <1>1, StoredHeld
<1>3. ASSUME NEW n \in DOMAIN node, node[n].key = k
      PROVE  Stored[k] = cell[node[n].value] /\ Stored[k] # Absent
  <2>1. Stored[k] = cell[node[n].value] BY <1>1, <1>2, <1>3, HeldBy
  <2>2. node[n].value \in DOMAIN cell BY <1>1 DEF Owns
  <2> QED BY <1>1, <2>1, <2>2, HashTableAssumption DEF Contents
<1>4. (\A n \in DOMAIN node : node[n].key # k) => Stored[k] = Absent BY <1>2 DEF Held
<1> QED BY <1>3, <1>4

LEMMA StoredStep ==
  ASSUME TableInv, NEW t \in Threads, Steps(t)
  PROVE  /\ UNCHANGED table => Stored' = Stored
         /\ \A v : Effect(t, v) => Stored' = [Stored EXCEPT ![req[t].key] = v]
PROOF
<1>1. /\ Stored = [k \in Keys |-> Held(node, cell, k)]
      /\ Stored' = [k \in Keys |-> Held(node', cell', k)]
  BY SafeStep, StoredHeld DEF TableInv, Safe
<1>2. UNCHANGED table => Stored' = Stored BY <1>1 DEF table
<1>3. ASSUME NEW v, Effect(t, v) PROVE Stored' = [Stored EXCEPT ![req[t].key] = v]
  BY <1>1, <1>3 DEF Effect
<1> QED BY <1>2, <1>3

\* The other threads' requests are as far as they were.
LEMMA CallsStep ==
  ASSUME TableInv, NEW t \in Threads, Steps(t)
  PROVE  Calls' = [Calls EXCEPT ![t] = Progress(t)']
PROOF
<1>1. Safe(t) /\ Changes(t) BY SafeStep, ChangesOf
<1>2. Table(buckets, bucket_sizes, node, cell) /\ Memory(node) /\ KeysOnce(node) /\ Requested
  BY DEF TableInv, Table
<1>3. Memory(node') BY <1>1 DEF Safe, Table
<1>4. ASSUME NEW u \in Threads, u # t PROVE Progress(u)' = Progress(u)
  <2>1. /\ pc'[u] = pc[u] /\ req'[u] = req[u] /\ head'[u] = head[u] /\ result'[u] = result[u]
        /\ value'[u] = value[u]
    BY <1>1, <1>4 DEF Changes
  <2>2. CASE pc[u] = "idle" BY <2>1, <2>2 DEF Progress
  <2>3. CASE pc[u] \in Early
    <3>1. PICK k : k = req[u].key OBVIOUS
    <3>2. PICK b : b = Bucket(u) OBVIOUS
    <3>3. b \in Buckets /\ Spares(u) BY <1>1, <1>2, <1>4, <2>3, <3>2, ServedRequest DEF Safe, Early
    <3>4. PICK h : h = head[u] OBVIOUS
    <3>5. h \in Placed(node, b) \cup {NULL} BY <2>3, <3>2, <3>4 DEF TableInv, HeadsLead
    <3>6. PICK s : IsChain(node, b, s) BY <1>2, <3>3 DEF Table, Stores
    <3>7. Grows(node, node', b) BY <3>2, <3>3 DEF Spares
    <3>8. WalkIn(node', h, k)[Cardinality(Nodes)] = WalkIn(node, h, k)[Cardinality(Nodes)]
      BY ONLY <1>2, <1>3, <3>5, <3>6, <3>7, SearchSame
    <3>9. ListSearch(head[u], req[u].key)' = ListSearch(head[u], req[u].key)
      BY <2>1, <3>1, <3>4, <3>8, WalkIsWalkIn DEF ListSearch
    <3> QED BY <2>1, <2>3, <3>9 DEF Progress, Early
  <2>4. CASE pc[u] # "idle" /\ pc[u] \notin Early
    <3>1. Spares(u) BY <1>1, <1>4, <2>4 DEF Safe
    <3>2. Response(u)' = Response(u)
      <4>1. CASE req[u].op = "READ" /\ result[u] = 1
        <5>1. pc[u] \in {"unlock", "answer"}
          BY <1>2, <2>4, <4>1 DEF TableInv, Locals, Requested, PCs, Holding, Early
        <5>2. PICK n \in DOMAIN node : node[n].key = req[u].key /\ value[u] = node[n].value
          BY <4>1, <5>1 DEF TableInv, ValuesStand
        <5>3. cell'[value[u]] = cell[value[u]] /\ n \in DOMAIN node' /\ value[u] = node'[n].value
          BY <3>1, <4>1, <5>2 DEF Spares
        <5>4. value[u] \in DOMAIN cell /\ value[u] \in DOMAIN cell'
          BY <1>1, <1>2, <5>2, <5>3 DEF Safe, Table, Owns
        <5> QED BY <2>1, <4>1, <5>3, <5>4 DEF Response, DanglingValue
      <4>2. CASE ~(req[u].op = "READ" /\ result[u] = 1)
        <5>1. result[u] \in {-1, 0, 1} BY DEF TableInv, Locals
        <5>2. req[u].op \in Ops BY <1>2, <2>4, ServedRequest, RequestKinds
        <5> QED BY <2>1, <4>2, <5>1, <5>2 DEF Response, Ops
      <4> QED BY <4>1, <4>2
    <3> QED BY <2>1, <2>4, <3>2 DEF Progress, Early
  <2> QED BY <2>2, <2>3, <2>4
<1> QED BY <1>4 DEF Calls

Pending(r) == [phase |-> "pending", req |-> r]
Decided(a) == [phase |-> "decided", answer |-> a]

\* The three ways in which a step of the table is one of the store.
LEMMA Arrives ==
  ASSUME NEW t \in Threads, NEW r \in Requests, Calls[t].phase = "idle",
         Calls' = [Calls EXCEPT ![t] = Progress(t)'],
         \/ Progress(t)' = Pending(r) /\ Stored' = Stored
         \/ /\ Progress(t)' = Decided(Store!Answer(r, Stored))
            /\ Stored' = Store!After(r, Stored)
  PROVE  Store!Next
PROOF
<1>1. Store!Arrive(t, r)
  BY DEF Store!Arrive, Store!Becomes, Stored, Calls, Pending, Decided
<1> QED BY <1>1 DEF Store!Next

LEMMA Decides ==
  ASSUME NEW t \in Threads, NEW r, Calls[t] = Pending(r),
         Calls' = [Calls EXCEPT ![t] = Progress(t)'],
         Progress(t)' = Decided(Store!Answer(r, Stored)), Stored' = Store!After(r, Stored)
  PROVE  Store!Next
PROOF
<1>1. Calls[t].phase = "pending" /\ Calls[t].req = r BY DEF Pending
<1>2. Store!Decide(t)
  BY <1>1 DEF Store!Decide, Store!Becomes, Stored, Calls, Decided
<1> QED BY <1>2 DEF Store!Next

LEMMA Fails ==
  ASSUME NEW t \in Threads, NEW r, Calls[t] = Pending(r) \/ Calls[t] = Decided("NOT FOUND"),
         Calls' = [Calls EXCEPT ![t] = Progress(t)'],
         Progress(t)' = Decided("INTERNAL ERR"), Stored' = Stored
  PROVE  Store!Next
PROOF
<1>1. \/ Calls[t].phase = "pending"
      \/ Calls[t].phase = "decided" /\ Calls[t].answer = "NOT FOUND"
  <2>1. PICK c : c = Calls[t] OBVIOUS
  <2>2. c = Pending(r) \/ c = Decided("NOT FOUND") BY <2>1
  <2>3. c.phase = "pending" \/ (c.phase = "decided" /\ c.answer = "NOT FOUND")
    <3>1. CASE c = Pending(r) BY <3>1 DEF Pending
    <3>2. CASE c = Decided("NOT FOUND") BY <3>2 DEF Decided
    <3> QED BY <2>2, <3>1, <3>2
  <2> QED BY <2>1, <2>3
<1>2. Store!Fail(t)
  BY <1>1 DEF Store!Fail, Store!Becomes, Stored, Calls, Decided
<1> QED BY <1>2 DEF Store!Next

LEMMA Stutters ==
  ASSUME NEW t \in Threads, Progress(t)' = Progress(t),
         Calls' = [Calls EXCEPT ![t] = Progress(t)'], Stored' = Stored
  PROVE  UNCHANGED Store!vars
PROOF
<1>1. Calls[t] = Progress(t) BY DEF Calls
<1>2. Calls' = Calls BY <1>1 DEF Calls
<1> QED BY <1>2 DEF Store!vars, Stored, Calls

\* A request is decided as it arrives when the head it reads leads to no node
\* with its key, and is pending otherwise.
LEMMA CallArrives ==
  ASSUME TableInv, NEW t \in Threads, Steps(t), Call(t), Calls' = [Calls EXCEPT ![t] = Progress(t)']
  PROVE  Store!Next
PROOF
<1>1. PICK r \in mix[t] : /\ req' = [req EXCEPT ![t] = r]
                          /\ head' = [head EXCEPT ![t] = buckets[Hash[r.key]]]
  BY DEF Call
<1>2. Requested /\ Locals /\ Table(buckets, bucket_sizes, node, cell) BY DEF TableInv
<1>3. /\ req'[t] = r /\ head'[t] = buckets[Hash[r.key]] /\ pc'[t] = "called" /\ pc[t] = "idle"
      /\ node' = node /\ UNCHANGED table
  BY <1>1, <1>2 DEF Call, GoTo, table, Requested, Locals
<1>4. r \in Requests /\ r.key \in Keys /\ Hash[r.key] \in Buckets
  BY <1>2, HashTableAssumption, RequestKinds DEF Requested
<1>5. Calls[t].phase = "idle" BY <1>3 DEF Calls, Progress
<1>6. Stored' = Stored BY <1>3, StoredStep
<1>7. PICK n : n = ListSearch(buckets[Hash[r.key]], r.key) OBVIOUS
<1>8. Progress(t)' = IF r.op # "CREATE" /\ n = NULL THEN Decided("NOT FOUND") ELSE Pending(r)
  <2>1. ListSearch(head[t], req[t].key)' = n BY <1>3, <1>7, WalkIsWalkIn DEF ListSearch
  <2> QED BY <1>3, <2>1 DEF Progress, Decided, Pending
<1>9. CASE ~(r.op # "CREATE" /\ n = NULL)
  <2>1. Progress(t)' = Pending(r) BY <1>8, <1>9
  <2> QED BY <1>4, <1>5, <1>6, <2>1, Arrives
<1>10. CASE r.op # "CREATE" /\ n = NULL
  <2>1. PICK h : h = buckets[Hash[r.key]] OBVIOUS
  <2>2. PICK k : k = r.key OBVIOUS
  <2>3. h \in Placed(node, Hash[k]) \cup {NULL} /\ k \in Keys /\ h = buckets[Hash[k]]
    BY <1>2, <1>4, <2>1, <2>2, FirstLeads
  <2>4. LET x == WalkIn(node, h, k)[Cardinality(Nodes)] IN
          /\ x = NULL \/ (x \in DOMAIN node /\ node[x].key = k)
          /\ h = buckets[Hash[k]] /\ x = NULL => \A m \in DOMAIN node : node[m].key # k
    BY ONLY <1>2, <2>3, SearchFinds
  <2>5. \A m \in DOMAIN node : node[m].key # k
    BY <1>7, <1>10, <2>1, <2>2, <2>3, <2>4, WalkIsWalkIn DEF ListSearch
  <2>6. Stored[k] = Absent BY <2>3, <2>5, StoredKey
  <2>7. Store!Answer(r, Stored) = "NOT FOUND" /\ Store!After(r, Stored) = Stored
    BY <1>10, <2>2, <2>6 DEF Store!Answer, Store!After
  <2>8. Progress(t)' = Decided(Store!Answer(r, Stored)) /\ Stored' = Store!After(r, Stored)
    BY <1>6, <1>8, <1>10, <2>7
  <2> QED BY <1>4, <1>5, <2>8, Arrives
<1> QED BY <1>9, <1>10

\* What t's request looks like to its client before and after it works on the
\* chain.
LEMMA AtWork ==
  ASSUME TableInv, NEW t \in Threads, Steps(t), pc[t] = "apply"
  PROVE  /\ Calls[t] = IF req[t].op # "CREATE" /\ found[t] = NULL THEN Decided("NOT FOUND")
                       ELSE Pending(req[t])
         /\ req' = req /\ pc'[t] \in {"load", "unlock"} => Progress(t)' = Decided(Response(t)')
         /\ result'[t] = -1 => Response(t)' = "INTERNAL ERR"
         /\ result'[t] = 0 /\ req' = req =>
              Response(t)' = IF req[t].op = "CREATE" THEN "COLLISION" ELSE "NOT FOUND"
PROOF
<1>1. found[t] = ListSearch(head[t], req[t].key) BY DEF TableInv, FindsStand
<1>2. Calls[t] = Progress(t) BY DEF Calls
<1>3. Progress(t) = IF req[t].op # "CREATE" /\ found[t] = NULL THEN Decided("NOT FOUND")
                    ELSE Pending(req[t])
  BY <1>1 DEF Progress, Decided, Pending
<1>4. pc'[t] \in {"load", "unlock"} => Progress(t)' = Decided(Response(t)')
  BY DEF Progress, Decided
<1>5. ASSUME result'[t] = -1 PROVE Response(t)' = "INTERNAL ERR" BY <1>5 DEF Response
<1>6. ASSUME result'[t] = 0, req' = req
      PROVE  Response(t)' = IF req[t].op = "CREATE" THEN "COLLISION" ELSE "NOT FOUND"
  <2>1. result'[t] # -1 BY <1>6
  <2> QED BY <1>6, <2>1 DEF Response
<1> QED BY <1>2, <1>3, <1>4, <1>5, <1>6

\* A request that is given up for want of memory fails; one that missed its key
\* was decided already, and stays so.
LEMMA GivesUp ==
  ASSUME TableInv, NEW t \in Threads, Steps(t), pc[t] = "apply", NEW r, Fruitless(t, r),
         r = -1 \/ (r = 0 /\ found[t] = NULL /\ req[t].op # "CREATE"),
         Calls' = [Calls EXCEPT ![t] = Progress(t)']
  PROVE  Store!Next \/ UNCHANGED Store!vars
PROOF
<1>1. Requested /\ Locals BY DEF TableInv
<1>2. result'[t] = r /\ pc'[t] = "unlock" /\ req' = req /\ UNCHANGED table
  BY <1>1 DEF Fruitless, Returns, GoTo, Requested, Locals
<1>3. Stored' = Stored BY <1>2, StoredStep
<1>4. Progress(t)' = Decided(Response(t)') BY <1>2, AtWork
<1>5. CASE r = -1
  <2>1. Progress(t)' = Decided("INTERNAL ERR") BY <1>2, <1>4, <1>5, AtWork
  <2>2. Calls[t] = Pending(req[t]) \/ Calls[t] = Decided("NOT FOUND") BY AtWork
  <2> QED BY <1>3, <2>1, <2>2, Fails
<1>6. CASE r = 0 /\ found[t] = NULL /\ req[t].op # "CREATE"
  <2>1. Progress(t)' = Decided("NOT FOUND") BY <1>2, <1>4, <1>6, AtWork
  <2>2. Calls[t] = Decided("NOT FOUND") BY <1>6, AtWork
  <2>3. Calls[t] = Progress(t) BY DEF Calls
  <2> QED BY <1>3, <2>1, <2>2, <2>3, Stutters
<1> QED BY <1>5, <1>6

LEMMA InsertDecides ==
  ASSUME TableInv, NEW t \in Threads, Steps(t), Insert(t),
         Calls' = [Calls EXCEPT ![t] = Progress(t)']
  PROVE  Store!Next \/ UNCHANGED Store!vars
PROOF
<1>0. Requested /\ Locals BY DEF TableInv
<1>1. pc[t] = "apply" /\ req[t].op = "CREATE" /\ req' = req
  BY DEF Insert, Finds, Misses, Fruitless, Counts
<1>2. Calls[t] = Pending(req[t]) BY <1>1, AtWork
<1>3. req[t].key \in Keys /\ req[t] \in Requests BY <1>1, AtApply
<1>4. CASE Finds(t, "CREATE") /\ Fruitless(t, 0)
  <2>1. result'[t] = 0 /\ pc'[t] = "unlock" /\ UNCHANGED table
    BY <1>0, <1>4 DEF Fruitless, Returns, GoTo, Requested, Locals
  <2>2. Progress(t)' = Decided("COLLISION") BY <1>1, <2>1, AtWork
  <2>3. found[t] \in DOMAIN node /\ node[found[t]].key = req[t].key
    BY <1>1, <1>4, AtApply DEF Finds
  <2>4. Stored[req[t].key] # Absent BY <1>3, <2>3, StoredKey
  <2>5. Store!Answer(req[t], Stored) = "COLLISION" /\ Store!After(req[t], Stored) = Stored
    BY <1>1, <2>4 DEF Store!Answer, Store!After
  <2>6. Stored' = Stored BY <2>1, StoredStep
  <2> QED BY <1>2, <2>2, <2>5, <2>6, Decides
<1>5. CASE Fruitless(t, -1) BY <1>1, <1>5, GivesUp
<1>6. CASE Misses(t, "CREATE") /\ Counts(t, 1)
  <2>1. result'[t] = 1 /\ pc'[t] = "load"
    BY <1>0, <1>6 DEF Counts, GoTo, Requested, Locals
  <2>2. Response(t)' = "CREATE OK"
    <3>1. /\ req'[t].op = "CREATE" /\ result'[t] # -1 /\ result'[t] # 0
          /\ req'[t].op # "READ"
      BY <1>1, <2>1
    <3> QED BY <3>1 DEF Response
  <2>3. Progress(t)' = Decided("CREATE OK") BY <1>1, <2>1, <2>2, AtWork
  <2>4. Stored[req[t].key] = Absent BY <1>1, <1>3, <1>6, AtApply, StoredKey DEF Misses
  <2>5. /\ Store!Answer(req[t], Stored) = "CREATE OK"
        /\ Store!After(req[t], Stored) = [Stored EXCEPT ![req[t].key] = req[t].val]
    BY <1>1, <2>4 DEF Store!Answer, Store!After
  <2>6. Stored' = [Stored EXCEPT ![req[t].key] = req[t].val]
    BY <2>1, SafeInsert, StoredStep
  <2> QED BY <1>2, <2>3, <2>5, <2>6, Decides
<1> QED BY <1>4, <1>5, <1>6 DEF Insert

LEMMA UpdateDecides ==
  ASSUME TableInv, NEW t \in Threads, Steps(t), Update(t),
         Calls' = [Calls EXCEPT ![t] = Progress(t)']
  PROVE  Store!Next \/ UNCHANGED Store!vars
PROOF
<1>0. Requested /\ Locals BY DEF TableInv
<1>1. pc[t] = "apply" /\ req[t].op = "UPDATE" /\ req' = req
  BY DEF Update, Finds, Misses, Fruitless
<1>2. req[t].key \in Keys /\ NULL \notin DOMAIN node BY <1>1, AtApply
<1>3. CASE Misses(t, "UPDATE") /\ Fruitless(t, 0) BY <1>1, <1>3, GivesUp DEF Misses
<1>4. CASE Fruitless(t, -1) BY <1>1, <1>4, GivesUp
<1>5. CASE Finds(t, "UPDATE") /\ Returns(t, 1)
  <2>1. result'[t] = 1 /\ pc'[t] = "unlock"
    BY <1>0, <1>5 DEF Returns, GoTo, Requested, Locals
  <2>2. Response(t)' = "UPDATE OK"
    <3>1. /\ req'[t].op = "UPDATE" /\ result'[t] # -1 /\ result'[t] # 0
          /\ req'[t].op # "READ" /\ req'[t].op # "CREATE"
      BY <1>1, <2>1
    <3> QED BY <3>1 DEF Response
  <2>3. Progress(t)' = Decided("UPDATE OK") BY <1>1, <2>1, <2>2, AtWork
  <2>4. found[t] \in DOMAIN node /\ node[found[t]].key = req[t].key /\ found[t] # NULL
    BY <1>1, <1>2, <1>5, AtApply DEF Finds
  <2>5. Stored[req[t].key] # Absent BY <1>2, <2>4, StoredKey
  <2>6. /\ Store!Answer(req[t], Stored) = "UPDATE OK"
        /\ Store!After(req[t], Stored) = [Stored EXCEPT ![req[t].key] = req[t].val]
    BY <1>1, <2>5 DEF Store!Answer, Store!After
  <2>7. Stored' = [Stored EXCEPT ![req[t].key] = req[t].val]
    BY <2>1, SafeUpdate, StoredStep
  <2>8. Calls[t] = Pending(req[t]) BY <1>1, <2>4, AtWork
  <2> QED BY <2>3, <2>6, <2>7, <2>8, Decides
<1> QED BY <1>3, <1>4, <1>5 DEF Update

LEMMA DeleteDecides ==
  ASSUME TableInv, NEW t \in Threads, Steps(t), Delete(t),
         Calls' = [Calls EXCEPT ![t] = Progress(t)']
  PROVE  Store!Next \/ UNCHANGED Store!vars
PROOF
<1>0. Requested /\ Locals BY DEF TableInv
<1>1. pc[t] = "apply" /\ req[t].op = "DELETE" /\ req' = req
  BY DEF Delete, Finds, Misses, Fruitless, Counts
<1>2. req[t].key \in Keys /\ NULL \notin DOMAIN node BY <1>1, AtApply
<1>3. CASE Misses(t, "DELETE") /\ Fruitless(t, 0) BY <1>1, <1>3, GivesUp DEF Misses
<1>4. CASE Finds(t, "DELETE") /\ Counts(t, -1)
  <2>1. result'[t] = 1 /\ pc'[t] = "load"
    BY <1>0, <1>4 DEF Counts, GoTo, Requested, Locals
  <2>2. Response(t)' = "DELETE OK"
    <3>1. /\ req'[t].op = "DELETE" /\ result'[t] # -1 /\ result'[t] # 0
          /\ req'[t].op # "READ" /\ req'[t].op # "CREATE" /\ req'[t].op # "UPDATE"
      BY <1>1, <2>1
    <3> QED BY <3>1 DEF Response
  <2>3. Progress(t)' = Decided("DELETE OK") BY <1>1, <2>1, <2>2, AtWork
  <2>4. found[t] \in DOMAIN node /\ node[found[t]].key = req[t].key /\ found[t] # NULL
    BY <1>1, <1>2, <1>4, AtApply DEF Finds
  <2>5. Stored[req[t].key] # Absent BY <1>2, <2>4, StoredKey
  <2>6. /\ Store!Answer(req[t], Stored) = "DELETE OK"
        /\ Store!After(req[t], Stored) = [Stored EXCEPT ![req[t].key] = Absent]
    BY <1>1, <2>5 DEF Store!Answer, Store!After
  <2>7. Stored' = [Stored EXCEPT ![req[t].key] = Absent] BY <2>1, SafeDelete, StoredStep
  <2>8. Calls[t] = Pending(req[t]) BY <1>1, <2>4, AtWork
  <2> QED BY <2>3, <2>6, <2>7, <2>8, Decides
<1> QED BY <1>3, <1>4 DEF Delete

LEMMA SearchDecides ==
  ASSUME TableInv, NEW t \in Threads, Steps(t), Search(t),
         Calls' = [Calls EXCEPT ![t] = Progress(t)']
  PROVE  Store!Next \/ UNCHANGED Store!vars
PROOF
<1>0. Requested /\ Locals BY DEF TableInv
<1>1. pc[t] = "apply" /\ req[t].op = "READ" /\ req' = req
  BY DEF Search, Finds, Misses, Fruitless
<1>2. req[t].key \in Keys /\ NULL \notin DOMAIN node BY <1>1, AtApply
<1>3. CASE Misses(t, "READ") /\ Fruitless(t, 0) BY <1>1, <1>3, GivesUp DEF Misses
<1>4. CASE /\ Finds(t, "READ")
           /\ value' = [value EXCEPT ![t] = node[found[t]].value]
           /\ Returns(t, 1)
           /\ UNCHANGED <<table, total_entries, req, head, found, loaded, queue>>
  <2>1. /\ result'[t] = 1 /\ pc'[t] = "unlock" /\ value'[t] = node[found[t]].value
        /\ UNCHANGED table /\ cell' = cell
    BY <1>0, <1>4 DEF Returns, GoTo, Requested, Locals, table
  <2>2. found[t] \in DOMAIN node /\ node[found[t]].key = req[t].key /\ found[t] # NULL
    BY <1>1, <1>2, <1>4, AtApply DEF Finds
  <2>3. /\ Stored[req[t].key] # Absent
        /\ Stored[req[t].key] = cell[node[found[t]].value]
    BY <1>2, <2>2, StoredKey
  <2>4. node[found[t]].value \in DOMAIN cell BY <2>2 DEF TableInv, Table, Owns
  <2>5. Response(t)' = Stored[req[t].key]
    <3>1. ~DanglingValue(t)' BY <2>1, <2>4 DEF DanglingValue
    <3> QED BY <1>1, <2>1, <2>3, <3>1 DEF Response
  <2>6. Progress(t)' = Decided(Stored[req[t].key]) BY <1>1, <2>1, <2>5, AtWork
  <2>7. /\ Store!Answer(req[t], Stored) = Stored[req[t].key]
        /\ Store!After(req[t], Stored) = Stored
    BY <1>1, <2>3 DEF Store!Answer, Store!After
  <2>8. Stored' = Stored BY <2>1, StoredStep
  <2>9. Calls[t] = Pending(req[t]) BY <1>1, <2>2, AtWork
  <2> QED BY <2>6, <2>7, <2>8, <2>9, Decides
<1> QED BY <1>3, <1>4 DEF Search

\* Waiting for the lock, searching, counting and unlocking do not show.
LEMMA QuietSteps ==
  ASSUME TableInv, NEW t \in Threads, Steps(t), Calls' = [Calls EXCEPT ![t] = Progress(t)'],
         \/ ReadLock(t) \/ ReadGranted(t) \/ WriteLock(t) \/ WriteGranted(t) \/ Find(t)
         \/ LoadTotal(t) \/ StoreTotal(t) \/ Unlock(t)
  PROVE  UNCHANGED Store!vars
PROOF
<1>0. Requested /\ Locals BY DEF TableInv
<1>1. /\ UNCHANGED table /\ req' = req /\ head' = head /\ result' = result /\ value' = value
      /\ \/ pc[t] \in Early /\ pc'[t] \in Early
         \/ pc[t] \notin Early /\ pc'[t] \notin Early /\ pc[t] # "idle" /\ pc'[t] # "idle"
  <2>0. pc \in [Threads -> PCs] BY <1>0 DEF Requested
  <2> USE DEF GoTo, locals, Early
  <2>1. CASE ReadLock(t) \/ ReadGranted(t) BY <2>0, <2>1 DEF ReadLock, ReadGranted
  <2>2. CASE WriteLock(t) \/ WriteGranted(t) BY <2>0, <2>2 DEF WriteLock, WriteGranted
  <2>3. CASE Find(t) \/ Unlock(t) BY <2>0, <2>3 DEF Find, Unlock
  <2>4. CASE LoadTotal(t) \/ StoreTotal(t) BY <2>0, <2>4 DEF LoadTotal, StoreTotal
  <2> QED BY <2>1, <2>2, <2>3, <2>4
<1>2. Stored' = Stored BY <1>1, StoredStep
<1>3. Progress(t)' = Progress(t)
  <2>1. node' = node /\ cell' = cell BY <1>1 DEF table
  <2>2. ListSearch(head[t], req[t].key)' = ListSearch(head[t], req[t].key)
    BY <1>1, <2>1, WalkIsWalkIn DEF ListSearch
  <2>3. Response(t)' = Response(t) BY <1>1, <2>1 DEF Response, DanglingValue
  <2> QED BY <1>1, <2>2, <2>3 DEF Progress, Early
<1> QED BY <1>2, <1>3, Stutters

LEMMA RefusalFails ==
  ASSUME TableInv, NEW t \in Threads, Steps(t), WriteRefused(t),
         Calls' = [Calls EXCEPT ![t] = Progress(t)']
  PROVE  Store!Next
PROOF
<1>0. Requested /\ Locals BY DEF TableInv
<1>1. /\ pc[t] = "called" /\ pc'[t] = "refused" /\ result'[t] = -1 /\ UNCHANGED table
  BY <1>0 DEF WriteRefused, GoTo, Requested, Locals
<1>2. Stored' = Stored BY <1>1, StoredStep
<1>3. Calls[t] = Pending(req[t]) \/ Calls[t] = Decided("NOT FOUND")
  <2>1. Calls[t] = Progress(t) BY DEF Calls
  <2>2. Progress(t) = IF req[t].op # "CREATE" /\ ListSearch(head[t], req[t].key) = NULL
                      THEN Decided("NOT FOUND") ELSE Pending(req[t])
    BY <1>1 DEF Progress, Decided, Pending
  <2> QED BY <2>1, <2>2
<1>4. Response(t)' = "INTERNAL ERR" BY <1>1 DEF Response
<1>5. Progress(t)' = Decided("INTERNAL ERR") BY <1>1, <1>4 DEF Progress, Decided
<1> QED BY <1>2, <1>3, <1>5, Fails

LEMMA ReplyReplies ==
  ASSUME TableInv, NEW t \in Threads, Steps(t), Reply(t),
         Calls' = [Calls EXCEPT ![t] = Progress(t)']
  PROVE  Store!Next
PROOF
<1>0. Requested BY DEF TableInv
<1>1. pc[t] \in {"answer", "refused"} /\ pc'[t] = "idle" /\ UNCHANGED table
  BY <1>0 DEF Reply, GoTo, Requested
<1>2. Stored' = Stored BY <1>1, StoredStep
<1>3. Calls[t].phase = "decided" BY <1>1 DEF Calls, Progress
<1>4. Progress(t)' = [phase |-> "idle"] BY <1>1 DEF Progress
<1>5. Store!Reply(t) BY <1>2, <1>3, <1>4 DEF Store!Reply, Store!Becomes, Calls, Stored
<1> QED BY <1>5 DEF Store!Next

LEMMA StoreStep ==
  ASSUME TableInv, [Next]_vars
  PROVE  Store!Next \/ UNCHANGED Store!vars
PROOF
<1>1. CASE UNCHANGED vars
  BY <1>1 DEF vars, table, locals, Store!vars, Lookup, ListSearch, Walk, Found, Progress,
              Response, DanglingValue
<1>2. ASSUME NEW t \in Threads, Steps(t) PROVE Store!Next \/ UNCHANGED Store!vars
  <2>1. Calls' = [Calls EXCEPT ![t] = Progress(t)'] BY <1>2, CallsStep
  <2>2. CASE Call(t) BY <1>2, <2>1, <2>2, CallArrives
  <2>3. CASE \/ ReadLock(t) \/ ReadGranted(t) \/ WriteLock(t) \/ WriteGranted(t) \/ Find(t)
             \/ LoadTotal(t) \/ StoreTotal(t) \/ Unlock(t)
    BY <1>2, <2>1, <2>3, QuietSteps
  <2>4. CASE WriteRefused(t) BY <1>2, <2>1, <2>4, RefusalFails
  <2>5. CASE Insert(t) BY <1>2, <2>1, <2>5, InsertDecides
  <2>6. CASE Update(t) BY <1>2, <2>1, <2>6, UpdateDecides
  <2>7. CASE Delete(t) BY <1>2, <2>1, <2>7, DeleteDecides
  <2>8. CASE Search(t) BY <1>2, <2>1, <2>8, SearchDecides
  <2>9. CASE Reply(t) BY <1>2, <2>1, <2>9, ReplyReplies
  <2> QED BY <1>2, <2>2, <2>3, <2>4, <2>5, <2>6, <2>7, <2>8, <2>9 DEF Steps, Defined
<1> QED BY <1>1, <1>2 DEF Next, Steps

LEMMA StoreInitially ==
  ASSUME Init, Orderly(mix)
  PROVE  Store!Init
PROOF
<1>1. TableInv BY TableInitially
<1>2. \A k \in Keys : Stored[k] = Absent
  <2>1. DOMAIN node = {} BY DEF Init
  <2> QED BY <1>1, <2>1, StoredKey
<1>3. Calls \in [Threads -> [phase : {"idle"}]] BY DEF Init, Calls, Progress
<1>4. Stored = [k \in Keys |-> Absent] BY <1>2 DEF Stored
<1> QED BY <1>3, <1>4 DEF Store!Init, Stored, Calls

\* The table is linearizable: with clients whose requests it can keep apart, each
\* request takes effect at one moment between its call and its answer, and is
\* answered by what the store held at that moment, although heads are read before
\* the locks are granted, values are copied after they are released, and memory is
\* used again.
THEOREM TableIsAStore == Spec /\ Orderly(mix) => ImplementsStore
PROOF
<1>1. Init /\ Orderly(mix) => TableInv /\ Store!Init BY TableInitially, StoreInitially
<1>2. TableInv /\ [Next]_vars => TableInv' BY TableInvStep
<1>3. TableInv /\ [Next]_vars => [Store!Next]_(Store!vars) BY StoreStep
<1>4. Spec /\ Orderly(mix) => Store!Init /\ [][Store!Next]_(Store!vars)
  BY <1>1, <1>2, <1>3, PTL DEF Spec
<1> QED BY <1>4 DEF ImplementsStore, Store!Spec
=============================================================================
