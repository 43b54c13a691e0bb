---------------------------- MODULE RWLockProof ----------------------------
(***************************************************************************)
(* Safety of the reader-writer lock, and of the version before it, for any *)
(* finite set of threads and any ring size, and, from there on, that the   *)
(* lock implements its promise RWLockSpec.  The inductive invariant        *)
(* LockInv joins the properties of RWLock with Exclusion, which says what  *)
(* the counters allow: each property needs the others.  The exclusion      *)
(* rests on the counters being right, the wake-up of a sleeping writer on  *)
(* the ring: the thread at its head is a waiting writer, so when nobody    *)
(* sleeps any more that one is awake.  The two versions differ in whom     *)
(* read_count counts, which is the parameter of LockInv: the functions     *)
(* they share keep it for both.                                            *)
(***************************************************************************)
EXTENDS EarlierRWLock, FiniteSetTheorems, TLAPS

Exclusion == /\ write_count <= 1
             /\ write_count > 0 => At({"reading"}) = {}

Queued == {"wwait", "wwoken"}

In(p, S) == {t \in Threads : p[t] \in S}

\* Whom read_count counts: readers from their request on, or, in the earlier
\* version, those inside.
Counted     == {"rwait", "rwoken", "reading"}
CountedSets == {Counted, {"reading"}}

Agree(S) == /\ read_count = Cardinality(In(pc, S))
            /\ write_count = Cardinality(In(pc, {"writing"}))

LockInv(S) == TypeOK /\ Agree(S) /\ Exclusion /\ RingHoldsWaiters /\ NoLostWakeup

IInv       == LockInv(Counted)
EarlierInv == LockInv({"reading"})
-----------------------------------------------------------------------------
(* The ring: what enqueuing at the tail and dequeuing at the head do to the *)
(* set of threads it holds.                                                 *)

Used(h, t) == {i \in Slots : IF h <= t THEN h <= i /\ i < t
                                       ELSE h <= i \/ i < t}

Holds(slots, h, t, W) ==
  /\ \A i \in Used(h, t) : slots[i] \in W
  /\ \A w \in W : \E i \in Used(h, t) : slots[i] = w
  /\ \A i, j \in Used(h, t) : slots[i] = slots[j] => i = j

\* The successor of a slot, without the remainder.
LEMMA NextSlotValue ==
  ASSUME NEW i \in Slots
  PROVE  /\ NextSlot(i) \in Slots
         /\ NextSlot(i) = IF i + 1 = RingSize THEN 0 ELSE i + 1
BY RWLockAssumption, SMTT(30) DEF NextSlot, Slots

\* The slot in front of a full ring's head is the only one never filled:
\* a thread put at the tail of any other ring joins those it holds.
LEMMA Enqueue ==
  ASSUME NEW s \in [Slots -> Threads \cup {NoThread}],
         NEW h \in Slots, NEW t \in Slots, NEW W,
         Holds(s, h, t, W), NEW u \in Threads, u \notin W, NextSlot(t) # h
  PROVE  Holds([s EXCEPT ![t] = u], h, NextSlot(t), W \cup {u})
<1> DEFINE r == [s EXCEPT ![t] = u]
<1>1. Used(h, NextSlot(t)) = Used(h, t) \cup {t}
  <2> DEFINE n == NextSlot(t)
  <2>1. n \in Slots /\ n = IF t + 1 = RingSize THEN 0 ELSE t + 1
    BY NextSlotValue
  <2>2. n # h
    OBVIOUS
  <2> HIDE DEF n
  <2>3. ASSUME NEW i \in Slots
        PROVE  i \in Used(h, n) <=> i \in Used(h, t) \/ i = t
    BY <2>1, <2>2, RWLockAssumption DEF Used, Slots
  <2>4. Used(h, n) \subseteq Slots /\ Used(h, t) \subseteq Slots
    BY DEF Used
  <2> QED
    BY <2>3, <2>4 DEF n
<1>2. t \notin Used(h, t)
  BY RWLockAssumption DEF Used, Slots
<1>3. /\ r[t] = u
      /\ \A i \in Used(h, t) : r[i] = s[i]
  BY <1>2 DEF Used
<1> QED
  BY <1>1, <1>2, <1>3 DEF Holds

\* Moving the head past the thread it points at removes just that thread.
LEMMA Dequeue ==
  ASSUME NEW s, NEW h \in Slots, NEW t \in Slots, NEW W,
         Holds(s, h, t, W), NEW u \in W, s[h] = u
  PROVE  Holds(s, NextSlot(h), t, W \ {u})
<1>1. h # t
  BY RWLockAssumption DEF Holds, Used, Slots
<1>2. /\ h \in Used(h, t)
      /\ Used(NextSlot(h), t) = Used(h, t) \ {h}
  BY <1>1, NextSlotValue, RWLockAssumption DEF Used, Slots
<1> QED
  BY <1>2 DEF Holds

LEMMA RingIsHolds ==
  /\ RingHoldsWaiters <=>
       Holds(writer_ring, writer_ring_head, writer_ring_tail, In(pc, Queued))
  /\ RingHoldsWaiters' <=>
       Holds(writer_ring', writer_ring_head', writer_ring_tail',
             In(pc', Queued))
<1>1. /\ UsedSlots = Used(writer_ring_head, writer_ring_tail)
      /\ UsedSlots' = Used(writer_ring_head', writer_ring_tail')
  BY DEF UsedSlots, InUse, Used
<1>2. /\ In(pc, Queued) = At({"wwait", "wwoken"})
      /\ In(pc', Queued) = At({"wwait", "wwoken"})'
  BY DEF In, At, Queued
<1> QED
  BY <1>1, <1>2 DEF RingHoldsWaiters, Holds

\* A queue that holds somebody has a waiting writer at its head.
LEMMA HeadWaits ==
  ASSUME NEW s, NEW h \in Slots, NEW t \in Slots, NEW W, Holds(s, h, t, W)
  PROVE  /\ W # {} => s[h] \in W
         /\ W = {} => h = t
<1>1. h # t => h \in Used(h, t)
  BY RWLockAssumption DEF Used, Slots
<1>2. h = t => Used(h, t) = {}
  BY RWLockAssumption DEF Used, Slots
<1> QED
  BY <1>1, <1>2 DEF Holds
-----------------------------------------------------------------------------
(* Signals move sleepers to the awake and touch nobody else. *)

LEMMA SignalWriters ==
  ASSUME NEW p \in [Threads -> PCs], NEW q \in AfterSignalWriters(p)
  PROVE  /\ q \in [Threads -> PCs]
         /\ \A u \in Threads :
              q[u] = p[u] \/ (p[u] = "wwait" /\ q[u] = "wwoken")
         /\ In(p, {"wwait"}) # {} =>
              \E u \in Threads : p[u] = "wwait" /\ q[u] = "wwoken"
<1>1. CASE In(p, {"wwait"}) = {}
  <2>1. q = p
    BY <1>1 DEF AfterSignalWriters, In
  <2> QED
    BY <1>1, <2>1
<1>2. CASE In(p, {"wwait"}) # {}
  <2>1. PICK u \in Threads : p[u] = "wwait" /\ q = [p EXCEPT ![u] = "wwoken"]
    BY <1>2 DEF AfterSignalWriters, In
  <2> QED
    BY <2>1 DEF PCs, In
<1> QED
  BY <1>1, <1>2

LEMMA BroadcastReaders ==
  ASSUME NEW p \in [Threads -> PCs]
  PROVE  LET q == AfterBroadcastReaders(p) IN
         /\ q \in [Threads -> PCs]
         /\ \A u \in Threads :
              q[u] = IF p[u] = "rwait" THEN "rwoken" ELSE p[u]
BY DEF AfterBroadcastReaders, PCs
-----------------------------------------------------------------------------
(* Counting: a set of threads that gains or loses one. *)

LEMMA FiniteIn ==
  ASSUME NEW p, NEW S
  PROVE  /\ IsFiniteSet(In(p, S))
         /\ Cardinality(In(p, S)) \in Nat
         /\ Cardinality(In(p, S)) = 0 <=> In(p, S) = {}
<1>1. IsFiniteSet(In(p, S))
  BY RWLockAssumption, FS_Subset DEF In
<1> QED
  BY <1>1, FS_CardinalityType, FS_EmptySet

\* What one step does to the program counters: thread t moves, of the others
\* at most some sleepers wake.
Moves(p, q, t) == \A u \in Threads \ {t} :
  \/ q[u] = p[u]
  \/ p[u] = "wwait" /\ q[u] = "wwoken"
  \/ p[u] = "rwait" /\ q[u] = "rwoken"

\* None of the sets the invariant counts tells a sleeper from an awake waiter,
\* so only t enters or leaves one.
LEMMA OnlyOneMoves ==
  ASSUME NEW p, NEW q, NEW t \in Threads, Moves(p, q, t),
         NEW S \in {Counted, Queued, {"writing"}, {"reading"}}
  PROVE  /\ In(q, S) = IF q[t] \in S THEN In(p, S) \cup {t}
                                     ELSE In(p, S) \ {t}
         /\ Cardinality(In(q, S)) = Cardinality(In(p, S)) +
              CASE q[t] \in S /\ p[t] \notin S -> 1
                [] q[t] \notin S /\ p[t] \in S -> -1
                [] OTHER -> 0
<1>1. In(q, S) = IF q[t] \in S THEN In(p, S) \cup {t} ELSE In(p, S) \ {t}
  BY DEF In, Moves, Counted, Queued
<1>2. t \in In(p, S) <=> p[t] \in S
  BY DEF In
<1>3. IsFiniteSet(In(p, S)) /\ Cardinality(In(p, S)) \in Nat
  BY FiniteIn
<1>4. /\ Cardinality(In(p, S) \cup {t}) =
           IF p[t] \in S THEN Cardinality(In(p, S))
                         ELSE Cardinality(In(p, S)) + 1
      /\ Cardinality(In(p, S) \ {t}) =
           IF p[t] \in S THEN Cardinality(In(p, S)) - 1
                         ELSE Cardinality(In(p, S))
  BY <1>2, <1>3, FS_AddElement, FS_RemoveElement
<1> QED
  BY <1>1, <1>3, <1>4

\* The same, for each of those sets.
LEMMA CountersMove ==
  ASSUME NEW p, NEW q, NEW t \in Threads, Moves(p, q, t)
  PROVE  /\ In(q, {"reading"}) \subseteq In(p, {"reading"}) \cup {t}
         /\ q[t] # "reading" => t \notin In(q, {"reading"})
         /\ In(q, Queued) = IF q[t] \in Queued THEN In(p, Queued) \cup {t}
                                               ELSE In(p, Queued) \ {t}
         /\ Cardinality(In(q, Counted)) = Cardinality(In(p, Counted)) +
              CASE q[t] \in Counted /\ p[t] \notin Counted -> 1
                [] q[t] \notin Counted /\ p[t] \in Counted -> -1
                [] OTHER -> 0
         /\ Cardinality(In(q, {"writing"})) = Cardinality(In(p, {"writing"})) +
              CASE q[t] = "writing" /\ p[t] # "writing" -> 1
                [] q[t] # "writing" /\ p[t] = "writing" -> -1
                [] OTHER -> 0
<1>1. /\ In(q, {"reading"}) \subseteq In(p, {"reading"}) \cup {t}
      /\ q[t] # "reading" => t \notin In(q, {"reading"})
  BY DEF In, Moves
<1>2. In(q, Queued) = IF q[t] \in Queued THEN In(p, Queued) \cup {t}
                                         ELSE In(p, Queued) \ {t}
  BY OnlyOneMoves
<1> DEFINE S == {"writing"}
<1>3. Cardinality(In(q, S)) = Cardinality(In(p, S)) +
              CASE q[t] \in S /\ p[t] \notin S -> 1
                [] q[t] \notin S /\ p[t] \in S -> -1
                [] OTHER -> 0
  BY OnlyOneMoves
<1>4. Cardinality(In(q, Counted)) = Cardinality(In(p, Counted)) +
              CASE q[t] \in Counted /\ p[t] \notin Counted -> 1
                [] q[t] \notin Counted /\ p[t] \in Counted -> -1
                [] OTHER -> 0
  BY OnlyOneMoves
<1> QED
  BY <1>1, <1>2, <1>3, <1>4

\* The readers counted, in either version.
LEMMA ReadersMove ==
  ASSUME NEW p, NEW q, NEW t \in Threads, Moves(p, q, t), NEW S \in CountedSets
  PROVE  Cardinality(In(q, S)) = Cardinality(In(p, S)) +
           CASE q[t] \in S /\ p[t] \notin S -> 1
             [] q[t] \notin S /\ p[t] \in S -> -1
             [] OTHER -> 0
<1> DEFINE R == {"reading"}
<1>1. Cardinality(In(q, R)) = Cardinality(In(p, R)) +
           CASE q[t] \in R /\ p[t] \notin R -> 1
             [] q[t] \notin R /\ p[t] \in R -> -1
             [] OTHER -> 0
  BY OnlyOneMoves
<1>2. Cardinality(In(q, Counted)) = Cardinality(In(p, Counted)) +
           CASE q[t] \in Counted /\ p[t] \notin Counted -> 1
             [] q[t] \notin Counted /\ p[t] \in Counted -> -1
             [] OTHER -> 0
  BY CountersMove
<1>3. CASE S = Counted
  BY <1>2, <1>3
<1>4. CASE S = R
  <2> HIDE DEF R
  <2> QED
    BY <1>1, <1>4
<1> QED
  BY <1>3, <1>4 DEF CountedSets

LEMMA WhoCounts ==
  ASSUME NEW S \in CountedSets
  PROVE  /\ "reading" \in S
         /\ \A x \in {"idle", "failed", "wwait", "wwoken", "writing"} : x \notin S
         /\ "rwait" \in S <=> "rwoken" \in S
BY DEF CountedSets, Counted
-----------------------------------------------------------------------------
(* The invariant holds initially, and every step keeps it. *)

\* CountsAgree in these terms.
LEMMA Counters == CountsAgree <=> Agree(Counted)
BY DEF CountsAgree, Agree, In, At, Counted

\* What the invariant says in a state, spelled out for the steps below.
LEMMA LockFacts ==
  ASSUME NEW S \in CountedSets, LockInv(S)
  PROVE  /\ read_count \in Nat /\ write_count \in Nat
         /\ writer_ring \in [Slots -> Threads \cup {NoThread}]
         /\ writer_ring_head \in Slots /\ writer_ring_tail \in Slots
         /\ pc \in [Threads -> PCs]
         /\ read_count = 0 <=> In(pc, S) = {}
         /\ read_count = 0 => In(pc, {"reading"}) = {}
         /\ write_count = 0 <=> In(pc, {"writing"}) = {}
         /\ write_count <= 1
         /\ write_count > 0 => In(pc, {"reading"}) = {}
         /\ write_count = 0 => In(pc, {"rwait"}) = {}
<1>1. TypeOK /\ Agree(S) /\ Exclusion /\ NoLostWakeup
  BY DEF LockInv
<1>2. /\ read_count = 0 <=> In(pc, S) = {}
      /\ write_count = 0 <=> In(pc, {"writing"}) = {}
  BY <1>1, FiniteIn DEF Agree
<1>3. In(pc, {"reading"}) \subseteq In(pc, S)
  BY WhoCounts DEF In
<1> QED
  BY <1>1, <1>2, <1>3 DEF TypeOK, Exclusion, NoLostWakeup, In, At

LEMMA Facts ==
  ASSUME IInv
  PROVE  /\ read_count \in Nat /\ write_count \in Nat
         /\ writer_ring \in [Slots -> Threads \cup {NoThread}]
         /\ writer_ring_head \in Slots /\ writer_ring_tail \in Slots
         /\ pc \in [Threads -> PCs]
         /\ read_count = 0 <=> In(pc, Counted) = {}
         /\ write_count = 0 <=> In(pc, {"writing"}) = {}
         /\ write_count <= 1
         /\ write_count > 0 => In(pc, {"reading"}) = {}
         /\ write_count = 0 => In(pc, {"rwait"}) = {}
BY LockFacts DEF IInv, CountedSets

LEMMA InitOK ==
  ASSUME Init, NEW S \in CountedSets
  PROVE  LockInv(S)
<1>1. TypeOK
  BY RWLockAssumption DEF Init, TypeOK, Slots, PCs
<1>2. \A X : "idle" \notin X => In(pc, X) = {} /\ At(X) = {}
  BY DEF Init, In, At
<1>3. Agree(S)
  BY <1>2, WhoCounts, FS_EmptySet DEF Init, Agree
<1>4. RingHoldsWaiters
  <2>1. Used(writer_ring_head, writer_ring_tail) = {}
    BY RWLockAssumption DEF Used, Init, Slots
  <2>2. In(pc, Queued) = {}
    BY <1>2 DEF Queued
  <2> QED
    BY <2>1, <2>2, RingIsHolds DEF Holds
<1>5. Exclusion /\ NoLostWakeup
  BY <1>2 DEF Exclusion, NoLostWakeup, Init
<1> QED
  BY <1>1, <1>3, <1>4, <1>5 DEF LockInv

\* A step that leaves the ring and the set of its waiters alone.
LEMMA RingUntouched ==
  ASSUME RingHoldsWaiters, UNCHANGED ring, In(pc', Queued) = In(pc, Queued)
  PROVE  RingHoldsWaiters'
BY RingIsHolds DEF ring

LEMMA Stutter ==
  ASSUME NEW S, LockInv(S), UNCHANGED vars
  PROVE  LockInv(S)'
BY DEF vars, ring, LockInv, Agree, In, TypeOK, Exclusion, RingHoldsWaiters,
       UsedSlots, InUse, NoLostWakeup, At

LEMMA ReadLockOK ==
  ASSUME IInv, NEW t \in Threads, ReadLock(t)
  PROVE  IInv'
<1> USE Facts
<1>1. /\ pc' \in [Threads -> PCs]
      /\ Moves(pc, pc', t)
      /\ pc[t] \in {"idle", "failed"}
      /\ pc'[t] = IF write_count > 0 THEN "rwait" ELSE "reading"
  BY DEF ReadLock, ReaderTests, Outside, Moves, PCs
<1>2. TypeOK'
  BY <1>1 DEF TypeOK, ReadLock, ReaderTests, ring
<1>3. Agree(Counted)'
  <2>1. Cardinality(In(pc', Counted)) = Cardinality(In(pc, Counted)) + 1
    BY <1>1, CountersMove, FiniteIn DEF Counted
  <2>2. Cardinality(In(pc', {"writing"})) = Cardinality(In(pc, {"writing"}))
    BY <1>1, CountersMove, FiniteIn
  <2> QED
    BY <2>1, <2>2, LockFacts DEF IInv, LockInv, Agree, ReadLock, ReaderTests
<1>4. Exclusion'
  <2>1. write_count > 0 => In(pc', {"reading"}) = {}
    BY <1>1, CountersMove
  <2> QED
    BY <2>1 DEF Exclusion, ReadLock, ReaderTests, In, At
<1>5. RingHoldsWaiters'
  <2>1. In(pc', Queued) = In(pc, Queued)
    BY <1>1 DEF Moves, In, Queued
  <2> QED
    BY <2>1, RingUntouched DEF IInv, LockInv, ReadLock, ReaderTests
<1>6. NoLostWakeup'
  <2>1. read_count' # 0
    BY DEF ReadLock
  <2>2. write_count' = 0 => In(pc', {"rwait"}) = {}
    BY <1>1 DEF ReadLock, ReaderTests, In, Moves
  <2> QED
    BY <2>1, <2>2 DEF NoLostWakeup, In, At
<1> QED
  BY <1>2, <1>3, <1>4, <1>5, <1>6 DEF IInv, LockInv

LEMMA ReadWakeOK ==
  ASSUME IInv, NEW t \in Threads, ReadWake(t)
  PROVE  IInv'
<1> USE Facts
<1>1. /\ pc' \in [Threads -> PCs]
      /\ Moves(pc, pc', t)
      /\ pc[t] = "rwoken"
      /\ pc'[t] = IF write_count > 0 THEN "rwait" ELSE "reading"
  BY DEF ReadWake, ReaderTests, Moves, PCs
<1>2. TypeOK'
  BY <1>1 DEF TypeOK, ReadWake, ReaderTests, ring
<1>3. Agree(Counted)'
  <2>1. Cardinality(In(pc', Counted)) = Cardinality(In(pc, Counted))
    BY <1>1, CountersMove, FiniteIn DEF Counted
  <2>2. Cardinality(In(pc', {"writing"})) = Cardinality(In(pc, {"writing"}))
    BY <1>1, CountersMove, FiniteIn
  <2> QED
    BY <2>1, <2>2, LockFacts DEF IInv, LockInv, Agree, ReadWake, ReaderTests
<1>4. Exclusion'
  <2>1. write_count > 0 => In(pc', {"reading"}) = {}
    BY <1>1, CountersMove
  <2> QED
    BY <2>1 DEF Exclusion, ReadWake, ReaderTests, In, At
<1>5. RingHoldsWaiters'
  <2>1. In(pc', Queued) = In(pc, Queued)
    BY <1>1 DEF Moves, In, Queued
  <2> QED
    BY <2>1, RingUntouched DEF IInv, LockInv, ReadWake, ReaderTests
<1>6. NoLostWakeup'
  <2>1. read_count' # 0
    BY <1>1 DEF ReadWake, In, Counted
  <2>2. write_count' = 0 => In(pc', {"rwait"}) = {}
    BY <1>1 DEF ReadWake, ReaderTests, In, Moves
  <2> QED
    BY <2>1, <2>2 DEF NoLostWakeup, In, At
<1> QED
  BY <1>2, <1>3, <1>4, <1>5, <1>6 DEF IInv, LockInv

\* The two unlocks: t is out, and the signal has reached its sleepers.
LEMMA ReadUnlockMoves ==
  ASSUME NEW S \in CountedSets, LockInv(S), NEW t \in Threads, ReadUnlock(t)
  PROVE  /\ pc[t] = "reading" /\ write_count = 0
         /\ pc' \in [Threads -> PCs]
         /\ Moves(pc, pc', t)
         /\ pc'[t] = "idle"
         /\ In(pc', {"rwait"}) = {}
<1> USE LockFacts
<1> DEFINE released == [pc EXCEPT ![t] = "idle"]
<1>0. /\ pc[t] = "reading" /\ write_count = 0 /\ In(pc, {"reading"}) # {}
      /\ released \in [Threads -> PCs]
      /\ released[t] = "idle"
      /\ \A u \in Threads \ {t} : released[u] = pc[u]
  BY DEF ReadUnlock, In, Counted, PCs
<1>1. /\ pc' \in [Threads -> PCs]
      /\ Moves(pc, pc', t)
      /\ pc'[t] = "idle"
      /\ In(pc', {"rwait"}) = {}
  <2>1. CASE read_count' = 0
    <3>1. pc' \in AfterSignalWriters(released)
      BY <2>1 DEF ReadUnlock
    <3> HIDE DEF released
    <3> QED
      BY <3>1, <1>0, SignalWriters DEF Moves, In
  <2>2. CASE read_count' # 0
    <3>1. pc' = released
      BY <2>2 DEF ReadUnlock
    <3> HIDE DEF released
    <3> QED
      BY <3>1, <1>0 DEF Moves, In
  <2> QED
    BY <2>1, <2>2
<1> QED
  BY <1>0, <1>1

LEMMA ReadUnlockOK ==
  ASSUME NEW S \in CountedSets, LockInv(S), NEW t \in Threads, ReadUnlock(t)
  PROVE  LockInv(S)'
<1> USE LockFacts
<1> DEFINE released == [pc EXCEPT ![t] = "idle"]
<1>0. /\ pc[t] = "reading" /\ write_count = 0 /\ In(pc, {"reading"}) # {}
      /\ released \in [Threads -> PCs]
      /\ released[t] = "idle"
      /\ \A u \in Threads \ {t} : released[u] = pc[u]
  BY DEF ReadUnlock, In, Counted, PCs
<1>1. /\ pc' \in [Threads -> PCs]
      /\ Moves(pc, pc', t)
      /\ pc'[t] = "idle"
      /\ In(pc', {"rwait"}) = {}
  BY ReadUnlockMoves
<1>2. TypeOK'
  BY <1>0, <1>1 DEF TypeOK, ReadUnlock, ring
<1>3. Agree(S)'
  <2>1. Cardinality(In(pc', S)) = Cardinality(In(pc, S)) - 1
    BY <1>0, <1>1, ReadersMove, WhoCounts, FiniteIn
  <2>2. Cardinality(In(pc', {"writing"})) = Cardinality(In(pc, {"writing"}))
    BY <1>0, <1>1, CountersMove, WhoCounts, FiniteIn
  <2> QED
    BY <2>1, <2>2 DEF LockInv, Agree, ReadUnlock
<1>4. Exclusion'
  BY <1>0 DEF Exclusion, ReadUnlock
<1>5. RingHoldsWaiters'
  <2>1. In(pc', Queued) = In(pc, Queued)
    BY <1>0, <1>1 DEF Moves, In, Queued
  <2> QED
    BY <2>1, RingUntouched DEF LockInv, ReadUnlock
<1>6. NoLostWakeup'
  <2>1. ASSUME read_count' = 0, In(pc', {"wwait"}) # {}
        PROVE  In(pc', {"wwoken"}) # {}
    <3>1. pc' \in AfterSignalWriters(released)
      BY <2>1 DEF ReadUnlock
    <3> HIDE DEF released
    <3>2. In(released, {"wwait"}) # {}
      BY <2>1, <3>1, <1>0, SignalWriters DEF In
    <3> QED
      BY <3>1, <3>2, <1>0, SignalWriters DEF In
  <2> QED
    BY <1>1, <2>1 DEF NoLostWakeup, In, At
<1> QED
  BY <1>2, <1>3, <1>4, <1>5, <1>6 DEF LockInv

LEMMA WriteUnlockMoves ==
  ASSUME IInv, NEW t \in Threads, WriteUnlock(t)
  PROVE  /\ pc[t] = "writing" /\ write_count = 1 /\ write_count' = 0
         /\ pc' \in [Threads -> PCs]
         /\ Moves(pc, pc', t)
         /\ pc'[t] = "idle"
         /\ In(pc', {"rwait"}) = {}
         /\ read_count = 0 /\ In(pc', {"wwait"}) # {}
              => In(pc', {"wwoken"}) # {}
<1> USE Facts
<1> DEFINE released == [pc EXCEPT ![t] = "idle"]
<1>0. /\ pc[t] = "writing" /\ write_count = 1 /\ write_count' = 0
      /\ released \in [Threads -> PCs]
      /\ released[t] = "idle"
      /\ \A u \in Threads \ {t} : released[u] = pc[u]
  BY DEF WriteUnlock, In, PCs
<1>1. /\ pc' \in [Threads -> PCs]
      /\ Moves(pc, pc', t)
      /\ pc'[t] = "idle"
      /\ In(pc', {"rwait"}) = {}
      /\ read_count = 0 /\ In(pc', {"wwait"}) # {}
           => In(pc', {"wwoken"}) # {}
  <2>1. CASE read_count = 0
    <3>1. pc' \in AfterSignalWriters(released)
      BY <1>0, <2>1 DEF WriteUnlock
    <3> HIDE DEF released
    <3>2. /\ pc' \in [Threads -> PCs]
          /\ Moves(pc, pc', t)
          /\ pc'[t] = "idle"
          /\ In(pc', {"rwait"}) = {}
      BY <3>1, <1>0, <2>1, SignalWriters DEF Moves, In, Counted
    <3>3. In(pc', {"wwait"}) # {} => In(released, {"wwait"}) # {}
      BY <3>1, <1>0, SignalWriters DEF In
    <3>4. In(pc', {"wwait"}) # {} => In(pc', {"wwoken"}) # {}
      BY <3>1, <3>3, <1>0, SignalWriters DEF In
    <3> QED
      BY <3>2, <3>4
  <2>2. CASE read_count # 0
    <3>1. pc' = AfterBroadcastReaders(released)
      BY <1>0, <2>2 DEF WriteUnlock
    <3> HIDE DEF released
    <3> QED
      BY <2>2, <3>1, <1>0, BroadcastReaders DEF Moves, In
  <2> QED
    BY <2>1, <2>2
<1> QED
  BY <1>0, <1>1

LEMMA WriteUnlockOK ==
  ASSUME IInv, NEW t \in Threads, WriteUnlock(t)
  PROVE  IInv'
<1> USE Facts
<1>0. pc[t] = "writing" /\ write_count = 1 /\ write_count' = 0
  BY WriteUnlockMoves
<1>1. /\ pc' \in [Threads -> PCs]
      /\ Moves(pc, pc', t)
      /\ pc'[t] = "idle"
      /\ In(pc', {"rwait"}) = {}
      /\ read_count = 0 /\ In(pc', {"wwait"}) # {}
           => In(pc', {"wwoken"}) # {}
  BY WriteUnlockMoves
<1>2. TypeOK'
  BY <1>0, <1>1 DEF TypeOK, WriteUnlock, ring
<1>3. Agree(Counted)'
  <2>1. Cardinality(In(pc', Counted)) = Cardinality(In(pc, Counted))
    BY <1>0, <1>1, CountersMove, FiniteIn DEF Counted
  <2>2. Cardinality(In(pc', {"writing"})) =
          Cardinality(In(pc, {"writing"})) - 1
    BY <1>0, <1>1, CountersMove, FiniteIn
  <2> QED
    BY <2>1, <2>2, LockFacts DEF IInv, LockInv, Agree, WriteUnlock
<1>4. Exclusion'
  BY <1>0 DEF Exclusion
<1>5. RingHoldsWaiters'
  <2>1. In(pc', Queued) = In(pc, Queued)
    BY <1>0, <1>1 DEF Moves, In, Queued
  <2> QED
    BY <2>1, RingUntouched DEF IInv, LockInv, WriteUnlock
<1>6. NoLostWakeup'
  BY <1>1 DEF NoLostWakeup, In, At, WriteUnlock
<1> QED
  BY <1>2, <1>3, <1>4, <1>5, <1>6 DEF IInv, LockInv

LEMMA WriteLockFailsOK ==
  ASSUME NEW S \in CountedSets, LockInv(S), NEW t \in Threads, WriteLockFails(t)
  PROVE  LockInv(S)'
<1> USE LockFacts
<1>1. /\ pc' \in [Threads -> PCs]
      /\ Moves(pc, pc', t)
      /\ pc[t] \in {"idle", "failed"}
      /\ pc'[t] = "failed"
  BY DEF WriteLockFails, Outside, Moves, PCs
<1>2. TypeOK'
  BY <1>1 DEF TypeOK, WriteLockFails, ring
<1>3. Agree(S)'
  <2>1. Cardinality(In(pc', S)) = Cardinality(In(pc, S))
    BY <1>1, ReadersMove, WhoCounts, FiniteIn
  <2>2. Cardinality(In(pc', {"writing"})) = Cardinality(In(pc, {"writing"}))
    BY <1>1, CountersMove, FiniteIn
  <2> QED
    BY <2>1, <2>2 DEF LockInv, Agree, WriteLockFails
<1>4. \A X \in SUBSET (PCs \ {"idle", "failed"}) : In(pc', X) = In(pc, X)
  BY <1>1 DEF In, WriteLockFails
<1>5. Exclusion' /\ NoLostWakeup'
  BY <1>4 DEF LockInv, Exclusion, NoLostWakeup, WriteLockFails, In, At, PCs
<1>6. RingHoldsWaiters'
  BY <1>4, RingUntouched DEF LockInv, WriteLockFails, Queued, PCs
<1> QED
  BY <1>2, <1>3, <1>5, <1>6 DEF LockInv

LEMMA SpuriousWakeupOK ==
  ASSUME NEW S \in CountedSets, LockInv(S), NEW t \in Threads, SpuriousWakeup(t)
  PROVE  LockInv(S)'
<1> USE LockFacts
<1>1. /\ pc' \in [Threads -> PCs]
      /\ Moves(pc, pc', t)
      /\ \/ pc[t] = "rwait" /\ pc'[t] = "rwoken"
         \/ pc[t] = "wwait" /\ pc'[t] = "wwoken"
  BY DEF SpuriousWakeup, Moves, PCs
<1>2. TypeOK'
  BY <1>1 DEF TypeOK, SpuriousWakeup, ring
<1>3. Agree(S)'
  <2>1. Cardinality(In(pc', S)) = Cardinality(In(pc, S))
    BY <1>1, ReadersMove, WhoCounts, FiniteIn
  <2>2. Cardinality(In(pc', {"writing"})) = Cardinality(In(pc, {"writing"}))
    BY <1>1, CountersMove, FiniteIn
  <2> QED
    BY <2>1, <2>2 DEF LockInv, Agree, SpuriousWakeup
<1>4. /\ In(pc', {"reading"}) = In(pc, {"reading"})
      /\ In(pc', Queued) = In(pc, Queued)
      /\ In(pc', {"rwait"}) \subseteq In(pc, {"rwait"})
      /\ In(pc', {"wwait"}) \subseteq In(pc, {"wwait"})
      /\ In(pc, {"wwoken"}) \subseteq In(pc', {"wwoken"})
  BY <1>1 DEF In, Moves, Queued, SpuriousWakeup
<1>5. Exclusion' /\ NoLostWakeup'
  BY <1>4 DEF LockInv, Exclusion, NoLostWakeup, SpuriousWakeup, In, At
<1>6. RingHoldsWaiters'
  BY <1>4, RingUntouched DEF LockInv, SpuriousWakeup
<1> QED
  BY <1>2, <1>3, <1>5, <1>6 DEF LockInv

\* The loop of a writer that is in the ring: whether it sleeps or enters.
LEMMA WriterTestsOK ==
  ASSUME NEW S \in CountedSets, LockInv(S), NEW t \in Threads, pc[t] \in {"idle", "failed", "wwoken"},
         writer_ring' \in [Slots -> Threads \cup {NoThread}],
         writer_ring_tail' \in Slots,
         Holds(writer_ring', writer_ring_head, writer_ring_tail',
               In(pc, Queued) \cup {t}),
         UNCHANGED read_count, WriterTests(t, writer_ring')
  PROVE  LockInv(S)'
<1> USE LockFacts
<1> DEFINE head == writer_ring'[writer_ring_head]
<1>1. CASE MustWait(t, writer_ring') /\ WriterSleeps(t)
  <2>1. PICK p : /\ p \in IF write_count = 0 /\ read_count = 0
                          THEN AfterSignalWriters(pc) ELSE {pc}
                 /\ pc' = [p EXCEPT ![t] = "wwait"]
    BY <1>1 DEF WriterSleeps
  <2>2. /\ p \in [Threads -> PCs]
        /\ \A u \in Threads :
             p[u] = pc[u] \/ (pc[u] = "wwait" /\ p[u] = "wwoken")
        /\ write_count = 0 /\ read_count = 0 /\ In(pc, {"wwait"}) # {} =>
             \E u \in Threads : pc[u] = "wwait" /\ p[u] = "wwoken"
    BY <2>1, SignalWriters
  <2>3. /\ pc' \in [Threads -> PCs]
        /\ Moves(pc, pc', t)
        /\ pc'[t] = "wwait"
        /\ \A u \in Threads \ {t} : pc'[u] = p[u]
    BY <2>1, <2>2 DEF Moves, PCs
  <2>4. UNCHANGED <<write_count, writer_ring_head>>
    BY <1>1 DEF WriterSleeps
  <2>5. TypeOK'
    BY <2>3, <2>4 DEF TypeOK
  <2>6. Agree(S)'
    <3>1. Cardinality(In(pc', S)) = Cardinality(In(pc, S))
      BY <2>3, ReadersMove, WhoCounts, FiniteIn
    <3>2. Cardinality(In(pc', {"writing"})) = Cardinality(In(pc, {"writing"}))
      BY <2>3, CountersMove, WhoCounts, FiniteIn
    <3> QED
      BY <3>1, <3>2, <2>4 DEF LockInv, Agree
  <2>7. Exclusion'
    <3>1. In(pc', {"reading"}) \subseteq In(pc, {"reading"})
      BY <2>3 DEF In, Moves
    <3> QED
      BY <3>1, <2>4 DEF Exclusion, In, At
  <2>8. RingHoldsWaiters'
    <3>1. In(pc', Queued) = In(pc, Queued) \cup {t}
      BY <2>3, CountersMove DEF Queued
    <3> QED
      BY <3>1, <2>4, RingIsHolds
  <2>9. NoLostWakeup'
    <3>1. ASSUME write_count = 0, read_count = 0
          PROVE  In(pc', {"wwoken"}) # {}
      <4>1. head \in In(pc, Queued) /\ head # t
        BY <1>1, <3>1, HeadWaits DEF MustWait
      <4>2. CASE pc[head] = "wwoken"
        BY <4>1, <4>2, <2>2, <2>3 DEF In
      <4>3. CASE pc[head] = "wwait"
        <5>1. PICK u \in Threads : pc[u] = "wwait" /\ p[u] = "wwoken"
          BY <4>1, <4>3, <3>1, <2>2 DEF In
        <5> QED
          BY <5>1, <2>3 DEF In
      <4> QED
        BY <4>1, <4>2, <4>3 DEF In, Queued
    <3>2. In(pc', {"rwait"}) \subseteq In(pc, {"rwait"})
      BY <2>3 DEF In, Moves
    <3> QED
      BY <2>4, <3>1, <3>2 DEF NoLostWakeup, In, At
  <2> QED
    BY <2>5, <2>6, <2>7, <2>8, <2>9 DEF LockInv
<1>2. CASE ~MustWait(t, writer_ring') /\ WriterEnters(t)
  <2>1. /\ write_count = 0 /\ read_count = 0 /\ head = t
        /\ write_count' = 1
        /\ writer_ring_head' = NextSlot(writer_ring_head)
        /\ writer_ring_head' \in Slots
    BY <1>2, NextSlotValue DEF MustWait, WriterEnters
  <2>2. /\ pc' \in [Threads -> PCs]
        /\ Moves(pc, pc', t)
        /\ pc'[t] = "writing"
        /\ \A u \in Threads \ {t} : pc'[u] = pc[u]
    BY <1>2 DEF WriterEnters, Moves, PCs
  <2>3. TypeOK'
    BY <2>1, <2>2 DEF TypeOK
  <2>4. Agree(S)'
    <3>1. Cardinality(In(pc', S)) = Cardinality(In(pc, S))
      BY <2>2, ReadersMove, WhoCounts, FiniteIn
    <3>2. Cardinality(In(pc', {"writing"})) =
            Cardinality(In(pc, {"writing"})) + 1
      BY <2>2, CountersMove, WhoCounts, FiniteIn
    <3> QED
      BY <3>1, <3>2, <2>1 DEF LockInv, Agree
  <2>5. Exclusion'
    <3>1. In(pc, {"reading"}) = {}
      BY <2>1 DEF In, Counted
    <3> QED
      BY <3>1, <2>1, <2>2 DEF Exclusion, In, At
  <2>6. RingHoldsWaiters'
    <3>0. pc'[t] \notin Queued
      BY <2>2 DEF Queued
    <3>1. In(pc', Queued) = In(pc, Queued) \ {t}
      BY <2>2, <3>0, CountersMove
    <3>2. Holds(writer_ring', NextSlot(writer_ring_head), writer_ring_tail',
                (In(pc, Queued) \cup {t}) \ {t})
      BY <2>1, Dequeue
    <3>3. (In(pc, Queued) \cup {t}) \ {t} = In(pc, Queued) \ {t}
      OBVIOUS
    <3> QED
      BY <3>1, <3>2, <3>3, <2>1, RingIsHolds
  <2>7. NoLostWakeup'
    BY <2>1 DEF NoLostWakeup
  <2> QED
    BY <2>3, <2>4, <2>5, <2>6, <2>7 DEF LockInv
<1> QED
  BY <1>1, <1>2 DEF WriterTests

LEMMA WriteLockOK ==
  ASSUME NEW S \in CountedSets, LockInv(S), NEW t \in Threads, WriteLock(t)
  PROVE  LockInv(S)'
<1> USE LockFacts
<1>1. pc[t] \in {"idle", "failed"} /\ t \notin In(pc, Queued)
  BY DEF WriteLock, Outside, In, Queued
<1>2. /\ writer_ring' = [writer_ring EXCEPT ![writer_ring_tail] = t]
      /\ writer_ring' \in [Slots -> Threads \cup {NoThread}]
      /\ writer_ring_tail' = NextSlot(writer_ring_tail)
      /\ writer_ring_tail' \in Slots
      /\ NextSlot(writer_ring_tail) # writer_ring_head
  BY NextSlotValue DEF WriteLock, RingFull
<1>3. Holds(writer_ring, writer_ring_head, writer_ring_tail, In(pc, Queued))
  BY RingIsHolds DEF LockInv
<1>4. Holds(writer_ring', writer_ring_head, writer_ring_tail',
            In(pc, Queued) \cup {t})
  BY <1>1, <1>2, <1>3, Enqueue
<1> QED
  BY <1>1, <1>2, <1>4, WriterTestsOK DEF WriteLock

LEMMA WriteWakeOK ==
  ASSUME NEW S \in CountedSets, LockInv(S), NEW t \in Threads, WriteWake(t)
  PROVE  LockInv(S)'
<1> USE LockFacts
<1>1. pc[t] = "wwoken" /\ In(pc, Queued) \cup {t} = In(pc, Queued)
  BY DEF WriteWake, In, Queued
<1>2. Holds(writer_ring, writer_ring_head, writer_ring_tail,
            In(pc, Queued) \cup {t})
  BY <1>1, RingIsHolds DEF LockInv
<1>3. /\ writer_ring' = writer_ring /\ writer_ring_tail' = writer_ring_tail
      /\ read_count' = read_count
      /\ WriterTests(t, writer_ring')
  BY DEF WriteWake
<1> QED
  BY <1>1, <1>2, <1>3, WriterTestsOK
-----------------------------------------------------------------------------
\* Every reachable state satisfies the inductive invariant.
THEOREM Invariance == Spec => []IInv
<1>1. Init => IInv
  BY InitOK DEF IInv, CountedSets
<1>2. IInv /\ [Next]_vars => IInv'
  <2> SUFFICES ASSUME IInv, [Next]_vars
               PROVE  IInv'
    OBVIOUS
  <2>1. ASSUME NEW t \in Threads, Step(t)
        PROVE  IInv'
    BY <2>1, ReadLockOK, ReadWakeOK, ReadUnlockOK, WriteLockOK,
       WriteLockFailsOK, WriteWakeOK, WriteUnlockOK DEF Step, IInv, CountedSets
  <2>2. ASSUME NEW t \in Threads, SpuriousWakeup(t)
        PROVE  IInv'
    BY <2>2, SpuriousWakeupOK DEF IInv, CountedSets
  <2>3. CASE UNCHANGED vars
    BY <2>3, Stutter DEF IInv
  <2> QED
    BY <2>1, <2>2, <2>3 DEF Next
<1> QED
  BY <1>1, <1>2, PTL DEF Spec

\* The fields of the lock and the threads stay in their types (rwlock.h).
THEOREM TypeCorrect == Spec => []TypeOK
BY Invariance, PTL DEF IInv, LockInv

\* The counters tested by the four functions of rwlock.c are never wrong.
THEOREM CountsCorrect == Spec => []CountsAgree
BY Invariance, Counters, PTL DEF IInv, LockInv

LEMMA AloneInside ==
  ASSUME NEW S \in CountedSets, LockInv(S)
  PROVE  MutualExclusion
<1> SUFFICES ASSUME NEW t \in At({"writing"})
             PROVE  At({"reading", "writing"}) = {t}
  BY DEF MutualExclusion
<1>1. t \in In(pc, {"writing"})
  BY DEF At, In
<1>2. write_count = 1
  BY <1>1, LockFacts
<1>3. In(pc, {"writing"}) = {t}
  <2>1. Cardinality(In(pc, {"writing"})) = 1
    BY <1>2 DEF LockInv, Agree
  <2> QED
    BY <1>1, <2>1, FiniteIn, FS_Singleton
<1>4. In(pc, {"reading"}) = {}
  BY <1>2, LockFacts
<1> QED
  BY <1>3, <1>4 DEF At, In

\* A writer inside the lock is alone in it.
THEOREM Exclusive == Spec => []MutualExclusion
<1>1. IInv => MutualExclusion
  BY AloneInside DEF IInv, CountedSets
<1> QED
  BY <1>1, Invariance, PTL

\* The ring of waiting writers loses, repeats and invents nobody.
THEOREM RingCorrect == Spec => []RingHoldsWaiters
BY Invariance, PTL DEF IInv, LockInv

\* No thread is left asleep when the lock has become free.
THEOREM WakeupsNotLost == Spec => []NoLostWakeup
BY Invariance, PTL DEF IInv, LockInv

-----------------------------------------------------------------------------
(* The earlier version: a reader is counted when it gets the lock.          *)

LEMMA EarlierReaderOK ==
  ASSUME EarlierInv, NEW t \in Threads, pc[t] \in {"idle", "failed", "rwoken"},
         EarlierReaderTests(t)
  PROVE  EarlierInv'
<1> DEFINE R == {"reading"}
<1>0. R \in CountedSets /\ LockInv(R)
  BY DEF EarlierInv, CountedSets
<1> HIDE DEF R
<1>1. /\ pc \in [Threads -> PCs] /\ read_count \in Nat
      /\ write_count > 0 => In(pc, {"reading"}) = {}
      /\ write_count = 0 => In(pc, {"rwait"}) = {}
  BY <1>0, LockFacts
<1>2. /\ pc' \in [Threads -> PCs]
      /\ Moves(pc, pc', t)
      /\ \/ write_count > 0 /\ pc'[t] = "rwait" /\ read_count' = read_count
         \/ write_count = 0 /\ pc'[t] = "reading" /\ read_count' = read_count + 1
      /\ UNCHANGED <<write_count, ring>>
  BY <1>1 DEF EarlierReaderTests, Moves, PCs
<1>3. TypeOK'
  BY <1>0, <1>1, <1>2 DEF LockInv, TypeOK, ring
<1>4. Agree(R)'
  <2>1. Cardinality(In(pc', R)) =
          IF pc'[t] = "reading" THEN Cardinality(In(pc, R)) + 1 ELSE Cardinality(In(pc, R))
    <3>1. /\ pc[t] \notin R
          /\ pc'[t] \in R <=> pc'[t] = "reading"
      BY DEF R
    <3> QED
      BY <1>0, <1>2, <3>1, ReadersMove, FiniteIn
  <2>2. Cardinality(In(pc', {"writing"})) = Cardinality(In(pc, {"writing"}))
    BY <1>2, CountersMove, FiniteIn
  <2> QED
    BY <1>0, <1>2, <2>1, <2>2 DEF LockInv, Agree
<1>5. Exclusion'
  <2>1. write_count > 0 => In(pc', {"reading"}) = {}
    BY <1>1, <1>2, CountersMove
  <2> QED
    BY <1>0, <1>2, <2>1 DEF LockInv, Exclusion, In, At
<1>6. RingHoldsWaiters'
  <2>1. In(pc', Queued) = In(pc, Queued)
    BY <1>2 DEF Moves, In, Queued
  <2> QED
    BY <1>0, <1>2, <2>1, RingUntouched DEF LockInv
<1>7. NoLostWakeup'
  <2>1. write_count' = 0 => read_count' # 0 /\ In(pc', {"rwait"}) = {}
    BY <1>1, <1>2 DEF In, Moves
  <2> QED
    BY <2>1 DEF NoLostWakeup, In, At
<1> QED
  BY <1>3, <1>4, <1>5, <1>6, <1>7 DEF EarlierInv, LockInv, R

\* A writer that leaves wakes every reader and one writer.
LEMMA EarlierWriteUnlockOK ==
  ASSUME EarlierInv, NEW t \in Threads, EarlierWriteUnlock(t)
  PROVE  EarlierInv'
<1> DEFINE R == {"reading"}
<1>0. R \in CountedSets /\ LockInv(R)
  BY DEF EarlierInv, CountedSets
<1> HIDE DEF R
<1>1. /\ pc \in [Threads -> PCs] /\ read_count \in Nat /\ write_count \in Nat
      /\ write_count <= 1 /\ pc[t] = "writing" /\ write_count # 0
  <2>1. /\ pc \in [Threads -> PCs] /\ read_count \in Nat /\ write_count \in Nat
        /\ write_count <= 1 /\ pc[t] = "writing"
        /\ write_count = 0 <=> In(pc, {"writing"}) = {}
    BY <1>0, LockFacts DEF EarlierWriteUnlock
  <2> QED
    BY <2>1 DEF In
<1>2. PICK released : released = [pc EXCEPT ![t] = "idle"]
  OBVIOUS
<1>3. /\ released \in [Threads -> PCs] /\ released[t] = "idle"
      /\ \A u \in Threads \ {t} : released[u] = pc[u]
  BY <1>1, <1>2 DEF PCs
<1>4. /\ write_count' = 0 /\ UNCHANGED <<read_count, ring>>
      /\ pc' \in AfterSignalWriters(AfterBroadcastReaders(released))
  BY <1>1, <1>2 DEF EarlierWriteUnlock, EarlierWakes
<1>5. PICK woken : /\ woken = AfterBroadcastReaders(released)
                   /\ woken \in [Threads -> PCs]
                   /\ \A u \in Threads :
                        woken[u] = IF released[u] = "rwait" THEN "rwoken" ELSE released[u]
  BY <1>3, BroadcastReaders
<1>6. /\ pc' \in [Threads -> PCs]
      /\ \A u \in Threads :
           pc'[u] = woken[u] \/ (woken[u] = "wwait" /\ pc'[u] = "wwoken")
      /\ In(woken, {"wwait"}) # {} =>
           \E u \in Threads : woken[u] = "wwait" /\ pc'[u] = "wwoken"
  BY <1>4, <1>5, SignalWriters
<1>7. /\ Moves(pc, pc', t)
      /\ pc'[t] = "idle"
      /\ In(pc', {"rwait"}) = {}
      /\ In(pc', {"wwait"}) # {} => In(pc', {"wwoken"}) # {}
  BY <1>3, <1>5, <1>6 DEF Moves, In
<1>8. TypeOK'
  BY <1>0, <1>4, <1>6 DEF LockInv, TypeOK, ring
<1>9. Agree(R)'
  <2>1. Cardinality(In(pc', R)) = Cardinality(In(pc, R))
    BY <1>0, <1>1, <1>7, ReadersMove, WhoCounts, FiniteIn
  <2>2. Cardinality(In(pc', {"writing"})) = Cardinality(In(pc, {"writing"})) - 1
    BY <1>1, <1>7, CountersMove, FiniteIn
  <2> QED
    BY <1>0, <1>1, <1>4, <2>1, <2>2 DEF LockInv, Agree
<1>10. Exclusion'
  BY <1>4 DEF Exclusion
<1>11. RingHoldsWaiters'
  <2>1. In(pc', Queued) = In(pc, Queued)
    BY <1>1, <1>7 DEF Moves, In, Queued
  <2> QED
    BY <1>0, <1>4, <2>1, RingUntouched DEF LockInv
<1>12. NoLostWakeup'
  BY <1>7 DEF NoLostWakeup, In, At
<1> QED
  BY <1>8, <1>9, <1>10, <1>11, <1>12 DEF EarlierInv, LockInv, R

\* The version before (rwlock백업.c) keeps a writer alone, the ring of waiting
\* writers exact, the counters right and no sleeper forgotten, although it
\* counts readers late and wakes more threads than it needs to.
THEOREM EarlierSound == EarlierSpec => []EarlierLockSound
<1>1. Init => EarlierInv
  BY InitOK DEF EarlierInv, CountedSets
<1>2. EarlierInv /\ [EarlierNext]_vars => EarlierInv'
  <2> SUFFICES ASSUME EarlierInv, [EarlierNext]_vars
               PROVE  EarlierInv'
    OBVIOUS
  <2>0. {"reading"} \in CountedSets /\ LockInv({"reading"})
    BY DEF EarlierInv, CountedSets
  <2>1. ASSUME NEW t \in Threads, EarlierReadLock(t) \/ EarlierReadWake(t)
        PROVE  EarlierInv'
    BY <2>1, EarlierReaderOK DEF EarlierReadLock, EarlierReadWake, Outside
  <2>2. ASSUME NEW t \in Threads,
               \/ EarlierReadUnlock(t) \/ EarlierWriteLock(t)
               \/ EarlierWriteWake(t)  \/ SpuriousWakeup(t)
        PROVE  EarlierInv'
    BY <2>0, <2>2, ReadUnlockOK, WriteLockOK, WriteLockFailsOK, WriteWakeOK, SpuriousWakeupOK
    DEF EarlierReadUnlock, EarlierWriteLock, EarlierWriteWake, EarlierInv
  <2>3. ASSUME NEW t \in Threads, EarlierWriteUnlock(t)
        PROVE  EarlierInv'
    BY <2>3, EarlierWriteUnlockOK
  <2>4. CASE UNCHANGED vars
    BY <2>0, <2>4, Stutter DEF EarlierInv
  <2> QED
    BY <2>1, <2>2, <2>3, <2>4 DEF EarlierNext
<1>3. EarlierInv => EarlierLockSound
  <2> SUFFICES ASSUME EarlierInv PROVE EarlierLockSound
    OBVIOUS
  <2>0. {"reading"} \in CountedSets /\ LockInv({"reading"})
    BY DEF EarlierInv, CountedSets
  <2>1. MutualExclusion
    BY <2>0, AloneInside
  <2>2. read_count = Cardinality(At({"reading"}))
    BY <2>0 DEF LockInv, Agree, In, At
  <2> QED
    BY <2>0, <2>1, <2>2 DEF LockInv, EarlierLockSound
<1> QED
  BY <1>1, <1>2, <1>3, PTL DEF EarlierSpec
-----------------------------------------------------------------------------
(***************************************************************************)
(* The lock implements its abstract promise, RWLockSpec.  The ring between *)
(* head and tail, read from the head on, is the promised queue of waiting  *)
(* writers; a sleeping thread and a signalled one are the same waiter, so  *)
(* signals and wake-ups that come to nothing are stutters.                 *)
(***************************************************************************)
Length(h, t) == IF h <= t THEN t - h ELSE t - h + RingSize
SlotAt(h, k) == IF h + k - 1 < RingSize THEN h + k - 1 ELSE h + k - 1 - RingSize

\* The remainders in QueueIn are taken at most once round the ring.
LEMMA QueueWithoutRemainder ==
  ASSUME NEW s \in [Slots -> Threads \cup {NoThread}],
         NEW h \in Slots, NEW t \in Slots
  PROVE  /\ Length(h, t) \in 0 .. RingSize - 1
         /\ QueueIn(s, h, t) \in [1 .. Length(h, t) -> Threads \cup {NoThread}]
         /\ \A k \in 1 .. Length(h, t) :
              /\ SlotAt(h, k) \in Slots
              /\ QueueIn(s, h, t)[k] = s[SlotAt(h, k)]
<1>1. Length(h, t) \in 0 .. RingSize - 1
  BY RWLockAssumption DEF Length, Slots
<1>2. (t - h) % RingSize = Length(h, t)
  BY RWLockAssumption, SMTT(30) DEF Length, Slots
<1>3. ASSUME NEW k \in 1 .. Length(h, t)
      PROVE  (h + k - 1) % RingSize = SlotAt(h, k) /\ SlotAt(h, k) \in Slots
  BY <1>1, RWLockAssumption, SMTT(30) DEF SlotAt, Slots
<1> QED
  BY <1>1, <1>2, <1>3 DEF QueueIn

LEMMA QueueFacts ==
  ASSUME NEW s \in [Slots -> Threads \cup {NoThread}],
         NEW h \in Slots, NEW t \in Slots
  PROVE  /\ QueueIn(s, h, t) \in Seq(Threads \cup {NoThread})
         /\ Len(QueueIn(s, h, t)) = Length(h, t)
         /\ QueueIn(s, h, t) = <<>> <=> h = t
         /\ Length(h, t) = RingSize - 1 <=> NextSlot(t) = h
         /\ Length(h, t) < RingSize
         /\ h # t => Head(QueueIn(s, h, t)) = s[h]
<1> DEFINE q == QueueIn(s, h, t)
           n == Length(h, t)
<1>1. /\ n \in 0 .. RingSize - 1
      /\ q \in [1 .. n -> Threads \cup {NoThread}]
      /\ \A k \in 1 .. n : q[k] = s[SlotAt(h, k)]
  BY QueueWithoutRemainder
<1>2. n = 0 <=> h = t
  BY RWLockAssumption DEF Length, Slots
<1>3. n = RingSize - 1 <=> NextSlot(t) = h
  BY NextSlotValue, RWLockAssumption DEF Length, Slots
<1>4. SlotAt(h, 1) = h
  BY RWLockAssumption DEF SlotAt, Slots
<1> HIDE DEF n, q
<1>5. n \in Nat /\ n < RingSize
  BY <1>1, RWLockAssumption
<1>6. q \in Seq(Threads \cup {NoThread}) /\ Len(q) = n
  BY <1>1, <1>5
<1>7. q = <<>> <=> n = 0
  BY <1>1, <1>6
<1>8. h # t => Head(q) = s[h]
  <2>1. h # t => 1 \in 1 .. n
    BY <1>2, <1>5
  <2> QED
    BY <2>1, <1>1, <1>4, <1>6
<1> QED
  BY <1>2, <1>3, <1>5, <1>6, <1>7, <1>8 DEF n, q

\* Enqueuing at the tail appends.
LEMMA QueueAppend ==
  ASSUME NEW s \in [Slots -> Threads \cup {NoThread}],
         NEW h \in Slots, NEW t \in Slots, NEW u \in Threads, NextSlot(t) # h,
         NEW r \in [Slots -> Threads \cup {NoThread}],
         r[t] = u, \A i \in Slots \ {t} : r[i] = s[i]
  PROVE  QueueIn(r, h, NextSlot(t)) = Append(QueueIn(s, h, t), u)
<1> DEFINE a == QueueIn(r, h, NextSlot(t))
           q == QueueIn(s, h, t)
           n == Length(h, t)
<1>0. NextSlot(t) \in Slots
      /\ NextSlot(t) = IF t + 1 = RingSize THEN 0 ELSE t + 1
  BY NextSlotValue
<1>1. r \in [Slots -> Threads \cup {NoThread}]
  OBVIOUS
<1>2. n \in Nat /\ Length(h, NextSlot(t)) = n + 1
  <2> DEFINE m == NextSlot(t)
  <2>1. m # h
    OBVIOUS
  <2> HIDE DEF m
  <2> SUFFICES Length(h, t) \in Nat /\ Length(h, m) = Length(h, t) + 1
    BY DEF m
  <2> QED
    BY <1>0, <2>1, RWLockAssumption DEF Length, Slots, m
<1>3. /\ a \in [1 .. n + 1 -> Threads \cup {NoThread}]
      /\ \A k \in 1 .. n + 1 : a[k] = r[SlotAt(h, k)]
      /\ q \in [1 .. n -> Threads \cup {NoThread}]
      /\ \A k \in 1 .. n : q[k] = s[SlotAt(h, k)]
  <2> DEFINE m == NextSlot(t)
  <2>1. /\ a \in [1 .. Length(h, m) -> Threads \cup {NoThread}]
        /\ \A k \in 1 .. Length(h, m) : a[k] = r[SlotAt(h, k)]
    BY <1>0, <1>1, QueueWithoutRemainder
  <2>2. /\ q \in [1 .. n -> Threads \cup {NoThread}]
        /\ \A k \in 1 .. n : q[k] = s[SlotAt(h, k)]
    BY QueueWithoutRemainder
  <2>3. Length(h, m) = n + 1
    BY <1>2
  <2> HIDE DEF n, m, a, q
  <2> QED
    BY <2>1, <2>2, <2>3
<1>4. /\ SlotAt(h, n + 1) = t
      /\ \A k \in 1 .. n : SlotAt(h, k) \in Slots \ {t}
  BY RWLockAssumption DEF SlotAt, Slots, Length
<1> HIDE DEF n, a, q
<1>5. /\ n + 1 \in 1 .. n + 1
      /\ \A k \in 1 .. n : k \in 1 .. n + 1
  BY <1>2
<1>6. a[n + 1] = u /\ \A k \in 1 .. n : a[k] = q[k]
  BY <1>3, <1>4, <1>5
<1>7. q \in Seq(Threads \cup {NoThread}) /\ Len(q) = n
  BY <1>2, <1>3
<1>8. a = Append(q, u)
  BY <1>2, <1>3, <1>6, <1>7
<1> QED
  BY <1>8 DEF a, q

\* Moving the head drops the first of the queue.
LEMMA QueueTail ==
  ASSUME NEW s \in [Slots -> Threads \cup {NoThread}],
         NEW h \in Slots, NEW t \in Slots, h # t
  PROVE  QueueIn(s, NextSlot(h), t) = Tail(QueueIn(s, h, t))
<1> DEFINE m == NextSlot(h)
           a == QueueIn(s, m, t)
           q == QueueIn(s, h, t)
           n == Length(h, t)
<1>0. m \in Slots /\ m = IF h + 1 = RingSize THEN 0 ELSE h + 1
  BY NextSlotValue
<1> HIDE DEF m
<1>1. n \in Nat /\ n >= 1 /\ Length(m, t) = n - 1
  BY <1>0, RWLockAssumption DEF Length, Slots
<1>2. \A k \in 1 .. n - 1 : SlotAt(m, k) = SlotAt(h, k + 1)
  BY <1>0, RWLockAssumption DEF SlotAt, Slots, Length
<1>3. /\ a \in [1 .. n - 1 -> Threads \cup {NoThread}]
      /\ \A k \in 1 .. n - 1 : a[k] = s[SlotAt(m, k)]
      /\ q \in [1 .. n -> Threads \cup {NoThread}]
      /\ \A k \in 1 .. n : q[k] = s[SlotAt(h, k)]
  <2>1. /\ a \in [1 .. Length(m, t) -> Threads \cup {NoThread}]
        /\ \A k \in 1 .. Length(m, t) : a[k] = s[SlotAt(m, k)]
    BY <1>0, QueueWithoutRemainder
  <2>2. /\ q \in [1 .. n -> Threads \cup {NoThread}]
        /\ \A k \in 1 .. n : q[k] = s[SlotAt(h, k)]
    BY QueueWithoutRemainder
  <2> HIDE DEF n, a, q
  <2> QED
    BY <1>1, <2>1, <2>2
<1> HIDE DEF n, a, q
<1>4. q \in Seq(Threads \cup {NoThread}) /\ Len(q) = n
  BY <1>1, <1>3
<1>5. \A k \in 1 .. n - 1 : k + 1 \in 1 .. n
  BY <1>1
<1>6. \A k \in 1 .. n - 1 : a[k] = q[k + 1]
  BY <1>2, <1>3, <1>5
<1>7. a = Tail(q)
  BY <1>1, <1>3, <1>4, <1>6
<1> QED
  BY <1>7 DEF m, a, q
-----------------------------------------------------------------------------
(* The modes of the threads, and what a step does to them. *)

LEMMA ModeFacts ==
  ASSUME NEW p \in [Threads -> PCs], NEW t \in Threads
  PROVE  PromisedMode(p)[t] =
           CASE p[t] \in {"rwait", "rwoken"} -> "wantRead"
             [] p[t] \in {"wwait", "wwoken"} -> "wantWrite"
             [] p[t] = "failed" -> "refused"
             [] OTHER -> p[t]
BY DEF PromisedMode

\* Signals are invisible: only the mode of the thread that moves changes.
LEMMA ModeMoves ==
  ASSUME NEW p \in [Threads -> PCs], NEW q \in [Threads -> PCs],
         NEW t \in Threads, Moves(p, q, t)
  PROVE  PromisedMode(q) = [PromisedMode(p) EXCEPT ![t] = PromisedMode(q)[t]]
BY DEF PromisedMode, Moves, PCs

LEMMA PromisedSets ==
  ASSUME pc \in [Threads -> PCs]
  PROVE  /\ Promise!Readers = In(pc, Counted)
         /\ Promise!Writers = In(pc, {"writing"})
<1>1. ASSUME NEW t \in Threads
      PROVE  /\ PromisedMode(pc)[t] \in {"wantRead", "reading"}
                  <=> pc[t] \in Counted
             /\ PromisedMode(pc)[t] = "writing" <=> pc[t] = "writing"
  BY ModeFacts DEF PCs, Counted
<1> QED
  BY <1>1 DEF Promise!Readers, Promise!Writers, In

LEMMA InitPromised == Init => Promise!Init
<1> SUFFICES ASSUME Init PROVE Promise!Init
  OBVIOUS
<1>1. PromisedMode(pc) = [t \in Threads |-> "idle"]
  BY DEF PromisedMode, Init
<1>2. /\ writer_ring_head = writer_ring_tail
      /\ writer_ring_head \in Slots
      /\ writer_ring \in [Slots -> Threads \cup {NoThread}]
  BY RWLockAssumption DEF Init, Slots
<1>3. QueueIn(writer_ring, writer_ring_head, writer_ring_tail) = <<>>
  BY <1>2, QueueFacts
<1> QED
  BY <1>1, <1>3 DEF Promise!Init
-----------------------------------------------------------------------------
(* Every step of the lock is a step of the promise, or changes nothing      *)
(* that the promise speaks of.                                              *)

PromisedQueue == QueueIn(writer_ring, writer_ring_head, writer_ring_tail)

\* The mode of a thread that moves, from its program counters.
LEMMA Becomes ==
  ASSUME pc \in [Threads -> PCs], pc' \in [Threads -> PCs],
         NEW t \in Threads, Moves(pc, pc', t), NEW m, PromisedMode(pc')[t] = m
  PROVE  Promise!Become(t, m)
BY ModeMoves DEF Promise!Become

LEMMA Stutters ==
  ASSUME pc \in [Threads -> PCs], pc' \in [Threads -> PCs],
         NEW t \in Threads, Moves(pc, pc', t),
         PromisedMode(pc')[t] = PromisedMode(pc)[t], UNCHANGED ring
  PROVE  UNCHANGED Promise!vars
<1>1. PromisedMode(pc') = PromisedMode(pc)
  <2> DEFINE f == PromisedMode(pc)
  <2>1. f = [u \in Threads |-> f[u]]
    BY DEF PromisedMode
  <2>2. PromisedMode(pc') = [f EXCEPT ![t] = f[t]]
    BY ModeMoves
  <2> HIDE DEF f
  <2> QED
    BY <2>1, <2>2 DEF f
<1> QED
  BY <1>1 DEF Promise!vars, ring

LEMMA ReadLockStep ==
  ASSUME IInv, NEW t \in Threads, ReadLock(t)
  PROVE  Promise!RequestRead(t)
<1> USE Facts
<1>1. /\ pc' \in [Threads -> PCs]
      /\ Moves(pc, pc', t)
      /\ pc[t] \in {"idle", "failed"}
      /\ pc'[t] = IF write_count > 0 THEN "rwait" ELSE "reading"
  BY DEF ReadLock, ReaderTests, Outside, Moves, PCs
<1>2. PromisedMode(pc)[t] \in Promise!Free
  BY <1>1, ModeFacts DEF Promise!Free
<1>3. write_count = 0 <=> Promise!Writers = {}
  BY PromisedSets
<1>4. PromisedMode(pc')[t] =
        IF Promise!Writers = {} THEN "reading" ELSE "wantRead"
  BY <1>1, <1>3, ModeFacts
<1>5. Promise!Become(t, IF Promise!Writers = {} THEN "reading" ELSE "wantRead")
  BY <1>1, <1>4, Becomes
<1>6. UNCHANGED PromisedQueue
  BY DEF ReadLock, ReaderTests, ring, PromisedQueue
<1> QED
  BY <1>2, <1>5, <1>6 DEF Promise!RequestRead, PromisedQueue

LEMMA ReadWakeStep ==
  ASSUME IInv, NEW t \in Threads, ReadWake(t)
  PROVE  Promise!GrantRead(t) \/ UNCHANGED Promise!vars
<1> USE Facts
<1>1. /\ pc' \in [Threads -> PCs]
      /\ Moves(pc, pc', t)
      /\ pc[t] = "rwoken"
      /\ pc'[t] = IF write_count > 0 THEN "rwait" ELSE "reading"
  BY DEF ReadWake, ReaderTests, Moves, PCs
<1>2. PromisedMode(pc)[t] = "wantRead"
  BY <1>1, ModeFacts
<1>3. UNCHANGED ring
  BY DEF ReadWake, ReaderTests
<1>4. CASE write_count = 0
  <2>1. PromisedMode(pc')[t] = "reading"
    BY <1>1, <1>4, ModeFacts
  <2>2. Promise!Writers = {}
    BY <1>4, PromisedSets
  <2>3. Promise!Become(t, "reading")
    BY <1>1, <2>1, Becomes
  <2> QED
    BY <1>2, <1>3, <2>2, <2>3 DEF Promise!GrantRead, ring
<1>5. CASE write_count # 0
  <2>1. PromisedMode(pc')[t] = "wantRead"
    BY <1>1, <1>5, ModeFacts
  <2> QED
    BY <1>1, <1>2, <1>3, <2>1, Stutters
<1> QED
  BY <1>4, <1>5

LEMMA ReadUnlockStep ==
  ASSUME IInv, NEW t \in Threads, ReadUnlock(t)
  PROVE  Promise!ReleaseRead(t)
<1> USE Facts
<1>1. /\ pc' \in [Threads -> PCs]
      /\ Moves(pc, pc', t)
      /\ pc[t] = "reading" /\ pc'[t] = "idle"
  BY ReadUnlockMoves DEF IInv, CountedSets
<1>2. PromisedMode(pc)[t] = "reading" /\ PromisedMode(pc')[t] = "idle"
  BY <1>1, ModeFacts
<1>3. Promise!Become(t, "idle")
  BY <1>1, <1>2, Becomes
<1> QED
  BY <1>2, <1>3 DEF Promise!ReleaseRead, ReadUnlock, ring

LEMMA WriteUnlockStep ==
  ASSUME IInv, NEW t \in Threads, WriteUnlock(t)
  PROVE  Promise!ReleaseWrite(t)
<1> USE Facts
<1>1. /\ pc' \in [Threads -> PCs]
      /\ Moves(pc, pc', t)
      /\ pc[t] = "writing" /\ pc'[t] = "idle"
  BY WriteUnlockMoves
<1>2. PromisedMode(pc)[t] = "writing" /\ PromisedMode(pc')[t] = "idle"
  BY <1>1, ModeFacts
<1>3. Promise!Become(t, "idle")
  BY <1>1, <1>2, Becomes
<1> QED
  BY <1>2, <1>3 DEF Promise!ReleaseWrite, WriteUnlock, ring

LEMMA WriteLockFailsStep ==
  ASSUME IInv, NEW t \in Threads, WriteLockFails(t)
  PROVE  Promise!RefuseWrite(t)
<1> USE Facts
<1>1. /\ pc' \in [Threads -> PCs]
      /\ Moves(pc, pc', t)
      /\ pc[t] \in {"idle", "failed"} /\ pc'[t] = "failed"
      /\ NextSlot(writer_ring_tail) = writer_ring_head
  BY DEF WriteLockFails, Outside, RingFull, Moves, PCs
<1>2. PromisedMode(pc)[t] \in Promise!Free /\ PromisedMode(pc')[t] = "refused"
  BY <1>1, ModeFacts DEF Promise!Free
<1>3. Promise!Become(t, "refused")
  BY <1>1, <1>2, Becomes
<1>4. Len(PromisedQueue) = RingSize - 1
  BY <1>1, QueueFacts DEF PromisedQueue
<1> QED
  BY <1>2, <1>3, <1>4
  DEF Promise!RefuseWrite, WriteLockFails, ring, PromisedQueue

LEMMA SpuriousWakeupStep ==
  ASSUME IInv, NEW t \in Threads, SpuriousWakeup(t)
  PROVE  UNCHANGED Promise!vars
<1> USE Facts
<1>1. /\ pc' \in [Threads -> PCs]
      /\ Moves(pc, pc', t)
      /\ \/ pc[t] = "rwait" /\ pc'[t] = "rwoken"
         \/ pc[t] = "wwait" /\ pc'[t] = "wwoken"
  BY DEF SpuriousWakeup, Moves, PCs
<1>2. PromisedMode(pc')[t] = PromisedMode(pc)[t]
  BY <1>1, ModeFacts
<1>3. UNCHANGED ring
  BY DEF SpuriousWakeup
<1> QED
  BY <1>1, <1>2, <1>3, Stutters

LEMMA WriterSleepsMoves ==
  ASSUME pc \in [Threads -> PCs], NEW t \in Threads, WriterSleeps(t)
  PROVE  /\ pc' \in [Threads -> PCs]
         /\ Moves(pc, pc', t)
         /\ pc'[t] = "wwait"
<1>1. PICK p : /\ p \in IF write_count = 0 /\ read_count = 0
                        THEN AfterSignalWriters(pc) ELSE {pc}
               /\ pc' = [p EXCEPT ![t] = "wwait"]
  BY DEF WriterSleeps
<1>2. /\ p \in [Threads -> PCs]
      /\ \A u \in Threads :
           p[u] = pc[u] \/ (pc[u] = "wwait" /\ p[u] = "wwoken")
  BY <1>1, SignalWriters
<1> QED
  BY <1>1, <1>2 DEF Moves, PCs

LEMMA WriteWakeStep ==
  ASSUME IInv, NEW t \in Threads, WriteWake(t)
  PROVE  Promise!GrantWrite(t) \/ UNCHANGED Promise!vars
<1> USE Facts
<1>1. /\ pc[t] = "wwoken"
      /\ UNCHANGED <<writer_ring, writer_ring_tail>>
      /\ WriterTests(t, writer_ring)
  BY DEF WriteWake
<1>2. PromisedMode(pc)[t] = "wantWrite"
  BY <1>1, ModeFacts
<1>3. CASE WriterSleeps(t)
  <2>1. /\ pc' \in [Threads -> PCs]
        /\ Moves(pc, pc', t)
        /\ pc'[t] = "wwait"
    BY <1>3, WriterSleepsMoves
  <2>2. PromisedMode(pc')[t] = "wantWrite"
    BY <2>1, ModeFacts
  <2>3. UNCHANGED ring
    BY <1>1, <1>3 DEF WriterSleeps, ring
  <2> QED
    BY <1>2, <2>1, <2>2, <2>3, Stutters
<1>4. CASE ~MustWait(t, writer_ring) /\ WriterEnters(t)
  <2>1. /\ write_count = 0 /\ read_count = 0
        /\ writer_ring[writer_ring_head] = t
        /\ writer_ring_head' = NextSlot(writer_ring_head)
    BY <1>4 DEF MustWait, WriterEnters
  <2>2. /\ pc' \in [Threads -> PCs]
        /\ Moves(pc, pc', t)
        /\ pc'[t] = "writing"
    BY <1>4 DEF WriterEnters, Moves, PCs
  <2>3. Promise!Writers = {} /\ Promise!Readers = {}
    BY <2>1, PromisedSets
  <2>4. writer_ring_head # writer_ring_tail
    <3>1. Holds(writer_ring, writer_ring_head, writer_ring_tail,
                In(pc, Queued))
      BY RingIsHolds DEF IInv, LockInv
    <3>2. t \in In(pc, Queued)
      BY <1>1 DEF In, Queued
    <3> QED
      BY <3>1, <3>2 DEF Holds, Used, Slots
  <2>5. PromisedQueue # <<>> /\ Head(PromisedQueue) = t
    BY <2>1, <2>4, QueueFacts DEF PromisedQueue
  <2>6. PromisedQueue' = Tail(PromisedQueue)
    BY <1>1, <2>1, <2>4, QueueTail DEF PromisedQueue
  <2>7. Promise!Become(t, "writing")
    <3>1. PromisedMode(pc')[t] = "writing"
      BY <2>2, ModeFacts
    <3> QED
      BY <2>2, <3>1, Becomes
  <2> QED
    BY <2>3, <2>5, <2>6, <2>7 DEF Promise!GrantWrite, PromisedQueue
<1> QED
  BY <1>1, <1>3, <1>4 DEF WriterTests

LEMMA WriteLockStep ==
  ASSUME IInv, NEW t \in Threads, WriteLock(t)
  PROVE  Promise!RequestWrite(t)
<1> USE Facts
<1> DEFINE mid == QueueIn(writer_ring', writer_ring_head, writer_ring_tail')
<1>1. /\ pc[t] \in {"idle", "failed"}
      /\ NextSlot(writer_ring_tail) # writer_ring_head
      /\ writer_ring' = [writer_ring EXCEPT ![writer_ring_tail] = t]
      /\ writer_ring' \in [Slots -> Threads \cup {NoThread}]
      /\ writer_ring_tail' = NextSlot(writer_ring_tail)
      /\ writer_ring_tail' \in Slots
      /\ WriterTests(t, writer_ring')
  BY NextSlotValue DEF WriteLock, Outside, RingFull
<1>2. PromisedMode(pc)[t] \in Promise!Free
  BY <1>1, ModeFacts DEF Promise!Free
<1>3. Len(PromisedQueue) < RingSize - 1
  <2> DEFINE n == Length(writer_ring_head, writer_ring_tail)
  <2>1. /\ Len(PromisedQueue) = n
        /\ n < RingSize /\ n # RingSize - 1
    BY <1>1, QueueFacts DEF PromisedQueue
  <2>2. n \in 0 .. RingSize - 1
    BY QueueWithoutRemainder
  <2> HIDE DEF n
  <2> QED
    BY <2>1, <2>2, RWLockAssumption
<1>4. mid = Append(PromisedQueue, t)
  <2>1. /\ writer_ring' \in [Slots -> Threads \cup {NoThread}]
        /\ NextSlot(writer_ring_tail) # writer_ring_head
        /\ writer_ring'[writer_ring_tail] = t
        /\ \A i \in Slots \ {writer_ring_tail} :
             writer_ring'[i] = writer_ring[i]
    BY <1>1
  <2>2. QueueIn(writer_ring', writer_ring_head, NextSlot(writer_ring_tail))
          = Append(PromisedQueue, t)
    BY <2>1, QueueAppend DEF PromisedQueue
  <2> QED
    BY <1>1, <2>2
<1>5. /\ PromisedQueue = <<>> <=> writer_ring_head = writer_ring_tail
      /\ Promise!Writers = {} <=> write_count = 0
      /\ Promise!Readers = {} <=> read_count = 0
  BY QueueFacts, PromisedSets DEF PromisedQueue
\* t is at the head of the ring exactly when it has joined an empty one.
<1>6. writer_ring'[writer_ring_head] = t
        <=> writer_ring_head = writer_ring_tail
  <2>1. Holds(writer_ring, writer_ring_head, writer_ring_tail, In(pc, Queued))
    BY RingIsHolds DEF IInv, LockInv
  <2>2. writer_ring_head # writer_ring_tail
          => writer_ring[writer_ring_head] \in In(pc, Queued)
    BY <2>1, HeadWaits DEF Holds, Used, Slots
  <2>3. t \notin In(pc, Queued)
    BY <1>1 DEF In, Queued
  <2> QED
    BY <1>1, <2>2, <2>3
<1>7. CASE MustWait(t, writer_ring') /\ WriterSleeps(t)
  <2>1. /\ pc' \in [Threads -> PCs]
        /\ Moves(pc, pc', t)
        /\ pc'[t] = "wwait"
    BY <1>7, WriterSleepsMoves
  <2>2. ~(Promise!Writers = {} /\ Promise!Readers = {}
          /\ PromisedQueue = <<>>)
    BY <1>5, <1>6, <1>7 DEF MustWait
  <2>3. PromisedQueue' = Append(PromisedQueue, t)
    BY <1>4, <1>7 DEF WriterSleeps, PromisedQueue
  <2>4. Promise!Become(t, "wantWrite")
    <3>1. PromisedMode(pc')[t] = "wantWrite"
      BY <2>1, ModeFacts
    <3> QED
      BY <2>1, <3>1, Becomes
  <2> QED
    BY <1>2, <1>3, <2>2, <2>3, <2>4
    DEF Promise!RequestWrite, PromisedQueue
<1>8. CASE ~MustWait(t, writer_ring') /\ WriterEnters(t)
  <2>1. /\ pc' \in [Threads -> PCs]
        /\ Moves(pc, pc', t)
        /\ pc'[t] = "writing"
    BY <1>8 DEF WriterEnters, Moves, PCs
  <2>2. /\ Promise!Writers = {} /\ Promise!Readers = {}
        /\ PromisedQueue = <<>>
        /\ writer_ring_head = writer_ring_tail
    BY <1>5, <1>6, <1>8 DEF MustWait
  <2>3. PromisedQueue' = <<>>
    <3>1. writer_ring_head' = writer_ring_tail'
      BY <1>1, <1>8, <2>2 DEF WriterEnters
    <3> QED
      BY <1>1, <3>1, QueueFacts DEF PromisedQueue
  <2>4. Promise!Become(t, "writing")
    <3>1. PromisedMode(pc')[t] = "writing"
      BY <2>1, ModeFacts
    <3> QED
      BY <2>1, <3>1, Becomes
  <2> QED
    BY <1>2, <1>3, <2>2, <2>3, <2>4
    DEF Promise!RequestWrite, PromisedQueue
<1> QED
  BY <1>1, <1>7, <1>8 DEF WriterTests
-----------------------------------------------------------------------------
\* rwlock.c keeps the promise: first come first served among the writers,
\* readers before writers, refusal only when RingSize - 1 writers wait.
THEOREM LockKeepsPromise == Spec => ImplementsPromise
<1>1. Init => Promise!Init
  BY InitPromised
<1>2. IInv /\ [Next]_vars => [Promise!Next]_(Promise!vars)
  <2> SUFFICES ASSUME IInv, [Next]_vars
               PROVE  Promise!Next \/ UNCHANGED Promise!vars
    OBVIOUS
  <2>1. ASSUME NEW t \in Threads, Step(t)
        PROVE  Promise!Next \/ UNCHANGED Promise!vars
    BY <2>1, ReadLockStep, ReadWakeStep, ReadUnlockStep, WriteLockStep,
       WriteLockFailsStep, WriteWakeStep, WriteUnlockStep
    DEF Step, Promise!Next
  <2>2. ASSUME NEW t \in Threads, SpuriousWakeup(t)
        PROVE  UNCHANGED Promise!vars
    BY <2>2, SpuriousWakeupStep
  <2>3. CASE UNCHANGED vars
    BY <2>3 DEF vars, ring, Promise!vars
  <2> QED
    BY <2>1, <2>2, <2>3 DEF Next
<1> QED
  BY <1>1, <1>2, Invariance, PTL DEF Spec, ImplementsPromise, Promise!Spec
=============================================================================
