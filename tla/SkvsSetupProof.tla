--------------------------- MODULE SkvsSetupProof ---------------------------
(***************************************************************************)
(* Whatever is refused while the table is built, and wherever its          *)
(* destruction stops, nothing is given back that is not held: for any      *)
(* number of buckets.  SetupInv says for each stage what is held: while    *)
(* building what precedes at in the plan, while destroying the table and   *)
(* the locks from at on.                                                   *)
(***************************************************************************)
EXTENDS SkvsSetup, TLAPS

Ones == 5   \* the things for the table, the context included
Size == 4   \* the parts of a lock

\* What precedes the n-th thing of the plan.
Built(n) == {Plan[k] : k \in 1 .. n}

\* The first n things that are taken for the table, and the first n parts of lock i.
SomeOnes(n)     == {One(ForTable[k]) : k \in 1 .. n}
SomeParts(n, i) == {<<Parts[k], i>> : k \in 1 .. n}
Locks(from, to) == UNION {Lock(i) : i \in from .. to - 1}

SetupInv ==
  /\ at \in Nat /\ astray = FALSE /\ nodes \in [Buckets -> Nat]
  /\ setup \in {"skvs_init", "init failed", "in use", "skvs_destroy",
                "destroy failed", "destroyed", "undefined"}
  /\ setup = "skvs_init" => at <= Ones + Size * HASH_SIZE /\ taken = Built(at)
  /\ setup = "in use" => taken = {One("ctx")} \cup Table \cup Locks(0, HASH_SIZE)
  /\ setup = "skvs_destroy" =>
       /\ at <= HASH_SIZE /\ taken = {One("ctx")} \cup Table \cup Locks(at, HASH_SIZE)
       /\ \A b \in Buckets : b < at => nodes[b] = 0
  /\ LeaksKnown
-----------------------------------------------------------------------------
(* The plan. *)

LEMMA Rows ==
  /\ Len(ForTable) = Ones /\ Len(Parts) = Size
  /\ Range(ForTable) = {"ctx", "table", "buckets", "locks", "bucket_sizes"}
  /\ Range(Parts) = {"ring", "lock", "readers", "writers"}
PROOF
<1>1. Range(ForTable) = {"ctx", "table", "buckets", "locks", "bucket_sizes"}
  <2>1. DOMAIN ForTable = {1, 2, 3, 4, 5} BY DEF ForTable
  <2>2. Range(ForTable) = {ForTable[1], ForTable[2], ForTable[3], ForTable[4], ForTable[5]}
    BY <2>1 DEF Range
  <2> QED BY <2>2 DEF ForTable
<1>2. Range(Parts) = {"ring", "lock", "readers", "writers"}
  <2>1. DOMAIN Parts = {1, 2, 3, 4} BY DEF Parts
  <2>2. Range(Parts) = {Parts[1], Parts[2], Parts[3], Parts[4]} BY <2>1 DEF Range
  <2> QED BY <2>2 DEF Parts
<1> QED BY <1>1, <1>2 DEF ForTable, Parts, Ones, Size

LEMMA PlanFacts ==
  /\ Len(Plan) = Ones + Size * HASH_SIZE /\ Len(Plan) \in Nat
  /\ \A k \in 1 .. Ones : k \in 1 .. Len(Plan) /\ Plan[k] = One(ForTable[k])
  /\ \A i \in Buckets, p \in 1 .. Size :
       /\ Ones + Size * i + p \in 1 .. Len(Plan)
       /\ Plan[Ones + Size * i + p] = <<Parts[p], i>>
PROOF
<1>1. Plan = [k \in 1 .. Ones + Size * HASH_SIZE |->
                IF k <= Ones THEN One(ForTable[k])
                ELSE <<Parts[((k - Ones - 1) % Size) + 1], (k - Ones - 1) \div Size>>]
  BY Rows DEF Plan
<1>2. Ones + Size * HASH_SIZE \in Nat BY SetupAssumption DEF Ones, Size
<1>3. Len(Plan) = Ones + Size * HASH_SIZE /\ DOMAIN Plan = 1 .. Ones + Size * HASH_SIZE
  <2>1. PICK n \in Nat : n = Ones + Size * HASH_SIZE BY <1>2
  <2>2. DOMAIN Plan = 1 .. n BY <1>1, <2>1
  <2>3. ASSUME NEW f, DOMAIN f = 1 .. n, f = [k \in DOMAIN f |-> f[k]] PROVE Len(f) = n
    BY <2>3
  <2>4. Plan = [k \in DOMAIN Plan |-> Plan[k]] BY <1>1
  <2> QED BY <2>1, <2>2, <2>3, <2>4
<1>4. ASSUME NEW i \in Buckets, NEW p \in 1 .. Size
      PROVE  /\ Ones + Size * i + p \in 1 .. Len(Plan)
             /\ Plan[Ones + Size * i + p] = <<Parts[p], i>>
  <2>1. i \in Nat /\ i <= HASH_SIZE - 1 BY SetupAssumption DEF Buckets
  <2>2. Ones + Size * i + p \in 1 .. Ones + Size * HASH_SIZE /\ ~(Ones + Size * i + p <= Ones)
    BY <2>1, SetupAssumption DEF Ones, Size
  <2>3. (Ones + Size * i + p - Ones - 1) % Size = p - 1 /\ (Ones + Size * i + p - Ones - 1) \div Size = i
    BY <2>1 DEF Ones, Size
  <2>4. p - 1 + 1 = p BY DEF Size
  <2>5. PICK k \in 1 .. Ones + Size * HASH_SIZE : k = Ones + Size * i + p BY <2>2
  <2>6. Plan[k] = <<Parts[((k - Ones - 1) % Size) + 1], (k - Ones - 1) \div Size>> BY <1>1, <2>2, <2>5
  <2>7. ((k - Ones - 1) % Size) + 1 = p /\ (k - Ones - 1) \div Size = i BY <2>1, <2>5 DEF Ones, Size
  <2>8. Plan[k] = <<Parts[p], i>> BY <2>6, <2>7
  <2> QED BY <1>3, <2>5, <2>8
<1>5. ASSUME NEW k \in 1 .. Ones
      PROVE  k \in 1 .. Len(Plan) /\ Plan[k] = One(ForTable[k])
  <2>1. k \in 1 .. Ones + Size * HASH_SIZE BY SetupAssumption DEF Ones, Size
  <2>2. k <= Ones BY DEF Ones
  <2> QED BY <1>1, <1>3, <2>1, <2>2
<1> QED BY <1>2, <1>3, <1>4, <1>5

\* Each place of the plan is one of these.
LEMMA Places ==
  ASSUME NEW k \in 1 .. Len(Plan)
  PROVE  k \in 1 .. Ones \/ \E i \in Buckets, p \in 1 .. Size : k = Ones + Size * i + p
PROOF
<1>1. k \in Nat /\ 1 <= k /\ k <= Ones + Size * HASH_SIZE BY PlanFacts, SetupAssumption DEF Ones, Size
<1>2. CASE k <= Ones BY <1>1, <1>2 DEF Ones
<1>3. CASE ~(k <= Ones)
  <2>1. PICK i, p : i = (k - Ones - 1) \div Size /\ p = ((k - Ones - 1) % Size) + 1 OBVIOUS
  <2>2. i \in Nat /\ p \in 1 .. Size /\ k = Ones + Size * i + p
    BY <1>1, <1>3, <2>1 DEF Ones, Size
  <2>3. i \in Buckets BY <1>1, <2>2, SetupAssumption DEF Buckets, Ones, Size
  <2> QED BY <2>2, <2>3
<1> QED BY <1>2, <1>3

\* What is held when the table's own things and the parts of some locks have been taken.
LEMMA BuiltOnes ==
  ASSUME NEW n \in 0 .. Ones
  PROVE  Built(n) = SomeOnes(n)
PROOF
<1>1. \A k \in 1 .. n : k \in 1 .. Ones BY DEF Ones
<1>2. \A k \in 1 .. n : Plan[k] = One(ForTable[k]) BY <1>1, PlanFacts
<1> QED BY <1>2 DEF Built, SomeOnes

LEMMA AllOnes == SomeOnes(Ones) = {One("ctx")} \cup Table
PROOF
<1>1. 1 .. Ones = DOMAIN ForTable BY DEF Ones, ForTable
<1>2. SomeOnes(Ones) = {One(name) : name \in Range(ForTable)} BY <1>1 DEF SomeOnes, Range
<1> QED BY <1>2, Rows DEF Table

LEMMA BuiltLocks ==
  ASSUME NEW i \in 0 .. HASH_SIZE, NEW r \in 0 .. Size, i = HASH_SIZE => r = 0
  PROVE  /\ Ones + Size * i + r \in 0 .. Len(Plan)
         /\ Built(Ones + Size * i + r) = {One("ctx")} \cup Table \cup Locks(0, i) \cup SomeParts(r, i)
PROOF
<1>0. HASH_SIZE \in Nat /\ Len(Plan) = Ones + Size * HASH_SIZE BY SetupAssumption, PlanFacts
<1>1. PICK n \in Nat : n = Ones + Size * i + r BY <1>0 DEF Ones, Size
<1>2. n <= Len(Plan) BY <1>0, <1>1 DEF Ones, Size
<1>3. ASSUME NEW k \in 1 .. n
      PROVE  Plan[k] \in SomeOnes(Ones) \cup Locks(0, i) \cup SomeParts(r, i)
  <2>1. k \in 1 .. Len(Plan) BY <1>0, <1>2, PlanFacts
  <2>2. CASE k \in 1 .. Ones
    BY <2>2, PlanFacts DEF SomeOnes
  <2>3. ASSUME NEW j \in Buckets, NEW p \in 1 .. Size, k = Ones + Size * j + p
        PROVE  Plan[k] \in Locks(0, i) \cup SomeParts(r, i)
    <3>1. Plan[k] = <<Parts[p], j>> BY <2>3, PlanFacts
    <3>2. (j < i /\ j \in 0 .. i - 1) \/ (j = i /\ p \in 1 .. r)
      BY <1>0, <1>1, <2>3 DEF Ones, Size, Buckets
    <3>3. Parts[p] \in Range(Parts) BY Rows DEF Range, Parts, Size
    <3> QED BY <3>1, <3>2, <3>3 DEF Locks, Lock, SomeParts
  <2> QED BY <2>1, <2>2, <2>3, Places
<1>4. SomeOnes(Ones) \subseteq Built(n)
  <2>1. ASSUME NEW k \in 1 .. Ones PROVE k \in 1 .. n /\ Plan[k] = One(ForTable[k])
    BY <1>1, PlanFacts DEF Ones, Size
  <2> QED BY <2>1 DEF SomeOnes, Built
<1>5. ASSUME NEW j \in 0 .. i - 1, NEW part \in Range(Parts)
      PROVE  <<part, j>> \in Built(n)
  <2>1. PICK p \in 1 .. Size : Parts[p] = part BY Rows DEF Range, Parts, Size
  <2>2. j \in Buckets BY <1>0 DEF Buckets
  <2>3. PICK k : k = Ones + Size * j + p OBVIOUS
  <2>4. Plan[k] = <<part, j>> BY <2>1, <2>2, <2>3, PlanFacts
  <2>5. k \in 1 .. n BY <1>1, <2>3 DEF Ones, Size
  <2> QED BY <2>4, <2>5 DEF Built
<1>6. ASSUME NEW p \in 1 .. r PROVE <<Parts[p], i>> \in Built(n)
  <2>1. p \in 1 .. Size /\ i \in Buckets BY <1>0 DEF Size, Buckets
  <2>2. PICK k : k = Ones + Size * i + p OBVIOUS
  <2>3. Plan[k] = <<Parts[p], i>> BY <2>1, <2>2, PlanFacts
  <2>4. k \in 1 .. n BY <1>1, <2>2 DEF Ones, Size
  <2> QED BY <2>3, <2>4 DEF Built
<1>7. Built(n) = SomeOnes(Ones) \cup Locks(0, i) \cup SomeParts(r, i)
  <2>1. Built(n) \subseteq SomeOnes(Ones) \cup Locks(0, i) \cup SomeParts(r, i)
    BY <1>3 DEF Built
  <2>2. Locks(0, i) \subseteq Built(n) BY <1>5 DEF Locks, Lock
  <2>3. SomeParts(r, i) \subseteq Built(n) BY <1>6 DEF SomeParts
  <2> QED BY <1>4, <2>1, <2>2, <2>3
<1> QED BY <1>1, <1>2, <1>7, AllOnes, PlanFacts
-----------------------------------------------------------------------------
(* The steps. *)

\* What a lock that is refused its p-th part gives back it holds; the ring stays.
LEMMA PartsUndone ==
  ASSUME NEW i \in Buckets, NEW p \in 1 .. Size
  PROVE  /\ UndoneByLock(Parts[p], i) \subseteq SomeParts(p - 1, i)
         /\ SomeParts(p - 1, i) \subseteq UndoneByLock(Parts[p], i) \cup {<<"ring", i>>}
PROOF
<1>1. p \in {1, 2, 3, 4} BY DEF Size
<1>2. /\ SomeParts(0, i) = {}
      /\ SomeParts(1, i) = {<<"ring", i>>}
      /\ SomeParts(2, i) = {<<"ring", i>>, <<"lock", i>>}
      /\ SomeParts(3, i) = {<<"ring", i>>, <<"lock", i>>, <<"readers", i>>}
  <2>1. 1 .. 0 = {} /\ 1 .. 1 = {1} /\ 1 .. 2 = {1, 2} /\ 1 .. 3 = {1, 2, 3} OBVIOUS
  <2>2. Parts[1] = "ring" /\ Parts[2] = "lock" /\ Parts[3] = "readers" BY DEF Parts
  <2> QED BY <2>1, <2>2 DEF SomeParts
<1>3. /\ UndoneByLock("ring", i) = {} /\ UndoneByLock("lock", i) = {}
      /\ UndoneByLock("readers", i) = {<<"lock", i>>}
      /\ UndoneByLock("writers", i) = {<<"readers", i>>, <<"lock", i>>}
  BY DEF UndoneByLock
<1>4. Parts[1] = "ring" /\ Parts[2] = "lock" /\ Parts[3] = "readers" /\ Parts[4] = "writers" BY DEF Parts
<1>5. CASE p = 1 BY <1>2, <1>3, <1>4, <1>5
<1>6. CASE p = 2 BY <1>2, <1>3, <1>4, <1>6
<1>7. CASE p = 3 BY <1>2, <1>3, <1>4, <1>7
<1>8. CASE p = 4 BY <1>2, <1>3, <1>4, <1>8
<1> QED BY <1>1, <1>5, <1>6, <1>7, <1>8

\* What building gives back when it is refused the next thing it holds, and little
\* else is left.
LEMMA RefusalUndone ==
  ASSUME NEW n \in Nat, n < Len(Plan), Plan[n + 1] # One("ctx")
  PROVE  /\ Undone(Plan[n + 1]) \subseteq Built(n)
         /\ \E i \in Buckets : Built(n) \ Undone(Plan[n + 1]) \subseteq {One("ctx"), <<"ring", i>>}
PROOF
<1>1. n + 1 \in 1 .. Len(Plan) BY PlanFacts
<1>2. 0 \in Buckets BY SetupAssumption DEF Buckets
<1>3. CASE n + 1 \in 1 .. Ones
  <2>1. n \in 0 .. Ones /\ n \in {0, 1, 2, 3, 4} BY <1>3 DEF Ones
  <2>2. Built(n) = SomeOnes(n) /\ Plan[n + 1] = One(ForTable[n + 1]) BY <1>3, <2>1, BuiltOnes, PlanFacts
  <2>3. /\ SomeOnes(1) = {One("ctx")}
        /\ SomeOnes(2) = {One("ctx"), One("table")}
        /\ SomeOnes(3) = {One("ctx"), One("table"), One("buckets")}
        /\ SomeOnes(4) = {One("ctx"), One("table"), One("buckets"), One("locks")}
    <3>1. 1 .. 1 = {1} /\ 1 .. 2 = {1, 2} /\ 1 .. 3 = {1, 2, 3} /\ 1 .. 4 = {1, 2, 3, 4} OBVIOUS
    <3>2. ForTable[1] = "ctx" /\ ForTable[2] = "table" /\ ForTable[3] = "buckets" /\ ForTable[4] = "locks"
      BY DEF ForTable
    <3> QED BY <3>1, <3>2 DEF SomeOnes
  <2>4. /\ Undone(One("table")) = {} /\ Undone(One("buckets")) = {One("table")}
        /\ Undone(One("locks")) = {One("table"), One("buckets")}
        /\ Undone(One("bucket_sizes")) = {One("table"), One("buckets"), One("locks")}
    BY DEF Undone, One
  <2>5. /\ ForTable[1] = "ctx" /\ ForTable[2] = "table" /\ ForTable[3] = "buckets" /\ ForTable[4] = "locks"
        /\ ForTable[5] = "bucket_sizes"
    BY DEF ForTable
  <2>6. CASE n = 0 BY <2>2, <2>5, <2>6
  <2>7. CASE n = 1 BY <1>2, <2>2, <2>3, <2>4, <2>5, <2>7
  <2>8. CASE n = 2 BY <1>2, <2>2, <2>3, <2>4, <2>5, <2>8
  <2>9. CASE n = 3 BY <1>2, <2>2, <2>3, <2>4, <2>5, <2>9
  <2>10. CASE n = 4 BY <1>2, <2>2, <2>3, <2>4, <2>5, <2>10
  <2> QED BY <2>1, <2>6, <2>7, <2>8, <2>9, <2>10
<1>4. ASSUME NEW i \in Buckets, NEW p \in 1 .. Size, n + 1 = Ones + Size * i + p
      PROVE  /\ Undone(Plan[n + 1]) \subseteq Built(n)
             /\ Built(n) \ Undone(Plan[n + 1]) \subseteq {One("ctx"), <<"ring", i>>}
  <2>1. Plan[n + 1] = <<Parts[p], i>> BY <1>4, PlanFacts
  <2>2. Undone(<<Parts[p], i>>) = UndoneByLock(Parts[p], i) \cup Table \cup Locks(0, i)
    <3>1. i # -1 /\ i \in Int BY SetupAssumption DEF Buckets
    <3>2. \A name : <<Parts[p], i>> # One(name) BY <3>1 DEF One
    <3> QED BY <3>2 DEF Undone, UndoneByTable, Locks
  <2>3. /\ i \in 0 .. HASH_SIZE /\ p - 1 \in 0 .. Size /\ i # HASH_SIZE
        /\ Ones + Size * i + (p - 1) = n
    BY <1>4, SetupAssumption DEF Buckets, Ones, Size
  <2>4. Built(n) = {One("ctx")} \cup Table \cup Locks(0, i) \cup SomeParts(p - 1, i)
    BY <2>3, BuiltLocks
  <2> QED BY <2>1, <2>2, <2>4, PartsUndone
<1> QED BY <1>1, <1>3, <1>4, Places

\* The lock to be destroyed next, and the others.
LEMMA NextLock ==
  ASSUME NEW i \in Nat, i < HASH_SIZE
  PROVE  /\ Locks(i, HASH_SIZE) = Lock(i) \cup Locks(i + 1, HASH_SIZE)
         /\ (Lock(i) \cap (Locks(i + 1, HASH_SIZE) \cup {One("ctx")} \cup Table)) = {}
PROOF
<1>0. HASH_SIZE \in Nat BY SetupAssumption
<1>1. i .. HASH_SIZE - 1 = {i} \cup (i + 1) .. HASH_SIZE - 1 BY <1>0
<1>2. ASSUME NEW j \in (i + 1) .. HASH_SIZE - 1, NEW x \in Lock(j) PROVE x \notin Lock(i)
  BY <1>0 DEF Lock
<1>3. ASSUME NEW name PROVE One(name) \notin Lock(i) BY DEF One, Lock
<1> QED BY <1>1, <1>2, <1>3 DEF Locks, Table

LEMMA TableApart == One("ctx") \notin Table /\ Locks(HASH_SIZE, HASH_SIZE) = {}
PROOF
<1>1. HASH_SIZE .. HASH_SIZE - 1 = {} BY SetupAssumption
<1> QED BY <1>1 DEF Table, One, Locks

LEMMA InvInitially == SetupInit => SetupInv
PROOF
<1>1. 0 <= Ones + Size * HASH_SIZE BY SetupAssumption DEF Ones, Size
<1>2. 1 .. 0 = {} OBVIOUS
<1> QED BY <1>1, <1>2 DEF SetupInit, SetupInv, LeaksKnown, Built

LEMMA TakeKeeps == SetupInv /\ Take => SetupInv'
PROOF
<1> SUFFICES ASSUME SetupInv, Take PROVE SetupInv' OBVIOUS
<1>1. at \in Nat /\ at < Len(Plan) /\ taken = Built(at) BY DEF SetupInv, Take
<1>2. 1 .. at + 1 = 1 .. at \cup {at + 1} BY <1>1
<1>3. Built(at + 1) = Built(at) \cup {Plan[at + 1]} BY <1>2 DEF Built
<1>4. at + 1 <= Ones + Size * HASH_SIZE BY <1>1, PlanFacts, SetupAssumption DEF Ones, Size
<1> QED BY <1>1, <1>3, <1>4 DEF SetupInv, Take, LeaksKnown

LEMMA RefusedKeeps == SetupInv /\ Refused => SetupInv'
PROOF
<1> SUFFICES ASSUME SetupInv, Refused PROVE SetupInv' OBVIOUS
<1>1. at \in Nat /\ at < Len(Plan) /\ taken = Built(at) /\ astray = FALSE BY DEF SetupInv, Refused
<1>2. CASE Plan[at + 1] = One("ctx")
  BY <1>1, <1>2 DEF SetupInv, Refused, LeaksKnown
<1>3. CASE Plan[at + 1] # One("ctx")
  <2>1. /\ setup' = "init failed" /\ at' = at /\ nodes' = nodes
        /\ taken' = taken \ Undone(Plan[at + 1])
        /\ astray' = (astray \/ ~(Undone(Plan[at + 1]) \subseteq taken))
    BY <1>3 DEF Refused, GiveBack
  <2>2. astray' = FALSE BY <1>1, <1>3, <2>1, RefusalUndone
  <2>3. \E i \in Buckets : taken' \subseteq {One("ctx"), <<"ring", i>>} BY <1>1, <1>3, <2>1, RefusalUndone
  <2> QED BY <2>1, <2>2, <2>3 DEF SetupInv, LeaksKnown
<1> QED BY <1>2, <1>3

LEMMA ReadyKeeps == SetupInv /\ Ready => SetupInv'
PROOF
<1> SUFFICES ASSUME SetupInv, Ready PROVE SetupInv' OBVIOUS
<1>1. HASH_SIZE \in 0 .. HASH_SIZE /\ 0 \in 0 .. Size BY SetupAssumption DEF Size
<1>2. at = Ones + Size * HASH_SIZE + 0
  <2>1. at = Len(Plan) BY DEF Ready
  <2>2. at = Ones + Size * HASH_SIZE BY <2>1, PlanFacts
  <2> QED BY <2>2, SetupAssumption DEF Ones, Size
<1>3. SomeParts(0, HASH_SIZE) = {}
  <2>1. 1 .. 0 = {} OBVIOUS
  <2> QED BY <2>1 DEF SomeParts
<1>4. taken = {One("ctx")} \cup Table \cup Locks(0, HASH_SIZE)
  BY <1>1, <1>2, <1>3, BuiltLocks DEF SetupInv, Ready
<1> QED BY <1>4 DEF SetupInv, Ready, LeaksKnown

LEMMA StartDestroyKeeps == SetupInv /\ StartDestroy => SetupInv'
PROOF
<1> SUFFICES ASSUME SetupInv, StartDestroy PROVE SetupInv' OBVIOUS
<1>1. \A b \in Buckets : ~(b < 0) BY DEF Buckets
<1>2. 0 <= HASH_SIZE BY SetupAssumption
<1> QED BY <1>1, <1>2 DEF SetupInv, StartDestroy, LeaksKnown

LEMMA DestroyBucketKeeps == SetupInv /\ DestroyBucket => SetupInv'
PROOF
<1> SUFFICES ASSUME SetupInv, DestroyBucket PROVE SetupInv' OBVIOUS
<1>1. at \in Nat /\ at < HASH_SIZE /\ nodes \in [Buckets -> Nat] /\ setup = "skvs_destroy" /\ astray = FALSE
  BY DEF SetupInv, DestroyBucket
<1>2. taken = {One("ctx")} \cup Table \cup Locks(at, HASH_SIZE) BY <1>1 DEF SetupInv
<1>3. /\ taken' = taken \ Lock(at) /\ astray' = (astray \/ ~(Lock(at) \subseteq taken)) /\ at' = at + 1
      /\ nodes' = [nodes EXCEPT ![at] = 0] /\ setup' = setup
  BY DEF DestroyBucket, GiveBack
<1>4. astray' = FALSE
  <2>1. Lock(at) \subseteq taken BY <1>1, <1>2, NextLock
  <2> QED BY <1>1, <1>3, <2>1
<1>5. taken' = {One("ctx")} \cup Table \cup Locks(at + 1, HASH_SIZE) BY <1>1, <1>2, <1>3, NextLock
<1>6. nodes' \in [Buckets -> Nat] /\ \A b \in Buckets : b < at + 1 => nodes'[b] = 0
  BY <1>1, <1>3, SetupAssumption DEF SetupInv, Buckets
<1>7. at + 1 \in Nat /\ at + 1 <= HASH_SIZE BY <1>1, SetupAssumption
<1> QED BY <1>1, <1>3, <1>4, <1>5, <1>6, <1>7 DEF SetupInv, LeaksKnown

LEMMA DestroyFailsKeeps == SetupInv /\ DestroyFails => SetupInv'
PROOF
<1> SUFFICES ASSUME SetupInv, DestroyFails PROVE SetupInv' OBVIOUS
<1>1. at \in Nat /\ at < HASH_SIZE /\ nodes \in [Buckets -> Nat] /\ setup = "skvs_destroy" /\ astray = FALSE
  BY DEF SetupInv, DestroyFails
<1>2. Lock(at) \subseteq taken BY <1>1, NextLock DEF SetupInv
<1>3. PICK gone \in {{}, {<<"lock", at>>}, {<<"lock", at>>, <<"readers", at>>}} : GiveBack(gone)
  BY DEF DestroyFails
<1>4. gone \subseteq Lock(at) BY <1>3, Rows DEF Lock
<1>5. astray' = FALSE BY <1>1, <1>2, <1>3, <1>4 DEF GiveBack
<1>6. nodes' \in [Buckets -> Nat] BY <1>1 DEF DestroyFails
<1> QED BY <1>1, <1>5, <1>6 DEF SetupInv, DestroyFails, LeaksKnown

LEMMA DestroyTableKeeps == SetupInv /\ DestroyTable => SetupInv'
PROOF
<1> SUFFICES ASSUME SetupInv, DestroyTable PROVE SetupInv' OBVIOUS
<1>1. at = HASH_SIZE /\ nodes \in [Buckets -> Nat] /\ setup = "skvs_destroy" /\ astray = FALSE
  BY DEF SetupInv, DestroyTable
<1>2. taken = {One("ctx")} \cup Table BY <1>1, TableApart DEF SetupInv
<1>3. taken' = taken \ Table /\ astray' = (astray \/ ~(Table \subseteq taken)) /\ setup' = "destroyed"
      /\ at' = at /\ nodes' = nodes
  BY DEF DestroyTable, GiveBack
<1>4. astray' = FALSE BY <1>1, <1>2, <1>3
<1>5. taken' = {One("ctx")} BY <1>2, <1>3, TableApart
<1>6. \A b \in Buckets : nodes[b] = 0
  <2>1. \A b \in Buckets : b < HASH_SIZE BY SetupAssumption DEF Buckets
  <2> QED BY <1>1, <2>1 DEF SetupInv
<1> QED BY <1>1, <1>3, <1>4, <1>5, <1>6 DEF SetupInv, LeaksKnown

LEMMA CreateEntryKeeps == \A b \in Buckets : SetupInv /\ CreateEntry(b) => SetupInv'
PROOF
<1> SUFFICES ASSUME NEW b \in Buckets, SetupInv, CreateEntry(b) PROVE SetupInv' OBVIOUS
<1>1. /\ setup = "in use" /\ setup' = setup /\ taken' = taken /\ at' = at /\ astray' = astray
      /\ nodes' = [nodes EXCEPT ![b] = nodes[b] + 1]
  BY DEF CreateEntry
<1>2. nodes \in [Buckets -> Nat] BY DEF SetupInv
<1>3. nodes[b] + 1 \in Nat BY <1>2
<1>4. nodes' \in [Buckets -> Nat] BY <1>1, <1>2, <1>3
<1> QED BY <1>1, <1>4 DEF SetupInv, LeaksKnown

\* Whatever is refused while the table is built, and wherever its destruction stops,
\* nothing is given back twice, or that was not taken, and what stays is known:
\* skvs_init, hash_init, rwlock_init and their counterparts, for any number of buckets.
THEOREM BuiltAndTornDown == SetupSpec => []TeardownSound
PROOF
<1>1. SetupInit => SetupInv BY InvInitially
<1>2. SetupInv /\ [SetupNext]_setupVars => SetupInv'
  <2>1. SetupInv /\ UNCHANGED setupVars => SetupInv' BY DEF SetupInv, setupVars, LeaksKnown
  <2> QED BY <2>1, TakeKeeps, RefusedKeeps, ReadyKeeps, StartDestroyKeeps, DestroyBucketKeeps,
             DestroyFailsKeeps, DestroyTableKeeps, CreateEntryKeeps DEF SetupNext
<1>3. SetupInv => TeardownSound BY DEF SetupInv, TeardownSound, NothingGivenBackTwice
<1> QED BY <1>1, <1>2, <1>3, PTL DEF SetupSpec
=============================================================================
