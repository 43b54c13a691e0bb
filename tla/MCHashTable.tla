---------------------------- MODULE MCHashTable ----------------------------
(* Instances of HashTable for TLC: who may send which requests. *)
EXTENDS HashTable, TLC

CONSTANTS t1, t2, t3,  k1, k2, k3,  b1, b2,  v1, v2,
          n1, n2,  c1, c2, c3

\* k1 and k2 collide, k3 has the other bucket to itself.
HashOf == (k1 :> b1) @@ (k2 :> b1) @@ (k3 :> b2)

Create(k, V) == [op : {"CREATE"}, key : {k}, val : V]
Change(k, V) == [op : {"UPDATE"}, key : {k}, val : V]
Read(k)      == [op : {"READ"}, key : {k}, val : {Absent}]
Remove(k)    == [op : {"DELETE"}, key : {k}, val : {Absent}]
AllOf(k, V)  == Create(k, V) \cup Change(k, V) \cup Read(k) \cup Remove(k)

\* Each thread has its clients' keys, and their bucket, to itself.
PrivateWork == (t1 :> (AllOf(k1, {v1}) \cup Create(k2, {v2}) \cup Remove(k2)))
            @@ (t2 :> (Create(k3, {v1}) \cup Remove(k3)))
HeapSymmetry == Permutations({n1, n2}) \cup Permutations({c1, c2, c3})

\* One thread adds entries to a bucket; the others read one of them and
\* update the other, at odds with each other.
SharedWork == (t1 :> (Create(k1, {v1}) \cup Create(k2, {v1})))
           @@ (t2 :> (Read(k1) \cup Change(k2, {v2})))
           @@ (t3 :> Change(k2, {v1}))

\* Every thread writes the one bucket.
UpdateWork == (t1 :> Create(k1, {v1}))
           @@ (t2 :> Change(k1, {v2})) @@ (t3 :> Change(k1, {v2}))

\* The mixes that do no harm.
GoodMixes == {[t \in Threads |-> IF t \in DOMAIN w THEN w[t] ELSE {}] :
                w \in {PrivateWork, SharedWork, UpdateWork}}

ASSUME GoodMixesAreOrderly == \A m \in GoodMixes : Orderly(m)

\* The mixes that the stale head and the pointer to the value do not survive.
CreateMixes == {[t \in Threads |-> Create(k1, {v1}) \cup Create(k2, {v1})]}
ReplaceMixes == {(t1 :> (Create(k1, {v1}) \cup Change(k1, {v2})))
                 @@ (t2 :> Read(k1))}
=============================================================================
