----------------------------- MODULE SkvsSetup ------------------------------
(***************************************************************************)
(* How the table of the key-value server is built and torn down: skvs_init *)
(* and skvs_destroy (skvslib.c), hash_init and hash_destroy (hashtable.c), *)
(* rwlock_init and rwlock_destroy (rwlock.c, src/SP_LAB5).  Each takes     *)
(* several things one after the other, any of which may be refused, and    *)
(* then gives back what it has so far.                                     *)
(*                                                                         *)
(* A thing is a pair of its name and the bucket it belongs to.  What       *)
(* rwlock_init finds in the pointer to the ring is NULL.                   *)
(***************************************************************************)
EXTENDS Integers, Sequences, Functions

CONSTANTS HASH_SIZE,   \* the buckets
          MaxNodes     \* bound: the entries made while the table is in use

ASSUME SetupAssumption == HASH_SIZE \in Nat \ {0} /\ MaxNodes \in Nat

VARIABLES setup,   \* "skvs_init", "init failed", "in use", "skvs_destroy",
                  \* "destroy failed", "destroyed" or "undefined"
          taken,    \* what has been taken and not given back
          at,      \* how many things have been taken, or locks destroyed
          nodes,   \* the entries of each bucket
          astray   \* history: whether something not held has been given back

setupVars == <<setup, taken, at, nodes, astray>>

Buckets  == 0 .. HASH_SIZE - 1
Parts    == <<"ring", "lock", "readers", "writers">>   \* of a rwlock_t
ForTable == <<"ctx", "table", "buckets", "locks", "bucket_sizes">>

One(name) == <<name, -1>>
Lock(i)   == {<<part, i>> : part \in Range(Parts)}
Table     == {One(name) : name \in Range(ForTable) \ {"ctx"}}

\* What skvs_init takes, in its order: one thing after the other for the table,
\* then part after part of lock after lock.
Plan ==
  LET ones == Len(ForTable)
      size == Len(Parts)
  IN [k \in 1 .. ones + size * HASH_SIZE |->
        IF k <= ones THEN One(ForTable[k])
        ELSE <<Parts[((k - ones - 1) % size) + 1], (k - ones - 1) \div size>>]

SetupInit ==
  /\ setup = "skvs_init" /\ taken = {} /\ at = 0 /\ astray = FALSE
  /\ nodes = [b \in Buckets |-> 0]

\* free, or pthread_..._destroy, of all in gone.
GiveBack(gone) == taken' = taken \ gone /\ astray' = (astray \/ ~(gone \subseteq taken))

Take ==
  /\ setup = "skvs_init" /\ at < Len(Plan)
  /\ taken' = taken \cup {Plan[at + 1]} /\ at' = at + 1
  /\ UNCHANGED <<setup, nodes, astray>>

\* What rwlock_init gives back when it is refused a part of lock i: not the ring.
UndoneByLock(part, i) ==
  CASE part \in {"ring", "lock"} -> {}
    [] part = "readers" -> {<<"lock", i>>}
    [] OTHER            -> {<<"readers", i>>, <<"lock", i>>}

\* Variant: the locks before it are left as they are.
UndoneByTable_NoLocks(thing) == Table

\* Variant: the lock that failed is destroyed like those before it.
UndoneByTable_All(thing) == Table \cup UNION {Lock(j) : j \in 0 .. thing[2]}
UndoneByTable(thing) == Table \cup UNION {Lock(j) : j \in 0 .. thing[2] - 1}

Undone(thing) ==
  CASE thing = One("table")        -> {}
    [] thing = One("buckets")      -> {One("table")}
    [] thing = One("locks")        -> {One("table"), One("buckets")}
    [] thing = One("bucket_sizes") -> {One("table"), One("buckets"), One("locks")}
    [] OTHER -> UndoneByLock(thing[1], thing[2]) \cup UndoneByTable(thing)

\* Nothing is made of the context when the table fails, and nobody looks whether
\* the context itself has been allocated.
Refused ==
  /\ setup = "skvs_init" /\ at < Len(Plan)
  /\ IF Plan[at + 1] = One("ctx") THEN setup' = "undefined" /\ UNCHANGED <<taken, astray>>
     ELSE setup' = "init failed" /\ GiveBack(Undone(Plan[at + 1]))
  /\ UNCHANGED <<at, nodes>>

Ready ==
  /\ setup = "skvs_init" /\ at = Len(Plan)
  /\ setup' = "in use" /\ UNCHANGED <<taken, at, nodes, astray>>

CreateEntry(b) ==
  /\ setup = "in use" /\ nodes[b] < MaxNodes
  /\ nodes' = [nodes EXCEPT ![b] = @ + 1]
  /\ UNCHANGED <<setup, taken, at, astray>>

StartDestroy ==
  /\ setup = "in use"
  /\ setup' = "skvs_destroy" /\ at' = 0 /\ UNCHANGED <<taken, nodes, astray>>

\* The nodes of a bucket and its lock go, in the order of the buckets.
DestroyBucket ==
  /\ setup = "skvs_destroy" /\ at < HASH_SIZE
  /\ nodes' = [nodes EXCEPT ![at] = 0]
  /\ GiveBack(Lock(at)) /\ at' = at + 1 /\ UNCHANGED setup

\* rwlock_destroy stops at a part that is busy, and hash_destroy with it.
DestroyFails ==
  /\ setup = "skvs_destroy" /\ at < HASH_SIZE
  /\ nodes' = [nodes EXCEPT ![at] = 0]
  /\ \E gone \in {{}, {<<"lock", at>>}, {<<"lock", at>>, <<"readers", at>>}} : GiveBack(gone)
  /\ setup' = "destroy failed" /\ UNCHANGED at

DestroyTable ==
  /\ setup = "skvs_destroy" /\ at = HASH_SIZE
  /\ GiveBack(Table) /\ setup' = "destroyed" /\ UNCHANGED <<at, nodes>>

SetupNext == \/ Take \/ Refused \/ Ready \/ StartDestroy
             \/ DestroyBucket \/ DestroyFails \/ DestroyTable
             \/ \E b \in Buckets : CreateEntry(b)

SetupSpec == SetupInit /\ [][SetupNext]_setupVars
-----------------------------------------------------------------------------
(* Properties *)

\* Nothing is given back that has not been taken or has been given back already,
\* whatever is refused and wherever a lock cannot be destroyed.
NothingGivenBackTwice == ~astray

\* What remains when building fails is the context and the ring of the lock that
\* failed; after skvs_destroy only the context remains, and no entry.
LeaksKnown ==
  /\ setup = "init failed" =>
       \E i \in Buckets : taken \subseteq {One("ctx"), <<"ring", i>>}
  /\ setup = "destroyed" => taken = {One("ctx")} /\ \A b \in Buckets : nodes[b] = 0

\* Whatever fails on the way, each thing is given back once or is known to stay.
TeardownSound == NothingGivenBackTwice /\ LeaksKnown
=============================================================================
