------------------------------ MODULE HashTable ------------------------------
(***************************************************************************)
(* The concurrent hash table of src/SP_LAB5/src/hashtable.c as the worker  *)
(* threads call it through skvs_serve (skvslib.c): chains of nodes on the  *)
(* heap, one reader-writer lock per bucket (its promise: RWLockSpec), and  *)
(* counters.                                                               *)
(*                                                                         *)
(* Every operation reads the head of its bucket's chain BEFORE it asks for *)
(* the lock, and walks from that head once it has the lock; READ hands out *)
(* a pointer to the value, which the caller copies after the unlock.       *)
(* total_entries belongs to all buckets but is incremented under one       *)
(* bucket's lock, so the increment is a load and a store.                  *)
(*                                                                         *)
(* malloc picks any block that is not allocated, also one freed before,    *)
(* and fails when none is left.  Touching a freed block is undefined: the  *)
(* model records it in "undefined" and claims nothing of what follows.     *)
(***************************************************************************)
EXTENDS Integers, FiniteSets, Sequences, Functions

CONSTANTS Threads, Buckets, Keys, Values,
          Hash,          \* the bucket of each key
          Mixes,         \* which requests the threads' clients may send
          Capacity,      \* writers that can wait for one lock
          SizeModulus,   \* size_t counts modulo this (2^64 in the program)
          Nodes, Cells,  \* heap blocks for node_t, and for value strings
          NULL, Absent

Ops      == {"CREATE", "READ", "UPDATE", "DELETE"}
Requests == [op : {"CREATE", "UPDATE"}, key : Keys, val : Values]
              \cup [op : {"READ", "DELETE"}, key : Keys, val : {Absent}]
NoRequest == [op |-> "none"]

ASSUME HashTableAssumption ==
  /\ Hash \in [Keys -> Buckets]
  /\ Absent \notin Keys \cup Values
  /\ \A m \in Mixes, t \in Threads : m[t] \subseteq Requests
  /\ IsFiniteSet(Nodes) /\ NULL \notin Nodes \cup Cells
  /\ SizeModulus \in Nat \ {0} /\ Capacity \in Nat

VARIABLES buckets, bucket_sizes, total_entries,
          node,          \* the allocated nodes: key, value (a cell), next
          cell,          \* the allocated value strings
          pc, req,       \* what each thread is at, for which request
          head,          \* its local variable head
          found,         \* where its list_search ended: a node, or NULL
          result,        \* the return value of the hash_ function
          value,         \* the pointer READ returns
          loaded,        \* total_entries as loaded for its increment
          queue,         \* of each bucket's lock: the waiting writers
          undefined,     \* undefined behaviour has happened
          mix            \* the requests each thread's clients send

table == <<buckets, bucket_sizes, node, cell>>
locals == <<req, head, found, result, value, loaded>>
vars == <<table, total_entries, pc, locals, queue, undefined, mix>>

\* pc, in program order: head read; waiting for the lock; lock held; chain
\* searched; counting an entry (load, store); about to unlock; unlocked, answer
\* not yet copied.
\* "refused" is the way out of a thread whose rwlock_write_lock returned -1.
Holding == {"inside", "apply", "load", "store", "unlock"}
PCs == {"idle", "called", "waiting", "refused", "answer"} \cup Holding

Init ==
  /\ buckets = [b \in Buckets |-> NULL]
  /\ bucket_sizes = [b \in Buckets |-> 0]
  /\ total_entries = 0
  /\ node = <<>> /\ cell = <<>>
  /\ pc = [t \in Threads |-> "idle"]
  /\ req = [t \in Threads |-> NoRequest]
  /\ head = [t \in Threads |-> NULL]
  /\ found = [t \in Threads |-> NULL]
  /\ result = [t \in Threads |-> 0]
  /\ value = [t \in Threads |-> NULL]
  /\ loaded = [t \in Threads |-> 0]
  /\ queue = [b \in Buckets |-> <<>>]
  /\ undefined = FALSE
  /\ mix \in Mixes

GoTo(t, l) == pc' = [pc EXCEPT ![t] = l]
Bucket(t)  == Hash[req[t].key]
-----------------------------------------------------------------------------
(* The lock of a bucket, as RWLockSpec promises it. *)

ReadersOf(b) == {t \in Threads : /\ req[t].op = "READ" /\ Bucket(t) = b
                                 /\ pc[t] \in {"waiting"} \cup Holding}
WritersOf(b) == {t \in Threads : /\ req[t].op \in Ops \ {"READ"}
                                 /\ Bucket(t) = b /\ pc[t] \in Holding}

\* rwlock_read_lock (line 237), until it returns
ReadLock(t) ==
  /\ pc[t] = "called" /\ req[t].op = "READ"
  /\ GoTo(t, IF WritersOf(Bucket(t)) = {} THEN "inside" ELSE "waiting")
  /\ UNCHANGED <<table, total_entries, locals, queue>>

ReadGranted(t) ==
  /\ pc[t] = "waiting" /\ req[t].op = "READ"
  /\ WritersOf(Bucket(t)) = {}
  /\ GoTo(t, "inside")
  /\ UNCHANGED <<table, total_entries, locals, queue>>

\* rwlock_write_lock (lines 202, 284, 314)
WriteLock(t) ==
  LET b == Bucket(t) IN
  /\ pc[t] = "called" /\ req[t].op # "READ"
  /\ Len(queue[b]) < Capacity
  /\ IF WritersOf(b) = {} /\ ReadersOf(b) = {} /\ queue[b] = <<>>
     THEN GoTo(t, "inside") /\ UNCHANGED queue
     ELSE /\ GoTo(t, "waiting")
          /\ queue' = [queue EXCEPT ![b] = Append(@, t)]
  /\ UNCHANGED <<table, total_entries, locals>>

WriteGranted(t) ==
  LET b == Bucket(t) IN
  /\ pc[t] = "waiting" /\ req[t].op # "READ"
  /\ WritersOf(b) = {} /\ ReadersOf(b) = {}
  /\ Head(queue[b]) = t
  /\ GoTo(t, "inside")
  /\ queue' = [queue EXCEPT ![b] = Tail(@)]
  /\ UNCHANGED <<table, total_entries, locals>>

\* Variant: the -1 of rwlock_write_lock is ignored.
WriteRefused_GoesOn(t) ==
  /\ pc[t] = "called" /\ req[t].op # "READ"
  /\ Len(queue[Bucket(t)]) = Capacity
  /\ GoTo(t, "inside")
  /\ UNCHANGED <<table, total_entries, locals, queue>>

\* Variant: 0 is returned in place of -1.
WriteRefused_SaysNotFound(t) ==
  /\ pc[t] = "called" /\ req[t].op # "READ"
  /\ Len(queue[Bucket(t)]) = Capacity
  /\ GoTo(t, "refused")
  /\ UNCHANGED <<table, total_entries, locals, queue>>

\* It returned -1, and so does the operation.
WriteRefused(t) ==
  /\ pc[t] = "called" /\ req[t].op # "READ"
  /\ Len(queue[Bucket(t)]) = Capacity
  /\ GoTo(t, "refused")
  /\ result' = [result EXCEPT ![t] = -1]
  /\ UNCHANGED <<table, total_entries, req, head, found, value, loaded, queue>>

Unlock(t) ==
  /\ pc[t] = "unlock"
  /\ GoTo(t, "answer")
  /\ UNCHANGED <<table, total_entries, locals, queue>>
-----------------------------------------------------------------------------
(* Walking a chain.  Step i of the walk is at Walk(h, k)[i]; it rests when  *)
(* it finds the key, falls off the chain, or meets a freed node.            *)

Walk(h, k) ==
  LET at[i \in 0 .. Cardinality(Nodes)] ==
        IF i = 0 THEN h
        ELSE LET n == at[i - 1]
             IN IF n \in DOMAIN node /\ node[n].key # k THEN node[n].next ELSE n
  IN at

ListSearch(h, k) == Walk(h, k)[Cardinality(Nodes)]

Found(n, k) == n \in DOMAIN node /\ node[n].key = k

\* A walk that ends on no such node and not at the end of the chain has met
\* freed memory, or goes round in a circle.
Find(t) ==
  LET n == ListSearch(head[t], req[t].key) IN
  /\ pc[t] = "inside"
  /\ found' = [found EXCEPT ![t] = n]
  /\ undefined' = ~(n = NULL \/ Found(n, req[t].key))
  /\ GoTo(t, "apply")
  /\ UNCHANGED <<table, total_entries, req, head, result, value, loaded, queue>>

\* t has the lock and has found the key, or has not.
Finds(t, op)  == /\ pc[t] = "apply" /\ req[t].op = op
                 /\ found[t] \in DOMAIN node
Misses(t, op) == pc[t] = "apply" /\ req[t].op = op /\ found[t] = NULL

\* The operation is over but for the unlock, with return value r.
Returns(t, r) == result' = [result EXCEPT ![t] = r] /\ GoTo(t, "unlock")
Fruitless(t, r) ==
  /\ Returns(t, r)
  /\ UNCHANGED <<table, total_entries, req, head, found, value, loaded, queue>>

\* One entry more, or less, in the bucket, and next in the table.
Counts(t, d) ==
  /\ bucket_sizes' = [bucket_sizes EXCEPT ![Bucket(t)] = @ + d]
  /\ result' = [result EXCEPT ![t] = 1]
  /\ GoTo(t, "load")
  /\ UNCHANGED <<total_entries, req, head, found, value, loaded, queue>>

\* A block of memory comes into use.
With(memory, block, content) ==
  [x \in DOMAIN memory \cup {block} |-> IF x = block THEN content ELSE memory[x]]

FreeNodes == Nodes \ DOMAIN node
FreeCells == Cells \ DOMAIN cell
-----------------------------------------------------------------------------
(* The four operations.  Call: skvs_serve has parsed a request, and the     *)
(* operation reads the head of the chain.                                   *)

Call(t) ==
  /\ pc[t] = "idle"
  /\ \E r \in mix[t] :
       /\ req' = [req EXCEPT ![t] = r]
       /\ head' = [head EXCEPT ![t] = buckets[Hash[r.key]]]
  /\ GoTo(t, "called")
  /\ UNCHANGED <<table, total_entries, found, result, value, loaded, queue>>

Insert(t) ==
  \/ Finds(t, "CREATE") /\ Fruitless(t, 0)
  \/ /\ Misses(t, "CREATE")
     /\ FreeNodes = {} \/ FreeCells = {}
     /\ Fruitless(t, -1)
  \/ /\ Misses(t, "CREATE")
     /\ \E new \in FreeNodes, c \in FreeCells :
          /\ cell' = With(cell, c, req[t].val)
          /\ node' = With(node, new, [key |-> req[t].key, value |-> c, next |-> head[t]])
          /\ buckets' = [buckets EXCEPT ![Bucket(t)] = new]
     /\ Counts(t, 1)

\* The new value is allocated before the old one is freed.
Update(t) ==
  \/ Misses(t, "UPDATE") /\ Fruitless(t, 0)
  \/ Finds(t, "UPDATE") /\ FreeCells = {} /\ Fruitless(t, -1)
  \/ /\ Finds(t, "UPDATE")
     /\ \E c \in FreeCells :
          /\ cell' = With(Restrict(cell, DOMAIN cell \ {node[found[t]].value}),
                          c, req[t].val)
          /\ node' = [node EXCEPT ![found[t]].value = c]
     /\ Returns(t, 1)
     /\ UNCHANGED <<buckets, bucket_sizes, total_entries, req, head, found,
                    value, loaded, queue>>

\* Variant: the predecessor keeps its link.
NodesWithout_NoUnlink(t, n) == Restrict(node, DOMAIN node \ {n})

\* list_delete: the nodes once n is unlinked from its predecessor on the walk
\* and freed, and the local head, which becomes the bucket's.
NodesWithout(t, n) ==
  LET before == {p \in Range(Walk(head[t], req[t].key)) \cap DOMAIN node :
                   node[p].next = n}
  IN Restrict([p \in DOMAIN node |->
                 IF p \in before THEN [node[p] EXCEPT !.next = node[n].next]
                                 ELSE node[p]],
              DOMAIN node \ {n})
\* Variant: *head is not moved.
HeadWithout_Unmoved(t, n) == head[t]

HeadWithout(t, n) == IF head[t] = n THEN node[n].next ELSE head[t]

Delete(t) ==
  \/ Misses(t, "DELETE") /\ Fruitless(t, 0)
  \/ /\ Finds(t, "DELETE")
     /\ node' = NodesWithout(t, found[t])
     /\ buckets' = [buckets EXCEPT ![Bucket(t)] = HeadWithout(t, found[t])]
     /\ cell' = Restrict(cell, DOMAIN cell \ {node[found[t]].value})
     /\ Counts(t, -1)

Search(t) ==
  \/ Misses(t, "READ") /\ Fruitless(t, 0)
  \/ /\ Finds(t, "READ")
     /\ value' = [value EXCEPT ![t] = node[found[t]].value]
     /\ Returns(t, 1)
     /\ UNCHANGED <<table, total_entries, req, head, found, loaded, queue>>

\* total_entries++ and total_entries--
LoadTotal(t) ==
  /\ pc[t] = "load"
  /\ loaded' = [loaded EXCEPT ![t] = total_entries]
  /\ GoTo(t, "store")
  /\ UNCHANGED <<table, total_entries, req, head, found, result, value, queue>>

StoreTotal(t) ==
  /\ pc[t] = "store"
  /\ total_entries' = (loaded[t] + IF req[t].op = "CREATE" THEN 1 ELSE -1)
                        % SizeModulus
  /\ GoTo(t, "unlock")
  /\ UNCHANGED <<table, locals, queue>>

\* handle_client copies the response of skvs_serve into its buffer.
DanglingValue(t) == /\ req[t].op = "READ" /\ result[t] = 1
                    /\ value[t] \notin DOMAIN cell

Reply(t) ==
  /\ pc[t] \in {"answer", "refused"}
  /\ undefined' = DanglingValue(t)
  /\ GoTo(t, "idle")
  /\ req' = [req EXCEPT ![t] = NoRequest]
  /\ head' = [head EXCEPT ![t] = NULL]
  /\ found' = [found EXCEPT ![t] = NULL]
  /\ result' = [result EXCEPT ![t] = 0]
  /\ value' = [value EXCEPT ![t] = NULL]
  /\ loaded' = [loaded EXCEPT ![t] = 0]
  /\ UNCHANGED <<table, total_entries, queue>>
-----------------------------------------------------------------------------
Defined(t) ==
  \/ Call(t)
  \/ ReadLock(t) \/ ReadGranted(t)
  \/ WriteLock(t) \/ WriteGranted(t) \/ WriteRefused(t)
  \/ Insert(t) \/ Update(t) \/ Delete(t) \/ Search(t)
  \/ LoadTotal(t) \/ StoreTotal(t) \/ Unlock(t)

Next == /\ ~undefined /\ UNCHANGED mix
        /\ \E t \in Threads : \/ Defined(t) /\ UNCHANGED undefined
                              \/ Find(t) \/ Reply(t)

Spec == Init /\ [][Next]_vars
-----------------------------------------------------------------------------
(* Properties *)

\* Requests of two threads that the table does not keep apart: a head read before
\* the lock is granted may then lead to a freed node, or miss one added since; the
\* value that READ points to may be freed before it is copied.  The clients of an
\* orderly mix send no two of these.
Clash(r, q) ==
  /\ Hash[r.key] = Hash[q.key]
  /\ \/ r.op = "DELETE"
     \/ r.op = "CREATE" /\ q.op = "CREATE"
     \/ r.op = "UPDATE" /\ q.op = "READ" /\ r.key = q.key
Orderly(m) == \A s, t \in Threads : s # t => \A r \in m[s], q \in m[t] : ~Clash(r, q)

\* No thread touches a node or a value after it was freed.
NoUseAfterFree == ~undefined

Chain(b) == Range(Walk(buckets[b], Absent)) \ {NULL}

\* The chains are what the table means: every node on a chain is allocated,
\* in the bucket its key hashes to, at most one per key, owning its value;
\* no node or value is allocated and reachable from nowhere; and each
\* bucket_sizes entry is the length of its chain.
ListsSound ==
  /\ UNION {Chain(b) : b \in Buckets} = DOMAIN node
  /\ \A b \in Buckets : /\ bucket_sizes[b] = Cardinality(Chain(b))
                        /\ \A n \in Chain(b) : Hash[node[n].key] = b
  /\ \A m, n \in DOMAIN node : node[m].key = node[n].key => m = n
  /\ {node[n].value : n \in DOMAIN node} = DOMAIN cell
  /\ Cardinality(DOMAIN cell) = Cardinality(DOMAIN node)

LockMode(t, b) ==
  LET kind(r, w) == IF req[t].op = "READ" THEN r ELSE w IN
  IF req[t] = NoRequest \/ Bucket(t) # b THEN "idle"
  ELSE CASE pc[t] = "waiting" -> kind("wantRead", "wantWrite")
         [] pc[t] \in Holding -> kind("reading", "writing")
         [] pc[t] = "refused" -> "refused"
         [] OTHER -> "idle"

LockOf(b) == INSTANCE RWLockSpec WITH
  queue <- queue[b], mode <- [t \in Threads |-> LockMode(t, b)]

\* Each bucket's lock is used as, and gives what, RWLockSpec says: asked for
\* once, released once, on every path through every operation.
LocksObeyed ==
  /\ \A b \in Buckets : LockOf(b)!Init
  /\ [][\A b \in Buckets : LockOf(b)!Next \/ UNCHANGED LockOf(b)!vars]_vars

\* The table is the store of KVStore.  A request that looks for a key its
\* head does not lead to is decided when it reads the head, any other one
\* when it works on the chain; a READ is answered by what its pointer shows.
Lookup(k) == LET n == ListSearch(buckets[Hash[k]], k)
             IN IF Found(n, k) THEN cell[node[n].value] ELSE Absent

Response(t) ==
  LET r == req[t] IN
  IF result[t] = -1 THEN "INTERNAL ERR"
  ELSE IF result[t] = 0 THEN IF r.op = "CREATE" THEN "COLLISION" ELSE "NOT FOUND"
  ELSE IF r.op = "READ" THEN IF DanglingValue(t) THEN "garbage" ELSE cell[value[t]]
  ELSE IF r.op = "CREATE" THEN "CREATE OK"
  ELSE IF r.op = "UPDATE" THEN "UPDATE OK" ELSE "DELETE OK"

Progress(t) ==
  CASE pc[t] = "idle" -> [phase |-> "idle"]
    [] pc[t] \in {"called", "waiting", "inside", "apply"} ->
         IF req[t].op # "CREATE" /\ ListSearch(head[t], req[t].key) = NULL
         THEN [phase |-> "decided", answer |-> "NOT FOUND"]
         ELSE [phase |-> "pending", req |-> req[t]]
    [] OTHER -> [phase |-> "decided", answer |-> Response(t)]

Store == INSTANCE KVStore WITH
  store <- [k \in Keys |-> Lookup(k)],
  call  <- [t \in Threads |-> Progress(t)]
ImplementsStore == Store!Spec
=============================================================================
