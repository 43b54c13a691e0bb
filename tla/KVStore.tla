------------------------------ MODULE KVStore ------------------------------
(***************************************************************************)
(* What src/SP_LAB5 promises the clients of the key-value server: each     *)
(* request takes effect at one moment between its arrival and its answer,  *)
(* on a store that maps keys to values, and is answered from the store as  *)
(* it is at that moment (skvs_serve and the return values that hashtable.h *)
(* documents).  A request may fail with an internal error instead, and     *)
(* then changes nothing.                                                   *)
(***************************************************************************)
EXTENDS Naturals

CONSTANTS Threads,    \* the worker threads, each serving one request at a time
          Requests,   \* records [op, key, val]
          Keys, Absent

VARIABLES store,      \* the value of each key, or Absent
          call        \* the request each thread serves and how far it is

vars == <<store, call>>

Init == /\ store = [k \in Keys |-> Absent]
        /\ call \in [Threads -> [phase : {"idle"}]]

\* The answer to a request, and the store it leaves, when the store is s.
Answer(r, s) ==
  IF r.op = "CREATE" THEN IF s[r.key] = Absent THEN "CREATE OK" ELSE "COLLISION"
  ELSE IF s[r.key] = Absent THEN "NOT FOUND"
  ELSE CASE r.op = "READ"   -> s[r.key]
         [] r.op = "UPDATE" -> "UPDATE OK"
         [] r.op = "DELETE" -> "DELETE OK"

\* A CREATE that finds the key, and any other request that misses it, change nothing.
After(r, s) ==
  IF r.op = "READ" \/ (r.op = "CREATE" <=> s[r.key] # Absent) THEN s
  ELSE [s EXCEPT ![r.key] = IF r.op = "DELETE" THEN Absent ELSE r.val]

Becomes(t, c) == call' = [call EXCEPT ![t] = c]

\* A request that is decided as it arrives shows no pending phase.
Arrive(t, r) ==
  /\ call[t].phase = "idle"
  /\ \/ Becomes(t, [phase |-> "pending", req |-> r]) /\ UNCHANGED store
     \/ /\ Becomes(t, [phase |-> "decided", answer |-> Answer(r, store)])
        /\ store' = After(r, store)

Decide(t) ==
  /\ call[t].phase = "pending"
  /\ Becomes(t, [phase |-> "decided", answer |-> Answer(call[t].req, store)])
  /\ store' = After(call[t].req, store)

\* Possible as long as nothing has been done for the request.
Fail(t) ==
  /\ \/ call[t].phase = "pending"
     \/ call[t].phase = "decided" /\ call[t].answer = "NOT FOUND"
  /\ Becomes(t, [phase |-> "decided", answer |-> "INTERNAL ERR"])
  /\ UNCHANGED store

Reply(t) ==
  /\ call[t].phase = "decided"
  /\ Becomes(t, [phase |-> "idle"])
  /\ UNCHANGED store

Next == \E t \in Threads :
  \/ \E r \in Requests : Arrive(t, r)
  \/ Decide(t) \/ Fail(t) \/ Reply(t)

Spec == Init /\ [][Next]_vars
=============================================================================
