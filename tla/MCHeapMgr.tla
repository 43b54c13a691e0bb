----------------------------- MODULE MCHeapMgr ------------------------------
(* Instances of the heap managers for TLC.  A program is linked with one of  *)
(* them; linked says which a behaviour is about.                             *)
EXTENDS HeapMgr

CONSTANTS BaseHeap, KRHeap, LegacyHeap,   \* MaxHeap for the other managers
          SmallGrow                       \* and what they ask sbrk for at least

VARIABLES linked, baseHeap, baseLive, krHeap, krLive, legacyHeap, legacyLive

Base   == INSTANCE BaseHeapMgr WITH
            MaxHeap <- BaseHeap, MinGrow <- SmallGrow, heap <- baseHeap, live <- baseLive
KR     == INSTANCE KRHeapMgr WITH
            MaxHeap <- KRHeap, NALLOC <- SmallGrow, heap <- krHeap, live <- krLive
Legacy == INSTANCE LegacyHeapMgr WITH
            MaxHeap <- LegacyHeap, MinGrow <- SmallGrow, heap <- legacyHeap, live <- legacyLive

baseVars   == <<baseHeap, baseLive>>
krVars     == <<krHeap, krLive>>
legacyVars == <<legacyHeap, legacyLive>>

Managers == {"heapmgr", "heapmgrbase", "heapmgrkr", "heapmgr1 legacy"}

HeapsInit ==
  /\ linked \in Managers
  /\ Init /\ Base!Init /\ KR!Init /\ Legacy!Init
  /\ linked # "heapmgr" => heap.lib = 1

Linked(name) == linked = name /\ UNCHANGED linked

HeapsNext ==
  \/ Linked("heapmgr")         /\ Next        /\ UNCHANGED <<baseVars, krVars, legacyVars>>
  \/ Linked("heapmgrbase")     /\ Base!Next   /\ UNCHANGED <<vars, krVars, legacyVars>>
  \/ Linked("heapmgrkr")       /\ KR!Next     /\ UNCHANGED <<vars, baseVars, legacyVars>>
  \/ Linked("heapmgr1 legacy") /\ Legacy!Next /\ UNCHANGED <<vars, baseVars, krVars>>

HeapsSpec == HeapsInit /\ [][HeapsNext]_<<linked, vars, baseVars, krVars, legacyVars>>

\* The managers that keep their free memory sorted by address, as a list or a
\* ring, do so whatever the order of the calls; and what heapmgrbase.c asserts
\* of itself before and after every call never fails.
SortedByAddress == Base!ListInOrder /\ KR!RingInOrder /\ Legacy!ListInOrder
OthersInOrder   == SortedByAddress /\ Base!CheckHeapValidity(baseHeap)

\* Every step of the other managers is one that Allocator promises too, at the
\* pointers returned and with the sizes in the headers.
OtherPromise == INSTANCE Allocator WITH
  Units  <- 0 .. Max({BaseHeap, KRHeap, LegacyHeap}) - 1,
  blocks <- CASE linked = "heapmgrbase" -> [p \in DOMAIN baseLive |-> baseHeap.chunks[p - 1].units]
              [] linked = "heapmgrkr" -> [p \in DOMAIN krLive |-> krHeap.blocks[p - 1].size - 1]
              [] OTHER -> [p \in DOMAIN legacyLive |-> legacyHeap.mem[p - 1].units]
OthersImplementAllocator == OtherPromise!Spec
=============================================================================
