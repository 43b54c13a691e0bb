---------------------------- MODULE HeapMgrProof ----------------------------
(***************************************************************************)
(* That the managers of HeapMgr keep the memory in order, proved for every *)
(* size of the heap, unit and request, and for both managers.              *)
(*                                                                         *)
(* The heap is described without the walks that the code makes over it:    *)
(* there are a set H of chunks, which cover it end to end, and a set F of  *)
(* free chunks among them, no two of them neighbours; each free list is a  *)
(* chain along which a rank decreases.  The walks and the list searches    *)
(* are shown to find exactly these (by Induction), every helper of Chunks  *)
(* to keep them, and malloc and free to pass from one such description to  *)
(* the next.                                                               *)
(***************************************************************************)
EXTENDS HeapMgr, Induction

\* The free lists over F, by bin: nx and pv are each other's inverse, hd leads
\* to the chunks without predecessor, and the rank r rises along every list, so
\* that it ends.
Chained(F, bin, nx, pv, hd, r) ==
  /\ \A c \in F : nx[c] # NULL =>
       nx[c] \in F /\ bin[nx[c]] = bin[c] /\ pv[nx[c]] = c /\ r[c] < r[nx[c]]
  /\ \A c \in F : pv[c] = NULL => hd[bin[c]] = c
  /\ \A c \in F : pv[c] # NULL => pv[c] \in F /\ bin[pv[c]] = bin[c] /\ nx[pv[c]] = c
  /\ \A b \in DOMAIN hd : hd[b] # NULL => hd[b] \in F /\ bin[hd[b]] = b /\ pv[hd[b]] = NULL

Linked(F, bin, nx, pv, hd) == \E r \in [F -> Nat] : Chained(F, bin, nx, pv, hd, r)

\* Lists whose bins and links are equal on the free chunks are equally linked.
LEMMA LinkedSame ==
  ASSUME NEW F \in SUBSET Nat, NEW bin, NEW nx, NEW pv, NEW hd, NEW bin2, NEW nx2, NEW pv2,
         Linked(F, bin, nx, pv, hd),
         \A c \in F : bin2[c] = bin[c] /\ nx2[c] = nx[c] /\ pv2[c] = pv[c]
  PROVE  Linked(F, bin2, nx2, pv2, hd)
PROOF
<1>1. PICK r \in [F -> Nat] : Chained(F, bin, nx, pv, hd, r) BY DEF Linked
<1>2. ASSUME NEW c \in F, nx2[c] # NULL
      PROVE  nx2[c] \in F /\ bin2[nx2[c]] = bin2[c] /\ pv2[nx2[c]] = c /\ r[c] < r[nx2[c]]
  <2>1. PICK n : n = nx[c] OBVIOUS
  <2>2. n # NULL /\ nx2[c] = n BY <1>2, <2>1
  <2>3. n \in F /\ bin[n] = bin[c] /\ pv[n] = c /\ r[c] < r[n] BY <1>1, <2>1, <2>2 DEF Chained
  <2> QED BY <2>2, <2>3
<1>3. \A c \in F : pv2[c] = NULL => hd[bin2[c]] = c BY <1>1 DEF Chained
<1>4. ASSUME NEW c \in F, pv2[c] # NULL
      PROVE  pv2[c] \in F /\ bin2[pv2[c]] = bin2[c] /\ nx2[pv2[c]] = c
  <2>1. PICK p : p = pv[c] OBVIOUS
  <2>2. p # NULL /\ pv2[c] = p BY <1>4, <2>1
  <2>3. p \in F /\ bin[p] = bin[c] /\ nx[p] = c BY <1>1, <2>1, <2>2 DEF Chained
  <2> QED BY <2>2, <2>3
<1>5. \A b \in DOMAIN hd : hd[b] # NULL => hd[b] \in F /\ bin2[hd[b]] = b /\ pv2[hd[b]] = NULL
  BY <1>1 DEF Chained
<1>6. Chained(F, bin2, nx2, pv2, hd, r) BY <1>2, <1>3, <1>4, <1>5 DEF Chained
<1> QED BY <1>6 DEF Linked

\* What inserting c at the front of its bin's list makes of the links.
LEMMA LinkedInsert ==
  ASSUME NEW H \in SUBSET Nat, NEW F \in SUBSET H, NEW B, NEW bin \in [H -> B],
         NEW nx \in [H -> Int], NEW pv \in [H -> Int], NEW hd \in [B -> Int],
         Linked(F, bin, nx, pv, hd), NEW c \in H \ F,
         NEW nx2, nx2 = [nx EXCEPT ![c] = hd[bin[c]]],
         NEW pv2, pv2 = IF hd[bin[c]] = NULL THEN [pv EXCEPT ![c] = NULL]
                        ELSE [pv EXCEPT ![c] = NULL, ![hd[bin[c]]] = c],
         NEW hd2, hd2 = [hd EXCEPT ![bin[c]] = c]
  PROVE  Linked(F \cup {c}, bin, nx2, pv2, hd2)
PROOF
<1>1. PICK r \in [F -> Nat] : Chained(F, bin, nx, pv, hd, r) BY DEF Linked
<1> DEFINE r2 == [d \in F \cup {c} |-> IF d = c THEN 0 ELSE r[d] + 1]
           f == hd[bin[c]]
<1>2. r2 \in [F \cup {c} -> Nat] /\ r2[c] = 0 /\ \A d \in F : r2[d] = r[d] + 1 OBVIOUS
<1>3. f = NULL \/ (f \in F /\ f # c /\ f \in Nat /\ bin[f] = bin[c] /\ pv[f] = NULL)
  BY <1>1 DEF Chained
<1>4. nx2[c] = f /\ \A d \in F : nx2[d] = nx[d] OBVIOUS
<1>5. pv2[c] = NULL /\ \A d \in F : pv2[d] = IF d = f THEN c ELSE pv[d]
  BY <1>3 DEF NULL
<1>6. hd2 \in [B -> Int] /\ hd2[bin[c]] = c /\ \A b \in B : b # bin[c] => hd2[b] = hd[b] OBVIOUS
<1>7. c # NULL /\ NULL \notin F BY DEF NULL
<1> HIDE DEF r2
<1>8. ASSUME NEW d \in F \cup {c}, nx2[d] # NULL
      PROVE  nx2[d] \in F \cup {c} /\ bin[nx2[d]] = bin[d] /\ pv2[nx2[d]] = d /\ r2[d] < r2[nx2[d]]
  <2>1. CASE d = c BY <2>1, <1>2, <1>3, <1>4, <1>5, <1>8
  <2>2. CASE d \in F
    <3>1. nx[d] \in F /\ bin[nx[d]] = bin[d] /\ pv[nx[d]] = d /\ r[d] < r[nx[d]]
      BY <1>1, <1>4, <1>8, <2>2 DEF Chained
    <3>2. nx[d] # f BY <3>1, <1>3, <1>7, <2>2
    <3> QED BY <3>1, <3>2, <1>2, <1>4, <1>5, <2>2
  <2> QED BY <2>1, <2>2
<1>9. ASSUME NEW d \in F \cup {c}
      PROVE  /\ pv2[d] = NULL => hd2[bin[d]] = d
             /\ pv2[d] # NULL => pv2[d] \in F \cup {c} /\ bin[pv2[d]] = bin[d] /\ nx2[pv2[d]] = d
  <2>1. CASE d = c BY <2>1, <1>5, <1>6
  <2>2. CASE d \in F /\ d = f BY <2>2, <1>3, <1>4, <1>5, <1>7
  <2>3. CASE d \in F /\ d # f
    <3>1. pv2[d] = pv[d] BY <1>5, <2>3
    <3>2. ASSUME pv[d] = NULL PROVE bin[d] # bin[c] /\ hd2[bin[d]] = d
      BY <1>1, <1>6, <2>3, <3>2 DEF Chained
    <3>3. ASSUME pv[d] # NULL PROVE pv[d] \in F /\ bin[pv[d]] = bin[d] /\ nx2[pv[d]] = d
      BY <1>1, <1>4, <2>3, <3>3 DEF Chained
    <3> QED BY <3>1, <3>2, <3>3
  <2> QED BY <2>1, <2>2, <2>3
<1>10. ASSUME NEW b \in B, hd2[b] # NULL
       PROVE  hd2[b] \in F \cup {c} /\ bin[hd2[b]] = b /\ pv2[hd2[b]] = NULL
  <2>1. CASE b = bin[c] BY <2>1, <1>5, <1>6
  <2>2. CASE b # bin[c]
    <3>1. hd2[b] = hd[b] BY <1>6, <2>2
    <3>2. hd[b] \in F /\ bin[hd[b]] = b /\ pv[hd[b]] = NULL BY <1>1, <1>10, <3>1 DEF Chained
    <3>3. hd[b] # f BY <3>2, <1>3, <2>2, <1>7
    <3> QED BY <3>1, <3>2, <3>3, <1>5
  <2> QED BY <2>1, <2>2
<1>11. Chained(F \cup {c}, bin, nx2, pv2, hd2, r2)
  <2>1. DOMAIN hd2 = B BY <1>6
  <2> HIDE DEF f
  <2> QED BY <1>8, <1>9, <1>10, <2>1 DEF Chained
<1> QED BY <1>2, <1>11 DEF Linked

\* The links after c was taken out.
NextsWithout(nx, pv, c) ==
  IF pv[c] = NULL THEN [nx EXCEPT ![c] = NULL] ELSE [nx EXCEPT ![pv[c]] = nx[c], ![c] = NULL]
PrevsWithout(nx, pv, c) ==
  IF nx[c] = NULL THEN [pv EXCEPT ![c] = NULL] ELSE [pv EXCEPT ![nx[c]] = pv[c], ![c] = NULL]
HeadsWithout(bin, nx, pv, hd, c) ==
  IF pv[c] = NULL THEN [hd EXCEPT ![bin[c]] = nx[c]] ELSE hd

\* What taking c out of its list makes of the links.
LEMMA LinkedRemove ==
  ASSUME NEW H \in SUBSET Nat, NEW F \in SUBSET H, NEW B, NEW bin \in [H -> B],
         NEW nx \in [H -> Int], NEW pv \in [H -> Int], NEW hd \in [B -> Int],
         Linked(F, bin, nx, pv, hd), NEW c \in F,
         NEW nx2, nx2 = NextsWithout(nx, pv, c),
         NEW pv2, pv2 = PrevsWithout(nx, pv, c),
         NEW hd2, hd2 = HeadsWithout(bin, nx, pv, hd, c)
  PROVE  Linked(F \ {c}, bin, nx2, pv2, hd2)
PROOF
<1>1. PICK r \in [F -> Nat] : Chained(F, bin, nx, pv, hd, r) BY DEF Linked
<1> DEFINE r2 == [d \in F \ {c} |-> r[d]]
           p == pv[c]
           n == nx[c]
<1>2. r2 \in [F \ {c} -> Nat] /\ \A d \in F \ {c} : r2[d] = r[d] OBVIOUS
<1>3. NULL \notin F BY DEF NULL
<1>4. n # NULL => n \in F \ {c} /\ bin[n] = bin[c] /\ pv[n] = c /\ r[c] < r[n]
  BY <1>1 DEF Chained
<1>5. p # NULL => p \in F \ {c} /\ bin[p] = bin[c] /\ nx[p] = c /\ r[p] < r[c]
  <2> SUFFICES ASSUME p # NULL PROVE p \in F \ {c} /\ bin[p] = bin[c] /\ nx[p] = c /\ r[p] < r[c]
    OBVIOUS
  <2>1. p \in F /\ bin[p] = bin[c] /\ nx[p] = c BY <1>1 DEF Chained
  <2>2. r[p] < r[c] BY <2>1, <1>1, <1>3 DEF Chained
  <2>3. r[p] \in Nat /\ r[c] \in Nat BY <2>1
  <2> QED BY <2>1, <2>2, <2>3
<1>6. p = NULL => hd[bin[c]] = c BY <1>1 DEF Chained
<1>7. \A d \in F \ {c} : nx2[d] = IF d = p THEN n ELSE nx[d] BY <1>5, <1>3 DEF NextsWithout
<1>8. \A d \in F \ {c} : pv2[d] = IF d = n THEN p ELSE pv[d] BY <1>4, <1>3 DEF PrevsWithout
<1>9. DOMAIN hd2 = B /\ \A b \in B : hd2[b] = IF p = NULL /\ b = bin[c] THEN n ELSE hd[b]
  BY DEF HeadsWithout
<1> HIDE DEF r2
<1>10. ASSUME NEW d \in F \ {c}, nx2[d] # NULL
      PROVE  nx2[d] \in F \ {c} /\ bin[nx2[d]] = bin[d] /\ pv2[nx2[d]] = d /\ r2[d] < r2[nx2[d]]
  <2>1. CASE d = p
    <3>1. p # NULL /\ nx2[d] = n /\ n # NULL BY <2>1, <1>3, <1>7, <1>10
    <3>2. n \in F \ {c} /\ r[p] < r[c] /\ r[c] < r[n] /\ bin[n] = bin[c] /\ bin[p] = bin[c]
      BY <3>1, <1>4, <1>5
    <3>3. pv2[n] = p BY <3>2, <1>8
    <3>4. r[p] \in Nat /\ r[c] \in Nat /\ r[n] \in Nat BY <3>2, <2>1
    <3>5. r2[p] = r[p] /\ r2[n] = r[n] BY <3>2, <1>2, <2>1
    <3> QED BY <2>1, <3>1, <3>2, <3>3, <3>4, <3>5
  <2>2. CASE d # p
    <3>1. nx2[d] = nx[d] BY <1>7, <2>2
    <3>2. nx[d] \in F /\ bin[nx[d]] = bin[d] /\ pv[nx[d]] = d /\ r[d] < r[nx[d]]
      BY <1>1, <1>10, <3>1 DEF Chained
    <3>3. nx[d] # c BY <3>2, <2>2
    <3>4. nx[d] # n BY <3>2, <1>4, <1>3
    <3>5. pv2[nx[d]] = d BY <3>2, <3>3, <3>4, <1>8
    <3>6. r2[d] = r[d] /\ r2[nx[d]] = r[nx[d]] BY <3>2, <3>3, <1>2
    <3> QED BY <3>1, <3>2, <3>3, <3>5, <3>6
  <2> QED BY <2>1, <2>2
<1>11. ASSUME NEW d \in F \ {c}
      PROVE  /\ pv2[d] = NULL => hd2[bin[d]] = d
             /\ pv2[d] # NULL => pv2[d] \in F \ {c} /\ bin[pv2[d]] = bin[d] /\ nx2[pv2[d]] = d
  <2>0. bin[d] \in B /\ d # NULL BY <1>3
  <2>1. CASE d = n
    <3>1. pv2[d] = p /\ bin[d] = bin[c] BY <2>1, <1>8, <1>4, <2>0
    <3>2. CASE p = NULL BY <2>0, <2>1, <3>1, <3>2, <1>9
    <3>3. CASE p # NULL BY <2>1, <3>1, <3>3, <1>5, <1>7
    <3> QED BY <3>2, <3>3
  <2>2. CASE d # n
    <3>1. pv2[d] = pv[d] BY <1>8, <2>2
    <3>2. ASSUME pv[d] = NULL PROVE hd2[bin[d]] = d
      <4>1. hd[bin[d]] = d BY <1>1, <3>2 DEF Chained
      <4>2. ~(p = NULL /\ bin[d] = bin[c]) BY <4>1, <1>6
      <4> QED BY <4>1, <4>2, <1>9, <2>0
    <3>3. ASSUME pv[d] # NULL
          PROVE  pv[d] \in F \ {c} /\ bin[pv[d]] = bin[d] /\ nx2[pv[d]] = d
      <4>1. pv[d] \in F /\ bin[pv[d]] = bin[d] /\ nx[pv[d]] = d BY <1>1, <3>3 DEF Chained
      <4>2. pv[d] # c BY <4>1, <2>2
      <4>3. pv[d] # p BY <4>1, <1>3, <1>5
      <4> QED BY <4>1, <4>2, <4>3, <1>7
    <3> QED BY <3>1, <3>2, <3>3
  <2> QED BY <2>1, <2>2
<1>12. ASSUME NEW b \in B, hd2[b] # NULL
       PROVE  hd2[b] \in F \ {c} /\ bin[hd2[b]] = b /\ pv2[hd2[b]] = NULL
  <2>1. CASE p = NULL /\ b = bin[c]
    <3>1. hd2[b] = n BY <2>1, <1>9
    <3> QED BY <3>1, <2>1, <1>4, <1>8, <1>12
  <2>2. CASE ~(p = NULL /\ b = bin[c])
    <3>1. hd2[b] = hd[b] BY <1>9, <2>2
    <3>2. hd[b] \in F /\ bin[hd[b]] = b /\ pv[hd[b]] = NULL BY <1>1, <1>12, <3>1 DEF Chained
    <3>3. hd[b] # c BY <3>2, <2>2
    <3>4. hd[b] # n BY <3>2, <1>4, <1>3
    <3> QED BY <3>1, <3>2, <3>3, <3>4, <1>8
  <2> QED BY <2>1, <2>2
<1>13. Chained(F \ {c}, bin, nx2, pv2, hd2, r2)
  <2> HIDE DEF p, n
  <2> QED BY <1>9, <1>10, <1>11, <1>12 DEF Chained
<1> QED BY <1>2, <1>13 DEF Linked

\* The links after e has come between c and the next.
NextsAfter(nx, c, e) == [nx EXCEPT ![c] = e, ![e] = nx[c]]
PrevsAfter(nx, pv, c, e) ==
  IF nx[c] = NULL THEN [pv EXCEPT ![e] = c] ELSE [pv EXCEPT ![e] = c, ![nx[c]] = e]

\* What inserting e behind c makes of the links.
LEMMA LinkedInsertAfter ==
  ASSUME NEW H \in SUBSET Nat, NEW F \in SUBSET H, NEW B, NEW bin \in [H -> B],
         NEW nx \in [H -> Int], NEW pv \in [H -> Int], NEW hd \in [B -> Int],
         Linked(F, bin, nx, pv, hd), NEW c \in F, NEW e \in H \ F, bin[e] = bin[c],
         NEW nx2, nx2 = NextsAfter(nx, c, e), NEW pv2, pv2 = PrevsAfter(nx, pv, c, e)
  PROVE  Linked(F \cup {e}, bin, nx2, pv2, hd)
PROOF
<1>1. PICK r \in [F -> Nat] : Chained(F, bin, nx, pv, hd, r) BY DEF Linked
<1> DEFINE r2 == [d \in F \cup {e} |-> IF d = e THEN 2 * r[c] + 1 ELSE 2 * r[d]]
           n == nx[c]
<1>2. r2 \in [F \cup {e} -> Nat] /\ r2[e] = 2 * r[c] + 1 /\ \A d \in F : r2[d] = 2 * r[d] OBVIOUS
<1>3. NULL \notin F /\ e # NULL /\ e # c /\ c \in F BY DEF NULL
<1>4. n # NULL => n \in F /\ n # e /\ bin[n] = bin[c] /\ pv[n] = c /\ r[c] < r[n]
  BY <1>1 DEF Chained
<1>5. nx2[e] = n /\ \A d \in F : nx2[d] = IF d = c THEN e ELSE nx[d] BY DEF NextsAfter
<1>6. pv2[e] = c /\ \A d \in F : pv2[d] = IF d = n THEN e ELSE pv[d] BY <1>4, <1>3 DEF PrevsAfter
<1> HIDE DEF r2
<1>7. ASSUME NEW d \in F \cup {e}, nx2[d] # NULL
      PROVE  nx2[d] \in F \cup {e} /\ bin[nx2[d]] = bin[d] /\ pv2[nx2[d]] = d /\ r2[d] < r2[nx2[d]]
  <2>1. CASE d = e
    <3>1. n # NULL BY <2>1, <1>5, <1>7
    <3>2. r[c] \in Nat /\ r[n] \in Nat /\ r[c] < r[n] BY <3>1, <1>4
    <3>3. 2 * r[c] + 1 < 2 * r[n] BY <3>2
    <3> QED BY <2>1, <3>1, <3>3, <1>2, <1>4, <1>5, <1>6
  <2>2. CASE d = c
    <3>1. r[c] \in Nat /\ 2 * r[c] < 2 * r[c] + 1 OBVIOUS
    <3> QED BY <2>2, <3>1, <1>2, <1>3, <1>5, <1>6
  <2>3. CASE d \in F /\ d # c
    <3>1. nx2[d] = nx[d] BY <1>5, <2>3
    <3>2. nx[d] \in F /\ bin[nx[d]] = bin[d] /\ pv[nx[d]] = d /\ r[d] < r[nx[d]]
      BY <1>1, <1>7, <2>3, <3>1 DEF Chained
    <3>3. nx[d] # n BY <3>2, <2>3, <1>4, <1>3
    <3>4. r[d] \in Nat /\ r[nx[d]] \in Nat BY <3>2, <2>3
    <3> QED BY <3>1, <3>2, <3>3, <3>4, <1>2, <1>6, <2>3
  <2> QED BY <2>1, <2>2, <2>3
<1>8. ASSUME NEW d \in F \cup {e}
      PROVE  /\ pv2[d] = NULL => hd[bin[d]] = d
             /\ pv2[d] # NULL => pv2[d] \in F \cup {e} /\ bin[pv2[d]] = bin[d] /\ nx2[pv2[d]] = d
  <2>1. CASE d = e BY <2>1, <1>3, <1>5, <1>6
  <2>2. CASE d \in F /\ d = n BY <2>2, <1>3, <1>4, <1>5, <1>6
  <2>3. CASE d \in F /\ d # n
    <3>1. pv2[d] = pv[d] BY <1>6, <2>3
    <3>2. pv[d] = NULL => hd[bin[d]] = d BY <1>1, <2>3 DEF Chained
    <3>3. ASSUME pv[d] # NULL PROVE pv[d] \in F /\ bin[pv[d]] = bin[d] /\ nx[pv[d]] = d
      BY <1>1, <2>3, <3>3 DEF Chained
    <3>4. pv[d] # NULL => pv[d] # c BY <3>3, <2>3
    <3> QED BY <3>1, <3>2, <3>3, <3>4, <1>5
  <2> QED BY <2>1, <2>2, <2>3
<1>9. ASSUME NEW b \in B, hd[b] # NULL
       PROVE  hd[b] \in F \cup {e} /\ bin[hd[b]] = b /\ pv2[hd[b]] = NULL
  <2>1. hd[b] \in F /\ bin[hd[b]] = b /\ pv[hd[b]] = NULL BY <1>1, <1>9 DEF Chained
  <2>2. hd[b] # n BY <2>1, <1>3, <1>4
  <2> QED BY <2>1, <2>2, <1>6
<1>10. Chained(F \cup {e}, bin, nx2, pv2, hd, r2)
  <2>1. DOMAIN hd = B OBVIOUS
  <2> HIDE DEF n
  <2> QED BY <1>7, <1>8, <1>9, <2>1 DEF Chained
<1> QED BY <1>2, <1>10 DEF Linked
-----------------------------------------------------------------------------
\* The type of a heap.
Statuses == {FREE, IN_USE, DATA.status}
Cells == [link : Int, units : Int, status : Statuses]
Typed(h) ==
  /\ h \in [mem : [Addr -> Cells], end : 0 .. MaxHeap, lib : {1, 2}, bins : {h.bins}]
  /\ h.bins \in [Bins(h.lib) -> Int]

\* The chunks of H lie inside the heap, apart from each other, and each footer
\* has the size of its header.
Placed(h, H) ==
  /\ H \subseteq Addr
  /\ \A c \in H : /\ h.mem[c].units \in Nat \ {0} /\ Footer(h, c) < h.end
                  /\ h.mem[Footer(h, c)].units = h.mem[c].units
  /\ \A c, d \in H : c < d => Footer(h, c) < d

Bones(h, H)  == H \cup {Footer(h, c) : c \in H}
Nexts(h, H)  == [c \in H |-> h.mem[c].link]
Prevs(h, H)  == [c \in H |-> h.mem[Footer(h, c)].link]
Marks(h, H)  == [c \in H |-> h.mem[c].status]
BinsOf(h, H) == [c \in H |-> FindBin(h.lib, h.mem[c].units)]

\* From h to g at most links, marks and list heads have changed.
Relinked(h, g, H) ==
  /\ Typed(g) /\ g.end = h.end /\ g.lib = h.lib
  /\ \A a \in Addr : g.mem[a].units = h.mem[a].units
  /\ \A a \in Addr \ Bones(h, H) : g.mem[a] = h.mem[a]

\* The cells that the model writes are cells.
LEMMA CellTypes ==
  /\ Fresh \in Cells /\ DATA \in Cells
  /\ FREE # IN_USE /\ FREE \in Statuses /\ IN_USE \in Statuses
PROOF
<1>1. FREE # IN_USE BY Zenon DEF FREE, IN_USE
<1>2. Fresh \in Cells
  <2>1. NULL \in Int BY DEF NULL
  <2> QED BY <2>1 DEF Fresh, Cells, Statuses
<1>3. DATA \in Cells
  <2>1. NULL \in Int BY DEF NULL
  <2>2. DATA.status \in Statuses BY DEF Statuses
  <2>3. DATA.link = NULL /\ DATA.units = 0 BY DEF DATA
  <2>4. DATA = [link |-> DATA.link, units |-> DATA.units, status |-> DATA.status] BY DEF DATA
  <2> QED BY <2>1, <2>2, <2>3, <2>4 DEF Cells
<1> QED BY <1>1, <1>2, <1>3 DEF Statuses

\* One link is written, of a header or a footer.
SetLink(h, a, n) == [h EXCEPT !.mem[a].link = n]

\* One link is written: nothing else changes.
LEMMA WriteLink ==
  ASSUME NEW h, Typed(h), NEW a \in Addr, NEW n \in Int,
         NEW g, g = SetLink(h, a, n)
  PROVE  /\ Typed(g) /\ g.end = h.end /\ g.lib = h.lib /\ g.bins = h.bins
         /\ g.mem[a].link = n
         /\ \A x \in Addr : x # a => g.mem[x] = h.mem[x]
         /\ \A x \in Addr : g.mem[x].units = h.mem[x].units /\ g.mem[x].status = h.mem[x].status
PROOF
<1>1. PICK m : m = [h.mem EXCEPT ![a].link = n] OBVIOUS
<1>2. m \in [Addr -> Cells] BY <1>1 DEF Typed, Cells
<1>3. m[a].link = n /\ m[a].units = h.mem[a].units /\ m[a].status = h.mem[a].status
  BY <1>1 DEF Typed, Cells
<1>4. \A x \in Addr : x # a => m[x] = h.mem[x] BY <1>1 DEF Typed
<1>5. g = [h EXCEPT !.mem = m] BY <1>1 DEF SetLink, Typed
<1>6. g.mem = m /\ g.end = h.end /\ g.lib = h.lib /\ g.bins = h.bins
      /\ g \in [mem : [Addr -> Cells], end : 0 .. MaxHeap, lib : {1, 2}, bins : {h.bins}]
  BY <1>2, <1>5 DEF Typed
<1> QED BY <1>2, <1>3, <1>4, <1>6 DEF Typed

\* Headers and footers of chunks are different cells, one of each to a chunk.
LEMMA Apart ==
  ASSUME NEW h, Typed(h), NEW H, Placed(h, H), NEW c \in H, NEW d \in H
  PROVE  /\ c \in Addr /\ Footer(h, c) \in Addr /\ Footer(h, c) \in Int /\ c < Footer(h, c)
         /\ c # Footer(h, d)
         /\ Footer(h, c) = Footer(h, d) => c = d
PROOF
<1>1. c \in Int /\ d \in Int /\ MaxHeap \in Nat /\ h.end \in Int /\ h.end <= MaxHeap
  BY ChunksAssumption DEF Placed, Addr, Typed
<1>2. h.mem[c].units \in Nat \ {0} /\ h.mem[d].units \in Nat \ {0} BY DEF Placed
<1>3. Footer(h, c) = c + h.mem[c].units + 1 /\ Footer(h, d) = d + h.mem[d].units + 1 BY DEF Footer
<1>4. c < d => Footer(h, c) < d BY DEF Placed
<1>5. d < c => Footer(h, d) < c BY DEF Placed
<1>6. c \in Addr /\ Footer(h, c) < h.end BY DEF Placed
<1> QED BY <1>1, <1>2, <1>3, <1>4, <1>5, <1>6 DEF Addr

\* Relinked chunks keep their places, sizes and bins.
LEMMA RelinkedSame ==
  ASSUME NEW h, Typed(h), NEW H, Placed(h, H), NEW g, Relinked(h, g, H)
  PROVE  /\ Placed(g, H) /\ Bones(g, H) = Bones(h, H) /\ BinsOf(g, H) = BinsOf(h, H)
         /\ \A c \in H : Footer(g, c) = Footer(h, c)
PROOF
<1>1. H \subseteq Addr BY DEF Placed
<1>2. \A c \in H : Footer(g, c) = Footer(h, c) BY <1>1 DEF Footer, Relinked
<1>3. \A c \in H : Footer(h, c) \in Addr BY Apart
<1>4. Placed(g, H) BY <1>1, <1>2, <1>3 DEF Placed, Relinked
<1>5. Bones(g, H) = Bones(h, H) BY <1>2 DEF Bones
<1>6. BinsOf(g, H) = BinsOf(h, H) BY <1>1 DEF BinsOf, Relinked
<1> QED BY <1>2, <1>4, <1>5, <1>6

\* Relinking twice is relinking.
LEMMA RelinkedThrough ==
  ASSUME NEW h, Typed(h), NEW H, Placed(h, H), NEW g, Relinked(h, g, H), NEW k, Relinked(g, k, H)
  PROVE  Relinked(h, k, H)
PROOF
<1>1. Bones(g, H) = Bones(h, H) BY RelinkedSame
<1> QED BY <1>1 DEF Relinked

\* chunk_set_next writes the link forward of c and no other.
LEMMA SetNextEffect ==
  ASSUME NEW h, Typed(h), NEW H, Placed(h, H), NEW c \in H, NEW n \in Int,
         NEW g, g = SetNext(h, c, n)
  PROVE  /\ Relinked(h, g, H) /\ g.bins = h.bins /\ Marks(g, H) = Marks(h, H)
         /\ Nexts(g, H) = [Nexts(h, H) EXCEPT ![c] = n] /\ Prevs(g, H) = Prevs(h, H)
PROOF
<1>1. H \subseteq Addr /\ c \in Addr BY DEF Placed
<1>2. g = SetLink(h, c, n) BY DEF SetNext, SetLink
<1>3. /\ Typed(g) /\ g.end = h.end /\ g.lib = h.lib /\ g.bins = h.bins
      /\ g.mem[c].link = n
      /\ \A x \in Addr : x # c => g.mem[x] = h.mem[x]
      /\ \A x \in Addr : g.mem[x].units = h.mem[x].units /\ g.mem[x].status = h.mem[x].status
  BY <1>1, <1>2, WriteLink
<1>4. Relinked(h, g, H) BY <1>1, <1>3 DEF Relinked, Bones
<1>5. \A d \in H : Footer(g, d) = Footer(h, d) /\ Footer(h, d) \in Addr /\ Footer(h, d) # c
  BY <1>4, RelinkedSame, Apart
<1>6. Nexts(g, H) = [Nexts(h, H) EXCEPT ![c] = n] BY <1>1, <1>3 DEF Nexts
<1>7. Prevs(g, H) = Prevs(h, H) BY <1>3, <1>5 DEF Prevs
<1>8. Marks(g, H) = Marks(h, H) BY <1>1, <1>3 DEF Marks
<1> QED BY <1>3, <1>4, <1>6, <1>7, <1>8

\* chunk_set_prev writes the link back of c and no other.
LEMMA SetPrevEffect ==
  ASSUME NEW h, Typed(h), NEW H, Placed(h, H), NEW c \in H, NEW p \in Int,
         NEW g, g = SetPrev(h, c, p)
  PROVE  /\ Relinked(h, g, H) /\ g.bins = h.bins /\ Marks(g, H) = Marks(h, H)
         /\ Prevs(g, H) = [Prevs(h, H) EXCEPT ![c] = p] /\ Nexts(g, H) = Nexts(h, H)
PROOF
<1>1. PICK f : f = Footer(h, c) OBVIOUS
<1>2. H \subseteq Addr /\ f \in Addr BY <1>1, Apart DEF Placed
<1>3. g = SetLink(h, f, p) BY <1>1 DEF SetPrev, SetLink
<1>4. /\ Typed(g) /\ g.end = h.end /\ g.lib = h.lib /\ g.bins = h.bins
      /\ g.mem[f].link = p
      /\ \A x \in Addr : x # f => g.mem[x] = h.mem[x]
      /\ \A x \in Addr : g.mem[x].units = h.mem[x].units /\ g.mem[x].status = h.mem[x].status
  BY <1>2, <1>3, WriteLink
<1>5. Relinked(h, g, H) BY <1>1, <1>2, <1>4 DEF Relinked, Bones
<1>6. \A d \in H : Footer(g, d) = Footer(h, d) /\ Footer(h, d) \in Addr /\ d # f
                   /\ (Footer(h, d) = f => d = c)
  BY <1>1, <1>5, RelinkedSame, Apart
<1>7. Nexts(g, H) = Nexts(h, H) BY <1>2, <1>4, <1>6 DEF Nexts
<1>8. Prevs(g, H) = [Prevs(h, H) EXCEPT ![c] = p]
  <2>1. ASSUME NEW d \in H PROVE g.mem[Footer(g, d)].link = IF d = c THEN p ELSE h.mem[Footer(h, d)].link
    BY <1>1, <1>4, <1>6
  <2> QED BY <2>1 DEF Prevs
<1>9. Marks(g, H) = Marks(h, H) BY <1>2, <1>4 DEF Marks
<1> QED BY <1>4, <1>5, <1>7, <1>8, <1>9

\* The head of one list is written: no chunk changes.
LEMMA SetHeadEffect ==
  ASSUME NEW h, Typed(h), NEW H, Placed(h, H), NEW b \in Bins(h.lib), NEW c \in Int,
         NEW g, g = SetHead(h, b, c)
  PROVE  /\ Relinked(h, g, H) /\ g.bins = [h.bins EXCEPT ![b] = c] /\ Marks(g, H) = Marks(h, H)
         /\ Prevs(g, H) = Prevs(h, H) /\ Nexts(g, H) = Nexts(h, H)
PROOF
<1>1. PICK bs : bs = [h.bins EXCEPT ![b] = c] OBVIOUS
<1>2. bs \in [Bins(h.lib) -> Int] BY <1>1 DEF Typed
<1>3. g = [h EXCEPT !.bins = bs] BY <1>1 DEF SetHead, Typed
<1>4. g.mem = h.mem /\ g.end = h.end /\ g.lib = h.lib /\ g.bins = bs
      /\ g \in [mem : [Addr -> Cells], end : 0 .. MaxHeap, lib : {1, 2}, bins : {bs}]
  BY <1>3 DEF Typed
<1>5. Typed(g) BY <1>2, <1>4 DEF Typed
<1> QED BY <1>1, <1>4, <1>5 DEF Relinked, Marks, Nexts, Prevs, Footer

\* chunk_set_status marks c and leaves every link alone.
LEMMA SetStatusEffect ==
  ASSUME NEW h, Typed(h), NEW H, Placed(h, H), NEW c \in H, NEW s \in Statuses,
         NEW g, g = SetStatus(h, c, s)
  PROVE  /\ Relinked(h, g, H) /\ g.bins = h.bins /\ Marks(g, H) = [Marks(h, H) EXCEPT ![c] = s]
         /\ Prevs(g, H) = Prevs(h, H) /\ Nexts(g, H) = Nexts(h, H)
PROOF
<1>1. H \subseteq Addr /\ c \in Addr BY DEF Placed
<1>2. PICK m : m = [h.mem EXCEPT ![c].status = s] OBVIOUS
<1>3. m \in [Addr -> Cells] BY <1>1, <1>2 DEF Typed, Cells
<1>4. m[c].link = h.mem[c].link /\ m[c].units = h.mem[c].units /\ m[c].status = s
  BY <1>1, <1>2 DEF Typed, Cells
<1>5. \A x \in Addr : x # c => m[x] = h.mem[x] BY <1>2 DEF Typed
<1>6. g = [h EXCEPT !.mem = m] BY <1>2 DEF SetStatus, Typed
<1>7. g.mem = m /\ g.end = h.end /\ g.lib = h.lib /\ g.bins = h.bins
      /\ g \in [mem : [Addr -> Cells], end : 0 .. MaxHeap, lib : {1, 2}, bins : {h.bins}]
  BY <1>3, <1>6 DEF Typed
<1>8. Relinked(h, g, H) BY <1>1, <1>3, <1>4, <1>5, <1>7 DEF Typed, Relinked, Bones
<1>9. \A d \in H : Footer(g, d) = Footer(h, d) /\ Footer(h, d) \in Addr /\ Footer(h, d) # c
  BY <1>8, RelinkedSame, Apart
<1>10. Nexts(g, H) = Nexts(h, H) BY <1>1, <1>4, <1>5, <1>7 DEF Nexts
<1>11. Prevs(g, H) = Prevs(h, H) BY <1>5, <1>7, <1>9 DEF Prevs
<1>12. Marks(g, H) = [Marks(h, H) EXCEPT ![c] = s] BY <1>1, <1>4, <1>5, <1>7 DEF Marks
<1> QED BY <1>7, <1>8, <1>10, <1>11, <1>12
-----------------------------------------------------------------------------
\* The free lists of h hold the chunks of F.
Lists(h, H, F) ==
  F \subseteq H /\ Linked(F, BinsOf(h, H), Nexts(h, H), Prevs(h, H), h.bins)

\* A set of numbers that is not empty has a least member, and Min is it.
LEMMA LeastOf ==
  ASSUME NEW S \in SUBSET Nat, S # {}
  PROVE  Min(S) \in S /\ \A k \in S : Min(S) <= k
BY LeastNumber DEF Min

\* Bins are numbers, the last one a bin of either manager.
LEMMA BinNumbers ==
  ASSUME NEW lib
  PROVE  Bins(lib) \subseteq Nat /\ Large \in Bins(lib) /\ Large \in Nat
BY ChunksAssumption DEF Bins, Exp, Fixed, Large

\* The bin of a size is the least of those whose limit it does not exceed.
LEMMA FindBinLeast ==
  ASSUME NEW lib, NEW units \in Int
  PROVE  /\ FindBin(lib, units) \in Bins(lib)
         /\ FindBin(lib, units) \in {b \in Exp(lib) : units <= ExpSize(b)} \cup
               {b \in Fixed(lib) : units <= FixedTop(b)} \cup {Large}
         /\ \A b \in {b \in Exp(lib) : units <= ExpSize(b)} \cup
               {b \in Fixed(lib) : units <= FixedTop(b)} \cup {Large} : FindBin(lib, units) <= b
PROOF
<1> DEFINE S == {b \in Exp(lib) : units <= ExpSize(b)} \cup
                {b \in Fixed(lib) : units <= FixedTop(b)} \cup {Large}
<1>1. S \subseteq Bins(lib) BY DEF Bins
<1>2. S \in SUBSET Nat /\ S # {} BY <1>1, BinNumbers
<1>3. FindBin(lib, units) = Min(S) BY DEF FindBin
<1> HIDE DEF S
<1>4. Min(S) \in S /\ \A k \in S : Min(S) <= k BY <1>2, LeastOf
<1>5. FindBin(lib, units) \in S /\ FindBin(lib, units) \in Bins(lib) /\ \A k \in S : FindBin(lib, units) <= k
  BY <1>1, <1>3, <1>4
<1> QED BY <1>5 DEF S

\* What the links and bins of chunks range over.
LEMMA LinkTypes ==
  ASSUME NEW h, Typed(h), NEW H, Placed(h, H)
  PROVE  /\ Nexts(h, H) \in [H -> Int] /\ Prevs(h, H) \in [H -> Int]
         /\ BinsOf(h, H) \in [H -> Bins(h.lib)] /\ h.bins \in [Bins(h.lib) -> Int]
         /\ H \in SUBSET Nat /\ H \subseteq Addr
PROOF
<1>1. H \subseteq Addr /\ H \in SUBSET Nat BY DEF Placed, Addr
<1>2. \A c \in H : h.mem[c].link \in Int BY <1>1 DEF Typed, Cells
<1>3. \A c \in H : h.mem[Footer(h, c)].link \in Int BY Apart DEF Typed, Cells
<1>4. \A c \in H : FindBin(h.lib, h.mem[c].units) \in Bins(h.lib)
  <2>1. \A c \in H : h.mem[c].units \in Int BY <1>1 DEF Typed, Cells
  <2> QED BY <2>1, FindBinLeast
<1> QED BY <1>1, <1>2, <1>3, <1>4 DEF Nexts, Prevs, BinsOf, Typed

\* What insert_chunk_first writes.
LEMMA InsertFirstEffect ==
  ASSUME NEW h, Typed(h), NEW H, Placed(h, H), NEW c \in H, NEW b \in Bins(h.lib),
         h.bins[b] \in H \cup {NULL}, NEW g, g = InsertFirst(h, b, c)
  PROVE  /\ Relinked(h, g, H) /\ Marks(g, H) = Marks(h, H)
         /\ g.bins = [h.bins EXCEPT ![b] = c]
         /\ Nexts(g, H) = [Nexts(h, H) EXCEPT ![c] = h.bins[b]]
         /\ Prevs(g, H) = IF h.bins[b] = NULL THEN [Prevs(h, H) EXCEPT ![c] = NULL]
                          ELSE [Prevs(h, H) EXCEPT ![c] = NULL, ![h.bins[b]] = c]
PROOF
<1>0. H \subseteq Nat /\ c \in Int /\ NULL \in Int BY LinkTypes DEF NULL
<1>1. PICK f : f = h.bins[b] OBVIOUS
<1>2. f \in Int BY <1>1 DEF Typed
<1>3. PICK h1 : h1 = SetNext(h, c, f) OBVIOUS
<1>4. PICK h2 : h2 = SetPrev(h1, c, NULL) OBVIOUS
<1>5. PICK h3 : h3 = SetHead(h2, b, c) OBVIOUS
<1>6. g = IF f = NULL THEN h3 ELSE SetPrev(h3, f, c) BY <1>1, <1>3, <1>4, <1>5 DEF InsertFirst
<1>7. /\ Relinked(h, h1, H) /\ h1.bins = h.bins /\ Marks(h1, H) = Marks(h, H)
      /\ Nexts(h1, H) = [Nexts(h, H) EXCEPT ![c] = f] /\ Prevs(h1, H) = Prevs(h, H)
  BY <1>2, <1>3, SetNextEffect
<1>8. Typed(h1) /\ Placed(h1, H) /\ h1.lib = h.lib BY <1>7, RelinkedSame DEF Relinked
<1>9. /\ Relinked(h1, h2, H) /\ h2.bins = h1.bins /\ Marks(h2, H) = Marks(h1, H)
      /\ Prevs(h2, H) = [Prevs(h1, H) EXCEPT ![c] = NULL] /\ Nexts(h2, H) = Nexts(h1, H)
  BY <1>0, <1>4, <1>8, SetPrevEffect
<1>10. Typed(h2) /\ Placed(h2, H) /\ h2.lib = h.lib BY <1>8, <1>9, RelinkedSame DEF Relinked
<1>11. /\ Relinked(h2, h3, H) /\ h3.bins = [h2.bins EXCEPT ![b] = c] /\ Marks(h3, H) = Marks(h2, H)
       /\ Prevs(h3, H) = Prevs(h2, H) /\ Nexts(h3, H) = Nexts(h2, H)
  <2>1. b \in Bins(h2.lib) BY <1>10
  <2> QED BY <1>0, <2>1, <1>5, <1>10, SetHeadEffect
<1>12. Typed(h3) /\ Placed(h3, H) BY <1>10, <1>11, RelinkedSame DEF Relinked
<1>13. Relinked(h, h3, H)
  <2>1. Relinked(h, h2, H) BY <1>7, <1>9, RelinkedThrough
  <2> QED BY <2>1, <1>11, RelinkedThrough
<1>14. CASE f = NULL
  <2>1. g = h3 BY <1>6, <1>14
  <2> QED BY <2>1, <1>1, <1>7, <1>9, <1>11, <1>13, <1>14
<1>15. CASE f # NULL
  <2>1. g = SetPrev(h3, f, c) /\ f \in H BY <1>1, <1>6, <1>15
  <2>2. /\ Relinked(h3, g, H) /\ g.bins = h3.bins /\ Marks(g, H) = Marks(h3, H)
        /\ Prevs(g, H) = [Prevs(h3, H) EXCEPT ![f] = c] /\ Nexts(g, H) = Nexts(h3, H)
    BY <1>0, <2>1, <1>12, SetPrevEffect
  <2>3. Relinked(h, g, H) BY <1>13, <2>2, RelinkedThrough
  <2> QED BY <2>2, <2>3, <1>1, <1>7, <1>9, <1>11, <1>15
<1> QED BY <1>14, <1>15

\* insert_chunk keeps the lists in order, with c in them.
LEMMA InsertKeeps ==
  ASSUME NEW h, Typed(h), NEW H, Placed(h, H), NEW F, Lists(h, H, F), NEW c \in H \ F,
         NEW g, g = InsertChunk(h, c)
  PROVE  Relinked(h, g, H) /\ Marks(g, H) = Marks(h, H) /\ Lists(g, H, F \cup {c})
PROOF
<1>1. PICK b : b = FindBin(h.lib, h.mem[c].units) OBVIOUS
<1>2. b = BinsOf(h, H)[c] BY <1>1 DEF BinsOf
<1>3. /\ Nexts(h, H) \in [H -> Int] /\ Prevs(h, H) \in [H -> Int]
      /\ BinsOf(h, H) \in [H -> Bins(h.lib)] /\ h.bins \in [Bins(h.lib) -> Int]
      /\ H \in SUBSET Nat
  BY LinkTypes
<1>4. b \in Bins(h.lib) BY <1>2, <1>3
<1>5. Linked(F, BinsOf(h, H), Nexts(h, H), Prevs(h, H), h.bins) /\ F \in SUBSET H BY DEF Lists
<1>6. h.bins[b] \in H \cup {NULL} BY <1>3, <1>4, <1>5 DEF Linked, Chained
<1>7. g = InsertFirst(h, b, c) BY <1>1 DEF InsertChunk
<1>8. /\ Relinked(h, g, H) /\ Marks(g, H) = Marks(h, H)
      /\ g.bins = [h.bins EXCEPT ![b] = c]
      /\ Nexts(g, H) = [Nexts(h, H) EXCEPT ![c] = h.bins[b]]
      /\ Prevs(g, H) = IF h.bins[b] = NULL THEN [Prevs(h, H) EXCEPT ![c] = NULL]
                       ELSE [Prevs(h, H) EXCEPT ![c] = NULL, ![h.bins[b]] = c]
  BY <1>4, <1>6, <1>7, InsertFirstEffect
<1>9. BinsOf(g, H) = BinsOf(h, H) BY <1>8, RelinkedSame
<1>10. Linked(F \cup {c}, BinsOf(h, H), Nexts(g, H), Prevs(g, H), g.bins)
  BY <1>2, <1>3, <1>5, <1>8, LinkedInsert
<1> QED BY <1>5, <1>8, <1>9, <1>10 DEF Lists

\* What taking a chunk out of its list writes.
LEMMA UnlinkEffect ==
  ASSUME NEW h, Typed(h), NEW H, Placed(h, H), NEW c \in H, NEW b, b = BinsOf(h, H)[c],
         NEW p, p = Prevs(h, H)[c], p \in H \cup {NULL},
         NEW n, n = Nexts(h, H)[c], n \in H \cup {NULL},
         NEW g, g = Unlink(h, b, c)
  PROVE  /\ Relinked(h, g, H) /\ Marks(g, H) = [Marks(h, H) EXCEPT ![c] = IN_USE]
         /\ g.bins = HeadsWithout(BinsOf(h, H), Nexts(h, H), Prevs(h, H), h.bins, c)
         /\ Nexts(g, H) = NextsWithout(Nexts(h, H), Prevs(h, H), c)
         /\ Prevs(g, H) = PrevsWithout(Nexts(h, H), Prevs(h, H), c)
PROOF
<1>0. H \subseteq Nat /\ b \in Bins(h.lib) /\ p \in Int /\ n \in Int /\ NULL \in Int /\ c \in H
  BY LinkTypes DEF NULL
<1>1. p = h.mem[Footer(h, c)].link /\ n = h.mem[c].link BY DEF Prevs, Nexts
<1>2. PICK h1 : h1 = IF p = NULL THEN SetHead(h, b, n) ELSE SetNext(h, p, n) OBVIOUS
<1>3. PICK h2 : h2 = RelinkNext(h1, n, p) OBVIOUS
<1>4. PICK h3 : h3 = SetNext(h2, c, NULL) OBVIOUS
<1>5. PICK h4 : h4 = SetPrev(h3, c, NULL) OBVIOUS
<1>6. g = SetStatus(h4, c, IN_USE) BY <1>1, <1>2, <1>3, <1>4, <1>5 DEF Unlink
<1>7. /\ Relinked(h, h1, H) /\ Marks(h1, H) = Marks(h, H)
      /\ h1.bins = IF p = NULL THEN [h.bins EXCEPT ![b] = n] ELSE h.bins
      /\ Nexts(h1, H) = IF p = NULL THEN Nexts(h, H) ELSE [Nexts(h, H) EXCEPT ![p] = n]
      /\ Prevs(h1, H) = Prevs(h, H)
  <2>1. CASE p = NULL
    <3>1. h1 = SetHead(h, b, n) BY <1>2, <2>1
    <3> QED BY <1>0, <3>1, <2>1, SetHeadEffect
  <2>2. CASE p # NULL
    <3>1. h1 = SetNext(h, p, n) /\ p \in H BY <1>2, <2>2
    <3> QED BY <1>0, <3>1, <2>2, SetNextEffect
  <2> QED BY <2>1, <2>2
<1>8. Typed(h1) /\ Placed(h1, H) BY <1>7, RelinkedSame DEF Relinked
<1>9. /\ Relinked(h1, h2, H) /\ Marks(h2, H) = Marks(h1, H) /\ h2.bins = h1.bins
      /\ Nexts(h2, H) = Nexts(h1, H)
      /\ Prevs(h2, H) = IF n = NULL THEN Prevs(h1, H) ELSE [Prevs(h1, H) EXCEPT ![n] = p]
  <2>1. CASE n = NULL
    <3>1. h2 = h1 BY <1>3, <2>1 DEF RelinkNext
    <3>2. Relinked(h1, h1, H) BY <1>8 DEF Relinked
    <3> QED BY <3>1, <3>2, <2>1
  <2>2. CASE n # NULL
    <3>1. h2 = SetPrev(h1, n, p) /\ n \in H BY <1>3, <2>2 DEF RelinkNext
    <3>2. /\ Relinked(h1, h2, H) /\ h2.bins = h1.bins /\ Marks(h2, H) = Marks(h1, H)
          /\ Prevs(h2, H) = [Prevs(h1, H) EXCEPT ![n] = p] /\ Nexts(h2, H) = Nexts(h1, H)
      BY <1>0, <3>1, <1>8, SetPrevEffect
    <3> QED BY <3>2, <2>2
  <2> QED BY <2>1, <2>2
<1>10. Typed(h2) /\ Placed(h2, H) BY <1>8, <1>9, RelinkedSame DEF Relinked
<1>11. /\ Relinked(h2, h3, H) /\ h3.bins = h2.bins /\ Marks(h3, H) = Marks(h2, H)
       /\ Nexts(h3, H) = [Nexts(h2, H) EXCEPT ![c] = NULL] /\ Prevs(h3, H) = Prevs(h2, H)
  BY <1>0, <1>4, <1>10, SetNextEffect
<1>12. Typed(h3) /\ Placed(h3, H) BY <1>10, <1>11, RelinkedSame DEF Relinked
<1>13. /\ Relinked(h3, h4, H) /\ h4.bins = h3.bins /\ Marks(h4, H) = Marks(h3, H)
       /\ Prevs(h4, H) = [Prevs(h3, H) EXCEPT ![c] = NULL] /\ Nexts(h4, H) = Nexts(h3, H)
  BY <1>0, <1>5, <1>12, SetPrevEffect
<1>14. Typed(h4) /\ Placed(h4, H) BY <1>12, <1>13, RelinkedSame DEF Relinked
<1>15. /\ Relinked(h4, g, H) /\ g.bins = h4.bins /\ Marks(g, H) = [Marks(h4, H) EXCEPT ![c] = IN_USE]
       /\ Prevs(g, H) = Prevs(h4, H) /\ Nexts(g, H) = Nexts(h4, H)
  BY <1>6, <1>14, CellTypes, SetStatusEffect
<1>16. Relinked(h, g, H)
  <2>1. Relinked(h, h2, H) BY <1>7, <1>9, RelinkedThrough
  <2>2. Relinked(h, h3, H) BY <2>1, <1>11, RelinkedThrough
  <2>3. Relinked(h, h4, H) BY <2>2, <1>13, RelinkedThrough
  <2> QED BY <2>3, <1>15, RelinkedThrough
<1>17. g.bins = h1.bins /\ Marks(g, H) = [Marks(h, H) EXCEPT ![c] = IN_USE]
  BY <1>7, <1>9, <1>11, <1>13, <1>15
<1>18. Nexts(g, H) = [Nexts(h1, H) EXCEPT ![c] = NULL] BY <1>9, <1>11, <1>13, <1>15
<1>19. Prevs(g, H) = [Prevs(h2, H) EXCEPT ![c] = NULL] BY <1>11, <1>13, <1>15
<1>20. Nexts(g, H) = NextsWithout(Nexts(h, H), Prevs(h, H), c)
  BY <1>7, <1>18 DEF NextsWithout
<1>21. Prevs(g, H) = PrevsWithout(Nexts(h, H), Prevs(h, H), c)
  BY <1>7, <1>9, <1>19 DEF PrevsWithout
<1>22. g.bins = HeadsWithout(BinsOf(h, H), Nexts(h, H), Prevs(h, H), h.bins, c)
  BY <1>7, <1>17 DEF HeadsWithout
<1> QED BY <1>16, <1>17, <1>20, <1>21, <1>22

\* remove_chunk_at keeps the lists in order, without c, which it marks as in use.
LEMMA RemoveKeeps ==
  ASSUME NEW h, Typed(h), NEW H, Placed(h, H), NEW F, Lists(h, H, F), NEW c \in F,
         NEW g, g = RemoveChunk(h, c)
  PROVE  /\ Relinked(h, g, H) /\ Marks(g, H) = [Marks(h, H) EXCEPT ![c] = IN_USE]
         /\ Lists(g, H, F \ {c})
PROOF
<1>0. Linked(F, BinsOf(h, H), Nexts(h, H), Prevs(h, H), h.bins) /\ F \in SUBSET H BY DEF Lists
<1>1. PICK b : b = FindBin(h.lib, h.mem[c].units) OBVIOUS
<1>2. b = BinsOf(h, H)[c] /\ c \in H BY <1>0, <1>1 DEF BinsOf
<1>3. /\ Nexts(h, H) \in [H -> Int] /\ Prevs(h, H) \in [H -> Int]
      /\ BinsOf(h, H) \in [H -> Bins(h.lib)] /\ h.bins \in [Bins(h.lib) -> Int]
      /\ H \in SUBSET Nat
  BY LinkTypes
<1>5. PICK p : p = Prevs(h, H)[c] OBVIOUS
<1>6. PICK n : n = Nexts(h, H)[c] OBVIOUS
<1>7. p \in H \cup {NULL} /\ n \in H \cup {NULL} BY <1>0, <1>5, <1>6 DEF Linked, Chained
<1>8. g = Unlink(h, b, c) BY <1>1 DEF RemoveChunk
<1>9. /\ Relinked(h, g, H) /\ Marks(g, H) = [Marks(h, H) EXCEPT ![c] = IN_USE]
      /\ g.bins = HeadsWithout(BinsOf(h, H), Nexts(h, H), Prevs(h, H), h.bins, c)
      /\ Nexts(g, H) = NextsWithout(Nexts(h, H), Prevs(h, H), c)
      /\ Prevs(g, H) = PrevsWithout(Nexts(h, H), Prevs(h, H), c)
  BY <1>2, <1>5, <1>6, <1>7, <1>8, UnlinkEffect
<1>10. BinsOf(g, H) = BinsOf(h, H) BY <1>9, RelinkedSame
<1>11. Linked(F \ {c}, BinsOf(h, H), Nexts(g, H), Prevs(g, H), g.bins)
  BY <1>0, <1>3, <1>9, LinkedRemove
<1> QED BY <1>0, <1>9, <1>10, <1>11 DEF Lists
-----------------------------------------------------------------------------
\* The chunks of H cover the heap end to end.
Tiles(h, H) ==
  /\ Placed(h, H)
  /\ 0 \in H \cup {h.end}
  /\ \A c \in H : Footer(h, c) + 1 \in H \cup {h.end}
  /\ \A c \in H \ {0} : \E p \in H : Footer(h, p) + 1 = c

\* The sequence f starts at x and makes N steps.
Follows(f, N, X, x, step) ==
  f \in [0 .. N -> X] /\ f[0] = x /\ \A i \in 1 .. N : f[i] = step[f[i - 1]]

\* A sequence of N steps exists for every step function.
LEMMA Stepwise ==
  ASSUME NEW N \in Nat, NEW X, NEW x \in X, NEW step \in [X -> X]
  PROVE  \E f : Follows(f, N, X, x, step)
PROOF
<1>1. PICK f \in [0 .. N -> X] : f = [i \in 0 .. N |-> IF i = 0 THEN x ELSE step[f[i - 1]]]
  BY Iterated
<1>2. Follows(f, N, X, x, step) BY <1>1 DEF Follows
<1> QED BY <1>2

\* A chunk takes three units at least, so that MaxChunks bounds their number.
LEMMA FewChunks ==
  ASSUME NEW h, Typed(h), NEW H, Placed(h, H)
  PROVE  /\ IsFiniteSet(H) /\ Cardinality(H) <= MaxChunks /\ MaxChunks \in Nat
         /\ \A c \in H : 3 * (c \div 3) <= c /\ c \div 3 \in 0 .. MaxChunks - 1
PROOF
<1>0. MaxHeap \in Nat /\ MaxChunks \in Nat /\ 3 * MaxChunks <= MaxHeap
  BY ChunksAssumption DEF MaxChunks
<1>1. \A c \in H : c \in Nat /\ c + 3 <= MaxHeap
  <2> TAKE c \in H
  <2>1. c \in Nat /\ h.mem[c].units \in Nat \ {0} /\ Footer(h, c) < h.end BY DEF Placed, Addr
  <2>2. h.end \in Int /\ h.end <= MaxHeap BY <1>0 DEF Typed
  <2> QED BY <1>0, <2>1, <2>2 DEF Footer
<1>2. \A c, d \in H : c < d => c + 3 <= d
  <2> SUFFICES ASSUME NEW c \in H, NEW d \in H, c < d PROVE c + 3 <= d OBVIOUS
  <2>1. c \in Nat /\ d \in Nat /\ h.mem[c].units \in Nat \ {0} /\ Footer(h, c) < d
    BY <1>1 DEF Placed
  <2> QED BY <2>1 DEF Footer
<1>3. \A c \in H : 3 * (c \div 3) <= c /\ c \div 3 \in 0 .. MaxChunks - 1
  BY <1>0, <1>1 DEF MaxChunks
<1>4. \A c, d \in H : c \div 3 = d \div 3 => c = d
  <2> SUFFICES ASSUME NEW c \in H, NEW d \in H, c \div 3 = d \div 3 PROVE c = d OBVIOUS
  <2> QED BY <1>1, <1>2
<1> DEFINE f == [c \in H |-> c \div 3]
           I == 0 .. MaxChunks - 1
<1>5. f \in [H -> I] /\ \A c, d \in H : f[c] = f[d] => c = d BY <1>3, <1>4
<1>6. f \in Injection(H, I)
  <2> HIDE DEF f, I
  <2> QED BY <1>5 DEF Injection, IsInjective
<1>7. IsFiniteSet(I) /\ Cardinality(I) = MaxChunks
  <2>1. IsFiniteSet(0 .. MaxChunks - 1) /\ Cardinality(0 .. MaxChunks - 1) =
           IF 0 > MaxChunks - 1 THEN 0 ELSE (MaxChunks - 1) - 0 + 1
    BY <1>0, FS_Interval
  <2> QED BY <1>0, <2>1
<1>8. IsFiniteSet(H) /\ Cardinality(H) <= Cardinality(I)
  <2> HIDE DEF f, I
  <2> QED BY <1>6, <1>7, FS_Injection
<1> QED BY <1>0, <1>3, <1>7, <1>8

\* The walk over the heap goes from chunk to chunk until its end.
LEMMA HeaderWalkUnfolds ==
  ASSUME NEW h, Typed(h), NEW H, Tiles(h, H)
  PROVE  /\ HeaderWalk(h) \in [0 .. MaxChunks -> H \cup {h.end}]
         /\ HeaderWalk(h)[0] = 0
         /\ \A i \in 0 .. MaxChunks : i < MaxChunks =>
              HeaderWalk(h)[i + 1] = IF HeaderWalk(h)[i] = h.end THEN h.end
                                     ELSE Footer(h, HeaderWalk(h)[i]) + 1
PROOF
<1> DEFINE X == H \cup {h.end}
           step == [c \in X |-> IF c = h.end THEN h.end ELSE Footer(h, c) + 1]
<1>0. MaxChunks \in Nat /\ 0 \in X
  <2>1. Placed(h, H) BY DEF Tiles
  <2> QED BY <2>1, FewChunks DEF Tiles
<1>1. step \in [X -> X] BY DEF Tiles
<1>2. PICK f : f \in [0 .. MaxChunks -> X] /\ f[0] = 0 /\ \A i \in 1 .. MaxChunks : f[i] = step[f[i - 1]]
  <2>1. PICK z : z = 0 OBVIOUS
  <2>2. z \in X BY <1>0, <2>1
  <2>3. MaxChunks \in Nat BY <1>0
  <2> HIDE DEF X, step
  <2>4. PICK f : Follows(f, MaxChunks, X, z, step) BY <1>1, <2>2, <2>3, Stepwise
  <2> QED BY <2>1, <2>4 DEF Follows
<1>3. \A c \in X : IF c >= h.end THEN c = h.end
                   ELSE c # h.end /\ Footer(h, c) + 1 = c + h.mem[c].units + 2
  <2> TAKE c \in X
  <2>1. h.end \in Int BY DEF Typed
  <2>2. c \in H => c \in Int /\ h.mem[c].units \in Int /\ h.mem[c].units >= 1 /\ Footer(h, c) < h.end
    BY DEF Tiles, Placed, Addr
  <2> QED BY <2>1, <2>2 DEF Footer
<1>4. f = [i \in 0 .. MaxChunks |-> IF i = 0 THEN 0
             ELSE LET c == f[i - 1] IN IF c >= h.end THEN h.end ELSE c + h.mem[c].units + 2]
  <2>1. ASSUME NEW i \in 0 .. MaxChunks
        PROVE  f[i] = IF i = 0 THEN 0
                      ELSE IF f[i - 1] >= h.end THEN h.end ELSE f[i - 1] + h.mem[f[i - 1]].units + 2
    <3>1. CASE i = 0 BY <1>2, <3>1
    <3>2. CASE i # 0
      <4>1. i - 1 \in 0 .. MaxChunks BY <1>0, <3>2
      <4>2. PICK c \in X : c = f[i - 1] BY <1>2, <4>1
      <4>3. i \in 1 .. MaxChunks BY <1>0, <3>2
      <4>6. f[i] = step[f[i - 1]]
        <5> HIDE DEF X, step
        <5> QED BY <1>2, <4>3
      <4>4. step[c] = IF c >= h.end THEN h.end ELSE c + h.mem[c].units + 2 BY <1>3
      <4> HIDE DEF step, X
      <4>5. f[i] = step[c] BY <4>2, <4>6
      <4> QED BY <3>2, <4>2, <4>5, <4>4
    <3> QED BY <3>1, <3>2
  <2>2. f = [i \in 0 .. MaxChunks |-> f[i]] BY <1>2
  <2> HIDE DEF step, X
  <2> QED BY <2>1, <2>2
<1>5. HeaderWalk(h) = [i \in 0 .. MaxChunks |-> IF i = 0 THEN 0
             ELSE LET c == HeaderWalk(h)[i - 1] IN IF c >= h.end THEN h.end ELSE c + h.mem[c].units + 2]
  BY <1>4 DEF HeaderWalk
<1> DEFINE at == HeaderWalk(h)
<1>6. at[0] = 0 BY <1>0, <1>5
<1>7. ASSUME NEW i \in 0 .. MaxChunks, i < MaxChunks
      PROVE  at[i + 1] = IF at[i] >= h.end THEN h.end ELSE at[i] + h.mem[at[i]].units + 2
  <2>1. i + 1 \in 0 .. MaxChunks /\ i + 1 # 0 /\ (i + 1) - 1 = i BY <1>0, <1>7
  <2> QED BY <1>5, <2>1
<1>8. ASSUME NEW i \in 0 .. MaxChunks, i < MaxChunks, at[i] \in X
      PROVE  at[i + 1] = step[at[i]]
  <2>1. PICK c \in X : c = at[i] BY <1>8
  <2>2. at[i + 1] = IF c >= h.end THEN h.end ELSE c + h.mem[c].units + 2 BY <1>7, <1>8, <2>1
  <2>3. step[c] = IF c >= h.end THEN h.end ELSE c + h.mem[c].units + 2 BY <1>3
  <2> QED BY <2>1, <2>2, <2>3
<1> DEFINE S == {i \in 0 .. MaxChunks : at[i] \in X}
<1>9. 0 .. MaxChunks \subseteq S
  <2>1. 0 \in S BY <1>0, <1>6
  <2>2. ASSUME NEW i \in 0 .. MaxChunks, i < MaxChunks, i \in S PROVE i + 1 \in S
    <3>1. i + 1 \in 0 .. MaxChunks BY <1>0, <2>2
    <3>2. at[i] \in X BY <2>2
    <3>3. at[i + 1] = step[at[i]] BY <1>8, <2>2, <3>2
    <3>4. step[at[i]] \in X
      <4> HIDE DEF step, X, at
      <4> QED BY <1>1, <3>2
    <3> QED BY <3>1, <3>3, <3>4
  <2> HIDE DEF S
  <2> QED BY <1>0, <2>1, <2>2, BoundedInduction
<1>10. at = [i \in 0 .. MaxChunks |-> at[i]] BY <1>5
<1>11. at \in [0 .. MaxChunks -> X] BY <1>9, <1>10
<1>12. ASSUME NEW i \in 0 .. MaxChunks, i < MaxChunks
       PROVE  at[i + 1] = IF at[i] = h.end THEN h.end ELSE Footer(h, at[i]) + 1
  <2>1. PICK c \in X : c = at[i] BY <1>11
  <2>2. at[i + 1] = step[c] BY <1>8, <1>12, <2>1
  <2> QED BY <2>1, <2>2
<1> QED BY <1>6, <1>11, <1>12

\* Going from header to header finds exactly the chunks that tile the heap.
LEMMA HeadersFound ==
  ASSUME NEW h, Typed(h), NEW H, Tiles(h, H)
  PROVE  Headers(h) = H
PROOF
<1> DEFINE at == HeaderWalk(h)
<1>0. Placed(h, H) BY DEF Tiles
<1>1. /\ at \in [0 .. MaxChunks -> H \cup {h.end}] /\ at[0] = 0
      /\ \A i \in 0 .. MaxChunks : i < MaxChunks =>
           at[i + 1] = IF at[i] = h.end THEN h.end ELSE Footer(h, at[i]) + 1
  BY HeaderWalkUnfolds
<1>2. h.end \notin H
  <2>1. ASSUME NEW c \in H
        PROVE  c \in Int /\ Footer(h, c) \in Int /\ c < Footer(h, c) /\ Footer(h, c) < h.end
    <3>1. c \in Int /\ Footer(h, c) < h.end BY <1>0 DEF Placed, Addr
    <3> QED BY <3>1, <1>0, Apart
  <2>2. h.end \in Int BY DEF Typed
  <2> QED BY <2>1, <2>2
<1>3. MaxChunks \in Nat /\ \A c \in H : 3 * (c \div 3) <= c /\ c \div 3 \in 0 .. MaxChunks - 1
  BY <1>0, FewChunks
<1>h. H \subseteq Nat BY <1>0 DEF Placed, Addr
<1> HIDE DEF at
<1> DEFINE S == {n \in Nat : \A c \in H : c <= n => \E i \in 0 .. MaxChunks : at[i] = c /\ 3 * i <= c}
<1>4. 0 \in S
  <2>1. 0 \in 0 .. MaxChunks BY <1>3
  <2>2. ASSUME NEW c \in H, c <= 0 PROVE c = 0 BY <1>h, <2>2
  <2>3. ASSUME NEW c \in H, c <= 0 PROVE \E i \in 0 .. MaxChunks : at[i] = c /\ 3 * i <= c
    BY <1>1, <2>1, <2>2, <2>3
  <2> QED BY <2>3
<1>5. ASSUME NEW n \in Nat, n \in S PROVE n + 1 \in S
  <2> SUFFICES ASSUME NEW c \in H, c <= n + 1
               PROVE  \E i \in 0 .. MaxChunks : at[i] = c /\ 3 * i <= c
    OBVIOUS
  <2>1. CASE c <= n BY <1>5, <2>1
  <2>2. CASE ~(c <= n)
    <3>1. c = n + 1 /\ c # 0 BY <2>2, <1>h
    <3>2. PICK d \in H : Footer(h, d) + 1 = c BY <3>1 DEF Tiles
    <3>3. d \in Nat /\ d + 3 <= c
      <4>1. d \in Nat /\ h.mem[d].units \in Nat \ {0} BY <1>0 DEF Placed, Addr
      <4> QED BY <3>2, <4>1 DEF Footer
    <3>4. d <= n BY <3>1, <3>3
    <3>5. PICK i \in 0 .. MaxChunks : at[i] = d /\ 3 * i <= d BY <1>5, <3>4
    <3>6. c \in Nat /\ 3 * (i + 1) <= c /\ i + 1 \in Nat BY <1>h, <3>3, <3>5
    <3>7. i + 1 \in 0 .. MaxChunks /\ i < MaxChunks
      <4>1. c \div 3 \in 0 .. MaxChunks - 1 BY <1>3
      <4> QED BY <4>1, <3>6, <1>3
    <3>8. at[i + 1] = c BY <1>1, <1>2, <3>2, <3>5, <3>7
    <3> QED BY <3>6, <3>7, <3>8
  <2> QED BY <2>1, <2>2
<1>6. Nat \subseteq S
  <2> HIDE DEF S
  <2> QED BY <1>4, <1>5, SetInduction
<1>7. \A c \in H : \E i \in 0 .. MaxChunks : at[i] = c BY <1>6, <1>h
<1>8. Range(at) = {at[i] : i \in 0 .. MaxChunks} BY <1>1 DEF Range
<1>9. H \subseteq Range(at) /\ Range(at) \subseteq H \cup {h.end} BY <1>1, <1>7, <1>8
<1> QED BY <1>2, <1>9 DEF Headers, at
-----------------------------------------------------------------------------
\* A walk along a free list follows the links forward.
LEMMA FreeListUnfolds ==
  ASSUME NEW h, Typed(h), NEW H, Placed(h, H), NEW F, Lists(h, H, F), NEW b \in Bins(h.lib)
  PROVE  /\ FreeList(h, b) \in [0 .. MaxChunks -> F \cup {NULL}]
         /\ FreeList(h, b)[0] = h.bins[b]
         /\ \A i \in 0 .. MaxChunks : i < MaxChunks =>
              FreeList(h, b)[i + 1] = IF FreeList(h, b)[i] = NULL THEN NULL
                                      ELSE Nexts(h, H)[FreeList(h, b)[i]]
PROOF
<1> DEFINE X == F \cup {NULL}
           step == [c \in X |-> IF c = NULL THEN NULL ELSE Nexts(h, H)[c]]
<1>0. MaxChunks \in Nat BY FewChunks
<1>1. F \subseteq H /\ Linked(F, BinsOf(h, H), Nexts(h, H), Prevs(h, H), h.bins) BY DEF Lists
<1>2. step \in [X -> X] BY <1>1 DEF Linked, Chained
<1>3. h.bins[b] \in X BY <1>1 DEF Linked, Chained, Typed
<1>4. PICK x : x = h.bins[b] OBVIOUS
<1>5. PICK f : f \in [0 .. MaxChunks -> X] /\ f[0] = x /\ \A i \in 1 .. MaxChunks : f[i] = step[f[i - 1]]
  <2>2. x \in X BY <1>3, <1>4
  <2> HIDE DEF X, step
  <2>4. PICK f : Follows(f, MaxChunks, X, x, step) BY <1>0, <1>2, <2>2, Stepwise
  <2> QED BY <2>4 DEF Follows
<1>6. \A c \in X : step[c] = IF c = NULL THEN NULL ELSE h.mem[c].link
  BY <1>1 DEF Nexts
<1>7. f = [i \in 0 .. MaxChunks |-> IF i = 0 THEN h.bins[b]
             ELSE LET c == f[i - 1] IN IF c = NULL THEN NULL ELSE h.mem[c].link]
  <2>1. ASSUME NEW i \in 0 .. MaxChunks
        PROVE  f[i] = IF i = 0 THEN h.bins[b]
                      ELSE IF f[i - 1] = NULL THEN NULL ELSE h.mem[f[i - 1]].link
    <3>1. CASE i = 0 BY <1>4, <1>5, <3>1
    <3>2. CASE i # 0
      <4>1. i - 1 \in 0 .. MaxChunks BY <1>0, <3>2
      <4>2. PICK c \in X : c = f[i - 1] BY <1>5, <4>1
      <4>3. i \in 1 .. MaxChunks BY <1>0, <3>2
      <4>4. f[i] = step[f[i - 1]]
        <5> HIDE DEF X, step
        <5> QED BY <1>5, <4>3
      <4>5. f[i] = step[c] BY <4>2, <4>4
      <4>6. step[c] = IF c = NULL THEN NULL ELSE h.mem[c].link BY <1>6
      <4> HIDE DEF step, X
      <4> QED BY <3>2, <4>2, <4>5, <4>6
    <3> QED BY <3>1, <3>2
  <2>2. f = [i \in 0 .. MaxChunks |-> f[i]] BY <1>5
  <2> HIDE DEF step, X
  <2> QED BY <2>1, <2>2
<1>8. FreeList(h, b) = [i \in 0 .. MaxChunks |-> IF i = 0 THEN h.bins[b]
             ELSE LET c == FreeList(h, b)[i - 1] IN IF c = NULL THEN NULL ELSE h.mem[c].link]
  BY <1>7 DEF FreeList
<1> DEFINE at == FreeList(h, b)
<1>9. at[0] = h.bins[b] BY <1>0, <1>8
<1>10. ASSUME NEW i \in 0 .. MaxChunks, i < MaxChunks
       PROVE  at[i + 1] = IF at[i] = NULL THEN NULL ELSE h.mem[at[i]].link
  <2>1. i + 1 \in 0 .. MaxChunks /\ i + 1 # 0 /\ (i + 1) - 1 = i BY <1>0, <1>10
  <2> QED BY <1>8, <2>1
<1>11. ASSUME NEW i \in 0 .. MaxChunks, i < MaxChunks, at[i] \in X
       PROVE  at[i + 1] = step[at[i]]
  <2>1. PICK c \in X : c = at[i] BY <1>11
  <2>2. at[i + 1] = IF c = NULL THEN NULL ELSE h.mem[c].link BY <1>10, <1>11, <2>1
  <2>3. step[c] = IF c = NULL THEN NULL ELSE h.mem[c].link BY <1>6
  <2> QED BY <2>1, <2>2, <2>3
<1> DEFINE S == {i \in 0 .. MaxChunks : at[i] \in X}
<1>12. 0 .. MaxChunks \subseteq S
  <2>1. 0 \in S BY <1>0, <1>3, <1>9
  <2>2. ASSUME NEW i \in 0 .. MaxChunks, i < MaxChunks, i \in S PROVE i + 1 \in S
    <3>1. i + 1 \in 0 .. MaxChunks BY <1>0, <2>2
    <3>2. at[i] \in X BY <2>2
    <3>3. at[i + 1] = step[at[i]] BY <1>11, <2>2, <3>2
    <3>4. step[at[i]] \in X
      <4> HIDE DEF step, X, at
      <4> QED BY <1>2, <3>2
    <3> QED BY <3>1, <3>3, <3>4
  <2> HIDE DEF S
  <2> QED BY <1>0, <2>1, <2>2, BoundedInduction
<1>13. at \in [0 .. MaxChunks -> X]
  <2>1. at = [i \in 0 .. MaxChunks |-> at[i]] BY <1>8
  <2> QED BY <1>12, <2>1
<1>14. ASSUME NEW i \in 0 .. MaxChunks, i < MaxChunks
       PROVE  at[i + 1] = IF at[i] = NULL THEN NULL ELSE Nexts(h, H)[at[i]]
  <2>1. PICK c \in X : c = at[i] BY <1>13
  <2>2. at[i + 1] = step[c] BY <1>11, <1>14, <2>1
  <2> QED BY <2>1, <2>2
<1> QED BY <1>9, <1>13, <1>14

\* A free list holds the free chunks of its bin, each once.
LEMMA FreeListExact ==
  ASSUME NEW h, Typed(h), NEW H, Placed(h, H), NEW F, Lists(h, H, F), NEW b \in Bins(h.lib),
         NEW at, at = FreeList(h, b)
  PROVE  /\ at \in [0 .. MaxChunks -> F \cup {NULL}] /\ MaxChunks \in Nat /\ NULL \notin F
         /\ \A i \in 0 .. MaxChunks : at[i] # NULL =>
              /\ at[i] \in F /\ BinsOf(h, H)[at[i]] = b
              /\ Prevs(h, H)[at[i]] = IF i = 0 THEN NULL ELSE at[i - 1]
         /\ \A i, j \in 0 .. MaxChunks : at[i] # NULL /\ at[i] = at[j] => i = j
         /\ \A c \in F : BinsOf(h, H)[c] = b => \E i \in 0 .. MaxChunks : at[i] = c
PROOF
<1> DEFINE N == MaxChunks
           bin == BinsOf(h, H)
           nx == Nexts(h, H)
           pv == Prevs(h, H)
<1>1. F \subseteq H /\ H \subseteq Nat /\ NULL \notin F BY LinkTypes DEF Lists, NULL
<1>2. PICK r \in [F -> Nat] : Chained(F, bin, nx, pv, h.bins, r) BY DEF Lists, Linked
<1>3. /\ at \in [0 .. N -> F \cup {NULL}] /\ at[0] = h.bins[b]
      /\ \A i \in 0 .. N : i < N => at[i + 1] = IF at[i] = NULL THEN NULL ELSE nx[at[i]]
  BY FreeListUnfolds
<1>4. N \in Nat /\ IsFiniteSet(H) /\ Cardinality(H) <= N BY FewChunks
<1>5. b \in DOMAIN h.bins BY DEF Typed
<1> HIDE DEF N, bin, nx, pv
<1> DEFINE Sound(i) == at[i] # NULL =>
              /\ at[i] \in F /\ bin[at[i]] = b
              /\ pv[at[i]] = IF i = 0 THEN NULL ELSE at[i - 1]
           S == {i \in 0 .. N : Sound(i)}
<1>6. 0 .. N \subseteq S
  <2>1. 0 \in S
    <3>1. Sound(0) BY <1>2, <1>3, <1>5 DEF Chained
    <3> QED BY <3>1, <1>4
  <2>2. ASSUME NEW i \in 0 .. N, i < N, i \in S PROVE i + 1 \in S
    <3>1. i + 1 \in 0 .. N /\ i + 1 # 0 /\ (i + 1) - 1 = i BY <1>4, <2>2
    <3>2. ASSUME at[i + 1] # NULL
          PROVE  at[i + 1] \in F /\ bin[at[i + 1]] = b /\ pv[at[i + 1]] = at[i]
      <4>1. at[i] # NULL /\ at[i + 1] = nx[at[i]] BY <1>3, <2>2, <3>2
      <4>2. PICK c : c = at[i] OBVIOUS
      <4>3. c \in F /\ bin[c] = b /\ nx[c] # NULL BY <2>2, <3>2, <4>1, <4>2
      <4>4. nx[c] \in F /\ bin[nx[c]] = bin[c] /\ pv[nx[c]] = c BY <4>3, <1>2 DEF Chained
      <4> QED BY <4>1, <4>2, <4>3, <4>4
    <3>3. Sound(i + 1) BY <3>1, <3>2
    <3> QED BY <3>1, <3>3
  <2> HIDE DEF S
  <2> QED BY <1>4, <2>1, <2>2, BoundedInduction
<1>7. \A i \in 0 .. N : Sound(i) BY <1>6
<1> DEFINE Rises(j) == \A i \in 0 .. N : i < j /\ at[j] # NULL => at[i] # NULL /\ r[at[i]] < r[at[j]]
           T == {j \in 0 .. N : Rises(j)}
<1>8. 0 .. N \subseteq T
  <2>1. 0 \in T BY <1>4
  <2>2. ASSUME NEW j \in 0 .. N, j < N, j \in T PROVE j + 1 \in T
    <3>1. j + 1 \in 0 .. N BY <1>4, <2>2
    <3>2. ASSUME NEW i \in 0 .. N, i < j + 1, at[j + 1] # NULL
          PROVE  at[i] # NULL /\ r[at[i]] < r[at[j + 1]]
      <4>1. at[j] # NULL /\ at[j + 1] = nx[at[j]] BY <1>3, <2>2, <3>2
      <4>2. PICK c : c = at[j] OBVIOUS
      <4>3. c \in F BY <4>1, <4>2, <1>3
      <4>4. nx[c] \in F /\ r[c] < r[nx[c]] BY <4>1, <4>2, <4>3, <3>2, <1>2 DEF Chained
      <4>5. CASE i = j BY <4>1, <4>2, <4>4, <4>5
      <4>6. CASE i < j
        <5>1. at[i] # NULL /\ r[at[i]] < r[at[j]] BY <2>2, <4>1, <4>6
        <5>2. at[i] \in F BY <5>1, <1>3
        <5>3. r[at[i]] \in Nat /\ r[c] \in Nat /\ r[nx[c]] \in Nat BY <5>2, <4>3, <4>4
        <5> QED BY <5>1, <5>3, <4>1, <4>2, <4>4
      <4>7. i = j \/ i < j BY <3>2
      <4> QED BY <4>5, <4>6, <4>7
    <3>3. Rises(j + 1) BY <3>2
    <3> QED BY <3>1, <3>3
  <2> HIDE DEF T
  <2> QED BY <1>4, <2>1, <2>2, BoundedInduction
<1>9. \A j \in 0 .. N : Rises(j) BY <1>8
<1>10. ASSUME NEW i \in 0 .. N, NEW j \in 0 .. N, at[i] # NULL, at[i] = at[j] PROVE i = j
  <2>1. at[i] \in F /\ r[at[i]] \in Nat BY <1>3, <1>10
  <2>2. ~(i < j) BY <1>9, <1>10, <2>1
  <2>3. ~(j < i) BY <1>9, <1>10, <2>1
  <2> QED BY <2>2, <2>3
<1>11. \E m \in 0 .. N : at[m] = NULL
  <2> SUFFICES ASSUME \A m \in 0 .. N : at[m] # NULL PROVE FALSE OBVIOUS
  <2> DEFINE I == 0 .. N
  <2>1. at \in [I -> F] /\ \A i, j \in I : at[i] = at[j] => i = j BY <1>3, <1>10
  <2>2. at \in Injection(I, F)
    <3> HIDE DEF I
    <3> QED BY <2>1 DEF Injection, IsInjective
  <2>3. IsFiniteSet(F) /\ Cardinality(F) <= Cardinality(H) BY <1>1, <1>4, FS_Subset
  <2>4. Cardinality(I) <= Cardinality(F) BY <2>2, <2>3, FS_Injection
  <2>5. Cardinality(I) = N + 1
    <3>1. Cardinality(0 .. N) = IF 0 > N THEN 0 ELSE N - 0 + 1 BY <1>4, FS_Interval
    <3> QED BY <3>1, <1>4
  <2>6. Cardinality(F) \in Nat /\ Cardinality(H) \in Nat BY <2>3, <1>4, FS_CardinalityType
  <2> HIDE DEF I
  <2> QED BY <2>3, <2>4, <2>5, <2>6, <1>4
<1>12. PICK m \in 0 .. N : at[m] = NULL BY <1>11
<1> DEFINE Listed(c) == \E i \in 0 .. N : at[i] = c
           R == {n \in Nat : \A c \in F : bin[c] = b /\ r[c] <= n => Listed(c)}
<1>13. ASSUME NEW c \in F, bin[c] = b,
              pv[c] # NULL => Listed(pv[c])
       PROVE  Listed(c)
  <2>1. CASE pv[c] = NULL
    <3>1. h.bins[b] = c BY <2>1, <1>2, <1>13 DEF Chained
    <3> QED BY <3>1, <1>3, <1>4
  <2>2. CASE pv[c] # NULL
    <3>1. pv[c] \in F /\ nx[pv[c]] = c BY <2>2, <1>2 DEF Chained
    <3>2. PICK i \in 0 .. N : at[i] = pv[c] BY <2>2, <1>13
    <3>3. i < m BY <3>2, <2>2, <1>9, <1>12, <1>10
    <3>4. i < N /\ i + 1 \in 0 .. N BY <3>3, <1>4
    <3>5. at[i + 1] = c BY <3>1, <3>2, <3>4, <1>3, <2>2
    <3> QED BY <3>4, <3>5
  <2> QED BY <2>1, <2>2
<1>14. ASSUME NEW c \in F, bin[c] = b, pv[c] # NULL
       PROVE  pv[c] \in F /\ bin[pv[c]] = b /\ r[pv[c]] < r[c]
  <2>1. pv[c] \in F /\ bin[pv[c]] = b /\ nx[pv[c]] = c BY <1>2, <1>14 DEF Chained
  <2>2. PICK d : d = pv[c] OBVIOUS
  <2>3. d \in F /\ nx[d] = c /\ nx[d] # NULL BY <2>1, <2>2, <1>1
  <2>4. r[d] < r[nx[d]] BY <2>3, <1>2 DEF Chained
  <2> QED BY <2>1, <2>2, <2>3, <2>4
<1>15. 0 \in R
  <2>1. ASSUME NEW c \in F, bin[c] = b, r[c] <= 0 PROVE Listed(c)
    <3>1. pv[c] = NULL
      <4>1. SUFFICES ASSUME pv[c] # NULL PROVE FALSE OBVIOUS
      <4>2. pv[c] \in F /\ r[pv[c]] < r[c] BY <1>14, <2>1, <4>1
      <4>3. r[pv[c]] \in Nat /\ r[c] \in Nat BY <4>2
      <4> QED BY <2>1, <4>2, <4>3
    <3> HIDE DEF Listed
    <3> QED BY <2>1, <3>1, <1>13
  <2> QED BY <2>1
<1>16. ASSUME NEW n \in Nat, n \in R PROVE n + 1 \in R
  <2>1. ASSUME NEW c \in F, bin[c] = b, r[c] <= n + 1 PROVE Listed(c)
    <3>1. ASSUME pv[c] # NULL PROVE Listed(pv[c])
      <4>1. pv[c] \in F /\ bin[pv[c]] = b /\ r[pv[c]] < r[c] BY <1>14, <2>1, <3>1
      <4>2. r[pv[c]] \in Nat /\ r[c] \in Nat BY <4>1
      <4>3. r[pv[c]] <= n BY <4>1, <4>2, <2>1
      <4> HIDE DEF Listed
      <4> QED BY <4>1, <4>3, <1>16
    <3> HIDE DEF Listed
    <3> QED BY <2>1, <3>1, <1>13
  <2> QED BY <2>1
<1>17. Nat \subseteq R
  <2> HIDE DEF R
  <2> QED BY <1>15, <1>16, SetInduction
<1>18. \A c \in F : bin[c] = b => Listed(c)
  <2> SUFFICES ASSUME NEW c \in F, bin[c] = b PROVE Listed(c) OBVIOUS
  <2>1. r[c] \in Nat /\ r[c] <= r[c] OBVIOUS
  <2> HIDE DEF Listed
  <2> QED BY <2>1, <1>17
<1> QED BY <1>1, <1>3, <1>4, <1>7, <1>10, <1>18 DEF N, bin, nx, pv
-----------------------------------------------------------------------------
\* The search of one list finds a chunk that is large enough if it holds one.
LEMMA FirstFitFinds ==
  ASSUME NEW h, Typed(h), NEW H, Placed(h, H), NEW F, Lists(h, H, F), NEW b \in Bins(h.lib),
         NEW units \in Int, NEW c, c = FirstFit(h, b, units)
  PROVE  /\ c # NULL => c \in F /\ BinsOf(h, H)[c] = b /\ h.mem[c].units >= units
         /\ c = NULL => \A d \in F : BinsOf(h, H)[d] = b => ~(h.mem[d].units >= units)
PROOF
<1>1. PICK at : at = FreeList(h, b) OBVIOUS
<1>2. /\ at \in [0 .. MaxChunks -> F \cup {NULL}] /\ MaxChunks \in Nat /\ NULL \notin F
      /\ \A i \in 0 .. MaxChunks : at[i] # NULL => at[i] \in F /\ BinsOf(h, H)[at[i]] = b
      /\ \A d \in F : BinsOf(h, H)[d] = b => \E i \in 0 .. MaxChunks : at[i] = d
  BY <1>1, FreeListExact
<1> DEFINE fits == {i \in DOMAIN at : at[i] # NULL /\ h.mem[at[i]].units >= units}
<1>3. c = IF fits = {} THEN NULL ELSE at[Min(fits)] BY <1>1 DEF FirstFit
<1>4. fits \in SUBSET Nat BY <1>2
<1>5. CASE fits = {} BY <1>2, <1>3, <1>5
<1>6. CASE fits # {}
  <2>1. Min(fits) \in fits
    <3> HIDE DEF fits
    <3> QED BY <1>4, <1>6, LeastOf
  <2>2. PICK i \in fits : i = Min(fits) BY <2>1
  <2>3. c = at[i] BY <1>3, <1>6, <2>2
  <2> QED BY <2>3, <1>2
<1> QED BY <1>5, <1>6

\* The search of the bins finds a chunk if a bin that it searches holds one.
LEMMA BestFitFinds ==
  ASSUME NEW h, Typed(h), NEW H, Placed(h, H), NEW F, Lists(h, H, F),
         NEW units \in Int, NEW c, c = FindBestFit(h, units)
  PROVE  /\ c # NULL => c \in F /\ h.mem[c].units >= units
         /\ c = NULL => \A d \in F : BinsOf(h, H)[d] \in Searched(h.lib, units)
                                       => ~(h.mem[d].units >= units)
PROOF
<1> DEFINE bins == {b \in Searched(h.lib, units) : FirstFit(h, b, units) # NULL}
<1>1. Searched(h.lib, units) \subseteq Bins(h.lib) BY DEF Searched, Bins
<1>2. bins \in SUBSET Nat BY <1>1, BinNumbers
<1>3. c = IF bins = {} THEN NULL ELSE FirstFit(h, Min(bins), units) BY DEF FindBestFit
<1>4. CASE bins = {}
  <2> SUFFICES ASSUME NEW d \in F, BinsOf(h, H)[d] \in Searched(h.lib, units)
               PROVE  ~(h.mem[d].units >= units)
    BY <1>3, <1>4
  <2>1. PICK b \in Bins(h.lib) : b = BinsOf(h, H)[d] BY <1>1
  <2>2. PICK x : x = FirstFit(h, b, units) OBVIOUS
  <2>3. x = NULL BY <2>1, <2>2, <1>4
  <2> QED BY <2>1, <2>2, <2>3, FirstFitFinds
<1>5. CASE bins # {}
  <2>1. Min(bins) \in bins
    <3> HIDE DEF bins
    <3> QED BY <1>2, <1>5, LeastOf
  <2>2. PICK b \in Bins(h.lib) : b = Min(bins) /\ FirstFit(h, b, units) # NULL BY <2>1, <1>1
  <2>3. c = FirstFit(h, b, units) /\ c # NULL BY <1>3, <1>5, <2>2
  <2> QED BY <2>3, FirstFitFinds
<1> QED BY <1>4, <1>5

\* The sizes of the exponential bins grow.
LEMMA ExpSizesGrow ==
  /\ \A b \in 1 .. ExpBins : ExpSize(b) \in Nat \ {0} /\ ExpSize(b) <= MaxExp
  /\ MaxExp \in Nat
PROOF
<1>0. ExpBins \in Nat /\ ExpBins >= 1 BY ChunksAssumption
<1> DEFINE step == [n \in Nat |-> 2 * n]
<1>1. step \in [Nat -> Nat] OBVIOUS
<1>2. PICK f : f \in [0 .. ExpBins - 1 -> Nat] /\ f[0] = 1 /\ \A i \in 1 .. ExpBins - 1 : f[i] = 2 * f[i - 1]
  <2>1. PICK x : x = 1 OBVIOUS
  <2>2. x \in Nat BY <2>1
  <2>3. ExpBins - 1 \in Nat BY <1>0
  <2>4. PICK f : Follows(f, ExpBins - 1, Nat, x, step)
    <3> HIDE DEF step
    <3> QED BY <1>1, <2>2, <2>3, Stepwise
  <2>5. f \in [0 .. ExpBins - 1 -> Nat] /\ f[0] = x /\ \A i \in 1 .. ExpBins - 1 : f[i] = step[f[i - 1]]
    BY <2>4 DEF Follows
  <2>6. \A i \in 1 .. ExpBins - 1 : f[i - 1] \in Nat BY <2>5, <1>0
  <2> QED BY <2>1, <2>5, <2>6
<1> DEFINE g == [b \in 1 .. ExpBins |-> f[b - 1]]
<1>3. g = [b \in 1 .. ExpBins |-> IF b = 1 THEN 1 ELSE 2 * g[b - 1]]
  <2>1. ASSUME NEW b \in 1 .. ExpBins PROVE g[b] = IF b = 1 THEN 1 ELSE 2 * g[b - 1]
    <3>1. CASE b = 1 BY <3>1, <1>2
    <3>2. CASE b # 1
      <4>1. b - 1 \in 1 .. ExpBins - 1 /\ b - 1 \in 1 .. ExpBins BY <3>2, <1>0
      <4>2. f[b - 1] = 2 * f[(b - 1) - 1] BY <4>1, <1>2
      <4>3. g[b - 1] = f[(b - 1) - 1] BY <4>1
      <4> QED BY <3>2, <4>2, <4>3
    <3> QED BY <3>1, <3>2
  <2>2. g = [b \in 1 .. ExpBins |-> g[b]] OBVIOUS
  <2> HIDE DEF g
  <2> QED BY <2>1, <2>2
<1>4. ExpSizes = [b \in 1 .. ExpBins |-> IF b = 1 THEN 1 ELSE 2 * ExpSizes[b - 1]]
  <2> HIDE DEF g
  <2> QED BY <1>3 DEF ExpSizes
<1>5. ExpSizes[1] = 1 BY <1>0, <1>4
<1>6. ASSUME NEW b \in 1 .. ExpBins, b < ExpBins PROVE ExpSizes[b + 1] = 2 * ExpSizes[b]
  <2>1. b + 1 \in 1 .. ExpBins /\ b + 1 # 1 /\ (b + 1) - 1 = b BY <1>0, <1>6
  <2> QED BY <1>4, <2>1
<1> DEFINE Grows(b) == ExpSizes[b] \in Nat \ {0} /\ \A a \in 1 .. b : ExpSizes[a] \in Nat \ {0} /\ ExpSizes[a] <= ExpSizes[b]
           S == {n \in Nat : n < ExpBins => Grows(n + 1)}
<1>7. Nat \subseteq S
  <2>1. 0 \in S
    <3>1. Grows(1)
      <4>1. ASSUME NEW a \in 1 .. 1 PROVE a = 1 BY <4>1
      <4> QED BY <4>1, <1>5
    <3>2. 0 + 1 = 1 OBVIOUS
    <3> QED BY <3>1, <3>2
  <2>2. ASSUME NEW n \in Nat, n \in S PROVE n + 1 \in S
    <3> SUFFICES ASSUME n + 1 < ExpBins PROVE Grows((n + 1) + 1) BY <2>2
    <3>1. PICK b \in 1 .. ExpBins : b = n + 1 /\ b < ExpBins BY <1>0
    <3>2. Grows(b) BY <2>2, <3>1, <1>0
    <3>3. ExpSizes[b + 1] = 2 * ExpSizes[b] BY <1>6, <3>1
    <3>4. ASSUME NEW a \in 1 .. b + 1 PROVE ExpSizes[a] \in Nat \ {0} /\ ExpSizes[a] <= ExpSizes[b + 1]
      <4>1. CASE a = b + 1 BY <4>1, <3>2, <3>3
      <4>2. CASE a # b + 1
        <5>1. a \in 1 .. b BY <4>2, <3>1
        <5>2. ExpSizes[a] \in Nat \ {0} /\ ExpSizes[a] <= ExpSizes[b] BY <5>1, <3>2
        <5> QED BY <5>2, <3>2, <3>3
      <4> QED BY <4>1, <4>2
    <3> QED BY <3>1, <3>2, <3>3, <3>4
  <2> HIDE DEF S
  <2> QED BY <2>1, <2>2, SetInduction
<1>8. Grows(ExpBins)
  <2>1. ExpBins - 1 \in Nat /\ ExpBins - 1 < ExpBins /\ (ExpBins - 1) + 1 = ExpBins BY <1>0
  <2>2. ExpBins - 1 \in S BY <2>1, <1>7
  <2> QED BY <2>1, <2>2
<1> QED BY <1>8 DEF ExpSize, MaxExp

\* What the search leaves out: chunks in the fixed bin of the request itself.
LEMMA OnlyOverlooked ==
  ASSUME NEW lib, NEW units \in Nat, NEW m \in Nat, units <= m,
         FindBin(lib, m) \notin Searched(lib, units)
  PROVE  FindBin(lib, units) \in Fixed(lib) /\ FindBin(lib, m) = FindBin(lib, units)
PROOF
<1>0. ExpBins \in Nat \ {0} /\ FixedBins \in Nat /\ Interval \in Nat \ {0} BY ChunksAssumption
<1>1. PICK b : b = FindBin(lib, m) OBVIOUS
<1>2. b \in {e \in Exp(lib) : m <= ExpSize(e)} \cup {e \in Fixed(lib) : m <= FixedTop(e)} \cup {Large}
  BY <1>1, FindBinLeast
<1>3. b \notin Exp(lib)
  <2> SUFFICES ASSUME b \in Exp(lib) PROVE FALSE OBVIOUS
  <2>1. b \in 1 .. ExpBins BY DEF Exp
  <2>2. m <= ExpSize(b)
    <3>1. b \notin Fixed(lib) /\ b # Large BY <2>1, <1>0 DEF Fixed, Large
    <3> QED BY <3>1, <1>2
  <2>3. units <= ExpSize(b) BY <2>1, <2>2, ExpSizesGrow
  <2> QED BY <2>3, <1>1 DEF Searched
<1>4. b # Large BY <1>1 DEF Searched
<1>5. b \in Fixed(lib) /\ m <= FixedTop(b) BY <1>2, <1>3, <1>4
<1>6. b \in Int /\ b > ExpBins /\ b <= ExpBins + FixedBins /\ lib = 2 BY <1>0, <1>5 DEF Fixed
<1>7. MaxExp \in Nat /\ MinFixed = MaxExp + 1 BY ExpSizesGrow DEF MinFixed
<1>8. PICK k \in Nat : k = b - ExpBins - 1 BY <1>0, <1>6
<1>9. PICK low \in Nat : low = k * Interval BY <1>0
<1>10. units > MinFixed + low
  <2>1. ~(units <= MinFixed + (b - ExpBins - 1) * Interval) BY <1>1, <1>5 DEF Searched
  <2>2. (b - ExpBins - 1) * Interval = low BY <1>8, <1>9
  <2> QED BY <2>1, <2>2, <1>7
<1>11. FixedTop(b) = MinFixed + low + Interval - 1
  <2>1. b - ExpBins = k + 1 BY <1>0, <1>6, <1>8
  <2>2. (k + 1) * Interval = low + Interval BY <1>0, <1>9
  <2> QED BY <2>1, <2>2, <1>7, <1>0 DEF FixedTop
<1>12. units <= FixedTop(b) BY <1>0, <1>5, <1>7, <1>11
<1> DEFINE S == {e \in Exp(lib) : units <= ExpSize(e)} \cup {e \in Fixed(lib) : units <= FixedTop(e)} \cup {Large}
<1>13. ASSUME NEW e \in S PROVE e \in Int /\ b <= e
  <2>1. CASE e \in Exp(lib) /\ units <= ExpSize(e)
    <3>1. e \in 1 .. ExpBins BY <2>1 DEF Exp
    <3>2. ExpSize(e) \in Nat /\ ExpSize(e) <= MaxExp BY <3>1, ExpSizesGrow
    <3> QED BY <2>1, <3>2, <1>7, <1>10
  <2>2. CASE e \in Fixed(lib) /\ units <= FixedTop(e)
    <3>1. e \in Int BY <2>2, <1>0 DEF Fixed
    <3>2. ASSUME e < b PROVE FALSE
      <4>1. PICK j \in Int : j = e - ExpBins BY <3>1, <1>0
      <4>2. j <= k BY <4>1, <3>1, <3>2, <1>0, <1>6, <1>8
      <4>3. j * Interval <= k * Interval BY <4>2, <1>0
      <4>4. PICK top \in Int : top = j * Interval BY <4>1, <1>0
      <4>5. FixedTop(e) = MinFixed + top - 1 BY <4>1, <4>4 DEF FixedTop
      <4> QED BY <4>3, <4>4, <4>5, <2>2, <1>7, <1>9, <1>10
    <3> QED BY <3>1, <3>2, <1>6
  <2>3. CASE e = Large BY <2>3, <1>0, <1>6 DEF Large
  <2> QED BY <2>1, <2>2, <2>3
<1>14. b \in S BY <1>5, <1>12
<1>15. FindBin(lib, units) \in S /\ \A e \in S : FindBin(lib, units) <= e BY FindBinLeast
<1>16. FindBin(lib, units) = b
  <2>1. FindBin(lib, units) <= b /\ b <= FindBin(lib, units) /\ FindBin(lib, units) \in Int
    BY <1>13, <1>14, <1>15
  <2> QED BY <2>1, <1>6
<1> QED BY <1>1, <1>5, <1>16
-----------------------------------------------------------------------------
\* Header and footer at c and c + n + 1 were given the size n.
Sized(h, g, c, n) ==
  /\ Typed(g) /\ g.end = h.end /\ g.lib = h.lib /\ g.bins = h.bins
  /\ \A a \in Addr \ {c, c + n + 1} : g.mem[a] = h.mem[a]
  /\ \A a \in {c, c + n + 1} : /\ g.mem[a].units = n /\ g.mem[a].link = h.mem[a].link
                               /\ g.mem[a].status = h.mem[a].status

\* chunk_set_units writes the size into header and footer and nothing else.
LEMMA SetUnitsEffect ==
  ASSUME NEW h, Typed(h), NEW c \in Addr, NEW n \in Int, c + n + 1 \in Addr,
         NEW g, g = SetUnits(h, c, n)
  PROVE  Sized(h, g, c, n)
PROOF
<1>1. PICK f \in Addr : f = c + n + 1 OBVIOUS
<1>2. PICK m : m = [h.mem EXCEPT ![c].units = n] OBVIOUS
<1>3. /\ m \in [Addr -> Cells]
      /\ m[c].units = n /\ m[c].link = h.mem[c].link /\ m[c].status = h.mem[c].status
      /\ \A a \in Addr : a # c => m[a] = h.mem[a]
  BY <1>2 DEF Typed, Cells
<1>4. PICK k : k = [m EXCEPT ![f].units = n] OBVIOUS
<1>5. /\ k \in [Addr -> Cells]
      /\ k[f].units = n /\ k[f].link = m[f].link /\ k[f].status = m[f].status
      /\ \A a \in Addr : a # f => k[a] = m[a]
  BY <1>3, <1>4 DEF Cells
<1>6. g = [h EXCEPT !.mem = k]
  <2>1. g = [[h EXCEPT !.mem = [h.mem EXCEPT ![c].units = n]] EXCEPT !.mem[f].units = n]
    BY <1>1 DEF SetUnits
  <2>2. PICK h1 : h1 = [h EXCEPT !.mem = m] OBVIOUS
  <2>3. h1.mem = m BY <2>2 DEF Typed
  <2>4. g = [h1 EXCEPT !.mem[f].units = n] BY <2>1, <2>2, <1>2
  <2>5. g = [h1 EXCEPT !.mem = k] BY <2>3, <2>4, <1>4
  <2> QED BY <2>2, <2>5 DEF Typed
<1>7. g.mem = k /\ g.end = h.end /\ g.lib = h.lib /\ g.bins = h.bins
      /\ g \in [mem : [Addr -> Cells], end : 0 .. MaxHeap, lib : {1, 2}, bins : {h.bins}]
  BY <1>5, <1>6 DEF Typed
<1>8. Typed(g) BY <1>7 DEF Typed
<1>9. \A a \in Addr \ {c, f} : g.mem[a] = h.mem[a] BY <1>3, <1>5, <1>7
<1>10. ASSUME NEW a \in {c, f}
       PROVE  g.mem[a].units = n /\ g.mem[a].link = h.mem[a].link /\ g.mem[a].status = h.mem[a].status
  BY <1>3, <1>5, <1>7
<1> QED BY <1>1, <1>7, <1>8, <1>9, <1>10 DEF Sized

\* Some of the chunks are as well placed as all of them.
LEMMA PlacedSome ==
  ASSUME NEW h, NEW H, Placed(h, H), NEW K \in SUBSET H
  PROVE  Placed(h, K)
BY DEF Placed

\* Chunks whose headers and footers stay what they are stay where they are.
LEMMA PlacedSame ==
  ASSUME NEW h, Typed(h), NEW g, NEW H, Placed(h, H), g.end >= h.end, g.end \in Int,
         \A c \in H : g.mem[c].units = h.mem[c].units /\ g.mem[Footer(h, c)].units = h.mem[Footer(h, c)].units
  PROVE  Placed(g, H) /\ \A c \in H : Footer(g, c) = Footer(h, c)
PROOF
<1>1. \A c \in H : Footer(g, c) = Footer(h, c) BY DEF Footer
<1>2. \A c \in H : Footer(h, c) < h.end /\ Footer(h, c) \in Int BY Apart DEF Placed
<1>3. h.end \in Int BY DEF Typed
<1>4. \A c \in H : Footer(g, c) < g.end BY <1>1, <1>2, <1>3
<1> QED BY <1>1, <1>4 DEF Placed

\* A new chunk where no other is.
LEMMA SizedPlaced ==
  ASSUME NEW h, Typed(h), NEW K, Placed(h, K), NEW c \in Addr,
         NEW n \in Nat \ {0}, c + n + 1 < h.end,
         \A d \in K : d # c /\ (d < c => Footer(h, d) < c) /\ (c < d => c + n + 1 < d),
         NEW g, Sized(h, g, c, n)
  PROVE  /\ Placed(g, K \cup {c}) /\ Footer(g, c) = c + n + 1
         /\ \A d \in K : /\ Footer(g, d) = Footer(h, d) /\ g.mem[d] = h.mem[d]
                         /\ g.mem[Footer(h, d)] = h.mem[Footer(h, d)]
PROOF
<1>0. c \in Nat /\ c \in Int /\ c + n + 1 \in Int BY DEF Addr
<1>1. K \subseteq Addr BY DEF Placed
<1>2. ASSUME NEW d \in K
      PROVE  /\ d \notin {c, c + n + 1} /\ Footer(h, d) \notin {c, c + n + 1}
             /\ d \in Addr /\ Footer(h, d) \in Addr
  <2>1. d \in Addr /\ d \in Int /\ Footer(h, d) \in Addr /\ Footer(h, d) \in Int /\ d < Footer(h, d)
    <3>1. d \in Addr /\ Footer(h, d) \in Addr /\ Footer(h, d) \in Int /\ d < Footer(h, d) BY Apart
    <3> QED BY <3>1 DEF Addr
  <2>2. d < c \/ c < d BY <2>1, <1>0
  <2>3. CASE d < c BY <2>1, <2>3, <1>0
  <2>4. CASE c < d BY <2>1, <2>4, <1>0
  <2> QED BY <2>1, <2>2, <2>3, <2>4
<1>3. \A d \in K : g.mem[d] = h.mem[d] /\ g.mem[Footer(h, d)] = h.mem[Footer(h, d)]
  BY <1>2 DEF Sized
<1>4. Footer(g, c) = c + n + 1 /\ g.mem[c].units = n /\ g.mem[c + n + 1].units = n
  BY DEF Sized, Footer
<1>5. Placed(g, K) /\ \A d \in K : Footer(g, d) = Footer(h, d)
  <2>1. g.end = h.end /\ h.end \in Int BY DEF Sized, Typed
  <2>2. g.end >= h.end /\ g.end \in Int BY <2>1
  <2>3. \A d \in K : g.mem[d].units = h.mem[d].units /\ g.mem[Footer(h, d)].units = h.mem[Footer(h, d)].units
    BY <1>3
  <2> QED BY <2>2, <2>3, PlacedSame
<1>6. g.end = h.end BY DEF Sized
<1>7. ASSUME NEW d \in K \cup {c}, NEW e \in K \cup {c}, d < e PROVE Footer(g, d) < e
  <2>1. CASE d = c
    <3>1. e \in K BY <2>1, <1>0, <1>7
    <3> QED BY <2>1, <3>1, <1>4, <1>7
  <2>2. CASE d \in K /\ e = c BY <2>2, <1>5, <1>7
  <2>3. CASE d \in K /\ e \in K BY <2>3, <1>5, <1>7 DEF Placed
  <2> QED BY <2>1, <2>2, <2>3
<1>8. ASSUME NEW d \in K \cup {c}
      PROVE  /\ g.mem[d].units \in Nat \ {0} /\ Footer(g, d) < g.end
             /\ g.mem[Footer(g, d)].units = g.mem[d].units
  <2>1. CASE d = c BY <2>1, <1>4, <1>6
  <2>2. CASE d \in K BY <2>2, <1>5 DEF Placed
  <2> QED BY <2>1, <2>2
<1> QED BY <1>1, <1>3, <1>4, <1>5, <1>7, <1>8 DEF Placed

\* The lists stay in order when chunks that are not free come or go.
LEMMA ListsMoved ==
  ASSUME NEW h, Typed(h), NEW H, Placed(h, H), NEW F, Lists(h, H, F), NEW H2, F \subseteq H2,
         NEW g, g.bins = h.bins,
         \A d \in F : /\ BinsOf(g, H2)[d] = BinsOf(h, H)[d] /\ Nexts(g, H2)[d] = Nexts(h, H)[d]
                      /\ Prevs(g, H2)[d] = Prevs(h, H)[d]
  PROVE  Lists(g, H2, F)
PROOF
<1>1. F \in SUBSET Nat BY LinkTypes DEF Lists
<1> QED BY <1>1, LinkedSame DEF Lists

\* In particular when the headers and footers are untouched.
LEMMA ListsUntouched ==
  ASSUME NEW h, Typed(h), NEW H, Placed(h, H), NEW F, Lists(h, H, F), NEW H2, F \subseteq H2,
         NEW g, g.bins = h.bins, g.lib = h.lib,
         \A d \in F : /\ Footer(g, d) = Footer(h, d) /\ g.mem[d].units = h.mem[d].units
                      /\ g.mem[d].link = h.mem[d].link
                      /\ g.mem[Footer(h, d)].link = h.mem[Footer(h, d)].link
  PROVE  Lists(g, H2, F)
PROOF
<1>1. F \subseteq H BY DEF Lists
<1>2. ASSUME NEW d \in F
      PROVE  /\ BinsOf(g, H2)[d] = BinsOf(h, H)[d] /\ Nexts(g, H2)[d] = Nexts(h, H)[d]
             /\ Prevs(g, H2)[d] = Prevs(h, H)[d]
  <2>1. d \in H /\ d \in H2 BY <1>1
  <2>2. Footer(g, d) = Footer(h, d) /\ g.mem[d].units = h.mem[d].units
      /\ g.mem[d].link = h.mem[d].link /\ g.mem[Footer(h, d)].link = h.mem[Footer(h, d)].link
    OBVIOUS
  <2> QED BY <2>1, <2>2 DEF BinsOf, Nexts, Prevs
<1> QED BY <1>2, ListsMoved

\* Relinked chunks cover the heap as before.
LEMMA RelinkedTiles ==
  ASSUME NEW h, Typed(h), NEW H, Tiles(h, H), NEW g, Relinked(h, g, H)
  PROVE  Tiles(g, H)
PROOF
<1>1. Placed(h, H) BY DEF Tiles
<1>2. Placed(g, H) /\ \A c \in H : Footer(g, c) = Footer(h, c) BY <1>1, RelinkedSame
<1>3. g.end = h.end BY DEF Relinked
<1> QED BY <1>2, <1>3 DEF Tiles

\* A chunk cut in two: the chunks cover the heap as before.
LEMMA TilesSplit ==
  ASSUME NEW h, Typed(h), NEW H, Tiles(h, H), NEW c \in H, NEW g,
         NEW c2, Placed(g, H \cup {c2}), c2 \in Int,
         g.end = h.end, Footer(g, c) + 1 = c2, Footer(g, c2) = Footer(h, c), c < c2,
         \A d \in H \ {c} : Footer(g, d) = Footer(h, d)
  PROVE  Tiles(g, H \cup {c2})
PROOF
<1>1. 0 \in (H \cup {c2}) \cup {g.end} BY DEF Tiles
<1>2. ASSUME NEW d \in H \cup {c2} PROVE Footer(g, d) + 1 \in (H \cup {c2}) \cup {g.end}
  <2>1. CASE d = c BY <2>1
  <2>2. CASE d = c2 BY <2>2 DEF Tiles
  <2>3. CASE d \in H \ {c} BY <2>3 DEF Tiles
  <2> QED BY <2>1, <2>2, <2>3
<1>3. ASSUME NEW d \in (H \cup {c2}) \ {0} PROVE \E p \in H \cup {c2} : Footer(g, p) + 1 = d
  <2>1. CASE d = c2 BY <2>1
  <2>2. CASE d \in H
    <3>1. PICK p \in H : Footer(h, p) + 1 = d BY <2>2, <1>3 DEF Tiles
    <3>2. CASE p = c BY <3>1, <3>2
    <3>3. CASE p # c BY <3>1, <3>3
    <3> QED BY <3>2, <3>3
  <2> QED BY <2>1, <2>2
<1> QED BY <1>1, <1>2, <1>3 DEF Tiles

\* Two neighbours made one: the chunks cover the heap as before.
LEMMA TilesMerge ==
  ASSUME NEW h, Typed(h), NEW H, Tiles(h, H), NEW c1 \in H, NEW c2 \in H, Footer(h, c1) + 1 = c2,
         NEW g, Placed(g, H \ {c2}), g.end = h.end, Footer(g, c1) = Footer(h, c2),
         \A d \in H \ {c1, c2} : Footer(g, d) = Footer(h, d)
  PROVE  Tiles(g, H \ {c2})
PROOF
<1>0. Placed(h, H) BY DEF Tiles
<1>1. c1 \in Nat /\ c2 \in Nat /\ c1 < c2 /\ c1 # c2
  <2>1. c1 \in Addr /\ c2 \in Addr /\ c1 < Footer(h, c1) /\ Footer(h, c1) \in Int BY <1>0, Apart
  <2> QED BY <2>1 DEF Addr
<1>2. 0 \in (H \ {c2}) \cup {g.end} BY <1>1 DEF Tiles
<1>3. ASSUME NEW d \in H \ {c2} PROVE Footer(g, d) + 1 \in (H \ {c2}) \cup {g.end}
  <2>1. CASE d = c1
    <3>1. Footer(h, c2) + 1 \in H \cup {h.end} BY DEF Tiles
    <3>2. c2 < Footer(h, c2) /\ Footer(h, c2) \in Int BY <1>0, Apart
    <3> QED BY <2>1, <3>1, <3>2, <1>1
  <2>2. CASE d # c1
    <3>1. Footer(g, d) = Footer(h, d) /\ Footer(h, d) + 1 \in H \cup {h.end} BY <2>2 DEF Tiles
    <3>2. Footer(h, d) \in Int /\ Footer(h, c1) \in Int /\ Footer(h, d) # Footer(h, c1)
      BY <2>2, <1>0, Apart
    <3>3. Footer(h, d) + 1 # c2 BY <3>2
    <3> QED BY <3>1, <3>3
  <2> QED BY <2>1, <2>2
<1>4. ASSUME NEW d \in (H \ {c2}) \ {0} PROVE \E p \in H \ {c2} : Footer(g, p) + 1 = d
  <2>1. PICK p \in H : Footer(h, p) + 1 = d BY <1>4 DEF Tiles
  <2>2. CASE p = c2 BY <2>1, <2>2, <1>1
  <2>3. CASE p # c2
    <3>1. p # c1 BY <2>1, <1>4
    <3> QED BY <2>1, <2>3, <3>1
  <2> QED BY <2>2, <2>3
<1> QED BY <1>2, <1>3, <1>4 DEF Tiles

\* The neighbours of a chunk.
LEMMA Neighbours ==
  ASSUME NEW h, Typed(h), NEW H, Tiles(h, H), NEW c \in H
  PROVE  /\ \/ NextAdjacent(h, c) = NULL /\ Footer(h, c) + 1 = h.end
            \/ NextAdjacent(h, c) \in H /\ NextAdjacent(h, c) = Footer(h, c) + 1
         /\ \/ PrevAdjacent(h, c) = NULL /\ c = 0
            \/ PrevAdjacent(h, c) \in H /\ Footer(h, PrevAdjacent(h, c)) + 1 = c
PROOF
<1>0. Placed(h, H) BY DEF Tiles
<1>1. c \in Nat /\ h.mem[c].units \in Nat \ {0} /\ Footer(h, c) = c + h.mem[c].units + 1 /\ h.end \in Int
  BY <1>0 DEF Placed, Footer, Addr, Typed
<1>2. Footer(h, c) < h.end BY <1>0 DEF Placed
<1>3. NextAdjacent(h, c) = IF Footer(h, c) + 1 >= h.end THEN NULL ELSE Footer(h, c) + 1
  <2>1. c + h.mem[c].units + 2 = Footer(h, c) + 1 BY <1>1
  <2> QED BY <2>1 DEF NextAdjacent
<1>4. Footer(h, c) + 1 \in H \cup {h.end} BY DEF Tiles
<1>5. \/ NextAdjacent(h, c) = NULL /\ Footer(h, c) + 1 = h.end
      \/ NextAdjacent(h, c) \in H /\ NextAdjacent(h, c) = Footer(h, c) + 1
  BY <1>1, <1>2, <1>3, <1>4
<1>6. CASE c = 0 BY <1>5, <1>6 DEF PrevAdjacent
<1>7. CASE c # 0
  <2>1. PICK p \in H : Footer(h, p) + 1 = c BY <1>7 DEF Tiles
  <2>2. p \in Nat /\ h.mem[p].units \in Nat \ {0} /\ Footer(h, p) = p + h.mem[p].units + 1
        /\ h.mem[Footer(h, p)].units = h.mem[p].units
    BY <1>0 DEF Placed, Footer, Addr
  <2>3. c - 1 = Footer(h, p) BY <2>1, <2>2, <1>1
  <2>4. PrevAdjacent(h, c) = Footer(h, p) - h.mem[p].units - 1
    BY <1>7, <2>2, <2>3 DEF PrevAdjacent
  <2>5. PrevAdjacent(h, c) = p BY <2>2, <2>4
  <2> QED BY <2>1, <2>5, <1>5
<1> QED BY <1>6, <1>7
-----------------------------------------------------------------------------
\* The chunks of F are marked as free, the others as in use.
Marked(h, H, F) == \A c \in H : h.mem[c].status = IF c \in F THEN FREE ELSE IN_USE

\* The heap is covered by chunks, of which those of F are free and listed.
Whole(h, H, F) == Typed(h) /\ Tiles(h, H) /\ Lists(h, H, F) /\ Marked(h, H, F)

\* The chunks of K keep their places, sizes and contents.
Spares(h, g, K) ==
  \A d \in K : /\ Footer(g, d) = Footer(h, d) /\ g.mem[d].units = h.mem[d].units
               /\ \A a \in Addr : d < a /\ a < Footer(h, d) => g.mem[a] = h.mem[a]

\* What lies between a header and its footer is no header and no footer.
LEMMA Inside ==
  ASSUME NEW h, Typed(h), NEW H, Placed(h, H), NEW d \in H,
         NEW a \in Addr, d < a, a < Footer(h, d)
  PROVE  a \notin Bones(h, H)
PROOF
<1> SUFFICES ASSUME NEW e \in H, a = e \/ a = Footer(h, e) PROVE FALSE BY DEF Bones
<1>1. a \in Int /\ d \in Int /\ e \in Int BY DEF Placed, Addr
<1>2. Footer(h, d) \in Int /\ Footer(h, e) \in Int /\ e < Footer(h, e) BY Apart
<1>3. d < e => Footer(h, d) < e BY DEF Placed
<1>4. e < d => Footer(h, e) < d BY DEF Placed
<1> QED BY <1>1, <1>2, <1>3, <1>4

\* Relinking touches nothing between header and footer.
LEMMA RelinkedSpares ==
  ASSUME NEW h, Typed(h), NEW H, Placed(h, H), NEW g, Relinked(h, g, H)
  PROVE  Spares(h, g, H)
PROOF
<1>1. \A d \in H : Footer(g, d) = Footer(h, d) /\ d \in Addr BY RelinkedSame, Apart
<1>2. ASSUME NEW d \in H, NEW a \in Addr, d < a, a < Footer(h, d)
      PROVE  g.mem[a] = h.mem[a]
  <2>1. a \notin Bones(h, H) BY <1>2, Inside
  <2> QED BY <2>1 DEF Relinked
<1> QED BY <1>1, <1>2 DEF Spares, Relinked

\* What two changes spare, both together spare.
LEMMA SparesThrough ==
  ASSUME NEW h, NEW g, NEW k, NEW K, Spares(h, g, K), Spares(g, k, K)
  PROVE  Spares(h, k, K)
BY DEF Spares

\* Whoever spares chunks spares each of them.
LEMMA SparesFewer ==
  ASSUME NEW h, NEW g, NEW K, NEW J \in SUBSET K, Spares(h, g, K)
  PROVE  Spares(h, g, J)
BY DEF Spares

\* One chunk changes its status: the marks are those of the new set of free chunks.
LEMMA ReMarked ==
  ASSUME NEW h, NEW g, NEW H, NEW F, Marked(h, H, F), NEW c \in H, NEW s, NEW E,
         Marks(g, H) = [Marks(h, H) EXCEPT ![c] = s],
         s = IF c \in E THEN FREE ELSE IN_USE, \A d \in H \ {c} : d \in E <=> d \in F
  PROVE  Marked(g, H, E)
PROOF
<1>1. ASSUME NEW d \in H PROVE g.mem[d].status = IF d = c THEN s ELSE h.mem[d].status
  <2>1. Marks(g, H)[d] = IF d = c THEN s ELSE Marks(h, H)[d] BY DEF Marks
  <2> QED BY <2>1 DEF Marks
<1> QED BY <1>1 DEF Marked

\* remove_chunk_at keeps the heap whole, with one free chunk fewer.
LEMMA RemoveWhole ==
  ASSUME NEW h, NEW H, NEW F, Whole(h, H, F), NEW c \in F, NEW g, g = RemoveChunk(h, c)
  PROVE  Whole(g, H, F \ {c}) /\ Spares(h, g, H) /\ g.end = h.end /\ g.lib = h.lib
PROOF
<1>1. Typed(h) /\ Tiles(h, H) /\ Placed(h, H) /\ Lists(h, H, F) /\ Marked(h, H, F) /\ F \subseteq H
  BY DEF Whole, Tiles, Lists
<1>2. /\ Relinked(h, g, H) /\ Marks(g, H) = [Marks(h, H) EXCEPT ![c] = IN_USE]
      /\ Lists(g, H, F \ {c})
  BY <1>1, RemoveKeeps
<1>3. Tiles(g, H) /\ Spares(h, g, H) BY <1>1, <1>2, RelinkedTiles, RelinkedSpares
<1>4. Marked(g, H, F \ {c})
  <2>1. c \in H /\ IN_USE = IF c \in F \ {c} THEN FREE ELSE IN_USE BY <1>1
  <2>2. \A d \in H \ {c} : d \in F \ {c} <=> d \in F OBVIOUS
  <2> QED BY <1>1, <1>2, <2>1, <2>2, ReMarked
<1> QED BY <1>2, <1>3, <1>4 DEF Whole, Relinked

\* Marking and inserting a chunk keeps the heap whole, with one free chunk more.
LEMMA ReleaseWhole ==
  ASSUME NEW h, NEW H, NEW F, Whole(h, H, F), NEW c \in H \ F,
         NEW g, g = InsertChunk(SetStatus(h, c, FREE), c)
  PROVE  Whole(g, H, F \cup {c}) /\ Spares(h, g, H) /\ g.end = h.end /\ g.lib = h.lib
PROOF
<1>1. Typed(h) /\ Tiles(h, H) /\ Placed(h, H) /\ Lists(h, H, F) /\ Marked(h, H, F) /\ F \subseteq H
  BY DEF Whole, Tiles, Lists
<1>2. PICK k : k = SetStatus(h, c, FREE) OBVIOUS
<1>3. /\ Relinked(h, k, H) /\ k.bins = h.bins /\ Marks(k, H) = [Marks(h, H) EXCEPT ![c] = FREE]
      /\ Prevs(k, H) = Prevs(h, H) /\ Nexts(k, H) = Nexts(h, H)
  BY <1>1, <1>2, SetStatusEffect, CellTypes
<1>4. Typed(k) /\ Tiles(k, H) /\ Placed(k, H) /\ BinsOf(k, H) = BinsOf(h, H)
  BY <1>1, <1>3, RelinkedTiles, RelinkedSame DEF Relinked
<1>5. Lists(k, H, F) BY <1>1, <1>3, <1>4 DEF Lists
<1>6. g = InsertChunk(k, c) BY <1>2
<1>7. Relinked(k, g, H) /\ Marks(g, H) = Marks(k, H) /\ Lists(g, H, F \cup {c})
  BY <1>4, <1>5, <1>6, InsertKeeps
<1>8. Relinked(h, g, H) BY <1>1, <1>3, <1>7, RelinkedThrough
<1>9. Tiles(g, H) /\ Spares(h, g, H) BY <1>1, <1>8, RelinkedTiles, RelinkedSpares
<1>10. Marked(g, H, F \cup {c})
  <2>1. c \in H /\ FREE = IF c \in F \cup {c} THEN FREE ELSE IN_USE OBVIOUS
  <2>2. \A d \in H \ {c} : d \in F \cup {c} <=> d \in F OBVIOUS
  <2>3. Marks(g, H) = [Marks(h, H) EXCEPT ![c] = FREE] BY <1>3, <1>7
  <2> QED BY <1>1, <2>1, <2>2, <2>3, ReMarked
<1> QED BY <1>7, <1>8, <1>9, <1>10 DEF Whole, Relinked

\* Forgetting touches nothing else.
LEMMA ForgetEffect ==
  ASSUME NEW h, Typed(h), NEW W, NEW g, g = Forget(h, W)
  PROVE  /\ Typed(g) /\ g.end = h.end /\ g.lib = h.lib /\ g.bins = h.bins
         /\ \A a \in Addr \ W : g.mem[a] = h.mem[a]
PROOF
<1>1. PICK m : m = [a \in Addr |-> IF a \in W THEN Fresh ELSE h.mem[a]] OBVIOUS
<1>2. m \in [Addr -> Cells] BY <1>1, CellTypes DEF Typed
<1>3. g = [h EXCEPT !.mem = m] BY <1>1 DEF Forget, Typed
<1>4. g.mem = m /\ g.end = h.end /\ g.lib = h.lib /\ g.bins = h.bins
      /\ g \in [mem : [Addr -> Cells], end : 0 .. MaxHeap, lib : {1, 2}, bins : {h.bins}]
  BY <1>2, <1>3 DEF Typed
<1> QED BY <1>1, <1>2, <1>4 DEF Typed

\* merge_chunk keeps the heap whole, with one chunk fewer.
LEMMA MergeWhole ==
  ASSUME NEW h, NEW H, NEW F, Whole(h, H, F), NEW c1 \in H \ F, NEW c2 \in H \ F,
         Footer(h, c1) + 1 = c2, NEW g, g = MergeChunk(h, c1, c2)
  PROVE  /\ Whole(g, H \ {c2}, F) /\ Spares(h, g, H \ {c1, c2})
         /\ g.end = h.end /\ g.lib = h.lib /\ Footer(g, c1) = Footer(h, c2)
PROOF
<1>1. Typed(h) /\ Tiles(h, H) /\ Placed(h, H) /\ Lists(h, H, F) /\ Marked(h, H, F) /\ F \subseteq H
  BY DEF Whole, Tiles, Lists
<1>2. PICK n : n = h.mem[c1].units + h.mem[c2].units + 2 OBVIOUS
<1>3. /\ h.mem[c1].units \in Nat \ {0} /\ h.mem[c2].units \in Nat \ {0} /\ n \in Nat \ {0}
      /\ c1 \in Addr /\ c2 \in Addr /\ c1 \in Nat /\ c2 \in Nat
      /\ Footer(h, c1) = c1 + h.mem[c1].units + 1 /\ Footer(h, c2) = c2 + h.mem[c2].units + 1
  BY <1>1, <1>2 DEF Placed, Addr, Footer
<1>4. c1 + n + 1 = Footer(h, c2) /\ c1 < c2 /\ Footer(h, c2) \in Addr /\ c2 - 1 = Footer(h, c1)
  <2>1. Footer(h, c2) \in Addr BY <1>1, Apart
  <2> QED BY <2>1, <1>2, <1>3
<1> DEFINE K == H \ {c1, c2}
<1>5. PICK h1 : h1 = Forget(h, {c2 - 1, c2}) OBVIOUS
<1>6. PICK h2 : h2 = SetUnits(h1, c1, n) OBVIOUS
<1>7. g = SetPrev(h2, c1, NULL) BY <1>2, <1>5, <1>6 DEF MergeChunk, MergedUnits
<1>8. /\ Typed(h1) /\ h1.end = h.end /\ h1.lib = h.lib /\ h1.bins = h.bins
      /\ \A a \in Addr \ {c2 - 1, c2} : h1.mem[a] = h.mem[a]
  BY <1>1, <1>5, ForgetEffect
<1>9. ASSUME NEW d \in K
      PROVE  /\ d \in Addr /\ d \in Int /\ Footer(h, d) \in Addr
             /\ d \notin {c2 - 1, c2} /\ Footer(h, d) \notin {c2 - 1, c2}
             /\ d # c1 /\ (d < c1 => Footer(h, d) < c1) /\ (c1 < d => Footer(h, c2) < d)
  <2>1. d \in Addr /\ Footer(h, d) \in Addr /\ d # c1 /\ d # c2 BY <1>1, Apart
  <2>2. d # Footer(h, c1) /\ Footer(h, d) # Footer(h, c1) /\ Footer(h, d) # c2 BY <1>1, <2>1, Apart
  <2>3. d < c1 => Footer(h, d) < c1 BY <1>1 DEF Placed
  <2>4. ASSUME c1 < d PROVE Footer(h, c2) < d
    <3>1. Footer(h, c1) < d BY <1>1, <2>4 DEF Placed
    <3>2. c2 < d BY <3>1, <2>1, <1>3, <1>4 DEF Addr
    <3> QED BY <1>1, <3>2 DEF Placed
  <2>5. d \in Int BY <2>1 DEF Addr
  <2> QED BY <2>1, <2>2, <2>3, <2>4, <2>5, <1>4
<1>10. Placed(h1, K) /\ \A d \in K : /\ Footer(h1, d) = Footer(h, d) /\ h1.mem[d] = h.mem[d]
                                     /\ h1.mem[Footer(h, d)] = h.mem[Footer(h, d)]
  <2>1. Placed(h, K) BY <1>1, PlacedSome
  <2>2. \A d \in K : h1.mem[d] = h.mem[d] /\ h1.mem[Footer(h, d)] = h.mem[Footer(h, d)]
    BY <1>8, <1>9
  <2>3. h1.end >= h.end /\ h1.end \in Int BY <1>1, <1>8 DEF Typed
  <2>4. Placed(h1, K) /\ \A d \in K : Footer(h1, d) = Footer(h, d)
    <3> HIDE DEF K
    <3> QED BY <1>1, <2>1, <2>2, <2>3, PlacedSame
  <2> QED BY <2>2, <2>4
<1>11. Sized(h1, h2, c1, n) BY <1>3, <1>4, <1>6, <1>8, SetUnitsEffect
<1>12. c1 + n + 1 < h1.end BY <1>1, <1>4, <1>8 DEF Placed
<1>13. \A d \in K : d # c1 /\ (d < c1 => Footer(h1, d) < c1) /\ (c1 < d => c1 + n + 1 < d)
  BY <1>4, <1>9, <1>10
<1>14. /\ Placed(h2, K \cup {c1}) /\ Footer(h2, c1) = c1 + n + 1
       /\ \A d \in K : /\ Footer(h2, d) = Footer(h1, d) /\ h2.mem[d] = h1.mem[d]
                       /\ h2.mem[Footer(h1, d)] = h1.mem[Footer(h1, d)]
  <2>1. Typed(h1) /\ Placed(h1, K) /\ c1 \in Addr /\ n \in Nat \ {0} BY <1>3, <1>8, <1>10
  <2> HIDE DEF K
  <2> QED BY <2>1, <1>11, <1>12, <1>13, SizedPlaced
<1>15. K \cup {c1} = H \ {c2} BY <1>3, <1>4
<1>16. Typed(h2) /\ h2.end = h.end /\ h2.lib = h.lib /\ h2.bins = h.bins BY <1>8, <1>11 DEF Sized
<1>17. \A d \in K : /\ Footer(h2, d) = Footer(h, d) /\ h2.mem[d] = h.mem[d]
                    /\ h2.mem[Footer(h, d)] = h.mem[Footer(h, d)]
  BY <1>10, <1>14
<1>18. Tiles(h2, H \ {c2})
  <2>1. Footer(h2, c1) = Footer(h, c2) BY <1>4, <1>14
  <2>2. \A d \in H \ {c1, c2} : Footer(h2, d) = Footer(h, d) BY <1>17
  <2>3. Placed(h2, H \ {c2}) BY <1>14, <1>15
  <2> QED BY <1>1, <1>16, <2>1, <2>2, <2>3, TilesMerge
<1>19. F \subseteq K BY <1>1
<1>20. Lists(h2, H \ {c2}, F)
  <2>1. F \subseteq H \ {c2} BY <1>19
  <2>2. \A d \in F : /\ Footer(h2, d) = Footer(h, d) /\ h2.mem[d].units = h.mem[d].units
                     /\ h2.mem[d].link = h.mem[d].link
                     /\ h2.mem[Footer(h, d)].link = h.mem[Footer(h, d)].link
    BY <1>17, <1>19
  <2> QED BY <1>1, <1>16, <2>1, <2>2, ListsUntouched
<1>21. h2.mem[c1].status = h.mem[c1].status
  <2>1. h2.mem[c1].status = h1.mem[c1].status BY <1>11 DEF Sized
  <2>2. c1 \notin {c2 - 1, c2} BY <1>3, <1>4
  <2> QED BY <2>1, <2>2, <1>3, <1>8
<1>22. Marked(h2, H \ {c2}, F)
  <2>1. \A d \in H \ {c2} : h2.mem[d].status = h.mem[d].status BY <1>15, <1>17, <1>21
  <2> QED BY <2>1, <1>1 DEF Marked
<1>23. Spares(h, h2, K)
  <2>1. ASSUME NEW d \in K, NEW a \in Addr, d < a, a < Footer(h, d)
        PROVE  h2.mem[a] = h.mem[a]
    <3>1. a \notin Bones(h, H) BY <1>1, <2>1, Inside
    <3>2. a \notin {c1, c2, c2 - 1, Footer(h, c2)} BY <3>1, <1>4 DEF Bones
    <3>3. h1.mem[a] = h.mem[a] BY <3>2, <1>8
    <3>4. h2.mem[a] = h1.mem[a] BY <3>2, <1>4, <1>11 DEF Sized
    <3> QED BY <3>3, <3>4
  <2> HIDE DEF K
  <2> QED BY <2>1, <1>17 DEF Spares
<1>24. /\ Relinked(h2, g, H \ {c2}) /\ g.bins = h2.bins /\ Marks(g, H \ {c2}) = Marks(h2, H \ {c2})
       /\ Prevs(g, H \ {c2}) = [Prevs(h2, H \ {c2}) EXCEPT ![c1] = NULL]
       /\ Nexts(g, H \ {c2}) = Nexts(h2, H \ {c2})
  <2>1. c1 \in H \ {c2} /\ NULL \in Int /\ Placed(h2, H \ {c2}) BY <1>3, <1>4, <1>18 DEF NULL, Tiles
  <2> QED BY <2>1, <1>7, <1>16, SetPrevEffect
<1>25. Placed(h2, H \ {c2}) BY <1>18 DEF Tiles
<1>26. Typed(g) /\ Tiles(g, H \ {c2}) /\ BinsOf(g, H \ {c2}) = BinsOf(h2, H \ {c2})
  <2>1. PICK G : G = H \ {c2} OBVIOUS
  <2>2. Typed(h2) /\ Tiles(h2, G) /\ Placed(h2, G) /\ Relinked(h2, g, G)
    BY <2>1, <1>16, <1>18, <1>24, <1>25
  <2>3. Tiles(g, G) BY <2>2, RelinkedTiles
  <2>4. BinsOf(g, G) = BinsOf(h2, G) BY <2>2, RelinkedSame
  <2>5. Typed(g) BY <2>2 DEF Relinked
  <2> QED BY <2>1, <2>3, <2>4, <2>5
<1>27. Lists(g, H \ {c2}, F)
  <2>1. \A d \in F : /\ BinsOf(g, H \ {c2})[d] = BinsOf(h2, H \ {c2})[d]
                     /\ Nexts(g, H \ {c2})[d] = Nexts(h2, H \ {c2})[d]
                     /\ Prevs(g, H \ {c2})[d] = Prevs(h2, H \ {c2})[d]
    <3>1. \A d \in F : d # c1 BY <1>19
    <3>2. PICK pv : pv = Prevs(h2, H \ {c2}) OBVIOUS
    <3>3. \A d \in F : [pv EXCEPT ![c1] = NULL][d] = pv[d]
      <4>1. DOMAIN pv = H \ {c2} BY <3>2 DEF Prevs
      <4> QED BY <3>1, <4>1, <1>19
    <3>4. Prevs(g, H \ {c2}) = [pv EXCEPT ![c1] = NULL] BY <3>2, <1>24
    <3> QED BY <3>2, <3>3, <3>4, <1>24, <1>26
  <2>2. F \subseteq H \ {c2} BY <1>19
  <2> QED BY <2>1, <2>2, <1>16, <1>20, <1>24, <1>25, ListsMoved
<1>28. Marked(g, H \ {c2}, F)
  <2>1. \A d \in H \ {c2} : g.mem[d].status = h2.mem[d].status BY <1>24 DEF Marks
  <2> QED BY <2>1, <1>22 DEF Marked
<1>29. Spares(h, g, K)
  <2>1. Spares(h2, g, H \ {c2}) BY <1>16, <1>24, <1>25, RelinkedSpares
  <2>2. K \subseteq H \ {c2} OBVIOUS
  <2>3. Spares(h2, g, K)
    <3> HIDE DEF K
    <3> QED BY <2>1, <2>2, SparesFewer
  <2> QED BY <2>3, <1>23, SparesThrough
<1>30. g.end = h.end /\ g.lib = h.lib BY <1>16, <1>24 DEF Relinked
<1>31. Footer(g, c1) = Footer(h, c2)
  <2>1. Footer(g, c1) = Footer(h2, c1) BY <1>15, <1>16, <1>24, <1>25, RelinkedSame
  <2> QED BY <2>1, <1>4, <1>14
<1> QED BY <1>26, <1>27, <1>28, <1>29, <1>30, <1>31 DEF Whole
-----------------------------------------------------------------------------
\* Of two heaps with chunks H, those of K are the same to the last link.
Kept(h, g, K) ==
  \A d \in K : /\ Footer(g, d) = Footer(h, d) /\ g.mem[d] = h.mem[d]
               /\ g.mem[Footer(h, d)] = h.mem[Footer(h, d)]

\* Giving a chunk a new size, or a new chunk its first, in the space that
\* ends before t and holds no other chunk.
LEMMA SizedKept ==
  ASSUME NEW h, Typed(h), NEW K, Placed(h, K), NEW c \in Addr,
         NEW n \in Nat \ {0}, c + n + 1 < h.end,
         \A d \in K : d # c /\ (d < c => Footer(h, d) < c) /\ (c < d => c + n + 1 < d),
         NEW g, g = SetUnits(h, c, n)
  PROVE  /\ Typed(g) /\ g.end = h.end /\ g.lib = h.lib /\ g.bins = h.bins
         /\ Placed(g, K \cup {c}) /\ Footer(g, c) = c + n + 1 /\ Kept(h, g, K) /\ Spares(h, g, K)
         /\ g.mem[c].units = n /\ g.mem[c].link = h.mem[c].link /\ g.mem[c].status = h.mem[c].status
PROOF
<1>0. c \in Nat /\ h.end \in Int /\ h.end <= MaxHeap /\ MaxHeap \in Nat
  BY ChunksAssumption DEF Addr, Typed
<1>1. c + n + 1 \in Addr BY <1>0 DEF Addr
<1>2. Sized(h, g, c, n) BY <1>1, SetUnitsEffect
<1>3. /\ Placed(g, K \cup {c}) /\ Footer(g, c) = c + n + 1
      /\ \A d \in K : /\ Footer(g, d) = Footer(h, d) /\ g.mem[d] = h.mem[d]
                      /\ g.mem[Footer(h, d)] = h.mem[Footer(h, d)]
  BY <1>2, SizedPlaced
<1>4. Kept(h, g, K) BY <1>3 DEF Kept
<1>5. ASSUME NEW d \in K, NEW a \in Addr, d < a, a < Footer(h, d) PROVE g.mem[a] = h.mem[a]
  <2>1. d \in Addr /\ Footer(h, d) \in Int BY Apart
  <2>2. d \in Int /\ a \in Int BY <2>1 DEF Addr
  <2>3. CASE d < c BY <2>1, <2>2, <2>3, <1>0, <1>2, <1>5 DEF Sized
  <2>4. CASE c < d BY <2>1, <2>2, <2>4, <1>0, <1>2, <1>5 DEF Sized
  <2> QED BY <2>2, <2>3, <2>4, <1>0
<1>6. Spares(h, g, K) BY <1>3, <1>5 DEF Spares
<1> QED BY <1>2, <1>3, <1>4, <1>6 DEF Sized

\* A chunk is cut short.
LEMMA Shrink ==
  ASSUME NEW h, Typed(h), NEW H, Placed(h, H), NEW c \in H, NEW n \in Nat \ {0}, n < h.mem[c].units,
         NEW g, g = SetUnits(h, c, n)
  PROVE  /\ Typed(g) /\ g.end = h.end /\ g.lib = h.lib /\ g.bins = h.bins
         /\ Placed(g, H) /\ Footer(g, c) = c + n + 1 /\ Kept(h, g, H \ {c}) /\ Spares(h, g, H \ {c})
         /\ g.mem[c].units = n /\ g.mem[c].link = h.mem[c].link /\ g.mem[c].status = h.mem[c].status
PROOF
<1>1. PICK K : K = H \ {c} OBVIOUS
<1>2. Placed(h, K) BY <1>1, PlacedSome
<1>3. c \in Addr /\ c \in Int /\ Footer(h, c) = c + h.mem[c].units + 1 /\ h.mem[c].units \in Int
      /\ Footer(h, c) < h.end /\ h.end \in Int
  BY DEF Placed, Footer, Addr, Typed
<1>4. c + n + 1 < Footer(h, c) /\ c + n + 1 < h.end BY <1>3
<1>5. \A d \in K : d # c /\ (d < c => Footer(h, d) < c) /\ (c < d => c + n + 1 < d)
  <2>1. ASSUME NEW d \in K PROVE d \in Int /\ (d < c => Footer(h, d) < c) /\ (c < d => Footer(h, c) < d)
    BY <1>1 DEF Placed, Addr
  <2> QED BY <2>1, <1>1, <1>3, <1>4
<1>6. /\ Typed(g) /\ g.end = h.end /\ g.lib = h.lib /\ g.bins = h.bins
      /\ Placed(g, K \cup {c}) /\ Footer(g, c) = c + n + 1 /\ Kept(h, g, K) /\ Spares(h, g, K)
      /\ g.mem[c].units = n /\ g.mem[c].link = h.mem[c].link /\ g.mem[c].status = h.mem[c].status
  BY <1>2, <1>3, <1>4, <1>5, SizedKept
<1>7. K \cup {c} = H BY <1>1
<1> QED BY <1>1, <1>6, <1>7

\* A chunk is made of the space after another.
LEMMA Carve ==
  ASSUME NEW h, Typed(h), NEW H, Placed(h, H), NEW c \in H, NEW c2, c2 = Footer(h, c) + 1,
         NEW n \in Nat \ {0}, c2 + n + 1 < h.end, \A d \in H : c < d => c2 + n + 1 < d,
         NEW g, g = SetUnits(h, c2, n)
  PROVE  /\ Typed(g) /\ g.end = h.end /\ g.lib = h.lib /\ g.bins = h.bins
         /\ c2 \notin H /\ c2 \in Addr /\ c < c2 /\ g.mem[c2].units = n
         /\ Placed(g, H \cup {c2}) /\ Footer(g, c2) = c2 + n + 1 /\ Kept(h, g, H) /\ Spares(h, g, H)
PROOF
<1>1. c \in Addr /\ c \in Nat /\ Footer(h, c) \in Int /\ c < Footer(h, c) /\ h.end \in Int
      /\ h.end <= MaxHeap /\ MaxHeap \in Nat
  <2>1. c \in Addr /\ Footer(h, c) \in Int /\ c < Footer(h, c) BY Apart
  <2> QED BY <2>1, ChunksAssumption DEF Addr, Typed
<1>2. c2 \in Addr /\ c2 \in Nat /\ c < c2 BY <1>1 DEF Addr
<1>3. ASSUME NEW d \in H PROVE d # c2 /\ (d < c2 => Footer(h, d) < c2) /\ (c2 < d => c2 + n + 1 < d)
  <2>1. d \in Int BY DEF Placed, Addr
  <2>2. d < c => Footer(h, d) < c BY DEF Placed
  <2>3. Footer(h, d) \in Int BY Apart
  <2>4. CASE d < c BY <2>1, <2>2, <2>3, <2>4, <1>1, <1>2
  <2>5. CASE d = c BY <2>5, <1>1, <1>2
  <2>6. CASE c < d BY <2>1, <2>6, <1>1, <1>2
  <2> QED BY <2>1, <2>4, <2>5, <2>6, <1>1
<1>4. /\ Typed(g) /\ g.end = h.end /\ g.lib = h.lib /\ g.bins = h.bins
      /\ Placed(g, H \cup {c2}) /\ Footer(g, c2) = c2 + n + 1 /\ Kept(h, g, H) /\ Spares(h, g, H)
      /\ g.mem[c2].units = n
  <2>1. \A d \in H : d # c2 /\ (d < c2 => Footer(h, d) < c2) /\ (c2 < d => c2 + n + 1 < d) BY <1>3
  <2>2. PICK e : e = c2 OBVIOUS
  <2>3. g = SetUnits(h, e, n) /\ e \in Addr /\ e + n + 1 < h.end BY <2>2, <1>2
  <2>4. \A d \in H : d # e /\ (d < e => Footer(h, d) < e) /\ (e < d => e + n + 1 < d) BY <2>1, <2>2
  <2>5. /\ Typed(g) /\ g.end = h.end /\ g.lib = h.lib /\ g.bins = h.bins
        /\ Placed(g, H \cup {e}) /\ Footer(g, e) = e + n + 1 /\ Kept(h, g, H) /\ Spares(h, g, H)
        /\ g.mem[e].units = n
    BY <2>3, <2>4, SizedKept
  <2> QED BY <2>2, <2>5
<1> QED BY <1>2, <1>3, <1>4

\* What is kept is linked as it was.
LEMMA KeptLists ==
  ASSUME NEW h, Typed(h), NEW H, Placed(h, H), NEW F, Lists(h, H, F), NEW H2, F \subseteq H2,
         NEW g, g.bins = h.bins, g.lib = h.lib, NEW K, Kept(h, g, K), F \subseteq K
  PROVE  Lists(g, H2, F)
PROOF
<1>1. \A d \in F : /\ Footer(g, d) = Footer(h, d) /\ g.mem[d].units = h.mem[d].units
                   /\ g.mem[d].link = h.mem[d].link
                   /\ g.mem[Footer(h, d)].link = h.mem[Footer(h, d)].link
  BY DEF Kept
<1> QED BY <1>1, ListsUntouched
-----------------------------------------------------------------------------
\* Chunk c of h is chunks c and c2 of g, and the others are what they were.
Divided(h, g, H, c, c2) ==
  /\ c2 \notin H /\ c2 \in Addr /\ g.end = h.end /\ g.lib = h.lib /\ Spares(h, g, H \ {c})
  /\ Footer(g, c) + 1 = c2 /\ Footer(g, c2) = Footer(h, c)

\* heapmgr1 has one bin.
LEMMA OneBin ==
  ASSUME NEW units \in Int
  PROVE  FindBin(1, units) = Large
BY FindBinLeast DEF Exp, Fixed

\* From h to k chunk c was cut to n units, so that m are left for one at c2.
CutTo(h, H, c, n, m, c2, k, F) ==
  /\ Typed(h) /\ Tiles(h, H) /\ c \in H /\ n \in Nat \ {0} /\ m \in Nat \ {0}
  /\ n + m + 2 = h.mem[c].units /\ c2 = c + n + 2
  /\ Typed(k) /\ Placed(k, H) /\ k.end = h.end /\ k.lib = h.lib /\ Footer(k, c) = c + n + 1
  /\ \A d \in H \ {c} : Footer(k, d) = Footer(h, d)
  /\ Lists(k, H, F)

\* Now c2 is a chunk, and nothing else has changed from k to g.
Carved(h, H, c, m, c2, k, F, g) ==
  /\ Typed(g) /\ g.end = h.end /\ g.lib = h.lib /\ Tiles(g, H \cup {c2}) /\ Lists(g, H \cup {c2}, F)
  /\ c2 \notin H /\ c2 \in Addr /\ Kept(k, g, H) /\ Spares(k, g, H) /\ g.mem[c2].units = m
  /\ Footer(g, c) + 1 = c2 /\ Footer(g, c2) = Footer(h, c)

\* After c was cut to n units, the rest of it becomes a chunk.
LEMMA CarveRest ==
  ASSUME NEW h, NEW H, NEW c, NEW n, NEW m, NEW c2, NEW k, NEW F, CutTo(h, H, c, n, m, c2, k, F),
         NEW g, g = SetUnits(k, c2, m)
  PROVE  Carved(h, H, c, m, c2, k, F, g)
PROOF
<1>0. /\ Typed(h) /\ Tiles(h, H) /\ c \in H /\ n \in Nat \ {0} /\ m \in Nat \ {0}
      /\ n + m + 2 = h.mem[c].units /\ c2 = c + n + 2
      /\ Typed(k) /\ Placed(k, H) /\ k.end = h.end /\ k.lib = h.lib /\ Footer(k, c) = c + n + 1
      /\ \A d \in H \ {c} : Footer(k, d) = Footer(h, d)
      /\ Lists(k, H, F)
  BY DEF CutTo
<1> USE <1>0
<1>1. Placed(h, H) BY DEF Tiles
<1>2. c \in Int /\ Footer(h, c) = c + h.mem[c].units + 1 /\ h.mem[c].units \in Int
      /\ Footer(h, c) < h.end /\ h.end \in Int
  BY <1>1 DEF Placed, Footer, Addr, Typed
<1>3. c2 = Footer(k, c) + 1 /\ c2 + m + 1 = Footer(h, c) /\ c2 + m + 1 < k.end BY <1>2
<1>4. \A d \in H : c < d => c2 + m + 1 < d BY <1>1, <1>3 DEF Placed
<1>5. /\ Typed(g) /\ g.end = k.end /\ g.lib = k.lib /\ g.bins = k.bins
      /\ c2 \notin H /\ c2 \in Addr /\ c < c2 /\ g.mem[c2].units = m
      /\ Placed(g, H \cup {c2}) /\ Footer(g, c2) = c2 + m + 1 /\ Kept(k, g, H) /\ Spares(k, g, H)
  BY <1>3, <1>4, Carve
<1>6. \A d \in H : Footer(g, d) = Footer(k, d) BY <1>5 DEF Kept
<1>7. Tiles(g, H \cup {c2})
  <2>1. Footer(g, c) + 1 = c2 /\ Footer(g, c2) = Footer(h, c) /\ c2 \in Int
        /\ \A d \in H \ {c} : Footer(g, d) = Footer(h, d)
    BY <1>2, <1>3, <1>5, <1>6
  <2>2. g.end = h.end BY <1>5
  <2> QED BY <1>5, <2>1, <2>2, TilesSplit
<1>8. F \subseteq H BY DEF Lists
<1>9. Lists(g, H \cup {c2}, F)
  <2>1. F \subseteq H \cup {c2} BY <1>8
  <2> QED BY <2>1, <1>5, <1>8, KeptLists
<1> QED BY <1>3, <1>5, <1>6, <1>7, <1>9 DEF Carved

\* heapmgr2: splitting, and moving the rest to its own bin, keeps the heap whole.
LEMMA RelocateWhole ==
  ASSUME NEW h, NEW H, NEW F, Whole(h, H, F), NEW c \in F,
         NEW units \in Nat \ {0}, Splits(h, c, units),
         NEW c2, c2 = c + h.mem[c].units - units, NEW g, g = SplitAndRelocate(h, c, units)
  PROVE  Whole(g, H \cup {c2}, F) /\ Divided(h, g, H, c, c2) /\ g.mem[c2].units = units
PROOF
<1>1. Typed(h) /\ Tiles(h, H) /\ Placed(h, H) /\ Lists(h, H, F) /\ Marked(h, H, F) /\ F \subseteq H
  BY DEF Whole, Tiles, Lists
<1>2. PICK n : n = h.mem[c].units - units - 2 OBVIOUS
<1>3. n \in Nat \ {0} /\ c \in H /\ c \in Int /\ h.mem[c].units \in Nat /\ n < h.mem[c].units
      /\ n + units + 2 = h.mem[c].units /\ c2 = c + n + 2
  BY <1>1, <1>2 DEF Placed, Addr, Splits
<1>4. PICK h1 : h1 = RemoveChunk(h, c) OBVIOUS
<1>5. PICK h2 : h2 = SetUnits(h1, c, n) OBVIOUS
<1>6. PICK h3 : h3 = SetStatus(h2, c, FREE) OBVIOUS
<1>7. PICK h4 : h4 = InsertChunk(h3, c) OBVIOUS
<1>8. PICK h5 : h5 = SetUnits(h4, c2, units) OBVIOUS
<1>9. g = SetStatus(h5, c2, IN_USE)
  BY <1>2, <1>3, <1>4, <1>5, <1>6, <1>7, <1>8 DEF SplitAndRelocate
<1>10. Whole(h1, H, F \ {c}) /\ Spares(h, h1, H) /\ h1.end = h.end /\ h1.lib = h.lib
  <2>1. Whole(h, H, F) /\ c \in F /\ h1 = RemoveChunk(h, c) BY <1>4
  <2> QED BY ONLY <2>1, RemoveWhole
<1>11. Typed(h1) /\ Placed(h1, H) /\ Lists(h1, H, F \ {c}) /\ Marked(h1, H, F \ {c})
  BY <1>10 DEF Whole, Tiles
<1>12. h1.mem[c].units = h.mem[c].units /\ \A d \in H : Footer(h1, d) = Footer(h, d)
  BY <1>3, <1>10 DEF Spares
<1>13. /\ Typed(h2) /\ h2.end = h1.end /\ h2.lib = h1.lib /\ h2.bins = h1.bins
       /\ Placed(h2, H) /\ Footer(h2, c) = c + n + 1 /\ Kept(h1, h2, H \ {c}) /\ Spares(h1, h2, H \ {c})
  <2>1. n < h1.mem[c].units BY <1>3, <1>12
  <2>2. Typed(h1) /\ Placed(h1, H) /\ c \in H /\ n \in Nat \ {0} /\ h2 = SetUnits(h1, c, n)
    BY <1>3, <1>5, <1>11
  <2> QED BY ONLY <2>1, <2>2, Shrink
<1>14. Lists(h2, H, F \ {c})
  <2>1. PICK E : E = F \ {c} OBVIOUS
  <2>2. E \subseteq H /\ E \subseteq H \ {c} /\ Lists(h1, H, E) BY <2>1, <1>1, <1>11
  <2>3. Lists(h2, H, E) BY <2>2, <1>11, <1>13, KeptLists
  <2> QED BY <2>1, <2>3
<1>15. \A d \in H \ {c} : h2.mem[d].status = IF d \in F THEN FREE ELSE IN_USE
  BY <1>11, <1>13 DEF Kept, Marked
<1>16. /\ Relinked(h2, h3, H) /\ h3.bins = h2.bins /\ Marks(h3, H) = [Marks(h2, H) EXCEPT ![c] = FREE]
       /\ Prevs(h3, H) = Prevs(h2, H) /\ Nexts(h3, H) = Nexts(h2, H)
  BY <1>3, <1>6, <1>13, CellTypes, SetStatusEffect
<1>17. Typed(h3) /\ Placed(h3, H) /\ BinsOf(h3, H) = BinsOf(h2, H)
  BY <1>13, <1>16, RelinkedSame DEF Relinked
<1>18. Lists(h3, H, F \ {c}) BY <1>14, <1>16, <1>17 DEF Lists
<1>19. Relinked(h3, h4, H) /\ Marks(h4, H) = Marks(h3, H) /\ Lists(h4, H, F)
  <2>1. PICK E : E = F \ {c} OBVIOUS
  <2>2. c \in H \ E /\ Lists(h3, H, E) /\ E \cup {c} = F BY <2>1, <1>3, <1>18
  <2>3. Relinked(h3, h4, H) /\ Marks(h4, H) = Marks(h3, H) /\ Lists(h4, H, E \cup {c})
    BY <2>2, <1>7, <1>17, InsertKeeps
  <2> QED BY <2>2, <2>3
<1>20. Relinked(h2, h4, H) BY <1>13, <1>16, <1>19, RelinkedThrough
<1>21. Typed(h4) /\ Placed(h4, H) /\ h4.end = h.end /\ h4.lib = h.lib
       /\ \A d \in H : Footer(h4, d) = Footer(h2, d)
  BY <1>10, <1>13, <1>20, RelinkedSame DEF Relinked
<1>22. Footer(h4, c) = c + n + 1 /\ \A d \in H \ {c} : Footer(h4, d) = Footer(h, d)
  BY <1>3, <1>12, <1>13, <1>21 DEF Kept
<1>23. /\ Typed(h5) /\ h5.end = h.end /\ h5.lib = h.lib /\ Tiles(h5, H \cup {c2}) /\ Lists(h5, H \cup {c2}, F)
       /\ c2 \notin H /\ c2 \in Addr /\ Kept(h4, h5, H) /\ Spares(h4, h5, H) /\ h5.mem[c2].units = units
       /\ Footer(h5, c) + 1 = c2 /\ Footer(h5, c2) = Footer(h, c)
  <2>1. Typed(h) /\ Tiles(h, H) /\ c \in H /\ n \in Nat \ {0} /\ units \in Nat \ {0}
        /\ n + units + 2 = h.mem[c].units /\ c2 = c + n + 2
    BY <1>1, <1>3
  <2>2. /\ Typed(h4) /\ Placed(h4, H) /\ h4.end = h.end /\ h4.lib = h.lib /\ Footer(h4, c) = c + n + 1
        /\ \A d \in H \ {c} : Footer(h4, d) = Footer(h, d)
        /\ Lists(h4, H, F) /\ h5 = SetUnits(h4, c2, units)
    BY <1>8, <1>19, <1>21, <1>22
  <2>3. CutTo(h, H, c, n, units, c2, h4, F) BY ONLY <2>1, <2>2 DEF CutTo
  <2>4. Carved(h, H, c, units, c2, h4, F, h5) BY ONLY <2>2, <2>3, CarveRest
  <2> QED BY ONLY <2>4 DEF Carved
<1>24. \A d \in H : h5.mem[d].status = IF d \in F THEN FREE ELSE IN_USE
  <2>1. \A d \in H : h5.mem[d].status = h3.mem[d].status BY <1>19, <1>23 DEF Kept, Marks
  <2>2. h3.mem[c].status = FREE /\ \A d \in H \ {c} : h3.mem[d].status = h2.mem[d].status
    BY <1>3, <1>16 DEF Marks
  <2> QED BY <2>1, <2>2, <1>15, <1>3
<1>25. PICK G : G = H \cup {c2} OBVIOUS
<1>26. Typed(h5) /\ Tiles(h5, G) /\ Placed(h5, G) /\ Lists(h5, G, F) /\ c2 \in G
  BY <1>23, <1>25 DEF Tiles
<1>27. /\ Relinked(h5, g, G) /\ g.bins = h5.bins /\ Marks(g, G) = [Marks(h5, G) EXCEPT ![c2] = IN_USE]
       /\ Prevs(g, G) = Prevs(h5, G) /\ Nexts(g, G) = Nexts(h5, G)
  BY <1>9, <1>26, CellTypes, SetStatusEffect
<1>28. Typed(g) /\ Tiles(g, G) /\ Placed(g, G) /\ Spares(h5, g, G) /\ BinsOf(g, G) = BinsOf(h5, G)
       /\ g.end = h5.end /\ g.lib = h5.lib /\ \A d \in G : Footer(g, d) = Footer(h5, d)
  BY <1>26, <1>27, RelinkedTiles, RelinkedSpares, RelinkedSame DEF Relinked
<1>29. Lists(g, G, F) BY <1>26, <1>27, <1>28 DEF Lists
<1>30. Marked(g, G, F)
  <2>1. ASSUME NEW d \in G PROVE g.mem[d].status = IF d = c2 THEN IN_USE ELSE h5.mem[d].status
    BY <2>1, <1>27 DEF Marks
  <2>2. c2 \notin F BY <1>1, <1>23
  <2> QED BY <2>1, <2>2, <1>24, <1>25 DEF Marked
<1>31. Spares(h, g, H \ {c})
  <2>1. PICK K : K = H \ {c} OBVIOUS
  <2>2. K \subseteq H /\ K \subseteq G BY <2>1, <1>25
  <2>3. Spares(h, h1, K) BY <2>2, <1>10, SparesFewer
  <2>4. Spares(h1, h2, K) BY <2>1, <1>13
  <2>5. Spares(h2, h4, K) BY <2>2, <1>13, <1>20, RelinkedSpares, SparesFewer
  <2>6. Spares(h4, h5, K) BY <2>2, <1>23, SparesFewer
  <2>7. Spares(h5, g, K) BY <2>2, <1>28, SparesFewer
  <2>8. Spares(h, h2, K) BY <2>3, <2>4, SparesThrough
  <2>9. Spares(h, h4, K) BY <2>8, <2>5, SparesThrough
  <2>10. Spares(h, h5, K) BY <2>9, <2>6, SparesThrough
  <2>11. Spares(h, g, K) BY <2>10, <2>7, SparesThrough
  <2> QED BY <2>1, <2>11
<1>32. g.mem[c2].units = units BY <1>26, <1>23, <1>28 DEF Spares
<1>33. Footer(g, c) + 1 = c2 /\ Footer(g, c2) = Footer(h, c) BY <1>3, <1>23, <1>25, <1>28
<1> QED BY <1>10, <1>23, <1>25, <1>28, <1>29, <1>30, <1>31, <1>32, <1>33 DEF Whole, Divided
-----------------------------------------------------------------------------
\* The last steps of split_chunk: c2 is linked in after c.
LinkedAfter(h, c, c2, next) ==
  LET h3 == SetNext(SetNext(SetStatus(SetPrev(h, c2, c), c2, FREE), c, c2), c2, next)
  IN IF next = NULL THEN h3 ELSE SetPrev(h3, next, c2)

\* split_chunk of heapmgr1 keeps the lists in order, with c2 behind c.
LEMMA LinkAfter ==
  ASSUME NEW h, Typed(h), NEW G, Placed(h, G), NEW F, Lists(h, G, F), h.lib = 1, NEW c \in F,
         NEW c2 \in G \ F,
         NEW next, next = h.mem[c].link,
         NEW g, g = LinkedAfter(h, c, c2, next)
  PROVE  /\ Relinked(h, g, G) /\ Lists(g, G, F \cup {c2})
         /\ \A d \in G : g.mem[d].status = IF d = c2 THEN FREE ELSE h.mem[d].status
PROOF
<1>1. F \subseteq G /\ c \in G /\ Linked(F, BinsOf(h, G), Nexts(h, G), Prevs(h, G), h.bins)
  BY DEF Lists
<1>2. /\ Nexts(h, G) \in [G -> Int] /\ Prevs(h, G) \in [G -> Int]
      /\ BinsOf(h, G) \in [G -> Bins(h.lib)] /\ h.bins \in [Bins(h.lib) -> Int]
      /\ G \in SUBSET Nat
  BY LinkTypes
<1>3. next = Nexts(h, G)[c] /\ next \in Int BY <1>1, <1>2 DEF Nexts
<1>4. next \in G \cup {NULL}
  <2>1. PICK nx : nx = Nexts(h, G) OBVIOUS
  <2>2. PICK r \in [F -> Nat] : Chained(F, BinsOf(h, G), nx, Prevs(h, G), h.bins, r)
    BY <2>1, <1>1 DEF Linked
  <2>3. nx[c] # NULL => nx[c] \in F BY <2>2 DEF Chained
  <2> QED BY <2>1, <2>3, <1>1, <1>3
<1>5. c \in Int /\ c2 \in Int BY <1>1, <1>2
<1>6. PICK h1 : h1 = SetPrev(h, c2, c) OBVIOUS
<1>7. PICK h2 : h2 = SetStatus(h1, c2, FREE) OBVIOUS
<1>8. PICK h3 : h3 = SetNext(h2, c, c2) OBVIOUS
<1>9. PICK h4 : h4 = SetNext(h3, c2, next) OBVIOUS
<1>10. g = IF next = NULL THEN h4 ELSE SetPrev(h4, next, c2)
  BY <1>6, <1>7, <1>8, <1>9 DEF LinkedAfter
<1>11. /\ Relinked(h, h1, G) /\ h1.bins = h.bins /\ Marks(h1, G) = Marks(h, G)
       /\ Prevs(h1, G) = [Prevs(h, G) EXCEPT ![c2] = c] /\ Nexts(h1, G) = Nexts(h, G)
  BY <1>5, <1>6, SetPrevEffect
<1>12. Typed(h1) /\ Placed(h1, G) BY <1>11, RelinkedSame DEF Relinked
<1>13. /\ Relinked(h1, h2, G) /\ h2.bins = h1.bins /\ Marks(h2, G) = [Marks(h1, G) EXCEPT ![c2] = FREE]
       /\ Prevs(h2, G) = Prevs(h1, G) /\ Nexts(h2, G) = Nexts(h1, G)
  BY <1>12, <1>7, CellTypes, SetStatusEffect
<1>14. Typed(h2) /\ Placed(h2, G) BY <1>12, <1>13, RelinkedSame DEF Relinked
<1>15. /\ Relinked(h2, h3, G) /\ h3.bins = h2.bins /\ Marks(h3, G) = Marks(h2, G)
       /\ Nexts(h3, G) = [Nexts(h2, G) EXCEPT ![c] = c2] /\ Prevs(h3, G) = Prevs(h2, G)
  BY <1>14, <1>1, <1>5, <1>8, SetNextEffect
<1>16. Typed(h3) /\ Placed(h3, G) BY <1>14, <1>15, RelinkedSame DEF Relinked
<1>17. /\ Relinked(h3, h4, G) /\ h4.bins = h3.bins /\ Marks(h4, G) = Marks(h3, G)
       /\ Nexts(h4, G) = [Nexts(h3, G) EXCEPT ![c2] = next] /\ Prevs(h4, G) = Prevs(h3, G)
  BY <1>16, <1>3, <1>9, SetNextEffect
<1>18. Typed(h4) /\ Placed(h4, G) BY <1>16, <1>17, RelinkedSame DEF Relinked
<1>19. Relinked(h, h4, G)
  <2>1. Relinked(h, h2, G) BY <1>11, <1>13, RelinkedThrough
  <2>2. Relinked(h, h3, G) BY <2>1, <1>15, RelinkedThrough
  <2> QED BY <2>2, <1>17, RelinkedThrough
<1>20. /\ h4.bins = h.bins /\ Marks(h4, G) = [Marks(h, G) EXCEPT ![c2] = FREE]
       /\ Nexts(h4, G) = [Nexts(h, G) EXCEPT ![c] = c2, ![c2] = next]
       /\ Prevs(h4, G) = [Prevs(h, G) EXCEPT ![c2] = c]
  BY <1>11, <1>13, <1>15, <1>17
<1>21. /\ Relinked(h, g, G) /\ g.bins = h.bins /\ Marks(g, G) = [Marks(h, G) EXCEPT ![c2] = FREE]
       /\ Nexts(g, G) = [Nexts(h, G) EXCEPT ![c] = c2, ![c2] = next]
       /\ Prevs(g, G) = IF next = NULL THEN [Prevs(h, G) EXCEPT ![c2] = c]
                        ELSE [Prevs(h, G) EXCEPT ![c2] = c, ![next] = c2]
  <2>1. CASE next = NULL BY <2>1, <1>10, <1>19, <1>20
  <2>2. CASE next # NULL
    <3>1. g = SetPrev(h4, next, c2) /\ next \in G BY <2>2, <1>10, <1>4
    <3>2. /\ Relinked(h4, g, G) /\ g.bins = h4.bins /\ Marks(g, G) = Marks(h4, G)
          /\ Prevs(g, G) = [Prevs(h4, G) EXCEPT ![next] = c2] /\ Nexts(g, G) = Nexts(h4, G)
      BY <3>1, <1>5, <1>18, SetPrevEffect
    <3>3. Relinked(h, g, G) BY <3>2, <1>19, RelinkedThrough
    <3> QED BY <2>2, <3>2, <3>3, <1>20
  <2> QED BY <2>1, <2>2
<1>22. Linked(F \cup {c2}, BinsOf(h, G), Nexts(g, G), Prevs(g, G), g.bins)
  <2>1. PICK nx : nx = Nexts(h, G) OBVIOUS
  <2>2. PICK pv : pv = Prevs(h, G) OBVIOUS
  <2>3. PICK bin : bin = BinsOf(h, G) OBVIOUS
  <2>4. PICK nx2 : nx2 = NextsAfter(nx, c, c2) OBVIOUS
  <2>5. PICK pv2 : pv2 = PrevsAfter(nx, pv, c, c2) OBVIOUS
  <2>6. bin[c2] = bin[c]
    <3>1. h.mem[c].units \in Int /\ h.mem[c2].units \in Int BY <1>1 DEF Placed
    <3>2. FindBin(1, h.mem[c].units) = Large /\ FindBin(1, h.mem[c2].units) = Large BY <3>1, OneBin
    <3> QED BY <3>2, <2>3, <1>1 DEF BinsOf
  <2>7. /\ nx \in [G -> Int] /\ pv \in [G -> Int] /\ bin \in [G -> Bins(h.lib)]
        /\ h.bins \in [Bins(h.lib) -> Int] /\ G \in SUBSET Nat /\ F \in SUBSET G
        /\ Linked(F, bin, nx, pv, h.bins)
    BY <2>1, <2>2, <2>3, <1>1, <1>2
  <2>8. Linked(F \cup {c2}, bin, nx2, pv2, h.bins)
    <3>1. PICK hd : hd = h.bins OBVIOUS
    <3>2. PICK B : B = Bins(h.lib) OBVIOUS
    <3>3. c \in F /\ c2 \in G \ F OBVIOUS
    <3>4. /\ nx \in [G -> Int] /\ pv \in [G -> Int] /\ bin \in [G -> B]
          /\ hd \in [B -> Int] /\ G \in SUBSET Nat /\ F \in SUBSET G
          /\ Linked(F, bin, nx, pv, hd)
      BY <2>7, <3>1, <3>2
    <3>5. Linked(F \cup {c2}, bin, nx2, pv2, hd)
      BY ONLY <3>3, <3>4, <2>4, <2>5, <2>6, LinkedInsertAfter
    <3> QED BY <3>1, <3>5
  <2>9. Nexts(g, G) = nx2 /\ Prevs(g, G) = pv2
    BY <2>1, <2>2, <2>4, <2>5, <1>3, <1>21 DEF NextsAfter, PrevsAfter
  <2> QED BY <2>3, <2>8, <2>9, <1>21
<1>23. BinsOf(g, G) = BinsOf(h, G) BY <1>21, RelinkedSame
<1>24. \A d \in G : g.mem[d].status = IF d = c2 THEN FREE ELSE h.mem[d].status
  BY <1>21 DEF Marks
<1> QED BY <1>1, <1>21, <1>22, <1>23, <1>24 DEF Lists

\* heapmgr1: splitting a chunk keeps the heap whole.
LEMMA SplitWhole ==
  ASSUME NEW h, NEW H, NEW F, Whole(h, H, F), h.lib = 1, NEW c \in F, NEW units \in Nat \ {0},
         Splits(h, c, units),
         NEW c2, c2 = c + h.mem[c].units - units, NEW g, g = SplitChunk(h, c, units)
  PROVE  Whole(g, H \cup {c2}, F \cup {c2}) /\ Divided(h, g, H, c, c2) /\ g.mem[c2].units = units
PROOF
<1>1. Typed(h) /\ Tiles(h, H) /\ Placed(h, H) /\ Lists(h, H, F) /\ Marked(h, H, F) /\ F \subseteq H
  BY DEF Whole, Tiles, Lists
<1>2. PICK n : n = h.mem[c].units - units - 2 OBVIOUS
<1>3. n \in Nat \ {0} /\ c \in H /\ c \in Int /\ h.mem[c].units \in Nat /\ n < h.mem[c].units
      /\ n + units + 2 = h.mem[c].units /\ c2 = c + n + 2
  BY <1>1, <1>2 DEF Placed, Addr, Splits
<1>4. PICK next : next = h.mem[c].link OBVIOUS
<1>5. PICK prev : prev = h.mem[Footer(h, c)].link OBVIOUS
<1>6. PICK h1 : h1 = SetUnits(h, c, n) OBVIOUS
<1>7. PICK h2 : h2 = SetPrev(h1, c, prev) OBVIOUS
<1>8. PICK h3 : h3 = SetUnits(h2, c2, units) OBVIOUS
<1>9. g = LinkedAfter(h3, c, c2, next)
  BY <1>2, <1>3, <1>4, <1>5, <1>6, <1>7, <1>8 DEF SplitChunk, LinkedAfter
<1>10. /\ Typed(h1) /\ h1.end = h.end /\ h1.lib = h.lib /\ h1.bins = h.bins
       /\ Placed(h1, H) /\ Footer(h1, c) = c + n + 1 /\ Kept(h, h1, H \ {c}) /\ Spares(h, h1, H \ {c})
       /\ h1.mem[c].units = n /\ h1.mem[c].link = h.mem[c].link /\ h1.mem[c].status = h.mem[c].status
  <2>1. Typed(h) /\ Placed(h, H) /\ c \in H /\ n \in Nat \ {0} /\ n < h.mem[c].units BY <1>1, <1>3
  <2> QED BY ONLY <2>1, <1>6, Shrink
<1>11. prev \in Int
  <2>1. Prevs(h, H) \in [H -> Int] BY <1>1, LinkTypes
  <2> QED BY <2>1, <1>3, <1>5 DEF Prevs
<1>12. /\ Relinked(h1, h2, H) /\ h2.bins = h1.bins /\ Marks(h2, H) = Marks(h1, H)
       /\ Prevs(h2, H) = [Prevs(h1, H) EXCEPT ![c] = prev] /\ Nexts(h2, H) = Nexts(h1, H)
  <2>1. Typed(h1) /\ Placed(h1, H) /\ c \in H BY <1>3, <1>10
  <2> QED BY ONLY <2>1, <1>7, <1>11, SetPrevEffect
<1>13. Typed(h2) /\ Placed(h2, H) /\ h2.end = h.end /\ h2.lib = h.lib
       /\ \A d \in H : Footer(h2, d) = Footer(h1, d)
  BY <1>10, <1>12, RelinkedSame DEF Relinked
<1>14. Lists(h2, H, F)
  <2>1. ASSUME NEW d \in H
        PROVE  /\ BinsOf(h2, H)[d] = BinsOf(h, H)[d] /\ Nexts(h2, H)[d] = Nexts(h, H)[d]
               /\ Prevs(h2, H)[d] = Prevs(h, H)[d]
    <3>1. h.mem[d].units \in Int /\ h2.mem[d].units \in Int BY <1>1, <1>13 DEF Placed
    <3>2. FindBin(1, h.mem[d].units) = Large /\ FindBin(1, h2.mem[d].units) = Large BY <3>1, OneBin
    <3>3. BinsOf(h2, H)[d] = BinsOf(h, H)[d] BY <3>2, <1>13 DEF BinsOf
    <3>4. h1.mem[d].link = h.mem[d].link /\ (d # c => h1.mem[Footer(h1, d)].link = h.mem[Footer(h, d)].link)
      BY <1>10 DEF Kept
    <3>5. Nexts(h2, H)[d] = Nexts(h, H)[d] BY <3>4, <1>12 DEF Nexts
    <3>6. Prevs(h2, H)[d] = IF d = c THEN prev ELSE Prevs(h1, H)[d] BY <1>12 DEF Prevs
    <3>7. Prevs(h2, H)[d] = Prevs(h, H)[d] BY <3>4, <3>6, <1>5 DEF Prevs
    <3> QED BY <3>3, <3>5, <3>7
  <2>2. h2.bins = h.bins /\ \A d \in F : /\ BinsOf(h2, H)[d] = BinsOf(h, H)[d]
                       /\ Nexts(h2, H)[d] = Nexts(h, H)[d] /\ Prevs(h2, H)[d] = Prevs(h, H)[d]
    BY <2>1, <1>1, <1>10, <1>12
  <2> QED BY ONLY <2>2, <1>1, ListsMoved
<1>15. /\ Typed(h3) /\ h3.end = h.end /\ h3.lib = h.lib /\ Tiles(h3, H \cup {c2}) /\ Lists(h3, H \cup {c2}, F)
       /\ c2 \notin H /\ c2 \in Addr /\ Kept(h2, h3, H) /\ Spares(h2, h3, H) /\ h3.mem[c2].units = units
       /\ Footer(h3, c) + 1 = c2 /\ Footer(h3, c2) = Footer(h, c)
  <2>1. Typed(h) /\ Tiles(h, H) /\ c \in H /\ n \in Nat \ {0} /\ units \in Nat \ {0}
        /\ n + units + 2 = h.mem[c].units /\ c2 = c + n + 2
    BY <1>1, <1>3
  <2>2. /\ Typed(h2) /\ Placed(h2, H) /\ h2.end = h.end /\ h2.lib = h.lib /\ Footer(h2, c) = c + n + 1
        /\ \A d \in H \ {c} : Footer(h2, d) = Footer(h, d)
        /\ Lists(h2, H, F) /\ h3 = SetUnits(h2, c2, units)
    BY <1>3, <1>8, <1>10, <1>13, <1>14 DEF Kept
  <2>3. CutTo(h, H, c, n, units, c2, h2, F) BY ONLY <2>1, <2>2 DEF CutTo
  <2>4. Carved(h, H, c, units, c2, h2, F, h3) BY ONLY <2>2, <2>3, CarveRest
  <2> QED BY ONLY <2>4 DEF Carved
<1>16. PICK G : G = H \cup {c2} OBVIOUS
<1>17. Typed(h3) /\ Tiles(h3, G) /\ Placed(h3, G) /\ Lists(h3, G, F) /\ h3.lib = 1 /\ c2 \in G \ F
  BY <1>1, <1>15, <1>16 DEF Tiles
<1>18. next = h3.mem[c].link
  <2>1. h3.mem[c].link = h2.mem[c].link BY <1>3, <1>15 DEF Kept
  <2>2. h2.mem[c].link = h1.mem[c].link
    <3>1. Nexts(h2, H)[c] = Nexts(h1, H)[c] BY <1>12
    <3> QED BY <3>1, <1>3 DEF Nexts
  <2> QED BY <2>1, <2>2, <1>4, <1>10
<1>19. /\ Relinked(h3, g, G) /\ Lists(g, G, F \cup {c2})
       /\ \A d \in G : g.mem[d].status = IF d = c2 THEN FREE ELSE h3.mem[d].status
  <2>1. c \in F OBVIOUS
  <2>2. Typed(h3) /\ Placed(h3, G) /\ Lists(h3, G, F) /\ h3.lib = 1 /\ c2 \in G \ F BY <1>17
  <2>4. Relinked(h3, g, G) BY ONLY <2>1, <2>2, <1>9, <1>18, LinkAfter
  <2>5. Lists(g, G, F \cup {c2}) BY ONLY <2>1, <2>2, <1>9, <1>18, LinkAfter
  <2>6. \A d \in G : g.mem[d].status = IF d = c2 THEN FREE ELSE h3.mem[d].status
    BY ONLY <2>1, <2>2, <2>4, <2>5, <1>9, <1>18, LinkAfter
  <2> QED BY <2>4, <2>5, <2>6
<1>20. Typed(g) /\ Tiles(g, G) /\ Spares(h3, g, G) /\ g.end = h3.end /\ g.lib = h3.lib
       /\ \A d \in G : Footer(g, d) = Footer(h3, d)
  BY <1>17, <1>19, RelinkedTiles, RelinkedSpares, RelinkedSame DEF Relinked
<1>21. Marked(g, G, F \cup {c2})
  <2>2. \A d \in H : h3.mem[d].status = h2.mem[d].status BY <1>15 DEF Kept
  <2>3. \A d \in H : h2.mem[d].status = h1.mem[d].status BY <1>12 DEF Marks
  <2>4. \A d \in H : h1.mem[d].status = h.mem[d].status BY <1>10 DEF Kept
  <2> QED BY <2>2, <2>3, <2>4, <1>1, <1>15, <1>16, <1>19 DEF Marked
<1>22. Spares(h, g, H \ {c})
  <2>1. PICK K : K = H \ {c} OBVIOUS
  <2>2. K \subseteq H /\ K \subseteq G BY <2>1, <1>16
  <2>3. Spares(h, h1, K) BY <2>1, <1>10
  <2>4. Spares(h1, h2, K) BY <2>2, <1>10, <1>12, RelinkedSpares, SparesFewer
  <2>5. Spares(h2, h3, K) BY <2>2, <1>15, SparesFewer
  <2>6. Spares(h3, g, K) BY <2>2, <1>20, SparesFewer
  <2>7. Spares(h, h2, K) BY <2>3, <2>4, SparesThrough
  <2>8. Spares(h, h3, K) BY <2>7, <2>5, SparesThrough
  <2>9. Spares(h, g, K) BY <2>8, <2>6, SparesThrough
  <2> QED BY <2>1, <2>9
<1>23. g.mem[c2].units = units BY <1>15, <1>17, <1>20 DEF Spares
<1>24. Footer(g, c) + 1 = c2 /\ Footer(g, c2) = Footer(h, c) BY <1>3, <1>15, <1>16, <1>20
<1> QED BY <1>15, <1>16, <1>19, <1>20, <1>21, <1>22, <1>23, <1>24 DEF Whole, Divided
-----------------------------------------------------------------------------
\* The chunks go on to the end of the heap.
LEMMA LastChunk ==
  ASSUME NEW h, Typed(h), NEW H, Tiles(h, H), h.end # 0
  PROVE  \E p \in H : Footer(h, p) + 1 = h.end
PROOF
<1>1. Placed(h, H) /\ MaxHeap \in Nat BY ChunksAssumption DEF Tiles
<1>2. PICK z : z = 0 OBVIOUS
<1>3. z \in H
  <2>1. 0 \in H \cup {h.end} BY DEF Tiles
  <2> QED BY <2>1, <1>2
<1>4. PICK S : S = {x \in Nat : \E c \in H : x = MaxHeap - c} OBVIOUS
<1>5. \A c \in H : c \in Int /\ MaxHeap - c \in S BY <1>1, <1>4 DEF Placed, Addr
<1>6. S \in SUBSET Nat /\ S # {} BY <1>3, <1>4, <1>5
<1>7. Min(S) \in S /\ \A k \in S : Min(S) <= k BY <1>6, LeastOf
<1>8. PICK c \in H : Min(S) = MaxHeap - c BY <1>7, <1>4
<1>9. \A d \in H : d <= c BY <1>1, <1>5, <1>7, <1>8
<1>10. c < Footer(h, c) /\ Footer(h, c) \in Int BY <1>1, Apart
<1>11. Footer(h, c) + 1 \notin H BY <1>5, <1>9, <1>10
<1>12. Footer(h, c) + 1 \in H \cup {h.end} BY DEF Tiles
<1> QED BY <1>11, <1>12

\* Fresh memory becomes a chunk at the end, not linked in yet.
LEMMA GrownEffect ==
  ASSUME NEW h, NEW H, NEW F, Whole(h, H, F), NEW units, NEW n \in Nat \ {0}, n = GrowBy(units),
         NEW e, e = h.end, e + n + 2 <= MaxHeap, NEW g, g = Grown(h, units)
  PROVE  /\ Typed(g) /\ g.end = e + n + 2 /\ g.lib = h.lib /\ e \notin H /\ e \in Addr
         /\ Tiles(g, H \cup {e}) /\ Lists(g, H \cup {e}, F) /\ Spares(h, g, H)
         /\ \A d \in H : g.mem[d].status = h.mem[d].status
         /\ g.mem[e].units = n /\ Footer(g, e) + 1 = g.end
PROOF
<1>1. Typed(h) /\ Tiles(h, H) /\ Placed(h, H) /\ Lists(h, H, F) /\ F \subseteq H
  BY DEF Whole, Tiles, Lists
<1>2. e \in Nat /\ e <= MaxHeap /\ MaxHeap \in Nat /\ e \in Addr /\ e = h.end
  BY <1>1, ChunksAssumption DEF Typed, Addr
<1>3. PICK m : m = [h EXCEPT !.end = e + n + 2] OBVIOUS
<1>4. PICK h1 : h1 = SetUnits(m, e, n) OBVIOUS
<1>5. PICK h2 : h2 = SetPrev(h1, e, NULL) OBVIOUS
<1>6. g = SetStatus(h2, e, FREE) BY <1>3, <1>4, <1>5 DEF Grown
<1>7. Typed(m) /\ m.mem = h.mem /\ m.lib = h.lib /\ m.bins = h.bins /\ m.end = e + n + 2
  <2>1. e + n + 2 \in 0 .. MaxHeap BY <1>2
  <2>2. m.mem = h.mem /\ m.lib = h.lib /\ m.bins = h.bins /\ m.end = e + n + 2
        /\ m \in [mem : [Addr -> Cells], end : 0 .. MaxHeap, lib : {1, 2}, bins : {h.bins}]
    BY <2>1, <1>1, <1>3 DEF Typed
  <2> QED BY <2>2, <1>1 DEF Typed
<1>8. Placed(m, H) /\ \A d \in H : Footer(m, d) = Footer(h, d)
  <2>1. m.end >= h.end /\ m.end \in Int BY <1>2, <1>7
  <2>2. \A d \in H : m.mem[d].units = h.mem[d].units /\ m.mem[Footer(h, d)].units = h.mem[Footer(h, d)].units
    BY <1>7
  <2> QED BY <2>1, <2>2, <1>1, PlacedSame
<1>9. Kept(h, m, H) /\ Spares(h, m, H) BY <1>7, <1>8 DEF Kept, Spares
<1>10. \A d \in H : d \in Int /\ d < e /\ Footer(h, d) < e
  <2>1. ASSUME NEW d \in H PROVE d \in Int /\ d < e /\ Footer(h, d) < e
    <3>1. d \in Addr /\ d < Footer(h, d) /\ Footer(h, d) \in Int BY <1>1, Apart
    <3>2. Footer(h, d) < e BY <1>1, <1>2 DEF Placed
    <3> QED BY <3>1, <3>2, <1>2 DEF Addr
  <2> QED BY <2>1
<1>11. /\ Typed(h1) /\ h1.end = m.end /\ h1.lib = m.lib /\ h1.bins = m.bins
       /\ Placed(h1, H \cup {e}) /\ Footer(h1, e) = e + n + 1 /\ Kept(m, h1, H) /\ Spares(m, h1, H)
       /\ h1.mem[e].units = n
  <2>1. Typed(m) /\ Placed(m, H) /\ e \in Addr /\ n \in Nat \ {0} /\ e + n + 1 < m.end
    BY <1>2, <1>7, <1>8
  <2>2. \A d \in H : d # e /\ (d < e => Footer(m, d) < e) /\ (e < d => e + n + 1 < d)
    BY <1>2, <1>8, <1>10
  <2> QED BY <2>1, <2>2, <1>4, SizedKept
<1>12. PICK G : G = H \cup {e} OBVIOUS
<1>13. \A d \in H : Footer(h1, d) = Footer(h, d) BY <1>8, <1>11 DEF Kept
<1>14. Tiles(h1, G)
  <2>1. 0 \in G \cup {h1.end}
    <3>1. 0 \in H \cup {h.end} BY <1>1 DEF Tiles
    <3> QED BY <3>1, <1>2, <1>12
  <2>2. ASSUME NEW d \in G PROVE Footer(h1, d) + 1 \in G \cup {h1.end}
    <3>1. CASE d = e BY <3>1, <1>2, <1>7, <1>11
    <3>2. CASE d \in H
      <4>1. Footer(h, d) + 1 \in H \cup {h.end} BY <3>2, <1>1 DEF Tiles
      <4> QED BY <4>1, <3>2, <1>2, <1>12, <1>13
    <3> QED BY <3>1, <3>2, <1>12
  <2>3. ASSUME NEW d \in G \ {0} PROVE \E p \in G : Footer(h1, p) + 1 = d
    <3>1. \E p \in H : Footer(h, p) + 1 = d
      <4>1. CASE d = e BY <4>1, <2>3, <1>1, <1>2, LastChunk
      <4>2. CASE d \in H BY <4>2, <2>3, <1>1 DEF Tiles
      <4> QED BY <4>1, <4>2, <1>12
    <3> QED BY <3>1, <1>12, <1>13
  <2> QED BY <2>1, <2>2, <2>3, <1>11, <1>12 DEF Tiles
<1>15. Lists(h1, G, F)
  <2>1. F \subseteq G /\ F \subseteq H BY <1>1, <1>12
  <2>2. Kept(h, h1, H) BY <1>8, <1>9, <1>11 DEF Kept
  <2>3. h1.bins = h.bins /\ h1.lib = h.lib BY <1>7, <1>11
  <2> QED BY <1>1, <2>1, <2>2, <2>3, KeptLists
<1>16. Placed(h1, G) /\ e \in G /\ NULL \in Int /\ FREE \in Statuses
  BY <1>11, <1>12, CellTypes DEF NULL
<1>17. /\ Relinked(h1, h2, G) /\ h2.bins = h1.bins /\ Marks(h2, G) = Marks(h1, G)
       /\ Prevs(h2, G) = [Prevs(h1, G) EXCEPT ![e] = NULL] /\ Nexts(h2, G) = Nexts(h1, G)
  BY <1>5, <1>11, <1>16, SetPrevEffect
<1>18. Typed(h2) /\ Placed(h2, G) BY <1>11, <1>16, <1>17, RelinkedSame DEF Relinked
<1>19. /\ Relinked(h2, g, G) /\ g.bins = h2.bins /\ Marks(g, G) = [Marks(h2, G) EXCEPT ![e] = FREE]
       /\ Prevs(g, G) = Prevs(h2, G) /\ Nexts(g, G) = Nexts(h2, G)
  BY <1>6, <1>16, <1>18, SetStatusEffect
<1>20. Relinked(h1, g, G) BY <1>11, <1>16, <1>17, <1>19, RelinkedThrough
<1>21. Typed(g) /\ Tiles(g, G) /\ Spares(h1, g, G) /\ g.end = h1.end /\ g.lib = h1.lib
       /\ BinsOf(g, G) = BinsOf(h1, G) /\ \A d \in G : Footer(g, d) = Footer(h1, d)
  BY <1>11, <1>14, <1>16, <1>20, RelinkedTiles, RelinkedSpares, RelinkedSame DEF Relinked
<1>22. Lists(g, G, F)
  <2>1. ASSUME NEW d \in F
        PROVE  /\ BinsOf(g, G)[d] = BinsOf(h1, G)[d] /\ Nexts(g, G)[d] = Nexts(h1, G)[d]
               /\ Prevs(g, G)[d] = Prevs(h1, G)[d]
    <3>1. d \in G /\ d # e BY <1>1, <1>2, <1>10, <1>12
    <3>2. Prevs(g, G)[d] = Prevs(h1, G)[d] BY <3>1, <1>17, <1>19 DEF Prevs
    <3> QED BY <3>2, <1>17, <1>19, <1>21
  <2>2. F \subseteq G /\ g.bins = h1.bins BY <1>1, <1>12, <1>17, <1>19
  <2> QED BY ONLY <2>1, <2>2, <1>11, <1>15, <1>16, ListsMoved
<1>23. \A d \in H : g.mem[d].status = h.mem[d].status
  <2>1. ASSUME NEW d \in H PROVE g.mem[d].status = h.mem[d].status
    <3>1. d \in G /\ d # e BY <1>2, <1>10, <1>12
    <3>2. g.mem[d].status = h1.mem[d].status BY <3>1, <1>17, <1>19 DEF Marks
    <3>3. h1.mem[d] = m.mem[d] BY <1>11 DEF Kept
    <3> QED BY <3>2, <3>3, <1>7
  <2> QED BY <2>1
<1>24. Spares(h, g, H)
  <2>1. Spares(h, h1, H) BY <1>9, <1>11, SparesThrough
  <2>2. H \subseteq G BY <1>12
  <2>3. Spares(h1, g, H) BY <2>2, <1>21, SparesFewer
  <2> QED BY <2>1, <2>3, SparesThrough
<1>25. g.mem[e].units = n BY <1>11, <1>16, <1>21 DEF Spares
<1>26. e \notin H BY <1>2, <1>10
<1>27. Footer(g, e) + 1 = g.end BY <1>2, <1>7, <1>11, <1>16, <1>21
<1> QED BY <1>2, <1>7, <1>11, <1>12, <1>21, <1>22, <1>23, <1>24, <1>25, <1>26, <1>27

\* A chunk that is in no list is marked as in use.
LEMMA TakeWhole ==
  ASSUME NEW h, Typed(h), NEW H, Tiles(h, H), NEW F, Lists(h, H, F), NEW c \in H \ F,
         \A d \in H : d # c => h.mem[d].status = IF d \in F THEN FREE ELSE IN_USE,
         NEW g, g = SetStatus(h, c, IN_USE)
  PROVE  Whole(g, H, F) /\ Spares(h, g, H) /\ g.end = h.end /\ g.lib = h.lib
PROOF
<1>1. Placed(h, H) BY DEF Tiles
<1>2. /\ Relinked(h, g, H) /\ g.bins = h.bins /\ Marks(g, H) = [Marks(h, H) EXCEPT ![c] = IN_USE]
      /\ Prevs(g, H) = Prevs(h, H) /\ Nexts(g, H) = Nexts(h, H)
  BY <1>1, CellTypes, SetStatusEffect
<1>3. Typed(g) /\ Tiles(g, H) /\ Spares(h, g, H) /\ g.end = h.end /\ g.lib = h.lib
      /\ BinsOf(g, H) = BinsOf(h, H)
  BY <1>1, <1>2, RelinkedTiles, RelinkedSpares, RelinkedSame DEF Relinked
<1>4. Lists(g, H, F) BY <1>2, <1>3 DEF Lists
<1>5. Marked(g, H, F) BY <1>2 DEF Marks, Marked
<1> QED BY <1>3, <1>4, <1>5 DEF Whole
-----------------------------------------------------------------------------
\* No free chunk was large enough and the fresh one is not split.
LEMMA GrowWhole ==
  ASSUME NEW h, NEW H, NEW F, Whole(h, H, F), NEW units, NEW n \in Nat \ {0}, n = GrowBy(units),
         NEW e, e = h.end, e + n + 2 <= MaxHeap, NEW g, g = SetStatus(Grown(h, units), e, IN_USE)
  PROVE  /\ Whole(g, H \cup {e}, F) /\ Spares(h, g, H) /\ e \notin H /\ e \in Addr
         /\ g.end = e + n + 2 /\ g.lib = h.lib /\ g.mem[e].units = n /\ Footer(g, e) + 1 = g.end
PROOF
<1>1. PICK k : k = Grown(h, units) OBVIOUS
<1>2. PICK G : G = H \cup {e} OBVIOUS
<1>3. /\ Typed(k) /\ k.end = e + n + 2 /\ k.lib = h.lib /\ e \notin H /\ e \in Addr
      /\ Tiles(k, G) /\ Lists(k, G, F) /\ Spares(h, k, H)
      /\ \A d \in H : k.mem[d].status = h.mem[d].status
      /\ k.mem[e].units = n /\ Footer(k, e) + 1 = k.end
  BY <1>1, <1>2, GrownEffect
<1>4. F \subseteq H /\ \A d \in H : h.mem[d].status = IF d \in F THEN FREE ELSE IN_USE
  BY DEF Whole, Lists, Marked
<1>5. e \in G \ F BY <1>2, <1>3, <1>4
<1>6. \A d \in G : d # e => k.mem[d].status = IF d \in F THEN FREE ELSE IN_USE BY <1>2, <1>3, <1>4
<1>7. g = SetStatus(k, e, IN_USE) BY <1>1
<1>8. Whole(g, G, F) /\ Spares(k, g, G) /\ g.end = k.end /\ g.lib = k.lib
  BY <1>3, <1>5, <1>6, <1>7, TakeWhole
<1>9. Spares(h, g, H)
  <2>1. H \subseteq G BY <1>2
  <2>2. Spares(k, g, H) BY <2>1, <1>8, SparesFewer
  <2> QED BY <2>2, <1>3, SparesThrough
<1>10. g.mem[e].units = n /\ Footer(g, e) = Footer(k, e) BY <1>3, <1>5, <1>8 DEF Spares
<1> QED BY <1>2, <1>3, <1>8, <1>9, <1>10

\* It is, and its second part is free.
LEMMA GrowSplitWhole ==
  ASSUME NEW h, NEW H, NEW F, Whole(h, H, F), NEW units \in Nat \ {0},
         NEW n \in Nat \ {0}, n = GrowBy(units),
         NEW e, e = h.end, e + n + 2 <= MaxHeap, NEW k, k = Grown(h, units), Splits(k, e, units),
         NEW c2, c2 = e + units + 2, NEW g, g = SetStatus(SplitFresh(k, e, units), e, IN_USE),
         NEW all, all = H \cup {e, c2}, NEW E, E = F \cup {c2}
  PROVE  /\ Whole(g, all, E) /\ Spares(h, g, H) /\ e \notin H /\ e \in Addr
         /\ c2 \notin H \cup {e} /\ g.end = e + n + 2 /\ g.lib = h.lib /\ g.mem[e].units = units
         /\ Footer(g, e) + 1 = c2 /\ Footer(g, c2) + 1 = g.end
PROOF
<1>1. PICK G : G = H \cup {e} OBVIOUS
<1>2. /\ Typed(k) /\ k.end = e + n + 2 /\ k.lib = h.lib /\ e \notin H /\ e \in Addr
      /\ Tiles(k, G) /\ Lists(k, G, F) /\ Spares(h, k, H)
      /\ \A d \in H : k.mem[d].status = h.mem[d].status
      /\ k.mem[e].units = n /\ Footer(k, e) + 1 = k.end
  BY <1>1, GrownEffect
<1>3. Placed(k, G) /\ e \in G /\ e \in Nat BY <1>1, <1>2 DEF Tiles, Addr
<1>4. F \subseteq H /\ \A d \in H : h.mem[d].status = IF d \in F THEN FREE ELSE IN_USE
  BY DEF Whole, Lists, Marked
<1>5. PICK m : m = n - units - 2 OBVIOUS
<1>6. m \in Nat \ {0} /\ units < n /\ units + m + 2 = n BY <1>2, <1>5 DEF Splits
<1>7. PICK h1 : h1 = SetUnits(k, e, units) OBVIOUS
<1>8. PICK h2 : h2 = SetUnits(h1, c2, m) OBVIOUS
<1>9. PICK h3 : h3 = SetStatus(h2, c2, FREE) OBVIOUS
<1>10. PICK h4 : h4 = InsertChunk(h3, c2) OBVIOUS
<1>11. g = SetStatus(h4, e, IN_USE) BY <1>2, <1>5, <1>7, <1>8, <1>9, <1>10 DEF SplitFresh
<1>12. /\ Typed(h1) /\ h1.end = k.end /\ h1.lib = k.lib /\ h1.bins = k.bins
       /\ Placed(h1, G) /\ Footer(h1, e) = e + units + 1 /\ Kept(k, h1, G \ {e}) /\ Spares(k, h1, G \ {e})
       /\ h1.mem[e].units = units
  <2>1. Typed(k) /\ Placed(k, G) /\ e \in G /\ units \in Nat \ {0} /\ units < k.mem[e].units
    BY <1>2, <1>3, <1>6
  <2> QED BY ONLY <2>1, <1>7, Shrink
<1>13. Lists(h1, G, F)
  <2>1. PICK K : K = G \ {e} OBVIOUS
  <2>2. F \subseteq K /\ F \subseteq G /\ Kept(k, h1, K) BY <2>1, <1>1, <1>2, <1>4, <1>12
  <2> QED BY <2>2, <1>2, <1>3, <1>12, KeptLists
<1>14. /\ Typed(h2) /\ h2.end = k.end /\ h2.lib = k.lib /\ Tiles(h2, G \cup {c2}) /\ Lists(h2, G \cup {c2}, F)
       /\ c2 \notin G /\ c2 \in Addr /\ Kept(h1, h2, G) /\ Spares(h1, h2, G) /\ h2.mem[c2].units = m
       /\ Footer(h2, e) + 1 = c2 /\ Footer(h2, c2) = Footer(k, e)
  <2>1. Typed(k) /\ Tiles(k, G) /\ e \in G /\ units \in Nat \ {0} /\ m \in Nat \ {0}
        /\ units + m + 2 = k.mem[e].units /\ c2 = e + units + 2
    BY <1>2, <1>3, <1>6
  <2>2. /\ Typed(h1) /\ Placed(h1, G) /\ h1.end = k.end /\ h1.lib = k.lib /\ Footer(h1, e) = e + units + 1
        /\ \A d \in G \ {e} : Footer(h1, d) = Footer(k, d)
        /\ Lists(h1, G, F) /\ h2 = SetUnits(h1, c2, m)
    BY <1>8, <1>12, <1>13 DEF Kept
  <2>3. CutTo(k, G, e, units, m, c2, h1, F) BY ONLY <2>1, <2>2 DEF CutTo
  <2>4. Carved(k, G, e, m, c2, h1, F, h2) BY ONLY <2>2, <2>3, CarveRest
  <2> QED BY ONLY <2>4 DEF Carved
<1>15. PICK I : I = G \cup {c2} OBVIOUS
<1>16. Typed(h2) /\ Tiles(h2, I) /\ Placed(h2, I) /\ Lists(h2, I, F) /\ c2 \in I \ F /\ e \in I
  BY <1>1, <1>4, <1>14, <1>15, <1>3 DEF Tiles
<1>17. /\ Relinked(h2, h3, I) /\ h3.bins = h2.bins /\ Marks(h3, I) = [Marks(h2, I) EXCEPT ![c2] = FREE]
       /\ Prevs(h3, I) = Prevs(h2, I) /\ Nexts(h3, I) = Nexts(h2, I)
  BY <1>9, <1>16, CellTypes, SetStatusEffect
<1>18. Typed(h3) /\ Placed(h3, I) /\ BinsOf(h3, I) = BinsOf(h2, I)
  BY <1>16, <1>17, RelinkedSame DEF Relinked
<1>19. Lists(h3, I, F) BY <1>16, <1>17, <1>18 DEF Lists
<1>20. Relinked(h3, h4, I) /\ Marks(h4, I) = Marks(h3, I) /\ Lists(h4, I, F \cup {c2})
  BY <1>10, <1>16, <1>18, <1>19, InsertKeeps
<1>21. Relinked(h2, h4, I) BY <1>16, <1>17, <1>20, RelinkedThrough
<1>22. Typed(h4) /\ Tiles(h4, I) /\ Spares(h2, h4, I) /\ h4.end = h2.end /\ h4.lib = h2.lib
       /\ \A d \in I : Footer(h4, d) = Footer(h2, d)
  BY <1>16, <1>21, RelinkedTiles, RelinkedSpares, RelinkedSame DEF Relinked
<1>23. \A d \in I : d # e => h4.mem[d].status = IF d \in F \cup {c2} THEN FREE ELSE IN_USE
  <2>1. \A d \in I : h4.mem[d].status = IF d = c2 THEN FREE ELSE h2.mem[d].status
    BY <1>17, <1>20 DEF Marks
  <2>2. \A d \in G : d # e => h2.mem[d].status = k.mem[d].status BY <1>12, <1>14 DEF Kept
  <2>3. \A d \in G : d # e => k.mem[d].status = IF d \in F THEN FREE ELSE IN_USE BY <1>1, <1>2, <1>4
  <2> QED BY <2>1, <2>2, <2>3, <1>15
<1>24. E = F \cup {c2} OBVIOUS
<1>25. Whole(g, I, E) /\ Spares(h4, g, I) /\ g.end = h4.end /\ g.lib = h4.lib
  <2>1. e \in I \ E BY <1>2, <1>4, <1>14, <1>16, <1>24, <1>3
  <2>2. Lists(h4, I, E) /\ \A d \in I : d # e => h4.mem[d].status = IF d \in E THEN FREE ELSE IN_USE
    BY <1>20, <1>23, <1>24
  <2> QED BY <2>1, <2>2, <1>11, <1>22, TakeWhole
<1>26. I = all BY <1>1, <1>15
<1>27. Spares(h, g, H)
  <2>1. H \subseteq G \ {e} /\ H \subseteq G /\ H \subseteq I BY <1>1, <1>2, <1>15
  <2>2. PICK K : K = G \ {e} OBVIOUS
  <2>3. Spares(k, h1, K) /\ H \subseteq K BY <2>1, <2>2, <1>12
  <2>4. Spares(k, h1, H) BY <2>3, SparesFewer
  <2>5. Spares(h1, h2, H) BY <2>1, <1>14, SparesFewer
  <2>6. Spares(h2, h4, H) BY <2>1, <1>22, SparesFewer
  <2>7. Spares(h4, g, H) BY <2>1, <1>25, SparesFewer
  <2>8. Spares(h, h1, H) BY <2>4, <1>2, SparesThrough
  <2>9. Spares(h, h2, H) BY <2>8, <2>5, SparesThrough
  <2>10. Spares(h, h4, H) BY <2>9, <2>6, SparesThrough
  <2> QED BY <2>10, <2>7, SparesThrough
<1>28. Footer(g, e) = Footer(h2, e) /\ Footer(g, c2) = Footer(h2, c2) /\ g.mem[e].units = units
  <2>1. Footer(g, e) = Footer(h4, e) /\ Footer(g, c2) = Footer(h4, c2) /\ g.mem[e].units = h4.mem[e].units
    BY <1>16, <1>25 DEF Spares
  <2>2. h4.mem[e].units = h2.mem[e].units BY <1>16, <1>22 DEF Spares
  <2>3. h2.mem[e].units = h1.mem[e].units BY <1>3, <1>14 DEF Kept
  <2> QED BY <2>1, <2>2, <2>3, <1>12, <1>16, <1>22
<1> QED BY <1>1, <1>2, <1>14, <1>22, <1>24, <1>25, <1>26, <1>27, <1>28

\* The memory of h with DATA in cells W.
WithData(h, W) == [h EXCEPT !.mem = [a \in Addr |-> IF a \in W THEN DATA ELSE h.mem[a]]]

\* The program writes into W: nothing else changes.
LEMMA DataEffect ==
  ASSUME NEW h, Typed(h), NEW W, NEW g, g = WithData(h, W)
  PROVE  /\ Typed(g) /\ g.end = h.end /\ g.lib = h.lib /\ g.bins = h.bins
         /\ \A a \in Addr : g.mem[a] = IF a \in W THEN DATA ELSE h.mem[a]
PROOF
<1>1. PICK m : m = [a \in Addr |-> IF a \in W THEN DATA ELSE h.mem[a]] OBVIOUS
<1>2. m \in [Addr -> Cells] BY <1>1, CellTypes DEF Typed
<1>3. g = [h EXCEPT !.mem = m] BY <1>1 DEF WithData, Typed
<1>4. g.mem = m /\ g.end = h.end /\ g.lib = h.lib /\ g.bins = h.bins
      /\ g \in [mem : [Addr -> Cells], end : 0 .. MaxHeap, lib : {1, 2}, bins : {h.bins}]
  BY <1>2, <1>3 DEF Typed
<1> QED BY <1>1, <1>2, <1>4 DEF Typed

\* The program, or free, changes cells that no header or footer is in.
LEMMA CellsWhole ==
  ASSUME NEW h, NEW H, NEW F, Whole(h, H, F), NEW g, Typed(g),
         g.end = h.end, g.lib = h.lib, g.bins = h.bins,
         NEW W, W \cap Bones(h, H) = {}, \A a \in Addr \ W : g.mem[a] = h.mem[a]
  PROVE  Whole(g, H, F) /\ Kept(h, g, H)
PROOF
<1>1. Typed(h) /\ Tiles(h, H) /\ Placed(h, H) /\ Lists(h, H, F) /\ Marked(h, H, F) /\ F \subseteq H
  BY DEF Whole, Tiles, Lists
<1>2. \A d \in H : d \in Addr /\ Footer(h, d) \in Addr /\ d \notin W /\ Footer(h, d) \notin W
  BY <1>1, Apart DEF Bones
<1>3. \A d \in H : g.mem[d] = h.mem[d] /\ g.mem[Footer(h, d)] = h.mem[Footer(h, d)] BY <1>2
<1>4. Placed(g, H) /\ \A d \in H : Footer(g, d) = Footer(h, d)
  <2>1. g.end >= h.end /\ g.end \in Int BY <1>1 DEF Typed
  <2> QED BY <2>1, <1>1, <1>3, PlacedSame
<1>5. Kept(h, g, H) BY <1>3, <1>4 DEF Kept
<1>6. Tiles(g, H) BY <1>1, <1>4 DEF Tiles
<1>7. Lists(g, H, F) BY <1>1, <1>5, KeptLists
<1>8. Marked(g, H, F) BY <1>1, <1>3 DEF Marked
<1> QED BY <1>5, <1>6, <1>7, <1>8 DEF Whole
-----------------------------------------------------------------------------
\* No chunk of F follows another.
Merged(h, F) == \A c \in F : Footer(h, c) + 1 \notin F

\* Every chunk in use is one the program was given, is large enough and has
\* the program's data.
Serves(h, K, lv) ==
  /\ lv \in [{c + 1 : c \in K} -> Sizes \ {0}]
  /\ \A c \in K : /\ SizeToUnits(lv[c + 1]) <= h.mem[c].units
                  /\ \A a \in Written(c + 1, lv[c + 1]) : h.mem[a] = DATA

\* What holds between two calls.
InOrder(h, lv, H, F) == Whole(h, H, F) /\ Merged(h, F) /\ Serves(h, H \ F, lv)

\* The units asked for are enough for the bytes asked for.
LEMMA UnitsAsked ==
  ASSUME NEW size \in Sizes \ {0}
  PROVE  SizeToUnits(size) \in Nat \ {0} /\ size \in Nat /\ size <= SizeToUnits(size) * UnitSize
PROOF
<1>1. size \in Nat \ {0} /\ UnitSize \in Nat \ {0} BY HeapMgrAssumption
<1>2. size + UnitSize - 1 \in Nat BY <1>1
<1>3. /\ SizeToUnits(size) \in Nat
      /\ UnitSize * SizeToUnits(size) <= size + UnitSize - 1
      /\ size + UnitSize - 1 < UnitSize * SizeToUnits(size) + UnitSize
  BY <1>1, <1>2 DEF SizeToUnits
<1>4. SizeToUnits(size) # 0
  <2>1. SizeToUnits(size) = 0 => UnitSize * SizeToUnits(size) = 0 BY <1>1
  <2> QED BY <2>1, <1>1, <1>3
<1>5. UnitSize * SizeToUnits(size) = SizeToUnits(size) * UnitSize BY <1>1, <1>3
<1>6. UnitSize * SizeToUnits(size) \in Nat BY <1>1, <1>3
<1>7. size <= UnitSize * SizeToUnits(size)
  <2>1. PICK x : x = UnitSize * SizeToUnits(size) OBVIOUS
  <2> QED BY <2>1, <1>1, <1>3, <1>6
<1> QED BY <1>1, <1>3, <1>4, <1>5, <1>7

\* The units that the program writes are inside the chunk.
LEMMA WrittenInside ==
  ASSUME NEW h, Typed(h), NEW H, Placed(h, H), NEW c \in H, NEW size \in Sizes \ {0},
         SizeToUnits(size) <= h.mem[c].units, NEW a \in Written(c + 1, size)
  PROVE  a \in Addr /\ a \in Int /\ c < a /\ a < Footer(h, c) /\ c \in Int
PROOF
<1>1. c \in Addr /\ c \in Nat /\ Footer(h, c) \in Addr /\ MaxHeap \in Nat
  <2>1. c \in Addr /\ Footer(h, c) \in Addr BY Apart
  <2> QED BY <2>1, ChunksAssumption DEF Addr
<1>2. SizeToUnits(size) \in Nat /\ h.mem[c].units \in Nat BY UnitsAsked DEF Placed
<1>3. a \in Int /\ c + 1 <= a /\ a <= c + 1 + SizeToUnits(size) - 1 BY <1>1, <1>2 DEF Written
<1>4. Footer(h, c) = c + h.mem[c].units + 1 BY DEF Footer
<1>5. c < a /\ a < Footer(h, c) BY <1>1, <1>2, <1>3, <1>4
<1>6. a \in Addr BY <1>1, <1>3, <1>5 DEF Addr
<1> QED BY <1>1, <1>3, <1>5, <1>6

\* What the program has in the chunks of K outlives what spares them.
LEMMA ServesOn ==
  ASSUME NEW h, Typed(h), NEW H, Placed(h, H), NEW K \in SUBSET H, NEW lv, Serves(h, K, lv),
         NEW g, Spares(h, g, K)
  PROVE  Serves(g, K, lv)
PROOF
<1>1. lv \in [{c + 1 : c \in K} -> Sizes \ {0}] BY DEF Serves
<1>2. ASSUME NEW c \in K
      PROVE  /\ SizeToUnits(lv[c + 1]) <= g.mem[c].units
             /\ \A a \in Written(c + 1, lv[c + 1]) : g.mem[a] = DATA
  <2>1. PICK size : size = lv[c + 1] OBVIOUS
  <2>2. size \in Sizes \ {0} BY <2>1, <1>1
  <2>3. SizeToUnits(size) <= h.mem[c].units /\ \A a \in Written(c + 1, size) : h.mem[a] = DATA
    BY <2>1 DEF Serves
  <2>4. g.mem[c].units = h.mem[c].units BY DEF Spares
  <2>5. ASSUME NEW a \in Written(c + 1, size) PROVE g.mem[a] = DATA
    <3>1. a \in Addr /\ c < a /\ a < Footer(h, c) BY <2>2, <2>3, WrittenInside
    <3>2. g.mem[a] = h.mem[a] BY <3>1 DEF Spares
    <3> QED BY <3>2, <2>3
  <2> QED BY <2>1, <2>3, <2>4, <2>5
<1> QED BY <1>1, <1>2 DEF Serves

\* The history after chunk c was returned.
LiveWith(lv, c, size) == [p \in DOMAIN lv \cup {c + 1} |-> IF p = c + 1 THEN size ELSE lv[p]]

\* One more chunk is in use, and nothing happened to the others that were.
Handed(h, lv, K, g, lv2, size) ==
  \E G \in SUBSET Addr, E \in SUBSET Addr, c \in Addr :
    /\ InOrder(g, lv2, G, E) /\ c \in G \ E /\ c \notin K /\ G \ E = K \cup {c}
    /\ lv2 = LiveWith(lv, c, size) /\ \A d \in K : g.mem[d].units = h.mem[d].units

\* Handing out a chunk that was in use by nobody leaves everything in order.
LEMMA ReturnInOrder ==
  ASSUME NEW h, Typed(h), NEW H, Placed(h, H), NEW K \in SUBSET H, NEW lv, Serves(h, K, lv),
         NEW g, NEW G, NEW E, Whole(g, G, E), Merged(g, E), Spares(h, g, K),
         NEW c \in G \ E, c \notin K, G \ E = K \cup {c},
         NEW size \in Sizes \ {0}, SizeToUnits(size) <= g.mem[c].units,
         NEW k, k = WithData(g, Written(c + 1, size)), NEW lv2, lv2 = LiveWith(lv, c, size)
  PROVE  Handed(h, lv, K, k, lv2, size) /\ k.end = g.end
PROOF
<1>1. Typed(g) /\ Placed(g, G) /\ G \subseteq Addr /\ E \subseteq G
  BY DEF Whole, Tiles, Lists, Placed
<1>2. PICK W : W = Written(c + 1, size) OBVIOUS
<1>3. /\ Typed(k) /\ k.end = g.end /\ k.lib = g.lib /\ k.bins = g.bins
      /\ \A a \in Addr : k.mem[a] = IF a \in W THEN DATA ELSE g.mem[a]
  <2>1. k = WithData(g, W) BY <1>2
  <2> QED BY ONLY <2>1, <1>1, DataEffect
<1>4. \A a \in W : a \in Addr /\ c < a /\ a < Footer(g, c)
  <2>1. c \in G OBVIOUS
  <2> QED BY <2>1, <1>1, <1>2, WrittenInside
<1>5. W \cap Bones(g, G) = {} BY <1>1, <1>4, Inside
<1>6. Whole(k, G, E) /\ Kept(g, k, G)
  <2>1. \A a \in Addr \ W : k.mem[a] = g.mem[a] BY <1>3
  <2> QED BY <2>1, <1>3, <1>5, CellsWhole
<1>7. Merged(k, E) BY <1>1, <1>6 DEF Merged, Kept
<1>8. Serves(g, K, lv) BY ServesOn
<1>9. \A d \in G : d \in Int BY <1>1 DEF Addr
<1>10. Serves(k, G \ E, lv2)
  <2>1. {d + 1 : d \in K} \cup {c + 1} = {d + 1 : d \in G \ E} OBVIOUS
  <2>2. lv \in [{d + 1 : d \in K} -> Sizes \ {0}] BY <1>8 DEF Serves
  <2>3. lv2 \in [{d + 1 : d \in G \ E} -> Sizes \ {0}] BY <2>1, <2>2 DEF LiveWith
  <2>4. ASSUME NEW d \in G \ E
        PROVE  /\ SizeToUnits(lv2[d + 1]) <= k.mem[d].units
               /\ \A a \in Written(d + 1, lv2[d + 1]) : k.mem[a] = DATA
    <3>0. k.mem[d].units = g.mem[d].units BY <1>6 DEF Kept
    <3>1. CASE d = c
      <4>1. lv2[d + 1] = size BY <3>1, <2>2 DEF LiveWith
      <4> QED BY <4>1, <3>0, <3>1, <1>2, <1>3, <1>4
    <3>2. CASE d # c
      <4>1. d \in K /\ d + 1 # c + 1 /\ d + 1 \in {x + 1 : x \in K} BY <3>2, <1>9
      <4>2. lv2[d + 1] = lv[d + 1] BY <4>1, <2>2 DEF LiveWith
      <4>3. PICK s : s = lv[d + 1] OBVIOUS
      <4>4. s \in Sizes \ {0} BY <4>1, <4>3, <2>2
      <4>5. SizeToUnits(s) <= g.mem[d].units /\ \A a \in Written(d + 1, s) : g.mem[a] = DATA
        BY <4>1, <4>3, <1>8 DEF Serves
      <4>6. d \in G OBVIOUS
      <4>7. \A a \in Written(d + 1, s) : a \in Addr BY <4>4, <4>5, <4>6, <1>1, WrittenInside
      <4> QED BY <4>2, <4>3, <4>5, <4>7, <3>0, <1>3
    <3> QED BY <3>1, <3>2
  <2> QED BY <2>3, <2>4 DEF Serves
<1>11. \A d \in K : k.mem[d].units = h.mem[d].units
  <2>1. \A d \in K : d \in G /\ g.mem[d].units = h.mem[d].units BY DEF Spares
  <2> QED BY <2>1, <1>6 DEF Kept
<1>12. InOrder(k, lv2, G, E) BY <1>6, <1>7, <1>10 DEF InOrder
<1>13. G \in SUBSET Addr /\ E \in SUBSET Addr /\ c \in Addr /\ c \in G \ E BY <1>1
<1>14. Handed(h, lv, K, k, lv2, size) BY <1>11, <1>12, <1>13 DEF Handed
<1> QED BY <1>3, <1>14
-----------------------------------------------------------------------------
\* What a call of malloc that finds a free chunk does.
LEMMA FindsInOrder ==
  ASSUME NEW h, NEW lv, NEW H, NEW F, InOrder(h, lv, H, F), h = heap, lv = live,
         NEW size \in Sizes \ {0}, MallocFinds(size)
  PROVE  Handed(h, lv, H \ F, heap', live', size) /\ heap'.end = h.end
PROOF
<1>1. Whole(h, H, F) /\ Merged(h, F) /\ Serves(h, H \ F, lv) BY DEF InOrder
<1>2. Typed(h) /\ Tiles(h, H) /\ Placed(h, H) /\ Lists(h, H, F) /\ F \subseteq H
  BY <1>1 DEF Whole, Tiles, Lists
<1>3. PICK units : units = SizeToUnits(size) OBVIOUS
<1>4. units \in Nat \ {0} BY <1>3, UnitsAsked
<1>5. PICK c : c = FindBestFit(h, units) OBVIOUS
<1>6. PICK c2 : c2 = c + h.mem[c].units - units OBVIOUS
<1>7. /\ c # NULL
      /\ \/ ~Splits(h, c, units) /\ Return(RemoveChunk(h, c), c, size)
         \/ /\ Splits(h, c, units) /\ h.lib = 1
            /\ Return(RemoveChunk(SplitChunk(h, c, units), c2), c2, size)
         \/ /\ Splits(h, c, units) /\ h.lib = 2
            /\ Return(SplitAndRelocate(h, c, units), c2, size)
  BY <1>3, <1>5, <1>6 DEF MallocFinds
<1>8. c \in F /\ h.mem[c].units >= units
  <2>1. units \in Int BY <1>4
  <2> QED BY <2>1, <1>2, <1>5, <1>7, BestFitFinds
<1>9. PICK K : K = H \ F OBVIOUS
<1>10. K \in SUBSET H /\ Serves(h, K, lv) BY <1>1, <1>9
\* It remains to look at the heap before it is returned.
<1>11. ASSUME NEW g, NEW G, NEW E, NEW d, Whole(g, G, E), Merged(g, E), Spares(h, g, K), g.end = h.end,
              d \in G \ E, d \notin K, G \ E = K \cup {d}, units <= g.mem[d].units, Return(g, d, size)
       PROVE  Handed(h, lv, K, heap', live', size) /\ heap'.end = h.end
  <2>1. heap' = WithData(g, Written(d + 1, size)) /\ live' = LiveWith(lv, d, size)
    BY <1>11 DEF Return, WithData, LiveWith
  <2>2. SizeToUnits(size) <= g.mem[d].units BY <1>3, <1>11
  <2>3. PICK k : k = heap' OBVIOUS
  <2>4. PICK lv2 : lv2 = live' OBVIOUS
  <2>5. k = WithData(g, Written(d + 1, size)) /\ lv2 = LiveWith(lv, d, size) BY <2>1, <2>3, <2>4
  <2>6. Handed(h, lv, K, k, lv2, size) /\ k.end = g.end
    <3>1. size \in Sizes \ {0} /\ Typed(h) /\ Placed(h, H) /\ K \in SUBSET H /\ Serves(h, K, lv)
      BY <1>2, <1>10
    <3>2. /\ Whole(g, G, E) /\ Merged(g, E) /\ Spares(h, g, K)
          /\ d \in G \ E /\ d \notin K /\ G \ E = K \cup {d}
      BY <1>11
    <3> QED BY <3>1, <3>2, <2>2, <2>5, ReturnInOrder
  <2> QED BY <2>3, <2>4, <2>6, <1>11
<1>12. CASE ~Splits(h, c, units) /\ Return(RemoveChunk(h, c), c, size)
  <2>1. PICK g : g = RemoveChunk(h, c) OBVIOUS
  <2>2. PICK E : E = F \ {c} OBVIOUS
  <2>3. Whole(g, H, E) /\ Spares(h, g, H) /\ g.end = h.end /\ g.lib = h.lib
    BY <2>1, <2>2, <1>1, <1>8, RemoveWhole
  <2>4. Merged(g, E)
    <3>1. \A d \in E : d \in F /\ Footer(g, d) = Footer(h, d) BY <2>2, <2>3, <1>2 DEF Spares
    <3> QED BY <3>1, <2>2, <1>1 DEF Merged
  <2>5. Spares(h, g, K) BY <2>3, <1>10, SparesFewer
  <2>6. c \in H \ E /\ c \notin K /\ H \ E = K \cup {c} BY <2>2, <1>2, <1>8, <1>9
  <2>7. g.mem[c].units = h.mem[c].units BY <2>3, <1>2, <1>8 DEF Spares
  <2>8. h.mem[c].units \in Nat BY <1>2, <1>8 DEF Placed
  <2>9. units <= g.mem[c].units BY <2>7, <2>8, <1>4, <1>8
  <2>10. Return(g, c, size) BY <2>1, <1>12
  <2> QED BY <2>3, <2>4, <2>5, <2>6, <2>9, <2>10, <1>9, <1>11
\* Both ways of splitting leave c free and take c2.
<1>13. ASSUME NEW g, Whole(g, H \cup {c2}, F), Divided(h, g, H, c, c2), g.mem[c2].units = units,
              Return(g, c2, size)
       PROVE  Handed(h, lv, K, heap', live', size) /\ heap'.end = h.end
  <2>1. PICK G : G = H \cup {c2} OBVIOUS
  <2>2. /\ c2 \notin H /\ g.end = h.end /\ Footer(g, c) + 1 = c2
        /\ Footer(g, c2) = Footer(h, c) /\ Spares(h, g, H \ {c})
    BY <1>13 DEF Divided
  <2>3. Merged(g, F)
    <3>1. ASSUME NEW d \in F PROVE Footer(g, d) + 1 \notin F
      <4>1. CASE d = c BY <4>1, <2>2, <1>2
      <4>2. CASE d # c
        <5>1. Footer(g, d) = Footer(h, d) BY <4>2, <2>2, <1>2 DEF Spares
        <5> QED BY <5>1, <1>1 DEF Merged
      <4> QED BY <4>1, <4>2
    <3> QED BY <3>1 DEF Merged
  <2>4. Spares(h, g, K)
    <3>1. PICK L : L = H \ {c} OBVIOUS
    <3>2. Spares(h, g, L) /\ K \in SUBSET L BY <3>1, <2>2, <1>8, <1>9
    <3> QED BY <3>2, SparesFewer
  <2>5. c2 \in G \ F /\ c2 \notin K /\ G \ F = K \cup {c2} BY <2>1, <2>2, <1>2, <1>9
  <2>6. Whole(g, G, F) /\ units <= g.mem[c2].units BY <2>1, <1>4, <1>13
  <2> QED BY <2>2, <2>3, <2>4, <2>5, <2>6, <1>11, <1>13
<1>14. CASE Splits(h, c, units) /\ h.lib = 1 /\ Return(RemoveChunk(SplitChunk(h, c, units), c2), c2, size)
  <2>1. PICK k : k = SplitChunk(h, c, units) OBVIOUS
  <2>2. PICK g : g = RemoveChunk(k, c2) OBVIOUS
  <2>3. PICK G : G = H \cup {c2} OBVIOUS
  <2>4. PICK E : E = F \cup {c2} OBVIOUS
  <2>5. Splits(h, c, units) /\ h.lib = 1 BY <1>14
  <2>6. Whole(k, G, E) /\ Divided(h, k, H, c, c2) /\ k.mem[c2].units = units
    BY <2>1, <2>3, <2>4, <2>5, <1>1, <1>4, <1>6, <1>8, SplitWhole
  <2>7. c2 \in E BY <2>4
  <2>8. Whole(g, G, E \ {c2}) /\ Spares(k, g, G) /\ g.end = k.end /\ g.lib = k.lib
    BY ONLY <2>2, <2>6, <2>7, RemoveWhole
  <2>9. /\ c2 \notin H /\ c2 \in Addr /\ k.end = h.end /\ k.lib = h.lib /\ Footer(k, c) + 1 = c2
        /\ Footer(k, c2) = Footer(h, c) /\ Spares(h, k, H \ {c})
    BY <2>6 DEF Divided
  <2>10. E \ {c2} = F BY <2>4, <2>9, <1>2
  <2>11. c \in G /\ c2 \in G /\ H \ {c} \subseteq G BY <2>3, <1>2, <1>8
  <2>12. Footer(g, c) = Footer(k, c) /\ Footer(g, c2) = Footer(k, c2) /\ g.mem[c2].units = units
    BY <2>6, <2>8, <2>11 DEF Spares
  <2>13. Spares(h, g, H \ {c})
    <3>1. PICK L : L = H \ {c} OBVIOUS
    <3>2. Spares(h, k, L) /\ Spares(k, g, L) BY <3>1, <2>8, <2>9, <2>11, SparesFewer
    <3> QED BY <3>1, <3>2, SparesThrough
  <2>14. Divided(h, g, H, c, c2) BY <2>8, <2>9, <2>12, <2>13 DEF Divided
  <2>15. Whole(g, H \cup {c2}, F) BY <2>3, <2>8, <2>10
  <2>16. Return(g, c2, size) BY <2>1, <2>2, <1>14
  <2> QED BY <2>12, <2>14, <2>15, <2>16, <1>9, <1>13
<1>15. CASE Splits(h, c, units) /\ h.lib = 2 /\ Return(SplitAndRelocate(h, c, units), c2, size)
  <2>1. PICK g : g = SplitAndRelocate(h, c, units) OBVIOUS
  <2>2. Splits(h, c, units) BY <1>15
  <2>3. Whole(g, H \cup {c2}, F) /\ Divided(h, g, H, c, c2) /\ g.mem[c2].units = units
    BY ONLY <2>1, <2>2, <1>1, <1>4, <1>6, <1>8, RelocateWhole
  <2>4. Return(g, c2, size) BY <2>1, <1>15
  <2> QED BY <2>3, <2>4, <1>9, <1>13
<1> QED BY <1>7, <1>12, <1>14, <1>15
-----------------------------------------------------------------------------
\* What a call of malloc that asks for more memory does.
LEMMA GrowsInOrder ==
  ASSUME NEW h, NEW lv, NEW H, NEW F, InOrder(h, lv, H, F), h = heap, lv = live,
         NEW size \in Sizes \ {0}, MallocGrows(size)
  PROVE  Handed(h, lv, H \ F, heap', live', size)
PROOF
<1>1. Whole(h, H, F) /\ Merged(h, F) /\ Serves(h, H \ F, lv) BY DEF InOrder
<1>2. Typed(h) /\ Tiles(h, H) /\ Placed(h, H) /\ Lists(h, H, F) /\ F \subseteq H
  BY <1>1 DEF Whole, Tiles, Lists
<1>3. PICK units : units = SizeToUnits(size) OBVIOUS
<1>4. units \in Nat \ {0} BY <1>3, UnitsAsked
<1>5. PICK n : n = GrowBy(units) OBVIOUS
<1>6. n \in Nat \ {0} /\ units <= n BY <1>4, <1>5, ChunksAssumption DEF GrowBy
<1>7. PICK e : e = h.end OBVIOUS
<1>8. PICK k : k = Grown(h, units) OBVIOUS
<1>9. PICK split : split = IF Splits(k, e, units) THEN SplitFresh(k, e, units) ELSE k OBVIOUS
<1>10. PICK g : g = SetStatus(split, e, IN_USE) OBVIOUS
<1>11. e + n + 2 <= MaxHeap /\ Return(g, e, size)
  BY <1>3, <1>5, <1>7, <1>8, <1>9, <1>10 DEF MallocGrows
<1>12. PICK K : K = H \ F OBVIOUS
<1>13. K \in SUBSET H /\ Serves(h, K, lv) BY <1>1, <1>12
<1>14. ASSUME NEW G, NEW E, Whole(g, G, E), Merged(g, E), Spares(h, g, H),
              e \in G \ E, e \notin K, G \ E = K \cup {e}, units <= g.mem[e].units
       PROVE  Handed(h, lv, K, heap', live', size)
  <2>1. heap' = WithData(g, Written(e + 1, size)) /\ live' = LiveWith(lv, e, size)
    BY <1>11 DEF Return, WithData, LiveWith
  <2>2. SizeToUnits(size) <= g.mem[e].units BY <1>3, <1>14
  <2>3. PICK k2 : k2 = heap' OBVIOUS
  <2>4. PICK lv2 : lv2 = live' OBVIOUS
  <2>5. k2 = WithData(g, Written(e + 1, size)) /\ lv2 = LiveWith(lv, e, size) BY <2>1, <2>3, <2>4
  <2>6. Spares(h, g, K) BY <1>13, <1>14, SparesFewer
  <2>7. Handed(h, lv, K, k2, lv2, size) /\ k2.end = g.end
    <3>1. size \in Sizes \ {0} /\ Typed(h) /\ Placed(h, H) /\ K \in SUBSET H /\ Serves(h, K, lv)
      BY <1>2, <1>13
    <3>2. /\ Whole(g, G, E) /\ Merged(g, E) /\ Spares(h, g, K)
          /\ e \in G \ E /\ e \notin K /\ G \ E = K \cup {e}
      BY <2>6, <1>14
    <3> QED BY ONLY <3>1, <3>2, <2>2, <2>5, ReturnInOrder
  <2> QED BY <2>3, <2>4, <2>7
<1>15. e \in Int /\ \A d \in H : d \in Int /\ d < e /\ Footer(h, d) + 1 <= e
  <2>1. e \in Int BY <1>2, <1>7 DEF Typed
  <2>2. ASSUME NEW d \in H PROVE d \in Int /\ d < e /\ Footer(h, d) + 1 <= e
    <3>1. d \in Addr /\ d < Footer(h, d) /\ Footer(h, d) \in Int BY <1>2, Apart
    <3>2. Footer(h, d) < e BY <1>2, <1>7 DEF Placed
    <3> QED BY <3>1, <3>2, <2>1 DEF Addr
  <2> QED BY <2>1, <2>2
<1>16. CASE ~Splits(k, e, units)
  <2>1. g = SetStatus(Grown(h, units), e, IN_USE) BY <1>8, <1>9, <1>10, <1>16
  <2>2. PICK G : G = H \cup {e} OBVIOUS
  <2>3. /\ Whole(g, G, F) /\ Spares(h, g, H) /\ e \notin H /\ e \in Addr /\ g.mem[e].units = n
    BY <2>1, <2>2, <1>1, <1>5, <1>6, <1>7, <1>11, GrowWhole
  <2>4. Merged(g, F)
    <3>1. \A d \in F : Footer(g, d) = Footer(h, d) BY <2>3, <1>2 DEF Spares
    <3> QED BY <3>1, <1>1 DEF Merged
  <2>5. e \in G \ F /\ e \notin K /\ G \ F = K \cup {e} /\ units <= g.mem[e].units
    BY <2>2, <2>3, <1>2, <1>6, <1>12
  <2> QED BY <2>3, <2>4, <2>5, <1>12, <1>14
<1>17. CASE Splits(k, e, units)
  <2>1. g = SetStatus(SplitFresh(k, e, units), e, IN_USE) BY <1>9, <1>10, <1>17
  <2>2. PICK c2 : c2 = e + units + 2 OBVIOUS
  <2>4. PICK G : G = H \cup {e, c2} OBVIOUS
  <2>5. PICK E : E = F \cup {c2} OBVIOUS
  <2>3. /\ Whole(g, G, E) /\ Spares(h, g, H) /\ e \notin H /\ e \in Addr
        /\ c2 \notin H \cup {e} /\ g.mem[e].units = units
        /\ Footer(g, e) + 1 = c2 /\ Footer(g, c2) + 1 = g.end
    <3>1. Whole(h, H, F) /\ e + n + 2 <= MaxHeap BY <1>1, <1>11
    <3> QED BY <3>1, <2>1, <2>2, <2>4, <2>5, <1>4, <1>5, <1>6, <1>7, <1>8, <1>17, GrowSplitWhole
  <2>6. Whole(g, G, E) BY <2>3, <2>4, <2>5
  <2>7. Typed(g) /\ Placed(g, G) BY <2>6 DEF Whole, Tiles
  <2>8. Merged(g, E)
    <3>1. ASSUME NEW d \in E PROVE Footer(g, d) + 1 \notin E
      <4>1. CASE d = c2
        <5>1. ASSUME NEW x \in G PROVE x # g.end
          <6>1. x \in Addr /\ x < Footer(g, x) /\ Footer(g, x) \in Int BY <2>7, Apart
          <6>2. Footer(g, x) < g.end /\ g.end \in Int BY <2>7 DEF Placed, Typed
          <6> QED BY <6>1, <6>2 DEF Addr
        <5>2. E \subseteq G BY <2>4, <2>5, <1>2
        <5> QED BY <5>1, <5>2, <4>1, <2>3
      <4>2. CASE d \in F
        <5>1. Footer(g, d) = Footer(h, d) /\ Footer(h, d) + 1 \notin F
          BY <4>2, <2>3, <1>1, <1>2 DEF Spares, Merged
        <5>2. Footer(h, d) + 1 <= e BY <4>2, <1>2, <1>15
        <5>3. Footer(h, d) \in Int BY <4>2, <1>2, Apart
        <5>4. Footer(h, d) + 1 # c2 BY <5>2, <5>3, <2>2, <1>4, <1>15
        <5> QED BY <5>1, <5>4, <2>5
      <4> QED BY <4>1, <4>2, <2>5
    <3> QED BY <3>1 DEF Merged
  <2>9. e \in G \ E /\ e \notin K /\ G \ E = K \cup {e} /\ units <= g.mem[e].units
    BY <2>3, <2>4, <2>5, <1>2, <1>4, <1>12
  <2> QED BY <2>3, <2>6, <2>8, <2>9, <1>12, <1>14
<1> QED BY <1>16, <1>17

\* Chunk c and the one after it, c2, are merged if m.
WithNext(h, c, m, c2) == IF m THEN MergeChunk(RemoveChunk(h, c2), c, c2) ELSE h
WithPrev(h, c, m, c1) == IF m THEN MergeChunk(RemoveChunk(h, c1), c1, c) ELSE h
Gone(m, c) == IF m THEN {c} ELSE {}
FrontOf(m, c1, c) == IF m THEN c1 ELSE c

\* Merging with the chunk after, when it is free.
LEMMA AfterNext ==
  ASSUME NEW h, NEW H, NEW F, Whole(h, H, F), NEW c \in H \ F, NEW m \in BOOLEAN, NEW next,
         m => next \in F /\ Footer(h, c) + 1 = next,
         NEW g, g = WithNext(h, c, m, next), NEW N, N = Gone(m, next)
  PROVE  /\ Whole(g, H \ N, F \ N) /\ Spares(h, g, (H \ N) \ {c}) /\ g.end = h.end /\ g.lib = h.lib
         /\ Footer(g, c) = IF m THEN Footer(h, next) ELSE Footer(h, c)
PROOF
<1>1. CASE m
  <2>1. next \in F /\ Footer(h, c) + 1 = next /\ N = {next} BY <1>1 DEF Gone
  <2>2. PICK E : E = F \ {next} OBVIOUS
  <2>3. PICK G : G = H \ {next} OBVIOUS
  <2>4. PICK k : k = RemoveChunk(h, next) OBVIOUS
  <2>5. g = MergeChunk(k, c, next) BY <2>4, <1>1 DEF WithNext
  <2>6. Whole(k, H, E) /\ Spares(h, k, H) /\ k.end = h.end /\ k.lib = h.lib
    <3>1. Whole(k, H, F \ {next}) /\ Spares(h, k, H) /\ k.end = h.end /\ k.lib = h.lib
      BY <2>1, <2>4, RemoveWhole
    <3> QED BY <3>1, <2>2
  <2>7. F \subseteq H BY DEF Whole, Lists
  <2>8. Footer(k, c) = Footer(h, c) /\ Footer(k, next) = Footer(h, next)
    BY <2>1, <2>6, <2>7 DEF Spares
  <2>9. c \in H \ E /\ next \in H \ E /\ Footer(k, c) + 1 = next BY <2>1, <2>2, <2>7, <2>8
  <2>10. /\ Whole(g, H \ {next}, E) /\ Spares(k, g, H \ {c, next})
         /\ g.end = k.end /\ g.lib = k.lib /\ Footer(g, c) = Footer(k, next)
    BY ONLY <2>5, <2>6, <2>9, MergeWhole
  <2>11. PICK K : K = H \ {c, next} OBVIOUS
  <2>12. K = (H \ N) \ {c} /\ K \in SUBSET H /\ Spares(k, g, K) BY <2>1, <2>10, <2>11
  <2>13. Spares(h, g, K)
    <3>1. Spares(h, k, K) BY <2>6, <2>12, SparesFewer
    <3> QED BY <3>1, <2>12, SparesThrough
  <2> QED BY <2>1, <2>2, <2>6, <2>8, <2>10, <2>12, <2>13, <1>1
<1>2. CASE ~m
  <2>1. g = h /\ N = {} BY <1>2 DEF WithNext, Gone
  <2>2. Spares(h, h, (H \ N) \ {c}) BY DEF Spares
  <2>3. H \ N = H /\ F \ N = F BY <2>1
  <2> QED BY <2>1, <2>2, <2>3, <1>2
<1> QED BY <1>1, <1>2

\* Chunk c is part of all, the other chunks of K are spared.
Joined(h, g, G, E, K, c, all) ==
  /\ Whole(g, G, E) /\ Spares(h, g, K) /\ g.end = h.end
  /\ Footer(g, all) = Footer(h, c) /\ all \in G \ E

\* Merging with the chunk before.
LEMMA AfterPrev ==
  ASSUME NEW h, NEW H, NEW F, Whole(h, H, F), NEW c \in H \ F, NEW m \in BOOLEAN, NEW prev,
         m => prev \in F /\ Footer(h, prev) + 1 = c,
         NEW g, g = WithPrev(h, c, m, prev),
         NEW all, all = FrontOf(m, prev, c),
         NEW N, N = Gone(m, c), NEW G, G = H \ N, NEW E, E = F \ {all}, NEW K, K = H \ {all, c}
  PROVE  Joined(h, g, G, E, K, c, all)
PROOF
<1>0. F \subseteq H BY DEF Whole, Lists
<1>1. CASE m
  <2>1. prev \in F /\ Footer(h, prev) + 1 = c /\ N = {c} /\ all = prev /\ prev # c
    BY <1>1 DEF Gone, FrontOf
  <2>2. E = F \ {prev} BY <2>1
  <2>3. PICK k : k = RemoveChunk(h, prev) OBVIOUS
  <2>4. g = MergeChunk(k, prev, c) BY <2>3, <1>1 DEF WithPrev
  <2>5. Whole(k, H, E) /\ Spares(h, k, H) /\ k.end = h.end /\ k.lib = h.lib
    <3>1. Whole(k, H, F \ {prev}) /\ Spares(h, k, H) /\ k.end = h.end /\ k.lib = h.lib
      BY <2>1, <2>3, RemoveWhole
    <3> QED BY <3>1, <2>2
  <2>6. Footer(k, c) = Footer(h, c) /\ Footer(k, prev) = Footer(h, prev)
    BY <2>1, <2>5, <1>0 DEF Spares
  <2>7. c \in H \ E /\ prev \in H \ E /\ Footer(k, prev) + 1 = c BY <2>1, <2>2, <2>6, <1>0
  <2>8. /\ Whole(g, H \ {c}, E) /\ Spares(k, g, H \ {prev, c})
        /\ g.end = k.end /\ g.lib = k.lib /\ Footer(g, prev) = Footer(k, c)
    BY ONLY <2>4, <2>5, <2>7, MergeWhole
  <2>9. K = H \ {prev, c} BY <2>1
  <2>10. K = H \ {all, c} /\ K \in SUBSET H /\ Spares(k, g, K) BY <2>1, <2>8, <2>9
  <2>11. Spares(h, g, K)
    <3>1. Spares(h, k, K) BY <2>5, <2>10, SparesFewer
    <3> QED BY <3>1, <2>10, SparesThrough
  <2> QED BY <2>1, <2>2, <2>5, <2>6, <2>7, <2>8, <2>10, <2>11 DEF Joined
<1>2. CASE ~m
  <2>1. g = h /\ N = {} /\ all = c BY <1>2 DEF WithPrev, Gone, FrontOf
  <2>2. Spares(h, h, K) BY DEF Spares
  <2>3. G = H /\ E = F BY <2>1
  <2> QED BY <2>1, <2>2, <2>3 DEF Joined
<1> QED BY <1>1, <1>2
-----------------------------------------------------------------------------
\* One chunk less is in use, and nothing happened to the others that were.
Freed(h, lv, K, g, lv2, p) ==
  \E G \in SUBSET Addr, E \in SUBSET Addr :
    /\ InOrder(g, lv2, G, E) /\ p - 1 \in K /\ p \in Int /\ G \ E = K \ {p - 1}
    /\ lv2 = Restrict(lv, DOMAIN lv \ {p}) /\ \A d \in K \ {p - 1} : g.mem[d].units = h.mem[d].units

\* heapmgr_free leaves everything in order, whichever neighbours it merges with.
LEMMA FreeInOrder ==
  ASSUME NEW h, NEW lv, NEW H, NEW F, InOrder(h, lv, H, F), h = heap, lv = live,
         NEW p \in DOMAIN lv, Free(p)
  PROVE  Freed(h, lv, H \ F, heap', live', p) /\ heap'.end = h.end
PROOF
<1>1. Whole(h, H, F) /\ Merged(h, F) /\ Serves(h, H \ F, lv) BY DEF InOrder
<1>2. Typed(h) /\ Tiles(h, H) /\ Placed(h, H) /\ Marked(h, H, F) /\ F \subseteq H
  BY <1>1 DEF Whole, Tiles, Lists
<1>3. PICK K : K = H \ F OBVIOUS
<1>4. lv \in [{d + 1 : d \in K} -> Sizes \ {0}] BY <1>1, <1>3 DEF Serves
<1>5. PICK c \in K : p = c + 1 BY <1>4
<1>6. \A d \in H : d \in Addr /\ d \in Nat /\ d < Footer(h, d) /\ Footer(h, d) \in Int
  <2>1. \A d \in H : d \in Addr /\ d < Footer(h, d) /\ Footer(h, d) \in Int BY <1>2, Apart
  <2> QED BY <2>1 DEF Addr
<1>7. c \in H \ F /\ c \in Nat /\ p \in Int /\ p - 1 = c BY <1>3, <1>5, <1>6
<1>8. PICK size : size = lv[p] OBVIOUS
<1>9. PICK W : W = Written(p, size) OBVIOUS
<1>10. PICK h0 : h0 = Forget(h, W) OBVIOUS
<1>11. PICK next : next = NextAdjacent(h, c) OBVIOUS
<1>12. PICK prev : prev = PrevAdjacent(h, c) OBVIOUS
<1>13. PICK mn \in BOOLEAN : mn = MergeNext(h, c) BY DEF MergeNext, IsFree
<1>14. PICK mp \in BOOLEAN : mp = MergePrev(h, c) BY DEF MergePrev, IsFree
<1>15. PICK h1 : h1 = WithNext(h0, c, mn, next) OBVIOUS
<1>16. PICK h2 : h2 = WithPrev(h1, c, mp, prev) OBVIOUS
<1>17. PICK all : all = FrontOf(mp, prev, c) OBVIOUS
<1>18. PICK g : g = InsertChunk(SetStatus(h2, all, FREE), all) OBVIOUS
<1>19. PICK lv2 : lv2 = Restrict(lv, DOMAIN lv \ {p}) OBVIOUS
<1>20. heap' = g /\ live' = lv2
  BY <1>7, <1>8, <1>9, <1>10, <1>11, <1>12, <1>13, <1>14, <1>15, <1>16,
     <1>17, <1>18, <1>19
  DEF Free, WithNext, WithPrev, FrontOf
\* The neighbours that are merged are the free ones.
<1>21. /\ mn => next \in F /\ Footer(h, c) + 1 = next
       /\ ~mn => Footer(h, c) + 1 \notin F
  <2>1. \/ next = NULL /\ Footer(h, c) + 1 = h.end
        \/ next \in H /\ next = Footer(h, c) + 1
    BY <1>2, <1>7, <1>11, Neighbours
  <2>2. mn <=> next # NULL /\ h.mem[next].status = FREE BY <1>11, <1>13 DEF MergeNext, IsFree
  <2>3. \A d \in H : d # NULL BY <1>6 DEF NULL
  <2>4. \A d \in H : d \in F <=> h.mem[d].status = FREE BY <1>2, CellTypes DEF Marked
  <2>5. \A d \in H : d # h.end
    <3>1. \A d \in H : Footer(h, d) < h.end /\ h.end \in Int BY <1>2 DEF Placed, Typed
    <3> QED BY <3>1, <1>6
  <2> QED BY <2>1, <2>2, <2>3, <2>4, <2>5, <1>2
<1>22. /\ mp => prev \in F /\ Footer(h, prev) + 1 = c
       /\ ~mp => \A d \in F : Footer(h, d) + 1 # c
  <2>1. \/ prev = NULL /\ c = 0
        \/ prev \in H /\ Footer(h, prev) + 1 = c
    BY <1>2, <1>7, <1>12, Neighbours
  <2>2. mp <=> prev # NULL /\ h.mem[prev].status = FREE BY <1>12, <1>14 DEF MergePrev, IsFree
  <2>3. \A d \in H : d # NULL BY <1>6 DEF NULL
  <2>4. \A d \in H : d \in F <=> h.mem[d].status = FREE BY <1>2, CellTypes DEF Marked
  <2>5. ASSUME ~mp, NEW d \in F, Footer(h, d) + 1 = c PROVE FALSE
    <3>1. c # 0 BY <2>5, <1>2, <1>6
    <3>2. prev \in H /\ Footer(h, prev) + 1 = c BY <3>1, <2>1
    <3>3. Footer(h, prev) = Footer(h, d) BY <3>2, <2>5, <1>2, <1>6
    <3>4. prev = d BY <3>2, <3>3, <1>2, Apart
    <3> QED BY <3>2, <3>4, <2>2, <2>3, <2>4, <2>5
  <2> QED BY <2>1, <2>2, <2>3, <2>4, <2>5
\* What the program wrote is forgotten: nothing else changes.
<1>23. size \in Sizes \ {0} /\ SizeToUnits(size) <= h.mem[c].units
  <2>1. size = lv[c + 1] BY <1>5, <1>8
  <2> QED BY <2>1, <1>1, <1>3, <1>4, <1>5 DEF Serves
<1>24. \A a \in W : a \in Addr /\ a \in Int /\ c < a /\ a < Footer(h, c)
  <2>1. W = Written(c + 1, size) /\ c \in H BY <1>5, <1>7, <1>9
  <2> QED BY <2>1, <1>2, <1>23, WrittenInside
<1>25. Whole(h0, H, F) /\ Kept(h, h0, H) /\ h0.end = h.end
  <2>1. /\ Typed(h0) /\ h0.end = h.end /\ h0.lib = h.lib /\ h0.bins = h.bins
        /\ \A a \in Addr \ W : h0.mem[a] = h.mem[a]
    BY <1>2, <1>10, ForgetEffect
  <2>2. W \cap Bones(h, H) = {}
    <3>1. c \in H BY <1>7
    <3> QED BY <3>1, <1>2, <1>24, Inside
  <2> QED BY <2>1, <2>2, <1>1, CellsWhole
<1>26. Spares(h, h0, H \ {c})
  <2>1. ASSUME NEW d \in H \ {c}, NEW a \in Addr, d < a, a < Footer(h, d) PROVE h0.mem[a] = h.mem[a]
    <3>1. a \notin W
      <4>1. d < c => Footer(h, d) < c BY <1>2, <1>7 DEF Placed
      <4>2. c < d => Footer(h, c) < d BY <1>2, <1>7 DEF Placed
      <4>3. d \in Nat /\ Footer(h, d) \in Int /\ Footer(h, c) \in Int /\ d # c /\ c \in Nat
        BY <1>6, <1>7
      <4>4. a \in Int BY DEF Addr
      <4> QED BY <4>1, <4>2, <4>3, <4>4, <2>1, <1>24
    <3> QED BY <3>1, <1>2, <1>10, ForgetEffect
  <2>2. \A d \in H \ {c} : Footer(h0, d) = Footer(h, d) /\ h0.mem[d].units = h.mem[d].units
    BY <1>25 DEF Kept
  <2> QED BY <2>1, <2>2 DEF Spares
<1>27. \A d \in H : Footer(h0, d) = Footer(h, d) BY <1>25 DEF Kept
<1>28. PICK N : N = Gone(mn, next) OBVIOUS
<1>29. PICK H1 : H1 = H \ N OBVIOUS
<1>30. PICK F1 : F1 = F \ N OBVIOUS
<1>31. N \subseteq F /\ F1 \subseteq H1 /\ c \in H1 \ F1 /\ H1 \subseteq H
  BY <1>2, <1>7, <1>21, <1>28, <1>29, <1>30 DEF Gone
<1>32. /\ Whole(h1, H1, F1) /\ Spares(h0, h1, H1 \ {c}) /\ h1.end = h0.end
       /\ Footer(h1, c) = IF mn THEN Footer(h0, next) ELSE Footer(h0, c)
  <2>1. mn => next \in F /\ Footer(h0, c) + 1 = next BY <1>7, <1>21, <1>27
  <2>2. /\ Whole(h1, H \ N, F \ N) /\ Spares(h0, h1, (H \ N) \ {c}) /\ h1.end = h0.end
        /\ Footer(h1, c) = IF mn THEN Footer(h0, next) ELSE Footer(h0, c)
    BY <2>1, <1>7, <1>15, <1>25, <1>28, AfterNext
  <2> QED BY <2>2, <1>29, <1>30
<1>33. \A d \in H1 \ {c} : Footer(h1, d) = Footer(h, d) BY <1>27, <1>31, <1>32 DEF Spares
<1>34. PICK M : M = Gone(mp, c) OBVIOUS
<1>35. PICK G : G = H1 \ M OBVIOUS
<1>36. PICK E : E = F1 \ {all} OBVIOUS
<1>37. mp => prev \in F1 /\ Footer(h1, prev) + 1 = c /\ prev < c
  <2>1. SUFFICES ASSUME mp PROVE prev \in F1 /\ Footer(h1, prev) + 1 = c /\ prev < c OBVIOUS
  <2>2. prev \in F /\ Footer(h, prev) + 1 = c /\ prev < c BY <2>1, <1>2, <1>6, <1>22
  <2>3. prev \notin N
    <3>1. mn => next > c BY <1>6, <1>7, <1>21
    <3>2. mn => prev # next BY <3>1, <2>2, <1>2, <1>6, <1>7, <1>21
    <3> QED BY <3>2, <1>28 DEF Gone
  <2>4. prev \in F1 /\ prev \in H1 \ {c} BY <2>2, <2>3, <1>2, <1>7, <1>29, <1>30
  <2> QED BY <2>2, <2>4, <1>33
<1>38. /\ Whole(h2, G, E) /\ Spares(h1, h2, H1 \ {all, c}) /\ h2.end = h1.end
       /\ Footer(h2, all) = Footer(h1, c) /\ all \in G \ E
  <2>1. mp => prev \in F1 /\ Footer(h1, prev) + 1 = c BY <1>37
  <2>2. PICK C : C = H1 \ {all, c} OBVIOUS
  <2>3. /\ Whole(h2, G, E) /\ Spares(h1, h2, C) /\ h2.end = h1.end
        /\ Footer(h2, all) = Footer(h1, c) /\ all \in G \ E
    <3>1. Whole(h1, H1, F1) /\ c \in H1 \ F1 /\ mp \in BOOLEAN BY <1>31, <1>32
    <3>2. Joined(h1, h2, G, E, C, c, all)
      BY ONLY <2>1, <2>2, <3>1, <1>16, <1>17, <1>34, <1>35, <1>36, AfterPrev
    <3> QED BY <3>2 DEF Joined
  <2> QED BY <2>2, <2>3
<1>39. PICK E2 : E2 = E \cup {all} OBVIOUS
<1>40. Whole(g, G, E2) /\ Spares(h2, g, G) /\ g.end = h2.end
  <2>1. Whole(g, G, E \cup {all}) /\ Spares(h2, g, G) /\ g.end = h2.end
    BY ONLY <1>18, <1>38, ReleaseWhole
  <2> QED BY <2>1, <1>39
\* Those that neither is nor was part of the chunk.
<1>41. PICK R : R = G \ {all} OBVIOUS
<1>42. R \subseteq H \ {c} /\ R \subseteq H1 \ {all, c} /\ R \subseteq H1 \ {c} /\ R \subseteq G
  <2>1. mp \/ all = c BY <1>17 DEF FrontOf
  <2> QED BY <2>1, <1>31, <1>34, <1>35, <1>41 DEF Gone
<1>43. Spares(h, g, R)
  <2>1. PICK A : A = H \ {c} OBVIOUS
  <2>2. PICK B : B = H1 \ {c} OBVIOUS
  <2>3. PICK C : C = H1 \ {all, c} OBVIOUS
  <2>4. Spares(h, h0, R) BY <2>1, <1>26, <1>42, SparesFewer
  <2>5. Spares(h0, h1, R) BY <2>2, <1>32, <1>42, SparesFewer
  <2>6. Spares(h1, h2, R) BY <2>3, <1>38, <1>42, SparesFewer
  <2>7. Spares(h2, g, R) BY <1>40, <1>42, SparesFewer
  <2>8. Spares(h, h1, R) BY <2>4, <2>5, SparesThrough
  <2>9. Spares(h, h2, R) BY <2>8, <2>6, SparesThrough
  <2> QED BY <2>9, <2>7, SparesThrough
<1>44. E \subseteq R /\ E \subseteq F /\ G \ E2 = K \ {c} /\ K \ {c} \subseteq R
  <2>1. E \subseteq F /\ E \subseteq F1 BY <1>30, <1>36
  <2>2. E \subseteq G BY <2>1, <1>31, <1>34, <1>35 DEF Gone
  <2>3. H1 \ F1 = K BY <1>3, <1>29, <1>30, <1>31
  <2>4. CASE mp
    <3>1. all = prev /\ M = {c} /\ all \in F1 /\ E2 = F1
      BY <2>4, <1>17, <1>34, <1>36, <1>37, <1>39 DEF Gone, FrontOf
    <3>2. G \ E2 = K \ {c} BY <3>1, <2>3, <1>35
    <3> QED BY <3>1, <3>2, <2>1, <2>2, <1>36, <1>39, <1>41
  <2>5. CASE ~mp
    <3>1. all = c /\ M = {} BY <2>5, <1>17, <1>34 DEF Gone, FrontOf
    <3>2. G = H1 /\ E2 = F1 \cup {c} BY <3>1, <1>31, <1>35, <1>36, <1>39
    <3>3. G \ E2 = K \ {c} BY <3>2, <2>3
    <3> QED BY <3>1, <3>2, <3>3, <2>1, <2>2, <1>36, <1>39, <1>41
  <2> QED BY <2>4, <2>5
<1>45. Merged(g, E2)
  <2>1. ASSUME NEW d \in E PROVE Footer(g, d) + 1 \notin E2
    <3>1. Footer(g, d) = Footer(h, d) /\ d \in F BY <1>43, <1>44 DEF Spares
    <3>2. Footer(h, d) + 1 \notin F BY <3>1, <1>1 DEF Merged
    <3>3. Footer(h, d) + 1 # all
      <4>1. CASE mp BY <4>1, <3>2, <1>17, <1>22 DEF FrontOf
      <4>2. CASE ~mp BY <4>2, <3>1, <1>17, <1>22 DEF FrontOf
      <4> QED BY <4>1, <4>2
    <3> QED BY <3>1, <3>2, <3>3, <1>39, <1>44
  <2>2. Footer(g, all) = Footer(h1, c)
    <3>1. all \in G BY <1>38
    <3> QED BY <3>1, <1>38, <1>40 DEF Spares
  <2>3. Footer(h1, c) = IF mn THEN Footer(h, next) ELSE Footer(h, c)
    <3>1. mn => next \in H BY <1>2, <1>21
    <3> QED BY <3>1, <1>7, <1>27, <1>32
  <2>4. Footer(g, all) + 1 \notin F
    <3>1. mn => Footer(h, next) + 1 \notin F BY <1>1, <1>21 DEF Merged
    <3> QED BY <3>1, <2>2, <2>3, <1>21
  <2>5. Footer(g, all) + 1 # all
    <3>1. Typed(g) /\ Placed(g, G) /\ all \in G BY <1>38, <1>40 DEF Whole, Tiles
    <3>2. all < Footer(g, all) /\ Footer(g, all) \in Int /\ all \in Addr BY <3>1, Apart
    <3> QED BY <3>2 DEF Addr
  <2> QED BY <2>1, <2>4, <2>5, <1>39, <1>44 DEF Merged
<1>46. Serves(g, G \ E2, lv2)
  <2>1. PICK L : L = K \ {c} OBVIOUS
  <2>2. \A d \in L : d \in K /\ d + 1 # c + 1 /\ d + 1 \in {x + 1 : x \in K}
    BY <2>1, <1>3, <1>6, <1>7
  <2>3. {d + 1 : d \in L} = {d + 1 : d \in K} \ {c + 1}
    <3>1. \A d \in K : d \in Nat BY <1>3, <1>6
    <3> QED BY <3>1, <2>1, <2>2
  <2>4. lv2 \in [{d + 1 : d \in L} -> Sizes \ {0}] /\ \A d \in L : lv2[d + 1] = lv[d + 1]
    <3>1. DOMAIN lv \ {p} = {d + 1 : d \in L} BY <2>3, <1>4, <1>5
    <3>2. lv2 = [x \in {d + 1 : d \in L} |-> lv[x]] BY <3>1, <1>19 DEF Restrict
    <3>3. \A x \in {d + 1 : d \in L} : x \in {d + 1 : d \in K} BY <2>3
    <3> QED BY <3>2, <3>3, <1>4
  <2>5. Serves(h, L, lv2) BY <2>2, <2>4, <1>1, <1>3 DEF Serves
  <2>6. Spares(h, g, L) BY <2>1, <1>43, <1>44, SparesFewer
  <2>7. L \in SUBSET H BY <2>1, <1>3
  <2>8. Serves(g, L, lv2) BY <2>5, <2>6, <2>7, <1>2, ServesOn
  <2> QED BY <2>1, <2>8, <1>44
<1>47. InOrder(g, lv2, G, E2) BY <1>40, <1>45, <1>46 DEF InOrder
<1>48. G \in SUBSET Addr /\ E2 \in SUBSET Addr BY <1>40 DEF Whole, Tiles, Placed, Lists
<1>49. \A d \in K \ {c} : g.mem[d].units = h.mem[d].units BY <1>43, <1>44 DEF Spares
<1>50. Freed(h, lv, K, g, lv2, p) BY <1>7, <1>5, <1>19, <1>44, <1>47, <1>48, <1>49 DEF Freed
<1> QED BY <1>3, <1>20, <1>25, <1>32, <1>38, <1>40, <1>50
-----------------------------------------------------------------------------
\* The inductive invariant: the chunks are H, and F of them free.
HeapInv == \E H \in SUBSET Addr, F \in SUBSET Addr : InOrder(heap, live, H, F)

\* The empty heap is in order.
LEMMA InitInOrder == Init => HeapInv
PROOF
<1> SUFFICES ASSUME Init PROVE HeapInv OBVIOUS
<1>1. PICK lib \in Libraries : heap = [mem |-> [a \in Addr |-> Fresh], end |-> 0, lib |-> lib,
                                       bins |-> [b \in Bins(lib) |-> NULL]]
  BY DEF Init
<1>2. lib \in {1, 2} /\ MaxHeap \in Nat /\ NULL \in Int
  BY HeapMgrAssumption, ChunksAssumption DEF NULL
<1>3. PICK h : h = heap OBVIOUS
<1>4. PICK H : H = {} OBVIOUS
<1>5. /\ h.mem = [a \in Addr |-> Fresh] /\ h.end = 0 /\ h.lib = lib /\ h.bins = [b \in Bins(lib) |-> NULL]
      /\ h = [mem |-> h.mem, end |-> h.end, lib |-> h.lib, bins |-> h.bins]
  BY <1>1, <1>3
<1>6. Typed(h)
  <2>1. h.mem \in [Addr -> Cells] BY <1>5, CellTypes
  <2>2. h.end \in 0 .. MaxHeap /\ h.lib \in {1, 2} BY <1>2, <1>5
  <2>3. h.bins \in [Bins(h.lib) -> Int] BY <1>2, <1>5
  <2> QED BY <2>1, <2>2, <2>3, <1>5 DEF Typed
<1>7. Placed(h, H) /\ Marked(h, H, H) BY <1>4 DEF Placed, Marked
<1>8. Tiles(h, H)
  <2>1. 0 \in H \cup {h.end} BY <1>5
  <2> QED BY <2>1, <1>4, <1>7 DEF Tiles
<1>9. Lists(h, H, H)
  <2>1. PICK r : r = [x \in {} |-> 0] OBVIOUS
  <2>2. r \in [H -> Nat] BY <2>1, <1>4
  <2>3. \A b \in DOMAIN h.bins : h.bins[b] = NULL BY <1>5
  <2>4. Chained(H, BinsOf(h, H), Nexts(h, H), Prevs(h, H), h.bins, r) BY <2>3, <1>4 DEF Chained
  <2> QED BY <2>2, <2>4 DEF Lists, Linked
<1>10. Whole(h, H, H) BY <1>6, <1>7, <1>8, <1>9 DEF Whole
<1>11. Serves(h, H \ H, live)
  <2>1. H \ H = {} BY <1>4
  <2>2. live = <<>> BY DEF Init
  <2>3. live \in [{} -> Sizes \ {0}] BY <2>2
  <2>4. {c + 1 : c \in {}} = {} OBVIOUS
  <2> QED BY <2>1, <2>3, <2>4 DEF Serves
<1>12. Merged(h, H) BY <1>4 DEF Merged
<1>13. InOrder(heap, live, H, H) BY <1>3, <1>10, <1>11, <1>12 DEF InOrder
<1>14. H \in SUBSET Addr BY <1>4
<1> QED BY <1>13, <1>14 DEF HeapInv

\* Every call of malloc and free leaves the heap in order.
LEMMA StepInOrder == HeapInv /\ [Next]_vars => HeapInv'
PROOF
<1> SUFFICES ASSUME HeapInv, [Next]_vars PROVE HeapInv' OBVIOUS
<1>1. PICK H \in SUBSET Addr, F \in SUBSET Addr : InOrder(heap, live, H, F) BY DEF HeapInv
<1>2. ASSUME NEW size \in Sizes, size > 0, MallocFinds(size) PROVE HeapInv'
  <2>1. size \in Sizes \ {0} BY <1>2
  <2>2. Handed(heap, live, H \ F, heap', live', size) BY <2>1, <1>1, <1>2, FindsInOrder
  <2> QED BY <2>2 DEF Handed, HeapInv
<1>3. ASSUME NEW size \in Sizes, size > 0, MallocGrows(size) PROVE HeapInv'
  <2>1. size \in Sizes \ {0} BY <1>3
  <2>2. Handed(heap, live, H \ F, heap', live', size) BY <2>1, <1>1, <1>3, GrowsInOrder
  <2> QED BY <2>2 DEF Handed, HeapInv
<1>4. ASSUME NEW p \in DOMAIN live, Free(p) PROVE HeapInv'
  <2>1. Freed(heap, live, H \ F, heap', live', p) BY <1>1, <1>4, FreeInOrder
  <2> QED BY <2>1 DEF Freed, HeapInv
<1>5. CASE UNCHANGED vars
  <2>1. heap' = heap /\ live' = live BY <1>5 DEF vars
  <2> QED BY <2>1, <1>1 DEF HeapInv
<1> QED BY <1>2, <1>3, <1>4, <1>5 DEF Next

\* At all times the heap consists of chunks that cover it, the free ones are
\* exactly those of the lists, none of them neighbours, and the others hold what
\* the program has asked for and written.
THEOREM HeapInvariant == Spec => []HeapInv
PROOF
<1>1. Init => HeapInv BY InitInOrder
<1>2. HeapInv /\ [Next]_vars => HeapInv' BY StepInOrder
<1> QED BY <1>1, <1>2, PTL DEF Spec

\* What the properties speak of, in the invariant's terms.
LEMMA ChunksAre ==
  ASSUME NEW H, NEW F, InOrder(heap, live, H, F)
  PROVE  Headers(heap) = H /\ FreeChunks = F /\ InUse = H \ F /\ F \subseteq H
PROOF
<1>1. Typed(heap) /\ Tiles(heap, H) /\ Marked(heap, H, F) /\ F \subseteq H
  BY DEF InOrder, Whole, Lists
<1>2. Headers(heap) = H BY <1>1, HeadersFound
<1>3. \A c \in H : (heap.mem[c].status = FREE <=> c \in F) /\ (heap.mem[c].status = IN_USE <=> c \notin F)
  BY <1>1, CellTypes DEF Marked
<1>4. FreeChunks = F BY <1>1, <1>2, <1>3 DEF FreeChunks
<1>5. InUse = H \ F BY <1>2, <1>3 DEF InUse
<1> QED BY <1>1, <1>2, <1>4, <1>5

\* The chunks of a bin have the sizes it is for.
LEMMA InBinRange ==
  ASSUME NEW units \in 1 .. MaxHeap, NEW b, b = FindBin(2, units)
  PROVE  units \in BinRange(2, b)
PROOF
<1>1. /\ units \in Nat /\ units \in Int /\ MaxHeap \in Nat /\ ExpBins \in Nat \ {0} /\ FixedBins \in Nat
      /\ Interval \in Nat \ {0} /\ MaxExp \in Nat
  BY ChunksAssumption, ExpSizesGrow
<1>2. Exp(2) = 1 .. ExpBins /\ Fixed(2) = ExpBins + 1 .. ExpBins + FixedBins /\ Large = ExpBins + FixedBins + 1
  BY DEF Exp, Fixed, Large
<1>3. /\ b \in {x \in Exp(2) : units <= ExpSize(x)} \cup {x \in Fixed(2) : units <= FixedTop(x)} \cup {Large}
      /\ \A x \in {x \in Exp(2) : units <= ExpSize(x)} \cup
                  {x \in Fixed(2) : units <= FixedTop(x)} \cup {Large} : b <= x
  BY <1>1, FindBinLeast
<1>4. \A x \in 1 .. ExpBins : ExpSize(x) \in Nat BY ExpSizesGrow
<1>5. \A x \in 1 .. ExpBins : x < b => ExpSize(x) < units
  <2>1. ASSUME NEW x \in 1 .. ExpBins, x < b PROVE ~(units <= ExpSize(x))
    <3>1. b \in Int /\ x \in Int /\ x \in Exp(2) BY <1>1, <1>2, <1>3
    <3>2. units <= ExpSize(x) => b <= x BY <3>1, <1>3
    <3> QED BY <3>1, <3>2, <2>1
  <2> QED BY <2>1, <1>1, <1>4
<1>6. \A x \in Int : FixedTop(x) \in Int /\ FixedTop(x) = MaxExp + (x - ExpBins) * Interval
  BY <1>1 DEF FixedTop, MinFixed
<1>7. \A x \in Fixed(2) : x < b => FixedTop(x) < units
  <2>1. ASSUME NEW x \in Fixed(2), x < b PROVE ~(units <= FixedTop(x))
    <3>1. b \in Int BY <1>1, <1>2, <1>3
    <3>2. x \in Int BY <1>1, <1>2
    <3> QED BY <3>1, <3>2, <2>1, <1>3
  <2>2. \A x \in Fixed(2) : FixedTop(x) \in Int BY <1>1, <1>2, <1>6
  <2> QED BY <2>1, <2>2, <1>1
<1>8. CASE b \in Exp(2)
  <2>1. units <= ExpSize(b) /\ ExpSize(b) \in Nat
    <3>1. b \notin Fixed(2) /\ b # Large BY <1>1, <1>2, <1>8
    <3> QED BY <3>1, <1>2, <1>3, <1>4, <1>8
  <2>2. BinRange(2, b) = (IF b = 1 THEN 1 ELSE ExpSize(b - 1) + 1) ..
       ExpSize(b)
    <3>1. b \notin Fixed(2) BY <1>1, <1>2, <1>8
    <3> QED BY <3>1, <1>8 DEF BinRange
  <2>3. CASE b = 1 BY <2>1, <2>2, <2>3, <1>1
  <2>4. CASE b # 1
    <3>1. b - 1 \in 1 .. ExpBins /\ b - 1 < b BY <2>4, <1>1, <1>2, <1>8
    <3>2. ExpSize(b - 1) < units /\ ExpSize(b - 1) \in Nat BY <3>1, <1>4, <1>5
    <3> QED BY <2>1, <2>2, <2>4, <3>2, <1>1
  <2> QED BY <2>3, <2>4
<1>9. MaxExp < units \/ b \in Exp(2)
  <2>1. SUFFICES ASSUME b \notin Exp(2) PROVE MaxExp < units OBVIOUS
  <2>2. ExpBins \in 1 .. ExpBins /\ ExpBins < b BY <2>1, <1>1, <1>2, <1>3
  <2> QED BY <2>2, <1>5 DEF MaxExp
<1>10. CASE b \in Fixed(2)
  <2>0. b \notin Exp(2) /\ b # Large /\ b \in Int BY <1>1, <1>2, <1>10
  <2>1. units <= FixedTop(b) BY <2>0, <1>3, <1>10
  <2>2. BinRange(2, b) = MinFixed + (b - ExpBins - 1) * Interval .. FixedTop(b)
    BY <2>0, <1>10 DEF BinRange
  <2>3. MinFixed + (b - ExpBins - 1) * Interval <= units
    <3>1. CASE b = ExpBins + 1
      <4>1. (b - ExpBins - 1) * Interval = 0 BY <3>1, <1>1
      <4> QED BY <4>1, <2>0, <1>1, <1>9 DEF MinFixed
    <3>2. CASE b # ExpBins + 1
      <4>1. b - 1 \in Fixed(2) /\ b - 1 < b /\ b - 1 \in Int BY <3>2, <1>1, <1>2, <1>10
      <4>2. FixedTop(b - 1) < units BY <4>1, <1>7
      <4>3. FixedTop(b - 1) = MaxExp + (b - 1 - ExpBins) * Interval BY <4>1, <1>6
      <4>4. b - 1 - ExpBins = b - ExpBins - 1 /\ (b - ExpBins - 1) * Interval \in Int BY <2>0, <1>1
      <4> QED BY <4>2, <4>3, <4>4, <1>1 DEF MinFixed
    <3> QED BY <3>1, <3>2
  <2>4. MinFixed + (b - ExpBins - 1) * Interval \in Int /\ FixedTop(b) \in Int
    <3>1. (b - ExpBins - 1) * Interval \in Int BY <2>0, <1>1
    <3> QED BY <3>1, <2>0, <1>1, <1>6 DEF MinFixed
  <2> QED BY <2>1, <2>2, <2>3, <2>4, <1>1
<1>11. CASE b = Large
  <2>0. b \notin Exp(2) /\ b \notin Fixed(2) BY <1>1, <1>2, <1>11
  <2>1. BinRange(2, b) = MaxFixed + 1 .. MaxHeap BY <2>0 DEF BinRange
  <2>2. MaxFixed < units
    <3>1. CASE FixedBins = 0
      <4>1. FixedBins * Interval = 0 BY <3>1, <1>1
      <4> QED BY <4>1, <2>0, <1>1, <1>9 DEF MaxFixed
    <3>2. CASE FixedBins # 0
      <4>1. PICK x : x = ExpBins + FixedBins OBVIOUS
      <4>2. x \in Fixed(2) /\ x < b /\ x \in Int /\ x - ExpBins = FixedBins
        BY <3>2, <4>1, <1>1, <1>2, <1>11
      <4>3. FixedTop(x) < units /\ FixedTop(x) = MaxExp + FixedBins * Interval BY <4>2, <1>6, <1>7
      <4> QED BY <4>3 DEF MaxFixed
    <3> QED BY <3>1, <3>2
  <2>3. MaxFixed \in Int
    <3>1. FixedBins * Interval \in Int BY <1>1
    <3> QED BY <3>1, <1>1 DEF MaxFixed
  <2> QED BY <2>1, <2>2, <2>3, <1>1
<1> QED BY <1>3, <1>8, <1>10, <1>11
-----------------------------------------------------------------------------
\* What the walk over a heap in order finds.
LEMMA TiledThen ==
  ASSUME NEW H, NEW F, InOrder(heap, live, H, F)
  PROVE  Tiled /\ Coalesced
PROOF
<1>1. Typed(heap) /\ Tiles(heap, H) /\ Placed(heap, H) BY DEF InOrder, Whole, Tiles
<1>2. Headers(heap) = H /\ FreeChunks = F /\ InUse = H \ F /\ F \subseteq H BY ChunksAre
<1>3. \A c \in H : /\ heap.mem[c].units >= 1 /\ Footer(heap, c) < heap.end
                   /\ heap.mem[Footer(heap, c)].units = heap.mem[c].units
  BY <1>1 DEF Placed
<1>4. DOMAIN live = {c + 1 : c \in H \ F} BY DEF InOrder, Serves
<1>5. Tiled BY <1>2, <1>3, <1>4 DEF Tiled
<1>6. \A c \in F : NextAdjacent(heap, c) \notin F
  <2>1. ASSUME NEW c \in F PROVE NextAdjacent(heap, c) \notin F
    <3>1. \/ NextAdjacent(heap, c) = NULL
          \/ NextAdjacent(heap, c) = Footer(heap, c) + 1
      BY <1>1, <1>2, Neighbours
    <3>2. NULL \notin F BY <1>1, <1>2 DEF Placed, Addr, NULL
    <3> QED BY <3>1, <3>2 DEF InOrder, Merged
  <2> QED BY <2>1
<1> QED BY <1>2, <1>5, <1>6 DEF Coalesced

\* The assertions of the managers.
LEMMA ValidThen ==
  ASSUME NEW H, NEW F, InOrder(heap, live, H, F)
  PROVE  CheckHeapValidity(heap)
PROOF
<1>1. /\ Typed(heap) /\ Tiles(heap, H) /\ Placed(heap, H) /\ Lists(heap, H, F) /\ Marked(heap, H, F)
      /\ F \subseteq H
  BY DEF InOrder, Whole, Tiles, Lists
<1>2. Headers(heap) = H BY ChunksAre
<1>3. ASSUME NEW c \in H
      PROVE  ChunkIsValid(heap, c) /\ heap.mem[c].units \in 1 .. MaxHeap /\ c < heap.end /\ c >= 0
  <2>1. c \in Nat /\ heap.mem[c].units \in Nat \ {0} /\ Footer(heap, c) < heap.end
        /\ heap.end \in Int /\ heap.end <= MaxHeap /\ MaxHeap \in Nat
    BY <1>1, ChunksAssumption DEF Placed, Addr, Typed
  <2>2. Footer(heap, c) = c + heap.mem[c].units + 1 BY DEF Footer
  <2> QED BY <2>1, <2>2 DEF ChunkIsValid
<1>4. ASSUME NEW c \in F PROVE Valid(heap, c)
  <2>1. c # NULL /\ heap.mem[c].status = FREE BY <1>1 DEF Placed, Addr, NULL, Marked
  <2>2. c \in H BY <1>1
  <2> QED BY <2>1, <2>2, <1>3 DEF Valid, IsFree
<1>5. ASSUME NEW b \in Bins(heap.lib), NEW c \in Range(FreeList(heap, b)) \ {NULL}
      PROVE  c \in F /\ FindBin(heap.lib, heap.mem[c].units) = b
  <2>1. PICK at : at = FreeList(heap, b) OBVIOUS
  <2>2. /\ at \in [0 .. MaxChunks -> F \cup {NULL}]
        /\ \A i \in 0 .. MaxChunks : at[i] # NULL => at[i] \in F /\ BinsOf(heap, H)[at[i]] = b
    BY <1>1, <2>1, FreeListExact
  <2>3. PICK i \in 0 .. MaxChunks : c = at[i] BY <2>1, <2>2 DEF Range
  <2>4. c \in F /\ BinsOf(heap, H)[c] = b BY <2>2, <2>3
  <2> QED BY <2>4, <1>1 DEF BinsOf
<1>6. CASE heap.lib = 1
  <2>1. Large \in Bins(heap.lib) BY BinNumbers
  <2>2. heap.end = 0 => heap.bins[Large] = NULL
    <3>1. SUFFICES ASSUME heap.end = 0, heap.bins[Large] # NULL PROVE FALSE OBVIOUS
    <3>2. PICK at : at = FreeList(heap, Large) OBVIOUS
    <3>3. at[0] = heap.bins[Large] BY <1>1, <2>1, <3>2, FreeListUnfolds
    <3>4. at \in [0 .. MaxChunks -> F \cup {NULL}] /\ MaxChunks \in Nat
      BY <1>1, <2>1, <3>2, FreeListExact
    <3>5. PICK z : z = 0 OBVIOUS
    <3>6. z \in 0 .. MaxChunks /\ at[z] = heap.bins[Large] BY <3>3, <3>4, <3>5
    <3>7. heap.bins[Large] \in F BY <3>1, <3>4, <3>6
    <3>8. PICK c \in F : c = heap.bins[Large] BY <3>7
    <3>9. c \in H /\ c \in Int /\ c < heap.end /\ c >= 0 BY <1>1, <1>3 DEF Placed, Addr
    <3> QED BY <3>1, <3>9
  <2>3. \A c \in Headers(heap) : ChunkIsValid(heap, c) BY <1>2, <1>3
  <2>4. \A c \in Range(FreeList(heap, Large)) \ {NULL} : Valid(heap, c) BY <2>1, <1>4, <1>5
  <2> QED BY <2>2, <2>3, <2>4, <1>6 DEF CheckHeapValidity, CheckHeap
<1>7. CASE heap.lib = 2
  <2>1. ASSUME NEW b \in Bins(2), NEW c \in Range(FreeList(heap, b)) \ {NULL}
        PROVE  heap.mem[c].units \in BinRange(2, b) /\ Valid(heap, c)
    <3>1. c \in F /\ FindBin(2, heap.mem[c].units) = b BY <2>1, <1>5, <1>7
    <3>2. heap.mem[c].units \in 1 .. MaxHeap BY <3>1, <1>1, <1>3
    <3>3. heap.mem[c].units \in BinRange(2, b) BY <3>1, <3>2, InBinRange
    <3> QED BY <3>1, <3>3, <1>4
  <2> QED BY <2>1, <1>7 DEF CheckHeapValidity, CheckBins
<1> QED BY <1>1, <1>6, <1>7 DEF Typed

\* What the walks along the lists of a heap in order find.
LEMMA ExactThen ==
  ASSUME NEW H, NEW F, InOrder(heap, live, H, F)
  PROVE  ListsExact
PROOF
<1>1. Typed(heap) /\ Placed(heap, H) /\ Lists(heap, H, F) /\ F \subseteq H
  BY DEF InOrder, Whole, Tiles, Lists
<1>2. FreeChunks = F BY ChunksAre
<1>3. ASSUME NEW b \in Bins(heap.lib), NEW list, list = FreeList(heap, b),
             NEW members, members = {i \in DOMAIN list : list[i] # NULL}
      PROVE  /\ {list[i] : i \in members} = {c \in F : FindBin(heap.lib, heap.mem[c].units) = b}
             /\ \A i, j \in members : list[i] = list[j] => i = j
             /\ \A i \in members : heap.mem[Footer(heap, list[i])].link = IF i = 0 THEN NULL ELSE list[i - 1]
  <2>1. /\ list \in [0 .. MaxChunks -> F \cup {NULL}] /\ MaxChunks \in Nat /\ NULL \notin F
        /\ \A i \in 0 .. MaxChunks : list[i] # NULL =>
             /\ list[i] \in F /\ BinsOf(heap, H)[list[i]] = b
             /\ Prevs(heap, H)[list[i]] = IF i = 0 THEN NULL ELSE list[i - 1]
        /\ \A i, j \in 0 .. MaxChunks : list[i] # NULL /\ list[i] = list[j] => i = j
        /\ \A c \in F : BinsOf(heap, H)[c] = b => \E i \in 0 .. MaxChunks : list[i] = c
    BY <1>1, <1>3, FreeListExact
  <2>2. \A i \in members : i \in 0 .. MaxChunks /\ list[i] # NULL BY <2>1, <1>3
  <2>3. \A c \in F : BinsOf(heap, H)[c] = FindBin(heap.lib, heap.mem[c].units)
                     /\ Prevs(heap, H)[c] = heap.mem[Footer(heap, c)].link
    BY <1>1 DEF BinsOf, Prevs
  <2>4. ASSUME NEW c \in F, FindBin(heap.lib, heap.mem[c].units) = b PROVE c \in {list[i] : i \in members}
    <3>1. PICK i \in 0 .. MaxChunks : list[i] = c BY <2>1, <2>3, <2>4
    <3>2. i \in members BY <3>1, <2>1, <1>3
    <3> QED BY <3>1, <3>2
  <2>5. \A i \in members : list[i] \in {c \in F : FindBin(heap.lib, heap.mem[c].units) = b}
    BY <2>1, <2>2, <2>3
  <2>6. {list[i] : i \in members} = {c \in F : FindBin(heap.lib, heap.mem[c].units) = b}
    BY <2>4, <2>5
  <2>7. \A i, j \in members : list[i] = list[j] => i = j BY <2>1, <2>2
  <2>8. \A i \in members : heap.mem[Footer(heap, list[i])].link = IF i = 0 THEN NULL ELSE list[i - 1]
    BY <2>1, <2>2, <2>3
  <2> QED BY <2>6, <2>7, <2>8
<1>4. ASSUME NEW b \in Bins(heap.lib)
      PROVE  LET list == FreeList(heap, b)
                 members == {i \in DOMAIN list : list[i] # NULL}
             IN /\ {list[i] : i \in members} = {c \in F : FindBin(heap.lib, heap.mem[c].units) = b}
                /\ \A i, j \in members : list[i] = list[j] => i = j
                /\ \A i \in members : heap.mem[Footer(heap, list[i])].link =
                                        IF i = 0 THEN NULL ELSE list[i - 1]
  BY <1>3
<1> QED BY <1>2, <1>4 DEF ListsExact

\* What a heap in order keeps for the program.
LEMMA DataThen ==
  ASSUME NEW H, NEW F, InOrder(heap, live, H, F)
  PROVE  DataKept
PROOF
<1>1. Serves(heap, H \ F, live) BY DEF InOrder
<1>2. ASSUME NEW p \in DOMAIN live PROVE \A a \in Written(p, live[p]) : heap.mem[a] = DATA
  <2>1. PICK c \in H \ F : p = c + 1 BY <1>1 DEF Serves
  <2> QED BY <2>1, <1>1 DEF Serves
<1> QED BY <1>2 DEF DataKept

\* Malloc asks for memory only when no list that is searched has enough.
LEMMA FullThen ==
  ASSUME NEW H, NEW F, InOrder(heap, live, H, F), NEW size \in Sizes \ {0}, MallocGrows(size),
         NEW c \in FreeChunks, heap.mem[c].units >= SizeToUnits(size)
  PROVE  Overlooked(c, SizeToUnits(size))
PROOF
<1>1. Typed(heap) /\ Placed(heap, H) /\ Lists(heap, H, F) /\ F \subseteq H
  BY DEF InOrder, Whole, Tiles, Lists
<1>2. FreeChunks = F BY ChunksAre
<1>3. PICK units : units = SizeToUnits(size) OBVIOUS
<1>4. units \in Nat /\ units \in Int BY <1>3, UnitsAsked
<1>5. NULL = FindBestFit(heap, units) BY <1>3 DEF MallocGrows
<1>6. \A d \in F : BinsOf(heap, H)[d] \in Searched(heap.lib, units) => ~(heap.mem[d].units >= units)
  BY <1>1, <1>4, <1>5, BestFitFinds
<1>7. BinsOf(heap, H)[c] \notin Searched(heap.lib, units) BY <1>2, <1>3, <1>6
<1>8. PICK m : m = heap.mem[c].units OBVIOUS
<1>9. m \in Nat /\ units <= m /\ FindBin(heap.lib, m) \notin Searched(heap.lib, units)
  BY <1>1, <1>2, <1>3, <1>4, <1>7, <1>8 DEF Placed, BinsOf
<1>10. FindBin(heap.lib, units) \in Fixed(heap.lib) /\ FindBin(heap.lib, m) = FindBin(heap.lib, units)
  BY <1>4, <1>9, OnlyOverlooked
<1> QED BY <1>3, <1>8, <1>10 DEF Overlooked
-----------------------------------------------------------------------------
\* The memory is in order at all times, and no assertion of the managers fails.
THEOREM HeapInOrder == Spec => []MemoryInOrder
PROOF
<1>1. HeapInv => MemoryInOrder
  <2> SUFFICES ASSUME HeapInv PROVE MemoryInOrder OBVIOUS
  <2>1. PICK H \in SUBSET Addr, F \in SUBSET Addr : InOrder(heap, live, H, F) BY DEF HeapInv
  <2> QED BY <2>1, TiledThen, ValidThen DEF MemoryInOrder
<1> QED BY <1>1, HeapInvariant, PTL

\* The free lists of both managers hold the free chunks and nothing else, each
\* once, in the bin of its size, linked both ways: after every insertion,
\* removal, split and merge.
THEOREM FreeListsExact == Spec => []ListsExact
PROOF
<1>1. HeapInv => ListsExact BY ExactThen DEF HeapInv
<1> QED BY <1>1, HeapInvariant, PTL

\* No step of the managers writes into a block that the program holds, and no
\* unit is handed out twice: what was written is there until the block is freed.
THEOREM BlocksKeepData == Spec => []DataKept
PROOF
<1>1. HeapInv => DataKept BY DataThen DEF HeapInv
<1> QED BY <1>1, HeapInvariant, PTL

\* A call of malloc asks for memory only when it has to.
Reluctant ==
  \A p \in DOMAIN live' \ DOMAIN live :
    LET units == SizeToUnits(live'[p]) IN
    heap'.end > heap.end =>
      \A c \in FreeChunks : heap.mem[c].units >= units => Overlooked(c, units)

\* Of all calls only malloc without a fit moves the end of the heap.
LEMMA ReluctantStep == HeapInv /\ [Next]_vars => [Reluctant]_vars
PROOF
<1> SUFFICES ASSUME HeapInv, [Next]_vars, NEW p \in DOMAIN live' \ DOMAIN live, heap'.end > heap.end,
                    NEW c \in FreeChunks, heap.mem[c].units >= SizeToUnits(live'[p])
             PROVE  Overlooked(c, SizeToUnits(live'[p]))
  BY DEF Reluctant
<1>1. PICK H \in SUBSET Addr, F \in SUBSET Addr : InOrder(heap, live, H, F) BY DEF HeapInv
<1>2. heap.end \in Int BY <1>1 DEF InOrder, Whole, Typed
<1>3. ASSUME NEW size \in Sizes, size > 0, MallocFinds(size) PROVE FALSE
  <2>1. size \in Sizes \ {0} BY <1>3
  <2>2. heap'.end = heap.end BY <2>1, <1>1, <1>3, FindsInOrder
  <2> QED BY <2>2, <1>2
<1>4. ASSUME NEW size \in Sizes, size > 0, MallocGrows(size)
      PROVE  Overlooked(c, SizeToUnits(live'[p]))
  <2>1. size \in Sizes \ {0} BY <1>4
  <2>2. Handed(heap, live, H \ F, heap', live', size) BY <2>1, <1>1, <1>4, GrowsInOrder
  <2>3. PICK d \in Addr : live' = LiveWith(live, d, size) BY <2>2 DEF Handed
  <2>4. p = d + 1 /\ live'[p] = size BY <2>3 DEF LiveWith
  <2> QED BY <2>1, <2>4, <1>1, <1>4, FullThen
<1>5. ASSUME NEW q \in DOMAIN live, Free(q) PROVE FALSE
  <2>1. heap'.end = heap.end BY <1>1, <1>5, FreeInOrder
  <2> QED BY <2>1, <1>2
<1>6. CASE UNCHANGED vars BY <1>6 DEF vars
<1> QED BY <1>3, <1>4, <1>5, <1>6 DEF Next

\* sbrk is called only when no free chunk would do, but for those that heapmgr2
\* does not look at: of the fixed bin of the request itself.
THEOREM MemoryIsReused == Spec => GrowsOnlyWhenFull
PROOF
<1>1. HeapInv /\ [Next]_vars => [Reluctant]_vars BY ReluctantStep
<1>2. Spec => [][Reluctant]_vars BY <1>1, HeapInvariant, PTL DEF Spec
<1>3. [][Reluctant]_vars => GrowsOnlyWhenFull
  <2>1. [Reluctant]_vars =>
          [\A p \in DOMAIN live' \ DOMAIN live :
             LET units == SizeToUnits(live'[p]) IN
             heap'.end > heap.end =>
               \A c \in FreeChunks : heap.mem[c].units >= units => Overlooked(c, units)]_vars
    BY DEF Reluctant
  <2> QED BY <2>1, PTL DEF GrowsOnlyWhenFull
<1> QED BY <1>2, <1>3

-----------------------------------------------------------------------------
\* What Allocator sees.
Blocks(h, lv) == [p \in DOMAIN lv |-> h.mem[p - 1].units]

\* Blocks B become B2 in that one of n units at p is handed out.
Allotted(B, B2, size) ==
  \E p \in Addr, n \in Addr :
    /\ p \notin DOMAIN B
    /\ size <= n * UnitSize /\ (p .. p + n - 1) \subseteq Addr
    /\ \A q \in DOMAIN B : (p .. p + n - 1) \cap (q .. q + B[q] - 1) = {}
    /\ B2 = [q \in DOMAIN B \cup {p} |-> IF q = p THEN n ELSE B[q]]

\* A call of malloc that serves a request allots a block.
LEMMA HandedIsAlloc ==
  ASSUME NEW h, NEW lv, NEW K, Serves(h, K, lv), K \subseteq Addr,
         NEW g, NEW lv2, NEW size \in Sizes \ {0}, Handed(h, lv, K, g, lv2, size)
  PROVE  Allotted(Blocks(h, lv), Blocks(g, lv2), size)
PROOF
<1>1. PICK G \in SUBSET Addr, E \in SUBSET Addr, c \in Addr :
        /\ InOrder(g, lv2, G, E) /\ c \in G \ E /\ c \notin K /\ G \ E = K \cup {c}
        /\ lv2 = LiveWith(lv, c, size) /\ \A d \in K : g.mem[d].units = h.mem[d].units
  BY DEF Handed
<1>2. Typed(g) /\ Placed(g, G) /\ Serves(g, G \ E, lv2) BY <1>1 DEF InOrder, Whole, Tiles
<1>3. PICK n : n = g.mem[c].units OBVIOUS
<1>4. PICK p : p = c + 1 OBVIOUS
<1>5. PICK B : B = Blocks(h, lv) OBVIOUS
<1>6. DOMAIN lv = {d + 1 : d \in K} BY DEF Serves
<1>7. DOMAIN B = DOMAIN lv /\ \A q \in DOMAIN lv : B[q] = h.mem[q - 1].units BY <1>5 DEF Blocks
<1>8. MaxHeap \in Nat /\ \A d \in G : d \in Nat BY ChunksAssumption DEF Addr
<1>9. /\ n \in Nat \ {0} /\ c \in Nat /\ Footer(g, c) = c + n + 1 /\ Footer(g, c) \in Addr /\ c \in G
  <2>1. Footer(g, c) \in Addr BY <1>1, <1>2, Apart
  <2> QED BY <2>1, <1>1, <1>2, <1>3, <1>8 DEF Placed, Footer
<1>10. p \in Addr /\ n \in Addr /\ p \in Int BY <1>4, <1>8, <1>9 DEF Addr
<1>11. p \notin DOMAIN B BY <1>1, <1>4, <1>6, <1>7, <1>8, <1>9
<1>12. size <= n * UnitSize
  <2>1. lv2[c + 1] = size BY <1>1 DEF LiveWith
  <2>2. SizeToUnits(size) <= n BY <2>1, <1>1, <1>2, <1>3 DEF Serves
  <2>3. SizeToUnits(size) \in Nat /\ size \in Nat /\ size <= SizeToUnits(size) * UnitSize
    BY UnitsAsked
  <2>4. UnitSize \in Nat BY HeapMgrAssumption
  <2>5. PICK s : s = SizeToUnits(size) OBVIOUS
  <2>6. s * UnitSize <= n * UnitSize /\ s * UnitSize \in Nat /\ n * UnitSize \in Nat
    BY <2>2, <2>3, <2>4, <2>5, <1>9
  <2> QED BY <2>3, <2>5, <2>6
<1>13. \A a \in p .. p + n - 1 : a \in Int /\ c < a /\ a < Footer(g, c) /\ a \in Addr
  BY <1>4, <1>8, <1>9 DEF Addr
<1>14. ASSUME NEW q \in DOMAIN B PROVE (p .. p + n - 1) \cap (q .. q + B[q] - 1) = {}
  <2>1. PICK d \in K : q = d + 1 BY <1>6, <1>7
  <2>2. d \in G /\ d # c /\ d \in Nat BY <1>1, <1>8
  <2>3. B[q] = g.mem[d].units
    <3>1. q - 1 = d BY <2>1, <2>2
    <3> QED BY <3>1, <1>1, <1>7
  <2>4. /\ g.mem[d].units \in Nat /\ Footer(g, d) = d + g.mem[d].units + 1
        /\ d < c => Footer(g, d) < c
        /\ c < d => Footer(g, c) < d
    BY <2>2, <1>2, <1>9 DEF Placed, Footer
  <2>5. \A a \in q .. q + B[q] - 1 : a \in Int /\ d < a /\ a < Footer(g, d)
    BY <2>1, <2>2, <2>3, <2>4
  <2>6. ASSUME NEW a \in p .. p + n - 1, a \in q .. q + B[q] - 1 PROVE FALSE
    <3>1. a \in Int /\ c < a /\ a < Footer(g, c) /\ d < a /\ a < Footer(g, d) BY <2>5, <2>6, <1>13
    <3>2. Footer(g, d) \in Int /\ Footer(g, c) \in Int BY <2>2, <2>4, <1>9
    <3>3. d < c \/ c < d BY <2>2, <1>9
    <3> QED BY <3>1, <3>2, <3>3, <2>2, <2>4, <1>9
  <2> QED BY <2>6
<1>15. Blocks(g, lv2) = [q \in DOMAIN B \cup {p} |-> IF q = p THEN n ELSE B[q]]
  <2>1. DOMAIN lv2 = DOMAIN B \cup {p} BY <1>1, <1>4, <1>7 DEF LiveWith
  <2>2. ASSUME NEW q \in DOMAIN B \cup {p} PROVE g.mem[q - 1].units = IF q = p THEN n ELSE B[q]
    <3>1. CASE q = p
      <4>1. q - 1 = c BY <3>1, <1>4, <1>9
      <4> QED BY <4>1, <3>1, <1>3
    <3>2. CASE q # p
      <4>1. PICK d \in K : q = d + 1 BY <3>2, <1>6, <1>7
      <4>2. q - 1 = d BY <4>1, <1>1, <1>8
      <4> QED BY <4>2, <3>2, <1>1, <1>7
    <3> QED BY <3>1, <3>2
  <2> QED BY <2>1, <2>2 DEF Blocks
<1>16. PICK B2 : B2 = Blocks(g, lv2) OBVIOUS
<1>17. Allotted(B, B2, size)
  <2>1. B2 = [q \in DOMAIN B \cup {p} |-> IF q = p THEN n ELSE B[q]] BY <1>15, <1>16
  <2>2. (p .. p + n - 1) \subseteq Addr BY <1>13
  <2> QED BY ONLY <1>10, <1>11, <1>12, <1>14, <2>1, <2>2 DEF Allotted
<1> QED BY <1>5, <1>16, <1>17

\* A call of free gives back one block and leaves the others as they are.
LEMMA FreedIsFree ==
  ASSUME NEW h, NEW lv, NEW K, Serves(h, K, lv), K \subseteq Addr,
         NEW g, NEW lv2, NEW p \in DOMAIN lv, Freed(h, lv, K, g, lv2, p)
  PROVE  /\ p \in DOMAIN Blocks(h, lv)
         /\ Blocks(g, lv2) = Restrict(Blocks(h, lv), DOMAIN Blocks(h, lv) \ {p})
PROOF
<1>1. lv2 = Restrict(lv, DOMAIN lv \ {p}) /\ \A d \in K \ {p - 1} : g.mem[d].units = h.mem[d].units
  BY DEF Freed
<1>2. DOMAIN lv2 = DOMAIN lv \ {p} BY <1>1 DEF Restrict
<1>3. DOMAIN lv = {d + 1 : d \in K} /\ \A d \in K : d \in Int BY DEF Serves, Addr
<1>4. ASSUME NEW q \in DOMAIN lv \ {p} PROVE g.mem[q - 1].units = h.mem[q - 1].units
  <2>1. PICK d \in K : q = d + 1 BY <1>3
  <2>2. PICK e \in K : p = e + 1 BY <1>3
  <2>3. q - 1 = d /\ p - 1 = e /\ d # e BY <2>1, <2>2, <1>3
  <2> QED BY <2>3, <1>1
<1> QED BY <1>2, <1>4 DEF Blocks, Restrict

\* The managers do what Allocator promises, every step of theirs one of its
\* steps: a block is as large as asked for, apart from every other, and neither
\* moves nor changes its size before it is freed.
THEOREM ManagersKeepPromise == Spec => ImplementsAllocator
PROOF
<1>1. Init => Promise!Init
  <2> SUFFICES ASSUME Init PROVE [p \in DOMAIN live |-> heap.mem[p - 1].units] = <<>>
    BY DEF Promise!Init
  <2>1. live = <<>> BY DEF Init
  <2> QED BY <2>1
<1>2. HeapInv /\ [Next]_vars => [Promise!Next]_[p \in DOMAIN live |-> heap.mem[p - 1].units]
  <2> SUFFICES ASSUME HeapInv, [Next]_vars
               PROVE  [Promise!Next]_[p \in DOMAIN live |-> heap.mem[p - 1].units]
    OBVIOUS
  <2>1. PICK H \in SUBSET Addr, F \in SUBSET Addr : InOrder(heap, live, H, F) BY DEF HeapInv
  <2>2. PICK K : K = H \ F OBVIOUS
  <2>3. Serves(heap, K, live) /\ K \subseteq Addr BY <2>1, <2>2 DEF InOrder
  <2>4. ASSUME NEW size \in Sizes \ {0}, Handed(heap, live, K, heap', live', size)
        PROVE  Promise!Next
    <3>1. PICK g, lv2 : g = heap' /\ lv2 = live' OBVIOUS
    <3>2. Handed(heap, live, K, g, lv2, size) BY ONLY <3>1, <2>4
    <3>3. Allotted(Blocks(heap, live), Blocks(g, lv2), size)
      BY ONLY <2>3, <3>2, size \in Sizes \ {0}, HandedIsAlloc
    <3>4. Allotted(Blocks(heap, live), Blocks(heap', live'), size) BY ONLY <3>1, <3>3
    <3> QED BY ONLY <3>4, size \in Sizes DEF Allotted, Blocks, Promise!Next, Promise!Alloc, Promise!Extent
  <2>5. ASSUME NEW size \in Sizes, size > 0, MallocFinds(size) PROVE Promise!Next
    <3>1. size \in Sizes \ {0} BY <2>5
    <3>2. Handed(heap, live, K, heap', live', size) BY <3>1, <2>1, <2>2, <2>5, FindsInOrder
    <3> QED BY <3>1, <3>2, <2>4
  <2>6. ASSUME NEW size \in Sizes, size > 0, MallocGrows(size) PROVE Promise!Next
    <3>1. size \in Sizes \ {0} BY <2>6
    <3>2. Handed(heap, live, K, heap', live', size) BY <3>1, <2>1, <2>2, <2>6, GrowsInOrder
    <3> QED BY <3>1, <3>2, <2>4
  <2>7. ASSUME NEW p \in DOMAIN live, Free(p) PROVE Promise!Next
    <3>1. Freed(heap, live, K, heap', live', p) BY <2>1, <2>2, <2>7, FreeInOrder
    <3>2. /\ p \in DOMAIN Blocks(heap, live)
          /\ Blocks(heap', live') = Restrict(Blocks(heap, live), DOMAIN Blocks(heap, live) \ {p})
      BY <3>1, <2>3, FreedIsFree
    <3>3. Promise!Free(p) BY ONLY <3>2 DEF Blocks, Restrict, Promise!Free, Promise!Restrict
    <3>4. p \in DOMAIN [q \in DOMAIN live |-> heap.mem[q - 1].units] BY ONLY <3>2 DEF Blocks
    <3> QED BY ONLY <3>3, <3>4 DEF Promise!Next
  <2>8. CASE UNCHANGED vars BY <2>8 DEF vars
  <2> QED BY <2>5, <2>6, <2>7, <2>8 DEF Next
<1> QED BY <1>1, <1>2, HeapInvariant, PTL DEF Spec, ImplementsAllocator, Promise!Spec
=============================================================================
