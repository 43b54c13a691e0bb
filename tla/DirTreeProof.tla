---------------------------- MODULE DirTreeProof ----------------------------
(***************************************************************************)
(* The walk of dirtree.c, for any disk, any size of the streams' buffers,  *)
(* and any changes and failures on the way: memory and streams are used as *)
(* they should be (WalkSound), and every summary is that of the lines      *)
(* above it (TotalsAgree).                                                 *)
(***************************************************************************)
EXTENDS DirTree, FiniteSetTheorems, TLAPS

Spots == Nodes \cup {Root, FRESH, GONE}

Stems == {"| ", "  "}

Frames ==
  [dir : Nodes \cup {Root}, pstr : Seq(Stems), at : {"open", "count", "store", "print"},
   pos : Nat, buf : Seq(Nodes), count : Nat, entries : Seq(Nat \ {0}), i : Nat \ {0},
   changed : BOOLEAN]

\* What of directory d lies up to position pos of its file.
Kids(dk, d) == {n \in Nodes : dk[n].in = d}
Passed(dk, od, d, pos) == {n \in Kids(dk, d) : od[n] <= pos}

\* An unchanged directory has been counted, or stored, as far as it has been read.
FrameInv(dk, od, f) ==
  /\ \A k \in DOMAIN f.entries : f.entries[k] \in DOMAIN f.buf
  /\ f.at \in {"open", "count"} => f.entries = <<>>
  /\ f.at = "open" => f.pos = 0 /\ f.count = 0
  /\ f.at = "count" => f.changed \/ f.count = Cardinality(Passed(dk, od, f.dir, f.pos))
  /\ f.at = "store" => \/ f.changed
                       \/ /\ Len(f.entries) = Cardinality(Passed(dk, od, f.dir, f.pos))
                          /\ f.count = Cardinality(Kids(dk, f.dir))
  /\ f.at = "store" => Len(f.entries) <= f.count
  /\ f.at = "print" => Len(f.entries) = f.count

FilesTyped ==
  /\ disk \in [Nodes -> [in : Spots, type : FileTypes]]
  /\ order \in [Nodes -> Nat \ {0}] /\ \A m, n \in Nodes : order[m] = order[n] => m = n

Opened(st) == {k \in DOMAIN st : st[k].at # "open"}

WalkInv ==
  /\ FilesTyped
  /\ pc \in {"next", "walking", "end", "undefined"}
  /\ stack \in Seq(Frames) /\ \A k \in DOMAIN stack : FrameInv(disk, order, stack[k])
  /\ pc \in {"next", "end"} => stack = <<>>
  /\ pc = "undefined" => stack # <<>> /\ Top.changed
  /\ streams = Cardinality(Opened(stack))
-----------------------------------------------------------------------------
(* The blocks in which a directory is read. *)

LEMMA NodesFinite ==
  ASSUME NEW S, S \subseteq Nodes
  PROVE  IsFiniteSet(S) /\ Cardinality(S) \in Nat
PROOF BY DirTreeAssumption, FS_Subset, FS_CardinalityType

LEMMA LesserOfTwo ==
  ASSUME NEW a \in Nat, NEW b \in Nat
  PROVE  Min({a, b}) \in Nat /\ Min({a, b}) <= a /\ Min({a, b}) <= b /\ Min({a, b}) \in {a, b}
PROOF
<1>1. \E x \in {a, b} : \A y \in {a, b} : x <= y OBVIOUS
<1>2. Min({a, b}) \in {a, b} /\ \A y \in {a, b} : Min({a, b}) <= y BY <1>1 DEF Min
<1> QED BY <1>2

\* A block is what lies between two positions, each entry once.
LEMMA BlockIsPassed ==
  ASSUME FilesTyped, NEW f \in Frames, Ahead(f) # {}, NEW b \in NextBlocks(f)
  PROVE  /\ b \in Seq(Nodes) /\ Len(b) \in Nat /\ Len(b) >= 1
         /\ Last(b) \in Nodes /\ order[Last(b)] \in Nat
         /\ Cardinality(Passed(disk, order, f.dir, order[Last(b)]))
              = Cardinality(Passed(disk, order, f.dir, f.pos)) + Len(b)
PROOF
<1> DEFINE ahead == Ahead(f)
<1>1. ahead \subseteq Nodes /\ IsFiniteSet(ahead) /\ Cardinality(ahead) \in Nat
  BY NodesFinite DEF Ahead, Children
<1>2. Cardinality(ahead) # 0 BY <1>1, FS_EmptySet
<1>3. PICK size : size = Min({Block, Cardinality(ahead)}) OBVIOUS
<1>4. size \in Nat /\ size >= 1 BY <1>1, <1>2, <1>3, LesserOfTwo, DirTreeAssumption
<1>5. /\ b \in [1 .. size -> ahead]
      /\ \A k \in 1 .. size, n \in ahead : order[n] < order[b[k]] <=> \E j \in 1 .. k - 1 : b[j] = n
  BY <1>3 DEF NextBlocks
<1>6. b \in Seq(Nodes) /\ Len(b) = size /\ b[size] \in ahead
  <2>1. b \in [1 .. size -> Nodes] BY <1>1, <1>5
  <2>2. b \in Seq(Nodes) /\ Len(b) = size BY <1>4, <2>1
  <2> QED BY <1>4, <1>5, <2>2
<1>7. Last(b) = b[size] BY <1>6 DEF Last
<1>8. \A n \in ahead : order[n] \in Nat /\ f.pos < order[n] BY <1>1 DEF FilesTyped, Ahead, Frames
<1>9. \A j, k \in 1 .. size : b[j] = b[k] => j = k
  <2>1. ASSUME NEW j \in 1 .. size, NEW k \in 1 .. size, j < k PROVE b[j] # b[k]
    <3>1. j \in 1 .. k - 1 /\ b[j] \in ahead BY <1>4, <1>5, <2>1
    <3>2. order[b[j]] < order[b[k]] BY <1>5, <3>1
    <3> QED BY <1>5, <1>8, <3>2
  <2> QED BY <1>4, <2>1
<1> DEFINE block == {n \in ahead : order[n] <= order[b[size]]}
<1>10. \A n \in block : \E k \in 1 .. size : b[k] = n
  <2> SUFFICES ASSUME NEW n \in block PROVE \E k \in 1 .. size : b[k] = n OBVIOUS
  <2>1. order[n] < order[b[size]] \/ order[n] = order[b[size]] BY <1>6, <1>8
  <2>2. CASE order[n] = order[b[size]] BY <1>1, <1>4, <1>6, <2>2 DEF FilesTyped
  <2>3. CASE order[n] < order[b[size]]
    <3>1. size \in 1 .. size /\ \A j \in 1 .. size - 1 : j \in 1 .. size BY <1>4
    <3> QED BY <1>5, <2>3, <3>1
  <2> QED BY <2>1, <2>2, <2>3
<1>11. \A k \in 1 .. size : b[k] \in block
  <2> SUFFICES ASSUME NEW k \in 1 .. size PROVE b[k] \in block OBVIOUS
  <2>1. k = size \/ k \in 1 .. size - 1 BY <1>4
  <2>2. size \in 1 .. size BY <1>4
  <2>3. k \in 1 .. size - 1 => order[b[k]] < order[b[size]] BY <1>5, <2>2
  <2> QED BY <1>5, <1>6, <1>8, <2>1, <2>3
<1>12. IsFiniteSet(block) /\ Cardinality(block) = size
  <2>1. IsFiniteSet(1 .. size) /\ Cardinality(1 .. size) = size BY <1>4, FS_Interval
  <2>2. b \in [1 .. size -> block] BY <1>5, <1>11
  <2> HIDE DEF block
  <2>3. b \in Surjection(1 .. size, block) BY <1>10, <2>2 DEF Surjection
  <2>4. b \in Injection(1 .. size, block) BY <1>9, <2>2 DEF Injection, IsInjective
  <2> QED BY <2>1, <2>3, <2>4, FS_Surjection
<1> DEFINE old == Passed(disk, order, f.dir, f.pos)
           new == Passed(disk, order, f.dir, order[b[size]])
<1>13. old \subseteq Nodes /\ IsFiniteSet(old) /\ Cardinality(old) \in Nat
  BY NodesFinite DEF Passed, Kids
<1>14. old \cap block = {} BY <1>8 DEF Passed, Kids, Frames, FilesTyped
<1>15. new = old \cup block
  <2>1. f.pos \in Nat /\ f.pos < order[b[size]] BY <1>6, <1>8 DEF Frames
  <2> QED BY <2>1, <1>6, <1>8 DEF Passed, Kids, Ahead, Children, FilesTyped
<1>16. Cardinality(new) = Cardinality(old) + size
  <2> HIDE DEF old, block, new
  <2>1. Cardinality(old \cup block) = Cardinality(old) + Cardinality(block) - Cardinality(old \cap block)
    BY <1>12, <1>13, FS_Union
  <2>2. Cardinality(old \cap block) = 0 BY <1>14, FS_EmptySet
  <2> QED BY <1>4, <1>12, <1>13, <1>15, <2>1, <2>2
<1> QED BY <1>1, <1>4, <1>6, <1>7, <1>8, <1>16
-----------------------------------------------------------------------------
(* The stack. *)

LEMMA TopFacts ==
  ASSUME NEW st \in Seq(Frames), st # <<>>
  PROVE  /\ Len(st) \in Nat /\ Len(st) >= 1 /\ Last(st) = st[Len(st)] /\ Last(st) \in Frames
         /\ Front(st) \in Seq(Frames) /\ Len(Front(st)) = Len(st) - 1
         /\ \A k \in 1 .. Len(st) - 1 : Front(st)[k] = st[k]
PROOF
<1>1. Len(st) \in Nat /\ Len(st) >= 1 OBVIOUS
<1>2. Front(st) \in Seq(Frames) /\ Len(Front(st)) = Len(st) - 1
      /\ \A k \in 1 .. Len(st) - 1 : Front(st)[k] = st[k]
  <2>1. Front(st) = SubSeq(st, 1, Len(st) - 1) BY DEF Front
  <2>2. Front(st) = [k \in 1 .. Len(st) - 1 |-> st[k]] BY <1>1, <2>1
  <2>3. \A k \in 1 .. Len(st) - 1 : st[k] \in Frames BY <1>1
  <2> QED BY <1>1, <2>2, <2>3
<1> QED BY <1>1, <1>2 DEF Last

\* Exchanging the topmost frame.
Exchanged(st, f, st2) ==
  /\ st2 \in Seq(Frames) /\ Len(st2) = Len(st) /\ st2 # <<>>
  /\ DOMAIN st2 = DOMAIN st
  /\ \A k \in DOMAIN st : st2[k] = IF k = Len(st) THEN f ELSE st[k]

LEMMA TopExchanged ==
  ASSUME NEW st \in Seq(Frames), st # <<>>, NEW f \in Frames
  PROVE  Exchanged(st, f, Append(Front(st), f))
PROOF
<1>0. PICK st2 : st2 = Append(Front(st), f) OBVIOUS
<1>1. PICK g \in Seq(Frames) : g = Front(st) BY TopFacts
<1>2. Len(g) = Len(st) - 1 /\ \A k \in 1 .. Len(st) - 1 : g[k] = st[k] BY <1>1, TopFacts
<1>3. Len(st) \in Nat /\ Len(st) >= 1 OBVIOUS
<1>4. st2 = Append(g, f) BY <1>0, <1>1
<1>5. st2 \in Seq(Frames) /\ Len(st2) = Len(st) BY <1>2, <1>3, <1>4
<1>6. \A k \in 1 .. Len(st) : st2[k] = IF k = Len(st) THEN f ELSE st[k] BY <1>2, <1>3, <1>4
<1>7. DOMAIN st = 1 .. Len(st) /\ DOMAIN st2 = 1 .. Len(st2) BY <1>5
<1> QED BY <1>0, <1>3, <1>5, <1>6, <1>7 DEF Exchanged

LEMMA OpenedFinite ==
  ASSUME NEW st \in Seq(Frames)
  PROVE  IsFiniteSet(Opened(st)) /\ Cardinality(Opened(st)) \in Nat
PROOF
<1>1. Len(st) \in Nat /\ DOMAIN st = 1 .. Len(st) OBVIOUS
<1>2. IsFiniteSet(1 .. Len(st)) BY <1>1, FS_Interval
<1>3. Opened(st) \subseteq 1 .. Len(st) BY <1>1 DEF Opened
<1> QED BY <1>2, <1>3, FS_Subset, FS_CardinalityType

LEMMA Exchange ==
  ASSUME WalkInv, stack # <<>>, UNCHANGED fsVars, NEW f \in Frames, FrameInv(disk, order, f),
         pc' = pc, pc = "walking", stack' = SetTop(f),
         streams' = streams + IF Top.at = "open" /\ f.at # "open" THEN 1 ELSE 0,
         f.at = "open" => Top.at = "open"
  PROVE  WalkInv'
PROOF
<1>1. stack \in Seq(Frames) /\ streams = Cardinality(Opened(stack)) BY DEF WalkInv
<1>2. /\ stack' \in Seq(Frames) /\ Len(stack') = Len(stack) /\ stack' # <<>>
      /\ DOMAIN stack' = DOMAIN stack
      /\ \A k \in DOMAIN stack : stack'[k] = IF k = Len(stack) THEN f ELSE stack[k]
  BY <1>1, TopExchanged DEF SetTop, Exchanged
<1>3. Len(stack) \in DOMAIN stack /\ Top = stack[Len(stack)] BY <1>1, TopFacts DEF Top
<1>4. \A k \in DOMAIN stack' : FrameInv(disk', order', stack'[k])
  BY <1>2 DEF WalkInv, fsVars
<1>5. streams' = Cardinality(Opened(stack'))
  <2>1. CASE Top.at = "open" /\ f.at # "open"
    <3>1. Opened(stack') = Opened(stack) \cup {Len(stack)} /\ Len(stack) \notin Opened(stack)
      BY <1>2, <1>3, <2>1 DEF Opened
    <3> QED BY <1>1, <2>1, <3>1, OpenedFinite, FS_AddElement
  <2>2. CASE ~(Top.at = "open" /\ f.at # "open")
    <3>1. Opened(stack') = Opened(stack) BY <1>2, <1>3, <2>2 DEF Opened
    <3> QED BY <1>1, <2>2, <3>1, OpenedFinite
  <2> QED BY <2>1, <2>2
<1>6. FilesTyped' BY DEF WalkInv, FilesTyped, fsVars
<1> QED BY <1>2, <1>4, <1>5, <1>6 DEF WalkInv

LEMMA Returned ==
  ASSUME WalkInv, stack # <<>>, UNCHANGED fsVars, pc' = pc, pc = "walking", Return
  PROVE  WalkInv'
PROOF
<1>1. stack \in Seq(Frames) /\ streams = Cardinality(Opened(stack)) BY DEF WalkInv
<1>2. stack' = Front(stack) /\ streams' = streams - (IF Top.at = "open" THEN 0 ELSE 1)
  BY DEF Return, ClosedAtReturn
<1>3. /\ stack' \in Seq(Frames) /\ Len(stack) \in Nat /\ Len(stack) >= 1
      /\ DOMAIN stack' = 1 .. Len(stack) - 1 /\ DOMAIN stack = 1 .. Len(stack)
      /\ \A k \in 1 .. Len(stack) - 1 : stack'[k] = stack[k]
      /\ Top = stack[Len(stack)]
  BY <1>1, <1>2, TopFacts DEF Top
<1>4. \A k \in DOMAIN stack' : FrameInv(disk', order', stack'[k])
  BY <1>3 DEF WalkInv, fsVars
<1>5. Opened(stack') = Opened(stack) \ {Len(stack)} BY <1>3 DEF Opened
<1>6. Len(stack) \in Opened(stack) <=> Top.at # "open" BY <1>3 DEF Opened
<1>7. streams' = Cardinality(Opened(stack'))
  <2>1. IsFiniteSet(Opened(stack)) /\ Cardinality(Opened(stack)) \in Nat BY <1>1, OpenedFinite
  <2>2. Cardinality(Opened(stack')) = IF Len(stack) \in Opened(stack) THEN Cardinality(Opened(stack)) - 1
                                      ELSE Cardinality(Opened(stack))
    BY <1>5, <2>1, FS_RemoveElement
  <2> QED BY <1>1, <1>2, <1>6, <2>1, <2>2
<1>8. FilesTyped' BY DEF WalkInv, FilesTyped, fsVars
<1> QED BY <1>3, <1>4, <1>7, <1>8 DEF WalkInv

LEMMA Descended ==
  ASSUME WalkInv, stack # <<>>, UNCHANGED fsVars, pc' = pc, pc = "walking", streams' = streams,
         NEW f \in Frames, FrameInv(disk, order, f), (f.at = "open") = (Top.at = "open"),
         NEW g \in Frames, FrameInv(disk, order, g), g.at = "open",
         stack' = Append(SetTop(f), g)
  PROVE  WalkInv'
PROOF
<1>1. stack \in Seq(Frames) /\ streams = Cardinality(Opened(stack)) BY DEF WalkInv
<1>2. PICK mid : mid = SetTop(f) OBVIOUS
<1>3. /\ mid \in Seq(Frames) /\ Len(mid) = Len(stack) /\ DOMAIN mid = DOMAIN stack
      /\ \A k \in DOMAIN stack : mid[k] = IF k = Len(stack) THEN f ELSE stack[k]
  BY <1>1, <1>2, TopExchanged DEF SetTop, Exchanged
<1>4. Len(stack) \in Nat /\ Len(stack) >= 1 /\ Top = stack[Len(stack)] /\ DOMAIN stack = 1 .. Len(stack)
  BY <1>1, TopFacts DEF Top
<1>5. stack' = Append(mid, g) BY <1>2
<1>6. /\ stack' \in Seq(Frames) /\ Len(stack') = Len(stack) + 1 /\ stack' # <<>>
      /\ DOMAIN stack' = 1 .. Len(stack) + 1
  BY <1>3, <1>5
<1>7. \A k \in DOMAIN stack' : stack'[k] = IF k = Len(stack) + 1 THEN g
                                         ELSE IF k = Len(stack) THEN f ELSE stack[k]
  BY <1>3, <1>4, <1>5, <1>6
<1>8. \A k \in DOMAIN stack' : FrameInv(disk', order', stack'[k])
  BY <1>4, <1>6, <1>7 DEF WalkInv, fsVars
<1>9. Opened(stack') = Opened(stack) BY <1>4, <1>6, <1>7 DEF Opened
<1>10. FilesTyped' BY DEF WalkInv, FilesTyped, fsVars
<1> QED BY <1>1, <1>6, <1>8, <1>9, <1>10 DEF WalkInv
-----------------------------------------------------------------------------
(* The steps of the walk. *)

LEMMA AtTop ==
  ASSUME WalkInv, stack # <<>>
  PROVE  Top \in Frames /\ FrameInv(disk, order, Top) /\ streams \in Nat
PROOF
<1>1. stack \in Seq(Frames) BY DEF WalkInv
<1>2. Top = stack[Len(stack)] /\ Len(stack) \in DOMAIN stack BY <1>1, TopFacts DEF Top
<1>3. streams \in Nat BY <1>1, OpenedFinite DEF WalkInv
<1> QED BY <1>1, <1>2, <1>3 DEF WalkInv

LEMMA NothingPassed ==
  ASSUME FilesTyped, NEW d
  PROVE  Cardinality(Passed(disk, order, d, 0)) = 0
PROOF
<1>1. \A n \in Nodes : ~(order[n] <= 0) BY DEF FilesTyped
<1>2. Passed(disk, order, d, 0) = {} BY <1>1 DEF Passed, Kids
<1> QED BY <1>2, FS_EmptySet

LEMMA AllPassed ==
  ASSUME FilesTyped, NEW f \in Frames, Ahead(f) = {}
  PROVE  Passed(disk, order, f.dir, f.pos) = Kids(disk, f.dir)
PROOF
<1>1. \A n \in Nodes : order[n] \in Nat BY DEF FilesTyped
<1>2. f.pos \in Nat BY DEF Frames
<1> QED BY <1>1, <1>2 DEF Passed, Kids, Ahead, Children

LEMMA OpenDirKeeps == WalkInv /\ OpenDir => WalkInv'
PROOF
<1> SUFFICES ASSUME WalkInv, OpenDir PROVE WalkInv' OBVIOUS
<1>1. /\ pc = "walking" /\ stack # <<>> /\ Top.at = "open" /\ streams' = streams + 1
      /\ stack' = SetTop([Top EXCEPT !.at = "count"]) /\ UNCHANGED fsVars /\ pc' = pc
  BY DEF OpenDir, Doing
<1>2. PICK t \in Frames : t = Top /\ FrameInv(disk, order, t) BY <1>1, AtTop
<1>3. PICK f : f = [t EXCEPT !.at = "count"] OBVIOUS
<1>4. f \in Frames /\ f.at = "count" BY <1>3 DEF Frames
<1>5. f.dir = t.dir /\ f.pos = t.pos /\ f.count = t.count /\ f.entries = t.entries /\ f.buf = t.buf
  BY <1>3 DEF Frames
<1>6. t.at = "open" /\ t.pos = 0 /\ t.count = 0 /\ t.entries = <<>> BY <1>1, <1>2 DEF FrameInv
<1>7. FrameInv(disk, order, f) BY <1>4, <1>5, <1>6, NothingPassed DEF FrameInv, WalkInv
<1> QED BY <1>1, <1>2, <1>3, <1>4, <1>6, <1>7, Exchange

LEMMA BufferFilled ==
  ASSUME NEW b \in Seq(Nodes), NEW u \in Seq(Nodes)
  PROVE  /\ b \o SubSeq(u, Len(b) + 1, Len(u)) \in Seq(Nodes)
         /\ Len(b \o SubSeq(u, Len(b) + 1, Len(u))) >= Len(b)
         /\ Len(b \o SubSeq(u, Len(b) + 1, Len(u))) >= Len(u)
PROOF
<1>1. PICK r : r = SubSeq(u, Len(b) + 1, Len(u)) OBVIOUS
<1>2. Len(b) \in Nat /\ Len(u) \in Nat OBVIOUS
<1>3. r \in Seq(Nodes) /\ Len(r) \in Nat /\ Len(b) + Len(r) >= Len(u)
  <2>1. CASE Len(b) >= Len(u)
    <3>1. r = <<>> BY <1>1, <1>2, <2>1
    <3> QED BY <1>2, <2>1, <3>1
  <2>2. CASE ~(Len(b) >= Len(u))
    <3>1. r = [k \in 1 .. Len(u) - Len(b) |-> u[Len(b) + k]] BY <1>1, <1>2, <2>2
    <3>2. Len(u) - Len(b) \in Nat /\ \A k \in 1 .. Len(u) - Len(b) : u[Len(b) + k] \in Nodes BY <1>2, <2>2
    <3>3. PICK m \in Nat : m = Len(u) - Len(b) BY <3>2
    <3>4. r \in Seq(Nodes) /\ Len(r) = m BY <3>1, <3>2, <3>3
    <3> QED BY <1>2, <3>3, <3>4
  <2> QED BY <2>1, <2>2
<1>4. PICK v : v = b \o r OBVIOUS
<1>5. v \in Seq(Nodes) /\ Len(v) = Len(b) + Len(r) BY <1>3, <1>4
<1> QED BY <1>1, <1>2, <1>3, <1>4, <1>5

\* What reading a block does to the frame.
LEMMA FrameFilled ==
  ASSUME FilesTyped, NEW t \in Frames, Ahead(t) # {}, NEW b \in NextBlocks(t)
  PROVE  /\ Filled(t, b) = [t EXCEPT !.pos = order[Last(b)], !.buf = Filled(t, b).buf]
         /\ Filled(t, b) \in Frames /\ Filled(t, b).at = t.at /\ Filled(t, b).dir = t.dir
         /\ Filled(t, b).count = t.count /\ Filled(t, b).entries = t.entries
         /\ Filled(t, b).changed = t.changed
         /\ Filled(t, b).pos = order[Last(b)]
         /\ Len(b) \in DOMAIN Filled(t, b).buf
         /\ \A k \in 1 .. Len(b) : k \in DOMAIN Filled(t, b).buf
         /\ \A k \in DOMAIN t.buf : k \in DOMAIN Filled(t, b).buf
PROOF
<1>1. /\ b \in Seq(Nodes) /\ Len(b) \in Nat /\ Len(b) >= 1 /\ order[Last(b)] \in Nat
  BY BlockIsPassed
<1>2. PICK u \in Seq(Nodes) : u = t.buf BY DEF Frames
<1>3. PICK v : v = b \o SubSeq(u, Len(b) + 1, Len(u)) OBVIOUS
<1>4. v \in Seq(Nodes) /\ Len(v) >= Len(b) /\ Len(v) >= Len(u) BY <1>1, <1>3, BufferFilled
<1>5. PICK f : f = Filled(t, b) OBVIOUS
<1>6. f = [t EXCEPT !.pos = order[Last(b)], !.buf = v] BY <1>2, <1>3, <1>5 DEF Filled
<1>7. /\ f \in Frames /\ f.at = t.at /\ f.dir = t.dir /\ f.count = t.count /\ f.entries = t.entries
      /\ f.changed = t.changed /\ f.pos = order[Last(b)] /\ f.buf = v
  BY <1>1, <1>4, <1>6 DEF Frames
<1>8. /\ Len(b) \in DOMAIN v /\ \A k \in 1 .. Len(b) : k \in DOMAIN v
      /\ \A k \in DOMAIN u : k \in DOMAIN v
  BY <1>1, <1>4
<1> QED BY <1>2, <1>5, <1>6, <1>7, <1>8

LEMMA CountEntriesKeeps == WalkInv /\ CountEntries => WalkInv'
PROOF
<1> SUFFICES ASSUME WalkInv, CountEntries PROVE WalkInv' OBVIOUS
<1>1. /\ pc = "walking" /\ stack # <<>> /\ Top.at = "count" /\ Ahead(Top) # {}
      /\ UNCHANGED fsVars /\ pc' = pc /\ streams' = streams
  BY DEF CountEntries, Doing
<1>2. PICK b \in NextBlocks(Top) : stack' = SetTop([Filled(Top, b) EXCEPT !.count = @ + Len(b)])
  BY DEF CountEntries
<1>3. PICK t \in Frames : t = Top /\ FrameInv(disk, order, t) BY <1>1, AtTop
<1>4. FilesTyped BY DEF WalkInv
<1>5. PICK h : h = Filled(t, b) OBVIOUS
<1>51. /\ h \in Frames /\ h.at = t.at /\ h.dir = t.dir /\ h.count = t.count
       /\ h.entries = t.entries /\ h.changed = t.changed /\ h.pos = order[Last(b)]
  <2>1. Ahead(t) # {} /\ b \in NextBlocks(t) BY <1>1, <1>2, <1>3
  <2> QED BY <1>4, <1>5, <2>1, FrameFilled
<1>52. PICK c \in Nat : c = h.count + Len(b) BY <1>51, BlockIsPassed, <1>1, <1>2, <1>4, AtTop DEF Frames
<1>6. PICK f : f = [h EXCEPT !.count = c] OBVIOUS
<1>7. /\ Len(b) \in Nat
      /\ Cardinality(Passed(disk, order, t.dir, order[Last(b)]))
              = Cardinality(Passed(disk, order, t.dir, t.pos)) + Len(b)
  BY <1>1, <1>2, <1>3, <1>4, BlockIsPassed
<1>8. /\ f \in Frames /\ f.at = "count" /\ f.dir = t.dir /\ f.count = t.count + Len(b)
      /\ f.entries = t.entries /\ f.changed = t.changed /\ f.pos = order[Last(b)]
  BY <1>1, <1>3, <1>51, <1>52, <1>6 DEF Frames
<1>9. t.entries = <<>> /\ (t.changed \/ t.count = Cardinality(Passed(disk, order, t.dir, t.pos)))
  BY <1>1, <1>3 DEF FrameInv
<1>10. FrameInv(disk, order, f) BY <1>7, <1>8, <1>9 DEF FrameInv
<1>11. stack' = SetTop(f) BY <1>2, <1>3, <1>5, <1>52, <1>6
<1> QED BY <1>1, <1>8, <1>10, <1>11, AtTop, Exchange

LEMMA RewindKeeps == WalkInv /\ Rewind => WalkInv'
PROOF
<1> SUFFICES ASSUME WalkInv, Rewind PROVE WalkInv' OBVIOUS
<1>1. /\ pc = "walking" /\ stack # <<>> /\ Top.at = "count" /\ Ahead(Top) = {}
      /\ UNCHANGED fsVars /\ pc' = pc /\ streams' = streams
      /\ stack' = SetTop([Top EXCEPT !.at = "store", !.pos = 0])
  BY DEF Rewind, Doing, Rewound
<1>2. PICK t \in Frames : t = Top /\ FrameInv(disk, order, t) BY <1>1, AtTop
<1>3. PICK f : f = [t EXCEPT !.at = "store", !.pos = 0] OBVIOUS
<1>4. /\ f \in Frames /\ f.at = "store" /\ f.pos = 0 /\ f.dir = t.dir /\ f.count = t.count
      /\ f.entries = t.entries /\ f.changed = t.changed
  BY <1>3 DEF Frames
<1>5. t.entries = <<>> /\ (t.changed \/ t.count = Cardinality(Passed(disk, order, t.dir, t.pos)))
  BY <1>1, <1>2 DEF FrameInv
<1>6. Passed(disk, order, t.dir, t.pos) = Kids(disk, t.dir)
      /\ Cardinality(Passed(disk, order, t.dir, 0)) = 0
  BY <1>1, <1>2, AllPassed, NothingPassed DEF WalkInv
<1>7. t.count \in Nat BY DEF Frames
<1>8. FrameInv(disk, order, f) BY <1>4, <1>5, <1>6, <1>7 DEF FrameInv
<1>9. stack' = SetTop(f) BY <1>1, <1>2, <1>3
<1> QED BY <1>1, <1>4, <1>8, <1>9, AtTop, Exchange

LEMMA EntriesStored ==
  ASSUME NEW e \in Seq(Nat \ {0}), NEW b \in Seq(Nodes)
  PROVE  LET s == e \o [k \in DOMAIN b |-> k] IN
         /\ s \in Seq(Nat \ {0}) /\ Len(s) = Len(e) + Len(b)
         /\ \A k \in DOMAIN s : (k \in DOMAIN e /\ s[k] = e[k]) \/ s[k] \in 1 .. Len(b)
PROOF
<1>1. PICK m \in Nat : m = Len(b) /\ DOMAIN b = 1 .. m OBVIOUS
<1>2. PICK r : r = [k \in 1 .. m |-> k] OBVIOUS
<1>3. r \in Seq(Nat \ {0}) /\ Len(r) = m /\ \A k \in 1 .. m : r[k] = k BY <1>2
<1>4. PICK s : s = e \o r OBVIOUS
<1>5. /\ s \in Seq(Nat \ {0}) /\ Len(s) = Len(e) + m
      /\ \A k \in 1 .. Len(e) + m : s[k] = IF k <= Len(e) THEN e[k] ELSE r[k - Len(e)]
  BY <1>3, <1>4
<1>6. ASSUME NEW k \in DOMAIN s PROVE (k \in DOMAIN e /\ s[k] = e[k]) \/ s[k] \in 1 .. m
  <2>1. k \in 1 .. Len(e) + m /\ k \in Nat /\ Len(e) \in Nat BY <1>5
  <2>2. CASE k <= Len(e) BY <1>5, <2>1, <2>2
  <2>3. CASE ~(k <= Len(e))
    <3>1. k - Len(e) \in 1 .. m BY <2>1, <2>3
    <3> QED BY <1>3, <1>5, <2>1, <2>3, <3>1
  <2> QED BY <2>2, <2>3
<1> QED BY <1>1, <1>2, <1>4, <1>5, <1>6

LEMMA GoneAstray ==
  ASSUME WalkInv, stack # <<>>, Top.changed, pc' = "undefined", UNCHANGED <<stack, streams, fsVars>>
  PROVE  WalkInv'
PROOF BY DEF WalkInv, FilesTyped, Top, fsVars

LEMMA StoreEntriesKeeps == WalkInv /\ StoreEntries => WalkInv'
PROOF
<1> SUFFICES ASSUME WalkInv, StoreEntries PROVE WalkInv' OBVIOUS
<1>1. /\ pc = "walking" /\ stack # <<>> /\ Top.at = "store" /\ Ahead(Top) # {}
      /\ UNCHANGED fsVars /\ streams' = streams
  BY DEF StoreEntries, Doing
<1>2. PICK t \in Frames : t = Top /\ FrameInv(disk, order, t) BY <1>1, AtTop
<1>3. PICK b \in NextBlocks(t) :
        IF Len(t.entries \o [k \in DOMAIN b |-> k]) > t.count
        THEN pc' = "undefined" /\ UNCHANGED stack
        ELSE /\ stack' = SetTop([Filled(t, b) EXCEPT !.entries = t.entries \o [k \in DOMAIN b |-> k]])
             /\ UNCHANGED pc
  BY <1>2 DEF StoreEntries
<1>4. FilesTyped /\ t \in Frames /\ Ahead(t) # {} BY <1>1, <1>2 DEF WalkInv
<1>5. /\ b \in Seq(Nodes) /\ Len(b) \in Nat
      /\ Cardinality(Passed(disk, order, t.dir, order[Last(b)]))
              = Cardinality(Passed(disk, order, t.dir, t.pos)) + Len(b)
  BY <1>3, <1>4, BlockIsPassed
<1>6. PICK s : s = t.entries \o [k \in DOMAIN b |-> k] OBVIOUS
<1>7. t.entries \in Seq(Nat \ {0}) /\ t.count \in Nat /\ Len(t.entries) \in Nat BY DEF Frames
<1>8. /\ s \in Seq(Nat \ {0}) /\ Len(s) = Len(t.entries) + Len(b) /\ Len(s) \in Nat
      /\ \A k \in DOMAIN s : (k \in DOMAIN t.entries /\ s[k] = t.entries[k]) \/ s[k] \in 1 .. Len(b)
  BY <1>5, <1>6, <1>7, EntriesStored
<1>9. t.changed \/ /\ Len(s) = Cardinality(Passed(disk, order, t.dir, order[Last(b)]))
                   /\ t.count = Cardinality(Kids(disk, t.dir))
  BY <1>1, <1>2, <1>5, <1>8 DEF FrameInv
<1>10. CASE Len(s) > t.count
  <2>1. pc' = "undefined" /\ UNCHANGED stack BY <1>3, <1>6, <1>10
  <2>2. Cardinality(Passed(disk, order, t.dir, order[Last(b)])) <= Cardinality(Kids(disk, t.dir))
    <3>1. Passed(disk, order, t.dir, order[Last(b)]) \subseteq Kids(disk, t.dir)
          /\ Kids(disk, t.dir) \subseteq Nodes
      BY DEF Passed, Kids
    <3> QED BY <3>1, NodesFinite, FS_Subset
  <2>3. t.changed BY <1>7, <1>8, <1>9, <1>10, <2>2
  <2> QED BY <1>1, <1>2, <2>1, <2>3, GoneAstray
<1>11. CASE ~(Len(s) > t.count)
  <2>1. PICK h : h = Filled(t, b) OBVIOUS
  <2>2. /\ h \in Frames /\ h.at = t.at /\ h.dir = t.dir /\ h.count = t.count
        /\ h.changed = t.changed /\ h.pos = order[Last(b)]
        /\ \A k \in 1 .. Len(b) : k \in DOMAIN h.buf
        /\ \A k \in DOMAIN t.buf : k \in DOMAIN h.buf
    BY <1>3, <1>4, <2>1, FrameFilled
  <2>3. PICK f : f = [h EXCEPT !.entries = s] OBVIOUS
  <2>4. /\ f \in Frames /\ f.at = "store" /\ f.dir = t.dir /\ f.count = t.count
        /\ f.entries = s /\ f.changed = t.changed /\ f.pos = order[Last(b)] /\ f.buf = h.buf
    BY <1>1, <1>2, <1>8, <2>2, <2>3 DEF Frames
  <2>5. \A k \in DOMAIN s : s[k] \in DOMAIN h.buf BY <1>2, <1>8, <2>2 DEF FrameInv
  <2>6. FrameInv(disk, order, f) BY <1>7, <1>8, <1>9, <1>11, <2>4, <2>5 DEF FrameInv
  <2>7. stack' = SetTop(f) /\ pc' = pc BY <1>3, <1>6, <1>11, <2>1, <2>3
  <2> QED BY <1>1, <2>4, <2>6, <2>7, AtTop, Exchange
<1> QED BY <1>10, <1>11

LEMMA SortKeeps == WalkInv /\ Sort => WalkInv'
PROOF
<1> SUFFICES ASSUME WalkInv, Sort PROVE WalkInv' OBVIOUS
<1>1. /\ pc = "walking" /\ stack # <<>> /\ Top.at = "store" /\ Ahead(Top) = {}
      /\ UNCHANGED fsVars /\ streams' = streams
  BY DEF Sort, Doing
<1>2. PICK t \in Frames : t = Top /\ FrameInv(disk, order, t) BY <1>1, AtTop
<1>3. IF Len(t.entries) < t.count THEN pc' = "undefined" /\ UNCHANGED stack
      ELSE /\ \E s \in Sorted(t) : stack' = SetTop([t EXCEPT !.at = "print", !.entries = s])
           /\ UNCHANGED pc
  BY <1>2 DEF Sort
<1>4. t.entries \in Seq(Nat \ {0}) /\ t.count \in Nat /\ Len(t.entries) \in Nat BY DEF Frames
<1>5. CASE Len(t.entries) < t.count
  <2>1. Passed(disk, order, t.dir, t.pos) = Kids(disk, t.dir) BY <1>1, <1>2, AllPassed DEF WalkInv
  <2>2. t.changed BY <1>1, <1>2, <1>4, <1>5, <2>1 DEF FrameInv
  <2> QED BY <1>1, <1>2, <1>3, <1>5, <2>2, GoneAstray
<1>6. CASE ~(Len(t.entries) < t.count)
  <2>1. PICK s \in Sorted(t) : stack' = SetTop([t EXCEPT !.at = "print", !.entries = s])
    BY <1>3, <1>6
  <2>2. PICK p \in [DOMAIN t.entries -> DOMAIN t.entries] :
          s = [k \in DOMAIN t.entries |-> t.entries[p[k]]]
    BY DEF Sorted
  <2>3. PICK m \in Nat : m = Len(t.entries) /\ DOMAIN t.entries = 1 .. m BY <1>4
  <2>4. /\ \A k \in 1 .. m : s[k] \in Nat \ {0} /\ s[k] \in DOMAIN t.buf
        /\ s = [k \in 1 .. m |-> s[k]]
    <3>1. \A k \in 1 .. m : t.entries[k] \in Nat \ {0} BY <1>4, <2>3
    <3>2. \A k \in 1 .. m : t.entries[k] \in DOMAIN t.buf BY <1>2, <2>3 DEF FrameInv
    <3>3. \A k \in 1 .. m : p[k] \in 1 .. m /\ s[k] = t.entries[p[k]] BY <2>2, <2>3
    <3>4. s = [k \in 1 .. m |-> s[k]] BY <2>2, <2>3
    <3> QED BY <3>1, <3>2, <3>3, <3>4
  <2>5. s \in Seq(Nat \ {0}) /\ Len(s) = m /\ DOMAIN s = 1 .. m BY <2>4
  <2>6. PICK f : f = [t EXCEPT !.at = "print", !.entries = s] OBVIOUS
  <2>7. f \in Frames /\ f.at = "print" /\ f.count = t.count /\ f.entries = s /\ f.buf = t.buf
    BY <2>5, <2>6 DEF Frames
  <2>8. Len(t.entries) <= t.count BY <1>1, <1>2 DEF FrameInv
  <2>9. FrameInv(disk, order, f)
    <3>1. m = t.count BY <1>4, <1>6, <2>3, <2>8
    <3> QED BY <2>4, <2>5, <2>7, <3>1 DEF FrameInv
  <2>10. stack' = SetTop(f) /\ pc' = pc BY <1>3, <1>6, <2>1, <2>6
  <2> QED BY <1>1, <2>7, <2>9, <2>10, AtTop, Exchange
<1> QED BY <1>5, <1>6

LEMMA RowIsNode ==
  ASSUME WalkInv, PrintRow
  PROVE  Top.buf[Top.entries[Top.i]] \in Nodes
PROOF
<1>1. stack # <<>> /\ Top.at = "print" /\ Top.i <= Top.count BY DEF PrintRow, Doing
<1>2. PICK t \in Frames : t = Top /\ FrameInv(disk, order, t) BY <1>1, AtTop
<1>3. t.entries \in Seq(Nat \ {0}) /\ t.buf \in Seq(Nodes) /\ t.i \in Nat \ {0} /\ t.count \in Nat
  BY DEF Frames
<1>4. Len(t.entries) = t.count /\ \A k \in DOMAIN t.entries : t.entries[k] \in DOMAIN t.buf
  BY <1>1, <1>2 DEF FrameInv
<1>5. t.i \in DOMAIN t.entries BY <1>1, <1>2, <1>3, <1>4
<1> QED BY <1>2, <1>3, <1>4, <1>5

LEMMA PrintRowKeeps == WalkInv /\ PrintRow => WalkInv'
PROOF
<1> SUFFICES ASSUME WalkInv, PrintRow PROVE WalkInv' OBVIOUS
<1>1. /\ pc = "walking" /\ stack # <<>> /\ Top.at = "print" /\ Top.i <= Top.count
      /\ UNCHANGED fsVars /\ streams' = streams /\ pc' = pc
  BY DEF PrintRow, Doing
<1>2. PICK t \in Frames : t = Top /\ FrameInv(disk, order, t) BY <1>1, AtTop
<1>3. PICK n : n = t.buf[t.entries[t.i]] OBVIOUS
<1>4. PICK pstr : pstr = Append(t.pstr, Stem(t.i = t.count)) OBVIOUS
<1>5. PICK f : f = [t EXCEPT !.i = @ + 1] OBVIOUS
<1>6. stack' = IF IsDir(n) THEN Append(SetTop(f), Frame(n, pstr)) ELSE SetTop(f)
  BY <1>2, <1>3, <1>4, <1>5 DEF PrintRow
<1>7. n \in Nodes BY <1>2, <1>3, RowIsNode
<1>8. /\ f \in Frames /\ f.at = "print" /\ f.count = t.count /\ f.entries = t.entries /\ f.buf = t.buf
  BY <1>1, <1>2, <1>5 DEF Frames
<1>9. FrameInv(disk, order, f) BY <1>1, <1>2, <1>8 DEF FrameInv
<1>10. CASE ~IsDir(n) BY <1>1, <1>6, <1>8, <1>9, <1>10, AtTop, Exchange
<1>11. CASE IsDir(n)
  <2>1. PICK g : g = Frame(n, pstr) OBVIOUS
  <2>2. pstr \in Seq(Stems)
    <3>1. t.pstr \in Seq(Stems) BY DEF Frames
    <3>2. Stem(t.i = t.count) \in Stems BY Zenon DEF Stem, Stems
    <3> QED BY <1>4, <3>1, <3>2
  <2>3. g \in Frames /\ g.at = "open" /\ FrameInv(disk, order, g)
    <3>1. <<>> \in Seq(Nodes) /\ <<>> \in Seq(Nat \ {0}) OBVIOUS
    <3>2. g \in Frames BY <1>7, <2>1, <2>2, <3>1 DEF Frame, Frames
    <3>3. g.at = "open" /\ g.entries = <<>> /\ g.pos = 0 /\ g.count = 0 BY <2>1 DEF Frame
    <3> QED BY <3>2, <3>3 DEF FrameInv
  <2>4. stack' = Append(SetTop(f), g) BY <1>6, <1>11, <2>1
  <2> QED BY <1>1, <1>8, <1>9, <2>3, <2>4, Descended
<1> QED BY <1>10, <1>11

LEMMA ReturnsKeep ==
  ASSUME WalkInv, OpenDirFails \/ NoMemoryForEntries \/ NoMemoryForRow \/ CloseDir
  PROVE  WalkInv'
PROOF
<1>1. pc = "walking" /\ stack # <<>> /\ Return /\ UNCHANGED fsVars /\ pc' = pc
  BY DEF OpenDirFails, NoMemoryForEntries, NoMemoryForRow, CloseDir, Doing
<1> QED BY <1>1, Returned

LEMMA NoStack ==
  ASSUME WalkInv, stack = <<>>
  PROVE  streams = 0
PROOF
<1>1. Opened(<<>>) = {} BY DEF Opened
<1> QED BY <1>1, FS_EmptySet DEF WalkInv

\* main, and processDir around the walk.
LEMMA MainKeeps ==
  ASSUME WalkInv, StartDir \/ SkipDir \/ EndDir \/ GrandTotal
  PROVE  WalkInv'
PROOF
<1>1. /\ UNCHANGED fsVars /\ stack = <<>> /\ streams' = streams
      /\ FilesTyped' /\ streams = 0
  <2>1. UNCHANGED fsVars /\ stack = <<>> /\ streams' = streams
    BY DEF StartDir, SkipDir, EndDir, GrandTotal, WalkInv
  <2> QED BY <2>1, NoStack DEF WalkInv, FilesTyped, fsVars
<1>2. CASE StartDir
  <2>1. PICK g : g = Frame(Root, <<>>) OBVIOUS
  <2>2. pc' = "walking" /\ stack' = <<g>> BY <1>2, <2>1 DEF StartDir
  <2>3. g \in Frames /\ FrameInv(disk', order', g) /\ g.at = "open"
    <3>1. <<>> \in Seq(Nodes) /\ <<>> \in Seq(Nat \ {0}) /\ <<>> \in Seq(Stems) OBVIOUS
    <3>2. g \in Frames BY <2>1, <3>1 DEF Frame, Frames
    <3>3. g.at = "open" /\ g.entries = <<>> /\ g.pos = 0 /\ g.count = 0 BY <2>1 DEF Frame
    <3> QED BY <3>2, <3>3 DEF FrameInv
  <2>4. stack' \in Seq(Frames) /\ DOMAIN stack' = {1} /\ stack'[1] = g BY <2>2, <2>3
  <2>5. Opened(stack') = {} BY <2>3, <2>4 DEF Opened
  <2> QED BY <1>1, <2>2, <2>3, <2>4, <2>5, FS_EmptySet DEF WalkInv
<1>3. CASE SkipDir \/ EndDir \/ GrandTotal
  <2>1. stack' = stack /\ pc' \in {"next", "end"} BY <1>3 DEF SkipDir, EndDir, GrandTotal, WalkInv
  <2> QED BY <1>1, <2>1 DEF WalkInv
<1> QED BY <1>2, <1>3

\* Somebody changes a directory: the calls that are reading it notice.
LEMMA OthersKeep ==
  ASSUME WalkInv, NEW n \in Nodes, NEW where \in Spots, NEW d \in Spots,
         \A e \in Nodes \cup {Root} : e # d => disk[n].in # e /\ where # e,
         Change(n, where), Notice(d)
  PROVE  WalkInv'
PROOF
<1>1. /\ disk' = [disk EXCEPT ![n].in = where] /\ order' = order /\ pc' = pc /\ streams' = streams
      /\ pc \in {"next", "walking"}
  BY DEF Change, WalkInv
<1>2. stack' = [k \in DOMAIN stack |->
                 IF stack[k].dir = d /\ stack[k].at \in {"count", "store"}
                 THEN [stack[k] EXCEPT !.changed = TRUE] ELSE stack[k]]
  BY DEF Notice
<1>3. stack \in Seq(Frames) /\ Len(stack) \in Nat /\ DOMAIN stack = 1 .. Len(stack) BY DEF WalkInv
<1>4. FilesTyped'
  <2>1. disk \in [Nodes -> [in : Spots, type : FileTypes]] BY DEF WalkInv, FilesTyped
  <2>2. disk' \in [Nodes -> [in : Spots, type : FileTypes]] BY <1>1, <2>1
  <2> QED BY <1>1, <2>2 DEF WalkInv, FilesTyped
<1>5. ASSUME NEW e \in Nodes \cup {Root}, e # d PROVE Kids(disk', e) = Kids(disk, e)
  <2>1. \A m \in Nodes : disk'[m].in = IF m = n THEN where ELSE disk[m].in
    BY <1>1 DEF WalkInv, FilesTyped
  <2> QED BY <1>5, <2>1 DEF Kids
<1>6. \A k \in DOMAIN stack :
        /\ stack'[k] \in Frames /\ stack'[k].at = stack[k].at
        /\ FrameInv(disk', order', stack'[k])
  <2> SUFFICES ASSUME NEW k \in DOMAIN stack
               PROVE  /\ stack'[k] \in Frames /\ stack'[k].at = stack[k].at
                      /\ FrameInv(disk', order', stack'[k])
    OBVIOUS
  <2>1. PICK t \in Frames : t = stack[k] /\ FrameInv(disk, order, t) BY <1>3 DEF WalkInv
  <2>2. CASE t.dir = d /\ t.at \in {"count", "store"}
    <3>1. PICK f : f = [t EXCEPT !.changed = TRUE] OBVIOUS
    <3>2. stack'[k] = f BY <1>2, <2>1, <2>2, <3>1
    <3>3. /\ f \in Frames /\ f.at = t.at /\ f.changed /\ f.entries = t.entries /\ f.buf = t.buf
          /\ f.count = t.count
      BY <3>1 DEF Frames
    <3>4. FrameInv(disk', order', f) BY <2>1, <2>2, <3>3 DEF FrameInv
    <3> QED BY <2>1, <3>2, <3>3, <3>4
  <2>3. CASE ~(t.dir = d /\ t.at \in {"count", "store"})
    <3>1. stack'[k] = t BY <1>2, <2>1, <2>3
    <3>2. t.at \in {"count", "store"} =>
            /\ Kids(disk', t.dir) = Kids(disk, t.dir)
            /\ Passed(disk', order', t.dir, t.pos) = Passed(disk, order, t.dir, t.pos)
      BY <1>1, <1>5, <2>3 DEF Frames, Passed
    <3>3. FrameInv(disk', order', t) BY <2>1, <3>2 DEF FrameInv
    <3> QED BY <2>1, <3>1, <3>3
  <2> QED BY <2>2, <2>3
<1>7. stack' \in Seq(Frames) /\ Len(stack') = Len(stack) /\ DOMAIN stack' = DOMAIN stack
  <2>1. PICK m \in Nat : m = Len(stack) BY <1>3
  <2>2. stack' \in [1 .. m -> Frames] BY <1>2, <1>3, <1>6, <2>1
  <2> QED BY <1>3, <2>1, <2>2
<1>8. Opened(stack') = Opened(stack) BY <1>6, <1>7 DEF Opened
<1>9. pc' = "next" => stack' = <<>>
  <2> SUFFICES ASSUME pc' = "next" PROVE stack' = <<>> OBVIOUS
  <2>1. stack = <<>> BY <1>1 DEF WalkInv
  <2>2. Len(stack') = 0 BY <1>7, <2>1
  <2> QED BY <1>7, <2>2
<1> QED BY <1>1, <1>4, <1>6, <1>7, <1>8, <1>9 DEF WalkInv

LEMMA ChangesKeep ==
  ASSUME WalkInv, NEW n \in Nodes, RemoveFile(n) \/ \E d \in Nodes \cup {Root} : CreateFile(n, d)
  PROVE  WalkInv'
PROOF
<1>1. FRESH \notin Nodes \cup {Root} /\ GONE \notin Nodes \cup {Root}
  BY DirTreeAssumption DEF FRESH, GONE
<1>2. CASE RemoveFile(n)
  <2>1. disk[n].in \in Spots BY DEF WalkInv, FilesTyped
  <2>2. GONE \in Spots BY DEF Spots
  <2> QED BY <1>1, <1>2, <2>1, <2>2, OthersKeep DEF RemoveFile
<1>3. ASSUME NEW d \in Nodes \cup {Root}, CreateFile(n, d) PROVE WalkInv'
  <2>1. d \in Spots BY DEF Spots
  <2>2. disk[n].in = FRESH BY <1>3 DEF CreateFile
  <2> QED BY <1>1, <1>3, <2>1, <2>2, OthersKeep DEF CreateFile
<1> QED BY <1>2, <1>3

LEMMA InitKeeps == DirTreeInit => WalkInv
PROOF
<1> SUFFICES ASSUME DirTreeInit PROVE WalkInv OBVIOUS
<1>1. stack = <<>> /\ streams = 0 /\ pc = "next" BY DEF DirTreeInit
<1>2. FilesTyped
  <2>1. Cardinality(Nodes) \in Nat BY NodesFinite
  <2>2. disk \in [Nodes -> [in : Spots, type : FileTypes]]
    BY DirTreeAssumption DEF DirTreeInit, Spots
  <2>3. order \in [Nodes -> 1 .. Cardinality(Nodes)] /\ \A m, n \in Nodes : order[m] = order[n] => m = n
    BY DEF DirTreeInit, IsInjective
  <2> QED BY <2>1, <2>2, <2>3 DEF FilesTyped
<1>3. Opened(<<>>) = {} BY DEF Opened
<1>4. <<>> \in Seq(Frames) /\ DOMAIN <<>> = {} OBVIOUS
<1> QED BY <1>1, <1>2, <1>3, <1>4, FS_EmptySet DEF WalkInv

THEOREM WalkInvariant == DirTreeSpec => []WalkInv
PROOF
<1>1. DirTreeInit => WalkInv BY InitKeeps
<1>2. WalkInv /\ [DirTreeNext]_dirTreeVars => WalkInv'
  <2> SUFFICES ASSUME WalkInv, [DirTreeNext]_dirTreeVars PROVE WalkInv' OBVIOUS
  <2>1. CASE Walk
    BY <2>1, OpenDirKeeps, ReturnsKeep, CountEntriesKeeps, RewindKeeps, StoreEntriesKeeps, SortKeeps,
       PrintRowKeeps, MainKeeps DEF Walk
  <2>2. CASE \E n \in Nodes : RemoveFile(n) \/ \E d \in Nodes \cup {Root} : CreateFile(n, d)
    BY <2>2, ChangesKeep
  <2>3. CASE UNCHANGED dirTreeVars
    BY <2>3 DEF dirTreeVars, fsVars, WalkInv, FilesTyped, Top, Opened
  <2> QED BY <2>1, <2>2, <2>3 DEF DirTreeNext
<1> QED BY <1>1, <1>2, PTL DEF DirTreeSpec

\* Whatever the others do, and whatever fails, an entry is stored beyond the array or a
\* pointer used that was never set only if the directory changed between the passes over
\* it, and each call closes its stream on every way out.
THEOREM WalkIsSound == DirTreeSpec => []WalkSound
PROOF
<1>1. WalkInv => WalkSound BY DEF WalkInv, WalkSound, ArrayFits, StreamsClosed, Opened
<1> QED BY <1>1, WalkInvariant, PTL
-----------------------------------------------------------------------------
(* What is printed: rs stands for the lines, dk for the disk.              *)

IsSeq(rs) == \E S : rs \in Seq(S)

\* The lines between two others that count for t.
Counts(line, dk, t) ==
  /\ "name" \in DOMAIN line /\ line.name \in Nodes
  /\ IF t = "size" THEN line.info \notin {"", "No such file"} ELSE dk[line.name].type = t
Hits(rs, dk, t, from, to) == {k \in DOMAIN rs : from < k /\ k < to /\ Counts(rs[k], dk, t)}

Right(stats, rs, dk, from, to) ==
  \A t \in DOMAIN stats : stats[t] = Cardinality(Hits(rs, dk, t, from, to))

IsLine(rs, k, field) == k \in DOMAIN rs /\ field \in DOMAIN rs[k]
LastPath(rs, p, to) ==
  /\ IsLine(rs, p, "path") /\ ~IsLine(rs, p, "name") /\ p < to
  /\ \A j \in DOMAIN rs : IsLine(rs, j, "path") /\ j < to => j <= p

FootersRight(rs, dk) ==
  \A k \in DOMAIN rs : IsLine(rs, k, "footer") =>
    \E p \in DOMAIN rs : LastPath(rs, p, k) /\ Right(rs[k].footer, rs, dk, p, k)
GrandTotalsRight(rs, dk) ==
  \A k \in DOMAIN rs : IsLine(rs, k, "total") => Right(rs[k].total, rs, dk, 0, k)
PrintedRight(rs, dk) == FootersRight(rs, dk) /\ GrandTotalsRight(rs, dk)

\* While a directory is walked, and after it.
Adding(rs, dk, ds, ts) ==
  \E p \in DOMAIN rs : /\ LastPath(rs, p, Len(rs) + 1)
                       /\ Right(ds, rs, dk, p, Len(rs) + 1) /\ Right(ts, rs, dk, 0, p)
Added(rs, dk, ts) == Right(ts, rs, dk, 0, Len(rs) + 1)

Stats == [Counted \cup {"size"} -> Nat]
-----------------------------------------------------------------------------
LEMMA SeqFacts ==
  ASSUME NEW rs, IsSeq(rs)
  PROVE  Len(rs) \in Nat /\ DOMAIN rs = 1 .. Len(rs)
PROOF BY DEF IsSeq

LEMMA LineAppended ==
  ASSUME NEW rs, IsSeq(rs), NEW x
  PROVE  LET r2 == Append(rs, x) IN
         /\ IsSeq(r2) /\ Len(r2) = Len(rs) + 1 /\ DOMAIN r2 = 1 .. Len(rs) + 1
         /\ \A k \in 1 .. Len(rs) : r2[k] = rs[k]
         /\ r2[Len(rs) + 1] = x
PROOF
<1>1. PICK S : rs \in Seq(S) BY DEF IsSeq
<1>2. PICK m \in Nat : m = Len(rs) BY <1>1
<1>3. PICK T : T = S \cup {x} OBVIOUS
<1>4. rs = [k \in 1 .. m |-> rs[k]] /\ \A k \in 1 .. m : rs[k] \in T BY <1>1, <1>2, <1>3
<1>5. rs \in Seq(T) /\ x \in T
  <2>1. rs \in [1 .. m -> T] BY <1>4
  <2>2. rs \in Seq(T) BY <1>2, <2>1
  <2> QED BY <1>3, <2>2
<1>6. PICK r2 : r2 = Append(rs, x) OBVIOUS
<1>7. /\ r2 \in Seq(T) /\ Len(r2) = m + 1 /\ r2[m + 1] = x /\ \A k \in 1 .. m : r2[k] = rs[k]
  BY <1>2, <1>5, <1>6
<1> QED BY <1>2, <1>6, <1>7 DEF IsSeq

\* What lies between two lines stays the same when others follow.
LEMMA HitsBefore ==
  ASSUME NEW rs, IsSeq(rs), NEW x, NEW dk, NEW t, NEW from \in Nat, NEW to \in Nat, to <= Len(rs) + 1
  PROVE  Hits(Append(rs, x), dk, t, from, to) = Hits(rs, dk, t, from, to)
PROOF
<1>1. PICK r2 : r2 = Append(rs, x) OBVIOUS
<1>2. /\ DOMAIN r2 = 1 .. Len(rs) + 1 /\ DOMAIN rs = 1 .. Len(rs) /\ Len(rs) \in Nat
      /\ \A k \in 1 .. Len(rs) : r2[k] = rs[k]
  BY <1>1, LineAppended, SeqFacts
<1>3. \A k : from < k /\ k < to /\ k \in 1 .. Len(rs) + 1 => k \in 1 .. Len(rs) BY <1>2
<1>4. \A k \in 1 .. Len(rs) : k \in 1 .. Len(rs) + 1 BY <1>2
<1> QED BY <1>1, <1>2, <1>3, <1>4 DEF Hits

LEMMA HitsAtEnd ==
  ASSUME NEW rs, IsSeq(rs), NEW x, NEW dk, NEW t, NEW from \in Nat, from <= Len(rs)
  PROVE  Hits(Append(rs, x), dk, t, from, Len(rs) + 2)
           = Hits(rs, dk, t, from, Len(rs) + 1) \cup IF Counts(x, dk, t) THEN {Len(rs) + 1} ELSE {}
PROOF
<1>1. PICK r2 : r2 = Append(rs, x) OBVIOUS
<1>2. /\ DOMAIN r2 = 1 .. Len(rs) + 1 /\ DOMAIN rs = 1 .. Len(rs) /\ Len(rs) \in Nat
      /\ \A k \in 1 .. Len(rs) : r2[k] = rs[k]
      /\ r2[Len(rs) + 1] = x
  BY <1>1, LineAppended, SeqFacts
<1>3. PICK n \in Nat : n = Len(rs) BY <1>2
<1>4. \A k : k \in Hits(r2, dk, t, from, n + 2) <=>
               \/ k \in Hits(rs, dk, t, from, n + 1)
               \/ k = n + 1 /\ Counts(x, dk, t)
  <2> SUFFICES ASSUME NEW k
               PROVE  k \in Hits(r2, dk, t, from, n + 2) <=>
                         \/ k \in Hits(rs, dk, t, from, n + 1)
                         \/ k = n + 1 /\ Counts(x, dk, t)
    OBVIOUS
  <2>1. CASE k \in 1 .. n
    <3>1. r2[k] = rs[k] /\ k < n + 1 /\ k < n + 2 /\ k # n + 1 /\ k \in 1 .. n + 1 BY <1>2, <1>3, <2>1
    <3> QED BY <1>2, <1>3, <2>1, <3>1 DEF Hits
  <2>2. CASE k = n + 1
    <3>1. r2[k] = x /\ k < n + 2 /\ from < k /\ k \in 1 .. n + 1 /\ ~(k < n + 1) BY <1>2, <1>3, <2>2
    <3> QED BY <1>2, <1>3, <2>2, <3>1 DEF Hits
  <2>3. CASE k \notin 1 .. n + 1
    <3>1. k \notin 1 .. n BY <2>3
    <3> QED BY <1>2, <1>3, <2>3, <3>1 DEF Hits
  <2>4. k \in 1 .. n \/ k = n + 1 \/ k \notin 1 .. n + 1 OBVIOUS
  <2> QED BY <2>1, <2>2, <2>3, <2>4
<1> QED BY <1>1, <1>3, <1>4

LEMMA HitsFinite ==
  ASSUME NEW rs, IsSeq(rs), NEW dk, NEW t, NEW from, NEW to
  PROVE  /\ IsFiniteSet(Hits(rs, dk, t, from, to)) /\ Cardinality(Hits(rs, dk, t, from, to)) \in Nat
         /\ Len(rs) + 1 \notin Hits(rs, dk, t, from, to)
PROOF
<1>1. Len(rs) \in Nat /\ DOMAIN rs = 1 .. Len(rs) BY SeqFacts
<1>2. Hits(rs, dk, t, from, to) \subseteq 1 .. Len(rs) BY <1>1 DEF Hits
<1>3. IsFiniteSet(1 .. Len(rs)) BY <1>1, FS_Interval
<1>4. Len(rs) + 1 \notin 1 .. Len(rs) BY <1>1
<1> QED BY <1>2, <1>3, <1>4, FS_Subset, FS_CardinalityType

\* So statistics that were right for what is printed above stay right, and a line more
\* makes them greater by one where it counts.
LEMMA RightBefore ==
  ASSUME NEW rs, IsSeq(rs), NEW x, NEW dk, NEW stats, NEW from \in Nat, NEW to \in Nat,
         to <= Len(rs) + 1, Right(stats, rs, dk, from, to)
  PROVE  Right(stats, Append(rs, x), dk, from, to)
PROOF BY HitsBefore DEF Right

LEMMA RightAtEnd ==
  ASSUME NEW rs, IsSeq(rs), NEW x, NEW dk, NEW stats, NEW more, NEW from \in Nat, from <= Len(rs),
         Right(stats, rs, dk, from, Len(rs) + 1), DOMAIN more = DOMAIN stats,
         \A t \in DOMAIN stats : more[t] = stats[t] + IF Counts(x, dk, t) THEN 1 ELSE 0
  PROVE  Right(more, Append(rs, x), dk, from, Len(rs) + 2)
PROOF
<1> SUFFICES ASSUME NEW t \in DOMAIN stats
             PROVE  more[t] = Cardinality(Hits(Append(rs, x), dk, t, from, Len(rs) + 2))
  BY DEF Right
<1>1. PICK H : H = Hits(rs, dk, t, from, Len(rs) + 1) OBVIOUS
<1>2. IsFiniteSet(H) /\ Cardinality(H) \in Nat /\ Len(rs) + 1 \notin H BY <1>1, HitsFinite
<1>3. stats[t] = Cardinality(H) BY <1>1 DEF Right
<1>4. Hits(Append(rs, x), dk, t, from, Len(rs) + 2)
        = H \cup IF Counts(x, dk, t) THEN {Len(rs) + 1} ELSE {}
  BY <1>1, HitsAtEnd
<1>5. CASE Counts(x, dk, t)
  <2>1. Cardinality(H \cup {Len(rs) + 1}) = Cardinality(H) + 1 BY <1>2, FS_AddElement
  <2> QED BY <1>3, <1>4, <1>5, <2>1
<1>6. CASE ~Counts(x, dk, t)
  <2>1. Hits(Append(rs, x), dk, t, from, Len(rs) + 2) = H BY <1>4, <1>6
  <2> QED BY <1>2, <1>3, <1>6, <2>1
<1> QED BY <1>5, <1>6

LEMMA NoneCounts ==
  ASSUME NEW rs, IsSeq(rs), NEW x, NEW dk, NEW stats, NEW from \in Nat, from <= Len(rs),
         Right(stats, rs, dk, from, Len(rs) + 1), \A t : ~Counts(x, dk, t)
  PROVE  Right(stats, Append(rs, x), dk, from, Len(rs) + 2)
PROOF
<1> SUFFICES ASSUME NEW t \in DOMAIN stats
             PROVE  stats[t] = Cardinality(Hits(Append(rs, x), dk, t, from, Len(rs) + 2))
  BY DEF Right
<1>1. Hits(Append(rs, x), dk, t, from, Len(rs) + 2) = Hits(rs, dk, t, from, Len(rs) + 1)
  <2>1. PICK H : H = Hits(rs, dk, t, from, Len(rs) + 1) OBVIOUS
  <2>2. Hits(Append(rs, x), dk, t, from, Len(rs) + 2) = H \cup IF Counts(x, dk, t) THEN {Len(rs) + 1} ELSE {}
    BY <2>1, HitsAtEnd
  <2>3. ~Counts(x, dk, t) OBVIOUS
  <2> QED BY <2>1, <2>2, <2>3
<1> QED BY <1>1 DEF Right

LEMMA LastPathBefore ==
  ASSUME NEW rs, IsSeq(rs), NEW x, NEW p, NEW to \in Nat, to <= Len(rs) + 1, LastPath(rs, p, to)
  PROVE  LastPath(Append(rs, x), p, to)
PROOF
<1>1. PICK r2 : r2 = Append(rs, x) OBVIOUS
<1>2. /\ DOMAIN r2 = 1 .. Len(rs) + 1 /\ DOMAIN rs = 1 .. Len(rs) /\ Len(rs) \in Nat
      /\ \A k \in 1 .. Len(rs) : r2[k] = rs[k]
  BY <1>1, LineAppended, SeqFacts
<1>3. \A k \in 1 .. Len(rs) + 1 : k < to => k \in 1 .. Len(rs) BY <1>2
<1>4. \A k \in 1 .. Len(rs) : k \in 1 .. Len(rs) + 1 BY <1>2
<1> QED BY <1>1, <1>2, <1>3, <1>4 DEF LastPath, IsLine

LEMMA LastPathAtEnd ==
  ASSUME NEW rs, IsSeq(rs), NEW x, NEW p, "path" \notin DOMAIN x, LastPath(rs, p, Len(rs) + 1)
  PROVE  LastPath(Append(rs, x), p, Len(rs) + 2)
PROOF
<1>1. PICK r2 : r2 = Append(rs, x) OBVIOUS
<1>2. /\ DOMAIN r2 = 1 .. Len(rs) + 1 /\ DOMAIN rs = 1 .. Len(rs) /\ Len(rs) \in Nat
      /\ \A k \in 1 .. Len(rs) : r2[k] = rs[k]
      /\ r2[Len(rs) + 1] = x
  BY <1>1, LineAppended, SeqFacts
<1>3. \A k \in 1 .. Len(rs) + 1 : k = Len(rs) + 1 \/ (k \in 1 .. Len(rs) /\ k < Len(rs) + 1) BY <1>2
<1>4. \A k \in 1 .. Len(rs) : k \in 1 .. Len(rs) + 1 /\ k < Len(rs) + 2 BY <1>2
<1>5. p \in 1 .. Len(rs) /\ \A j \in 1 .. Len(rs) : "path" \in DOMAIN rs[j] => j <= p
  BY <1>2, <1>3, <1>4 DEF LastPath, IsLine
<1>6. \A j \in 1 .. Len(rs) + 1 : "path" \in DOMAIN r2[j] => j <= p BY <1>2, <1>3, <1>5
<1> QED BY <1>1, <1>2, <1>4, <1>5, <1>6 DEF LastPath, IsLine

LEMMA PrintedGrows ==
  ASSUME NEW rs, IsSeq(rs), NEW x, NEW dk, PrintedRight(rs, dk),
         "footer" \in DOMAIN x => \E p \in DOMAIN rs : /\ LastPath(rs, p, Len(rs) + 1)
                                                      /\ Right(x.footer, rs, dk, p, Len(rs) + 1),
         "total" \in DOMAIN x => Right(x.total, rs, dk, 0, Len(rs) + 1)
  PROVE  PrintedRight(Append(rs, x), dk)
PROOF
<1>1. PICK r2 : r2 = Append(rs, x) OBVIOUS
<1>2. /\ DOMAIN r2 = 1 .. Len(rs) + 1 /\ DOMAIN rs = 1 .. Len(rs) /\ Len(rs) \in Nat
      /\ \A k \in 1 .. Len(rs) : r2[k] = rs[k]
      /\ r2[Len(rs) + 1] = x
  BY <1>1, LineAppended, SeqFacts
<1>3. ASSUME NEW k \in DOMAIN r2, IsLine(r2, k, "footer")
      PROVE  \E p \in DOMAIN r2 : LastPath(r2, p, k) /\ Right(r2[k].footer, r2, dk, p, k)
  <2>0. k \in Nat /\ k <= Len(rs) + 1 BY <1>2
  <2>1. PICK p \in DOMAIN rs : LastPath(rs, p, k) /\ Right(r2[k].footer, rs, dk, p, k)
    <3>1. CASE k \in 1 .. Len(rs) BY <1>2, <1>3, <3>1 DEF PrintedRight, FootersRight, IsLine
    <3>2. CASE k = Len(rs) + 1 BY <1>2, <1>3, <3>2 DEF IsLine
    <3> QED BY <1>2, <3>1, <3>2
  <2>2. p \in Nat /\ p \in DOMAIN r2 BY <1>2, <2>1
  <2>3. LastPath(r2, p, k) BY <1>1, <2>0, <2>1, LastPathBefore
  <2>4. Right(r2[k].footer, r2, dk, p, k) BY <1>1, <2>0, <2>1, <2>2, RightBefore
  <2> QED BY <2>2, <2>3, <2>4
<1>4. ASSUME NEW k \in DOMAIN r2, IsLine(r2, k, "total") PROVE Right(r2[k].total, r2, dk, 0, k)
  <2>0. k \in Nat /\ k <= Len(rs) + 1 BY <1>2
  <2>1. Right(r2[k].total, rs, dk, 0, k)
    <3>1. CASE k \in 1 .. Len(rs) BY <1>2, <1>4, <3>1 DEF PrintedRight, GrandTotalsRight, IsLine
    <3>2. CASE k = Len(rs) + 1 BY <1>2, <1>4, <3>2 DEF IsLine
    <3> QED BY <1>2, <3>1, <3>2
  <2> QED BY <1>1, <2>0, <2>1, RightBefore
<1> QED BY <1>1, <1>3, <1>4 DEF PrintedRight, FootersRight, GrandTotalsRight

\* A line of the tree, and one that counts for nothing.
LEMMA EntryPrinted ==
  ASSUME NEW rs, IsSeq(rs), NEW x, NEW dk, NEW ds, NEW more, NEW ts, "path" \notin DOMAIN x,
         Adding(rs, dk, ds, ts), DOMAIN more = DOMAIN ds,
         \A t \in DOMAIN ds : more[t] = ds[t] + IF Counts(x, dk, t) THEN 1 ELSE 0
  PROVE  Adding(Append(rs, x), dk, more, ts)
PROOF
<1>1. PICK r2 : r2 = Append(rs, x) OBVIOUS
<1>2. Len(r2) = Len(rs) + 1 /\ DOMAIN r2 = 1 .. Len(rs) + 1 /\ DOMAIN rs = 1 .. Len(rs) /\ Len(rs) \in Nat
  BY <1>1, LineAppended, SeqFacts
<1>3. PICK p \in DOMAIN rs : /\ LastPath(rs, p, Len(rs) + 1)
                             /\ Right(ds, rs, dk, p, Len(rs) + 1) /\ Right(ts, rs, dk, 0, p)
  BY DEF Adding
<1>4. p \in Nat /\ p <= Len(rs) /\ p <= Len(rs) + 1 /\ p \in DOMAIN r2 BY <1>2, <1>3
<1>5. LastPath(r2, p, Len(rs) + 2) BY <1>1, <1>3, LastPathAtEnd
<1>6. Right(more, r2, dk, p, Len(rs) + 2) BY <1>1, <1>3, <1>4, RightAtEnd
<1>7. Right(ts, r2, dk, 0, p) BY <1>1, <1>3, <1>4, RightBefore
<1>8. Len(r2) + 1 = Len(rs) + 2 BY <1>2
<1> QED BY <1>1, <1>4, <1>5, <1>6, <1>7, <1>8 DEF Adding

LEMMA NothingPrinted ==
  ASSUME NEW rs, IsSeq(rs), NEW x, NEW dk, NEW ts, \A t : ~Counts(x, dk, t)
  PROVE  /\ Added(rs, dk, ts) => Added(Append(rs, x), dk, ts)
         /\ \A ds : "path" \notin DOMAIN x /\ Adding(rs, dk, ds, ts) => Adding(Append(rs, x), dk, ds, ts)
PROOF
<1>1. PICK r2 : r2 = Append(rs, x) OBVIOUS
<1>2. Len(r2) = Len(rs) + 1 /\ DOMAIN r2 = 1 .. Len(rs) + 1 /\ DOMAIN rs = 1 .. Len(rs) /\ Len(rs) \in Nat
  BY <1>1, LineAppended, SeqFacts
<1>3. Len(r2) + 1 = Len(rs) + 2 /\ 0 <= Len(rs) BY <1>2
<1>4. Added(rs, dk, ts) => Added(r2, dk, ts) BY <1>1, <1>3, NoneCounts DEF Added
<1>5. ASSUME NEW ds, "path" \notin DOMAIN x, Adding(rs, dk, ds, ts) PROVE Adding(r2, dk, ds, ts)
  <2>1. PICK p \in DOMAIN rs : /\ LastPath(rs, p, Len(rs) + 1)
                               /\ Right(ds, rs, dk, p, Len(rs) + 1) /\ Right(ts, rs, dk, 0, p)
    BY <1>5 DEF Adding
  <2>2. p \in Nat /\ p <= Len(rs) /\ p <= Len(rs) + 1 /\ p \in DOMAIN r2 BY <1>2, <2>1
  <2>3. LastPath(r2, p, Len(rs) + 2) BY <1>1, <1>5, <2>1, LastPathAtEnd
  <2>4. Right(ds, r2, dk, p, Len(rs) + 2) BY <1>1, <2>1, <2>2, NoneCounts
  <2>5. Right(ts, r2, dk, 0, p) BY <1>1, <2>1, <2>2, RightBefore
  <2> QED BY <1>3, <2>2, <2>3, <2>4, <2>5 DEF Adding
<1> QED BY <1>1, <1>4, <1>5

\* The line of a path begins a new directory.
LEMMA PathPrinted ==
  ASSUME NEW rs, IsSeq(rs), NEW x, NEW dk, NEW ts, "path" \in DOMAIN x, "name" \notin DOMAIN x,
         Added(rs, dk, ts)
  PROVE  Adding(Append(rs, x), dk, NoStats, ts)
PROOF
<1>1. PICK r2 : r2 = Append(rs, x) OBVIOUS
<1>2. /\ Len(r2) = Len(rs) + 1 /\ DOMAIN r2 = 1 .. Len(rs) + 1 /\ Len(rs) \in Nat
      /\ r2[Len(rs) + 1] = x
  BY <1>1, LineAppended, SeqFacts
<1>3. PICK p \in Nat : p = Len(rs) + 1 /\ p \in DOMAIN r2 /\ p < Len(r2) + 1 /\ \A j \in DOMAIN r2 : j <= p
  BY <1>2
<1>4. LastPath(r2, p, Len(r2) + 1) BY <1>2, <1>3 DEF LastPath, IsLine
<1>5. Right(NoStats, r2, dk, p, Len(r2) + 1)
  <2>1. \A k \in DOMAIN r2 : ~(p < k) BY <1>2, <1>3
  <2>2. \A t : Hits(r2, dk, t, p, Len(r2) + 1) = {} BY <2>1 DEF Hits
  <2> QED BY <2>2, FS_EmptySet DEF Right, NoStats
<1>6. Right(ts, r2, dk, 0, p) BY <1>1, <1>2, <1>3, RightBefore DEF Added
<1> QED BY <1>1, <1>3, <1>4, <1>5, <1>6 DEF Adding

\* The directory is added to the total.
LEMMA Summed ==
  ASSUME NEW rs, IsSeq(rs), NEW dk, NEW ds, NEW ts, NEW sum, Adding(rs, dk, ds, ts),
         DOMAIN sum = DOMAIN ts, DOMAIN ds = DOMAIN ts, \A t \in DOMAIN ts : sum[t] = ts[t] + ds[t]
  PROVE  Added(rs, dk, sum)
PROOF
<1>1. PICK p \in DOMAIN rs : /\ LastPath(rs, p, Len(rs) + 1)
                             /\ Right(ds, rs, dk, p, Len(rs) + 1) /\ Right(ts, rs, dk, 0, p)
  BY DEF Adding
<1>2. Len(rs) \in Nat /\ DOMAIN rs = 1 .. Len(rs) BY SeqFacts
<1> SUFFICES ASSUME NEW t \in DOMAIN sum PROVE sum[t] = Cardinality(Hits(rs, dk, t, 0, Len(rs) + 1))
  BY DEF Added, Right
<1>3. PICK G, H : G = Hits(rs, dk, t, 0, p) /\ H = Hits(rs, dk, t, p, Len(rs) + 1) OBVIOUS
<1>4. ts[t] = Cardinality(G) /\ ds[t] = Cardinality(H) BY <1>1, <1>3 DEF Right
<1>5. IsFiniteSet(G) /\ IsFiniteSet(H) /\ Cardinality(G) \in Nat /\ Cardinality(H) \in Nat
  BY <1>3, HitsFinite
<1>6. G \cap H = {} BY <1>2, <1>3 DEF Hits
<1>7. Hits(rs, dk, t, 0, Len(rs) + 1) = G \cup H
  <2>1. ~Counts(rs[p], dk, t) BY <1>1 DEF Counts, LastPath, IsLine
  <2>2. \A k \in 1 .. Len(rs) : /\ 0 < k /\ k < Len(rs) + 1 /\ (k < p \/ k = p \/ p < k)
    BY <1>2, <1>1
  <2> QED BY <1>2, <1>3, <2>1, <2>2 DEF Hits
<1>8. Cardinality(G \cup H) = Cardinality(G) + Cardinality(H)
  <2>1. Cardinality(G \cup H) = Cardinality(G) + Cardinality(H) - Cardinality(G \cap H) BY <1>5, FS_Union
  <2>2. Cardinality(G \cap H) = 0 BY <1>6, FS_EmptySet
  <2> QED BY <1>5, <2>1, <2>2
<1> QED BY <1>4, <1>7, <1>8
-----------------------------------------------------------------------------
(* The statistics. *)

TotalsInv ==
  /\ IsSeq(rows) /\ dstats \in Stats /\ tstats \in Stats
  /\ PrintedRight(rows, disk)
  /\ pc = "walking" => Adding(rows, disk, dstats, tstats)
  /\ pc \in {"next", "end"} => Added(rows, disk, tstats)

LEMMA OnlyTypesCount ==
  ASSUME NEW rs, NEW dk, NEW dk2, \A n \in Nodes : dk2[n].type = dk[n].type
  PROVE  /\ PrintedRight(rs, dk) => PrintedRight(rs, dk2)
         /\ \A ds, ts : /\ Adding(rs, dk, ds, ts) => Adding(rs, dk2, ds, ts)
                        /\ Added(rs, dk, ts) => Added(rs, dk2, ts)
PROOF
<1>1. \A line, t : Counts(line, dk2, t) = Counts(line, dk, t) BY DEF Counts
<1>2. \A t, from, to : Hits(rs, dk2, t, from, to) = Hits(rs, dk, t, from, to) BY <1>1 DEF Hits
<1>3. \A stats, from, to : Right(stats, rs, dk, from, to) => Right(stats, rs, dk2, from, to)
  BY <1>2 DEF Right
<1> QED BY <1>3 DEF PrintedRight, FootersRight, GrandTotalsRight, Adding, Added

\* Most steps print nothing and count nothing.
LEMMA Silent ==
  ASSUME TotalsInv, UNCHANGED <<fsVars, rows, dstats, tstats>>, pc' \in {pc, "undefined"}
  PROVE  TotalsInv'
PROOF BY DEF TotalsInv, fsVars

LEMMA ErrorPrinted ==
  ASSUME NEW rs, IsSeq(rs), NEW pstr, PrintedRight(rs, disk)
  PROVE  LET r2 == Append(rs, ErrorRow(pstr)) IN
         /\ IsSeq(r2) /\ PrintedRight(r2, disk)
         /\ \A ds, ts : /\ Adding(rs, disk, ds, ts) => Adding(r2, disk, ds, ts)
                        /\ Added(rs, disk, ts) => Added(r2, disk, ts)
PROOF
<1>1. PICK x : x = ErrorRow(pstr) OBVIOUS
<1>2. x.name \notin Nodes
  <2>1. DENIED \notin Nodes BY DirTreeAssumption DEF DENIED
  <2> QED BY <1>1, <2>1 DEF ErrorRow
<1>3. "path" \notin DOMAIN x /\ "footer" \notin DOMAIN x /\ "total" \notin DOMAIN x
  BY <1>1 DEF ErrorRow
<1>4. \A t : ~Counts(x, disk, t) BY <1>2 DEF Counts
<1> QED BY <1>1, <1>3, <1>4, LineAppended, PrintedGrows, NothingPrinted

LEMMA Concatenations ==
  ASSUME NEW rs, IsSeq(rs), NEW x, NEW y
  PROVE  /\ rs \o <<>> = rs /\ rs \o <<x>> = Append(rs, x)
         /\ rs \o <<x, y>> = Append(Append(rs, x), y)
         /\ <<x>> \o <<y>> = <<x, y>> /\ <<>> \o <<y>> = <<y>>
PROOF
<1>1. PICK S : rs \in Seq(S) BY DEF IsSeq
<1>2. PICK T : T = S \cup {x, y} OBVIOUS
<1>3. PICK m \in Nat : m = Len(rs) BY <1>1
<1>4. rs = [k \in 1 .. m |-> rs[k]] /\ \A k \in 1 .. m : rs[k] \in T BY <1>1, <1>2, <1>3
<1>5. rs \in [1 .. m -> T] BY <1>4
<1>6. rs \in Seq(T) /\ x \in T /\ y \in T BY <1>2, <1>3, <1>5
<1>7. rs \o <<>> = rs BY <1>6
<1>8. rs \o <<x>> = Append(rs, x) BY <1>6
<1>9. rs \o <<x, y>> = Append(Append(rs, x), y) BY <1>6
<1>10. <<x>> \o <<y>> = <<x, y>>
  <2>1. <<x>> \in Seq(T) /\ Len(<<x>>) = 1 /\ <<x>>[1] = x BY <1>6
  <2>2. <<y>> \in Seq(T) /\ Len(<<y>>) = 1 /\ <<y>>[1] = y BY <1>6
  <2>0. PICK a, b : a = <<x>> /\ b = <<y>> OBVIOUS
  <2>3. PICK c : c = a \o b OBVIOUS
  <2>4. c \in Seq(T) /\ Len(c) = 2 BY <2>0, <2>1, <2>2, <2>3
  <2>5. c[1] = x /\ c[2] = y BY <2>0, <2>1, <2>2, <2>3
  <2>6. c = <<x, y>> BY <2>4, <2>5
  <2> QED BY <2>0, <2>3, <2>6
<1>11. <<>> \o <<y>> = <<y>> BY <1>6
<1> QED BY <1>7, <1>8, <1>9, <1>10, <1>11

LEMMA HeaderPrinted ==
  ASSUME NEW rs, IsSeq(rs), PrintedRight(rs, disk), NEW ts, Added(rs, disk, ts)
  PROVE  LET r2 == rs \o Header IN
         /\ IsSeq(r2) /\ PrintedRight(r2, disk)
         /\ Adding(r2, disk, NoStats, ts) /\ Added(r2, disk, ts)
PROOF
<1>1. PICK x : x = [titles |-> IF "verbose" \in flags THEN 5 ELSE 1] OBVIOUS
<1>2. PICK y : y = [path |-> Root] OBVIOUS
<1>3. /\ "path" \notin DOMAIN x /\ "footer" \notin DOMAIN x /\ "total" \notin DOMAIN x
      /\ "name" \notin DOMAIN x /\ \A t : ~Counts(x, disk, t)
  BY <1>1 DEF Counts
<1>4. /\ "path" \in DOMAIN y /\ "footer" \notin DOMAIN y /\ "total" \notin DOMAIN y
      /\ "name" \notin DOMAIN y /\ \A t : ~Counts(y, disk, t)
  BY <1>2 DEF Counts
<1>5. ASSUME NEW r, IsSeq(r), PrintedRight(r, disk), Added(r, disk, ts)
      PROVE  /\ IsSeq(Append(r, y)) /\ PrintedRight(Append(r, y), disk)
             /\ Adding(Append(r, y), disk, NoStats, ts) /\ Added(Append(r, y), disk, ts)
  BY <1>4, <1>5, LineAppended, PrintedGrows, NothingPrinted, PathPrinted
<1>6. IsSeq(Append(rs, x)) /\ PrintedRight(Append(rs, x), disk) /\ Added(Append(rs, x), disk, ts)
  BY <1>3, LineAppended, PrintedGrows, NothingPrinted
<1>7. CASE "summary" \in flags
  <2>0. Header = <<x>> \o <<y>> BY <1>1, <1>2, <1>7 DEF Header
  <2>1. Header = <<x, y>> BY <2>0, Concatenations
  <2>2. rs \o Header = Append(Append(rs, x), y) BY <2>1, Concatenations
  <2> QED BY <1>5, <1>6, <2>2
<1>8. CASE "summary" \notin flags
  <2>1. Header = <<y>> BY <1>2, <1>8, Concatenations DEF Header
  <2>2. rs \o Header = Append(rs, y) BY <2>1, Concatenations
  <2> QED BY <1>5, <2>2
<1> QED BY <1>7, <1>8

LEMMA ShownRight ==
  ASSUME NEW stats \in Stats, NEW rs, NEW dk, NEW from, NEW to, Right(stats, rs, dk, from, to)
  PROVE  Right(Shown(stats), rs, dk, from, to)
PROOF BY DEF Shown, Right, Stats

LEMMA WalkPrints ==
  ASSUME WalkInv, TotalsInv,
         OpenDir \/ OpenDirFails \/ CountEntries \/ Rewind \/ NoMemoryForEntries
         \/ StoreEntries \/ Sort \/ NoMemoryForRow \/ CloseDir
  PROVE  TotalsInv'
PROOF
<1>1. /\ pc = "walking" /\ pc' \in {pc, "undefined"} /\ UNCHANGED <<fsVars, dstats, tstats>>
      /\ rows' = rows \/ rows' = Append(rows, ErrorRow(Top.pstr))
  BY DEF OpenDir, OpenDirFails, CountEntries, Rewind, NoMemoryForEntries, StoreEntries, Sort,
         NoMemoryForRow, CloseDir, Doing
<1>2. CASE rows' = rows BY <1>1, <1>2, Silent
<1>3. CASE rows' = Append(rows, ErrorRow(Top.pstr))
  <2>1. /\ IsSeq(rows') /\ PrintedRight(rows', disk) /\ Adding(rows', disk, dstats, tstats)
    BY <1>1, <1>3, ErrorPrinted DEF TotalsInv
  <2> QED BY <1>1, <2>1 DEF TotalsInv, fsVars
<1> QED BY <1>1, <1>2, <1>3

LEMMA PrintRowCounts ==
  ASSUME WalkInv, TotalsInv, PrintRow
  PROVE  TotalsInv'
PROOF
<1>1. PICK n \in Nodes : n = Top.buf[Top.entries[Top.i]] BY RowIsNode
<1>2. PICK pstr : pstr = Append(Top.pstr, Branch(Top.i = Top.count)) OBVIOUS
<1>3. /\ pc = "walking" /\ pc' = pc /\ UNCHANGED <<fsVars, tstats>>
      /\ rows' = Append(rows, Row(pstr, n)) /\ dstats' = WithNode(dstats, n)
  BY <1>1, <1>2 DEF PrintRow, Doing
<1>4. PICK x : x = Row(pstr, n) OBVIOUS
<1>5. /\ "name" \in DOMAIN x /\ x.name = n /\ "path" \notin DOMAIN x /\ "footer" \notin DOMAIN x
      /\ "total" \notin DOMAIN x
  BY <1>4 DEF Row
<1>6. x.info \notin {"", "No such file"} <=> "verbose" \in flags /\ Exists(n)
  <2>1. TypeChar(disk[n].type) \notin {"", "No such file"} BY Zenon DEF TypeChar
  <2> QED BY <1>4, <2>1 DEF Row
<1>7. disk[n].type \in FileTypes BY DEF WalkInv, FilesTyped
<1>8. ASSUME NEW t \in Counted \cup {"size"}
      PROVE  dstats'[t] = dstats[t] + IF Counts(x, disk, t) THEN 1 ELSE 0
  <2>1. dstats'[t] = dstats[t] + IF t = disk[n].type \/ (t = "size" /\ "verbose" \in flags /\ Exists(n))
                                 THEN 1 ELSE 0
    BY <1>3 DEF TotalsInv, Stats, WithNode
  <2>2. Counts(x, disk, t) <=> t = disk[n].type \/ (t = "size" /\ "verbose" \in flags /\ Exists(n))
    BY <1>5, <1>6, <1>7 DEF Counts, FileTypes, Counted
  <2> QED BY <2>1, <2>2
<1>9. dstats' \in Stats
  <2>1. dstats' = [t \in Counted \cup {"size"} |-> dstats'[t]]
    BY <1>3 DEF TotalsInv, Stats, WithNode
  <2>2. \A t \in Counted \cup {"size"} : dstats'[t] \in Nat BY <1>8 DEF TotalsInv, Stats
  <2> QED BY <2>1, <2>2 DEF Stats
<1>10. Adding(rows', disk, dstats', tstats)
  <2>1. DOMAIN dstats = Counted \cup {"size"} /\ DOMAIN dstats' = Counted \cup {"size"}
    BY <1>9 DEF TotalsInv, Stats
  <2> QED BY <1>3, <1>4, <1>5, <1>8, <2>1, EntryPrinted DEF TotalsInv
<1>11. IsSeq(rows') /\ PrintedRight(rows', disk)
  BY <1>3, <1>4, <1>5, LineAppended, PrintedGrows DEF TotalsInv
<1> QED BY <1>3, <1>9, <1>10, <1>11 DEF TotalsInv, fsVars

LEMMA StartDirPrints == TotalsInv /\ StartDir => TotalsInv'
PROOF
<1> SUFFICES ASSUME TotalsInv, StartDir PROVE TotalsInv' OBVIOUS
<1>1. /\ pc = "next" /\ pc' = "walking" /\ UNCHANGED <<fsVars, tstats>> /\ dstats' = NoStats
      /\ rows' = rows \o Header
  BY DEF StartDir, StatsAtStart
<1>2. IsSeq(rows') /\ PrintedRight(rows', disk) /\ Adding(rows', disk, NoStats, tstats)
  BY <1>1, HeaderPrinted DEF TotalsInv
<1>3. NoStats \in Stats BY DEF NoStats, Stats
<1> QED BY <1>1, <1>2, <1>3 DEF TotalsInv, fsVars

LEMMA SkipDirPrints == TotalsInv /\ SkipDir => TotalsInv'
PROOF
<1> SUFFICES ASSUME TotalsInv, SkipDir PROVE TotalsInv' OBVIOUS
<1>1. /\ pc = "next" /\ pc' = pc /\ UNCHANGED <<fsVars, dstats, tstats>>
      /\ \E error \in {<<>>, <<ErrorRow(<<>>)>>} : rows' = rows \o Header \o error
  BY DEF SkipDir
<1>2. PICK r2 : r2 = rows \o Header OBVIOUS
<1>3. IsSeq(r2) /\ PrintedRight(r2, disk) /\ Added(r2, disk, tstats)
  BY <1>1, <1>2, HeaderPrinted DEF TotalsInv
<1>4. rows' = r2 \/ rows' = Append(r2, ErrorRow(<<>>))
  <2>1. PICK y : y = ErrorRow(<<>>) OBVIOUS
  <2>2. rows' = r2 \o <<>> \/ rows' = r2 \o <<y>> BY <1>1, <1>2, <2>1
  <2> QED BY <1>3, <2>1, <2>2, Concatenations
<1>5. IsSeq(rows') /\ PrintedRight(rows', disk) /\ Added(rows', disk, tstats)
  BY <1>3, <1>4, ErrorPrinted
<1> QED BY <1>1, <1>5 DEF TotalsInv, fsVars

LEMMA EndDirPrints == TotalsInv /\ EndDir => TotalsInv'
PROOF
<1> SUFFICES ASSUME TotalsInv, EndDir PROVE TotalsInv' OBVIOUS
<1>1. /\ pc = "walking" /\ pc' = "next" /\ UNCHANGED <<fsVars, dstats>>
      /\ tstats' = [t \in DOMAIN tstats |-> tstats[t] + dstats[t]]
      /\ rows' = rows \o Footer(dstats) \/ rows' = Append(rows, RULER)
  BY DEF EndDir
<1>2. /\ tstats' \in Stats /\ DOMAIN tstats' = DOMAIN tstats /\ DOMAIN dstats = DOMAIN tstats
      /\ \A t \in DOMAIN tstats : tstats'[t] = tstats[t] + dstats[t]
  BY <1>1 DEF TotalsInv, Stats
<1>3. IsSeq(rows) /\ PrintedRight(rows, disk) /\ Adding(rows, disk, dstats, tstats) /\ dstats \in Stats
  BY <1>1 DEF TotalsInv
<1>4. Added(rows, disk, tstats') BY <1>2, <1>3, Summed
<1>5. PICK r2 : r2 = Append(rows, RULER) OBVIOUS
<1>6. IsSeq(r2) /\ PrintedRight(r2, disk) /\ Added(r2, disk, tstats') /\ Adding(r2, disk, dstats, tstats)
  <2>1. PICK x : x = RULER OBVIOUS
  <2>2. /\ "path" \notin DOMAIN x /\ "footer" \notin DOMAIN x /\ "total" \notin DOMAIN x
        /\ \A t : ~Counts(x, disk, t)
    BY <2>1 DEF RULER, Counts
  <2> QED BY <1>3, <1>4, <1>5, <2>1, <2>2, LineAppended, PrintedGrows, NothingPrinted
<1>7. PICK x : x = [footer |-> Shown(dstats)] OBVIOUS
<1>8. IsSeq(Append(r2, x)) /\ PrintedRight(Append(r2, x), disk) /\ Added(Append(r2, x), disk, tstats')
  <2>1. /\ "footer" \in DOMAIN x /\ x.footer = Shown(dstats) /\ "total" \notin DOMAIN x
        /\ "path" \notin DOMAIN x /\ \A t : ~Counts(x, disk, t)
    BY <1>7 DEF Counts
  <2>2. \E p \in DOMAIN r2 : LastPath(r2, p, Len(r2) + 1) /\ Right(x.footer, r2, disk, p, Len(r2) + 1)
    BY <1>3, <1>6, <2>1, ShownRight DEF Adding
  <2> QED BY <1>6, <2>1, <2>2, LineAppended, PrintedGrows, NothingPrinted
<1>9. rows' = rows \/ rows' = r2 \/ rows' = Append(r2, x)
  <2>1. PICK r : r = RULER OBVIOUS
  <2>2. Footer(dstats) = <<r, x>> \/ Footer(dstats) = <<>> BY <1>7, <2>1 DEF Footer
  <2>3. rows' = rows \o <<r, x>> \/ rows' = rows \o <<>> \/ rows' = r2 BY <1>1, <1>5, <2>2
  <2> QED BY <1>3, <1>5, <2>1, <2>3, Concatenations
<1>10. IsSeq(rows') /\ PrintedRight(rows', disk) /\ Added(rows', disk, tstats')
  BY <1>3, <1>4, <1>6, <1>8, <1>9
<1> QED BY <1>1, <1>2, <1>3, <1>10 DEF TotalsInv, fsVars

LEMMA GrandTotalPrints == TotalsInv /\ GrandTotal => TotalsInv'
PROOF
<1> SUFFICES ASSUME TotalsInv, GrandTotal PROVE TotalsInv' OBVIOUS
<1>1. PICK x : x = [directories |-> ndir, total |-> Shown(tstats)] OBVIOUS
<1>2. /\ pc = "next" /\ pc' = "end" /\ UNCHANGED <<fsVars, dstats, tstats>>
      /\ rows' = rows \/ rows' = Append(rows, x)
  BY <1>1 DEF GrandTotal
<1>3. /\ "footer" \notin DOMAIN x /\ "total" \in DOMAIN x /\ x.total = Shown(tstats)
      /\ "path" \notin DOMAIN x /\ \A t : ~Counts(x, disk, t)
  BY <1>1 DEF Counts
<1>4. IsSeq(rows) /\ PrintedRight(rows, disk) /\ Added(rows, disk, tstats) /\ tstats \in Stats
  BY <1>2 DEF TotalsInv
<1>5. Right(x.total, rows, disk, 0, Len(rows) + 1) BY <1>3, <1>4, ShownRight DEF Added
<1>6. IsSeq(rows') /\ PrintedRight(rows', disk) /\ Added(rows', disk, tstats)
  <2>1. PICK r2 : r2 = Append(rows, x) OBVIOUS
  <2>2. IsSeq(r2) BY <1>4, <2>1, LineAppended
  <2>3. PrintedRight(r2, disk) BY <1>3, <1>4, <1>5, <2>1, PrintedGrows
  <2>4. Added(r2, disk, tstats) BY <1>3, <1>4, <2>1, NothingPrinted
  <2> QED BY <1>2, <1>4, <2>1, <2>2, <2>3, <2>4
<1> QED BY <1>2, <1>6 DEF TotalsInv, fsVars

LEMMA ChangesPrintNothing ==
  ASSUME WalkInv, TotalsInv, NEW n \in Nodes,
         RemoveFile(n) \/ \E d \in Nodes \cup {Root} : CreateFile(n, d)
  PROVE  TotalsInv'
PROOF
<1>1. PICK where : Change(n, where) BY DEF RemoveFile, CreateFile
<1>2. disk' = [disk EXCEPT ![n].in = where] /\ UNCHANGED <<rows, dstats, tstats, pc>>
  BY <1>1 DEF Change
<1>3. \A m \in Nodes : disk'[m].type = disk[m].type BY <1>2 DEF WalkInv, FilesTyped
<1>4. PrintedRight(rows, disk) => PrintedRight(rows, disk') BY <1>3, OnlyTypesCount
<1>5. /\ Adding(rows, disk, dstats, tstats) => Adding(rows, disk', dstats, tstats)
      /\ Added(rows, disk, tstats) => Added(rows, disk', tstats)
  BY <1>3, OnlyTypesCount
<1> QED BY <1>2, <1>4, <1>5 DEF TotalsInv

LEMMA TotalsInitially == DirTreeInit => TotalsInv
PROOF
<1> SUFFICES ASSUME DirTreeInit PROVE TotalsInv OBVIOUS
<1>1. rows = <<>> /\ dstats = NoStats /\ tstats = NoStats /\ pc = "next" BY DEF DirTreeInit
<1>2. IsSeq(<<>>) /\ DOMAIN <<>> = {}
  <2>1. <<>> \in Seq({}) OBVIOUS
  <2> QED BY <2>1 DEF IsSeq
<1>3. NoStats \in Stats BY DEF NoStats, Stats
<1>4. PrintedRight(<<>>, disk)
  BY <1>2 DEF PrintedRight, FootersRight, GrandTotalsRight, IsLine
<1>5. Added(<<>>, disk, NoStats)
  <2>1. \A t : Hits(<<>>, disk, t, 0, Len(<<>>) + 1) = {} BY <1>2 DEF Hits
  <2> QED BY <2>1, FS_EmptySet DEF Added, Right, NoStats
<1> QED BY <1>1, <1>2, <1>3, <1>4, <1>5 DEF TotalsInv

THEOREM TotalsInvariant == DirTreeSpec => []TotalsInv
PROOF
<1>1. DirTreeInit => TotalsInv BY TotalsInitially
<1>2. WalkInv /\ TotalsInv /\ [DirTreeNext]_dirTreeVars => TotalsInv'
  <2> SUFFICES ASSUME WalkInv, TotalsInv, [DirTreeNext]_dirTreeVars PROVE TotalsInv' OBVIOUS
  <2>1. CASE Walk
    BY <2>1, WalkPrints, PrintRowCounts, StartDirPrints, SkipDirPrints, EndDirPrints, GrandTotalPrints
       DEF Walk
  <2>2. CASE \E n \in Nodes : RemoveFile(n) \/ \E d \in Nodes \cup {Root} : CreateFile(n, d)
    BY <2>2, ChangesPrintNothing
  <2>3. CASE UNCHANGED dirTreeVars BY <2>3, Silent DEF dirTreeVars
  <2> QED BY <2>1, <2>2, <2>3 DEF DirTreeNext
<1> QED BY <1>1, <1>2, WalkInvariant, PTL DEF DirTreeSpec

\* Each summary is that of the lines printed since its path, and the grand total that of
\* all lines, whatever failed or changed before it was printed.
THEOREM TotalsAreRight == DirTreeSpec => []TotalsAgree
PROOF
<1>1. TotalsInv => TotalsAgree
  <2> SUFFICES ASSUME TotalsInv PROVE TotalsAgree OBVIOUS
  <2>1. DOMAIN rows = 1 .. Len(rows) /\ Len(rows) \in Nat BY SeqFacts DEF TotalsInv
  <2>2. ASSUME NEW stats, NEW from, NEW to, Right(stats, rows, disk, from, to)
        PROVE  Agrees(stats, Entries(from, to))
    <3> SUFFICES ASSUME NEW t \in DOMAIN stats
                 PROVE  stats[t] = Cardinality({k \in Entries(from, to) :
                           IF t = "size" THEN rows[k].info \notin {"", "No such file"}
                           ELSE disk[rows[k].name].type = t})
      BY DEF Agrees
    <3>1. Hits(rows, disk, t, from, to) = {k \in Entries(from, to) :
                           IF t = "size" THEN rows[k].info \notin {"", "No such file"}
                           ELSE disk[rows[k].name].type = t}
      BY DEF Hits, Counts, Entries, Lines
    <3> QED BY <2>2, <3>1 DEF Right
  <2>3. ASSUME NEW k \in Lines("footer")
        PROVE  Agrees(rows[k].footer, Entries(Max({j \in Lines("path") : j < k}), k))
    <3>1. PICK p \in DOMAIN rows : LastPath(rows, p, k) /\ Right(rows[k].footer, rows, disk, p, k)
      BY DEF Lines, TotalsInv, PrintedRight, FootersRight, IsLine
    <3>2. PICK paths : paths = {j \in Lines("path") : j < k} OBVIOUS
    <3>3. p \in paths /\ paths \subseteq Nat /\ \A j \in paths : j <= p
      BY <2>1, <3>1, <3>2 DEF LastPath, IsLine, Lines
    <3>4. Max(paths) \in paths /\ \A j \in paths : Max(paths) >= j
      <4>1. \E q \in paths : \A j \in paths : q >= j BY <3>3
      <4> QED BY <4>1 DEF Max
    <3>5. Max(paths) = p BY <3>3, <3>4
    <3> QED BY <2>2, <3>1, <3>2, <3>5
  <2>4. ASSUME NEW k \in Lines("total") PROVE Agrees(rows[k].total, Entries(0, k))
    BY <2>2 DEF Lines, TotalsInv, PrintedRight, GrandTotalsRight, IsLine
  <2>5. pc = "end" => Agrees(tstats, Entries(0, Len(rows) + 1)) BY <2>2 DEF TotalsInv, Added
  <2> QED BY <2>3, <2>4, <2>5 DEF TotalsAgree
<1> QED BY <1>1, TotalsInvariant, PTL
=============================================================================
