-------------------------- MODULE SkvsServerProof ---------------------------
(***************************************************************************)
(* Safety of the server and its clients, for any numbers of them, any      *)
(* lines and any sizes of the buffer and of a request.                     *)
(*                                                                         *)
(* The properties speak of what a client sees; what makes them true is     *)
(* spread over the client, the two directions of its connection and the    *)
(* worker that serves it.  The inductive invariant says where the bytes    *)
(* of the one line, and of its one answer, can be: what the worker has     *)
(* read followed by what is on its way is the line the client sent last    *)
(* (LineAhead), and what the client has got, what is on its way to it and  *)
(* what the worker has yet to write are together the answer.               *)
(***************************************************************************)
EXTENDS SkvsServer, TLAPS

Bytes == {"b", LF}
Words == {"INVALID CMD", "(null)", "answer", LF}

WorkerStates == [pc : {"new", "accept", "read", "serve", "write", "ended"},
                 conn : Clients \cup {None}, buf : Seq(Bytes), out : Seq(Words)]
ClientStates == [pc : {"off", "idle", "waiting", "done"},
                 line : Lines \cup {<<>>}, got : Seq(Words)]

Typed ==
  /\ main \in {"creating", "sleeping", "destroyed", "exited"} /\ shutdown \in BOOLEAN
  /\ worker \in [Workers -> WorkerStates]
  /\ client \in [Clients -> ClientStates]
  /\ conn \in [Clients -> {"none", "backlog", "open", "closed"}]
  /\ up \in [Clients -> Seq(Bytes)] /\ down \in [Clients -> Seq(Words)]
  /\ sent \in [Clients -> Nat] /\ served \in [Clients -> Nat]

Serves == {"read", "serve", "write"}
Serving(w, c) == worker[w].pc \in Serves /\ worker[w].conn = c

BuffersFit == \A w \in Workers :
  /\ Len(worker[w].buf) <= BufferBytes
  /\ worker[w].pc \in Serves => worker[w].conn \in Clients

\* What has been written to a client that it has not answered with a new line.
Reply(c) == client[c].got \o down[c]

\* The answers a client may be given to the line it sent last.
Fits(a, c) == a = Due(client[c].line) \/ (a = "(null)" /\ shutdown)

\* The bytes are the line the client sent last, which has not been served.
LineAhead(c, bytes) ==
  /\ client[c].pc \in {"waiting", "done"}
  /\ bytes = client[c].line /\ bytes \in Lines
  /\ served[c] < sent[c]
  /\ client[c].pc = "waiting" => Reply(c) = <<>>

Writing(w, c) == Serving(w, c) /\ worker[w].pc = "write"

ClientInv(c) ==
  /\ client[c].pc = "off" <=> conn[c] = "none"
  /\ client[c].pc = "off" => up[c] = <<>> /\ down[c] = <<>> /\ sent[c] = 0
  /\ client[c].pc = "idle" =>
       /\ down[c] = <<>>
       /\ sent[c] > 0 => \E a \in Words : Fits(a, c) /\ client[c].got = <<a, LF>>
  /\ client[c].pc = "waiting" =>
       /\ client[c].line \in Lines /\ ~EndsLine(client[c].got)
       /\ Reply(c) # <<>> => \E a \in Words : Fits(a, c) /\ Reply(c) \in {<<a>>, <<a, LF>>}
       /\ served[c] = sent[c] => EndsLine(Reply(c)) \/ \E w \in Workers : Writing(w, c)
  /\ conn[c] = "backlog" =>
       /\ up[c] = <<>> \/ LineAhead(c, up[c])
       /\ client[c].pc = "waiting" => LineAhead(c, up[c])
       /\ client[c].pc = "idle" => sent[c] = 0 /\ up[c] = <<>>
  /\ served[c] <= sent[c]

ReadInv(w, c) ==
  /\ worker[w].buf # <<>> => LineAhead(c, worker[w].buf \o up[c])
  /\ worker[w].pc = "read" /\ worker[w].buf = <<>> =>
       shutdown \/ up[c] = <<>> \/ LineAhead(c, up[c])
  /\ worker[w].pc = "serve" =>
       /\ worker[w].buf # <<>> /\ (up[c] = <<>> \/ shutdown)
       /\ \/ shutdown \/ EndsLine(worker[w].buf)
          \/ Len(worker[w].buf) = BufferBytes \/ client[c].pc = "done"

WriteInv(w, c) ==
  worker[w].pc = "write" =>
    /\ worker[w].buf = <<>> /\ worker[w].out # <<>> /\ (up[c] = <<>> \/ shutdown)
    /\ client[c].pc = "waiting" =>
         \E a \in Words : Fits(a, c) /\ Reply(c) \o worker[w].out = <<a, LF>>

WorkerInv(w, c) == Serving(w, c) =>
  /\ conn[c] \in {"open", "closed"} /\ (Alive => conn[c] = "open")
  /\ \A v \in Workers : Serving(v, c) => v = w
  /\ client[c].pc = "idle" => worker[w].pc = "read" /\ worker[w].buf = <<>>
  /\ ReadInv(w, c) /\ WriteInv(w, c)

\* The table is not destroyed under a worker, unless some were never created.
Ended == main \in {"destroyed", "exited"} =>
  \/ \E w \in Workers : worker[w].pc = "new"
  \/ \A w \in Workers : worker[w].pc = "ended"

IInv == /\ Typed /\ BuffersFit /\ Ended
        /\ \A c \in Clients : ClientInv(c)
        /\ \A w \in Workers, c \in Clients : WorkerInv(w, c)
-----------------------------------------------------------------------------
(* Pieces of lines and of answers. *)

LEMMA Concat ==
  ASSUME NEW S, NEW s \in Seq(S), NEW t \in Seq(S)
  PROVE  /\ s \o t \in Seq(S)
         /\ Len(s \o t) = Len(s) + Len(t)
         /\ \A i \in 1 .. Len(s) : (s \o t)[i] = s[i]
         /\ \A i \in Len(s) + 1 .. Len(s) + Len(t) : (s \o t)[i] = t[i - Len(s)]
OBVIOUS

LEMMA SameSeq ==
  ASSUME NEW S, NEW s \in Seq(S), NEW t \in Seq(S), Len(s) = Len(t),
         \A i \in 1 .. Len(s) : s[i] = t[i]
  PROVE  s = t
OBVIOUS

\* A read or write takes a piece off the front and leaves the rest.
LEMMA PieceAndRest ==
  ASSUME NEW S, NEW s \in Seq(S), NEW n \in Nat, NEW p \in Prefixes(s, n)
  PROVE  /\ p \in Seq(S) /\ p # <<>> /\ Len(p) <= n /\ s # <<>>
         /\ After(p, s) \in Seq(S)
         /\ p \o After(p, s) = s
<1>1. PICK i \in 1 .. (IF Len(s) < n THEN Len(s) ELSE n) : p = SubSeq(s, 1, i)
  BY DEF Prefixes
<1>2. i \in 1 .. Len(s) /\ i <= n
  BY <1>1
<1>3. /\ p \in Seq(S) /\ Len(p) = i
      /\ \A k \in 1 .. i : p[k] = s[k]
  BY <1>1, <1>2
<1>4. /\ After(p, s) \in Seq(S) /\ Len(After(p, s)) = Len(s) - i
      /\ \A k \in 1 .. Len(s) - i : After(p, s)[k] = s[i + k]
  BY <1>2, <1>3 DEF After
<1> DEFINE r == After(p, s)
           q == p \o r
<1>5. r \in Seq(S) /\ Len(r) = Len(s) - i /\ \A k \in 1 .. Len(s) - i : r[k] = s[i + k]
  BY <1>4
<1> HIDE DEF r
<1>0. /\ q \in Seq(S) /\ Len(q) = Len(p) + Len(r)
      /\ \A k \in 1 .. Len(p) : q[k] = p[k]
      /\ \A k \in Len(p) + 1 .. Len(p) + Len(r) : q[k] = r[k - Len(p)]
  <2>1. p \in Seq(S) /\ r \in Seq(S)
    BY <1>3, <1>5
  <2> QED
    BY <2>1, Concat, ZenonT(20)
<1> HIDE DEF q
<1>6. ASSUME NEW k \in 1 .. Len(s)
      PROVE  q[k] = s[k]
  <2>1. CASE k <= i
    BY <1>2, <1>3, <1>0, <2>1
  <2>2. CASE k > i
    <3>1. k - i \in 1 .. Len(s) - i /\ i + (k - i) = k /\ k \in i + 1 .. i + (Len(s) - i)
      BY <1>2, <2>2
    <3>2. q[k] = r[k - i]
      BY <1>0, <1>3, <1>5, <3>1
    <3> QED
      BY <1>5, <3>1, <3>2
  <2> QED
    BY <1>2, <2>1, <2>2
<1>7. Len(q) = Len(s)
  BY <1>0, <1>2, <1>3, <1>5
<1>8. q = s
  BY <1>0, <1>6, <1>7, SameSeq
<1> QED
  BY <1>2, <1>3, <1>4, <1>8 DEF q, r

LEMMA Associative ==
  ASSUME NEW S, NEW s \in Seq(S), NEW t \in Seq(S), NEW u \in Seq(S)
  PROVE  (s \o t) \o u = s \o (t \o u)
OBVIOUS

LEMMA Empty ==
  ASSUME NEW S, NEW e, e = <<>>
  PROVE  e \in Seq(S)
OBVIOUS

LEMMA Pair ==
  ASSUME NEW S, NEW a \in S, NEW b \in S
  PROVE  <<a, b>> \in Seq(S) /\ <<a, b>> # <<>>
OBVIOUS

LEMMA EmptyParts ==
  ASSUME NEW S, NEW s \in Seq(S), NEW t \in Seq(S)
  PROVE  /\ s \o t \in Seq(S)
         /\ s \o <<>> = s /\ <<>> \o s = s
         /\ s \o t = <<>> <=> s = <<>> /\ t = <<>>
         /\ Len(s \o t) = Len(s) + Len(t)
OBVIOUS

\* The front of a line is the whole line if it has a line feed or fills the
\* buffer.
LEMMA WholeLine ==
  ASSUME NEW b \in Seq(Bytes), NEW u \in Seq(Bytes), b \o u \in Lines
  PROVE  /\ HasLine(b) => u = <<>>
         /\ EndsLine(b) => HasLine(b)
         /\ HasLine(b) => EndsLine(b)
         /\ Len(b) + Len(u) <= BufferBytes
<1> DEFINE l == b \o u
<1>0. /\ Len(l) = Len(b) + Len(u)
      /\ \A i \in 1 .. Len(b) : l[i] = b[i]
  OBVIOUS
<1>a. l \in Lines
  OBVIOUS
<1> HIDE DEF l
<1>1. /\ Len(l) = Len(b) + Len(u) /\ Len(l) \in 1 .. BufferBytes
      /\ \A i \in 1 .. Len(l) : l[i] = LF => i = Len(l)
      /\ \A i \in 1 .. Len(b) : l[i] = b[i]
  BY <1>0, <1>a, LinesAssumption
<1>2. EndsLine(b) => HasLine(b)
  BY DEF EndsLine, HasLine
<1>3. ASSUME NEW i \in 1 .. Len(b), b[i] = LF
      PROVE  i = Len(b) /\ Len(u) = 0
  BY <1>1, <1>3
<1>4. HasLine(b) => u = <<>> /\ EndsLine(b)
  BY <1>3 DEF HasLine, EndsLine
<1> QED
  BY <1>1, <1>2, <1>4, SizesAssumption

LEMMA AnswerCases ==
  ASSUME NEW b
  PROVE  /\ TooLong(b) => Answer(b) = "INVALID CMD"
         /\ ~TooLong(b) /\ ~HasLine(b) => Answer(b) = "(null)"
         /\ ~TooLong(b) /\ HasLine(b) => Answer(b) = "answer"
BY Zenon DEF Answer, Incomplete

LEMMA DueCases ==
  ASSUME NEW l \in Lines
  PROVE  /\ Len(l) > BufferSize \/ (Len(l) = BufferSize /\ ~EndsLine(l)) =>
              Due(l) = "INVALID CMD"
         /\ ~(Len(l) > BufferSize) /\ EndsLine(l) => Due(l) = "answer"
<1>1. Len(l) \in Nat /\ BufferSize \in Nat
  BY LinesAssumption, SizesAssumption
<1>2. CASE EndsLine(l)
  BY <1>1, <1>2 DEF Due
<1>3. CASE ~EndsLine(l)
  BY <1>1, <1>3 DEF Due
<1> QED
  BY <1>2, <1>3

\* Whatever of a line has been read when it is served, the answer fits the
\* line; only the shutdown can leave the rest of it unread.
LEMMA AnswerFits ==
  ASSUME NEW b \in Seq(Bytes), NEW u \in Seq(Bytes), NEW l, l = b \o u, l \in Lines,
         NEW sh \in BOOLEAN, u = <<>> \/ sh,
         sh \/ EndsLine(b) \/ Len(b) = BufferBytes
  PROVE  /\ Answer(b) \in Words
         /\ Answer(b) = Due(l) \/ (Answer(b) = "(null)" /\ sh)
<1>1. /\ Len(l) = Len(b) + Len(u) /\ Len(b) \in Nat /\ Len(u) \in Nat
      /\ BufferSize \in Nat /\ BufferBytes \in Nat /\ BufferSize < BufferBytes
      /\ u = <<>> <=> Len(u) = 0
      /\ u = <<>> => l = b
  BY SizesAssumption, EmptyParts
<1>2. HasLine(b) <=> EndsLine(b)
  BY WholeLine
<1>3. EndsLine(b) => u = <<>>
  BY WholeLine
<1>4. Answer(b) \in Words
  BY AnswerCases DEF Words
<1>5. CASE TooLong(b)
  <2>1. Len(l) > BufferSize \/ (Len(l) = BufferSize /\ ~EndsLine(l))
    <3>1. CASE Len(u) = 0
      BY <1>1, <1>5, <3>1 DEF TooLong
    <3>2. CASE Len(u) > 0
      <4> DEFINE m == Len(l)
                 n == Len(b)
                 k == Len(u)
      <4>1. n >= BufferSize /\ m = n + k /\ k > 0 /\ n \in Nat /\ k \in Nat
        BY <1>1, <1>5, <3>2 DEF TooLong
      <4> HIDE DEF m, n, k
      <4>2. m > BufferSize
        BY <1>1, <4>1
      <4> QED
        BY <4>2 DEF m
    <3> QED
      BY <1>1, <3>1, <3>2
  <2> QED
    BY <1>4, <1>5, <2>1, AnswerCases, DueCases
<1>6. CASE ~TooLong(b) /\ ~HasLine(b)
  <2>1. Len(b) # BufferBytes
    BY <1>1, <1>6 DEF TooLong
  <2>2. sh
    BY <1>2, <1>6, <2>1
  <2> QED
    BY <1>4, <1>6, <2>2, AnswerCases
<1>7. CASE ~TooLong(b) /\ HasLine(b)
  <2>1. l = b /\ EndsLine(l) /\ ~(Len(l) > BufferSize)
    BY <1>1, <1>2, <1>3, <1>7 DEF TooLong
  <2> QED
    BY <1>4, <1>7, <2>1, AnswerCases, DueCases
<1> QED
  BY <1>5, <1>6, <1>7

\* No answer begins with a line feed.
LEMMA NoAnswerIsLF ==
  ASSUME NEW c, NEW a, Fits(a, c)
  PROVE  a # LF
BY DEF Fits, Due, LF

\* An answer that is not all there does not end with a line feed.
LEMMA PartOfAnswer ==
  ASSUME NEW r \in Seq(Words), NEW o \in Seq(Words), NEW a, r \o o = <<a, LF>>
  PROVE  /\ o = <<>> => r = <<a, LF>>
         /\ o # <<>> => r = <<>> \/ r = <<a>>
<1> DEFINE q == r \o o
<1>0. /\ q = <<a, LF>> /\ Len(q) = Len(r) + Len(o)
      /\ \A i \in 1 .. Len(r) : q[i] = r[i]
  BY Concat
<1> HIDE DEF q
<1>1. Len(r) + Len(o) = 2 /\ Len(r) \in Nat /\ Len(o) \in Nat
  BY <1>0
<1>2. ASSUME NEW i \in 1 .. Len(r)
      PROVE  r[i] = <<a, LF>>[i]
  BY <1>0
<1>3. o = <<>> => r = <<a, LF>>
  BY EmptyParts
<1>4. o # <<>> => Len(r) = 0 \/ Len(r) = 1
  <2>1. o # <<>> => Len(o) # 0
    OBVIOUS
  <2> DEFINE m == Len(r)
             n == Len(o)
  <2> HIDE DEF m, n
  <2>2. m + n = 2 /\ m \in Nat /\ n \in Nat
    BY <1>1 DEF m, n
  <2>3. n # 0 => m = 0 \/ m = 1
    BY <2>2
  <2> QED
    BY <2>1, <2>3 DEF m, n
<1>5. Len(r) = 1 => r = <<a>>
  <2>1. Len(r) = 1 => r[1] = a
    BY <1>2
  <2> QED
    BY <2>1
<1> QED
  BY <1>3, <1>4, <1>5

LEMMA EndOfAnswer ==
  ASSUME NEW a, a # LF
  PROVE  ~EndsLine(<<a>>) /\ EndsLine(<<a, LF>>)
BY DEF EndsLine

\* What a client has got is the whole answer once it ends with a line feed.
LEMMA WholeAnswer ==
  ASSUME NEW g \in Seq(Words), NEW d \in Seq(Words), NEW a, a # LF,
         g \o d \in {<<a>>, <<a, LF>>}, EndsLine(g)
  PROVE  g = <<a, LF>> /\ d = <<>> /\ g \o d = <<a, LF>>
<1>1. g # <<>> /\ g[Len(g)] = LF /\ Len(g) \in Nat /\ Len(d) \in Nat
  BY DEF EndsLine
<1>2. Len(g \o d) = Len(g) + Len(d) /\ (g \o d)[Len(g)] = LF
  BY <1>1
<1>3. CASE g \o d = <<a>>
  BY <1>1, <1>2, <1>3
<1>4. CASE g \o d = <<a, LF>>
  <2>1. Len(g) = 2 /\ Len(d) = 0
    BY <1>1, <1>2, <1>4
  <2>2. d = <<>>
    BY <2>1
  <2> QED
    BY <1>4, <2>2, EmptyParts
<1> QED
  BY <1>3, <1>4
-----------------------------------------------------------------------------
(* What a step leaves alone. *)

LEMMA Fields ==
  ASSUME Typed, NEW w \in Workers, NEW c \in Clients
  PROVE  /\ worker[w].buf \in Seq(Bytes) /\ worker[w].out \in Seq(Words)
         /\ client[c].got \in Seq(Words)
         /\ up[c] \in Seq(Bytes) /\ down[c] \in Seq(Words)
         /\ sent[c] \in Nat /\ served[c] \in Nat
         /\ shutdown \in BOOLEAN
BY DEF Typed, WorkerStates, ClientStates

\* The steps of a worker keep its fields what they are.
LEMMA Turns ==
  ASSUME NEW t \in WorkerStates, NEW p \in Serves,
         NEW b \in Seq(Bytes), NEW o \in Seq(Words)
  PROVE  /\ [t EXCEPT !.pc = p, !.out = o] \in WorkerStates
         /\ [t EXCEPT !.pc = p, !.buf = b, !.out = o] \in WorkerStates
         /\ [t EXCEPT !.out = o] \in WorkerStates
BY DEF WorkerStates, Serves

LEMMA Emptied ==
  ASSUME NEW t \in WorkerStates, NEW o \in Seq(Words)
  PROVE  /\ [t EXCEPT !.pc = "read", !.out = <<>>] \in WorkerStates
         /\ [t EXCEPT !.pc = "write", !.buf = <<>>, !.out = o] \in WorkerStates
<1> PICK e : e = <<>>
  OBVIOUS
<1>1. e \in Seq(Words) /\ e \in Seq(Bytes)
  BY Empty
<1>2. \A x \in Seq(Words) : [t EXCEPT !.pc = "read", !.out = x] \in WorkerStates
  BY DEF WorkerStates
<1>3. [t EXCEPT !.pc = "write", !.buf = e, !.out = o] \in WorkerStates
  <2>1. \A x \in Seq(Words) : [t EXCEPT !.pc = "write", !.buf = e, !.out = x] \in WorkerStates
    BY <1>1, Turns DEF Serves
  <2> QED
    BY <2>1
<1> QED
  BY <1>1, <1>2, <1>3

LEMMA AnswerIsWords ==
  ASSUME NEW a \in Words
  PROVE  <<a, LF>> \in Seq(Words) /\ <<a, LF>> # <<>>
<1>1. LF \in Words
  BY DEF Words
<1> QED
  BY <1>1, Pair

\* Nothing that is kept for the client, or in its connection, changes.
Untouched(c) == UNCHANGED <<client[c], conn[c], up[c], down[c], sent[c], served[c]>>

LEMMA ClientStays ==
  ASSUME NEW c, Untouched(c), ClientInv(c), shutdown => shutdown',
         \A w \in Workers : Writing(w, c) => Writing(w, c)'
  PROVE  ClientInv(c)'
BY DEF ClientInv, Untouched, LineAhead, Reply, Fits

LEMMA WorkerStays ==
  ASSUME NEW c, NEW w, Untouched(c), UNCHANGED worker[w], WorkerInv(w, c),
         shutdown => shutdown', Alive' => Alive,
         \A v \in Workers : Serving(v, c)' => Serving(v, c) \/ v = w
  PROVE  WorkerInv(w, c)'
BY DEF WorkerInv, ReadInv, WriteInv, Untouched, LineAhead, Reply, Fits, Serving

\* A step of worker w for client c, which no other worker serves.
LEMMA OthersStay ==
  ASSUME IInv, NEW w \in Workers, NEW c \in Clients,
         \A v \in Workers \ {w} : UNCHANGED worker[v] /\ ~Serving(v, c),
         \A d \in Clients \ {c} : Untouched(d) /\ ~Serving(w, d) /\ ~Serving(w, d)',
         UNCHANGED <<main, shutdown>>,
         Typed', BuffersFit', Ended', ClientInv(c)', WorkerInv(w, c)'
  PROVE  IInv'
<1>1. ASSUME NEW d \in Clients \ {c}
      PROVE  ClientInv(d)'
  <2>1. \A v \in Workers : Writing(v, d) => Writing(v, d)'
    BY DEF Writing, Serving
  <2> QED
    BY <2>1, ClientStays DEF IInv
<1>2. ASSUME NEW v \in Workers \ {w}
      PROVE  WorkerInv(v, c)'
  <2>1. ~Serving(v, c)'
    BY DEF Serving
  <2> QED
    BY <2>1 DEF WorkerInv
<1>3. ASSUME NEW d \in Clients \ {c}
      PROVE  WorkerInv(w, d)'
  BY DEF WorkerInv
<1>4. ASSUME NEW v \in Workers \ {w}, NEW d \in Clients \ {c}
      PROVE  WorkerInv(v, d)'
  <2>1. \A u \in Workers : Serving(u, d)' => Serving(u, d)
    BY DEF Serving
  <2> QED
    BY <2>1, WorkerStays DEF IInv, Alive
<1> QED
  BY <1>1, <1>2, <1>3, <1>4 DEF IInv

\* A step of client c.
LEMMA OtherClientsStay ==
  ASSUME IInv, NEW c \in Clients, UNCHANGED <<main, shutdown, worker>>,
         \A d \in Clients \ {c} : Untouched(d),
         Typed', ClientInv(c)', \A w \in Workers : WorkerInv(w, c)'
  PROVE  IInv'
<1>1. \A v \in Workers, d \in Clients : Serving(v, d)' <=> Serving(v, d)
  BY DEF Serving
<1>2. ASSUME NEW d \in Clients \ {c}
      PROVE  ClientInv(d)'
  <2>1. \A v \in Workers : Writing(v, d) => Writing(v, d)'
    BY DEF Writing, Serving
  <2> QED
    BY <2>1, ClientStays DEF IInv
<1>3. ASSUME NEW v \in Workers, NEW d \in Clients \ {c}
      PROVE  WorkerInv(v, d)'
  BY <1>1, WorkerStays DEF IInv, Alive
<1>4. BuffersFit' /\ Ended'
  BY DEF IInv, BuffersFit, Ended
<1> QED
  BY <1>2, <1>3, <1>4 DEF IInv

\* A step of main, or the signal.
LEMMA ConnectionsStay ==
  ASSUME IInv, Typed', BuffersFit', Ended',
         \A d \in Clients : Untouched(d), shutdown => shutdown', Alive' => Alive,
         \A w \in Workers :
           UNCHANGED worker[w] \/ (worker[w].pc \notin Serves /\ worker'[w].pc \notin Serves)
  PROVE  IInv'
<1>1. ASSUME NEW d \in Clients
      PROVE  ClientInv(d)'
  <2>1. \A v \in Workers : Writing(v, d) => Writing(v, d)'
    BY DEF Writing, Serving
  <2> QED
    BY <2>1, ClientStays DEF IInv
<1>2. ASSUME NEW v \in Workers, NEW d \in Clients
      PROVE  WorkerInv(v, d)'
  <2>1. \A u \in Workers : Serving(u, d)' => Serving(u, d)
    BY DEF Serving
  <2>2. CASE UNCHANGED worker[v]
    BY <2>1, <2>2, WorkerStays DEF IInv
  <2>3. CASE worker'[v].pc \notin Serves
    BY <2>3 DEF WorkerInv, Serving
  <2> QED
    BY <2>2, <2>3
<1> QED
  BY <1>1, <1>2 DEF IInv
-----------------------------------------------------------------------------
(* main and the signal. *)

LEMMA InitOK == Init => IInv
<1> SUFFICES ASSUME Init PROVE IInv
  OBVIOUS
<1>1. Typed
  <2>1. Fresh \in WorkerStates
    BY DEF Fresh, WorkerStates
  <2>2. \A r \in WorkerStates : [r EXCEPT !.pc = "new"] \in WorkerStates
    BY DEF WorkerStates
  <2>3. worker \in [Workers -> WorkerStates]
    BY <2>1, <2>2 DEF Init
  <2>4. client \in [Clients -> ClientStates]
    BY DEF Init, ClientStates
  <2>5. main \in {"creating", "sleeping", "destroyed", "exited"} /\ shutdown \in BOOLEAN
    BY DEF Init
  <2>6. /\ conn \in [Clients -> {"none", "backlog", "open", "closed"}]
        /\ up \in [Clients -> Seq(Bytes)] /\ down \in [Clients -> Seq(Words)]
        /\ sent \in [Clients -> Nat] /\ served \in [Clients -> Nat]
    BY DEF Init
  <2> QED
    BY <2>3, <2>4, <2>5, <2>6 DEF Typed
<1>2. \A w \in Workers : worker[w].pc = "new" /\ worker[w].buf = <<>>
  BY DEF Init, Fresh
<1>3. BuffersFit /\ Ended
  BY <1>2, SizesAssumption DEF Init, BuffersFit, Ended, Serves
<1>4. \A w \in Workers, c \in Clients : WorkerInv(w, c)
  BY <1>2 DEF WorkerInv, Serving, Serves
<1>5. \A c \in Clients : ClientInv(c)
  BY DEF Init, ClientInv
<1> QED
  BY <1>1, <1>3, <1>4, <1>5 DEF IInv

LEMMA MainStepOK == IInv /\ (MainStep \/ Interrupt) => IInv'
<1> SUFFICES ASSUME IInv, MainStep \/ Interrupt PROVE IInv'
  OBVIOUS
<1>0. Typed /\ BuffersFit /\ Ended
  BY DEF IInv
<1>1. ASSUME NEW w \in Workers, CreateWorker(w)
      PROVE  IInv'
  <2>1. worker[w].pc = "new" /\ worker' = [worker EXCEPT ![w] = Fresh] /\ main = "creating"
    BY <1>1 DEF CreateWorker
  <2>2. Fresh \in WorkerStates /\ Fresh.pc = "accept" /\ Fresh.buf = <<>>
    BY DEF Fresh, WorkerStates
  <2>3. Typed' /\ BuffersFit' /\ Ended'
    BY <1>0, <1>1, <2>1, <2>2, SizesAssumption
    DEF Typed, BuffersFit, Ended, CreateWorker, mainVars, netVars, Serves
  <2>4. \A d \in Clients : Untouched(d)
    BY <1>1 DEF CreateWorker, netVars, Untouched
  <2>5. \A v \in Workers :
          UNCHANGED worker[v] \/ (worker[v].pc \notin Serves /\ worker'[v].pc \notin Serves)
    BY <1>0, <2>1, <2>2 DEF Typed, Serves
  <2> QED
    BY <1>1, <2>3, <2>4, <2>5, ConnectionsStay DEF CreateWorker, mainVars, Alive
<1>2. ASSUME CreateFails \/ Created \/ Destroy \/ Interrupt
      PROVE  IInv'
  <2>1. /\ UNCHANGED <<worker, client, netVars, sent, served>>
        /\ shutdown => shutdown'
        /\ shutdown' \in BOOLEAN
        /\ Alive' => Alive
        /\ main' \in {"creating", "sleeping", "destroyed", "exited"}
    BY <1>0, <1>2 DEF CreateFails, Created, Destroy, Interrupt, Alive, Typed
  <2>2. Typed' /\ BuffersFit'
    <3>1. UNCHANGED <<worker, client, conn, up, down, sent, served>>
      BY <2>1 DEF netVars
    <3>2. Typed'
      BY <1>0, <2>1, <3>1 DEF Typed
    <3>3. BuffersFit'
      BY <1>0, <3>1 DEF BuffersFit
    <3> QED
      BY <3>2, <3>3
  <2>3. Ended'
    <3>1. Interrupt => main' = main
      BY DEF Interrupt
    <3>2. CreateFails => \E w \in Workers : worker[w].pc = "new"
      BY DEF CreateFails
    <3>3. Created => main' = "sleeping"
      BY DEF Created
    <3>4. Destroy => \A w \in Workers : worker[w].pc = "ended"
      BY DEF Destroy, Joined
    <3> QED
      BY <1>0, <1>2, <2>1, <3>1, <3>2, <3>3, <3>4 DEF Ended
  <2>4. \A d \in Clients : Untouched(d)
    BY <2>1 DEF netVars, Untouched
  <2> QED
    BY <2>1, <2>2, <2>3, <2>4, ConnectionsStay
<1>3. ASSUME Exit
      PROVE  IInv'
  <2>1. /\ UNCHANGED <<shutdown, worker, client, up, down, sent, served>>
        /\ conn' = [c \in Clients |-> IF conn[c] = "none" THEN "none" ELSE "closed"]
        /\ main = "destroyed" /\ main' = "exited" /\ ~Alive'
    BY <1>3 DEF Exit, Alive
  <2>2. Typed' /\ BuffersFit' /\ Ended'
    BY <1>0, <2>1 DEF Typed, BuffersFit, Ended
  <2>3. ASSUME NEW c \in Clients
        PROVE  ClientInv(c)'
    <3>1. ClientInv(c) /\ conn'[c] # "backlog" /\ (conn'[c] = "none" <=> conn[c] = "none")
      BY <1>0, <2>1 DEF IInv, Typed
    <3>2. Reply(c)' = Reply(c) /\ (\A w \in Workers : Writing(w, c)' <=> Writing(w, c))
      BY <2>1 DEF Reply, Writing, Serving
    <3>3. \A a : Fits(a, c)' <=> Fits(a, c)
      BY <2>1 DEF Fits
    <3> QED
      BY <2>1, <3>1, <3>2, <3>3 DEF ClientInv
  <2>4. ASSUME NEW w \in Workers, NEW c \in Clients
        PROVE  WorkerInv(w, c)'
    <3>1. WorkerInv(w, c)
      BY DEF IInv
    <3>2. Serving(w, c) => conn'[c] = "closed"
      BY <2>1, <3>1 DEF WorkerInv
    <3>3. \A v \in Workers : Serving(v, c)' <=> Serving(v, c)
      BY <2>1 DEF Serving
    <3>4. (ReadInv(w, c) => ReadInv(w, c)') /\ (WriteInv(w, c) => WriteInv(w, c)')
      BY <2>1 DEF ReadInv, WriteInv, LineAhead, Reply, Fits
    <3> QED
      BY <2>1, <3>1, <3>2, <3>3, <3>4 DEF WorkerInv
  <2> QED
    BY <2>2, <2>3, <2>4 DEF IInv
<1> QED
  BY <1>1, <1>2, <1>3 DEF MainStep

-----------------------------------------------------------------------------
(* The workers. *)

\* A connection that is served is served by one worker, and by no other step.
LEMMA Alone ==
  ASSUME IInv, NEW w \in Workers, NEW c, worker[w].conn = c, worker[w].pc \in Serves
  PROVE  /\ c \in Clients
         /\ Serving(w, c) /\ WorkerInv(w, c) /\ ClientInv(c)
         /\ \A v \in Workers \ {w} : ~Serving(v, c)
         /\ \A d \in Clients \ {c} : ~Serving(w, d)
<1>1. c \in Clients
  BY DEF IInv, BuffersFit
<1> QED
  BY <1>1 DEF IInv, WorkerInv, Serving

\* What every step of a worker but Hangup leaves as it was: no worker begins or
\* ceases to exist, and none changes its client.
LEMMA StillEnded ==
  ASSUME IInv, NEW w \in Workers, UNCHANGED main, worker[w].pc \notin {"new", "ended"},
         \A v \in Workers \ {w} : UNCHANGED worker[v]
  PROVE  Ended'
BY DEF IInv, Ended

LEMMA AcceptOK ==
  ASSUME IInv, NEW w \in Workers, NEW c \in Clients, Accept(w, c)
  PROVE  IInv'
<1> DEFINE r == [Fresh EXCEPT !.pc = "read", !.conn = c]
<1>0. Typed /\ BuffersFit /\ ClientInv(c) /\ conn[c] = "backlog" /\ worker[w].pc = "accept"
  BY DEF IInv, Accept
<1>1. /\ worker' = [worker EXCEPT ![w] = r]
      /\ conn' = [conn EXCEPT ![c] = "open"]
      /\ UNCHANGED <<main, shutdown, client, up, down, sent, served>>
  BY DEF Accept, mainVars
<1>2. r \in WorkerStates /\ r.pc = "read" /\ r.conn = c /\ r.buf = <<>>
  <2>1. Fresh \in WorkerStates /\ Fresh.buf = <<>>
    BY DEF Fresh, WorkerStates
  <2> QED
    BY <2>1 DEF WorkerStates
<1> HIDE DEF r
<1>3. worker'[w] = r /\ \A v \in Workers \ {w} : worker'[v] = worker[v]
  BY <1>0, <1>1 DEF Typed
<1>4. Typed' /\ BuffersFit'
  <2>1. Typed'
    BY <1>0, <1>1, <1>2 DEF Typed
  <2>2. BuffersFit'
    BY <1>0, <1>2, <1>3, SizesAssumption DEF BuffersFit
  <2> QED
    BY <2>1, <2>2
<1>5. \A v \in Workers : ~Serving(v, c)
  BY <1>0 DEF IInv, WorkerInv
<1>6. ClientInv(c)'
  <2>1. conn'[c] = "open"
    BY <1>0, <1>1 DEF Typed
  <2>2. \A v \in Workers : ~Writing(v, c)
    BY <1>5 DEF Writing
  <2>3. UNCHANGED <<client[c], up[c], down[c], sent[c], served[c], shutdown>>
    BY <1>1
  <2> QED
    BY <1>0, <2>1, <2>2, <2>3 DEF ClientInv, Reply, Fits
<1>7. WorkerInv(w, c)'
  <2>1. conn'[c] = "open"
    BY <1>0, <1>1 DEF Typed
  <2>2. \A v \in Workers : Serving(v, c)' => v = w
    BY <1>3, <1>5 DEF Serving
  <2>3. ReadInv(w, c)' /\ WriteInv(w, c)'
    BY <1>0, <1>1, <1>2, <1>3 DEF ReadInv, WriteInv, ClientInv, LineAhead, Reply
  <2> QED
    BY <1>2, <1>3, <2>1, <2>2, <2>3 DEF WorkerInv
<1>8. \A d \in Clients \ {c} : Untouched(d) /\ ~Serving(w, d) /\ ~Serving(w, d)'
  BY <1>0, <1>1, <1>2, <1>3 DEF Typed, Untouched, Serving, Serves
<1> QED
  BY <1>0, <1>1, <1>3, <1>4, <1>5, <1>6, <1>7, <1>8, StillEnded, OthersStay

LEMMA EndWorkerOK ==
  ASSUME IInv, NEW w \in Workers, EndWorker(w)
  PROVE  IInv'
<1>0. Typed /\ BuffersFit /\ worker[w].pc = "accept"
  BY DEF IInv, EndWorker
<1>1. /\ worker' = [worker EXCEPT ![w].pc = "ended"]
      /\ UNCHANGED <<main, shutdown, client, conn, up, down, sent, served>>
  BY DEF EndWorker, mainVars, netVars
<1>2. /\ worker'[w].pc = "ended" /\ worker'[w].buf = worker[w].buf
      /\ \A v \in Workers \ {w} : worker'[v] = worker[v]
  BY <1>0, <1>1 DEF Typed, WorkerStates
<1>3. Typed' /\ BuffersFit'
  <2>1. worker' \in [Workers -> WorkerStates]
    BY <1>0, <1>1 DEF Typed, WorkerStates
  <2>2. BuffersFit'
    BY <1>0, <1>2 DEF BuffersFit, Serves
  <2> QED
    BY <1>0, <1>1, <2>1, <2>2 DEF Typed
<1>4. \A d \in Clients : Untouched(d)
  BY <1>1 DEF Untouched
<1>5. \A v \in Workers :
        UNCHANGED worker[v] \/ (worker[v].pc \notin Serves /\ worker'[v].pc \notin Serves)
  BY <1>0, <1>2 DEF Serves
<1> QED
  BY <1>0, <1>1, <1>2, <1>3, <1>4, <1>5, StillEnded, ConnectionsStay DEF Alive

LEMMA CloseAtEndOK ==
  ASSUME IInv, NEW w \in Workers, NEW c, worker[w].conn = c, CloseAtEnd(w)
  PROVE  IInv'
<1>0. Typed /\ BuffersFit /\ worker[w].pc = "read" /\ worker[w].buf = <<>> /\ Alive
  BY DEF IInv, CloseAtEnd
<1>1. /\ worker' = [worker EXCEPT ![w] = Fresh]
      /\ conn' = [conn EXCEPT ![c] = "closed"]
      /\ UNCHANGED <<main, shutdown, client, up, down, sent, served>>
  BY DEF CloseAtEnd, Hangup, mainVars
<1>2. Fresh \in WorkerStates /\ Fresh.pc = "accept" /\ Fresh.buf = <<>>
  BY DEF Fresh, WorkerStates
<1>3. /\ c \in Clients /\ WorkerInv(w, c) /\ ClientInv(c) /\ Serving(w, c)
      /\ \A v \in Workers \ {w} : ~Serving(v, c)
      /\ \A d \in Clients \ {c} : ~Serving(w, d)
  BY <1>0, Alone DEF Serves
<1>4. worker'[w] = Fresh /\ \A v \in Workers \ {w} : worker'[v] = worker[v]
  BY <1>0, <1>1 DEF Typed
<1>5. Typed' /\ BuffersFit'
  <2>1. Typed'
    BY <1>0, <1>1, <1>2 DEF Typed
  <2>2. BuffersFit'
    BY <1>0, <1>2, <1>4, SizesAssumption DEF BuffersFit, Serves
  <2> QED
    BY <2>1, <2>2
<1>6. ClientInv(c)'
  <2>1. conn[c] = "open" /\ conn'[c] = "closed"
    BY <1>0, <1>1, <1>3 DEF Typed, WorkerInv
  <2>2. \A v \in Workers : ~Writing(v, c)
    BY <1>0, <1>3 DEF Writing
  <2>3. UNCHANGED <<client[c], up[c], down[c], sent[c], served[c], shutdown>>
    BY <1>1
  <2> QED
    BY <1>3, <2>1, <2>2, <2>3 DEF ClientInv, Reply, Fits
<1>7. \A d \in Clients : ~Serving(w, d)'
  BY <1>2, <1>4 DEF Serving, Serves
<1>8. WorkerInv(w, c)'
  BY <1>3, <1>7 DEF WorkerInv
<1>9. \A d \in Clients \ {c} : Untouched(d)
  BY <1>0, <1>1 DEF Typed, Untouched
<1> QED
  BY <1>0, <1>1, <1>3, <1>4, <1>5, <1>6, <1>7, <1>8, <1>9, StillEnded, OthersStay


\* Reading moves bytes of the line from one side of buf \o up to the other.
LEMMA ReadSomeOK ==
  ASSUME IInv, NEW w \in Workers, NEW c, worker[w].conn = c, ReadSome(w)
  PROVE  IInv'
<1>0. Typed /\ BuffersFit /\ worker[w].pc = "read" /\ ~shutdown
  BY DEF IInv, ReadSome
<1>1. /\ c \in Clients /\ WorkerInv(w, c) /\ ClientInv(c) /\ Serving(w, c)
      /\ \A v \in Workers \ {w} : ~Serving(v, c)
      /\ \A d \in Clients \ {c} : ~Serving(w, d)
  BY <1>0, Alone DEF Serves
<1>p. PICK p \in Prefixes(up[c], Room(w)) :
        /\ up' = [up EXCEPT ![c] = After(p, up[c])]
        /\ worker' = [worker EXCEPT
             ![w].buf = worker[w].buf \o p,
             ![w].pc = IF LineRead(worker[w].buf \o p) THEN "serve" ELSE "read"]
  BY DEF ReadSome
<1>q. PICK b, u, q, r : b = worker[w].buf /\ u = up[c] /\ q = b \o p /\ r = After(p, u)
  OBVIOUS
<1>2. /\ b = worker[w].buf /\ u = up[c]
      /\ p \in Prefixes(u, Room(w)) /\ q = b \o p /\ r = After(p, u)
      /\ up' = [up EXCEPT ![c] = r]
      /\ worker' = [worker EXCEPT ![w].buf = q,
                                  ![w].pc = IF LineRead(q) THEN "serve" ELSE "read"]
  BY <1>p, <1>q, Zenon
<1>3. UNCHANGED <<main, shutdown, client, conn, down, sent, served>>
  BY DEF ReadSome, mainVars
<1>4. /\ b \in Seq(Bytes) /\ u \in Seq(Bytes) /\ Room(w) \in Nat
      /\ Len(b) + Room(w) = BufferBytes
  <2>1. b \in Seq(Bytes) /\ u \in Seq(Bytes)
    BY <1>0, <1>1, <1>2, Fields
  <2>2. Len(b) \in Nat /\ Len(b) <= BufferBytes /\ BufferBytes \in Nat
    BY <1>0, <1>2, <2>1, SizesAssumption DEF BuffersFit
  <2>3. Room(w) = BufferBytes - Len(b)
    BY <1>2 DEF Room
  <2> QED
    BY <2>1, <2>2, <2>3
<1>5. /\ p \in Seq(Bytes) /\ p # <<>> /\ Len(p) <= Room(w) /\ u # <<>>
      /\ r \in Seq(Bytes) /\ p \o r = u
  BY <1>2, <1>4, PieceAndRest
<1>6. /\ q \in Seq(Bytes) /\ q # <<>> /\ Len(q) <= BufferBytes
      /\ q \o r = b \o u
  <2>1. Len(q) = Len(b) + Len(p) /\ q \in Seq(Bytes) /\ q # <<>>
    BY <1>2, <1>4, <1>5, EmptyParts
  <2>2. (b \o p) \o r = b \o (p \o r)
    <3>1. b \in Seq(Bytes) /\ p \in Seq(Bytes) /\ r \in Seq(Bytes)
      BY <1>4, <1>5
    <3> QED
      BY <3>1, Associative
  <2>3. Len(p) \in Nat /\ Len(b) \in Nat
    BY <1>4, <1>5
  <2> QED
    BY <1>2, <1>4, <1>5, <2>1, <2>2, <2>3
<1>7. /\ worker'[w].buf = q /\ worker'[w].conn = c
      /\ worker'[w].pc = IF EndsLine(q) THEN "serve" ELSE "read"
      /\ \A v \in Workers \ {w} : worker'[v] = worker[v]
      /\ up'[c] = r
  BY <1>0, <1>1, <1>2 DEF Typed, WorkerStates, LineRead
<1>8. Typed' /\ BuffersFit'
  <2>1. worker' \in [Workers -> WorkerStates]
    <3>1. \A s \in WorkerStates : [s EXCEPT !.buf = q,
             !.pc = IF LineRead(q) THEN "serve" ELSE "read"] \in WorkerStates
      BY <1>6 DEF WorkerStates
    <3> QED
      BY <1>0, <1>2, <3>1 DEF Typed
  <2>2. up' \in [Clients -> Seq(Bytes)]
    BY <1>0, <1>2, <1>5 DEF Typed
  <2>3. BuffersFit'
    BY <1>0, <1>1, <1>6, <1>7 DEF BuffersFit
  <2> QED
    BY <1>0, <1>3, <2>1, <2>2, <2>3 DEF Typed
<1>9. LineAhead(c, b \o u) /\ client[c].pc # "idle"
  <2>1. CASE b = <<>>
    <3>1. LineAhead(c, u)
      BY <1>0, <1>1, <1>2, <1>5, <2>1 DEF WorkerInv, ReadInv
    <3>2. b \o u = u
      BY <1>4, <2>1, EmptyParts
    <3> QED
      BY <3>1, <3>2 DEF LineAhead
  <2>2. CASE b # <<>>
    BY <1>1, <1>2, <2>2 DEF WorkerInv, ReadInv, LineAhead
  <2> QED
    BY <2>1, <2>2
<1>10. LineAhead(c, q \o r)'
  <2>1. LineAhead(c, q \o r)
    BY <1>6, <1>9
  <2>2. UNCHANGED <<client[c], down[c], sent[c], served[c]>>
    BY <1>3
  <2> QED
    BY <2>1, <2>2 DEF LineAhead, Reply
<1>11. ClientInv(c)'
  <2>1. conn[c] \notin {"none", "backlog"} /\ client[c].pc # "off"
    BY <1>1 DEF WorkerInv, ClientInv
  <2>2. UNCHANGED <<client[c], conn[c], down[c], sent[c], served[c], shutdown>>
    BY <1>3
  <2>3. \A v \in Workers : Writing(v, c)' <=> Writing(v, c)
    BY <1>0, <1>1, <1>7 DEF Writing, Serving
  <2> QED
    BY <1>1, <2>1, <2>2, <2>3 DEF ClientInv, Reply, Fits
<1>12. EndsLine(q) => r = <<>>
  <2>1. q \o r \in Lines
    BY <1>6, <1>9 DEF LineAhead
  <2> QED
    BY <1>5, <1>6, <2>1, WholeLine
<1>13. WorkerInv(w, c)'
  <2>1. /\ conn'[c] \in {"open", "closed"}
        /\ Alive' => conn'[c] = "open"
        /\ \A v \in Workers : Serving(v, c)' => v = w
        /\ client'[c].pc # "idle"
    BY <1>1, <1>3, <1>7, <1>9 DEF WorkerInv, Serving, Alive
  <2>2. ReadInv(w, c)'
    BY <1>6, <1>7, <1>10, <1>12 DEF ReadInv
  <2>3. WriteInv(w, c)'
    BY <1>7 DEF WriteInv
  <2> QED
    BY <2>1, <2>2, <2>3 DEF WorkerInv
<1>14. \A d \in Clients \ {c} : Untouched(d) /\ ~Serving(w, d) /\ ~Serving(w, d)'
  BY <1>0, <1>1, <1>2, <1>3, <1>7 DEF Typed, Untouched, Serving
<1> QED
  BY <1>0, <1>1, <1>3, <1>7, <1>8, <1>11, <1>13, <1>14, StillEnded, OthersStay

LEMMA ReadEndsOK ==
  ASSUME IInv, NEW w \in Workers, NEW c, worker[w].conn = c, ReadEnds(w)
  PROVE  IInv'
<1>0. Typed /\ BuffersFit /\ worker[w].pc = "read" /\ worker[w].buf # <<>>
  BY DEF IInv, ReadEnds
<1>1. /\ c \in Clients /\ WorkerInv(w, c) /\ ClientInv(c) /\ Serving(w, c)
      /\ \A v \in Workers \ {w} : ~Serving(v, c)
      /\ \A d \in Clients \ {c} : ~Serving(w, d)
  BY <1>0, Alone DEF Serves
<1>2. /\ worker' = [worker EXCEPT ![w].pc = "serve"]
      /\ UNCHANGED <<main, shutdown, client, conn, up, down, sent, served>>
  BY DEF ReadEnds, mainVars, netVars
<1>3. /\ worker'[w].buf = worker[w].buf /\ worker'[w].conn = c
      /\ worker'[w].pc = "serve"
      /\ \A v \in Workers \ {w} : worker'[v] = worker[v]
  BY <1>0, <1>2 DEF Typed, WorkerStates
<1>4. Typed' /\ BuffersFit'
  <2>1. worker' \in [Workers -> WorkerStates]
    BY <1>0, <1>2 DEF Typed, WorkerStates
  <2>2. BuffersFit'
    BY <1>0, <1>1, <1>3 DEF BuffersFit
  <2> QED
    BY <1>0, <1>2, <2>1, <2>2 DEF Typed
<1>5. LineAhead(c, worker[w].buf \o up[c]) /\ client[c].pc # "idle"
  BY <1>0, <1>1 DEF WorkerInv, ReadInv, LineAhead
<1>6. /\ up[c] = <<>> \/ shutdown
      /\ shutdown \/ client[c].pc = "done" \/ Len(worker[w].buf) = BufferBytes
  <2>1. \/ shutdown
        \/ up[c] = <<>> /\ client[c].pc = "done"
        \/ BufferBytes - Len(worker[w].buf) = 0
    BY DEF ReadEnds, NoMoreToRead, Gone, Room
  <2> DEFINE b == worker[w].buf
             u == up[c]
  <2>2. b \in Seq(Bytes) /\ u \in Seq(Bytes) /\ b \o u \in Lines
    BY <1>0, <1>1, <1>5, Fields DEF LineAhead
  <2> HIDE DEF b, u
  <2>3. Len(b) + Len(u) <= BufferBytes
    BY <2>2, WholeLine
  <2>4. Len(b) \in Nat /\ Len(u) \in Nat /\ BufferBytes \in Nat
    BY <2>2, SizesAssumption
  <2>5. BufferBytes - Len(b) = 0 => Len(u) = 0 /\ Len(b) = BufferBytes
    BY <2>3, <2>4
  <2>6. Len(u) = 0 => u = <<>>
    BY <2>2
  <2> QED
    BY <2>1, <2>5, <2>6 DEF b, u
<1>7. ClientInv(c)'
  <2>1. UNCHANGED <<client[c], conn[c], up[c], down[c], sent[c], served[c], shutdown>>
    BY <1>2
  <2>2. \A v \in Workers : Writing(v, c) => Writing(v, c)'
    BY <1>0, <1>1, <1>3 DEF Writing, Serving
  <2> QED
    BY <1>1, <2>1, <2>2, ClientStays DEF Untouched
<1>8. WorkerInv(w, c)'
  <2>1. /\ conn'[c] \in {"open", "closed"}
        /\ Alive' => conn'[c] = "open"
        /\ \A v \in Workers : Serving(v, c)' => v = w
        /\ client'[c].pc # "idle"
    BY <1>1, <1>2, <1>3, <1>5 DEF WorkerInv, Serving, Alive
  <2>2. LineAhead(c, worker[w].buf \o up[c])'
    BY <1>1, <1>2, <1>3, <1>5 DEF LineAhead, Reply
  <2>3. ReadInv(w, c)'
    BY <1>0, <1>1, <1>2, <1>3, <1>6, <2>2 DEF ReadInv
  <2>4. WriteInv(w, c)'
    BY <1>3 DEF WriteInv
  <2> QED
    BY <2>1, <2>3, <2>4 DEF WorkerInv
<1>9. \A d \in Clients \ {c} : Untouched(d) /\ ~Serving(w, d) /\ ~Serving(w, d)'
  BY <1>1, <1>2, <1>3 DEF Untouched, Serving
<1> QED
  BY <1>0, <1>1, <1>2, <1>3, <1>4, <1>7, <1>8, <1>9, StillEnded, OthersStay


\* The answer is made: all of it is now ahead of the client.
LEMMA ServeOK ==
  ASSUME IInv, NEW w \in Workers, NEW c, worker[w].conn = c, Serve(w)
  PROVE  IInv'
<1>0. Typed /\ BuffersFit /\ worker[w].pc = "serve"
  BY DEF IInv, Serve
<1>1. /\ c \in Clients /\ WorkerInv(w, c) /\ ClientInv(c) /\ Serving(w, c)
      /\ \A v \in Workers \ {w} : ~Serving(v, c)
      /\ \A d \in Clients \ {c} : ~Serving(w, d)
  BY <1>0, Alone DEF Serves
<1>p. PICK b, u, a : b = worker[w].buf /\ u = up[c] /\ a = Answer(b)
  OBVIOUS
<1>2. /\ b = worker[w].buf /\ u = up[c] /\ a = Answer(b)
      /\ worker' = [worker EXCEPT ![w].pc = "write", ![w].buf = <<>>, ![w].out = <<a, LF>>]
      /\ served' = IF Incomplete(b) THEN served ELSE [served EXCEPT ![c] = @ + 1]
      /\ UNCHANGED <<main, shutdown, client, conn, up, down, sent>>
  BY <1>p DEF Serve, mainVars, netVars
<1>3. b \in Seq(Bytes) /\ u \in Seq(Bytes) /\ b # <<>>
  BY <1>0, <1>1, <1>2, Fields DEF WorkerInv, ReadInv
<1>4. /\ LineAhead(c, b \o u) /\ client[c].pc # "idle"
      /\ served[c] \in Nat /\ sent[c] \in Nat /\ served[c] < sent[c]
      /\ u = <<>> \/ shutdown
      /\ shutdown \/ EndsLine(b) \/ Len(b) = BufferBytes \/ client[c].pc = "done"
  BY <1>0, <1>1, <1>2, <1>3, Fields DEF WorkerInv, ReadInv, LineAhead
<1>5. a \in Words
  BY <1>2, AnswerCases DEF Words
<1>6. client[c].pc = "waiting" => Fits(a, c) /\ Reply(c) = <<>>
  <2> SUFFICES ASSUME client[c].pc = "waiting"
               PROVE  Fits(a, c) /\ Reply(c) = <<>>
    OBVIOUS
  <2>1. /\ b \o u = client[c].line /\ b \o u \in Lines /\ Reply(c) = <<>>
        /\ shutdown \in BOOLEAN
    BY <1>0, <1>4 DEF LineAhead, Typed
  <2>2. a = Due(b \o u) \/ (a = "(null)" /\ shutdown)
    BY <1>2, <1>3, <1>4, <2>1, AnswerFits
  <2> QED
    BY <2>1, <2>2 DEF Fits
<1>7. /\ worker'[w].buf = <<>> /\ worker'[w].conn = c
      /\ worker'[w].pc = "write" /\ worker'[w].out = <<a, LF>>
      /\ \A v \in Workers \ {w} : worker'[v] = worker[v]
      /\ served'[c] = IF Incomplete(b) THEN served[c] ELSE served[c] + 1
      /\ \A d \in Clients \ {c} : served'[d] = served[d]
  BY <1>0, <1>1, <1>2 DEF Typed, WorkerStates
<1>8. <<a, LF>> \in Seq(Words) /\ <<a, LF>> # <<>>
  BY <1>5, AnswerIsWords
<1>9. Typed' /\ BuffersFit'
  <2>1. worker' \in [Workers -> WorkerStates]
    <3>1. \A s \in WorkerStates :
            [s EXCEPT !.pc = "write", !.buf = <<>>, !.out = <<a, LF>>] \in WorkerStates
      <4>1. \A o \in Seq(Words), s \in WorkerStates :
              [s EXCEPT !.pc = "write", !.buf = <<>>, !.out = o] \in WorkerStates
        BY Emptied
      <4> QED
        BY <1>8, <4>1
    <3> QED
      BY <1>0, <1>2, <3>1 DEF Typed
  <2>2. served' \in [Clients -> Nat]
    BY <1>0, <1>1, <1>2 DEF Typed
  <2>3. BuffersFit'
    BY <1>0, <1>1, <1>7, SizesAssumption DEF BuffersFit
  <2> QED
    BY <1>0, <1>2, <2>1, <2>2, <2>3 DEF Typed
<1>10. ClientInv(c)'
  <2>1. conn[c] \notin {"none", "backlog"} /\ client[c].pc # "off"
    BY <1>1 DEF WorkerInv, ClientInv
  <2>2. UNCHANGED <<client[c], conn[c], up[c], down[c], sent[c], shutdown>>
    BY <1>2
  <2>3. Writing(w, c)'
    BY <1>7 DEF Writing, Serving, Serves
  <2>4. served'[c] <= sent'[c]
    BY <1>2, <1>4, <1>7
  <2> QED
    BY <1>1, <1>4, <2>1, <2>2, <2>3, <2>4 DEF ClientInv, Reply, Fits
<1>11. WorkerInv(w, c)'
  <2>1. /\ conn'[c] \in {"open", "closed"}
        /\ Alive' => conn'[c] = "open"
        /\ \A v \in Workers : Serving(v, c)' => v = w
        /\ client'[c].pc # "idle"
    BY <1>1, <1>2, <1>4, <1>7 DEF WorkerInv, Serving, Alive
  <2>2. ReadInv(w, c)'
    BY <1>7 DEF ReadInv
  <2>3. client[c].pc = "waiting" => Fits(a, c)' /\ Reply(c)' \o <<a, LF>> = <<a, LF>>
    <3>1. UNCHANGED <<client[c], down[c], shutdown>>
      BY <1>2
    <3> QED
      BY <1>6, <1>8, <3>1, EmptyParts DEF Fits, Reply
  <2>4. WriteInv(w, c)'
    BY <1>2, <1>4, <1>5, <1>7, <1>8, <2>3 DEF WriteInv
  <2> QED
    BY <2>1, <2>2, <2>4 DEF WorkerInv
<1>12. \A d \in Clients \ {c} : Untouched(d) /\ ~Serving(w, d) /\ ~Serving(w, d)'
  BY <1>1, <1>2, <1>7 DEF Untouched, Serving
<1> QED
  BY <1>0, <1>1, <1>2, <1>7, <1>9, <1>10, <1>11, <1>12, StillEnded, OthersStay

\* Writing moves bytes of the answer from out to down.
LEMMA WriteSomeOK ==
  ASSUME IInv, NEW w \in Workers, NEW c, worker[w].conn = c, WriteSome(w)
  PROVE  IInv'
<1>0. Typed /\ BuffersFit /\ worker[w].pc = "write" /\ client[c].pc # "done"
  BY DEF IInv, WriteSome, Gone
<1>1. /\ c \in Clients /\ WorkerInv(w, c) /\ ClientInv(c) /\ Serving(w, c)
      /\ \A v \in Workers \ {w} : ~Serving(v, c)
      /\ \A d \in Clients \ {c} : ~Serving(w, d)
  BY <1>0, Alone DEF Serves
<1>p. PICK p \in Prefixes(worker[w].out, 2) :
        /\ down' = [down EXCEPT ![c] = @ \o p]
        /\ worker' = IF WriteStops(After(p, worker[w].out))
                     THEN [worker EXCEPT ![w].pc = "read", ![w].out = <<>>]
                     ELSE [worker EXCEPT ![w].out = After(p, worker[w].out)]
  BY DEF WriteSome
<1>q. PICK o, r, s : o = worker[w].out /\ r = After(p, o) /\ s = Reply(c)
  OBVIOUS
<1>2. /\ o = worker[w].out /\ p \in Prefixes(o, 2) /\ r = After(p, o)
      /\ down' = [down EXCEPT ![c] = down[c] \o p]
      /\ worker' = IF r = <<>> THEN [worker EXCEPT ![w].pc = "read", ![w].out = <<>>]
                               ELSE [worker EXCEPT ![w].out = r]
      /\ UNCHANGED <<main, shutdown, client, conn, up, sent, served>>
  BY <1>p, <1>q DEF WriteSome, WriteStops, mainVars
<1>3. /\ o \in Seq(Words) /\ s \in Seq(Words)
      /\ client[c].got \in Seq(Words) /\ down[c] \in Seq(Words)
  <2>1. o \in Seq(Words) /\ client[c].got \in Seq(Words) /\ down[c] \in Seq(Words)
    BY <1>0, <1>1, <1>2, Fields
  <2> QED
    BY <1>q, <2>1, EmptyParts DEF Reply
<1>4. p \in Seq(Words) /\ r \in Seq(Words) /\ p \o r = o
  BY <1>2, <1>3, PieceAndRest
<1>5. s \o p \in Seq(Words) /\ (s \o p) \o r = s \o o
  <2>1. s \in Seq(Words) /\ p \in Seq(Words) /\ r \in Seq(Words)
    BY <1>3, <1>4
  <2>2. s \o p \in Seq(Words) /\ (s \o p) \o r = s \o (p \o r)
    BY <2>1, Associative, EmptyParts
  <2> QED
    BY <1>4, <2>2
<1>6. /\ worker'[w].buf = worker[w].buf /\ worker'[w].conn = c
      /\ worker'[w].out = r
      /\ worker'[w].pc = IF r = <<>> THEN "read" ELSE "write"
      /\ \A v \in Workers \ {w} : worker'[v] = worker[v]
      /\ down'[c] = down[c] \o p
  BY <1>0, <1>1, <1>2 DEF Typed, WorkerStates
<1>7. Reply(c)' = s \o p
  <2>0. PICK g, d : g = client[c].got /\ d = down[c]
    OBVIOUS
  <2>1. g \in Seq(Words) /\ d \in Seq(Words) /\ p \in Seq(Words)
    BY <1>3, <1>4, <2>0
  <2>2. (g \o d) \o p = g \o (d \o p)
    BY <2>1, Associative
  <2> QED
    BY <1>2, <1>q, <1>6, <2>0, <2>2 DEF Reply
<1>8. /\ client[c].pc = "waiting" /\ worker[w].buf = <<>> /\ (up[c] = <<>> \/ shutdown)
      /\ conn[c] \notin {"none", "backlog"}
  <2>1. client[c].pc \in {"off", "idle", "waiting", "done"}
    BY <1>0, <1>1 DEF Typed, ClientStates
  <2>2. conn[c] \notin {"none", "backlog"} /\ client[c].pc # "idle"
    BY <1>0, <1>1 DEF WorkerInv
  <2> QED
    BY <1>0, <1>1, <2>1, <2>2 DEF WorkerInv, WriteInv, ClientInv
<1>9. PICK a \in Words : Fits(a, c) /\ s \o o = <<a, LF>>
  BY <1>0, <1>1, <1>2, <1>8, <1>q DEF WorkerInv, WriteInv
<1>10. /\ r = <<>> => s \o p = <<a, LF>>
       /\ r # <<>> => s \o p = <<>> \/ s \o p = <<a>>
  <2>0. PICK m : m = s \o p
    OBVIOUS
  <2>1. m \in Seq(Words) /\ r \in Seq(Words) /\ m \o r = <<a, LF>>
    BY <1>4, <1>5, <1>9, <2>0
  <2>2. /\ r = <<>> => m = <<a, LF>>
        /\ r # <<>> => m = <<>> \/ m = <<a>>
    BY <2>1, PartOfAnswer
  <2> QED
    BY <2>0, <2>2
<1>11. Typed' /\ BuffersFit'
  <2>1. worker' \in [Workers -> WorkerStates]
    <3>1. \A t \in WorkerStates : /\ [t EXCEPT !.pc = "read", !.out = <<>>] \in WorkerStates
                                  /\ [t EXCEPT !.out = r] \in WorkerStates
      <4>1. \A t \in WorkerStates : [t EXCEPT !.pc = "read", !.out = <<>>] \in WorkerStates
        BY <1>4, Emptied
      <4>2. \A t \in WorkerStates : [t EXCEPT !.out = r] \in WorkerStates
        BY <1>4 DEF WorkerStates
      <4> QED
        BY <4>1, <4>2
    <3> QED
      BY <1>0, <1>2, <3>1 DEF Typed
  <2>2. down' \in [Clients -> Seq(Words)]
    <3>1. down[c] \o p \in Seq(Words)
      BY <1>3, <1>4, EmptyParts
    <3> QED
      BY <1>0, <1>2, <3>1 DEF Typed
  <2>3. BuffersFit'
    BY <1>0, <1>1, <1>6 DEF BuffersFit
  <2> QED
    BY <1>0, <1>2, <2>1, <2>2, <2>3 DEF Typed
<1>12. Fits(a, c)' /\ UNCHANGED <<client[c], conn[c], up[c], sent[c], served[c], shutdown>>
  BY <1>2, <1>9 DEF Fits
<1>13. ClientInv(c)'
  <2>1. Reply(c)' # <<>> => Reply(c)' \in {<<a>>, <<a, LF>>}
    BY <1>7, <1>10
  <2>2. r = <<>> => EndsLine(Reply(c)')
    BY <1>7, <1>9, <1>10, NoAnswerIsLF, EndOfAnswer
  <2>3. r # <<>> => Writing(w, c)'
    BY <1>6 DEF Writing, Serving, Serves
  <2> QED
    BY <1>1, <1>8, <1>12, <2>1, <2>2, <2>3 DEF ClientInv
<1>14. WorkerInv(w, c)'
  <2>1. /\ conn'[c] \in {"open", "closed"}
        /\ Alive' => conn'[c] = "open"
        /\ \A v \in Workers : Serving(v, c)' => v = w
        /\ client'[c].pc # "idle"
    BY <1>1, <1>2, <1>6, <1>8 DEF WorkerInv, Serving, Alive
  <2>2. ReadInv(w, c)'
    BY <1>6, <1>8, <1>12 DEF ReadInv
  <2>3. Reply(c)' \o r = <<a, LF>>
    BY <1>5, <1>7, <1>9
  <2>4. WriteInv(w, c)'
    BY <1>6, <1>8, <1>12, <2>3 DEF WriteInv
  <2> QED
    BY <2>1, <2>2, <2>4 DEF WorkerInv
<1>15. \A d \in Clients \ {c} : Untouched(d) /\ ~Serving(w, d) /\ ~Serving(w, d)'
  BY <1>0, <1>1, <1>2, <1>6 DEF Untouched, Serving, Typed
<1> QED
  BY <1>0, <1>1, <1>2, <1>6, <1>11, <1>13, <1>14, <1>15, StillEnded, OthersStay

LEMMA WriteInVainOK ==
  ASSUME IInv, NEW w \in Workers, NEW c, worker[w].conn = c, WriteInVain(w)
  PROVE  IInv'
<1>0. Typed /\ BuffersFit /\ worker[w].pc = "write" /\ client[c].pc = "done"
  BY DEF IInv, WriteInVain, Gone
<1>1. /\ c \in Clients /\ WorkerInv(w, c) /\ ClientInv(c) /\ Serving(w, c)
      /\ \A v \in Workers \ {w} : ~Serving(v, c)
      /\ \A d \in Clients \ {c} : ~Serving(w, d)
  BY <1>0, Alone DEF Serves
<1>2. /\ worker' = [worker EXCEPT ![w].pc = "read", ![w].out = <<>>]
      /\ UNCHANGED <<main, shutdown, client, conn, up, down, sent, served>>
  BY DEF WriteInVain, mainVars, netVars
<1>3. /\ worker'[w].buf = worker[w].buf /\ worker'[w].conn = c
      /\ worker'[w].pc = "read"
      /\ \A v \in Workers \ {w} : worker'[v] = worker[v]
  BY <1>0, <1>2 DEF Typed, WorkerStates
<1>4. Typed' /\ BuffersFit'
  <2>1. worker' \in [Workers -> WorkerStates]
    <3>1. \A s \in WorkerStates : [s EXCEPT !.pc = "read", !.out = <<>>] \in WorkerStates
      <4>1. worker[w].out \in Seq(Words)
        BY <1>0, <1>1, Fields
      <4> QED
        BY <4>1, Emptied
    <3> QED
      BY <1>0, <1>2, <3>1 DEF Typed
  <2>2. BuffersFit'
    BY <1>0, <1>1, <1>3 DEF BuffersFit
  <2> QED
    BY <1>0, <1>2, <2>1, <2>2 DEF Typed
<1>5. worker[w].buf = <<>> /\ (up[c] = <<>> \/ shutdown)
  BY <1>0, <1>1 DEF WorkerInv, WriteInv
<1>6. ClientInv(c)'
  <2>1. UNCHANGED <<client[c], conn[c], up[c], down[c], sent[c], served[c], shutdown>>
    BY <1>2
  <2> QED
    BY <1>0, <1>1, <2>1 DEF ClientInv, LineAhead
<1>7. WorkerInv(w, c)'
  <2>1. /\ conn'[c] \in {"open", "closed"}
        /\ Alive' => conn'[c] = "open"
        /\ \A v \in Workers : Serving(v, c)' => v = w
    BY <1>1, <1>2, <1>3 DEF WorkerInv, Serving, Alive
  <2>2. ReadInv(w, c)' /\ WriteInv(w, c)'
    BY <1>2, <1>3, <1>5 DEF ReadInv, WriteInv
  <2> QED
    BY <1>0, <1>2, <2>1, <2>2 DEF WorkerInv
<1>8. \A d \in Clients \ {c} : Untouched(d) /\ ~Serving(w, d) /\ ~Serving(w, d)'
  BY <1>1, <1>2, <1>3 DEF Untouched, Serving
<1> QED
  BY <1>0, <1>1, <1>2, <1>3, <1>4, <1>6, <1>7, <1>8, StillEnded, OthersStay

-----------------------------------------------------------------------------
(* The clients. *)

LEMMA ConnectOK ==
  ASSUME IInv, NEW c \in Clients, Connect(c)
  PROVE  IInv'
<1>0. Typed /\ ClientInv(c) /\ client[c].pc = "off"
  BY DEF IInv, Connect
<1>1. /\ client' = [client EXCEPT ![c].pc = "idle"]
      /\ conn' = [conn EXCEPT ![c] = "backlog"]
      /\ UNCHANGED <<main, shutdown, worker, up, down, sent, served>>
  BY DEF Connect, mainVars
<1>2. conn[c] = "none" /\ up[c] = <<>> /\ down[c] = <<>> /\ sent[c] = 0
  BY <1>0 DEF ClientInv
<1>3. client'[c].pc = "idle" /\ conn'[c] = "backlog"
  BY <1>0, <1>1 DEF Typed, ClientStates
<1>4. Typed'
  <2>1. client' \in [Clients -> ClientStates]
    BY <1>0, <1>1 DEF Typed, ClientStates
  <2>2. conn' \in [Clients -> {"none", "backlog", "open", "closed"}]
    BY <1>0, <1>1 DEF Typed
  <2> QED
    BY <1>0, <1>1, <2>1, <2>2 DEF Typed
<1>5. ClientInv(c)'
  BY <1>0, <1>1, <1>2, <1>3 DEF ClientInv
<1>6. \A w \in Workers : WorkerInv(w, c)'
  <2>1. \A w \in Workers : ~Serving(w, c)
    BY <1>2 DEF IInv, WorkerInv
  <2> QED
    BY <1>1, <2>1 DEF WorkerInv, Serving
<1>7. \A d \in Clients \ {c} : Untouched(d)
  BY <1>0, <1>1 DEF Untouched, Typed
<1> QED
  BY <1>1, <1>4, <1>5, <1>6, <1>7, OtherClientsStay

\* A client sends its line when the connection is empty in both directions,
\* unless the shutdown has left bytes that nobody will read.
LEMMA SendOK ==
  ASSUME IInv, NEW c \in Clients, NEW l \in Lines, Send(c, l)
  PROVE  IInv'
<1>0. Typed /\ ClientInv(c) /\ client[c].pc = "idle"
  BY DEF IInv, Send
<1>1. /\ client' = [client EXCEPT ![c] = [pc |-> "waiting", line |-> l, got |-> <<>>]]
      /\ up' = IF conn[c] = "closed" THEN up ELSE [up EXCEPT ![c] = up[c] \o l]
      /\ sent' = [sent EXCEPT ![c] = sent[c] + 1]
      /\ UNCHANGED <<main, shutdown, worker, conn, down, served>>
  BY DEF Send, mainVars
<1>2. /\ client'[c] = [pc |-> "waiting", line |-> l, got |-> <<>>]
      /\ up'[c] = IF conn[c] = "closed" THEN up[c] ELSE up[c] \o l
      /\ sent'[c] = sent[c] + 1 /\ down'[c] = <<>> /\ conn'[c] = conn[c]
      /\ conn[c] # "none"
  BY <1>0, <1>1 DEF Typed, ClientInv
<1>3. l \in Seq(Bytes) /\ l # <<>> /\ up[c] \in Seq(Bytes) /\ up[c] \o l \in Seq(Bytes)
  <2>1. up[c] \in Seq(Bytes)
    BY <1>0 DEF Typed
  <2>2. l \in Seq(Bytes) /\ Len(l) > 0
    BY LinesAssumption, SizesAssumption DEF Bytes
  <2> QED
    BY <2>1, <2>2, EmptyParts
<1>4. served[c] \in Nat /\ sent[c] \in Nat /\ served[c] <= sent[c] /\ served[c] < sent'[c]
  BY <1>0, <1>2 DEF Typed, ClientInv
<1>5. Reply(c)' = <<>>
  <2>1. client'[c].got = <<>>
    BY <1>2
  <2> QED
    BY <1>2, <2>1 DEF Reply
<1>6. ~EndsLine(client'[c].got)
  BY <1>2 DEF EndsLine
<1>7. up[c] = <<>> => up[c] \o l = l
  BY <1>3, EmptyParts
<1>8. up'[c] = l => LineAhead(c, up[c])'
  <2>1. client'[c].pc = "waiting" /\ client'[c].line = l
    BY <1>2
  <2>2. served'[c] < sent'[c]
    BY <1>1, <1>4
  <2> QED
    BY <1>5, <2>1, <2>2 DEF LineAhead
<1>9. Typed'
  <2>1. [pc |-> "waiting", line |-> l, got |-> <<>>] \in ClientStates
    BY DEF ClientStates
  <2>2. client' \in [Clients -> ClientStates]
    BY <1>0, <1>1, <2>1 DEF Typed
  <2>3. up' \in [Clients -> Seq(Bytes)]
    BY <1>0, <1>1, <1>3 DEF Typed
  <2>4. sent' \in [Clients -> Nat]
    BY <1>0, <1>1 DEF Typed
  <2> QED
    BY <1>0, <1>1, <2>2, <2>3, <2>4 DEF Typed
<1>10. ClientInv(c)'
  <2>1. conn'[c] = "backlog" => up'[c] = l
    BY <1>0, <1>2, <1>7 DEF ClientInv
  <2>2. /\ client'[c].pc = "waiting" /\ client'[c].line = l /\ l \in Lines
        /\ conn'[c] # "none" /\ served'[c] = served[c] /\ sent'[c] \in Nat
    BY <1>1, <1>2, <1>4
  <2> QED
    BY <1>4, <1>5, <1>6, <1>8, <2>1, <2>2 DEF ClientInv
<1>11. ASSUME NEW w \in Workers
       PROVE  WorkerInv(w, c)'
  <2> SUFFICES ASSUME Serving(w, c)
               PROVE  WorkerInv(w, c)'
    BY <1>1 DEF WorkerInv, Serving
  <2>1. WorkerInv(w, c)
    BY DEF IInv
  <2>2. worker[w].pc = "read" /\ worker[w].buf = <<>> /\ (shutdown \/ up[c] = <<>>)
    BY <1>0, <2>1 DEF WorkerInv, ReadInv, LineAhead
  <2>3. ReadInv(w, c)'
    BY <1>1, <1>2, <1>7, <1>8, <2>2 DEF ReadInv
  <2>4. WriteInv(w, c)'
    BY <1>1, <2>2 DEF WriteInv
  <2>5. client'[c].pc # "idle"
    BY <1>2
  <2> QED
    BY <1>1, <2>1, <2>3, <2>4, <2>5 DEF WorkerInv, Serving, Alive
<1>12. \A d \in Clients \ {c} : Untouched(d)
  BY <1>0, <1>1 DEF Untouched, Typed
<1> QED
  BY <1>1, <1>9, <1>10, <1>11, <1>12, OtherClientsStay

\* What a client reads moves from down to got; it is idle again once it has got
\* the whole answer, and then nothing of its exchange is left anywhere.
LEMMA ReceiveOK ==
  ASSUME IInv, NEW c \in Clients, Receive(c)
  PROVE  IInv'
<1>0. Typed /\ ClientInv(c) /\ client[c].pc = "waiting"
  BY DEF IInv, Receive
<1>p. PICK p \in Prefixes(down[c], 2) :
        /\ down' = [down EXCEPT ![c] = After(p, down[c])]
        /\ client' = [client EXCEPT
             ![c].got = client[c].got \o p,
             ![c].pc = IF EndsLine(client[c].got \o p) THEN "idle" ELSE "waiting"]
  BY DEF Receive
<1>q. PICK g, d, h, r : g = client[c].got /\ d = down[c] /\ h = g \o p /\ r = After(p, d)
  OBVIOUS
<1>1. /\ g = client[c].got /\ d = down[c] /\ p \in Prefixes(d, 2)
      /\ h = g \o p /\ r = After(p, d)
      /\ down' = [down EXCEPT ![c] = r]
      /\ client' = [client EXCEPT ![c].got = h,
                                  ![c].pc = IF EndsLine(h) THEN "idle" ELSE "waiting"]
  BY <1>p, <1>q, Zenon
<1>2. UNCHANGED <<main, shutdown, worker, conn, up, sent, served>>
  BY DEF Receive, mainVars
<1>3. g \in Seq(Words) /\ d \in Seq(Words) /\ 2 \in Nat
  BY <1>0, <1>1 DEF Typed, ClientStates
<1>4. p \in Seq(Words) /\ p # <<>> /\ d # <<>> /\ r \in Seq(Words) /\ p \o r = d
  BY <1>1, <1>3, PieceAndRest
<1>5. h \in Seq(Words) /\ h \o r = g \o d /\ g \o d # <<>>
  <2>1. h \in Seq(Words) /\ g \o d # <<>>
    BY <1>1, <1>3, <1>4, EmptyParts
  <2>2. g \in Seq(Words) /\ p \in Seq(Words) /\ r \in Seq(Words)
    BY <1>3, <1>4
  <2>3. (g \o p) \o r = g \o (p \o r)
    BY <2>2, Associative
  <2> QED
    BY <1>1, <1>4, <2>1, <2>3
<1>6. /\ client'[c].got = h /\ client'[c].line = client[c].line
      /\ client'[c].pc = IF EndsLine(h) THEN "idle" ELSE "waiting"
      /\ down'[c] = r
  BY <1>0, <1>1 DEF Typed, ClientStates
<1>7. Reply(c) = g \o d /\ Reply(c)' = Reply(c)
  BY <1>1, <1>5, <1>6 DEF Reply
<1>8. PICK a \in Words : Fits(a, c) /\ Reply(c) \in {<<a>>, <<a, LF>>}
  BY <1>0, <1>5, <1>7 DEF ClientInv
<1>9. a # LF /\ (\A x : Fits(x, c)' <=> Fits(x, c))
  BY <1>2, <1>6, <1>8, NoAnswerIsLF DEF Fits
<1>10. EndsLine(h) => h = <<a, LF>> /\ r = <<>> /\ Reply(c) = <<a, LF>>
  <2>1. h \o r \in {<<a>>, <<a, LF>>}
    BY <1>5, <1>7, <1>8
  <2>2. EndsLine(h) => h = <<a, LF>> /\ r = <<>> /\ h \o r = <<a, LF>>
    BY <1>4, <1>5, <1>9, <2>1, WholeAnswer
  <2> QED
    BY <1>5, <1>7, <2>2
\* The line has been served: a line that is ahead has no answer yet.
<1>11. \A bytes : ~LineAhead(c, bytes)
  BY <1>0, <1>5, <1>7 DEF LineAhead
<1>12. Typed'
  <2>1. client' \in [Clients -> ClientStates]
    <3>1. \A s \in ClientStates : [s EXCEPT !.got = h,
             !.pc = IF EndsLine(h) THEN "idle" ELSE "waiting"] \in ClientStates
      BY <1>5 DEF ClientStates
    <3> QED
      BY <1>0, <1>1, <3>1 DEF Typed
  <2>2. down' \in [Clients -> Seq(Words)]
    BY <1>0, <1>1, <1>4 DEF Typed
  <2> QED
    BY <1>0, <1>2, <2>1, <2>2 DEF Typed
<1>13. conn[c] \notin {"none", "backlog"}
  BY <1>0, <1>11 DEF ClientInv
<1>14. ClientInv(c)'
  <2>1. CASE EndsLine(h)
    <3>1. /\ client'[c].pc = "idle" /\ client'[c].got = <<a, LF>> /\ down'[c] = <<>>
          /\ Fits(a, c)' /\ conn'[c] = conn[c] /\ served'[c] <= sent'[c]
      BY <1>0, <1>2, <1>6, <1>8, <1>9, <1>10, <2>1 DEF ClientInv
    <3> QED
      BY <1>13, <3>1 DEF ClientInv
  <2>2. CASE ~EndsLine(h)
    <3>1. /\ client'[c].pc = "waiting" /\ client'[c].line \in Lines
          /\ ~EndsLine(client'[c].got)
          /\ UNCHANGED <<conn[c], served[c], sent[c]>>
          /\ \A w \in Workers : Writing(w, c)' <=> Writing(w, c)
      BY <1>0, <1>2, <1>6, <2>2 DEF ClientInv, Writing, Serving
    <3>2. served[c] = sent[c] => EndsLine(Reply(c)) \/ \E w \in Workers : Writing(w, c)
      BY <1>0 DEF ClientInv
    <3>3. served[c] <= sent[c]
      BY <1>0 DEF ClientInv
    <3> QED
      BY <1>7, <1>8, <1>9, <1>13, <3>1, <3>2, <3>3 DEF ClientInv
  <2> QED
    BY <2>1, <2>2
<1>15. ASSUME NEW w \in Workers
       PROVE  WorkerInv(w, c)'
  <2> SUFFICES ASSUME Serving(w, c)
               PROVE  WorkerInv(w, c)'
    BY <1>2 DEF WorkerInv, Serving
  <2>1. WorkerInv(w, c)
    BY DEF IInv
  <2>2. /\ worker[w].buf = <<>> /\ worker[w].pc \in {"read", "write"}
        /\ shutdown \/ up[c] = <<>>
    BY <1>11, <2>1 DEF WorkerInv, ReadInv, WriteInv, Serving, Serves
  <2>3. ReadInv(w, c)'
    BY <1>2, <2>2 DEF ReadInv
  <2>4. worker[w].pc = "write" => ~EndsLine(h)
    <3> SUFFICES ASSUME worker[w].pc = "write", EndsLine(h)
                 PROVE  FALSE
      OBVIOUS
    <3>0. PICK o, y : o = worker[w].out /\ y = Reply(c)
      OBVIOUS
    <3>1. o # <<>> /\ \E b \in Words : y \o o = <<b, LF>>
      BY <1>0, <2>1, <3>0 DEF WorkerInv, WriteInv
    <3>2. o \in Seq(Words) /\ y \in Seq(Words) /\ y = <<a, LF>>
      <4>1. o \in Seq(Words)
        BY <1>0, <3>0, Fields
      <4>2. <<a, LF>> \in Seq(Words)
        BY <1>8, AnswerIsWords
      <4> QED
        BY <1>10, <3>0, <4>1, <4>2
    <3>3. y = <<>> \/ \E b \in Words : y = <<b>>
      BY <3>1, <3>2, PartOfAnswer
    <3> QED
      BY <3>2, <3>3
  <2>5. WriteInv(w, c)'
    BY <1>0, <1>2, <1>7, <1>9, <2>1 DEF WorkerInv, WriteInv
  <2>6. client'[c].pc = "idle" => worker[w].pc = "read"
    BY <1>6, <2>2, <2>4
  <2> QED
    BY <1>2, <2>1, <2>2, <2>3, <2>5, <2>6 DEF WorkerInv, Serving, Alive
<1>16. \A x \in Clients \ {c} : Untouched(x)
  BY <1>0, <1>1, <1>2 DEF Untouched, Typed
<1> QED
  BY <1>2, <1>12, <1>14, <1>15, <1>16, OtherClientsStay

\* A client that leaves, dies or learns that it has been closed.
LEMMA QuitOK ==
  ASSUME IInv, NEW c \in Clients, Quit(c), client[c].pc \in {"idle", "waiting"},
         UNCHANGED <<main, shutdown, worker, conn, up, down, sent, served>>
  PROVE  IInv'
<1>0. Typed /\ ClientInv(c)
  BY DEF IInv
<1>1. client' = [client EXCEPT ![c].pc = "done"]
  BY DEF Quit
<1>2. /\ client'[c].pc = "done" /\ client'[c].line = client[c].line
      /\ client'[c].got = client[c].got
  BY <1>0, <1>1 DEF Typed, ClientStates
<1>3. Typed'
  <2>1. client' \in [Clients -> ClientStates]
    BY <1>0, <1>1 DEF Typed, ClientStates
  <2> QED
    BY <1>0, <2>1 DEF Typed
<1>4. \A bytes : LineAhead(c, bytes) => LineAhead(c, bytes)'
  BY <1>2 DEF LineAhead
<1>5. ClientInv(c)'
  <2>1. UNCHANGED <<conn[c], up[c], served[c], sent[c]>> /\ conn[c] # "none"
    BY <1>0 DEF ClientInv
  <2>2. conn[c] = "backlog" => up[c] = <<>> \/ LineAhead(c, up[c])'
    BY <1>0, <1>4 DEF ClientInv
  <2>3. served[c] <= sent[c]
    BY <1>0 DEF ClientInv
  <2> QED
    BY <1>2, <2>1, <2>2, <2>3 DEF ClientInv, LineAhead
<1>6. ASSUME NEW w \in Workers
      PROVE  WorkerInv(w, c)'
  <2> SUFFICES ASSUME Serving(w, c)
               PROVE  WorkerInv(w, c)'
    BY DEF WorkerInv, Serving
  <2>1. WorkerInv(w, c) /\ UNCHANGED <<worker[w], up[c]>>
    BY DEF IInv
  <2>2. ReadInv(w, c)'
    <3>1. worker[w].buf # <<>> => LineAhead(c, worker[w].buf \o up[c])'
      BY <1>4, <2>1 DEF WorkerInv, ReadInv
    <3>2. worker[w].pc = "read" /\ worker[w].buf = <<>> =>
            shutdown \/ up[c] = <<>> \/ LineAhead(c, up[c])'
      BY <1>4, <2>1 DEF WorkerInv, ReadInv
    <3> QED
      BY <1>2, <2>1, <3>1, <3>2 DEF WorkerInv, ReadInv, LineAhead
  <2>3. WriteInv(w, c)'
    BY <1>2, <2>1 DEF WorkerInv, WriteInv
  <2> QED
    BY <1>2, <2>1, <2>2, <2>3 DEF WorkerInv, Serving, Alive
<1>7. \A d \in Clients \ {c} : Untouched(d)
  BY <1>0, <1>1 DEF Untouched, Typed
<1> QED
  BY <1>3, <1>5, <1>6, <1>7, OtherClientsStay

-----------------------------------------------------------------------------
(* The system. *)

LEMMA StepOK == IInv /\ [Next]_vars => IInv'
<1> SUFFICES ASSUME IInv, [Next]_vars PROVE IInv'
  OBVIOUS
<1>1. ASSUME NEW w \in Workers, WorkerStep(w)
      PROVE  IInv'
  <2>0. PICK c : worker[w].conn = c
    OBVIOUS
  <2>1. CASE \E d \in Clients : Accept(w, d)
    BY <2>1, AcceptOK
  <2>2. CASE EndWorker(w)
    BY <2>2, EndWorkerOK
  <2>3. CASE ReadSome(w)
    BY <2>0, <2>3, ReadSomeOK
  <2>4. CASE ReadEnds(w)
    BY <2>0, <2>4, ReadEndsOK
  <2>5. CASE CloseAtEnd(w)
    BY <2>0, <2>5, CloseAtEndOK
  <2>6. CASE Serve(w)
    BY <2>0, <2>6, ServeOK
  <2>7. CASE WriteSome(w)
    BY <2>0, <2>7, WriteSomeOK
  <2>8. CASE WriteInVain(w)
    BY <2>0, <2>8, WriteInVainOK
  <2> QED
    BY <1>1, <2>1, <2>2, <2>3, <2>4, <2>5, <2>6, <2>7, <2>8 DEF WorkerStep
<1>2. ASSUME NEW c \in Clients, ClientStep(c)
      PROVE  IInv'
  <2>1. CASE Connect(c)
    BY <2>1, ConnectOK
  <2>2. CASE Receive(c)
    BY <2>2, ReceiveOK
  <2>3. CASE \E l \in Lines : Send(c, l)
    BY <2>3, SendOK
  <2>4. CASE LearnClosed(c) \/ Leave(c) \/ Die(c)
    <3>1. /\ Quit(c) /\ client[c].pc \in {"idle", "waiting"}
          /\ UNCHANGED <<main, shutdown, worker, conn, up, down, sent, served>>
      BY <2>4 DEF LearnClosed, Leave, Die, mainVars, netVars
    <3> QED
      BY <3>1, QuitOK
  <2> QED
    BY <1>2, <2>1, <2>2, <2>3, <2>4 DEF ClientStep
<1>3. CASE UNCHANGED vars
  <2>1. UNCHANGED <<main, shutdown, worker, client, conn, up, down, sent, served>>
    BY <1>3 DEF vars, mainVars, netVars
  <2>2. Typed' /\ BuffersFit' /\ Ended'
    BY <2>1 DEF IInv, Typed, BuffersFit, Ended
  <2>3. \A d \in Clients : Untouched(d)
    BY <2>1 DEF Untouched
  <2> QED
    BY <2>1, <2>2, <2>3, ConnectionsStay DEF Alive
<1> QED
  BY <1>1, <1>2, <1>3, MainStepOK DEF Next

\* The inductive invariant holds in every reachable state.
THEOREM ExchangeInvariance == Spec => []IInv
<1>1. Init => IInv
  BY InitOK
<1>2. IInv /\ [Next]_vars => IInv'
  BY StepOK
<1> QED
  BY <1>1, <1>2, PTL DEF Spec

\* A client that is idle after a request holds the answer that is due to the
\* line it sent, or "(null)" after the signal; no line is served twice; and no
\* worker reads more than its buffer holds (handle_client, skvs_serve, client.c).
THEOREM AnswersRight == Spec => []AnswersFit
<1>1. IInv => AnswersFit
  <2> SUFFICES ASSUME IInv PROVE AnswersFit
    OBVIOUS
  <2>1. ASSUME NEW c \in Clients, client[c].pc = "idle", sent[c] > 0
        PROVE  \/ client[c].got = <<Due(client[c].line), LF>>
               \/ client[c].got = <<"(null)", LF>> /\ shutdown
    <3>1. ClientInv(c)
      BY DEF IInv
    <3>2. PICK a \in Words : Fits(a, c) /\ client[c].got = <<a, LF>>
      BY <2>1, <3>1 DEF ClientInv
    <3> QED
      BY <3>2 DEF Fits
  <2>2. \A c \in Clients : served[c] <= sent[c]
    BY DEF IInv, ClientInv
  <2>3. \A w \in Workers : Len(worker[w].buf) <= BufferBytes
    BY DEF IInv, BuffersFit
  <2> QED
    BY <2>1, <2>2, <2>3 DEF AnswersFit
<1> QED
  BY <1>1, ExchangeInvariance, PTL

\* When the connection of a client whose request was served is closed, the
\* whole answer is on its way: only the worker that has written it closes the
\* connection, and the process ends after every worker has (main joins them).
THEOREM NoAnswerLost == Spec => []ServedIsAnswered
<1>1. IInv => ServedIsAnswered
  <2> SUFFICES ASSUME IInv, NEW c \in Clients, AllCreated, client[c].pc = "waiting",
                      conn[c] = "closed", served[c] = sent[c]
               PROVE  EndsLine(client[c].got \o down[c])
    BY DEF ServedIsAnswered
  <2>1. EndsLine(Reply(c)) \/ \E w \in Workers : Writing(w, c)
    BY DEF IInv, ClientInv
  <2>2. ASSUME NEW w \in Workers
        PROVE  ~Writing(w, c)
    <3>1. Serving(w, c) => ~Alive
      BY DEF IInv, WorkerInv
    <3>2. ~Alive => worker[w].pc = "ended"
      BY DEF IInv, Ended, Alive, AllCreated
    <3> QED
      BY <3>1, <3>2 DEF Writing, Serving, Serves
  <2> QED
    BY <2>1, <2>2 DEF Reply
<1> QED
  BY <1>1, ExchangeInvariance, PTL
=============================================================================
