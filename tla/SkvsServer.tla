----------------------------- MODULE SkvsServer -----------------------------
(***************************************************************************)
(* The key-value server of src/SP_LAB5 as a process: main creates the      *)
(* workers and waits for SIGINT, each worker accepts connections and       *)
(* serves them one line at a time (server.c), and the clients send a line  *)
(* and wait for its answer (client.c).  skvs_serve is one step here; what  *)
(* happens inside it is in HashTable.                                      *)
(*                                                                         *)
(* A line is a sequence of bytes: "b" for any byte that is not a line      *)
(* feed, and LF.  An answer is the token of what was answered, then LF.    *)
(* The network delivers any prefix of what was sent to each read.  A read  *)
(* or write that returns EAGAIN changes nothing and is no step.  A worker  *)
(* tests g_shutdown immediately before each call to accept and read, and   *)
(* the test and the call are one step: setting the flag commutes with the  *)
(* call.  client.c sends no empty line, so the worker's test for one       *)
(* (lines 106-108) never succeeds and is left out.                         *)
(***************************************************************************)
EXTENDS Naturals, Sequences

CONSTANTS Workers,      \* the worker threads
          Clients,      \* each runs client.c once
          None,         \* no connection
          Lines,        \* what fgets may return to the clients
          MaxLines,     \* bound: the lines a client sends
          BufferSize,   \* BUFFER_SIZE, the longest request
          BufferBytes,  \* the bytes buffer holds besides the final 0
          CreateMayFail,\* whether malloc or pthread_create may fail in main
          MayDie        \* the clients that may be killed

ASSUME SizesAssumption ==
  /\ BufferSize \in Nat \ {0} /\ BufferBytes \in Nat /\ BufferSize < BufferBytes
  /\ MaxLines \in Nat /\ CreateMayFail \in BOOLEAN /\ MayDie \subseteq Clients

LF == "\n"
ASSUME LinesAssumption ==
  \A l \in Lines : /\ Len(l) \in 1 .. BufferBytes /\ l # <<LF>>
                   /\ \A i \in 1 .. Len(l) : l[i] = LF => i = Len(l)
                   /\ l \in Seq({"b", LF})

VARIABLES main,      \* how far main is
          shutdown,  \* g_shutdown
          worker,    \* each worker: pc, its connection, what it has read, what it has to write
          client,    \* each client: pc, the line it sent last, what it has read since
          conn,      \* each client's connection: "none", "backlog", "open", "closed" by the server
          up, down,  \* the bytes on their way to the server, and to the client
          sent,      \* how many lines each client has sent
          served     \* history: how many requests of each client skvs_serve has answered

mainVars == <<main, shutdown>>
netVars  == <<conn, up, down>>
vars     == <<mainVars, worker, client, netVars, sent, served>>

Fresh == [pc |-> "accept", conn |-> None, buf |-> <<>>, out |-> <<>>]

Init ==
  /\ main = "creating"
  /\ shutdown = FALSE
  /\ worker = [w \in Workers |-> [Fresh EXCEPT !.pc = "new"]]
  /\ client = [c \in Clients |-> [pc |-> "off", line |-> <<>>, got |-> <<>>]]
  /\ conn = [c \in Clients |-> "none"]
  /\ up = [c \in Clients |-> <<>>]
  /\ down = [c \in Clients |-> <<>>]
  /\ sent = [c \in Clients |-> 0]
  /\ served = [c \in Clients |-> 0]

Alive == main # "exited"
Gone(c) == client[c].pc = "done"

Prefixes(s, n) == {SubSeq(s, 1, i) : i \in 1 .. (IF Len(s) < n THEN Len(s) ELSE n)}
After(p, s)    == SubSeq(s, Len(p) + 1, Len(s))
EndsLine(s)    == s # <<>> /\ s[Len(s)] = LF
HasLine(s)     == \E i \in 1 .. Len(s) : s[i] = LF

(***************************************************************************)
(* main and the signal handler.                                            *)
(***************************************************************************)
CreateWorker(w) ==
  /\ main = "creating" /\ worker[w].pc = "new"
  /\ worker' = [worker EXCEPT ![w] = Fresh]
  /\ UNCHANGED <<mainVars, client, netVars, sent, served>>

\* The table is destroyed while the workers created so far are running.
CreateFails ==
  /\ CreateMayFail
  /\ main = "creating" /\ \E w \in Workers : worker[w].pc = "new"
  /\ main' = "destroyed"
  /\ UNCHANGED <<shutdown, worker, client, netVars, sent, served>>

Created ==
  /\ main = "creating" /\ \A w \in Workers : worker[w].pc # "new"
  /\ main' = "sleeping"
  /\ UNCHANGED <<shutdown, worker, client, netVars, sent, served>>

Interrupt ==
  /\ Alive /\ ~shutdown
  /\ shutdown' = TRUE
  /\ UNCHANGED <<main, worker, client, netVars, sent, served>>

Joined == \A w \in Workers : worker[w].pc = "ended"

\* main leaves its sleep, joins the workers one by one, then cleans up.
Destroy ==
  /\ main = "sleeping" /\ shutdown /\ Joined
  /\ main' = "destroyed"
  /\ UNCHANGED <<shutdown, worker, client, netVars, sent, served>>

\* The end of the process closes every connection.
Exit ==
  /\ main = "destroyed"
  /\ main' = "exited"
  /\ conn' = [c \in Clients |-> IF conn[c] = "none" THEN "none" ELSE "closed"]
  /\ UNCHANGED <<shutdown, worker, client, up, down, sent, served>>

(***************************************************************************)
(* handle_client.                                                          *)
(***************************************************************************)
Accept(w, c) ==
  /\ Alive /\ worker[w].pc = "accept" /\ ~shutdown
  /\ main \in {"creating", "sleeping"} /\ conn[c] = "backlog"
  /\ conn' = [conn EXCEPT ![c] = "open"]
  /\ worker' = [worker EXCEPT ![w] = [Fresh EXCEPT !.pc = "read", !.conn = c]]
  /\ UNCHANGED <<mainVars, client, up, down, sent, served>>

EndWorker(w) ==
  /\ Alive /\ worker[w].pc = "accept" /\ shutdown
  /\ worker' = [worker EXCEPT ![w].pc = "ended"]
  /\ UNCHANGED <<mainVars, client, netVars, sent, served>>

\* close(clientfd), and back to accept.
Hangup(w) ==
  /\ conn' = [conn EXCEPT ![worker[w].conn] = "closed"]
  /\ worker' = [worker EXCEPT ![w] = Fresh]

Room(w) == BufferBytes - Len(worker[w].buf)

LineRead(buf) == EndsLine(buf)

\* The bytes read are appended; the last one tells whether the line is whole.
ReadSome(w) ==
  LET c == worker[w].conn IN
  /\ Alive /\ worker[w].pc = "read" /\ ~shutdown
  /\ \E p \in Prefixes(up[c], Room(w)) :
       LET buf == worker[w].buf \o p IN
       /\ up' = [up EXCEPT ![c] = After(p, up[c])]
       /\ worker' = [worker EXCEPT ![w].buf = buf,
                                   ![w].pc = IF LineRead(buf) THEN "serve" ELSE "read"]
  /\ UNCHANGED <<mainVars, client, conn, down, sent, served>>

\* Variant: the read loop does not look at g_shutdown.
NoMoreToRead_NotShutdown(w) ==
  LET c == worker[w].conn IN (up[c] = <<>> /\ Gone(c)) \/ Room(w) = 0

\* Variant: the end of the stream is taken for EAGAIN.
NoMoreToRead_NotEnd(w) == shutdown \/ Room(w) = 0

\* Why the inner loop ends otherwise: shutdown, the end of the stream, or a
\* read of no bytes because the buffer is full.
NoMoreToRead(w) ==
  LET c == worker[w].conn IN
  \/ shutdown
  \/ up[c] = <<>> /\ Gone(c)
  \/ Room(w) = 0

\* What has been read is served even if it is no whole line.
ReadEnds(w) ==
  /\ Alive /\ worker[w].pc = "read" /\ worker[w].buf # <<>>
  /\ NoMoreToRead(w)
  /\ worker' = [worker EXCEPT ![w].pc = "serve"]
  /\ UNCHANGED <<mainVars, client, netVars, sent, served>>

CloseAtEnd(w) ==
  /\ Alive /\ worker[w].pc = "read" /\ worker[w].buf = <<>>
  /\ NoMoreToRead(w)
  /\ Hangup(w)
  /\ UNCHANGED <<mainVars, client, up, down, sent, served>>

\* skvs_parse: what is too long, and what has no line feed.

\* Variant: the length is compared with the wrong operator.
TooLong_AtSize(buf) == Len(buf) >= BufferSize
TooLong(buf) ==
  \/ Len(buf) > BufferSize
  \/ Len(buf) = BufferSize /\ ~EndsLine(buf)
Incomplete(buf) == ~TooLong(buf) /\ ~HasLine(buf)

\* snprintf makes "(null)" of the NULL that an incomplete request is answered with.
Answer(buf) == CASE TooLong(buf)    -> "INVALID CMD"
                 [] Incomplete(buf) -> "(null)"
                 [] OTHER           -> "answer"

Serve(w) ==
  LET c == worker[w].conn   buf == worker[w].buf IN
  /\ Alive /\ worker[w].pc = "serve"
  /\ worker' = [worker EXCEPT ![w].pc = "write", ![w].buf = <<>>,
                              ![w].out = <<Answer(buf), LF>>]
  /\ served' = IF Incomplete(buf) THEN served ELSE [served EXCEPT ![c] = @ + 1]
  /\ UNCHANGED <<mainVars, client, netVars, sent>>

\* Variant: the write loop stops at shutdown like the others.
WriteStops_Shutdown(rest) == rest = <<>> \/ shutdown
WriteStops(rest) == rest = <<>>

\* The write loop does not look at g_shutdown.
WriteSome(w) ==
  LET c == worker[w].conn IN
  /\ Alive /\ worker[w].pc = "write" /\ ~Gone(c)
  /\ \E p \in Prefixes(worker[w].out, 2) :
       LET rest == After(p, worker[w].out) IN
       /\ down' = [down EXCEPT ![c] = @ \o p]
       /\ worker' = IF WriteStops(rest)
                    THEN [worker EXCEPT ![w].pc = "read", ![w].out = <<>>]
                    ELSE [worker EXCEPT ![w].out = rest]
  /\ UNCHANGED <<mainVars, client, conn, up, sent, served>>

\* The client has closed: the write fails, or what it writes is discarded.
WriteInVain(w) ==
  /\ Alive /\ worker[w].pc = "write" /\ Gone(worker[w].conn)
  /\ worker' = [worker EXCEPT ![w].pc = "read", ![w].out = <<>>]
  /\ UNCHANGED <<mainVars, client, netVars, sent, served>>

(***************************************************************************)
(* client.c.                                                               *)
(***************************************************************************)
Connect(c) ==
  /\ main \in {"creating", "sleeping"} /\ client[c].pc = "off"
  /\ client' = [client EXCEPT ![c].pc = "idle"]
  /\ conn' = [conn EXCEPT ![c] = "backlog"]
  /\ UNCHANGED <<mainVars, worker, up, down, sent, served>>

\* A line without a line feed that does not fill the buffer is the last.
LastLine(l) == l # <<>> /\ ~EndsLine(l) /\ Len(l) < BufferBytes

\* What is sent into a closed connection is lost.
Send(c, l) ==
  /\ client[c].pc = "idle" /\ sent[c] < MaxLines /\ ~LastLine(client[c].line)
  /\ client' = [client EXCEPT ![c] = [pc |-> "waiting", line |-> l, got |-> <<>>]]
  /\ up' = IF conn[c] = "closed" THEN up ELSE [up EXCEPT ![c] = @ \o l]
  /\ sent' = [sent EXCEPT ![c] = @ + 1]
  /\ UNCHANGED <<mainVars, worker, conn, down, served>>

Receive(c) ==
  /\ client[c].pc = "waiting"
  /\ \E p \in Prefixes(down[c], 2) :
       LET got == client[c].got \o p IN
       /\ down' = [down EXCEPT ![c] = After(p, down[c])]
       /\ client' = [client EXCEPT ![c].got = got,
                                   ![c].pc = IF EndsLine(got) THEN "idle" ELSE "waiting"]
  /\ UNCHANGED <<mainVars, worker, conn, up, sent, served>>

Quit(c) == client' = [client EXCEPT ![c].pc = "done"]

\* "Connection closed by server": nothing is left to read.
LearnClosed(c) ==
  /\ client[c].pc = "waiting" /\ conn[c] = "closed" /\ down[c] = <<>>
  /\ Quit(c)
  /\ UNCHANGED <<mainVars, worker, netVars, sent, served>>

\* An empty line or the end of the input.
Leave(c) ==
  /\ client[c].pc = "idle"
  /\ Quit(c)
  /\ UNCHANGED <<mainVars, worker, netVars, sent, served>>

Die(c) ==
  /\ c \in MayDie /\ client[c].pc = "waiting"
  /\ Quit(c)
  /\ UNCHANGED <<mainVars, worker, netVars, sent, served>>

(***************************************************************************)
(* The system.                                                             *)
(***************************************************************************)
MainStep == CreateFails \/ Created \/ Destroy \/ Exit \/ \E w \in Workers : CreateWorker(w)
WorkerStep(w) ==
  \/ \E c \in Clients : Accept(w, c)
  \/ EndWorker(w) \/ ReadSome(w) \/ ReadEnds(w) \/ CloseAtEnd(w)
  \/ Serve(w) \/ WriteSome(w) \/ WriteInVain(w)
ClientStep(c) ==
  \/ Connect(c) \/ Receive(c) \/ LearnClosed(c) \/ Leave(c) \/ Die(c)
  \/ \E l \in Lines : Send(c, l)

Next == \/ MainStep \/ Interrupt
        \/ \E w \in Workers : WorkerStep(w)
        \/ \E c \in Clients : ClientStep(c)

Spec == Init /\ [][Next]_vars

\* Threads run, and a client reads what has arrived and ends with its input.
FairSpec ==
  /\ Spec
  /\ WF_vars(MainStep)
  /\ \A w \in Workers : WF_vars(WorkerStep(w))
  /\ \A c \in Clients : WF_vars(Receive(c) \/ LearnClosed(c) \/ Leave(c))
(***************************************************************************)
(* Properties.                                                             *)
(***************************************************************************)
\* What a client has been answered is the answer to the line it sent, whatever
\* the pieces it arrived in: INVALID CMD if it is too long, and what skvs_serve
\* makes of the whole line if not.  Only the shutdown, which makes the server
\* serve half a line, answers "(null)".  No line is served twice, and no buffer
\* is overrun.  A line without a line feed is measured as if it had one.
Due(l) == IF Len(l) + (IF EndsLine(l) THEN 0 ELSE 1) > BufferSize
          THEN "INVALID CMD" ELSE "answer"
AnswersFit ==
  /\ \A c \in Clients : client[c].pc = "idle" /\ sent[c] > 0 =>
       \/ client[c].got = <<Due(client[c].line), LF>>
       \/ client[c].got = <<"(null)", LF>> /\ shutdown
  /\ \A c \in Clients : served[c] <= sent[c]
  /\ \A w \in Workers : Len(worker[w].buf) <= BufferBytes

\* When main could not create all workers it goes straight to the end, with
\* those it has created still serving; no document says what must hold then.
AllCreated == \A w \in Workers : worker[w].pc # "new"

\* A client whose request was served is told, even when the server shuts
\* down: by the time its connection is closed the whole answer is on its way.
ServedIsAnswered ==
  \A c \in Clients :
    /\ AllCreated
    /\ client[c].pc = "waiting" /\ conn[c] = "closed" /\ served[c] = sent[c]
    => EndsLine(client[c].got \o down[c])

\* After SIGINT the server ends, whatever its clients are doing: no worker
\* waits for one for ever.
ShutdownCompletes == shutdown ~> main = "exited"

\* A client that has sent a whole line is answered, or told that the server
\* has closed, also when it must wait for a worker; unless all workers are held
\* for ever by clients that never end their line.
AllHeld == \A w \in Workers :
  worker[w].conn # None /\ LastLine(client[worker[w].conn].line)
LinesAnswered == \A c \in Clients :
  []<>~AllHeld =>
    (client[c].pc = "waiting" /\ ~LastLine(client[c].line)) ~> client[c].pc # "waiting"
=============================================================================
