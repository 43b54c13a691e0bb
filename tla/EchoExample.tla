---------------------------- MODULE EchoExample -----------------------------
(***************************************************************************)
(* server_example.c and client_example.c (src/SP_LAB5): the examples of    *)
(* sockets the key-value server was to be written after.  Each process of  *)
(* the server takes a connection, answers what it reads in capital letters *)
(* and goes on until the client has left.  The client writes a line and    *)
(* then reads once, whatever there is.                                     *)
(*                                                                         *)
(* The k-th byte a client writes is k, and -k in capitals.  wire holds     *)
(* what has been written and not read; a read takes any beginning of it,   *)
(* as the rest may not have arrived.                                       *)
(***************************************************************************)
EXTENDS Integers, Sequences

CONSTANTS Peers,       \* the clients
          Processes,   \* of the server: one, or with MULTIPROCESS several
          MAX_LINE,
          MaxBytes,    \* bound: the bytes of a client's input
          NOBODY

ASSUME EchoAssumption ==
  /\ MAX_LINE \in Nat \ {0, 1} /\ MaxBytes \in Nat /\ NOBODY \notin Peers

VARIABLES step,      \* of each client: "new", "input", "write", "read" or "gone"
          written,   \* the bytes each client has written
          upto,      \* and where the line it is at ends
          printed,   \* what it has printed
          wire,      \* from each client ("up") and to it ("down")
          waiting,   \* the clients to be accepted
          serving,   \* the client of each process
          answer     \* what is left of buf to be written

echoVars == <<step, written, upto, printed, wire, waiting, serving, answer>>

EchoInit ==
  /\ step = [c \in Peers |-> "new"] /\ written = [c \in Peers |-> 0] /\ upto = written
  /\ printed = [c \in Peers |-> <<>>]
  /\ wire = [c \in Peers |-> [up |-> <<>>, down |-> <<>>]]
  /\ waiting = <<>>
  /\ serving = [p \in Processes |-> NOBODY] /\ answer = [p \in Processes |-> <<>>]

clientVars == <<step, written, upto, printed>>
serverVars == <<serving, answer>>

First(n, bytes) == SubSeq(bytes, 1, n)
Rest(n, bytes)  == SubSeq(bytes, n + 1, Len(bytes))

\* read gives at most sizeof(buf) - 1 bytes.
Amounts(bytes) == {n \in 1 .. Len(bytes) : n < MAX_LINE}

Upper(bytes) == [i \in DOMAIN bytes |-> -bytes[i]]

Goes(c, from, to) == step[c] = from /\ step' = [step EXCEPT ![c] = to]

(***************************************************************************)
(* client_example.c.                                                       *)
(***************************************************************************)
ConnectPeer(c) ==
  /\ Goes(c, "new", "input") /\ waiting' = Append(waiting, c)
  /\ UNCHANGED <<written, upto, printed, wire, serving, answer>>

\* fgets.
NextLine(c) ==
  /\ Goes(c, "input", "write")
  /\ \E n \in 1 .. MAX_LINE - 1 :
       written[c] + n <= MaxBytes /\ upto' = [upto EXCEPT ![c] = written[c] + n]
  /\ UNCHANGED <<written, printed, wire, waiting, serving, answer>>

WriteLine(c) ==
  /\ \E n \in 1 .. upto[c] - written[c] :
       /\ Goes(c, "write", IF written[c] + n = upto[c] THEN "read" ELSE "write")
       /\ written' = [written EXCEPT ![c] = @ + n]
       /\ wire' = [wire EXCEPT ![c].up = @ \o [i \in 1 .. n |-> written[c] + i]]
  /\ UNCHANGED <<upto, printed, waiting, serving, answer>>

ReadAnswer(c) ==
  /\ Goes(c, "read", "input")
  /\ \E n \in Amounts(wire[c].down) :
       /\ printed' = [printed EXCEPT ![c] = @ \o First(n, wire[c].down)]
       /\ wire' = [wire EXCEPT ![c].down = Rest(n, @)]
  /\ UNCHANGED <<written, upto, waiting, serving, answer>>

EndOfLines(c) ==
  /\ Goes(c, "input", "gone")
  /\ UNCHANGED <<written, upto, printed, wire, waiting, serving, answer>>

\* The client is killed.
Killed(c) ==
  /\ step[c] \in {"input", "write", "read"} /\ Goes(c, step[c], "gone")
  /\ UNCHANGED <<written, upto, printed, wire, waiting, serving, answer>>

(***************************************************************************)
(* MainLoop of server_example.c, by process p that serves client c.        *)
(***************************************************************************)
Serving(p, c) == c # NOBODY /\ serving[p] = c

AcceptNext(p) ==
  /\ serving[p] = NOBODY /\ waiting # <<>>
  /\ serving' = [serving EXCEPT ![p] = Head(waiting)] /\ waiting' = Tail(waiting)
  /\ UNCHANGED <<clientVars, wire, answer>>

ReadMessage(p, c) ==
  /\ Serving(p, c) /\ answer[p] = <<>>
  /\ \E n \in Amounts(wire[c].up) :
       /\ answer' = [answer EXCEPT ![p] = Upper(First(n, wire[c].up))]
       /\ wire' = [wire EXCEPT ![c].up = Rest(n, @)]
  /\ UNCHANGED <<clientVars, waiting, serving>>

\* Variant: after a part has been written the message is begun again.
Remaining_All(n, bytes) == IF n = Len(bytes) THEN <<>> ELSE bytes
Remaining(n, bytes) == Rest(n, bytes)

WriteMessage(p, c) ==
  /\ Serving(p, c)
  /\ \E n \in 1 .. Len(answer[p]) :
       /\ wire' = [wire EXCEPT ![c].down = @ \o First(n, answer[p])]
       /\ answer' = [answer EXCEPT ![p] = Remaining(n, @)]
  /\ UNCHANGED <<clientVars, waiting, serving>>

\* write fails once the client has left: the rest is given up, and read is next.
WriteBreaks(p, c) ==
  /\ Serving(p, c) /\ answer[p] # <<>> /\ step[c] = "gone"
  /\ answer' = [answer EXCEPT ![p] = <<>>]
  /\ UNCHANGED <<clientVars, wire, waiting, serving>>

\* Variant: the end of the connection is taken for an interrupted call.
NothingToRead_Error(c) == step[c] = "gone" /\ wire[c].down # <<>>

\* read returns 0 at the end of what the client has written, or fails at once if
\* the client has left without reading its answers.
NothingToRead(c) == step[c] = "gone" /\ (wire[c].up = <<>> \/ wire[c].down # <<>>)

CloseConnection(p, c) ==
  /\ Serving(p, c) /\ answer[p] = <<>> /\ NothingToRead(c)
  /\ serving' = [serving EXCEPT ![p] = NOBODY]
  /\ UNCHANGED <<clientVars, wire, waiting, answer>>

PeerStep(c) == ConnectPeer(c) \/ NextLine(c) \/ WriteLine(c) \/ ReadAnswer(c) \/ EndOfLines(c)

ProcessStep(p) ==
  \/ AcceptNext(p)
  \/ \E c \in Peers : \/ ReadMessage(p, c) \/ WriteMessage(p, c)
                      \/ WriteBreaks(p, c) \/ CloseConnection(p, c)

EchoNext == \/ \E c \in Peers : PeerStep(c) \/ Killed(c)
            \/ \E p \in Processes : ProcessStep(p)

EchoFairness == /\ \A c \in Peers : WF_echoVars(PeerStep(c))
                /\ \A p \in Processes : WF_echoVars(ProcessStep(p))

EchoSpec == EchoInit /\ [][EchoNext]_echoVars /\ EchoFairness
-----------------------------------------------------------------------------
(* Properties *)

\* What a client prints are the capitals of what it has written, in order, each
\* byte once, in whatever pieces they travelled.
EchoInOrder ==
  \A c \in Peers : printed[c] = Upper([i \in 1 .. Len(printed[c]) |-> i])
                   /\ Len(printed[c]) <= written[c]

\* Client and server never both wait for the other: although the client reads but
\* once for a line and may fall behind, it comes to its end, and so does the
\* client that waits to be accepted after it, also when the first is killed.
EchoFinishes == \A c \in Peers : step[c] # "new" ~> step[c] = "gone"

\* The example serves its clients: they are answered rightly and come to their end.
EchoServes == []EchoInOrder /\ EchoFinishes
=============================================================================
