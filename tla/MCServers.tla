----------------------------- MODULE MCServers ------------------------------
(* The key-value server and the example it was written after, for TLC.  They are *)
(* different programs; program says which of them a behaviour is one of.         *)
EXTENDS MCSkvsServer, EchoExample

VARIABLE program

serversVars == <<program, vars, echoVars>>

ServersInit == program \in {"server", "server_example"} /\ Init /\ EchoInit

Is(name) == program = name /\ UNCHANGED program

ServersNext ==
  \/ Is("server") /\ Next /\ UNCHANGED echoVars
  \/ Is("server_example") /\ EchoNext /\ UNCHANGED vars

\* The fairness of the one that runs.
ServersSpec ==
  /\ ServersInit /\ [][ServersNext]_serversVars
  /\ WF_vars(program = "server" /\ MainStep)
  /\ \A w \in Workers : WF_vars(program = "server" /\ WorkerStep(w))
  /\ \A c \in Clients :
       WF_vars(program = "server" /\ (Receive(c) \/ LearnClosed(c) \/ Leave(c)))
  /\ \A c \in Peers : WF_echoVars(program = "server_example" /\ PeerStep(c))
  /\ \A p \in Processes : WF_echoVars(program = "server_example" /\ ProcessStep(p))
=============================================================================
