-------------------------------- MODULE Warmup --------------------------------
(***************************************************************************)
(* The warm-up programs of "Client Server Lab" run together with their     *)
(* clients: either the transfer pair or the echo pair, on the same kind of *)
(* sockets.                                                                *)
(***************************************************************************)
EXTENDS Transfer, Echo

vars == <<processVars, socketVars, transferVars, echoVars>>

\* The pair that is not run keeps one initial state.
Init ==
    /\ program \in {"transfer", "echo"}
    /\ SocketsInit /\ TransferInit /\ EchoInit
    /\ program = "transfer" => msgLength = [c \in Clients |-> 0]
    /\ program = "echo" => size = NoFile

ServerStep ==
    \/ program = "transfer" /\ TransferServer /\ UNCHANGED echoVars
    \/ program = "echo" /\ EchoServer /\ UNCHANGED transferVars

ClientStep(c) ==
    \/ program = "transfer" /\ TransferClient(c) /\ UNCHANGED echoVars
    \/ program = "echo" /\ EchoClient(c) /\ UNCHANGED transferVars

Fault ==
    \/ program = "transfer" /\ TransferFault /\ UNCHANGED echoVars
    \/ program = "echo" /\ EchoFault /\ UNCHANGED transferVars

\* Nobody calls again, and the server waits, spins or has ended.
Idle ==
    /\ \A c \in Clients : client[c] \notin {"start", "write"}
    /\ UNCHANGED vars

Next == ServerStep \/ (\E c \in Clients : ClientStep(c)) \/ Fault \/ Idle

\* The scheduler runs every process that can run; no client need be killed, no
\* connection reset.
Fairness == WF_vars(ServerStep) /\ \A c \in Clients : WF_vars(ClientStep(c))

Spec == Init /\ [][Next]_vars /\ Fairness
=============================================================================
