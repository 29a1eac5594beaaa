-------------------------------- MODULE Sockets --------------------------------
(***************************************************************************)
(* What the two pairs of warm-up programs of "Client Server Lab", the      *)
(* transfer and the echo programs, run on: one server process that takes   *)
(* one connection at a time, client processes that end after one           *)
(* connection each, and the sockets between them as the kernel keeps them. *)
(* A process that ends has its sockets closed.                             *)
(***************************************************************************)
EXTENDS Integers, Sequences

CONSTANTS Clients   \* client processes

None == "none"
ASSUME NoneAssumption == None \notin Clients

VARIABLES
    program,    \* the pair that is run, "transfer" or "echo"
    server,     \* control state of the server
    connfd,     \* the client whose connection it serves
    client,     \* control state of each client
    listening,  \* the server's listening socket is open
    backlog,    \* connections that wait for accept
    link,       \* state of each client's connection: "none", "open", "closed"
                \*   by the server, "left" by the client, or "reset"
    up, down    \* bytes on their way to the server, and to each client

processVars == <<program, server, connfd, client>>
socketVars  == <<listening, backlog, link, up, down>>

SocketsInit ==
    /\ server = "start"
    /\ connfd = None
    /\ client = [c \in Clients |-> "start"]
    /\ listening = FALSE
    /\ backlog = << >>
    /\ link = [c \in Clients |-> "none"]
    /\ up = [c \in Clients |-> << >>]
    /\ down = [c \in Clients |-> << >>]

Prefixes(s) == {SubSeq(s, 1, n) : n \in 0 .. Len(s)}

ServerGoto(from, to) == server = from /\ server' = to
ClientGoto(c, from, to) == client[c] = from /\ client' = [client EXCEPT ![c] = to]
-----------------------------------------------------------------------------
\* The server's calls.
Listen == listening' = TRUE /\ UNCHANGED <<backlog, link, up, down>>

AcceptNext ==
    /\ backlog # << >>
    /\ connfd' = Head(backlog)
    /\ backlog' = Tail(backlog)
    /\ UNCHANGED <<listening, link, up, down>>

\* What reaches the client of a connection that still is one.
Deliver(c, data) ==
    /\ down' = IF link[c] = "open" THEN [down EXCEPT ![c] = @ \o data] ELSE down
    /\ UNCHANGED <<listening, backlog, link, up>>

\* With data that was not received, close resets the connection, and the reset
\* may overtake what was sent.
CloseConnection(c) ==
    /\ IF link[c] # "open" THEN UNCHANGED <<link, down>>
       ELSE IF up[c] = << >>
       THEN link' = [link EXCEPT ![c] = "closed"] /\ UNCHANGED down
       ELSE /\ link' = [link EXCEPT ![c] = "reset"]
            /\ \E d \in Prefixes(down[c]) : down' = [down EXCEPT ![c] = d]
    /\ UNCHANGED <<listening, backlog, up>>

\* The server ends: nobody listens, and those who wait are reset.
CloseAll ==
    /\ listening' = FALSE
    /\ backlog' = << >>
    /\ link' = [c \in Clients |->
                  IF link[c] # "open" THEN link[c]
                  ELSE IF c = connfd /\ up[c] = << >> THEN "closed"
                  ELSE "reset"]
    /\ UNCHANGED <<up, down>>

\* The client's calls.
Connect(c) ==
    /\ listening
    /\ link' = [link EXCEPT ![c] = "open"]
    /\ backlog' = Append(backlog, c)
    /\ UNCHANGED <<listening, up, down>>

Receive(c, n) ==
    /\ down' = [down EXCEPT ![c] = SubSeq(@, n + 1, Len(@))]
    /\ UNCHANGED <<listening, backlog, link, up>>

EndOfStream(c) == down[c] = << >> /\ link[c] = "closed"
Broken(c)      == down[c] = << >> /\ link[c] \in {"none", "reset"}

Leave(c) ==
    /\ link' = [link EXCEPT ![c] = IF @ = "none" THEN @ ELSE "left"]
    /\ down' = [down EXCEPT ![c] = << >>]
    /\ UNCHANGED <<listening, backlog, up>>

\* Faults: the network resets a connection, and a part of what is on its way
\* still arrives.
Reset(c) ==
    /\ link[c] = "open"
    /\ link' = [link EXCEPT ![c] = "reset"]
    /\ \E d \in Prefixes(down[c]) : down' = [down EXCEPT ![c] = d]
    /\ UNCHANGED <<processVars, listening, backlog, up>>

SocketsTypeOK ==
    /\ program \in {"transfer", "echo"}
    /\ connfd \in Clients \cup {None}
    /\ listening \in BOOLEAN
    /\ backlog \in Seq(Clients)
    /\ link \in [Clients -> {"none", "open", "closed", "left", "reset"}]
=============================================================================
