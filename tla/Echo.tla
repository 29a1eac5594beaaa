--------------------------------- MODULE Echo ---------------------------------
(***************************************************************************)
(* echoserver.c and echoclient.c of "Client Server Lab/echo": a client     *)
(* sends one message, the server reads once, of up to MsgSize bytes, and   *)
(* writes back what it read up to its first zero byte; the client reads    *)
(* once and prints that.                                                   *)
(***************************************************************************)
EXTENDS Sockets

CONSTANTS MsgSize   \* MSGSIZE, 16 in the code

Garbage == 0
ASSUME MsgSizeAssumption == MsgSize \in Nat \ {0}

VARIABLES
    msgLength,  \* length of the message of each client (option -m)
    buffer,     \* the server's buffer
    printed,    \* what each client has printed
    whole       \* history: clients whose message, and its echo, were read at once

echoVars == <<msgLength, buffer, printed, whole>>

\* A message is no longer than the buffers.
EchoInit ==
    /\ msgLength \in [Clients -> 0 .. MsgSize]
    /\ buffer = << >>
    /\ printed = [c \in Clients |-> << >>]
    /\ whole = {}

msg(c) == [k \in 1 .. msgLength[c] |-> k]

\* What printf and strlen make of a buffer that was cleared before bytes were
\* read into it: with no room left for a zero byte they run past its end.
CString(bytes) ==
    IF Len(bytes) < MsgSize THEN {bytes} ELSE {bytes, Append(bytes, Garbage)}
-----------------------------------------------------------------------------
(***************************************************************************)
(* echoserver.c                                                            *)
(***************************************************************************)
\* exit(0), or SIGPIPE.
EchoServerEnds ==
    /\ server' = "ended"
    /\ CloseAll
    /\ UNCHANGED <<program, connfd, client>>

\* open_listenfd, as in transferserver.c; read fails on the descriptor -1.
EchoListen ==
    /\ server = "start"
    /\ \/ server' = "accept" /\ Listen
       \/ server' = "ended" /\ UNCHANGED socketVars
    /\ UNCHANGED <<program, connfd, client, echoVars>>

\* Faulty: the buffer is not cleared for the next connection.
EchoAcceptDirty ==
    /\ ServerGoto("accept", "read")
    /\ AcceptNext
    /\ UNCHANGED <<program, client, echoVars>>

\* accept, and bzero of the buffer.
EchoAccept ==
    /\ ServerGoto("accept", "read")
    /\ AcceptNext
    /\ buffer' = << >>
    /\ UNCHANGED <<program, client, msgLength, printed, whole>>

\* read: what has arrived, or nothing once the client is gone.  (What bytes
\* were in the buffer stay there after those that are read.)
EchoRead ==
    /\ ServerGoto("read", "write")
    /\ \/ \E m \in 1 .. Len(up[connfd]) :
            /\ buffer' = SubSeq(up[connfd], 1, m) \o SubSeq(buffer, m + 1, Len(buffer))
            /\ up' = [up EXCEPT ![connfd] = SubSeq(@, m + 1, Len(@))]
            /\ whole' = IF m = msgLength[connfd] THEN whole \cup {connfd} ELSE whole
       \/ /\ up[connfd] = << >>
          /\ link[connfd] = "left"
          /\ UNCHANGED <<buffer, up, whole>>
    /\ UNCHANGED <<program, connfd, client, listening, backlog, link, down,
                   msgLength, printed>>

\* read or write returned SOCKET_ERROR: exit(0).
EchoFails ==
    /\ server \in {"read", "write"}
    /\ link[connfd] \in {"reset", "left"}
    /\ EchoServerEnds
    /\ UNCHANGED echoVars

\* Faulty: the server goes on reading from the same client.
EchoWriteAgain ==
    /\ ServerGoto("write", "read")
    /\ \E bytes \in CString(buffer) : Deliver(connfd, bytes)
    /\ UNCHANGED <<program, connfd, client, echoVars>>

EchoWrite ==
    /\ ServerGoto("write", "close")
    /\ \E bytes \in CString(buffer) : Deliver(connfd, bytes)
    /\ UNCHANGED <<program, connfd, client, echoVars>>

EchoClose ==
    /\ ServerGoto("close", "accept")
    /\ CloseConnection(connfd)
    /\ connfd' = None
    /\ UNCHANGED <<program, client, echoVars>>

EchoServer ==
    \/ EchoListen \/ EchoAccept \/ EchoRead \/ EchoWrite \/ EchoFails
    \/ EchoClose
-----------------------------------------------------------------------------
(***************************************************************************)
(* echoclient.c                                                            *)
(***************************************************************************)
open_clientfd(c) ==
    /\ ClientGoto(c, "start", "write")
    /\ Connect(c)
    /\ UNCHANGED <<program, server, connfd, echoVars>>

\* It returned -1, or write or read did: exit(0).
EchoClientFails(c) ==
    /\ \/ client[c] = "start" /\ ~listening
       \/ client[c] = "write" /\ link[c] # "open"
       \/ client[c] = "read" /\ Broken(c)
    /\ client' = [client EXCEPT ![c] = "failed"]
    /\ Leave(c)
    /\ UNCHANGED <<program, server, connfd, echoVars>>

\* write of the whole message.
EchoClientWrite(c) ==
    /\ ClientGoto(c, "write", "read")
    /\ link[c] = "open"
    /\ up' = [up EXCEPT ![c] = msg(c)]
    /\ UNCHANGED <<program, server, connfd, listening, backlog, link, down,
                   echoVars>>

\* read of up to MsgSize bytes, or of the end of the stream; printf; close.
EchoClientRead(c) ==
    /\ ClientGoto(c, "read", "done")
    /\ \/ \E m \in 1 .. Len(down[c]) :
            /\ m <= MsgSize
            /\ \E bytes \in CString(SubSeq(down[c], 1, m)) :
                 printed' = [printed EXCEPT ![c] = bytes]
            /\ whole' = IF m = msgLength[c] THEN whole ELSE whole \ {c}
       \/ EndOfStream(c) /\ UNCHANGED <<printed, whole>>
    /\ Leave(c)
    /\ UNCHANGED <<program, server, connfd, msgLength, buffer>>

EchoKill(c) ==
    /\ client[c] \in {"write", "read"}
    /\ client' = [client EXCEPT ![c] = "killed"]
    /\ Leave(c)
    /\ UNCHANGED <<program, server, connfd, echoVars>>

EchoClient(c) ==
    \/ open_clientfd(c) \/ EchoClientFails(c) \/ EchoClientWrite(c)
    \/ EchoClientRead(c)

EchoFault ==
    \E c \in Clients : EchoKill(c) \/ (Reset(c) /\ UNCHANGED echoVars)
-----------------------------------------------------------------------------
(***************************************************************************)
(* Correctness.                                                            *)
(***************************************************************************)
EchoTypeOK ==
    /\ SocketsTypeOK
    /\ program = "echo" =>
          /\ server \in {"start", "accept", "read", "write", "close", "ended"}
          /\ client \in [Clients -> {"start", "write", "read", "done", "failed",
                                     "killed"}]
    /\ msgLength \in [Clients -> 0 .. MsgSize]
    /\ Len(buffer) <= MsgSize
    /\ whole \subseteq Clients

\* A client prints nothing but its own message, or the beginning of it, of
\* which it prints all if both reads got all: whatever messages were in the
\* server's buffer before.  (For messages shorter than the buffers, as the
\* Readme has them.)
EchoIsOwnMessage ==
    /\ EchoTypeOK
    /\ \A c \in Clients :
          client[c] = "done" /\ msgLength[c] < MsgSize =>
              /\ printed[c] \in Prefixes(msg(c))
              /\ c \in whole => printed[c] = msg(c)

\* A client that is connected, and says nothing.
Silent(c) == msgLength[c] = 0 /\ client[c] = "read"

\* Every client that is started comes to its end, whichever of them vanish,
\* unless one that says nothing stays and holds the server.
EchoEnds ==
    program = "echo" =>
        <>[](\/ \A c \in Clients : client[c] \in {"done", "failed", "killed"}
             \/ \E c \in Clients : Silent(c))
=============================================================================
