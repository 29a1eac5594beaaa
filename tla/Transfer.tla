------------------------------- MODULE Transfer -------------------------------
(***************************************************************************)
(* transferserver.c and transferclient.c of "Client Server Lab/transfer":  *)
(* the server sends its file, in chunks, to one client after the other;    *)
(* each client appends what it receives to a file of its own.              *)
(*                                                                         *)
(* The bytes of the server's file are 1 .. size; Padding is a byte of the  *)
(* message buffer after the chunk.                                         *)
(***************************************************************************)
EXTENDS Sockets

CONSTANTS Sizes,       \* sizes of the file, if there is one
          Chunk,       \* bytes that fread asks for, 10 in the code
          MaxPartial,  \* bound on the sends that take only a part
          MaxExcess    \* bound on n - total_message_length

NoFile  == -1
Padding == 0
ASSUME SizesAssumption == Sizes \subseteq Nat
ASSUME ChunkAssumption == Chunk \in Nat \ {0}
ASSUME TransferBounds  == MaxPartial \in Nat /\ MaxExcess \in Nat

VARIABLES
    size,      \* size of the server's file, or NoFile
    offset,    \* position of fp, the stream that was opened for connfd
    total,     \* total_message_length: bytes in the chunk that ends at offset
    sent,      \* bytes_sent
    n,         \* bytes that the server believes it has sent of the chunk
    got,       \* what each client has appended
    partial,   \* sends that took only a part, so far
    overran    \* history: clients that were sent anything but the next bytes

chunkVars    == <<offset, total, sent, n>>
transferVars == <<size, chunkVars, got, partial, overran>>

TransferInit ==
    /\ size \in Sizes \cup {NoFile}
    /\ offset = 0 /\ total = 0 /\ sent = 0 /\ n = 0
    /\ got = [c \in Clients |-> << >>]
    /\ partial = 0
    /\ overran = {}

\* The process ends; the kernel closes its sockets.
ServerEnds ==
    /\ server' = "ended"
    /\ CloseAll
    /\ UNCHANGED <<program, connfd, client>>
-----------------------------------------------------------------------------
(***************************************************************************)
(* transferserver.c                                                        *)
(***************************************************************************)
\* open_listenfd: the first of the host's addresses that can be bound.
open_listenfd ==
    /\ ServerGoto("start", "accept")
    /\ Listen
    /\ UNCHANGED <<program, connfd, client, transferVars>>

\* It returned -1, which main does not test: accept, send and close fail on
\* that descriptor, and the loop spins for ever; or feof ends it, as in Open.
ListenFails ==
    /\ ServerGoto("start", IF size = NoFile THEN "ended" ELSE "spin")
    /\ UNCHANGED <<program, connfd, client, socketVars, transferVars>>

Accept ==
    /\ ServerGoto("accept", "open")
    /\ AcceptNext
    /\ UNCHANGED <<program, client, transferVars>>

\* Faulty: the stream of the last connection is read on.
OpenOnce ==
    /\ server = "open"
    /\ IF size = NoFile THEN ServerEnds
       ELSE /\ server' = "read"
            /\ UNCHANGED <<program, connfd, client, socketVars>>
    /\ UNCHANGED transferVars

\* fopen; its result is not tested, and feof of a null pointer ends the process.
Open ==
    /\ server = "open"
    /\ IF size = NoFile THEN ServerEnds
       ELSE /\ server' = "read"
            /\ UNCHANGED <<program, connfd, client, socketVars>>
    /\ offset' = 0
    /\ UNCHANGED <<size, total, sent, n, got, partial, overran>>

\* fread of the next chunk.  A short one sets the end-of-file indicator, which
\* the loop tests before it reads again.
Read ==
    /\ ServerGoto("read", "send")
    /\ total' = IF size - offset < Chunk THEN size - offset ELSE Chunk
    /\ offset' = offset + total'
    /\ UNCHANGED <<program, connfd, client, socketVars, size, sent, n, got,
                   partial, overran>>

EndOfChunk == IF total < Chunk THEN "close" ELSE "read"

\* The bytes that send is given when told to begin at position k of message.
Message(k) ==
    [j \in 1 .. total |-> IF k + j <= total THEN offset - total + k + j
                          ELSE Padding]

\* send takes m bytes from there.  The send is right if what it takes are the
\* next bytes of the chunk.
Take(k, m) ==
    /\ m < total => partial < MaxPartial
    /\ partial' = IF m < total THEN partial + 1 ELSE partial
    /\ Deliver(connfd, SubSeq(Message(k), 1, m))
    /\ overran' = IF n = k /\ k + m <= total THEN overran
                  ELSE overran \cup {connfd}

\* The first send of a chunk.
Send ==
    /\ server = "send"
    /\ n = 0
    /\ \E m \in 1 .. total :
         /\ Take(0, m)
         /\ IF m = total
            THEN server' = EndOfChunk /\ sent' = 0 /\ n' = 0
            ELSE server' = "resend" /\ sent' = m /\ n' = m
    /\ UNCHANGED <<program, connfd, client, size, offset, total, got>>

\* It takes nothing, after the end of the file, or fails: the loop is left.
SendStops ==
    /\ server = "send"
    /\ total = 0 \/ link[connfd] # "open"
    /\ server' = "close"
    /\ UNCHANGED <<program, connfd, client, socketVars, transferVars>>

\* The loop for the rest of a chunk: each send is told the whole length, and
\* begins where the last one ended if that was the first.  It is left only when
\* the counts are exactly equal.
Resend ==
    /\ server = "resend"
    /\ sent # -1
    /\ n <= total + MaxExcess
    /\ \E m \in 1 .. total :
         /\ Take(sent, m)
         /\ IF n + m = total
            THEN server' = EndOfChunk /\ sent' = 0 /\ n' = 0
            ELSE server' = "resend" /\ sent' = m /\ n' = n + m
    /\ UNCHANGED <<program, connfd, client, size, offset, total, got>>

\* A send that fails there, the first time after a reset, counts as -1 bytes;
\* the next one finds the pipe broken.
ResendFails ==
    /\ server = "resend"
    /\ link[connfd] # "open"
    /\ sent # -1
    /\ IF n - 1 = total
       THEN server' = EndOfChunk /\ sent' = 0 /\ n' = 0
       ELSE server' = "resend" /\ sent' = -1 /\ n' = n - 1
    /\ UNCHANGED <<program, connfd, client, socketVars, size, offset, total,
                   got, partial, overran>>

\* The client is gone: nobody handles SIGPIPE.
BrokenPipe ==
    /\ server \in {"send", "resend"}
    /\ link[connfd] # "open"
    /\ ServerEnds
    /\ UNCHANGED transferVars

\* Faulty: the file is closed, but not the connection.
CloseFile ==
    /\ ServerGoto("close", "accept")
    /\ connfd' = None
    /\ UNCHANGED <<program, client, socketVars, transferVars>>

Close ==
    /\ ServerGoto("close", "accept")
    /\ CloseConnection(connfd)
    /\ connfd' = None
    /\ UNCHANGED <<program, client, transferVars>>

TransferServer ==
    \/ open_listenfd \/ ListenFails \/ Accept \/ Open \/ Read
    \/ Send \/ SendStops \/ Resend \/ ResendFails \/ BrokenPipe
    \/ Close
-----------------------------------------------------------------------------
(***************************************************************************)
(* transferclient.c                                                        *)
(***************************************************************************)
open_sockfd(c) ==
    /\ ClientGoto(c, "start", "recv")
    /\ Connect(c)
    /\ UNCHANGED <<program, server, connfd, transferVars>>

\* It returned -1, which main does not test: the output file is created, and
\* recv fails on that descriptor.
ConnectFails(c) ==
    /\ ClientGoto(c, "start", "recv")
    /\ ~listening
    /\ UNCHANGED <<program, server, connfd, socketVars, transferVars>>

\* recv and fwrite of whatever has arrived.
Recv(c) ==
    /\ client[c] = "recv"
    /\ \E m \in 1 .. Len(down[c]) :
         /\ Receive(c, m)
         /\ got' = [got EXCEPT ![c] = @ \o SubSeq(down[c], 1, m)]
    /\ UNCHANGED <<processVars, size, chunkVars, partial, overran>>

\* recv returned 0, or -1, which makes no difference.
RecvStops(c) ==
    /\ \/ EndOfStream(c) /\ ClientGoto(c, "recv", "complete")
       \/ Broken(c) /\ ClientGoto(c, "recv", "broken")
    /\ Leave(c)
    /\ UNCHANGED <<program, server, connfd, transferVars>>

\* The client is stopped by a signal in mid-transfer.
Kill(c) ==
    /\ ClientGoto(c, "recv", "killed")
    /\ Leave(c)
    /\ UNCHANGED <<program, server, connfd, transferVars>>

TransferClient(c) ==
    open_sockfd(c) \/ ConnectFails(c) \/ Recv(c) \/ RecvStops(c)

TransferFault ==
    \E c \in Clients : Kill(c) \/ (Reset(c) /\ UNCHANGED transferVars)
-----------------------------------------------------------------------------
(***************************************************************************)
(* Correctness.                                                            *)
(***************************************************************************)
Ended(c) == client[c] \notin {"start", "recv"}

TransferTypeOK ==
    /\ SocketsTypeOK
    /\ program = "transfer" =>
          /\ server \in {"start", "accept", "open", "read", "send", "resend",
                         "close", "spin", "ended"}
          /\ client \in [Clients -> {"start", "recv", "complete", "broken",
                                     "killed"}]
    /\ size \in Sizes \cup {NoFile}
    /\ offset \in Nat
    /\ offset > 0 => offset <= size
    /\ total \in 0 .. Chunk
    /\ sent \in -1 .. Chunk
    /\ n \in -1 .. 2 * Chunk + MaxExcess
    /\ partial \in 0 .. MaxPartial
    /\ overran \subseteq Clients

\* However the stream is cut, delayed or broken off, and whoever was served
\* before: what a client has appended is the beginning of the file; and one
\* that was told of the end of the stream has the whole file, unless the server
\* ended while it served that client.  The one exception is the server's loop
\* for the rest of a chunk, which may begin at the wrong place or go beyond the
\* chunk.
CopyIsExact ==
    /\ TransferTypeOK
    /\ \A c \in Clients \ overran :
          /\ got[c] \in Prefixes([k \in 1 .. size |-> k])
          /\ client[c] = "complete" =>
                Len(got[c]) = size \/ (server = "ended" /\ connfd = c)

\* Every client that is started comes to its end, although they are served one
\* by one and any of them may vanish; only the loop that overran holds the
\* server, and those who wait for it, for ever.
TransferEnds ==
    program = "transfer" => <>(overran # {} \/ \A c \in Clients : Ended(c))
=============================================================================
