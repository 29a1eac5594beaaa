---------------------------- MODULE WarmupProofs -----------------------------
(***************************************************************************)
(* Proofs about the warm-up programs (Warmup), for any number of clients,  *)
(* any sizes of file, chunk and message and any bounds.                    *)
(***************************************************************************)
EXTENDS Warmup, WindowProofs, TLAPS

-----------------------------------------------------------------------------
(***************************************************************************)
(* The sockets, for either program.                                        *)
(***************************************************************************)
Waits(c) == \E j \in 1 .. Len(backlog) : backlog[j] = c

\* The connections that wait are different ones, none is the one that is
\* served, and a client that has not begun has no part in any.
BacklogInv ==
    /\ \A j, k \in 1 .. Len(backlog) : backlog[j] = backlog[k] => j = k
    /\ \A j \in 1 .. Len(backlog) : backlog[j] # connfd
    /\ \A c \in Clients : client[c] = "start" =>
          link[c] = "none" /\ c # connfd /\ ~Waits(c)

LEMMA BacklogKept ==
    ASSUME SocketsTypeOK, BacklogInv,
           backlog' = backlog \/ backlog' = << >>,
           connfd' = connfd \/ connfd' = None,
           \A c \in Clients : client'[c] = "start" =>
              client[c] = "start" /\ (link[c] = "none" => link'[c] = "none")
    PROVE  BacklogInv'
<1>1. \A j \in 1 .. Len(backlog) : backlog[j] \in Clients
  BY DEF SocketsTypeOK
<1>2. CASE backlog' = backlog
  BY <1>1, <1>2, NoneAssumption DEF BacklogInv, Waits
<1>3. CASE backlog' = << >>
  <2>1. 1 .. Len(backlog') = {}
    BY <1>3
  <2>2. QED
    BY <2>1, NoneAssumption DEF BacklogInv, Waits
<1>4. QED
  BY <1>2, <1>3

LEMMA BacklogAccept ==
    ASSUME SocketsTypeOK, BacklogInv, AcceptNext, client' = client
    PROVE  /\ BacklogInv'
           /\ connfd' \in Clients /\ backlog' \in Seq(Clients)
           /\ \A c \in Clients :
                IF c = connfd' THEN Waits(c) /\ ~Waits(c)'
                ELSE Waits(c)' <=> Waits(c)
<1>1. /\ backlog \in Seq(Clients) /\ backlog # << >>
      /\ connfd' = Head(backlog) /\ backlog' = Tail(backlog) /\ link' = link
  BY DEF SocketsTypeOK, AcceptNext
<1>2. /\ Len(backlog) \in Nat \ {0} /\ connfd' = backlog[1]
      /\ connfd' \in Clients /\ backlog' \in Seq(Clients)
      /\ Len(backlog') = Len(backlog) - 1
      /\ \A j \in 1 .. Len(backlog') :
           backlog'[j] = backlog[j + 1] /\ j + 1 \in 1 .. Len(backlog)
      /\ 1 \in 1 .. Len(backlog)
  BY <1>1
<1>3. \A j, k \in 1 .. Len(backlog') : backlog'[j] = backlog'[k] => j = k
  <2> SUFFICES ASSUME NEW j \in 1 .. Len(backlog'),
                      NEW k \in 1 .. Len(backlog'), backlog'[j] = backlog'[k]
               PROVE  j = k
      OBVIOUS
  <2>1. j + 1 = k + 1
    BY <1>2 DEF BacklogInv
  <2>2. QED
    BY <2>1
<1>4. \A j \in 1 .. Len(backlog') : backlog'[j] # connfd'
  <2> SUFFICES ASSUME NEW j \in 1 .. Len(backlog'), backlog'[j] = connfd'
               PROVE  FALSE
      OBVIOUS
  <2>1. j + 1 = 1
    BY <1>2 DEF BacklogInv
  <2>2. QED
    BY <2>1
<1>5. \A c \in Clients : c = connfd' => Waits(c) /\ ~Waits(c)'
  BY <1>2, <1>4 DEF Waits
<1>6. ASSUME NEW c \in Clients, c # connfd'
      PROVE  Waits(c)' <=> Waits(c)
  <2>1. Waits(c)' => Waits(c)
    BY <1>2 DEF Waits
  <2>2. ASSUME NEW j \in 1 .. Len(backlog), backlog[j] = c
        PROVE  Waits(c)'
    <3>1. j # 1
      BY <2>2, <1>2, <1>6
    <3>2. j - 1 \in 1 .. Len(backlog') /\ (j - 1) + 1 = j
      BY <3>1, <1>2
    <3>3. backlog'[j - 1] = c
      BY <3>2, <2>2, <1>2
    <3>4. QED
      BY <3>2, <3>3 DEF Waits
  <2>3. QED
    BY <2>1, <2>2 DEF Waits
<1>7. \A c \in Clients : client'[c] = "start" =>
         link'[c] = "none" /\ c # connfd' /\ ~Waits(c)'
  BY <1>1, <1>5, <1>6 DEF BacklogInv
<1>8. QED
  BY <1>2, <1>3, <1>4, <1>5, <1>6, <1>7 DEF BacklogInv

LEMMA BacklogConnect ==
    ASSUME SocketsTypeOK, BacklogInv, NEW c \in Clients, Connect(c),
           client[c] = "start", client'[c] # "start",
           \A d \in Clients : d # c => client'[d] = client[d],
           connfd' = connfd
    PROVE  /\ BacklogInv'
           /\ backlog' \in Seq(Clients)
           /\ Waits(c)'
           /\ \A d \in Clients : d # c => (Waits(d)' <=> Waits(d))
<1>1. /\ backlog \in Seq(Clients) /\ backlog' = Append(backlog, c)
      /\ link' = [link EXCEPT ![c] = "open"] /\ DOMAIN link = Clients
  BY DEF SocketsTypeOK, Connect
<1>2. /\ Len(backlog) \in Nat /\ backlog' \in Seq(Clients)
      /\ Len(backlog') = Len(backlog) + 1
      /\ \A j \in 1 .. Len(backlog) : backlog'[j] = backlog[j]
      /\ backlog'[Len(backlog) + 1] = c
      /\ \A j \in 1 .. Len(backlog') :
           j = Len(backlog) + 1 \/ j \in 1 .. Len(backlog)
      /\ \A j \in 1 .. Len(backlog) : j \in 1 .. Len(backlog')
      /\ Len(backlog) + 1 \in 1 .. Len(backlog')
  BY <1>1
<1>3. ~Waits(c) /\ c # connfd
  BY DEF BacklogInv
<1>4. Waits(c)' /\ \A d \in Clients : d # c => (Waits(d)' <=> Waits(d))
  BY <1>2 DEF Waits
<1>5. \A j, k \in 1 .. Len(backlog') : backlog'[j] = backlog'[k] => j = k
  BY <1>2, <1>3 DEF BacklogInv, Waits
<1>6. \A j \in 1 .. Len(backlog') : backlog'[j] # connfd'
  BY <1>2, <1>3 DEF BacklogInv
<1>7. \A d \in Clients : client'[d] = "start" =>
         link'[d] = "none" /\ d # connfd' /\ ~Waits(d)'
  BY <1>1, <1>4 DEF BacklogInv
<1>8. QED
  BY <1>2, <1>4, <1>5, <1>6, <1>7 DEF BacklogInv

\* A prefix of a stream of consecutive bytes.
LEMMA PrefixWindow ==
    ASSUME NEW q \in Seq(Int), NEW lo \in Int, NEW hi \in Int,
           IsWindow(q, lo, hi), NEW d \in Prefixes(q)
    PROVE  /\ d \in Seq(Int) /\ Len(d) <= Len(q)
           /\ IsWindow(d, lo, lo + Len(d))
<1>1. PICK m \in 0 .. Len(q) : d = SubSeq(q, 1, m)
  BY DEF Prefixes
<1>2. SubSeq(q, 1, m) \in Seq(Int) /\ Len(SubSeq(q, 1, m)) = m
      /\ IsWindow(SubSeq(q, 1, m), lo, lo + m)
  BY WindowFirst
<1>3. QED
  BY <1>1, <1>2

\* What is consecutive from 1 on is the beginning of all that is.
LEMMA WindowPrefix ==
    ASSUME NEW q \in Seq(Int), IsWindow(q, 1, Len(q) + 1),
           NEW len \in Int, Len(q) > 0 => Len(q) <= len
    PROVE  q \in Prefixes([k \in 1 .. len |-> k])
<1> DEFINE all == [k \in 1 .. len |-> k]
<1>1. /\ Len(q) \in Nat /\ all \in Seq(Int) /\ Len(q) <= Len(all)
      /\ Len(all) \in Nat
      /\ \A k \in 1 .. Len(q) : all[k] = k /\ all[k] \in Int
  <2>1. Len(q) \in Nat
    OBVIOUS
  <2>2. CASE len \in Nat
    <3>1. all \in Seq(Int) /\ Len(all) = len
      BY <2>2
    <3>2. QED
      BY <2>1, <2>2, <3>1
  <2>3. CASE len \notin Nat
    <3>1. 1 .. len = {} /\ Len(q) = 0
      BY <2>1, <2>3
    <3>2. all = << >>
      BY <3>1
    <3> HIDE DEF all
    <3>3. QED
      BY <2>1, <3>1, <3>2
  <2>4. QED
    BY <2>2, <2>3
<1> HIDE DEF all
<1>2. /\ SubSeq(all, 1, Len(q)) \in Seq(Int)
      /\ Len(SubSeq(all, 1, Len(q))) =
           IF 1 <= Len(q) THEN Len(q) - 1 + 1 ELSE 0
      /\ \A k \in 1 .. Len(q) - 1 + 1 :
           SubSeq(all, 1, Len(q))[k] = all[1 + k - 1]
  BY <1>1, SubSeqProperties
<1>3. Len(SubSeq(all, 1, Len(q))) = Len(q)
  BY <1>1, <1>2
<1>4. \A k \in 1 .. Len(q) : q[k] = SubSeq(all, 1, Len(q))[k]
  BY <1>1, <1>2 DEF IsWindow
<1>5. q = SubSeq(all, 1, Len(q))
  BY <1>2, <1>3, <1>4, SeqEqual
<1>6. Len(q) \in 0 .. Len(all)
  BY <1>1
<1>7. QED
  BY <1>5, <1>6 DEF Prefixes, all
-----------------------------------------------------------------------------
(***************************************************************************)
(* The transfer programs.                                                  *)
(***************************************************************************)
StreamTypeOK ==
    down \in [Clients -> Seq(Int)] /\ got \in [Clients -> Seq(Int)]

\* What the server has read of its file.  It counts what it sends of a chunk
\* only while it sends it.
ChunkInv ==
    /\ server \in {"start", "accept", "spin"} => connfd = None
    /\ server \in {"open", "read", "send", "resend", "close"} => connfd # None
    /\ server \in {"read", "send", "resend", "close"} => size # NoFile
    /\ server \in {"send", "resend"} =>
          /\ total <= offset
          /\ total < Chunk => offset = size
    /\ server \notin {"resend", "ended"} => sent = 0 /\ n = 0
    /\ server = "resend" /\ sent # -1 => n >= 0

\* The position in the file up to which the client served has been sent.
Position ==
    CASE server = "read"   -> offset
      [] server = "send"   -> offset - total
      [] server = "resend" -> offset - total + n
      [] server = "close"  -> size
      [] OTHER             -> 0

Copied(c) == Len(got[c]) + Len(down[c])

EndedWith(c) == server = "ended" /\ connfd = c

\* What a client has appended and what is on its way to it are, together,
\* the beginning of the file, up to the server's position if that serves it;
\* the end of the stream comes after all of the file.
StreamOK(c) ==
    /\ IsWindow(got[c], 1, Len(got[c]) + 1)
    /\ IsWindow(down[c], Len(got[c]) + 1, Copied(c) + 1)
    /\ Copied(c) > 0 => Copied(c) <= size
    /\ link[c] = "open" /\ c = connfd => Copied(c) = Position
    /\ link[c] = "closed" => Copied(c) = size \/ EndedWith(c)
    /\ client[c] = "complete" => Len(got[c]) = size \/ EndedWith(c)

\* Nothing is sent to a client before it is served.
FreshOK(c) ==
    /\ link[c] = "open" => c = connfd \/ Waits(c)
    /\ (client[c] = "start" \/ Waits(c) \/ (server = "open" /\ c = connfd)) =>
          got[c] = << >> /\ down[c] = << >> /\ c \notin overran

ClientOK(c) == FreshOK(c) /\ (c \notin overran => StreamOK(c))

TransferInv ==
    /\ program = "transfer"
    /\ TransferTypeOK /\ StreamTypeOK /\ BacklogInv /\ ChunkInv
    /\ \A c \in Clients : ClientOK(c)

LEMMA SameStream ==
    ASSUME NEW c \in Clients, ClientOK(c),
           client'[c] = "start" => client[c] = "start",
           client'[c] = "complete" => client[c] = "complete",
           link'[c] = link[c], got'[c] = got[c], down'[c] = down[c],
           c \in overran' => c \in overran, overran \subseteq overran',
           size' = size, Waits(c)' <=> Waits(c),
           c = connfd' => c = connfd /\ (server' = "open" => server = "open"),
           link[c] = "open" /\ c = connfd => c = connfd' /\ Position' = Position,
           EndedWith(c) => EndedWith(c)'
    PROVE  ClientOK(c)'
<1>1. Copied(c)' = Copied(c)
  BY DEF Copied
<1>2. FreshOK(c)'
  BY DEF ClientOK, FreshOK
<1>3. c \notin overran' => StreamOK(c)'
  BY <1>1 DEF ClientOK, StreamOK
<1>4. QED
  BY <1>2, <1>3 DEF ClientOK

\* A client that has been sent nothing.
LEMMA EmptyStream ==
    ASSUME NEW c \in Clients, got'[c] = << >>, down'[c] = << >>,
           link'[c] = "open" /\ c = connfd' => Position' = 0,
           link'[c] # "closed", client'[c] # "complete"
    PROVE  StreamOK(c)'
<1>1. Len(got'[c]) = 0 /\ Len(down'[c]) = 0 /\ Copied(c)' = 0
  BY DEF Copied
<1>2. IsWindow(<< >>, 1, 1)
  BY DEF IsWindow
<1>3. IsWindow(got'[c], 1, Len(got'[c]) + 1)
  BY <1>1, <1>2
<1>4. IsWindow(down'[c], Len(got'[c]) + 1, Copied(c)' + 1)
  BY <1>1, <1>2
<1>5. QED
  BY <1>1, <1>3, <1>4 DEF StreamOK

\* The server ends: it has closed the connection it served and reset those
\* that wait.
LEMMA ServerEndsStep ==
    ASSUME TransferInv, ServerEnds,
           UNCHANGED <<size, total, sent, n, got, partial, overran>>,
           offset' = 0 \/ offset' = offset,
           server \notin {"start", "accept", "spin", "ended"}
    PROVE  TransferInv'
<1>1. /\ server' = "ended" /\ listening' = FALSE /\ backlog' = << >>
      /\ link' = [c \in Clients |->
                    IF link[c] # "open" THEN link[c]
                    ELSE IF c = connfd /\ up[c] = << >> THEN "closed"
                    ELSE "reset"]
      /\ UNCHANGED <<up, down, program, connfd, client>>
      /\ UNCHANGED <<size, total, sent, n, got, partial, overran>>
  BY DEF ServerEnds, CloseAll
<1> USE DEF TransferInv
<1>2. /\ link \in [Clients -> {"none", "open", "closed", "left", "reset"}]
      /\ connfd \in Clients \cup {None}
  BY DEF TransferTypeOK, SocketsTypeOK
<1>3. /\ link' \in [Clients -> {"none", "open", "closed", "left", "reset"}]
      /\ \A c \in Clients : link'[c] # "open" /\ (link'[c] = "none" => link[c] = "none")
      /\ \A c \in Clients : link'[c] = "closed" => link[c] = "closed" \/ c = connfd
  <2>1. \A c \in Clients :
          /\ link'[c] \in {"none", "open", "closed", "left", "reset"}
          /\ link'[c] # "open" /\ (link'[c] = "none" => link[c] = "none")
          /\ link'[c] = "closed" => link[c] = "closed" \/ c = connfd
    BY <1>1, <1>2
  <2>2. QED
    BY <2>1, <1>1
<1>4. TransferTypeOK' /\ StreamTypeOK' /\ program' = "transfer"
  <2>1. backlog' \in Seq(Clients)
    BY <1>1
  <2>2. SocketsTypeOK'
    BY <2>1, <1>1, <1>3 DEF TransferTypeOK, SocketsTypeOK
  <2>3. QED
    BY <2>2, <1>1 DEF TransferTypeOK, StreamTypeOK
<1>5. BacklogInv'
  <2>1. \A c \in Clients : client'[c] = "start" =>
           client[c] = "start" /\ (link[c] = "none" => link'[c] = "none")
    BY <1>1
  <2>2. QED
    BY <2>1, <1>1, BacklogKept DEF TransferTypeOK
<1>6. ChunkInv'
  BY <1>1 DEF ChunkInv
<1>7. ASSUME NEW c \in Clients
      PROVE  ClientOK(c)'
  <2>1. ~Waits(c)'
    BY <1>1 DEF Waits
  <2>2. FreshOK(c)'
    BY <2>1, <1>1, <1>3 DEF ClientOK, FreshOK
  <2>3. Copied(c)' = Copied(c)
    BY <1>1 DEF Copied
  <2>4. c \notin overran' => StreamOK(c)'
    BY <2>3, <1>1, <1>3 DEF ClientOK, StreamOK, EndedWith
  <2>5. QED
    BY <2>2, <2>4 DEF ClientOK
<1>8. QED
  BY <1>4, <1>5, <1>6, <1>7

\* A step of the server that touches no connection.
LEMMA QuietStep ==
    ASSUME TransferInv,
           UNCHANGED <<program, connfd, client, backlog, link, down, size, got,
                       overran>>,
           TransferTypeOK', ChunkInv',
           server' # "open", server # "ended",
           connfd # None /\ link[connfd] = "open" => Position' = Position
    PROVE  TransferInv'
<1> USE DEF TransferInv
<1>1. BacklogInv'
  BY DEF BacklogInv, Waits
<1>2. ASSUME NEW c \in Clients
      PROVE  ClientOK(c)'
  <2>1. ClientOK(c) /\ (Waits(c)' <=> Waits(c)) /\ ~EndedWith(c) /\ c # None
    BY NoneAssumption DEF Waits, EndedWith
  <2>2. QED
    BY <2>1, SameStream
<1>3. QED
  BY <1>1, <1>2 DEF StreamTypeOK

LEMMA ListenStep == TransferInv /\ open_listenfd => TransferInv'
<1> SUFFICES ASSUME TransferInv, open_listenfd
             PROVE  TransferInv'
    OBVIOUS
<1> USE DEF TransferInv
<1>1. /\ server = "start" /\ server' = "accept" /\ connfd = None
      /\ listening' = TRUE
      /\ UNCHANGED <<program, connfd, client, backlog, link, down, size, offset,
                     total, sent, n, got, partial, overran>>
  BY DEF open_listenfd, ServerGoto, Listen, transferVars, chunkVars, ChunkInv
<1>2. TransferTypeOK'
  BY <1>1 DEF TransferTypeOK, SocketsTypeOK
<1>3. ChunkInv'
  BY <1>1 DEF ChunkInv
<1>4. QED
  BY <1>1, <1>2, <1>3, QuietStep

LEMMA ListenFailsStep == TransferInv /\ ListenFails => TransferInv'
<1> SUFFICES ASSUME TransferInv, ListenFails
             PROVE  TransferInv'
    OBVIOUS
<1> USE DEF TransferInv
<1>1. /\ server = "start" /\ server' \in {"ended", "spin"} /\ connfd = None
      /\ UNCHANGED <<program, connfd, client, listening, backlog, link, down,
                     size, offset, total, sent, n, got, partial, overran>>
  BY DEF ListenFails, ServerGoto, socketVars, transferVars, chunkVars, ChunkInv
<1>2. TransferTypeOK'
  BY <1>1 DEF TransferTypeOK, SocketsTypeOK
<1>3. ChunkInv'
  BY <1>1 DEF ChunkInv
<1>4. QED
  BY <1>1, <1>2, <1>3, QuietStep

LEMMA OpenStep == TransferInv /\ Open => TransferInv'
<1> SUFFICES ASSUME TransferInv, Open
             PROVE  TransferInv'
    OBVIOUS
<1> USE DEF TransferInv
<1>1. /\ server = "open" /\ connfd # None /\ offset' = 0
      /\ UNCHANGED <<size, total, sent, n, got, partial, overran>>
  BY DEF Open, ChunkInv
<1>2. CASE size = NoFile
  <2>1. ServerEnds
    BY <1>2 DEF Open
  <2>2. QED
    BY <1>1, <2>1, ServerEndsStep
<1>3. CASE size # NoFile
  <2>1. /\ server' = "read"
        /\ UNCHANGED <<program, connfd, client, listening, backlog, link, down>>
    BY <1>3 DEF Open, socketVars
  <2>2. TransferTypeOK'
    BY <1>1, <2>1 DEF TransferTypeOK, SocketsTypeOK
  <2>3. ChunkInv'
    BY <1>1, <1>3, <2>1 DEF ChunkInv
  <2>4. Position' = Position
    BY <1>1, <2>1 DEF Position
  <2>5. QED
    BY <1>1, <2>1, <2>2, <2>3, <2>4, QuietStep
<1>4. QED
  BY <1>2, <1>3

LEMMA ReadStep == TransferInv /\ Read => TransferInv'
<1> SUFFICES ASSUME TransferInv, Read
             PROVE  TransferInv'
    OBVIOUS
<1> USE DEF TransferInv
<1>1. /\ server = "read" /\ server' = "send" /\ connfd # None /\ size # NoFile
      /\ total' = IF size - offset < Chunk THEN size - offset ELSE Chunk
      /\ offset' = offset + total' /\ sent = 0 /\ n = 0
      /\ UNCHANGED <<program, connfd, client, listening, backlog, link, down,
                     size, sent, n, got, partial, overran>>
  BY DEF Read, ServerGoto, socketVars, ChunkInv
<1>2. size \in Nat /\ offset \in Nat /\ offset <= size /\ Chunk \in Nat \ {0}
  BY <1>1, SizesAssumption, ChunkAssumption DEF TransferTypeOK, NoFile
<1>3. /\ total' \in 0 .. Chunk /\ offset' \in Nat /\ offset' <= size
      /\ total' <= offset' /\ (total' < Chunk => offset' = size)
      /\ offset' - total' = offset
  BY <1>1, <1>2
<1>4. TransferTypeOK'
  <2>1. SocketsTypeOK'
    BY <1>1 DEF TransferTypeOK, SocketsTypeOK
  <2>2. QED
    BY <2>1, <1>1, <1>3 DEF TransferTypeOK
<1>5. ChunkInv'
  BY <1>1, <1>3 DEF ChunkInv
<1>6. Position' = Position
  BY <1>1, <1>3 DEF Position
<1>7. QED
  BY <1>1, <1>4, <1>5, <1>6, QuietStep

LEMMA SendStopsStep == TransferInv /\ SendStops => TransferInv'
<1> SUFFICES ASSUME TransferInv, SendStops
             PROVE  TransferInv'
    OBVIOUS
<1> USE DEF TransferInv
<1>1. /\ server = "send" /\ server' = "close" /\ connfd # None /\ size # NoFile
      /\ total = 0 \/ link[connfd] # "open"
      /\ sent = 0 /\ n = 0 /\ (total < Chunk => offset = size)
      /\ UNCHANGED <<program, connfd, client, listening, backlog, link, down,
                     size, offset, total, sent, n, got, partial, overran>>
  BY DEF SendStops, socketVars, transferVars, chunkVars, ChunkInv
<1>2. TransferTypeOK'
  BY <1>1 DEF TransferTypeOK, SocketsTypeOK
<1>3. ChunkInv'
  BY <1>1 DEF ChunkInv
<1>4. offset \in Nat /\ Chunk \in Nat \ {0}
  BY ChunkAssumption DEF TransferTypeOK
<1>5. link[connfd] = "open" => Position' = Position
  BY <1>1, <1>4 DEF Position
<1>6. QED
  BY <1>1, <1>2, <1>3, <1>5, QuietStep

LEMMA ResendFailsStep == TransferInv /\ ResendFails => TransferInv'
<1> SUFFICES ASSUME TransferInv, ResendFails
             PROVE  TransferInv'
    OBVIOUS
<1> USE DEF TransferInv
<1>1. /\ server = "resend" /\ server' \in {"resend", "read", "close"}
      /\ connfd # None /\ size # NoFile /\ sent # -1
      /\ link[connfd] # "open"
      /\ \/ server' # "resend" /\ sent' = 0 /\ n' = 0
         \/ server' = "resend" /\ sent' = -1 /\ n' = n - 1
      /\ total <= offset /\ (total < Chunk => offset = size) /\ n >= 0
      /\ UNCHANGED <<program, connfd, client, listening, backlog, link, down,
                     size, offset, total, got, partial, overran>>
  BY DEF ResendFails, EndOfChunk, socketVars, ChunkInv
<1>2. /\ n \in -1 .. 2 * Chunk + MaxExcess /\ Chunk \in Nat \ {0}
      /\ MaxExcess \in Nat /\ total \in 0 .. Chunk
  BY ChunkAssumption, TransferBounds DEF TransferTypeOK
<1>3. n' \in -1 .. 2 * Chunk + MaxExcess /\ sent' \in -1 .. Chunk
  BY <1>1, <1>2
<1>4. TransferTypeOK'
  <2>1. SocketsTypeOK'
    BY <1>1 DEF TransferTypeOK, SocketsTypeOK
  <2>2. QED
    BY <2>1, <1>1, <1>3 DEF TransferTypeOK
<1>5. ChunkInv'
  BY <1>1 DEF ChunkInv
<1>6. QED
  BY <1>1, <1>4, <1>5, QuietStep

LEMMA BrokenPipeStep == TransferInv /\ BrokenPipe => TransferInv'
BY ServerEndsStep DEF BrokenPipe, transferVars, chunkVars

LEMMA AcceptStep == TransferInv /\ Accept => TransferInv'
<1> SUFFICES ASSUME TransferInv, Accept
             PROVE  TransferInv'
    OBVIOUS
<1> USE DEF TransferInv
<1>1. /\ server = "accept" /\ server' = "open" /\ connfd = None /\ AcceptNext
      /\ UNCHANGED <<program, client, listening, link, down,
                     size, offset, total, sent, n, got, partial, overran>>
  BY DEF Accept, ServerGoto, AcceptNext, transferVars, chunkVars, ChunkInv
<1>2. /\ BacklogInv'
      /\ connfd' \in Clients /\ backlog' \in Seq(Clients)
      /\ \A c \in Clients :
                IF c = connfd' THEN Waits(c) /\ ~Waits(c)'
                ELSE Waits(c)' <=> Waits(c)
  BY <1>1, BacklogAccept DEF TransferTypeOK
<1>3. TransferTypeOK'
  <2>1. SocketsTypeOK'
    BY <1>1, <1>2 DEF TransferTypeOK, SocketsTypeOK
  <2>2. QED
    BY <2>1, <1>1 DEF TransferTypeOK
<1>4. ChunkInv'
  BY <1>1, <1>2, NoneAssumption DEF ChunkInv
<1>5. ASSUME NEW c \in Clients
      PROVE  ClientOK(c)'
  <2>1. ClientOK(c) /\ c # connfd /\ ~EndedWith(c)
    BY <1>1, NoneAssumption DEF EndedWith
  <2>2. CASE c # connfd'
    BY <2>1, <2>2, <1>1, <1>2, SameStream
  <2>3. CASE c = connfd'
    <3>1. Copied(c)' = Copied(c) /\ Position' = 0
      BY <1>1 DEF Copied, Position
    <3>2. got[c] = << >> /\ down[c] = << >> /\ c \notin overran
      BY <2>1, <2>3, <1>2 DEF ClientOK, FreshOK
    <3>3. Len(got[c]) = 0 /\ Len(down[c]) = 0 /\ Copied(c) = 0
      BY <3>2 DEF Copied
    <3>4. FreshOK(c)'
      BY <2>3, <3>2, <1>1 DEF FreshOK
    <3>5. StreamOK(c)'
      BY <3>1, <3>2, <3>3, <2>1, <1>1 DEF ClientOK, StreamOK
    <3>6. QED
      BY <3>4, <3>5 DEF ClientOK
  <2>4. QED
    BY <2>2, <2>3
<1>6. QED
  BY <1>1, <1>2, <1>3, <1>4, <1>5 DEF StreamTypeOK

\* What send takes of a message.
LEMMA MessageBytes ==
    ASSUME NEW k \in Int, total \in Nat, offset \in Nat, NEW m \in 1 .. total
    PROVE  /\ SubSeq(Message(k), 1, m) \in Seq(Int)
           /\ Len(SubSeq(Message(k), 1, m)) = m
           /\ k + m <= total =>
                IsWindow(SubSeq(Message(k), 1, m), offset - total + k + 1,
                         offset - total + k + m + 1)
<1> DEFINE b == Message(k)
<1>1. /\ b \in Seq(Int) /\ Len(b) = total
      /\ \A j \in 1 .. total :
           b[j] = IF k + j <= total THEN offset - total + k + j ELSE Padding
  BY DEF Message, Padding
<1> HIDE DEF b
<1>2. m \in Int /\ 1 \in Int /\ \A j \in 1 .. m : j \in 1 .. total /\ b[j] \in Int
  BY <1>1
<1>3. /\ SubSeq(b, 1, m) \in Seq(Int)
      /\ Len(SubSeq(b, 1, m)) = IF 1 <= m THEN m - 1 + 1 ELSE 0
      /\ \A j \in 1 .. m - 1 + 1 : SubSeq(b, 1, m)[j] = b[1 + j - 1]
  BY <1>1, <1>2, SubSeqProperties
<1>4. Len(SubSeq(b, 1, m)) = m /\ \A j \in 1 .. m : SubSeq(b, 1, m)[j] = b[j]
  BY <1>2, <1>3
<1>5. ASSUME k + m <= total, NEW j \in 1 .. m
      PROVE  SubSeq(b, 1, m)[j] = offset - total + k + j
  BY <1>1, <1>2, <1>4, <1>5
<1>6. ASSUME k + m <= total
      PROVE  IsWindow(SubSeq(b, 1, m), offset - total + k + 1,
                      offset - total + k + m + 1)
  BY <1>2, <1>4, <1>5, <1>6 DEF IsWindow
<1>7. QED
  BY <1>3, <1>4, <1>6 DEF b

\* A send of m bytes, told to begin at position k of the chunk: the client
\* that is served is sent the next bytes of the file, or is one of overran.
LEMMA TakeStep ==
    ASSUME TransferInv, server \in {"send", "resend"}, n >= 0,
           NEW k \in -1 .. Chunk, NEW m \in 1 .. total, Take(k, m),
           UNCHANGED <<program, connfd, client, size, offset, total, got>>,
           server' \in {"read", "resend", "close"},
           TransferTypeOK', ChunkInv',
           n = k /\ k + m <= total => Position' = offset - total + n + m
    PROVE  TransferInv'
<1> USE DEF TransferInv
<1> DEFINE data == SubSeq(Message(k), 1, m)
<1>1. /\ connfd \in Clients /\ total \in Nat /\ offset \in Nat /\ total <= offset
      /\ k \in Int /\ n \in Int /\ size \in Nat /\ offset <= size
      /\ offset > 0 /\ m \in Int
  <2>1. /\ connfd \in Clients /\ total \in 0 .. Chunk /\ offset \in Nat
        /\ total <= offset /\ size # NoFile /\ size \in Sizes \cup {NoFile}
        /\ n \in -1 .. 2 * Chunk + MaxExcess
        /\ (offset > 0 => offset <= size)
    BY DEF TransferTypeOK, SocketsTypeOK, ChunkInv
  <2>2. Chunk \in Nat /\ MaxExcess \in Nat /\ size \in Nat
    BY <2>1, ChunkAssumption, TransferBounds, SizesAssumption
  <2>3. QED
    BY <2>1, <2>2
<1>2. /\ data \in Seq(Int) /\ Len(data) = m
      /\ k + m <= total => IsWindow(data, offset - total + k + 1,
                                    offset - total + k + m + 1)
  BY <1>1, MessageBytes
<1> HIDE DEF data
<1>3. /\ down' = IF link[connfd] = "open"
                 THEN [down EXCEPT ![connfd] = @ \o data] ELSE down
      /\ UNCHANGED <<listening, backlog, link, up>>
      /\ overran' = IF n = k /\ k + m <= total THEN overran
                    ELSE overran \cup {connfd}
  BY DEF Take, Deliver, data
<1>4. down \in [Clients -> Seq(Int)] /\ got \in [Clients -> Seq(Int)]
  BY DEF StreamTypeOK
<1>5. /\ down' \in [Clients -> Seq(Int)]
      /\ \A c \in Clients : c # connfd \/ link[c] # "open" => down'[c] = down[c]
      /\ link[connfd] = "open" => down'[connfd] = down[connfd] \o data
  <2>1. down[connfd] \o data \in Seq(Int)
    BY <1>1, <1>2, <1>4
  <2>2. CASE link[connfd] = "open"
    BY <2>1, <2>2, <1>1, <1>3, <1>4
  <2>3. CASE link[connfd] # "open"
    BY <2>3, <1>3, <1>4
  <2>4. QED
    BY <2>2, <2>3
<1>6. StreamTypeOK'
  BY <1>4, <1>5 DEF StreamTypeOK
<1>7. BacklogInv'
  BY <1>3 DEF BacklogInv, Waits
<1>8. ASSUME NEW c \in Clients
      PROVE  ClientOK(c)'
  <2>1. /\ ClientOK(c) /\ (Waits(c)' <=> Waits(c)) /\ ~EndedWith(c)
        /\ ~EndedWith(c)'
    BY <1>3 DEF Waits, EndedWith
  <2>2. CASE c # connfd \/ (link[c] # "open" /\ c \in overran')
    <3>1. CASE c # connfd
      BY <2>1, <3>1, <1>3, <1>5, SameStream
    <3>2. CASE c = connfd /\ link[c] # "open" /\ c \in overran'
      <4>1. client[c] # "start" /\ ~Waits(c)
        BY <3>2 DEF BacklogInv, Waits
      <4>2. FreshOK(c)'
        BY <4>1, <3>2, <2>1, <1>3 DEF FreshOK
      <4>3. QED
        BY <4>2, <3>2 DEF ClientOK
    <3>3. QED
      BY <2>2, <3>1, <3>2
  <2>3. CASE c = connfd
    <3>1. client[c] # "start" /\ ~Waits(c)
      BY <2>3 DEF BacklogInv, Waits
    <3>2. FreshOK(c)'
      BY <3>1, <2>3, <2>1, <1>3 DEF FreshOK
    <3>3. ASSUME c \notin overran'
          PROVE  StreamOK(c)'
      <4>1. n = k /\ k + m <= total /\ c \notin overran
        BY <3>3, <2>3, <1>3
      <4>2. StreamOK(c) /\ Position' = offset - total + n + m
        BY <4>1, <2>1 DEF ClientOK
      <4>3. CASE link[c] # "open"
        <5>1. down'[c] = down[c] /\ Copied(c)' = Copied(c)
          BY <4>3, <1>5 DEF Copied
        <5>2. QED
          BY <5>1, <4>2, <4>3, <2>1, <1>3 DEF StreamOK
      <4>4. CASE link[c] = "open"
        <5>1. Copied(c) = offset - total + n
          <6>1. Position = offset - total + n
            <7>1. server = "send" => n = 0
              BY DEF ChunkInv
            <7>2. QED
              BY <7>1, <1>1 DEF Position
          <6>2. QED
            BY <6>1, <4>2, <4>4, <2>3 DEF StreamOK
        <5>2. /\ down'[c] = down[c] \o data /\ Len(got[c]) \in Nat
              /\ Len(down[c]) \in Nat
              /\ Len(down'[c]) = Len(down[c]) + m
          <6>1. down[c] \in Seq(Int) /\ got[c] \in Seq(Int)
            BY <1>4
          <6>2. Len(down[c] \o data) = Len(down[c]) + Len(data)
            BY <6>1, <1>2, ConcatLength
          <6>3. down'[c] = down[c] \o data
            BY <4>4, <2>3, <1>5
          <6>4. Len(got[c]) \in Nat /\ Len(down[c]) \in Nat
            BY <6>1
          <6>5. Len(down'[c]) = Len(down[c]) + Len(data)
            BY <6>2, <6>3
          <6>6. QED
            BY <6>3, <6>4, <6>5, <1>2
        <5>3. Copied(c)' = Copied(c) + m /\ Copied(c) \in Nat
          <6>1. Len(got'[c]) = Len(got[c])
            OBVIOUS
          <6>2. Len(down'[c]) = Len(down[c]) + m /\ m \in Int
                /\ Len(got[c]) \in Nat /\ Len(down[c]) \in Nat
            BY <5>2, <1>1
          <6>3. Copied(c) = Len(got[c]) + Len(down[c])
            BY DEF Copied
          <6>4. Copied(c)' = Len(got[c]) + Len(down'[c])
            BY <6>1 DEF Copied
          <6>5. \A x, y \in Nat : \A z \in Int :
                   x + (y + z) = (x + y) + z /\ x + y \in Nat
            OBVIOUS
          <6>6. Copied(c)' = Len(got[c]) + (Len(down[c]) + m)
            BY <6>2, <6>4
          <6>7. /\ Len(got[c]) + (Len(down[c]) + m)
                     = (Len(got[c]) + Len(down[c])) + m
                /\ Len(got[c]) + Len(down[c]) \in Nat
            BY <6>2, <6>5
          <6>8. QED
            BY <6>3, <6>6, <6>7
        <5>4. IsWindow(down'[c], Len(got[c]) + 1, Copied(c)' + 1)
          <6>1. IsWindow(down[c], Len(got[c]) + 1, Copied(c) + 1)
            BY <4>2 DEF StreamOK
          <6>2. IsWindow(data, Copied(c) + 1, Copied(c)' + 1)
            BY <5>1, <5>3, <4>1, <1>1, <1>2
          <6>3. /\ down[c] \in Seq(Int) /\ Len(got[c]) + 1 \in Int
                /\ Copied(c) + 1 \in Int /\ Copied(c)' + 1 \in Int
            BY <5>2, <5>3, <1>1, <1>4
          <6>4. QED
            BY <6>1, <6>2, <6>3, <5>2, <1>2, WindowConcat
        <5>5. Copied(c)' <= size /\ Copied(c)' = Position'
          BY <5>1, <5>3, <4>1, <4>2, <1>1
        <5>6. client[c] = "complete" => Len(got[c]) = size
          BY <4>2, <2>1 DEF StreamOK
        <5>7. QED
          BY <5>4, <5>5, <5>6, <4>2, <4>4, <1>3 DEF StreamOK
      <4>5. QED
        BY <4>3, <4>4
    <3>4. QED
      BY <3>2, <3>3 DEF ClientOK
  <2>4. QED
    BY <2>2, <2>3
<1>9. QED
  BY <1>6, <1>7, <1>8

LEMMA SendStep == TransferInv /\ Send => TransferInv'
<1> SUFFICES ASSUME TransferInv, Send
             PROVE  TransferInv'
    OBVIOUS
<1> USE DEF TransferInv
<1>1. /\ server = "send" /\ n = 0 /\ connfd # None /\ size # NoFile
      /\ total <= offset /\ (total < Chunk => offset = size)
      /\ UNCHANGED <<program, connfd, client, size, offset, total, got>>
  BY DEF Send, ChunkInv
<1>2. PICK m \in 1 .. total :
         /\ Take(0, m)
         /\ IF m = total
            THEN server' = EndOfChunk /\ sent' = 0 /\ n' = 0
            ELSE server' = "resend" /\ sent' = m /\ n' = m
  BY DEF Send
<1>3. /\ total \in 0 .. Chunk /\ Chunk \in Nat \ {0} /\ MaxExcess \in Nat
      /\ MaxPartial \in Nat /\ partial \in 0 .. MaxPartial /\ offset \in Nat
      /\ connfd \in Clients
  BY <1>1, ChunkAssumption, TransferBounds DEF TransferTypeOK, SocketsTypeOK
<1>4. /\ (m < total => partial < MaxPartial)
      /\ partial' = IF m < total THEN partial + 1 ELSE partial
      /\ overran' \in {overran, overran \cup {connfd}}
      /\ UNCHANGED <<listening, backlog, link, up>>
  BY <1>2 DEF Take, Deliver
<1>5. /\ m \in Nat \ {0} /\ m <= total
      /\ partial' \in 0 .. MaxPartial
      /\ sent' \in -1 .. Chunk
      /\ n' \in -1 .. 2 * Chunk + MaxExcess /\ n' >= 0
      /\ server' \in {"read", "resend", "close"}
      /\ server' # "resend" => sent' = 0 /\ n' = 0
      /\ server' = "resend" => n' = m
      /\ server' = "read" => m = total
      /\ server' = "close" => m = total /\ offset = size
  <2>1. m \in Nat \ {0} /\ m <= total /\ partial' \in 0 .. MaxPartial
    BY <1>3, <1>4
  <2>2. CASE m = total
    BY <2>1, <2>2, <1>1, <1>2, <1>3 DEF EndOfChunk
  <2>3. CASE m # total
    BY <2>1, <2>3, <1>2, <1>3
  <2>4. QED
    BY <2>1, <2>2, <2>3
<1>6. TransferTypeOK'
  <2>1. SocketsTypeOK'
    BY <1>1, <1>4 DEF TransferTypeOK, SocketsTypeOK
  <2>2. overran' \subseteq Clients
    BY <1>3, <1>4 DEF TransferTypeOK
  <2>3. QED
    BY <2>1, <2>2, <1>1, <1>5 DEF TransferTypeOK
<1>7. ChunkInv'
  BY <1>1, <1>5 DEF ChunkInv
<1>8. Position' = offset - total + n + m
  BY <1>1, <1>3, <1>5 DEF Position
<1>9. n >= 0 /\ 0 \in -1 .. Chunk
  BY <1>1, <1>3
<1>10. QED
  BY <1>1, <1>2, <1>5, <1>6, <1>7, <1>8, <1>9, TakeStep

LEMMA ResendStep == TransferInv /\ Resend => TransferInv'
<1> SUFFICES ASSUME TransferInv, Resend
             PROVE  TransferInv'
    OBVIOUS
<1> USE DEF TransferInv
<1>1. /\ server = "resend" /\ sent # -1 /\ n >= 0 /\ n <= total + MaxExcess
      /\ connfd # None /\ size # NoFile
      /\ total <= offset /\ (total < Chunk => offset = size)
      /\ UNCHANGED <<program, connfd, client, size, offset, total, got>>
  BY DEF Resend, ChunkInv
<1>2. PICK m \in 1 .. total :
         /\ Take(sent, m)
         /\ IF n + m = total
            THEN server' = EndOfChunk /\ sent' = 0 /\ n' = 0
            ELSE server' = "resend" /\ sent' = m /\ n' = n + m
  BY DEF Resend
<1>3. /\ total \in 0 .. Chunk /\ Chunk \in Nat \ {0} /\ MaxExcess \in Nat
      /\ MaxPartial \in Nat /\ partial \in 0 .. MaxPartial /\ offset \in Nat
      /\ connfd \in Clients /\ sent \in -1 .. Chunk
      /\ n \in -1 .. 2 * Chunk + MaxExcess
  BY <1>1, ChunkAssumption, TransferBounds DEF TransferTypeOK, SocketsTypeOK
<1>4. /\ (m < total => partial < MaxPartial)
      /\ partial' = IF m < total THEN partial + 1 ELSE partial
      /\ overran' \in {overran, overran \cup {connfd}}
      /\ UNCHANGED <<listening, backlog, link, up>>
  BY <1>2 DEF Take, Deliver
<1>5. /\ m \in Nat \ {0} /\ m <= total
      /\ partial' \in 0 .. MaxPartial
      /\ sent' \in -1 .. Chunk
      /\ n' \in -1 .. 2 * Chunk + MaxExcess /\ n' >= 0
      /\ server' \in {"read", "resend", "close"}
      /\ server' # "resend" => sent' = 0 /\ n' = 0
      /\ server' = "resend" => n' = n + m
      /\ server' = "read" => n + m = total
      /\ server' = "close" => n + m = total /\ offset = size
  <2>1. m \in Nat \ {0} /\ m <= total /\ partial' \in 0 .. MaxPartial
    BY <1>3, <1>4
  <2>2. CASE n + m = total
    BY <2>1, <2>2, <1>1, <1>2, <1>3 DEF EndOfChunk
  <2>3. CASE n + m # total
    <3>1. server' = "resend" /\ sent' = m /\ n' = n + m
      BY <2>3, <1>2
    <3>2. m \in -1 .. Chunk /\ n + m \in -1 .. 2 * Chunk + MaxExcess /\ n + m >= 0
      BY <2>1, <1>1, <1>3
    <3>3. QED
      BY <2>1, <3>1, <3>2
  <2>4. QED
    BY <2>1, <2>2, <2>3
<1>6. TransferTypeOK'
  <2>1. SocketsTypeOK'
    BY <1>1, <1>4 DEF TransferTypeOK, SocketsTypeOK
  <2>2. overran' \subseteq Clients
    BY <1>3, <1>4 DEF TransferTypeOK
  <2>3. QED
    BY <2>1, <2>2, <1>1, <1>5 DEF TransferTypeOK
<1>7. ChunkInv'
  BY <1>1, <1>5 DEF ChunkInv
<1>8. Position' = offset - total + n + m
  <2>1. n \in Int /\ total \in Int /\ offset \in Int /\ m \in Int
    BY <1>3, <1>5
  <2>2. QED
    BY <2>1, <1>1, <1>5 DEF Position
<1>9. QED
  BY <1>1, <1>2, <1>3, <1>5, <1>6, <1>7, <1>8, TakeStep

\* A connection is reset: a part of what is on its way still arrives.
LEMMA CutStream ==
    ASSUME NEW c \in Clients, ClientOK(c), StreamTypeOK,
           NEW d \in Prefixes(down[c]), down'[c] = d,
           link'[c] = "reset", client'[c] = client[c], got'[c] = got[c],
           overran' = overran, size' = size, size \in Int,
           Waits(c)' <=> Waits(c),
           c = connfd' => c = connfd /\ (server' = "open" => server = "open"),
           EndedWith(c) => EndedWith(c)'
    PROVE  ClientOK(c)' /\ d \in Seq(Int)
<1>1. down[c] \in Seq(Int) /\ got[c] \in Seq(Int)
  BY DEF StreamTypeOK
<1>2. PICK m \in 0 .. Len(down[c]) : d = SubSeq(down[c], 1, m)
  BY DEF Prefixes
<1>3. d \in Seq(Int)
  BY <1>1, <1>2
<1>4. Len(down[c]) \in Nat /\ Len(got[c]) \in Nat /\ Len(d) \in Nat
      /\ (down[c] = << >> => Len(down[c]) = 0)
      /\ (Len(d) = 0 => d = << >>)
  BY <1>1, <1>3
<1>5. FreshOK(c)'
  <2>1. ASSUME down[c] = << >>
        PROVE  d = << >>
    <3>1. m = 0
      BY <2>1, <1>4
    <3>2. Len(SubSeq(down[c], 1, m)) = 0
      BY <3>1, <1>1
    <3>3. QED
      BY <3>2, <1>2, <1>4
  <2>2. QED
    BY <2>1 DEF ClientOK, FreshOK
<1>6. ASSUME c \notin overran
      PROVE  StreamOK(c)'
  <2>1. StreamOK(c)
    BY <1>6 DEF ClientOK
  <2>2. IsWindow(down[c], Len(got[c]) + 1, Copied(c) + 1)
    BY <2>1 DEF StreamOK
  <2>3. Copied(c) = Len(got[c]) + Len(down[c]) /\ Copied(c)' = Len(got[c]) + Len(d)
    BY DEF Copied
  <2>4. Copied(c) \in Nat /\ Copied(c)' \in Nat
    <3>1. Len(got[c]) + Len(down[c]) \in Nat /\ Len(got[c]) + Len(d) \in Nat
      BY <1>1, <1>3, ConcatLength
    <3>2. QED
      BY <2>3, <3>1
  <2>5. Len(got[c]) + 1 \in Int /\ Copied(c) + 1 \in Int
    BY <2>4, <1>4
  <2>6. Len(d) <= Len(down[c]) /\ IsWindow(d, Len(got[c]) + 1, Len(got[c]) + 1 + Len(d))
    BY <2>2, <2>5, <1>1, PrefixWindow
  <2>7. Len(got[c]) + 1 + Len(d) = Copied(c)' + 1 /\ Copied(c)' <= Copied(c)
    BY <2>3, <2>6, <1>4
  <2>8. IsWindow(down'[c], Len(got[c]) + 1, Copied(c)' + 1)
    BY <2>6, <2>7
  <2>9. Copied(c)' > 0 => Copied(c)' <= size
    <3>1. Copied(c) > 0 => Copied(c) <= size
      BY <2>1 DEF StreamOK
    <3>2. QED
      BY <3>1, <2>4, <2>7
  <2>10. client[c] = "complete" => Len(got[c]) = size \/ EndedWith(c)
    BY <2>1 DEF StreamOK
  <2>11. QED
    BY <2>1, <2>8, <2>9, <2>10 DEF StreamOK
<1>7. QED
  BY <1>3, <1>5, <1>6 DEF ClientOK

LEMMA CloseStep == TransferInv /\ Close => TransferInv'
<1> SUFFICES ASSUME TransferInv, Close
             PROVE  TransferInv'
    OBVIOUS
<1> USE DEF TransferInv
<1>1. /\ server = "close" /\ server' = "accept" /\ connfd # None /\ connfd' = None
      /\ size # NoFile /\ CloseConnection(connfd)
      /\ UNCHANGED <<program, client, listening, backlog, up,
                     size, offset, total, sent, n, got, partial, overran>>
  BY DEF Close, ServerGoto, CloseConnection, transferVars, chunkVars, ChunkInv
<1>2. connfd \in Clients /\ size \in Int /\ down \in [Clients -> Seq(Int)]
      /\ link \in [Clients -> {"none", "open", "closed", "left", "reset"}]
  <2>1. size \in Nat
    BY <1>1, SizesAssumption DEF TransferTypeOK
  <2>2. QED
    BY <2>1, <1>1 DEF TransferTypeOK, SocketsTypeOK, StreamTypeOK
<1>3. \/ link' = link /\ down' = down /\ link[connfd] # "open"
      \/ link' = [link EXCEPT ![connfd] = "closed"] /\ down' = down
         /\ link[connfd] = "open"
      \/ /\ link' = [link EXCEPT ![connfd] = "reset"]
         /\ \E d \in Prefixes(down[connfd]) : down' = [down EXCEPT ![connfd] = d]
         /\ link[connfd] = "open"
  BY <1>1 DEF CloseConnection
<1>4. \A c \in Clients : c # connfd => link'[c] = link[c] /\ down'[c] = down[c]
  BY <1>2, <1>3
<1>5. ASSUME NEW c \in Clients, c # connfd
      PROVE  ClientOK(c)'
  <2>1. /\ ClientOK(c) /\ c # connfd' /\ (Waits(c)' <=> Waits(c))
        /\ ~EndedWith(c)
    BY <1>1, NoneAssumption DEF Waits, EndedWith
  <2>2. QED
    BY <2>1, <1>1, <1>4, <1>5, SameStream
<1>6. ClientOK(connfd) /\ client[connfd] # "start" /\ ~EndedWith(connfd)
      /\ ~Waits(connfd)
  BY <1>1, <1>2 DEF EndedWith, BacklogInv, Waits
<1>7. PICK c \in Clients : c = connfd
  BY <1>2
<1>8. /\ ClientOK(c) /\ client[c] # "start" /\ ~EndedWith(c) /\ ~Waits(c)'
      /\ ~Waits(c) /\ c # connfd' /\ ~EndedWith(c)'
  BY <1>1, <1>6, <1>7, NoneAssumption DEF Waits, EndedWith
<1>9. /\ ClientOK(c)' /\ down'[c] \in Seq(Int)
      /\ link'[c] \in {"open", "closed", "left", "reset", "none"}
  <2>1. CASE link[c] # "open"
    <3>1. link'[c] = link[c] /\ down'[c] = down[c]
      BY <2>1, <1>2, <1>3, <1>7
    <3>2. ClientOK(c)'
      BY <3>1, <2>1, <1>1, <1>8, SameStream
    <3>3. QED
      BY <3>1, <3>2, <1>2
  <2>2. CASE link[c] = "open" /\ link' = [link EXCEPT ![c] = "closed"]
             /\ down' = down
    <3>1. link'[c] = "closed" /\ Copied(c)' = Copied(c)
      BY <2>2, <1>1, <1>2 DEF Copied
    <3>2. FreshOK(c)'
      BY <3>1, <2>2, <1>1, <1>8 DEF FreshOK
    <3>3. ASSUME c \notin overran
          PROVE  StreamOK(c)'
      <4>1. StreamOK(c)
        BY <3>3, <1>8 DEF ClientOK
      <4>2. Copied(c) = size
        BY <4>1, <2>2, <1>1, <1>7 DEF StreamOK, Position
      <4>3. QED
        BY <4>1, <4>2, <3>1, <2>2, <1>1, <1>8 DEF StreamOK
    <3>4. ClientOK(c)'
      BY <3>2, <3>3, <1>1 DEF ClientOK
    <3>5. QED
      BY <3>1, <3>4, <2>2, <1>2
  <2>3. CASE /\ link' = [link EXCEPT ![c] = "reset"]
             /\ \E d \in Prefixes(down[c]) : down' = [down EXCEPT ![c] = d]
    <3>1. PICK d \in Prefixes(down[c]) : down' = [down EXCEPT ![c] = d]
      BY <2>3
    <3>2. down'[c] = d /\ link'[c] = "reset"
      BY <3>1, <2>3, <1>2
    <3>3. ClientOK(c)' /\ d \in Seq(Int)
      BY <3>2, <1>1, <1>2, <1>8, CutStream
    <3>4. QED
      BY <3>2, <3>3
  <2>4. QED
    BY <2>1, <2>2, <2>3, <1>3, <1>7
<1>10. /\ link' \in [Clients -> {"none", "open", "closed", "left", "reset"}]
       /\ down' \in [Clients -> Seq(Int)]
  <2>1. DOMAIN link' = Clients /\ DOMAIN down' = Clients
        /\ link' = [d \in DOMAIN link' |-> link'[d]]
        /\ down' = [d \in DOMAIN down' |-> down'[d]]
    BY <1>2, <1>3
  <2>2. \A d \in Clients :
          /\ link'[d] \in {"none", "open", "closed", "left", "reset"}
          /\ down'[d] \in Seq(Int)
    BY <1>2, <1>4, <1>7, <1>9
  <2>3. QED
    BY <2>1, <2>2
<1>11. TransferTypeOK'
  <2>1. SocketsTypeOK'
    BY <1>1, <1>10 DEF TransferTypeOK, SocketsTypeOK
  <2>2. QED
    BY <2>1, <1>1 DEF TransferTypeOK
<1>12. BacklogInv'
  <2>1. \A d \in Clients : client'[d] = "start" =>
           client[d] = "start" /\ (link[d] = "none" => link'[d] = "none")
    BY <1>1, <1>4, <1>6
  <2>2. QED
    BY <2>1, <1>1, BacklogKept DEF TransferTypeOK
<1>13. ChunkInv'
  BY <1>1 DEF ChunkInv
<1>14. \A d \in Clients : ClientOK(d)'
  BY <1>5, <1>7, <1>9
<1>15. QED
  BY <1>1, <1>10, <1>11, <1>12, <1>13, <1>14 DEF StreamTypeOK

LEMMA ConnectStep ==
    ASSUME TransferInv, NEW c \in Clients, open_sockfd(c)
    PROVE  TransferInv'
<1> USE DEF TransferInv
<1>1. /\ client[c] = "start" /\ client' = [client EXCEPT ![c] = "recv"] /\ Connect(c)
      /\ link' = [link EXCEPT ![c] = "open"]
      /\ UNCHANGED <<program, server, connfd, listening, down, size, offset,
                     total, sent, n, got, partial, overran>>
  BY DEF open_sockfd, ClientGoto, Connect, transferVars, chunkVars
<1>2. /\ SocketsTypeOK
      /\ client \in [Clients -> {"start", "recv", "complete", "broken", "killed"}]
      /\ link \in [Clients -> {"none", "open", "closed", "left", "reset"}]
  BY DEF TransferTypeOK, SocketsTypeOK
<1>3. client'[c] = "recv" /\ link'[c] = "open"
      /\ \A d \in Clients : d # c => client'[d] = client[d] /\ link'[d] = link[d]
  BY <1>1, <1>2
<1>4. /\ BacklogInv' /\ backlog' \in Seq(Clients) /\ Waits(c)'
      /\ \A d \in Clients : d # c => (Waits(d)' <=> Waits(d))
  BY <1>1, <1>2, <1>3, BacklogConnect
<1>5. TransferTypeOK'
  <2>1. link' \in [Clients -> {"none", "open", "closed", "left", "reset"}]
        /\ client' \in [Clients -> {"start", "recv", "complete", "broken", "killed"}]
    BY <1>1, <1>2
  <2>2. SocketsTypeOK'
    BY <2>1, <1>1, <1>2, <1>4 DEF SocketsTypeOK
  <2>3. QED
    BY <2>1, <2>2, <1>1 DEF TransferTypeOK
<1>6. ChunkInv'
  BY <1>1 DEF ChunkInv
<1>7. ClientOK(c)'
  <2>1. /\ got'[c] = << >> /\ down'[c] = << >> /\ c \notin overran /\ c # connfd
    BY <1>1 DEF ClientOK, FreshOK, BacklogInv
  <2>2. FreshOK(c)'
    BY <2>1, <1>1, <1>4 DEF FreshOK
  <2>3. StreamOK(c)'
    BY <2>1, <1>1, <1>3, EmptyStream
  <2>4. QED
    BY <2>2, <2>3 DEF ClientOK
<1>8. ASSUME NEW d \in Clients, d # c
      PROVE  ClientOK(d)'
  <2>1. ClientOK(d) /\ EndedWith(d)' = EndedWith(d) /\ Position' = Position
    BY <1>1 DEF EndedWith, Position
  <2>2. QED
    BY <2>1, <1>1, <1>3, <1>4, <1>8, SameStream
<1>9. QED
  BY <1>1, <1>4, <1>5, <1>6, <1>7, <1>8 DEF StreamTypeOK

LEMMA ConnectFailsStep ==
    ASSUME TransferInv, NEW c \in Clients, ConnectFails(c)
    PROVE  TransferInv'
<1> USE DEF TransferInv
<1>1. /\ client[c] = "start" /\ client' = [client EXCEPT ![c] = "recv"]
      /\ UNCHANGED <<program, server, connfd, listening, backlog, link, down,
                     size, offset, total, sent, n, got, partial, overran>>
  BY DEF ConnectFails, ClientGoto, socketVars, transferVars, chunkVars
<1>2. client \in [Clients -> {"start", "recv", "complete", "broken", "killed"}]
  BY DEF TransferTypeOK
<1>3. \A d \in Clients : (client'[d] = "start" => client[d] = "start")
                         /\ (client'[d] = "complete" => client[d] = "complete")
      /\ client' \in [Clients -> {"start", "recv", "complete", "broken", "killed"}]
  BY <1>1, <1>2
<1>4. TransferTypeOK' /\ ChunkInv'
  <2>1. SocketsTypeOK'
    BY <1>1 DEF TransferTypeOK, SocketsTypeOK
  <2>2. TransferTypeOK'
    BY <2>1, <1>1, <1>3 DEF TransferTypeOK
  <2>3. QED
    BY <2>2, <1>1 DEF ChunkInv
<1>5. BacklogInv'
  BY <1>1, <1>3, BacklogKept DEF TransferTypeOK
<1>6. ASSUME NEW d \in Clients
      PROVE  ClientOK(d)'
  <2>1. /\ ClientOK(d) /\ EndedWith(d)' = EndedWith(d) /\ Position' = Position
        /\ (Waits(d)' <=> Waits(d))
    BY <1>1 DEF EndedWith, Position, Waits
  <2>2. QED
    BY <2>1, <1>1, <1>3, SameStream
<1>7. QED
  BY <1>1, <1>4, <1>5, <1>6 DEF StreamTypeOK

LEMMA RecvStep ==
    ASSUME TransferInv, NEW c \in Clients, Recv(c)
    PROVE  TransferInv'
<1> USE DEF TransferInv
<1>1. /\ client[c] = "recv"
      /\ UNCHANGED <<program, server, connfd, client, listening, backlog, link,
                     size, offset, total, sent, n, partial, overran>>
  BY DEF Recv, Receive, processVars, chunkVars
<1>2. PICK m \in 1 .. Len(down[c]) :
         /\ down' = [down EXCEPT ![c] = SubSeq(@, m + 1, Len(@))]
         /\ got' = [got EXCEPT ![c] = @ \o SubSeq(down[c], 1, m)]
  BY DEF Recv, Receive
<1>3. /\ down \in [Clients -> Seq(Int)] /\ got \in [Clients -> Seq(Int)]
      /\ down[c] \in Seq(Int) /\ got[c] \in Seq(Int)
  BY DEF StreamTypeOK
<1>4. /\ down'[c] = SubSeq(down[c], m + 1, Len(down[c]))
      /\ got'[c] = got[c] \o SubSeq(down[c], 1, m)
      /\ \A d \in Clients : d # c => down'[d] = down[d] /\ got'[d] = got[d]
  BY <1>2, <1>3
<1>5. /\ Len(down[c]) \in Nat /\ m \in Int /\ down[c] # << >>
      /\ Len(got[c]) \in Nat
  BY <1>2, <1>3
<1>6. /\ down'[c] \in Seq(Int) /\ got'[c] \in Seq(Int)
      /\ Len(got'[c]) = Len(got[c]) + m /\ Copied(c)' = Copied(c)
  <2>1. /\ got[c] \o SubSeq(down[c], 1, m) \in Seq(Int)
        /\ SubSeq(down[c], m + 1, Len(down[c])) \in Seq(Int)
        /\ Len(got[c] \o SubSeq(down[c], 1, m)) = Len(got[c]) + m
        /\ Len(got[c] \o SubSeq(down[c], 1, m))
             + Len(SubSeq(down[c], m + 1, Len(down[c])))
             = Len(got[c]) + Len(down[c])
    BY <1>3, MovedParts
  <2>2. QED
    BY <2>1, <1>4 DEF Copied
<1>7. down' \in [Clients -> Seq(Int)] /\ got' \in [Clients -> Seq(Int)]
  <2>1. SubSeq(down[c], m + 1, Len(down[c])) \in Seq(Int)
        /\ got[c] \o SubSeq(down[c], 1, m) \in Seq(Int)
    BY <1>4, <1>6
  <2>2. QED
    BY <2>1, <1>2, <1>3
<1>8. TransferTypeOK' /\ ChunkInv' /\ BacklogInv'
  <2>1. SocketsTypeOK'
    BY <1>1 DEF TransferTypeOK, SocketsTypeOK
  <2>2. TransferTypeOK'
    BY <2>1, <1>1 DEF TransferTypeOK
  <2>3. QED
    BY <2>2, <1>1 DEF ChunkInv, BacklogInv, Waits
<1>9. ASSUME NEW d \in Clients
      PROVE  ClientOK(d)'
  <2>1. /\ ClientOK(d) /\ EndedWith(d)' = EndedWith(d) /\ Position' = Position
        /\ (Waits(d)' <=> Waits(d))
    BY <1>1 DEF EndedWith, Position, Waits
  <2>2. CASE d # c
    BY <2>1, <2>2, <1>1, <1>4, SameStream
  <2>3. CASE d = c
    <3>1. FreshOK(c)'
      BY <2>1, <2>3, <1>1, <1>5 DEF ClientOK, FreshOK, Waits
    <3>2. ASSUME c \notin overran
          PROVE  StreamOK(c)'
      <4>1. StreamOK(c)
        BY <3>2, <2>1, <2>3 DEF ClientOK
      <4>2. IsWindow(got[c], 1, Len(got[c]) + 1)
            /\ IsWindow(down[c], Len(got[c]) + 1, Copied(c) + 1)
        BY <4>1 DEF StreamOK
      <4>3. Len(got[c]) + 1 \in Int /\ Copied(c) + 1 \in Int /\ 1 \in Int
        <5>1. Len(got[c]) + Len(down[c]) \in Nat
          BY <1>3, ConcatLength
        <5>2. QED
          BY <5>1, <1>5 DEF Copied
      <4>4. /\ IsWindow(got'[c], 1, Len(got[c]) + 1 + m)
            /\ IsWindow(down'[c], Len(got[c]) + 1 + m, Copied(c) + 1)
        <5>1. /\ IsWindow(got[c] \o SubSeq(down[c], 1, m), 1,
                          (Len(got[c]) + 1) + m)
              /\ IsWindow(SubSeq(down[c], m + 1, Len(down[c])),
                          (Len(got[c]) + 1) + m, Copied(c) + 1)
          BY <4>2, <4>3, <1>3, WindowMoved
        <5>2. QED
          BY <5>1, <1>4
      <4>5. Len(got[c]) + 1 + m = Len(got'[c]) + 1
        BY <1>5, <1>6
      <4>6. QED
        BY <4>1, <4>4, <4>5, <1>1, <1>6, <2>1, <2>3 DEF StreamOK
    <3>3. QED
      BY <3>1, <3>2, <2>3, <1>1 DEF ClientOK
  <2>4. QED
    BY <2>2, <2>3
<1>10. QED
  BY <1>1, <1>7, <1>8, <1>9 DEF StreamTypeOK

\* A client ends, and leaves its connection: at the end of the stream, or
\* before.
LEMMA LeaveStep ==
    ASSUME TransferInv, NEW c \in Clients, Leave(c), client[c] = "recv",
           NEW s \in {"complete", "broken", "killed"},
           client' = [client EXCEPT ![c] = s],
           s = "complete" => EndOfStream(c),
           UNCHANGED <<program, server, connfd, transferVars>>
    PROVE  TransferInv'
<1> USE DEF TransferInv
<1>1. /\ link' = [link EXCEPT ![c] = IF @ = "none" THEN @ ELSE "left"]
      /\ down' = [down EXCEPT ![c] = << >>]
      /\ UNCHANGED <<program, server, connfd, listening, backlog, size, offset,
                     total, sent, n, got, partial, overran>>
  BY DEF Leave, transferVars, chunkVars
<1>2. /\ link \in [Clients -> {"none", "open", "closed", "left", "reset"}]
      /\ down \in [Clients -> Seq(Int)] /\ got \in [Clients -> Seq(Int)]
      /\ client \in [Clients -> {"start", "recv", "complete", "broken", "killed"}]
  BY DEF TransferTypeOK, SocketsTypeOK, StreamTypeOK
<1>3. /\ link'[c] = IF link[c] = "none" THEN "none" ELSE "left"
      /\ down'[c] = << >> /\ client'[c] = s
      /\ \A d \in Clients : d # c => /\ link'[d] = link[d] /\ down'[d] = down[d]
                                     /\ client'[d] = client[d]
  BY <1>1, <1>2
<1>4. /\ link' \in [Clients -> {"none", "open", "closed", "left", "reset"}]
      /\ client' \in [Clients -> {"start", "recv", "complete", "broken", "killed"}]
      /\ down' \in [Clients -> Seq(Int)]
  <2>1. (IF link[c] = "none" THEN link[c] ELSE "left")
           \in {"none", "open", "closed", "left", "reset"}
    OBVIOUS
  <2>2. << >> \in Seq(Int)
    OBVIOUS
  <2>3. QED
    BY <2>1, <2>2, <1>1, <1>2
<1>5. TransferTypeOK'
  <2>1. SocketsTypeOK'
    BY <1>1, <1>4 DEF TransferTypeOK, SocketsTypeOK
  <2>2. QED
    BY <2>1, <1>1, <1>4 DEF TransferTypeOK
<1>6. ChunkInv'
  BY <1>1 DEF ChunkInv
<1>7. BacklogInv'
  <2>1. \A d \in Clients : client'[d] = "start" =>
           client[d] = "start" /\ (link[d] = "none" => link'[d] = "none")
    BY <1>3
  <2>2. QED
    BY <2>1, <1>1, BacklogKept DEF TransferTypeOK
<1>8. ASSUME NEW d \in Clients
      PROVE  ClientOK(d)'
  <2>1. /\ ClientOK(d) /\ EndedWith(d)' = EndedWith(d) /\ Position' = Position
        /\ (Waits(d)' <=> Waits(d))
    BY <1>1 DEF EndedWith, Position, Waits
  <2>2. CASE d # c
    BY <2>1, <2>2, <1>1, <1>3, SameStream
  <2>3. CASE d = c
    <3>1. FreshOK(c)'
      BY <2>1, <2>3, <1>1, <1>3 DEF ClientOK, FreshOK
    <3>2. ASSUME c \notin overran
          PROVE  StreamOK(c)'
      <4>1. StreamOK(c)
        BY <3>2, <2>1, <2>3 DEF ClientOK
      <4>2. /\ got[c] \in Seq(Int) /\ down[c] \in Seq(Int)
            /\ Len(got[c]) \in Nat /\ Len(down[c]) \in Nat
            /\ Len(got[c]) + Len(down[c]) \in Nat
        BY <1>2, ConcatLength
      <4>3. Copied(c) = Len(got[c]) + Len(down[c]) /\ Copied(c) \in Nat
        BY <4>2 DEF Copied
      <4>4. Len(down'[c]) = 0
        BY <1>3
      <4>5. Copied(c)' = Len(got[c]) + Len(down'[c])
        BY <1>1 DEF Copied
      <4>6. Copied(c)' = Len(got[c])
        BY <4>2, <4>4, <4>5
      <4>7. IsWindow(down'[c], Len(got[c]) + 1, Copied(c)' + 1)
        <5>1. IsWindow(<< >>, Len(got[c]) + 1, Len(got[c]) + 1)
          BY <4>2, EmptyWindow
        <5>2. QED
          BY <5>1, <4>6, <1>3
      <4>8. Copied(c)' > 0 => Copied(c)' <= size
        <5>1. Copied(c) > 0 => Copied(c) <= size
          BY <4>1 DEF StreamOK
        <5>2. size \in Int
          BY SizesAssumption DEF TransferTypeOK, NoFile
        <5>3. Copied(c)' <= Copied(c)
          <6>1. \A x, y \in Nat : x <= x + y
            OBVIOUS
          <6>2. Len(got[c]) <= Len(got[c]) + Len(down[c])
            BY <6>1, <4>2
          <6>3. QED
            BY <6>2, <4>3, <4>6
        <5>4. Copied(c)' \in Int /\ Copied(c) \in Int
          BY <4>2, <4>3, <4>6
        <5>5. QED
          BY <5>1, <5>2, <5>3, <5>4
      <4>9. ASSUME s = "complete"
            PROVE  Len(got[c]) = size \/ EndedWith(c)
        <5>1. down[c] = << >> /\ link[c] = "closed"
          BY <4>9 DEF EndOfStream
        <5>2. Len(down[c]) = 0
          BY <5>1
        <5>3. Copied(c) = Len(got[c])
          BY <5>2, <4>2, <4>3
        <5>4. QED
          BY <5>1, <5>3, <4>1 DEF StreamOK
      <4>10. QED
        BY <4>1, <4>7, <4>8, <4>9, <1>1, <1>3, <2>1, <2>3 DEF StreamOK
    <3>3. QED
      BY <3>1, <3>2, <2>3, <1>1 DEF ClientOK
  <2>4. QED
    BY <2>2, <2>3
<1>9. QED
  BY <1>1, <1>4, <1>5, <1>6, <1>7, <1>8 DEF StreamTypeOK

LEMMA ResetStep ==
    ASSUME TransferInv, NEW c \in Clients, Reset(c), UNCHANGED transferVars
    PROVE  TransferInv'
<1> USE DEF TransferInv
<1>1. /\ link[c] = "open" /\ link' = [link EXCEPT ![c] = "reset"]
      /\ UNCHANGED <<program, server, connfd, client, listening, backlog, size,
                     offset, total, sent, n, got, partial, overran>>
  BY DEF Reset, processVars, transferVars, chunkVars
<1>2. PICK e \in Prefixes(down[c]) : down' = [down EXCEPT ![c] = e]
  BY DEF Reset
<1>3. /\ link \in [Clients -> {"none", "open", "closed", "left", "reset"}]
      /\ down \in [Clients -> Seq(Int)] /\ size \in Int
  BY SizesAssumption DEF TransferTypeOK, SocketsTypeOK, StreamTypeOK, NoFile
<1>4. /\ link'[c] = "reset" /\ down'[c] = e
      /\ \A d \in Clients : d # c => link'[d] = link[d] /\ down'[d] = down[d]
  BY <1>1, <1>2, <1>3
<1>5. \A d \in Clients :
        /\ ClientOK(d) /\ EndedWith(d)' = EndedWith(d) /\ Position' = Position
        /\ (Waits(d)' <=> Waits(d))
  BY <1>1 DEF EndedWith, Position, Waits
<1>6. ClientOK(c)' /\ e \in Seq(Int)
  BY <1>1, <1>3, <1>4, <1>5, CutStream
<1>7. ASSUME NEW d \in Clients, d # c
      PROVE  ClientOK(d)'
  BY <1>1, <1>4, <1>5, <1>7, SameStream
<1>8. /\ link' \in [Clients -> {"none", "open", "closed", "left", "reset"}]
      /\ down' \in [Clients -> Seq(Int)]
  BY <1>1, <1>2, <1>3, <1>6
<1>9. TransferTypeOK' /\ ChunkInv'
  <2>1. SocketsTypeOK'
    BY <1>1, <1>8 DEF TransferTypeOK, SocketsTypeOK
  <2>2. TransferTypeOK'
    BY <2>1, <1>1 DEF TransferTypeOK
  <2>3. QED
    BY <2>2, <1>1 DEF ChunkInv
<1>10. BacklogInv'
  <2>1. \A d \in Clients : client'[d] = "start" =>
           client[d] = "start" /\ (link[d] = "none" => link'[d] = "none")
    BY <1>1, <1>4
  <2>2. QED
    BY <2>1, <1>1, BacklogKept DEF TransferTypeOK
<1>11. \A d \in Clients : ClientOK(d)'
  BY <1>6, <1>7
<1>12. QED
  BY <1>1, <1>8, <1>9, <1>10, <1>11 DEF StreamTypeOK

LEMMA TransferStep ==
    TransferInv /\ (TransferServer \/ (\E c \in Clients : TransferClient(c))
                      \/ TransferFault)
        => TransferInv'
<1> SUFFICES ASSUME TransferInv
             PROVE  /\ TransferServer => TransferInv'
                    /\ \A c \in Clients : TransferClient(c) => TransferInv'
                    /\ TransferFault => TransferInv'
    OBVIOUS
<1>1. ASSUME TransferServer
      PROVE  TransferInv'
  BY <1>1, ListenStep, ListenFailsStep, AcceptStep, OpenStep, ReadStep, SendStep,
     SendStopsStep, ResendStep, ResendFailsStep, BrokenPipeStep, CloseStep
     DEF TransferServer
<1>2. ASSUME NEW c \in Clients, RecvStops(c) \/ Kill(c)
      PROVE  TransferInv'
  <2>1. /\ Leave(c) /\ client[c] = "recv"
        /\ UNCHANGED <<program, server, connfd, transferVars>>
        /\ \/ EndOfStream(c) /\ client' = [client EXCEPT ![c] = "complete"]
           \/ client' = [client EXCEPT ![c] = "broken"]
           \/ client' = [client EXCEPT ![c] = "killed"]
    BY <1>2 DEF RecvStops, Kill, ClientGoto
  <2>2. CASE EndOfStream(c) /\ client' = [client EXCEPT ![c] = "complete"]
    BY <2>1, <2>2, LeaveStep
  <2>3. CASE client' = [client EXCEPT ![c] = "broken"]
    BY <2>1, <2>3, LeaveStep
  <2>4. CASE client' = [client EXCEPT ![c] = "killed"]
    BY <2>1, <2>4, LeaveStep
  <2>5. QED
    BY <2>1, <2>2, <2>3, <2>4
<1>3. ASSUME NEW c \in Clients, TransferClient(c)
      PROVE  TransferInv'
  BY <1>2, <1>3, ConnectStep, ConnectFailsStep, RecvStep DEF TransferClient
<1>4. ASSUME TransferFault
      PROVE  TransferInv'
  BY <1>2, <1>4, ResetStep DEF TransferFault
<1>5. QED
  BY <1>1, <1>3, <1>4
-----------------------------------------------------------------------------
(***************************************************************************)
(* The echo programs.                                                      *)
(***************************************************************************)
BytesTypeOK ==
    /\ up \in [Clients -> Seq(Int)] /\ down \in [Clients -> Seq(Int)]
    /\ printed \in [Clients -> Seq(Int)]
    /\ buffer \in Seq(Int)

\* The buffer is empty when the server reads, and holds the beginning of the
\* message of its client, or all of it, when it writes.
BufferInv ==
    /\ server \in {"start", "accept"} => connfd = None
    /\ server \in {"read", "write", "close"} => connfd # None
    /\ server = "read" => buffer = << >>
    /\ server = "write" =>
          /\ IsWindow(buffer, 1, Len(buffer) + 1)
          /\ Len(buffer) <= msgLength[connfd]
          /\ connfd \in whole => Len(buffer) = msgLength[connfd]

\* The server has not yet read from a client; nor written to it.
Unserved(c) ==
    client[c] = "start" \/ Waits(c) \/ (server = "read" /\ c = connfd)

Unanswered(c) == Unserved(c) \/ (server = "write" /\ c = connfd)

\* What is on its way to a client with a short message is the beginning of the
\* message, all of it if the server has read it all and the connection is well.
AnswerOK(c) ==
    /\ IsWindow(down[c], 1, Len(down[c]) + 1)
    /\ Len(down[c]) <= msgLength[c]
    /\ c \in whole /\ link[c] \in {"open", "closed"} /\ ~Unanswered(c) =>
          Len(down[c]) = msgLength[c]
    /\ client[c] = "done" =>
          /\ IsWindow(printed[c], 1, Len(printed[c]) + 1)
          /\ Len(printed[c]) <= msgLength[c]
          /\ c \in whole => Len(printed[c]) = msgLength[c]

PeerOK(c) ==
    /\ Unserved(c) => up[c] \in {<< >>, msg(c)} /\ c \notin whole
    /\ Unanswered(c) =>
          down[c] = << >> /\ link[c] # "closed" /\ client[c] # "done"
    /\ client[c] # "done" => printed[c] = << >>
    /\ c \in whole => msgLength[c] > 0
    /\ msgLength[c] < MsgSize => AnswerOK(c)

EchoInv ==
    /\ program = "echo"
    /\ EchoTypeOK /\ BytesTypeOK /\ BacklogInv /\ BufferInv
    /\ \A c \in Clients : PeerOK(c)

LEMMA SamePeer ==
    ASSUME NEW c \in Clients, PeerOK(c),
           msgLength' = msgLength, link'[c] = link[c], down'[c] = down[c],
           printed'[c] = printed[c],
           up'[c] = up[c] \/ up'[c] = msg(c),
           client'[c] = "done" <=> client[c] = "done",
           c \in whole' <=> c \in whole,
           Unserved(c)' => Unserved(c), Unanswered(c)' <=> Unanswered(c)
    PROVE  PeerOK(c)'
<1>1. msg(c)' = msg(c)
  BY DEF msg
<1>2. msgLength[c] < MsgSize => AnswerOK(c)'
  BY DEF PeerOK, AnswerOK
<1>3. QED
  BY <1>1, <1>2 DEF PeerOK

\* The connection of a client is reset, or closed by it.
LEMMA CutPeer ==
    ASSUME NEW c \in Clients, PeerOK(c), BytesTypeOK, EchoTypeOK,
           NEW d \in Prefixes(down[c]), down'[c] = d,
           link'[c] \in {"none", "reset", "left"},
           msgLength' = msgLength, printed'[c] = printed[c], up'[c] = up[c],
           client'[c] = "done" <=> client[c] = "done",
           c \in whole' <=> c \in whole,
           Unserved(c)' => Unserved(c), Unanswered(c)' => Unanswered(c)
    PROVE  PeerOK(c)' /\ d \in Seq(Int)
<1>1. down[c] \in Seq(Int) /\ msgLength[c] \in Int
  BY DEF BytesTypeOK, EchoTypeOK
<1>2. PICK m \in 0 .. Len(down[c]) : d = SubSeq(down[c], 1, m)
  BY DEF Prefixes
<1>3. d \in Seq(Int)
  BY <1>1, <1>2
<1>4. /\ Len(down[c]) \in Nat /\ Len(d) \in Nat
      /\ (down[c] = << >> => Len(down[c]) = 0)
      /\ (Len(d) = 0 => d = << >>)
  BY <1>1, <1>3
<1>5. ASSUME down[c] = << >>
      PROVE  d = << >>
  <2>1. m = 0
    BY <1>5, <1>4
  <2>2. Len(SubSeq(down[c], 1, m)) = 0
    BY <2>1, <1>1
  <2>3. QED
    BY <2>2, <1>2, <1>4
<1>6. ASSUME msgLength[c] < MsgSize
      PROVE  AnswerOK(c)'
  <2>1. /\ IsWindow(down[c], 1, Len(down[c]) + 1)
        /\ Len(down[c]) <= msgLength[c]
    BY <1>6 DEF PeerOK, AnswerOK
  <2>2. /\ Len(d) <= Len(down[c])
        /\ IsWindow(d, 1, 1 + Len(d))
    BY <2>1, <1>1, <1>4, PrefixWindow
  <2>3. 1 + Len(d) = Len(d) + 1 /\ Len(d) <= msgLength[c]
    BY <2>1, <2>2, <1>1, <1>4
  <2>4. IsWindow(d, 1, Len(d) + 1)
    BY <2>2, <2>3
  <2>5. QED
    BY <2>3, <2>4, <1>6 DEF PeerOK, AnswerOK
<1>7. msg(c)' = msg(c)
  BY DEF msg
<1>8. QED
  BY <1>3, <1>5, <1>6, <1>7 DEF PeerOK

LEMMA WholePrefix ==
    ASSUME NEW q \in Seq(Int)
    PROVE  /\ q \in Prefixes(q) /\ << >> \in Prefixes(q)
<1>1. Len(q) \in Nat
  OBVIOUS
<1>2. /\ SubSeq(q, 1, Len(q)) \in Seq(Int) /\ Len(SubSeq(q, 1, Len(q))) = Len(q)
      /\ \A k \in 1 .. Len(q) : SubSeq(q, 1, Len(q))[k] = q[k]
  BY <1>1
<1>3. q = SubSeq(q, 1, Len(q))
  BY <1>2, SeqEqual
<1>4. SubSeq(q, 1, 0) \in Seq(Int) /\ Len(SubSeq(q, 1, 0)) = 0
  BY <1>1
<1>5. << >> = SubSeq(q, 1, 0)
  BY <1>4
<1>6. Len(q) \in 0 .. Len(q) /\ 0 \in 0 .. Len(q)
  BY <1>1
<1>7. q \in Prefixes(q)
  BY <1>3, <1>6, Zenon DEF Prefixes
<1>8. << >> \in Prefixes(q)
  BY <1>5, <1>6, Zenon DEF Prefixes
<1>9. QED
  BY <1>7, <1>8

LEMMA CStringBytes ==
    ASSUME NEW q \in Seq(Int), NEW bytes \in CString(q)
    PROVE  bytes \in Seq(Int) /\ (Len(q) < MsgSize => bytes = q)
<1>1. Append(q, Garbage) \in Seq(Int)
  BY DEF Garbage
<1>2. QED
  BY <1>1 DEF CString

\* The message of a client, and the beginnings of it.
LEMMA MessageIsWindow ==
    ASSUME NEW c \in Clients, EchoTypeOK
    PROVE  /\ msgLength[c] \in 0 .. MsgSize
           /\ msg(c) \in Seq(Int) /\ Len(msg(c)) = msgLength[c]
           /\ IsWindow(msg(c), 1, msgLength[c] + 1)
<1>1. msgLength[c] \in 0 .. MsgSize /\ MsgSize \in Nat
  BY MsgSizeAssumption DEF EchoTypeOK
<1>2. /\ msg(c) \in Seq(Int) /\ Len(msg(c)) = msgLength[c]
      /\ \A k \in 1 .. msgLength[c] : msg(c)[k] = k
  BY <1>1 DEF msg
<1>3. QED
  BY <1>1, <1>2 DEF IsWindow

LEMMA EchoListenStep == EchoInv /\ EchoListen => EchoInv'
<1> SUFFICES ASSUME EchoInv, EchoListen
             PROVE  EchoInv'
    OBVIOUS
<1> USE DEF EchoInv
<1>1. /\ server = "start" /\ server' \in {"accept", "ended"} /\ connfd = None
      /\ listening' \in {TRUE, listening}
      /\ UNCHANGED <<program, connfd, client, backlog, link, up, down, msgLength,
                     buffer, printed, whole>>
  BY DEF EchoListen, Listen, socketVars, echoVars, BufferInv
<1>2. EchoTypeOK' /\ BytesTypeOK'
  <2>1. SocketsTypeOK'
    BY <1>1 DEF EchoTypeOK, SocketsTypeOK
  <2>2. QED
    BY <2>1, <1>1 DEF EchoTypeOK, BytesTypeOK
<1>3. BacklogInv' /\ BufferInv'
  BY <1>1 DEF BacklogInv, Waits, BufferInv
<1>4. ASSUME NEW c \in Clients
      PROVE  PeerOK(c)'
  <2>1. /\ PeerOK(c) /\ c # connfd
        /\ (Waits(c)' <=> Waits(c))
    BY <1>1, NoneAssumption DEF Waits
  <2>2. Unserved(c)' <=> Unserved(c)
    BY <1>1, <2>1 DEF Unserved
  <2>3. Unanswered(c)' <=> Unanswered(c)
    BY <1>1, <2>1, <2>2 DEF Unanswered
  <2>4. QED
    BY <1>1, <2>1, <2>2, <2>3, SamePeer
<1>5. QED
  BY <1>1, <1>2, <1>3, <1>4

LEMMA EchoAcceptStep == EchoInv /\ EchoAccept => EchoInv'
<1> SUFFICES ASSUME EchoInv, EchoAccept
             PROVE  EchoInv'
    OBVIOUS
<1> USE DEF EchoInv
<1>1. /\ server = "accept" /\ server' = "read" /\ connfd = None /\ AcceptNext
      /\ buffer' = << >>
      /\ UNCHANGED <<program, client, listening, link, up, down, msgLength,
                     printed, whole>>
  BY DEF EchoAccept, ServerGoto, AcceptNext, BufferInv
<1>2. /\ BacklogInv'
      /\ connfd' \in Clients /\ backlog' \in Seq(Clients)
      /\ \A c \in Clients :
                IF c = connfd' THEN Waits(c) /\ ~Waits(c)'
                ELSE Waits(c)' <=> Waits(c)
  BY <1>1, BacklogAccept DEF EchoTypeOK
<1>3. EchoTypeOK' /\ BytesTypeOK'
  <2>1. SocketsTypeOK'
    BY <1>1, <1>2 DEF EchoTypeOK, SocketsTypeOK
  <2>2. Len(buffer') <= MsgSize /\ buffer' \in Seq(Int)
    BY <1>1, MsgSizeAssumption
  <2>3. QED
    BY <2>1, <2>2, <1>1 DEF EchoTypeOK, BytesTypeOK
<1>4. BufferInv'
  BY <1>1, <1>2, NoneAssumption DEF BufferInv
<1>5. ASSUME NEW c \in Clients
      PROVE  PeerOK(c)'
  <2>1. PeerOK(c) /\ c # connfd
    BY <1>1, NoneAssumption
  <2>2. Unserved(c)' <=> Unserved(c)
    BY <1>1, <1>2, <2>1 DEF Unserved
  <2>3. Unanswered(c)' <=> Unanswered(c)
    BY <1>1, <2>1, <2>2 DEF Unanswered
  <2>4. QED
    BY <1>1, <2>1, <2>2, <2>3, SamePeer
<1>6. QED
  BY <1>1, <1>2, <1>3, <1>4, <1>5

LEMMA EchoReadStep == EchoInv /\ EchoRead => EchoInv'
<1> SUFFICES ASSUME EchoInv, EchoRead
             PROVE  EchoInv'
    OBVIOUS
<1> USE DEF EchoInv
<1>1. /\ server = "read" /\ server' = "write" /\ connfd # None /\ buffer = << >>
      /\ UNCHANGED <<program, connfd, client, listening, backlog, link, down,
                     msgLength, printed>>
  BY DEF EchoRead, ServerGoto, BufferInv
<1>2. PICK c \in Clients : c = connfd
  BY <1>1 DEF EchoTypeOK, SocketsTypeOK
<1>3. /\ PeerOK(c) /\ Unserved(c) /\ Unanswered(c) /\ c # None
      /\ up[c] \in {<< >>, msg(c)} /\ c \notin whole
  BY <1>1, <1>2 DEF PeerOK, Unserved, Unanswered
<1>4. /\ msgLength[c] \in 0 .. MsgSize /\ msgLength[c] \in Nat /\ MsgSize \in Nat
      /\ msg(c) \in Seq(Int) /\ Len(msg(c)) = msgLength[c]
      /\ IsWindow(msg(c), 1, msgLength[c] + 1)
  BY MessageIsWindow, MsgSizeAssumption
<1>5. up \in [Clients -> Seq(Int)] /\ whole \subseteq Clients
  BY DEF BytesTypeOK, EchoTypeOK
<1>6. /\ up' \in [Clients -> Seq(Int)]
      /\ \A d \in Clients : d # c => up'[d] = up[d]
      /\ whole' = whole \/ (whole' = whole \cup {c} /\ msgLength[c] > 0)
      /\ buffer' \in Seq(Int) /\ IsWindow(buffer', 1, Len(buffer') + 1)
      /\ Len(buffer') <= msgLength[c]
      /\ c \in whole' => Len(buffer') = msgLength[c]
  <2>1. CASE UNCHANGED <<buffer, up, whole>>
    <3>1. Len(buffer') = 0 /\ IsWindow(<< >>, 1, 1) /\ << >> \in Seq(Int)
      BY <2>1, <1>1, EmptyWindow
    <3>2. QED
      BY <3>1, <2>1, <1>1, <1>3, <1>4, <1>5
  <2>2. ASSUME NEW m \in 1 .. Len(up[connfd]),
               buffer' = SubSeq(up[connfd], 1, m) \o SubSeq(buffer, m + 1, Len(buffer)),
               up' = [up EXCEPT ![connfd] = SubSeq(@, m + 1, Len(@))],
               whole' = IF m = msgLength[connfd] THEN whole \cup {connfd} ELSE whole
        PROVE  /\ up' \in [Clients -> Seq(Int)]
               /\ \A d \in Clients : d # c => up'[d] = up[d]
               /\ whole' = whole \/ (whole' = whole \cup {c} /\ msgLength[c] > 0)
               /\ buffer' \in Seq(Int) /\ IsWindow(buffer', 1, Len(buffer') + 1)
               /\ Len(buffer') <= msgLength[c]
               /\ c \in whole' => Len(buffer') = msgLength[c]
    <3>1. up[c] = msg(c) /\ m \in 1 .. msgLength[c] /\ m \in Int
      BY <2>2, <1>2, <1>3, <1>4
    <3>2. m \in 0 .. Len(msg(c)) /\ m \in Nat
      BY <3>1, <1>4
    <3>3. /\ SubSeq(msg(c), 1, m) \in Seq(Int) /\ Len(SubSeq(msg(c), 1, m)) = m
          /\ IsWindow(SubSeq(msg(c), 1, m), 1, 1 + m)
          /\ SubSeq(msg(c), m + 1, Len(msg(c))) \in Seq(Int)
      BY <3>2, <1>4, WindowFirst, WindowRest
    <3>4. SubSeq(buffer, m + 1, Len(buffer)) = << >>
      <4>1. Len(buffer) = 0 /\ m + 1 > 0
        BY <1>1, <3>1
      <4>2. buffer \in Seq(Int)
        BY <1>1
      <4>3. Len(SubSeq(buffer, m + 1, Len(buffer))) = 0
            /\ SubSeq(buffer, m + 1, Len(buffer)) \in Seq(Int)
        BY <4>1, <4>2, <3>1
      <4>4. QED
        BY <4>3
    <3>5. buffer' = SubSeq(msg(c), 1, m)
      <4>1. \A q \in Seq(Int) : q \o << >> = q
        OBVIOUS
      <4>2. buffer' = SubSeq(msg(c), 1, m) \o << >>
        BY <3>1, <3>4, <2>2, <1>2, Zenon
      <4>3. QED
        BY <4>1, <4>2, <3>3, Zenon
    <3>6. IsWindow(buffer', 1, Len(buffer') + 1) /\ Len(buffer') = m
      <4>1. 1 + m = m + 1
        BY <3>2
      <4>2. QED
        BY <3>3, <3>5, <4>1
    <3>7. up' = [up EXCEPT ![c] = SubSeq(msg(c), m + 1, Len(msg(c)))]
      BY <2>2, <3>1, <1>2
    <3>8. up' \in [Clients -> Seq(Int)] /\ \A d \in Clients : d # c => up'[d] = up[d]
      BY <3>3, <3>7, <1>5
    <3>9. /\ whole' = whole \/ (whole' = whole \cup {c} /\ msgLength[c] > 0)
          /\ c \in whole' => m = msgLength[c]
      BY <2>2, <3>1, <1>2, <1>3, <1>4
    <3>10. QED
      BY <3>1, <3>3, <3>5, <3>6, <3>8, <3>9, <1>4
  <2>3. QED
    BY <2>1, <2>2 DEF EchoRead
<1>7. EchoTypeOK' /\ BytesTypeOK'
  <2>1. SocketsTypeOK'
    BY <1>1 DEF EchoTypeOK, SocketsTypeOK
  <2>2. Len(buffer') \in Nat /\ Len(buffer') <= MsgSize
    BY <1>4, <1>6
  <2>3. QED
    BY <2>1, <2>2, <1>1, <1>6 DEF EchoTypeOK, BytesTypeOK
<1>8. BacklogInv' /\ BufferInv'
  BY <1>1, <1>2, <1>6 DEF BacklogInv, Waits, BufferInv
<1>9. PeerOK(c)'
  <2>1. ~Unserved(c)' /\ Unanswered(c)'
    <3>1. client'[c] # "start" /\ ~Waits(c)'
      BY <1>1, <1>2 DEF BacklogInv, Waits
    <3>2. QED
      BY <3>1, <1>1, <1>2 DEF Unserved, Unanswered
  <2>2. msgLength[c] < MsgSize => AnswerOK(c)'
    BY <2>1, <1>1, <1>3 DEF PeerOK, AnswerOK
  <2>3. QED
    BY <2>1, <2>2, <1>1, <1>3, <1>6 DEF PeerOK
<1>10. ASSUME NEW d \in Clients, d # c
       PROVE  PeerOK(d)'
  <2>1. /\ PeerOK(d) /\ d # connfd /\ d # connfd'
        /\ (Waits(d)' <=> Waits(d)) /\ (d \in whole' <=> d \in whole)
        /\ up'[d] = up[d]
    BY <1>1, <1>2, <1>6, <1>10 DEF Waits
  <2>2. Unserved(d)' <=> Unserved(d)
    BY <1>1, <2>1 DEF Unserved
  <2>3. Unanswered(d)' <=> Unanswered(d)
    BY <1>1, <2>1, <2>2 DEF Unanswered
  <2>4. QED
    BY <1>1, <2>1, <2>2, <2>3, SamePeer
<1>11. QED
  BY <1>1, <1>7, <1>8, <1>9, <1>10

LEMMA EchoWriteStep == EchoInv /\ EchoWrite => EchoInv'
<1> SUFFICES ASSUME EchoInv, EchoWrite
             PROVE  EchoInv'
    OBVIOUS
<1> USE DEF EchoInv
<1>1. /\ server = "write" /\ server' = "close" /\ connfd # None
      /\ IsWindow(buffer, 1, Len(buffer) + 1)
      /\ Len(buffer) <= msgLength[connfd]
      /\ connfd \in whole => Len(buffer) = msgLength[connfd]
      /\ UNCHANGED <<program, connfd, client, listening, backlog, link, up,
                     msgLength, buffer, printed, whole>>
  BY DEF EchoWrite, ServerGoto, Deliver, BufferInv, echoVars
<1>2. PICK c \in Clients : c = connfd
  BY <1>1 DEF EchoTypeOK, SocketsTypeOK
<1>3. PICK bytes \in CString(buffer) :
         down' = IF link[c] = "open" THEN [down EXCEPT ![c] = @ \o bytes] ELSE down
  BY <1>2 DEF EchoWrite, Deliver
<1>4. /\ PeerOK(c) /\ Unanswered(c) /\ down[c] = << >> /\ link[c] # "closed"
      /\ client[c] # "done"
  BY <1>1, <1>2 DEF PeerOK, Unanswered
<1>5. /\ buffer \in Seq(Int) /\ down \in [Clients -> Seq(Int)]
      /\ msgLength[c] \in Nat /\ MsgSize \in Nat /\ Len(buffer) \in Nat
  BY MsgSizeAssumption DEF BytesTypeOK, EchoTypeOK
<1>6. bytes \in Seq(Int) /\ (Len(buffer) < MsgSize => bytes = buffer)
  BY <1>5, CStringBytes
<1>7. /\ down' \in [Clients -> Seq(Int)]
      /\ \A d \in Clients : d # c => down'[d] = down[d]
      /\ down'[c] = IF link[c] = "open" THEN bytes ELSE << >>
  <2>1. << >> \o bytes = bytes
    BY <1>6
  <2>2. CASE link[c] = "open"
    <3>1. down' = [down EXCEPT ![c] = << >> \o bytes]
      BY <2>2, <1>3, <1>4
    <3>2. down' = [down EXCEPT ![c] = bytes]
      BY <3>1, <2>1
    <3>3. QED
      BY <3>2, <2>2, <1>5, <1>6
  <2>3. CASE link[c] # "open"
    BY <2>3, <1>3, <1>4, <1>5
  <2>4. QED
    BY <2>2, <2>3
<1>8. EchoTypeOK' /\ BytesTypeOK'
  <2>1. SocketsTypeOK'
    BY <1>1 DEF EchoTypeOK, SocketsTypeOK
  <2>2. QED
    BY <2>1, <1>1, <1>7 DEF EchoTypeOK, BytesTypeOK
<1>9. BacklogInv' /\ BufferInv'
  BY <1>1 DEF BacklogInv, Waits, BufferInv
<1>10. PeerOK(c)'
  <2>1. ~Unserved(c)' /\ ~Unanswered(c)'
    <3>1. client'[c] # "start" /\ ~Waits(c)'
      BY <1>1, <1>2 DEF BacklogInv, Waits
    <3>2. QED
      BY <3>1, <1>1, <1>2 DEF Unserved, Unanswered
  <2>2. ASSUME msgLength[c] < MsgSize
        PROVE  AnswerOK(c)'
    <3>1. CASE link[c] = "open"
      <4>1. Len(buffer) < MsgSize
        BY <2>2, <1>1, <1>2, <1>5
      <4>2. down'[c] = buffer
        BY <4>1, <3>1, <1>6, <1>7
      <4>3. QED
        BY <4>2, <1>1, <1>2, <1>4 DEF AnswerOK
    <3>2. CASE link[c] # "open"
      <4>1. Len(down'[c]) = 0 /\ IsWindow(<< >>, 1, 1) /\ down'[c] = << >>
        BY <3>2, <1>7, EmptyWindow
      <4>2. QED
        BY <4>1, <3>2, <1>1, <1>4, <1>5 DEF AnswerOK
    <3>3. QED
      BY <3>1, <3>2
  <2>3. QED
    BY <2>1, <2>2, <1>1, <1>4 DEF PeerOK
<1>11. ASSUME NEW d \in Clients, d # c
       PROVE  PeerOK(d)'
  <2>1. /\ PeerOK(d) /\ d # connfd /\ d # connfd'
        /\ (Waits(d)' <=> Waits(d)) /\ down'[d] = down[d]
    BY <1>1, <1>2, <1>7, <1>11 DEF Waits
  <2>2. Unserved(d)' <=> Unserved(d)
    BY <1>1, <2>1 DEF Unserved
  <2>3. Unanswered(d)' <=> Unanswered(d)
    BY <1>1, <2>1, <2>2 DEF Unanswered
  <2>4. QED
    BY <1>1, <2>1, <2>2, <2>3, SamePeer
<1>12. QED
  BY <1>1, <1>8, <1>9, <1>10, <1>11

LEMMA EchoFailsStep == EchoInv /\ EchoFails => EchoInv'
<1> SUFFICES ASSUME EchoInv, EchoFails
             PROVE  EchoInv'
    OBVIOUS
<1> USE DEF EchoInv
<1>1. /\ server \in {"read", "write"} /\ server' = "ended"
      /\ link[connfd] \in {"reset", "left"}
      /\ listening' = FALSE /\ backlog' = << >>
      /\ link' = [c \in Clients |->
                    IF link[c] # "open" THEN link[c]
                    ELSE IF c = connfd /\ up[c] = << >> THEN "closed"
                    ELSE "reset"]
      /\ UNCHANGED <<up, down, program, connfd, client, msgLength, buffer,
                     printed, whole>>
  BY DEF EchoFails, EchoServerEnds, CloseAll, echoVars
<1>2. link \in [Clients -> {"none", "open", "closed", "left", "reset"}]
  BY DEF EchoTypeOK, SocketsTypeOK
<1>3. \A c \in Clients :
        /\ link'[c] \in {"none", "closed", "left", "reset"}
        /\ link[c] = "none" => link'[c] = "none"
        /\ link'[c] = "closed" => link[c] = "closed"
  BY <1>1, <1>2
<1>4. EchoTypeOK' /\ BytesTypeOK'
  <2>1. link' \in [Clients -> {"none", "open", "closed", "left", "reset"}]
    BY <1>1, <1>3
  <2>2. backlog' \in Seq(Clients)
    BY <1>1
  <2>3. SocketsTypeOK'
    BY <2>1, <2>2, <1>1 DEF EchoTypeOK, SocketsTypeOK
  <2>4. QED
    BY <2>3, <1>1 DEF EchoTypeOK, BytesTypeOK
<1>5. BacklogInv'
  <2>1. \A c \in Clients : client'[c] = "start" =>
           client[c] = "start" /\ (link[c] = "none" => link'[c] = "none")
    BY <1>1, <1>3
  <2>2. QED
    BY <2>1, <1>1, BacklogKept DEF EchoTypeOK
<1>6. BufferInv'
  BY <1>1 DEF BufferInv
<1>7. ASSUME NEW c \in Clients
      PROVE  PeerOK(c)'
  <2>1. PeerOK(c) /\ ~Waits(c)' /\ msg(c)' = msg(c)
    BY <1>1 DEF Waits, msg
  <2>2. Unserved(c)' => Unserved(c)
    BY <1>1, <2>1 DEF Unserved
  <2>3. Unanswered(c)' => Unanswered(c)
    BY <1>1, <2>2 DEF Unanswered
  <2>4. link'[c] = "closed" /\ Unanswered(c) => FALSE
    BY <1>3, <2>1 DEF PeerOK
  <2>5. msgLength[c] < MsgSize => AnswerOK(c)'
    BY <1>1, <1>3, <2>1, <2>4 DEF PeerOK, AnswerOK
  <2>6. QED
    BY <1>1, <1>3, <2>1, <2>2, <2>3, <2>5 DEF PeerOK
<1>8. QED
  BY <1>1, <1>4, <1>5, <1>6, <1>7

LEMMA EchoCloseStep == EchoInv /\ EchoClose => EchoInv'
<1> SUFFICES ASSUME EchoInv, EchoClose
             PROVE  EchoInv'
    OBVIOUS
<1> USE DEF EchoInv
<1>1. /\ server = "close" /\ server' = "accept" /\ connfd # None /\ connfd' = None
      /\ CloseConnection(connfd)
      /\ UNCHANGED <<program, client, listening, backlog, up, msgLength, buffer,
                     printed, whole>>
  BY DEF EchoClose, ServerGoto, CloseConnection, echoVars, BufferInv
<1>2. PICK c \in Clients : c = connfd
  BY <1>1 DEF EchoTypeOK, SocketsTypeOK
<1>3. /\ link \in [Clients -> {"none", "open", "closed", "left", "reset"}]
      /\ down \in [Clients -> Seq(Int)]
  BY DEF EchoTypeOK, SocketsTypeOK, BytesTypeOK
<1>4. \/ link' = link /\ down' = down
      \/ link' = [link EXCEPT ![c] = "closed"] /\ down' = down /\ link[c] = "open"
      \/ /\ link' = [link EXCEPT ![c] = "reset"]
         /\ \E d \in Prefixes(down[c]) : down' = [down EXCEPT ![c] = d]
         /\ link[c] = "open"
  BY <1>1, <1>2 DEF CloseConnection
<1>5. \A d \in Clients : d # c => link'[d] = link[d] /\ down'[d] = down[d]
  BY <1>3, <1>4
<1>6. \A d \in Clients :
        /\ PeerOK(d) /\ (Waits(d)' <=> Waits(d)) /\ d # connfd'
        /\ (Unserved(d)' <=> Unserved(d)) /\ (Unanswered(d)' <=> Unanswered(d))
  BY <1>1, NoneAssumption DEF Waits, Unserved, Unanswered
<1>7. ASSUME NEW d \in Clients, d # c
      PROVE  PeerOK(d)'
  BY <1>1, <1>5, <1>6, <1>7, SamePeer
<1>8. client[c] # "start" /\ ~Waits(c) /\ ~Unanswered(c)
  BY <1>1, <1>2 DEF BacklogInv, Waits, Unserved, Unanswered
<1>9. /\ PeerOK(c)' /\ down'[c] \in Seq(Int)
      /\ link'[c] \in {"none", "open", "closed", "left", "reset"}
  <2>1. CASE link' = link /\ down' = down
    <3>1. PeerOK(c)'
      BY <2>1, <1>1, <1>6, SamePeer
    <3>2. QED
      BY <3>1, <2>1, <1>3
  <2>2. CASE link' = [link EXCEPT ![c] = "closed"] /\ down' = down
             /\ link[c] = "open"
    <3>1. link'[c] = "closed" /\ PeerOK(c) /\ ~Unanswered(c)' /\ ~Unserved(c)'
      BY <2>2, <1>3, <1>6, <1>8 DEF Unanswered
    <3>2. msgLength[c] < MsgSize => AnswerOK(c)'
      BY <3>1, <2>2, <1>1, <1>8 DEF PeerOK, AnswerOK
    <3>3. PeerOK(c)'
      BY <3>1, <3>2, <2>2, <1>1 DEF PeerOK
    <3>4. QED
      BY <3>1, <3>3, <2>2, <1>3
  <2>3. CASE /\ link' = [link EXCEPT ![c] = "reset"]
             /\ \E d \in Prefixes(down[c]) : down' = [down EXCEPT ![c] = d]
    <3>1. PICK d \in Prefixes(down[c]) : down' = [down EXCEPT ![c] = d]
      BY <2>3
    <3>2. down'[c] = d /\ link'[c] = "reset"
      BY <3>1, <2>3, <1>3
    <3>3. PeerOK(c)' /\ d \in Seq(Int)
      BY <3>2, <1>1, <1>6, CutPeer
    <3>4. QED
      BY <3>2, <3>3
  <2>4. QED
    BY <2>1, <2>2, <2>3, <1>4
<1>10. /\ link' \in [Clients -> {"none", "open", "closed", "left", "reset"}]
       /\ down' \in [Clients -> Seq(Int)]
  <2>1. DOMAIN link' = Clients /\ DOMAIN down' = Clients
        /\ link' = [d \in DOMAIN link' |-> link'[d]]
        /\ down' = [d \in DOMAIN down' |-> down'[d]]
    BY <1>3, <1>4
  <2>2. \A d \in Clients :
          /\ link'[d] \in {"none", "open", "closed", "left", "reset"}
          /\ down'[d] \in Seq(Int)
    BY <1>3, <1>5, <1>9
  <2>3. QED
    BY <2>1, <2>2
<1>11. EchoTypeOK' /\ BytesTypeOK'
  <2>1. SocketsTypeOK'
    BY <1>1, <1>10 DEF EchoTypeOK, SocketsTypeOK
  <2>2. QED
    BY <2>1, <1>1, <1>10 DEF EchoTypeOK, BytesTypeOK
<1>12. BacklogInv'
  <2>1. \A d \in Clients : client'[d] = "start" =>
           client[d] = "start" /\ (link[d] = "none" => link'[d] = "none")
    BY <1>1, <1>5, <1>8
  <2>2. QED
    BY <2>1, <1>1, BacklogKept DEF EchoTypeOK
<1>13. BufferInv'
  BY <1>1 DEF BufferInv
<1>14. \A d \in Clients : PeerOK(d)'
  BY <1>7, <1>9
<1>15. QED
  BY <1>1, <1>11, <1>12, <1>13, <1>14

LEMMA EchoConnectStep ==
    ASSUME EchoInv, NEW c \in Clients, open_clientfd(c)
    PROVE  EchoInv'
<1> USE DEF EchoInv
<1>1. /\ client[c] = "start" /\ client' = [client EXCEPT ![c] = "write"]
      /\ Connect(c) /\ link' = [link EXCEPT ![c] = "open"]
      /\ UNCHANGED <<program, server, connfd, listening, up, down, msgLength,
                     buffer, printed, whole>>
  BY DEF open_clientfd, ClientGoto, Connect, echoVars
<1>2. /\ SocketsTypeOK
      /\ client \in [Clients -> {"start", "write", "read", "done", "failed", "killed"}]
      /\ link \in [Clients -> {"none", "open", "closed", "left", "reset"}]
  BY DEF EchoTypeOK, SocketsTypeOK
<1>3. client'[c] = "write" /\ link'[c] = "open"
      /\ \A d \in Clients : d # c => client'[d] = client[d] /\ link'[d] = link[d]
  BY <1>1, <1>2
<1>4. /\ BacklogInv' /\ backlog' \in Seq(Clients) /\ Waits(c)'
      /\ \A d \in Clients : d # c => (Waits(d)' <=> Waits(d))
  BY <1>1, <1>2, <1>3, BacklogConnect
<1>5. EchoTypeOK' /\ BytesTypeOK'
  <2>1. link' \in [Clients -> {"none", "open", "closed", "left", "reset"}]
        /\ client' \in [Clients -> {"start", "write", "read", "done", "failed",
                                    "killed"}]
    BY <1>1, <1>2
  <2>2. SocketsTypeOK'
    BY <2>1, <1>1, <1>2, <1>4 DEF SocketsTypeOK
  <2>3. QED
    BY <2>1, <2>2, <1>1 DEF EchoTypeOK, BytesTypeOK
<1>6. BufferInv'
  BY <1>1 DEF BufferInv
<1>7. PeerOK(c)'
  <2>1. /\ PeerOK(c) /\ Unserved(c) /\ Unanswered(c)
        /\ Unserved(c)' /\ Unanswered(c)' /\ msg(c)' = msg(c)
    BY <1>1, <1>4 DEF Unserved, Unanswered, msg
  <2>2. msgLength[c] < MsgSize => AnswerOK(c)'
    BY <2>1, <1>1, <1>3 DEF PeerOK, AnswerOK
  <2>3. QED
    BY <2>1, <2>2, <1>1, <1>3 DEF PeerOK
<1>8. ASSUME NEW d \in Clients, d # c
      PROVE  PeerOK(d)'
  <2>1. /\ PeerOK(d) /\ (Unserved(d)' <=> Unserved(d))
        /\ (Unanswered(d)' <=> Unanswered(d))
    BY <1>1, <1>3, <1>4, <1>8 DEF Unserved, Unanswered
  <2>2. QED
    BY <2>1, <1>1, <1>3, <1>8, SamePeer
<1>9. QED
  BY <1>1, <1>4, <1>5, <1>6, <1>7, <1>8

LEMMA EchoWriteMessageStep ==
    ASSUME EchoInv, NEW c \in Clients, EchoClientWrite(c)
    PROVE  EchoInv'
<1> USE DEF EchoInv
<1>1. /\ client[c] = "write" /\ client' = [client EXCEPT ![c] = "read"]
      /\ up' = [up EXCEPT ![c] = msg(c)]
      /\ UNCHANGED <<program, server, connfd, listening, backlog, link, down,
                     msgLength, buffer, printed, whole>>
  BY DEF EchoClientWrite, ClientGoto, echoVars
<1>2. /\ client \in [Clients -> {"start", "write", "read", "done", "failed", "killed"}]
      /\ up \in [Clients -> Seq(Int)] /\ msg(c) \in Seq(Int)
  BY MessageIsWindow DEF EchoTypeOK, BytesTypeOK
<1>3. /\ client'[c] = "read" /\ up'[c] = msg(c)
      /\ \A d \in Clients : d # c => client'[d] = client[d] /\ up'[d] = up[d]
      /\ up' \in [Clients -> Seq(Int)]
      /\ client' \in [Clients -> {"start", "write", "read", "done", "failed",
                                  "killed"}]
  BY <1>1, <1>2
<1>4. EchoTypeOK' /\ BytesTypeOK' /\ BufferInv'
  <2>1. SocketsTypeOK'
    BY <1>1 DEF EchoTypeOK, SocketsTypeOK
  <2>2. QED
    BY <2>1, <1>1, <1>3 DEF EchoTypeOK, BytesTypeOK, BufferInv
<1>5. BacklogInv'
  <2>1. \A d \in Clients : client'[d] = "start" =>
           client[d] = "start" /\ (link[d] = "none" => link'[d] = "none")
    BY <1>1, <1>3
  <2>2. QED
    BY <2>1, <1>1, BacklogKept DEF EchoTypeOK
<1>6. ASSUME NEW d \in Clients
      PROVE  PeerOK(d)'
  <2>1. /\ PeerOK(d) /\ (client'[d] = "done" <=> client[d] = "done")
        /\ (client'[d] = "start" <=> client[d] = "start")
        /\ up'[d] = up[d] \/ up'[d] = msg(d)
    BY <1>1, <1>3
  <2>2. Unserved(d)' <=> Unserved(d)
    BY <1>1, <2>1 DEF Unserved, Waits
  <2>3. Unanswered(d)' <=> Unanswered(d)
    BY <1>1, <2>2 DEF Unanswered
  <2>4. QED
    BY <2>1, <2>2, <2>3, <1>1, SamePeer
<1>7. QED
  BY <1>1, <1>4, <1>5, <1>6

\* A client ends without having printed anything.
LEMMA EchoLeaveStep ==
    ASSUME EchoInv, NEW c \in Clients, Leave(c),
           client[c] \in {"start", "write", "read"},
           NEW s \in {"failed", "killed"}, client' = [client EXCEPT ![c] = s],
           UNCHANGED <<program, server, connfd, echoVars>>
    PROVE  EchoInv'
<1> USE DEF EchoInv
<1>1. /\ link' = [link EXCEPT ![c] = IF @ = "none" THEN @ ELSE "left"]
      /\ down' = [down EXCEPT ![c] = << >>]
      /\ UNCHANGED <<program, server, connfd, listening, backlog, up, msgLength,
                     buffer, printed, whole>>
  BY DEF Leave, echoVars
<1>2. /\ link \in [Clients -> {"none", "open", "closed", "left", "reset"}]
      /\ down \in [Clients -> Seq(Int)]
      /\ client \in [Clients -> {"start", "write", "read", "done", "failed", "killed"}]
  BY DEF EchoTypeOK, SocketsTypeOK, BytesTypeOK
<1>3. /\ link'[c] \in {"none", "left", "reset"} /\ down'[c] = << >>
      /\ client'[c] = s
      /\ \A d \in Clients : d # c => /\ link'[d] = link[d] /\ down'[d] = down[d]
                                     /\ client'[d] = client[d]
  BY <1>1, <1>2
<1>4. /\ link' \in [Clients -> {"none", "open", "closed", "left", "reset"}]
      /\ client' \in [Clients -> {"start", "write", "read", "done", "failed",
                                  "killed"}]
      /\ down' \in [Clients -> Seq(Int)]
  <2>1. (IF link[c] = "none" THEN link[c] ELSE "left")
           \in {"none", "open", "closed", "left", "reset"}
    OBVIOUS
  <2>2. << >> \in Seq(Int)
    OBVIOUS
  <2>3. QED
    BY <2>1, <2>2, <1>1, <1>2
<1>5. EchoTypeOK' /\ BytesTypeOK' /\ BufferInv'
  <2>1. SocketsTypeOK'
    BY <1>1, <1>4 DEF EchoTypeOK, SocketsTypeOK
  <2>2. QED
    BY <2>1, <1>1, <1>4 DEF EchoTypeOK, BytesTypeOK, BufferInv
<1>6. BacklogInv'
  <2>1. \A d \in Clients : client'[d] = "start" =>
           client[d] = "start" /\ (link[d] = "none" => link'[d] = "none")
    BY <1>3
  <2>2. QED
    BY <2>1, <1>1, BacklogKept DEF EchoTypeOK
<1>7. PeerOK(c)'
  <2>1. /\ PeerOK(c) /\ client[c] # "done" /\ client'[c] # "done"
        /\ client'[c] # "start"
    BY <1>3
  <2>2. Unserved(c)' => Unserved(c)
    BY <1>1, <2>1 DEF Unserved, Waits
  <2>3. Unanswered(c)' => Unanswered(c)
    BY <1>1, <2>2 DEF Unanswered
  <2>4. << >> \in Prefixes(down[c])
    BY <1>2, WholePrefix
  <2>5. QED
    BY <2>1, <2>2, <2>3, <2>4, <1>1, <1>3, CutPeer
<1>8. ASSUME NEW d \in Clients, d # c
      PROVE  PeerOK(d)'
  <2>1. /\ PeerOK(d) /\ (Unserved(d)' <=> Unserved(d))
        /\ (Unanswered(d)' <=> Unanswered(d))
    BY <1>1, <1>3, <1>8 DEF Unserved, Unanswered, Waits
  <2>2. QED
    BY <2>1, <1>1, <1>3, <1>8, SamePeer
<1>9. QED
  BY <1>1, <1>4, <1>5, <1>6, <1>7, <1>8

LEMMA EchoClientReadStep ==
    ASSUME EchoInv, NEW c \in Clients, EchoClientRead(c)
    PROVE  EchoInv'
<1> USE DEF EchoInv
<1>1. /\ client[c] = "read" /\ client' = [client EXCEPT ![c] = "done"]
      /\ link' = [link EXCEPT ![c] = IF @ = "none" THEN @ ELSE "left"]
      /\ down' = [down EXCEPT ![c] = << >>]
      /\ UNCHANGED <<program, server, connfd, listening, backlog, up, msgLength,
                     buffer>>
  BY DEF EchoClientRead, ClientGoto, Leave
<1>2. /\ link \in [Clients -> {"none", "open", "closed", "left", "reset"}]
      /\ down \in [Clients -> Seq(Int)] /\ printed \in [Clients -> Seq(Int)]
      /\ client \in [Clients -> {"start", "write", "read", "done", "failed", "killed"}]
      /\ down[c] \in Seq(Int) /\ whole \subseteq Clients
      /\ msgLength[c] \in Nat /\ MsgSize \in Nat
  BY MsgSizeAssumption DEF EchoTypeOK, SocketsTypeOK, BytesTypeOK
<1>3. /\ link'[c] \in {"none", "left"} /\ down'[c] = << >> /\ client'[c] = "done"
      /\ \A d \in Clients : d # c => /\ link'[d] = link[d] /\ down'[d] = down[d]
                                     /\ client'[d] = client[d]
  BY <1>1, <1>2
<1>4. /\ link' \in [Clients -> {"none", "open", "closed", "left", "reset"}]
      /\ client' \in [Clients -> {"start", "write", "read", "done", "failed",
                                  "killed"}]
      /\ down' \in [Clients -> Seq(Int)]
  <2>1. (IF link[c] = "none" THEN link[c] ELSE "left")
           \in {"none", "open", "closed", "left", "reset"}
    OBVIOUS
  <2>2. << >> \in Seq(Int)
    OBVIOUS
  <2>3. QED
    BY <2>1, <2>2, <1>1, <1>2
<1>5. PeerOK(c) /\ printed[c] = << >>
  BY <1>1 DEF PeerOK
\* What it prints, of a stream that is not empty or has ended.
<1>6. /\ ~Unanswered(c)
      /\ printed' \in [Clients -> Seq(Int)]
      /\ \A d \in Clients : d # c => printed'[d] = printed[d]
      /\ whole' = whole \/ whole' = whole \ {c}
      /\ msgLength[c] < MsgSize =>
            /\ IsWindow(printed'[c], 1, Len(printed'[c]) + 1)
            /\ Len(printed'[c]) <= msgLength[c]
            /\ c \in whole' => Len(printed'[c]) = msgLength[c]
  <2>1. CASE EndOfStream(c) /\ UNCHANGED <<printed, whole>>
    <3>1. down[c] = << >> /\ link[c] = "closed"
      BY <2>1 DEF EndOfStream
    <3>2. ~Unanswered(c) /\ Len(down[c]) = 0
      BY <3>1, <1>5 DEF PeerOK
    <3>3. ASSUME msgLength[c] < MsgSize
          PROVE  c \notin whole
      BY <3>1, <3>2, <3>3, <1>2, <1>5 DEF PeerOK, AnswerOK
    <3>4. Len(printed'[c]) = 0 /\ printed'[c] = << >> /\ IsWindow(<< >>, 1, 1)
      BY <2>1, <1>5, EmptyWindow
    <3>5. QED
      BY <3>2, <3>3, <3>4, <2>1, <1>2
  <2>2. ASSUME NEW m \in 1 .. Len(down[c]),
               NEW bytes \in CString(SubSeq(down[c], 1, m)),
               printed' = [printed EXCEPT ![c] = bytes],
               whole' = IF m = msgLength[c] THEN whole ELSE whole \ {c}
        PROVE  /\ ~Unanswered(c)
               /\ printed' \in [Clients -> Seq(Int)]
               /\ \A d \in Clients : d # c => printed'[d] = printed[d]
               /\ whole' = whole \/ whole' = whole \ {c}
               /\ msgLength[c] < MsgSize =>
                     /\ IsWindow(printed'[c], 1, Len(printed'[c]) + 1)
                     /\ Len(printed'[c]) <= msgLength[c]
                     /\ c \in whole' => Len(printed'[c]) = msgLength[c]
    <3>1. down[c] # << >> /\ m \in Nat /\ m <= Len(down[c]) /\ Len(down[c]) \in Nat
          /\ m \in 0 .. Len(down[c]) /\ m > 0
      BY <1>2
    <3>2. ~Unanswered(c)
      BY <3>1, <1>5 DEF PeerOK
    <3>3. SubSeq(down[c], 1, m) \in Seq(Int) /\ Len(SubSeq(down[c], 1, m)) = m
      BY <3>1, <1>2
    <3>4. bytes \in Seq(Int) /\ (m < MsgSize => bytes = SubSeq(down[c], 1, m))
      BY <3>3, CStringBytes
    <3>5. ASSUME msgLength[c] < MsgSize
          PROVE  /\ IsWindow(bytes, 1, Len(bytes) + 1)
                 /\ Len(bytes) = m /\ m <= msgLength[c]
      <4>1. IsWindow(down[c], 1, Len(down[c]) + 1) /\ Len(down[c]) <= msgLength[c]
        BY <3>5, <1>5 DEF PeerOK, AnswerOK
      <4>2. m <= msgLength[c] /\ m < MsgSize
        BY <4>1, <3>1, <3>5, <1>2
      <4>3. bytes = SubSeq(down[c], 1, m)
        BY <4>2, <3>4
      <4>4. IsWindow(SubSeq(down[c], 1, m), 1, 1 + m)
        <5>1. 1 \in Int /\ Len(down[c]) + 1 \in Int
          BY <3>1
        <5>2. QED
          BY <5>1, <4>1, <3>1, <1>2, WindowFirst
      <4>5. 1 + m = Len(bytes) + 1
        BY <4>3, <3>1, <3>3
      <4>6. QED
        BY <4>2, <4>3, <4>4, <4>5, <3>3
    <3>6. printed'[c] = bytes /\ printed' \in [Clients -> Seq(Int)]
          /\ \A d \in Clients : d # c => printed'[d] = printed[d]
      BY <2>2, <3>4, <1>2
    <3>7. c \in whole' => m = msgLength[c]
      BY <2>2
    <3>8. QED
      BY <3>2, <3>5, <3>6, <3>7, <2>2
  <2>3. QED
    BY <2>1, <2>2 DEF EchoClientRead
<1>7. EchoTypeOK' /\ BytesTypeOK'
  <2>1. SocketsTypeOK'
    BY <1>1, <1>4 DEF EchoTypeOK, SocketsTypeOK
  <2>2. QED
    BY <2>1, <1>1, <1>2, <1>4, <1>6 DEF EchoTypeOK, BytesTypeOK
<1>8. BacklogInv'
  <2>1. \A d \in Clients : client'[d] = "start" =>
           client[d] = "start" /\ (link[d] = "none" => link'[d] = "none")
    BY <1>3
  <2>2. QED
    BY <2>1, <1>1, BacklogKept DEF EchoTypeOK
<1>9. BufferInv'
  BY <1>1, <1>6 DEF BufferInv
<1>10. PeerOK(c)'
  <2>1. ~Unanswered(c)' /\ ~Unserved(c)'
    BY <1>1, <1>3, <1>6 DEF Unanswered, Unserved, Waits
  <2>2. Len(down'[c]) = 0 /\ IsWindow(<< >>, 1, 1)
    BY <1>3, EmptyWindow
  <2>3. msgLength[c] < MsgSize => AnswerOK(c)'
    BY <2>1, <2>2, <1>1, <1>2, <1>3, <1>6 DEF AnswerOK
  <2>4. QED
    BY <2>1, <2>3, <1>1, <1>3, <1>5, <1>6 DEF PeerOK
<1>11. ASSUME NEW d \in Clients, d # c
       PROVE  PeerOK(d)'
  <2>1. /\ PeerOK(d) /\ (Unserved(d)' <=> Unserved(d))
        /\ (Unanswered(d)' <=> Unanswered(d))
    BY <1>1, <1>3, <1>11 DEF Unserved, Unanswered, Waits
  <2>2. d \in whole' <=> d \in whole
    BY <1>6, <1>11
  <2>3. QED
    BY <2>1, <2>2, <1>1, <1>3, <1>6, <1>11, SamePeer
<1>12. QED
  BY <1>1, <1>7, <1>8, <1>9, <1>10, <1>11

LEMMA EchoResetStep ==
    ASSUME EchoInv, NEW c \in Clients, Reset(c), UNCHANGED echoVars
    PROVE  EchoInv'
<1> USE DEF EchoInv
<1>1. /\ link[c] = "open" /\ link' = [link EXCEPT ![c] = "reset"]
      /\ UNCHANGED <<program, server, connfd, client, listening, backlog, up,
                     msgLength, buffer, printed, whole>>
  BY DEF Reset, processVars, echoVars
<1>2. PICK e \in Prefixes(down[c]) : down' = [down EXCEPT ![c] = e]
  BY DEF Reset
<1>3. /\ link \in [Clients -> {"none", "open", "closed", "left", "reset"}]
      /\ down \in [Clients -> Seq(Int)]
  BY DEF EchoTypeOK, SocketsTypeOK, BytesTypeOK
<1>4. /\ link'[c] = "reset" /\ down'[c] = e
      /\ \A d \in Clients : d # c => link'[d] = link[d] /\ down'[d] = down[d]
  BY <1>1, <1>2, <1>3
<1>5. \A d \in Clients :
        /\ PeerOK(d) /\ (Unserved(d)' <=> Unserved(d))
        /\ (Unanswered(d)' <=> Unanswered(d))
  BY <1>1 DEF Unserved, Unanswered, Waits
<1>6. PeerOK(c)' /\ e \in Seq(Int)
  BY <1>1, <1>4, <1>5, CutPeer
<1>7. ASSUME NEW d \in Clients, d # c
      PROVE  PeerOK(d)'
  BY <1>1, <1>4, <1>5, <1>7, SamePeer
<1>8. /\ link' \in [Clients -> {"none", "open", "closed", "left", "reset"}]
      /\ down' \in [Clients -> Seq(Int)]
  BY <1>1, <1>2, <1>3, <1>6
<1>9. EchoTypeOK' /\ BytesTypeOK' /\ BufferInv'
  <2>1. SocketsTypeOK'
    BY <1>1, <1>8 DEF EchoTypeOK, SocketsTypeOK
  <2>2. QED
    BY <2>1, <1>1, <1>8 DEF EchoTypeOK, BytesTypeOK, BufferInv
<1>10. BacklogInv'
  <2>1. \A d \in Clients : client'[d] = "start" =>
           client[d] = "start" /\ (link[d] = "none" => link'[d] = "none")
    BY <1>1, <1>4
  <2>2. QED
    BY <2>1, <1>1, BacklogKept DEF EchoTypeOK
<1>11. \A d \in Clients : PeerOK(d)'
  BY <1>6, <1>7
<1>12. QED
  BY <1>1, <1>9, <1>10, <1>11

LEMMA EchoStep ==
    EchoInv /\ (EchoServer \/ (\E c \in Clients : EchoClient(c)) \/ EchoFault)
        => EchoInv'
<1> SUFFICES ASSUME EchoInv
             PROVE  /\ EchoServer => EchoInv'
                    /\ \A c \in Clients : EchoClient(c) => EchoInv'
                    /\ EchoFault => EchoInv'
    OBVIOUS
<1>1. ASSUME EchoServer
      PROVE  EchoInv'
  BY <1>1, EchoListenStep, EchoAcceptStep, EchoReadStep, EchoWriteStep,
     EchoFailsStep, EchoCloseStep DEF EchoServer
<1>2. ASSUME NEW c \in Clients, EchoClientFails(c)
      PROVE  EchoInv'
  <2>1. /\ Leave(c) /\ client[c] \in {"start", "write", "read"}
        /\ client' = [client EXCEPT ![c] = "failed"]
        /\ UNCHANGED <<program, server, connfd, echoVars>>
    BY <1>2 DEF EchoClientFails
  <2>2. QED
    BY <2>1, EchoLeaveStep
<1>3. ASSUME NEW c \in Clients, EchoKill(c)
      PROVE  EchoInv'
  <2>1. /\ Leave(c) /\ client[c] \in {"start", "write", "read"}
        /\ client' = [client EXCEPT ![c] = "killed"]
        /\ UNCHANGED <<program, server, connfd, echoVars>>
    BY <1>3 DEF EchoKill
  <2>2. QED
    BY <2>1, EchoLeaveStep
<1>4. ASSUME NEW c \in Clients, EchoClient(c)
      PROVE  EchoInv'
  BY <1>2, <1>4, EchoConnectStep, EchoWriteMessageStep, EchoClientReadStep
     DEF EchoClient
<1>5. ASSUME EchoFault
      PROVE  EchoInv'
  BY <1>3, <1>5, EchoResetStep DEF EchoFault
<1>6. QED
  BY <1>1, <1>4, <1>5
-----------------------------------------------------------------------------
(***************************************************************************)
(* The theorems.                                                           *)
(***************************************************************************)
\* The state of the pair that is not run.
NoTransfer ==
    /\ size \in Sizes \cup {NoFile} /\ offset = 0 /\ total = 0 /\ sent = 0 /\ n = 0
    /\ got = [c \in Clients |-> << >>] /\ partial = 0 /\ overran = {}

NoEcho == msgLength \in [Clients -> 0 .. MsgSize] /\ buffer = << >> /\ whole = {}

IInv == (TransferInv /\ NoEcho) \/ (EchoInv /\ NoTransfer)

LEMMA InitInv == Init => IInv
<1> SUFFICES ASSUME Init
             PROVE  IInv
    OBVIOUS
<1> USE DEF Init
<1>1. /\ server = "start" /\ connfd = None /\ client = [c \in Clients |-> "start"]
      /\ listening = FALSE /\ backlog = << >>
      /\ link = [c \in Clients |-> "none"]
      /\ up = [c \in Clients |-> << >>] /\ down = [c \in Clients |-> << >>]
      /\ program \in {"transfer", "echo"}
  BY DEF SocketsInit
<1>2. Len(backlog) = 0 /\ backlog \in Seq(Clients) /\ << >> \in Seq(Int)
  <2>1. << >> \in Seq(Clients) /\ << >> \in Seq(Int) /\ Len(<< >>) = 0
    OBVIOUS
  <2>2. QED
    BY <2>1, <1>1
<1>3. \A c \in Clients : ~Waits(c)
  <2>1. 1 .. Len(backlog) = {}
    BY <1>2
  <2>2. QED
    BY <2>1 DEF Waits
<1>4. BacklogInv
  BY <1>1, <1>2, <1>3, NoneAssumption DEF BacklogInv
<1>5. SocketsTypeOK
  BY <1>1, <1>2 DEF SocketsTypeOK
<1>6. NoTransfer
  BY DEF NoTransfer, TransferInit
<1>7. NoEcho
  BY DEF NoEcho, EchoInit
<1>8. CASE program = "transfer"
  <2>1. TransferTypeOK
    <3>1. /\ 0 \in Nat /\ 0 \in 0 .. Chunk /\ 0 \in -1 .. Chunk
          /\ 0 \in -1 .. 2 * Chunk + MaxExcess /\ 0 \in 0 .. MaxPartial
      BY ChunkAssumption, TransferBounds
    <3>2. server = "start" /\ client \in [Clients -> {"start", "recv", "complete",
                                                      "broken", "killed"}]
      BY <1>1
    <3>3. ~(offset > 0)
      BY <1>6 DEF NoTransfer
    <3>4. QED
      BY <3>1, <3>2, <3>3, <1>5, <1>6 DEF NoTransfer, TransferTypeOK
  <2>2. StreamTypeOK /\ ChunkInv
    BY <1>1, <1>2, <1>6 DEF NoTransfer, StreamTypeOK, ChunkInv
  <2>3. ASSUME NEW c \in Clients
        PROVE  ClientOK(c)
    <3>1. /\ got[c] = << >> /\ down[c] = << >> /\ link[c] = "none"
          /\ client[c] = "start" /\ overran = {}
      BY <1>1, <1>6 DEF NoTransfer
    <3>2. Len(got[c]) = 0 /\ Len(down[c]) = 0 /\ IsWindow(<< >>, 1, 1)
      BY <3>1, EmptyWindow
    <3>3. Copied(c) = 0
      BY <3>2 DEF Copied
    <3>4. StreamOK(c)
      BY <3>1, <3>2, <3>3 DEF StreamOK
    <3>5. FreshOK(c)
      BY <3>1 DEF FreshOK
    <3>6. QED
      BY <3>4, <3>5 DEF ClientOK
  <2>4. QED
    BY <2>1, <2>2, <2>3, <1>4, <1>7, <1>8 DEF TransferInv, IInv
<1>9. CASE program = "echo"
  <2>1. /\ buffer = << >> /\ printed = [c \in Clients |-> << >>] /\ whole = {}
        /\ msgLength \in [Clients -> 0 .. MsgSize]
    BY DEF EchoInit
  <2>2. EchoTypeOK
    <3>1. Len(buffer) = 0 /\ 0 <= MsgSize
      BY <2>1, MsgSizeAssumption
    <3>2. server = "start" /\ client \in [Clients -> {"start", "write", "read",
                                                      "done", "failed", "killed"}]
      BY <1>1
    <3>3. Len(buffer) <= MsgSize
      BY <3>1
    <3>4. QED
      BY <3>2, <3>3, <2>1, <1>5 DEF EchoTypeOK
  <2>3. BytesTypeOK /\ BufferInv
    BY <2>1, <1>1, <1>2 DEF BytesTypeOK, BufferInv
  <2>4. ASSUME NEW c \in Clients
        PROVE  PeerOK(c)
    <3>1. /\ up[c] = << >> /\ down[c] = << >> /\ link[c] = "none"
          /\ client[c] = "start" /\ printed[c] = << >> /\ c \notin whole
          /\ msgLength[c] \in 0 .. MsgSize
      BY <2>1, <1>1
    <3>2. Len(down[c]) = 0 /\ IsWindow(<< >>, 1, 1) /\ 0 <= msgLength[c]
      BY <3>1, EmptyWindow, MsgSizeAssumption
    <3>3. AnswerOK(c)
      BY <3>1, <3>2 DEF AnswerOK
    <3>4. QED
      BY <3>1, <3>3 DEF PeerOK
  <2>5. QED
    BY <2>2, <2>3, <2>4, <1>4, <1>6, <1>9 DEF EchoInv, IInv
<1>10. QED
  BY <1>1, <1>8, <1>9

LEMMA StepInv == IInv /\ [Next]_vars => IInv'
<1> SUFFICES ASSUME IInv, [Next]_vars
             PROVE  IInv'
    OBVIOUS
<1>1. CASE UNCHANGED vars
  <2>1. /\ UNCHANGED <<program, server, connfd, client>>
        /\ UNCHANGED <<listening, backlog, link, up, down>>
        /\ UNCHANGED <<size, offset, total, sent, n, got, partial, overran>>
        /\ UNCHANGED <<msgLength, buffer, printed, whole>>
    BY <1>1 DEF vars, processVars, socketVars, transferVars, chunkVars, echoVars
  <2>2. TransferInv => TransferInv'
    <3>1. TransferTypeOK => TransferTypeOK'
      BY <2>1 DEF TransferTypeOK, SocketsTypeOK
    <3>2. ASSUME NEW c \in Clients, ClientOK(c)
          PROVE  ClientOK(c)'
      BY <3>2, <2>1 DEF ClientOK, FreshOK, StreamOK, Copied, Position, EndedWith,
                        Waits
    <3>3. QED
      BY <3>1, <3>2, <2>1 DEF TransferInv, StreamTypeOK, BacklogInv, Waits,
                              ChunkInv
  <2>3. EchoInv => EchoInv'
    <3>1. EchoTypeOK => EchoTypeOK'
      BY <2>1 DEF EchoTypeOK, SocketsTypeOK
    <3>2. ASSUME NEW c \in Clients, PeerOK(c)
          PROVE  PeerOK(c)'
      BY <3>2, <2>1 DEF PeerOK, AnswerOK, Unserved, Unanswered, Waits, msg
    <3>3. QED
      BY <3>1, <3>2, <2>1 DEF EchoInv, BytesTypeOK, BacklogInv, Waits, BufferInv
  <2>4. (NoEcho => NoEcho') /\ (NoTransfer => NoTransfer')
    BY <2>1 DEF NoEcho, NoTransfer
  <2>5. QED
    BY <2>2, <2>3, <2>4 DEF IInv
<1>2. CASE Next /\ TransferInv /\ NoEcho
  <2>1. \/ UNCHANGED vars
        \/ /\ TransferServer \/ (\E c \in Clients : TransferClient(c)) \/ TransferFault
           /\ UNCHANGED echoVars
    BY <1>2 DEF Next, ServerStep, ClientStep, Fault, Idle, TransferInv
  <2>2. CASE /\ TransferServer \/ (\E c \in Clients : TransferClient(c)) \/ TransferFault
             /\ UNCHANGED echoVars
    <3>1. TransferInv'
      BY <2>2, <1>2, TransferStep
    <3>2. NoEcho'
      BY <2>2, <1>2 DEF NoEcho, echoVars
    <3>3. QED
      BY <3>1, <3>2 DEF IInv
  <2>3. QED
    BY <2>1, <2>2, <1>1
<1>3. CASE Next /\ EchoInv /\ NoTransfer
  <2>1. \/ UNCHANGED vars
        \/ /\ EchoServer \/ (\E c \in Clients : EchoClient(c)) \/ EchoFault
           /\ UNCHANGED transferVars
    BY <1>3 DEF Next, ServerStep, ClientStep, Fault, Idle, EchoInv
  <2>2. CASE /\ EchoServer \/ (\E c \in Clients : EchoClient(c)) \/ EchoFault
             /\ UNCHANGED transferVars
    <3>1. EchoInv'
      BY <2>2, <1>3, EchoStep
    <3>2. NoTransfer'
      BY <2>2, <1>3 DEF NoTransfer, transferVars, chunkVars
    <3>3. QED
      BY <3>1, <3>2 DEF IInv
  <2>3. QED
    BY <2>1, <2>2, <1>1
<1>4. QED
  BY <1>1, <1>2, <1>3 DEF IInv

\* The inductive invariant of the pair that is run (transferserver.c and
\* transferclient.c, or echoserver.c and echoclient.c).
THEOREM Invariance == Spec => []IInv
<1>1. QED
  BY InitInv, StepInv, PTL DEF Spec

LEMMA InvCopy == IInv => CopyIsExact
<1>1. ASSUME TransferInv
      PROVE  CopyIsExact
  <2> USE DEF TransferInv
  <2>1. TransferTypeOK /\ size \in Int
    BY <1>1, SizesAssumption DEF TransferTypeOK, NoFile
  <2>2. ASSUME NEW c \in Clients \ overran
        PROVE  /\ got[c] \in Prefixes([k \in 1 .. size |-> k])
               /\ client[c] = "complete" =>
                     Len(got[c]) = size \/ (server = "ended" /\ connfd = c)
    <3>1. /\ got[c] \in Seq(Int) /\ down[c] \in Seq(Int)
          /\ Len(got[c]) \in Nat /\ Len(down[c]) \in Nat
          /\ Len(got[c]) + Len(down[c]) \in Nat
      BY <1>1, ConcatLength DEF StreamTypeOK
    <3>2. StreamOK(c)
      BY <1>1 DEF ClientOK
    <3>3. IsWindow(got[c], 1, Len(got[c]) + 1)
          /\ (Copied(c) > 0 => Copied(c) <= size)
      BY <3>2 DEF StreamOK
    <3>4. Len(got[c]) > 0 => Len(got[c]) <= size
      <4>1. \A x, y \in Nat : x > 0 => x + y > 0 /\ x <= x + y
        OBVIOUS
      <4>2. Len(got[c]) > 0 => Copied(c) > 0 /\ Len(got[c]) <= Copied(c)
        BY <4>1, <3>1 DEF Copied
      <4>3. Copied(c) \in Int /\ Len(got[c]) \in Int
        BY <3>1 DEF Copied
      <4>4. QED
        BY <4>2, <4>3, <3>3, <2>1
    <3>5. got[c] \in Prefixes([k \in 1 .. size |-> k])
      BY <3>1, <3>3, <3>4, <2>1, WindowPrefix
    <3>6. QED
      BY <3>2, <3>5 DEF StreamOK, EndedWith
  <2>3. QED
    BY <2>1, <2>2 DEF CopyIsExact
<1>2. ASSUME EchoInv, NoTransfer
      PROVE  CopyIsExact
  <2>1. TransferTypeOK
    <3>1. /\ 0 \in Nat /\ 0 \in 0 .. Chunk /\ 0 \in -1 .. Chunk
          /\ 0 \in -1 .. 2 * Chunk + MaxExcess /\ 0 \in 0 .. MaxPartial
          /\ ~(0 > 0)
      BY ChunkAssumption, TransferBounds
    <3>2. SocketsTypeOK /\ program = "echo"
      BY <1>2 DEF EchoInv, EchoTypeOK
    <3>3. QED
      BY <3>1, <3>2, <1>2 DEF NoTransfer, TransferTypeOK
  <2>2. size \in Int
    BY <2>1, SizesAssumption DEF TransferTypeOK, NoFile
  <2>3. ASSUME NEW c \in Clients
        PROVE  /\ got[c] \in Prefixes([k \in 1 .. size |-> k])
               /\ client[c] # "complete"
    <3>1. got[c] = << >> /\ << >> \in Seq(Int) /\ IsWindow(<< >>, 1, 1)
      BY <1>2, EmptyWindow DEF NoTransfer
    <3>2. Len(<< >>) = 0
      OBVIOUS
    <3>3. << >> \in Prefixes([k \in 1 .. size |-> k])
      <4>1. PICK q \in Seq(Int) : q = << >>
        BY <3>1
      <4>2. IsWindow(q, 1, Len(q) + 1) /\ (Len(q) > 0 => Len(q) <= size)
        <5>1. Len(q) = 0 /\ IsWindow(q, 1, 1)
          BY <4>1, <3>1, <3>2
        <5>2. QED
          BY <5>1
      <4>3. QED
        BY <4>1, <4>2, <2>2, WindowPrefix
    <3>4. client[c] # "complete"
      BY <1>2 DEF EchoInv, EchoTypeOK
    <3>5. QED
      BY <3>1, <3>3, <3>4
  <2>4. QED
    BY <2>1, <2>3 DEF CopyIsExact
<1>3. QED
  BY <1>1, <1>2 DEF IInv

\* However the sends of transferserver.c are cut, whoever was served before and
\* whoever vanishes: what a client of transferclient.c has appended is the
\* beginning of the file, all of it if it was told of the end of the stream;
\* unless the loop for the rest of a chunk overran.
THEOREM CopyCorrect == Spec => []CopyIsExact
<1>1. QED
  BY Invariance, InvCopy, PTL

LEMMA InvEcho == IInv => EchoIsOwnMessage
<1>1. ASSUME TransferInv, NoEcho
      PROVE  EchoIsOwnMessage
  <2>1. SocketsTypeOK /\ program = "transfer" /\ \A c \in Clients : client[c] # "done"
    BY <1>1 DEF TransferInv, TransferTypeOK
  <2>2. Len(<< >>) = 0 /\ 0 <= MsgSize
    BY MsgSizeAssumption
  <2>3. Len(buffer) <= MsgSize
    BY <2>2, <1>1 DEF NoEcho
  <2>4. QED
    BY <2>1, <2>3, <1>1 DEF NoEcho, EchoIsOwnMessage, EchoTypeOK
<1>2. ASSUME EchoInv
      PROVE  EchoIsOwnMessage
  <2> USE DEF EchoInv
  <2>1. ASSUME NEW c \in Clients, client[c] = "done", msgLength[c] < MsgSize
        PROVE  /\ printed[c] \in Prefixes(msg(c))
               /\ c \in whole => printed[c] = msg(c)
    <3>1. /\ printed[c] \in Seq(Int) /\ msgLength[c] \in Int
          /\ Len(printed[c]) \in Nat
          /\ msg(c) \in Seq(Int) /\ Len(msg(c)) = msgLength[c]
          /\ IsWindow(msg(c), 1, msgLength[c] + 1)
      <4>1. printed[c] \in Seq(Int)
        BY <1>2 DEF BytesTypeOK
      <4>2. EchoTypeOK
        BY <1>2
      <4>3. /\ msgLength[c] \in 0 .. MsgSize
            /\ msg(c) \in Seq(Int) /\ Len(msg(c)) = msgLength[c]
            /\ IsWindow(msg(c), 1, msgLength[c] + 1)
        BY <4>2, MessageIsWindow
      <4>4. QED
        BY <4>1, <4>3
    <3>2. /\ IsWindow(printed[c], 1, Len(printed[c]) + 1)
          /\ Len(printed[c]) <= msgLength[c]
          /\ c \in whole => Len(printed[c]) = msgLength[c]
      BY <1>2, <2>1 DEF PeerOK, AnswerOK
    <3>3. printed[c] \in Prefixes(msg(c))
      BY <3>1, <3>2, WindowPrefix DEF msg
    <3>4. ASSUME c \in whole
          PROVE  printed[c] = msg(c)
      <4>1. Len(printed[c]) = Len(msg(c))
        BY <3>1, <3>2, <3>4
      <4>2. \A k \in 1 .. Len(printed[c]) : printed[c][k] = msg(c)[k]
        BY <3>1, <3>2, <4>1 DEF IsWindow
      <4>3. QED
        BY <3>1, <4>1, <4>2, SeqEqual
    <3>5. QED
      BY <3>3, <3>4
  <2>2. QED
    BY <1>2, <2>1 DEF EchoIsOwnMessage
<1>3. QED
  BY <1>1, <1>2 DEF IInv

\* A client of echoclient.c prints nothing but its own message, or the
\* beginning of it, of which it prints all if both reads got all.
THEOREM EchoCorrect == Spec => []EchoIsOwnMessage
<1>1. QED
  BY Invariance, InvEcho, PTL
=============================================================================
