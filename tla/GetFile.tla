------------------------------- MODULE GetFile -------------------------------
(***************************************************************************)
(* One GETFILE exchange: gfc_perform of "Client Server Lab/gflib/          *)
(* gfclient.c" against gfserver_serve of gfserver.c with the handler_get   *)
(* of handler.c, over a TCP connection whose recv returns any part of what *)
(* has arrived and which can be reset.                                     *)
(*                                                                         *)
(* A request or a header is a sequence of the pieces a recv can be cut     *)
(* into so that the parsers tell the prefixes apart; after the length of a *)
(* header every piece is one byte, as the client's position arithmetic     *)
(* needs.                                                                  *)
(***************************************************************************)
EXTENDS Integers, Sequences

CONSTANTS FileLength, \* bytes in each file served
          Chunk,      \* bytes that handler_get reads at a time, BUFFER_SIZE
          Spaced      \* the server puts a space before the end of a header

ASSUME LengthAssumption == FileLength \in 0 .. 99
ASSUME ChunkAssumption  == Chunk \in Nat \ {0}
ASSUME SpacedAssumption == Spaced \in BOOLEAN

VARIABLES
    client,      \* control state of gfc_perform
    rc,          \* what it returned
    status,      \* gfr->status
    filelen,     \* gfr->filelen
    bytes,       \* gfr->bytesreceived
    written,     \* what writefunc was given
    request,     \* pieces of the request the server has not received
    finished,    \* the client has shut down its sending side
    server,      \* control state of gfserver_serve
    path,        \* the path parse_request found
    content,     \* the keys of the content file: the path asked for, or
                 \*   another that is a prefix of it
    offset,      \* bytes_transferred of handler_get
    wire,        \* pieces on their way to the client
    conn,        \* "open", "closed" by the server or "reset"
    wholeRequest, wholeHeader  \* history: one recv returned all of it

clientVars  == <<client, rc, status, filelen, bytes, written>>
requestVars == <<request, finished>>
serverVars  == <<server, path, offset>>
wireVars    == <<wire, conn>>
history     == <<wholeRequest, wholeHeader>>
vars == <<clientVars, requestVars, serverVars, content, wireVars, history>>

\* "GETFILE GET <path>\r\n\r\n", each word in two pieces.
RequestPieces == <<"GET", "FILE", "GE", "T", "pa", "th", "end">>

Piece(s) == <<s, 0>>
Schema   == <<Piece("GET"), Piece("FILE")>>

\* What ends a header: with the space that ok_header_template and
\* invalid_header_template of gfserver.c put there, or without.
EndOfHeader ==
    (IF Spaced THEN <<Piece(" ")>> ELSE << >>)
      \o << <<"CR", 1>>, <<"LF", 1>>, <<"CR", 2>>, <<"LF", 2>> >>

\* The length in decimal: each digit with the value up to it.
Length ==
    (IF FileLength < 10 THEN << >> ELSE << <<"digit", FileLength \div 10>> >>)
      \o << <<"digit", FileLength>> >>

OkHeader ==
    Schema \o <<Piece("O"), Piece("OK")>> \o Length \o EndOfHeader

NotFoundHeader ==
    Schema \o <<Piece("FILE_NOT"), Piece("FILE_NOT_FOUND")>> \o EndOfHeader

\* Bytes first .. last of the file that a path names.
FileBytes(p, first, last) == [n \in 1 .. last - first + 1 |-> <<p, first + n - 1>>]

Init ==
    /\ client = "connect"
    /\ rc = 0
    /\ status = "OK"                  \* bzero: GF_OK is 0
    /\ filelen = 0
    /\ bytes = 0
    /\ written = << >>
    /\ request = << >>
    /\ finished = FALSE
    /\ server = "accept"
    /\ path = "none"
    /\ content \in SUBSET {"path", "prefix"}
    /\ offset = 0
    /\ wire = << >>
    /\ conn = "open"
    /\ wholeRequest = FALSE
    /\ wholeHeader = FALSE
-----------------------------------------------------------------------------
(***************************************************************************)
(* gfc_perform.                                                            *)
(***************************************************************************)
Return(code, s) ==
    /\ client' = "closed"
    /\ rc' = code
    /\ status' = s

Connect ==
    /\ client = "connect"
    /\ conn = "open"
    /\ client' = "send"
    /\ UNCHANGED <<rc, status, filelen, bytes, written, requestVars,
                   serverVars, content, wireVars, history>>

ConnectFails ==
    /\ client = "connect"
    /\ Return(-1, "ERROR")
    /\ UNCHANGED <<filelen, bytes, written, requestVars, serverVars, content,
                   wireVars, history>>

\* send_request and shutdown.  A send that fails makes the unsigned count of
\* bytes sent huge: the loop ends and the request passes for sent.
SendRequest ==
    /\ client = "send"
    /\ client' = "header"
    /\ request' = IF conn = "open" THEN RequestPieces ELSE << >>
    /\ finished' = TRUE
    /\ UNCHANGED <<rc, status, filelen, bytes, written, serverVars, content,
                   wireVars, history>>

\* What parse_header makes of the n pieces its only recv returned: the
\* possible results, one but for the cases whose behaviour is undefined.
Result(ret, s, len, data) ==
    [ret |-> ret, status |-> s, filelen |-> len, data |-> data]

Invalid == Result("fail", "INVALID", 0, << >>)
Crash   == Result("crash", "OK", 0, << >>)

\* Faulty: the status is not looked at before data is written.
NoLengthAny(s) == Result("go on", s, 0, <<Piece("header text")>>)

\* sscanf filled no length, so that the position of its end is still 0: the
\* header's own text after its fourth byte is taken for file data.
NoLength(s) ==
    Result("go on", s, 0, IF s = "OK" THEN <<Piece("header text")>> ELSE << >>)

Digits(segment) ==
    {n \in 1 .. Len(segment) : segment[n][1] = "digit"}

\* The data is what comes 4 bytes after the length.  With fewer than 4 there
\* the unsigned difference wraps, and writefunc reads past the buffer.
AfterLength(segment, end) ==
    LET rest == Len(segment) - end
        len  == segment[end][2]
    IN  IF rest = 0 THEN Result("go on", "OK", len, << >>)
        ELSE IF rest < 4 THEN Crash
        ELSE Result("go on", "OK", len, SubSeq(segment, end + 5, Len(segment)))

ParseHeader(segment) ==
    LET n == Len(segment)
    IN  IF n \in {1, 3} THEN {Invalid}
        ELSE IF n = 2        \* str_status was never written
        THEN {Invalid} \cup {NoLength(s) : s \in {"OK", "FILE_NOT_FOUND", "ERROR"}}
        ELSE IF segment[4] # Piece("OK") \/ Digits(segment) = {}
        THEN {NoLength(segment[4][1])}
        ELSE {AfterLength(segment, CHOOSE d \in Digits(segment) :
                                       \A e \in Digits(segment) : e <= d)}

RecvHeader ==
    /\ client = "header"
    /\ \E n \in 1 .. Len(wire) :
         LET segment == SubSeq(wire, 1, n)
         IN  /\ \E r \in ParseHeader(segment) :
                  /\ IF r.ret = "fail"
                     THEN Return(-1, r.status)
                     ELSE /\ client' = IF r.ret = "crash" THEN "crashed"
                                       ELSE "body"
                          /\ status' = r.status
                          /\ UNCHANGED rc
                  /\ filelen' = r.filelen
                  /\ written' = r.data
                  /\ bytes' = Len(r.data)
             /\ wholeHeader' = \E k \in 1 .. n : segment[k] = <<"LF", 2>>
             /\ wire' = SubSeq(wire, n + 1, Len(wire))
    /\ UNCHANGED <<requestVars, serverVars, content, conn, wholeRequest>>

NothingMore == wire = << >> /\ conn # "open"

\* 0 bytes, or -1: the count is unsigned, so -1 is not seen as an error, but
\* the buffer is still empty and sscanf reports the end of input.
NoHeader ==
    /\ client = "header"
    /\ NothingMore
    /\ Return(-1, "INVALID")
    /\ UNCHANGED <<filelen, bytes, written, requestVars, serverVars, content,
                   wireVars, history>>

\* The loop of parse_chunk, and close.
Transferring == client = "body" /\ status = "OK" /\ bytes < filelen

RecvChunk ==
    /\ Transferring
    /\ \E n \in 1 .. Len(wire) :
         /\ written' = written \o SubSeq(wire, 1, n)
         /\ bytes' = bytes + n
         /\ wire' = SubSeq(wire, n + 1, Len(wire))
    /\ UNCHANGED <<client, rc, status, filelen, requestVars, serverVars,
                   content, conn, history>>

\* Faulty: the end of the stream is taken for an empty chunk.
ChunkEOFIgnored ==
    /\ Transferring
    /\ NothingMore
    /\ conn = "closed"
    /\ UNCHANGED vars

ChunkEOF ==
    /\ Transferring
    /\ NothingMore
    /\ conn = "closed"
    /\ Return(-1, status)
    /\ UNCHANGED <<filelen, bytes, written, requestVars, serverVars, content,
                   wireVars, history>>

\* recv's -1 becomes the largest size_t and is passed on to writefunc.
ChunkError ==
    /\ Transferring
    /\ NothingMore
    /\ conn = "reset"
    /\ client' = "crashed"
    /\ UNCHANGED <<rc, status, filelen, bytes, written, requestVars,
                   serverVars, content, wireVars, history>>

Finish ==
    /\ client = "body"
    /\ ~Transferring
    /\ Return(0, status)
    /\ UNCHANGED <<filelen, bytes, written, requestVars, serverVars, content,
                   wireVars, history>>

ClientStep ==
    \/ Connect \/ ConnectFails \/ SendRequest \/ RecvHeader \/ NoHeader
    \/ RecvChunk \/ ChunkEOF \/ ChunkError \/ Finish
-----------------------------------------------------------------------------
(***************************************************************************)
(* gfserver_serve, which serves one connection and returns.                *)
(***************************************************************************)
Gone == client \in {"closed", "crashed"} \/ conn = "reset"

\* The kernel closes the server's end: what was sent still arrives, unless
\* the client sent something that was not received, which is answered by a
\* reset that may overtake it.
CloseConn ==
    IF conn = "reset" THEN UNCHANGED wireVars
    ELSE \/ request = << >> /\ conn' = "closed" /\ UNCHANGED wire
         \/ /\ request # << >>
            /\ conn' = "reset"
            /\ \E m \in 0 .. Len(wire) : wire' = SubSeq(wire, 1, m)

\* open_listenfd or accept failed: every later call fails on descriptor -1.
AcceptFails ==
    /\ server = "accept"
    /\ server' = "returned"
    /\ conn' = "reset"
    /\ UNCHANGED <<clientVars, requestVars, path, content, offset, wire,
                   history>>

Accept ==
    /\ server = "accept"
    /\ client = "send" \/ finished
    /\ server' = "recv"
    /\ UNCHANGED <<clientVars, requestVars, path, content, offset, wireVars,
                   history>>

\* What parse_request makes of the first n pieces of a request.
ParseRequest(n) ==
    CASE n \in {0, 1, 3, 4} -> "none"  \* a word is missing or is not its own
      [] n = 2 -> "crash"              \* strcmp of the null pointer
      [] n = 5 -> "prefix"             \* the path is cut off
      [] n >= 6 -> "path"

\* The only recv of the request: a part of it, or nothing once the client has
\* shut down or is gone.
RecvRequest ==
    /\ server = "recv"
    /\ finished \/ Gone
    /\ \E n \in 0 .. Len(request) :
         LET found == ParseRequest(n)
         IN  /\ n = 0 => request = << >> \/ Gone
             /\ path' = IF found = "crash" THEN "none" ELSE found
             /\ server' = CASE found = "crash" -> "crashed"
                            [] found = "none" -> "refuse"
                            [] OTHER -> "handle"
             /\ request' = SubSeq(request, n + 1, Len(request))
             /\ wholeRequest' = (n = Len(RequestPieces))
             /\ IF found = "crash" THEN conn' = "reset" ELSE UNCHANGED conn
    /\ UNCHANGED <<clientVars, finished, content, offset, wire, wholeHeader>>

\* A send to a client that is gone is lost, fails, or ends the process with
\* SIGPIPE.
Deliver(data, next) ==
    \/ ~Gone /\ wire' = wire \o data /\ server' = next /\ UNCHANGED conn
    \/ Gone /\ server' = next /\ UNCHANGED wireVars

BrokenPipe ==
    /\ server \in {"refuse", "handle", "send"}
    /\ Gone
    /\ server' = "crashed"
    /\ CloseConn
    /\ UNCHANGED <<clientVars, requestVars, path, content, offset, history>>

\* gfs_sendheader(gfc, GF_FILE_NOT_FOUND, 0) for a request without a path;
\* its result is ignored.
Refuse ==
    /\ server = "refuse"
    /\ Deliver(NotFoundHeader, "close")
    /\ UNCHANGED <<clientVars, requestVars, path, content, offset, history>>

\* handler_get: content_get, lseek and gfs_sendheader.
Handle ==
    /\ server = "handle"
    /\ IF path \in content
       THEN Deliver(OkHeader, "send")
       ELSE Deliver(NotFoundHeader, "close")
    /\ UNCHANGED <<clientVars, requestVars, path, content, offset, history>>

SendChunk ==
    /\ server = "send"
    /\ offset < FileLength
    /\ LET last == IF offset + Chunk < FileLength THEN offset + Chunk
                   ELSE FileLength
       IN  /\ Deliver(FileBytes(path, offset + 1, last), "send")
           /\ offset' = last
    /\ UNCHANGED <<clientVars, requestVars, path, content, history>>

\* pread or gfs_send failed: gfs_abort closes the connection and frees the
\* context, which gfserver_serve then closes and frees once more.
SendFails ==
    /\ server = "send"
    /\ offset < FileLength
    /\ server' = "crashed"
    /\ CloseConn
    /\ UNCHANGED <<clientVars, requestVars, path, content, offset, history>>

Sent ==
    /\ server = "send"
    /\ offset >= FileLength
    /\ server' = "close"
    /\ UNCHANGED <<clientVars, requestVars, path, content, offset, wireVars,
                   history>>

Close ==
    /\ server = "close"
    /\ server' = "returned"
    /\ CloseConn
    /\ UNCHANGED <<clientVars, requestVars, path, content, offset, history>>

ServerStep ==
    \/ Accept \/ RecvRequest \/ Refuse \/ Handle \/ SendChunk \/ Sent \/ Close

ServerFault == AcceptFails \/ BrokenPipe \/ SendFails
-----------------------------------------------------------------------------
\* The network or either host resets the connection; a part of what is on
\* its way may still arrive.
NetworkReset ==
    /\ conn = "open"
    /\ client \notin {"connect", "closed", "crashed"}
    /\ conn' = "reset"
    /\ \E m \in 0 .. Len(wire) : wire' = SubSeq(wire, 1, m)
    /\ UNCHANGED <<clientVars, requestVars, serverVars, content, history>>

\* A server that nobody connects to waits in accept.
Idle ==
    /\ client \in {"closed", "crashed"}
    /\ server \in {"accept", "returned", "crashed"}
    /\ UNCHANGED vars

Next == ClientStep \/ ServerStep \/ ServerFault \/ NetworkReset \/ Idle

Spec == Init /\ [][Next]_vars

\* Both processes are scheduled.  No fault is ever bound to happen.
Fairness == WF_vars(ClientStep) /\ WF_vars(ServerStep)

FairSpec == Spec /\ Fairness
-----------------------------------------------------------------------------
(***************************************************************************)
(* Correctness.                                                            *)
(***************************************************************************)
Statuses == {"OK", "FILE_NOT_FOUND", "ERROR", "INVALID"}

\* Every variable keeps its type.
TypeOK ==
    /\ client \in {"connect", "send", "header", "body", "closed", "crashed"}
    /\ rc \in {0, -1}
    /\ status \in Statuses
    /\ filelen \in 0 .. FileLength
    /\ bytes \in Nat
    /\ finished \in BOOLEAN
    /\ server \in {"accept", "recv", "refuse", "handle", "send", "close",
                   "returned", "crashed"}
    /\ path \in {"none", "path", "prefix"}
    /\ content \in SUBSET {"path", "prefix"}
    /\ offset \in 0 .. FileLength
    /\ conn \in {"open", "closed", "reset"}
    /\ wholeRequest \in BOOLEAN
    /\ wholeHeader \in BOOLEAN

Returned(code, s) == client = "closed" /\ rc = code /\ status = s

\* The server has looked for the file asked for if its one recv returned the
\* whole request; or else for what a cut request names, or for none.
Understood == wholeRequest => path = "path"

\* If gfc_perform returns 0 and the status is OK, and its one recv returned a
\* whole header (as a comment in the library assumes), then writefunc was given
\* a file that the server has and took to be asked for, every byte once and in
\* order: whichever way the connection cut the body up, delayed, closed or
\* reset it.
ExactCopy ==
    /\ TypeOK
    /\ Returned(0, "OK") /\ wholeHeader =>
          /\ Understood
          /\ path \in content /\ written = FileBytes(path, 1, FileLength)

\* A refusal is told from a failure: when gfc_perform returns 0 with the status
\* FILE_NOT_FOUND nothing was written, whatever was cut; and if the header came
\* whole, the server does not have the file that it took to be asked for.
HonestRefusal ==
    Returned(0, "FILE_NOT_FOUND") =>
        /\ written = << >>
        /\ wholeHeader => Understood /\ path \notin content

\* When the connection is reset or closed before the transfer is complete,
\* gfc_perform returns a negative integer: the client is not ended by it.
ClientSurvives == wholeHeader => client # "crashed"
=============================================================================
