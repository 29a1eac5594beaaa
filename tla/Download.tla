------------------------------- MODULE Download -------------------------------
(***************************************************************************)
(* The programs "Client Server Lab/gflib/gfclient_download.c" and          *)
(* gfserver_main.c around the exchange of GetFile: the client makes its    *)
(* requests one after another and removes the files of those that failed,  *)
(* while the server accepts one connection and ends.                       *)
(***************************************************************************)
EXTENDS GetFile

CONSTANT NRequests  \* nrequests * nthreads; only one thread is accepted

ASSUME RequestsAssumption == NRequests \in Nat

VARIABLES
    main,  \* control state of the client's main
    i,     \* its loop counter
    disk   \* the local file of each request that is over and kept it: the
           \*   data, and if the request and the header came whole

mainVars == <<main, i, disk>>
downloadVars == <<vars, mainVars>>

DownloadInit ==
    /\ Init
    /\ main = "open"
    /\ i = 0
    /\ disk = << >>

\* gfserver_serve has returned, and with it main; or a signal ended it.
ServerOver == server \in {"returned", "crashed"}

\* Local paths differ by the counter of localPath, so a request's number is
\* its file.  The server that has taken one connection does nothing for a
\* later request but end, so the model lets it end before the next one begins
\* (what the client sees if it does not is LeftInBacklog).
Open ==
    /\ main = "open"
    /\ i < NRequests
    /\ ServerOver \/ (server = "accept" /\ ~finished)
    /\ main' = "perform"
    /\ client' = "connect"
    /\ rc' = 0
    /\ status' = "OK"
    /\ filelen' = 0
    /\ bytes' = 0
    /\ written' = << >>
    /\ request' = << >>
    /\ finished' = FALSE
    /\ wire' = << >>
    /\ conn' = IF server = "accept" THEN "open" ELSE "reset"
    /\ wholeRequest' = FALSE
    /\ wholeHeader' = FALSE
    /\ UNCHANGED <<serverVars, content, i, disk>>

\* The path is too long, or the file or its directory cannot be made.
OpenFails ==
    /\ main = "open"
    /\ i < NRequests
    /\ main' = "exited"
    /\ UNCHANGED <<vars, i, disk>>

Perform ==
    /\ main = "perform"
    /\ ClientStep
    /\ UNCHANGED mainVars

\* The kernel made the connection while the server was busy with an earlier
\* one; nobody accepts it, and it is reset when the server ends.  send and
\* recv fail, which gfc_perform takes for an invalid header.
LeftInBacklog ==
    /\ main = "perform"
    /\ client = "connect"
    /\ conn = "reset"
    /\ Return(-1, "INVALID")
    /\ UNCHANGED <<filelen, bytes, written, requestVars, serverVars, content,
                   wireVars, history, mainVars>>

\* Faulty: without the unlink that follows an error.
CleanupByStatus ==
    /\ main = "perform"
    /\ client = "closed"
    /\ main' = "open"
    /\ i' = i + 1
    /\ disk' = IF status # "OK" THEN disk
               ELSE [r \in DOMAIN disk \cup {i} |->
                       IF r = i THEN [data |-> written, request |-> wholeRequest,
                                      header |-> wholeHeader]
                       ELSE disk[r]]
    /\ UNCHANGED vars

\* fclose, and unlink if gfc_perform failed or the status is not GF_OK (both
\* may hold: the second unlink then fails, which is only printed).
Cleanup ==
    /\ main = "perform"
    /\ client = "closed"
    /\ main' = "open"
    /\ i' = i + 1
    /\ disk' = IF rc < 0 \/ status # "OK" THEN disk
               ELSE [r \in DOMAIN disk \cup {i} |->
                       IF r = i THEN [data |-> written, request |-> wholeRequest,
                                      header |-> wholeHeader]
                       ELSE disk[r]]
    /\ UNCHANGED vars

AllRequested ==
    /\ main = "open"
    /\ i >= NRequests
    /\ main' = "returned"
    /\ UNCHANGED <<vars, i, disk>>

MainStep ==
    Open \/ OpenFails \/ Perform \/ LeftInBacklog \/ Cleanup \/ AllRequested

Serve == ServerStep /\ UNCHANGED mainVars

Fault == (ServerFault \/ NetworkReset) /\ UNCHANGED mainVars

Over == main \in {"exited", "returned"} \/ client = "crashed"

\* A server that nobody connected to waits in accept.
Rest ==
    /\ Over
    /\ ServerOver \/ server = "accept"
    /\ UNCHANGED downloadVars

DownloadNext == MainStep \/ Serve \/ Fault \/ Rest

\* Both processes are scheduled.  No fault is ever bound to happen.
DownloadSpec ==
    /\ DownloadInit
    /\ [][DownloadNext]_downloadVars
    /\ WF_downloadVars(MainStep)
    /\ WF_downloadVars(Serve)
-----------------------------------------------------------------------------
\* What gfc_perform reports complete is the file (ExactCopy), and the files
\* that the program leaves are such copies, of the path asked for if the request
\* came whole: a request that was broken off, refused, or never accepted by the
\* server leaves none, and no later request changes the file of an earlier one.
\* All this is for a header that one recv returned whole; of one that is cut, the
\* client takes the rest for the file.
FilesAreCopies ==
    /\ ExactCopy
    /\ main \in {"open", "perform", "exited", "returned"}
    /\ i \in 0 .. NRequests
    /\ \A r \in DOMAIN disk :
          /\ r < i
          /\ disk[r].header => \E p \in content :
                                   /\ disk[r].data = FileBytes(p, 1, FileLength)
                                   /\ disk[r].request => p = "path"

\* The client ends, whatever becomes of its connections, although the server
\* serves one of them only; and so does gfc_perform each time.
DownloadEnds == <>Over
=============================================================================
