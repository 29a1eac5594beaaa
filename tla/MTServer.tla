------------------------------- MODULE MTServer -------------------------------
(***************************************************************************)
(* The multi-threaded GETFILE server, "Client Server Lab/mtgf":            *)
(* gfserver_main.c starts NThreads workers and enters gfserver_serve,      *)
(* whose callback handler_setup (handler.c) queues each request under a    *)
(* mutex and signals a condition variable; a worker (process_request) pops *)
(* a request, answers it with handler_get and closes the connection.       *)
(*                                                                         *)
(* gfserver_serve itself is the library gfserver.o: external code.  What   *)
(* main and the handlers see of it: it allocates a context for each        *)
(* connection, parses the request's path into a buffer of its own, which   *)
(* the next request overwrites, and calls the handler with the context and *)
(* a pointer to that buffer; a malformed request it refuses by itself.     *)
(* The files it can send are those of the content store.                   *)
(* Requests are numbered from 0 in the order of those calls.               *)
(***************************************************************************)
EXTENDS FiniteSets, Window, Content

CONSTANTS NThreads,     \* option -t, raised to 1 if it is less
          Paths,        \* what clients ask for
          MaxRequests,  \* bound on the requests that arrive
          MaxLoad,      \* bound on requests and lines of the content file
          MaxSpurious   \* bound on spurious wakeups

ASSUME ThreadsAssumption == NThreads \in Nat \ {0}
ASSUME BoundsAssumption  ==
    MaxRequests \in Nat /\ MaxLoad \in Nat /\ MaxSpurious \in Nat
ASSUME PathsAssumption   == Paths \subseteq Keys
\* What stands for an answer that is no file is not the name of a path.
ASSUME NoticesAssumption ==
    Paths \cap {"none", "NOT_FOUND", "incomplete"} = {}

Workers  == 1 .. NThreads
Main     == 0
Nobody   == -1
None     == -1
Requests == 0 .. MaxRequests - 1

VARIABLES
    boss,       \* control state of main and of the callback it runs
    created,    \* threads created so far
    asked,      \* the paths asked for, request k at k + 1
    pc,         \* control state of each worker
    job,        \* request each worker is answering
    found,      \* the path content_get read, for each request
    mutex,      \* holder of the mutex
    queue,      \* the requests that wait for a worker
    taken,      \* history: number of requests popped
    answer,     \* what was sent for each request
    socket,     \* "open" or "closed": the connection of each request
    spurious,   \* spurious wakeups so far
    exit        \* how the process ended, "no" while it runs

bossVars  == <<boss, created, asked>>
queueVars == <<queue, taken>>
replyVars == <<found, answer, socket>>
endVars   == <<spurious, exit>>
vars == <<contentVars, bossVars, pc, job, mutex, queueVars, replyVars, endVars>>

Init ==
    /\ ContentInit
    /\ boss = "content"
    /\ created = 0
    /\ asked = << >>
    /\ pc = [w \in Workers |-> "unborn"]
    /\ job = [w \in Workers |-> None]
    /\ found = [k \in Requests |-> "none"]
    /\ mutex = Nobody
    /\ queue = << >>
    /\ taken = 0
    /\ answer = [k \in Requests |-> "none"]
    /\ socket = [k \in Requests |-> "open"]
    /\ spurious = 0
    /\ exit = "no"

Goto(w, from, to) ==
    /\ pc[w] = from
    /\ pc' = [pc EXCEPT ![w] = to]

Exit(how) == exit' = how /\ UNCHANGED spurious
-----------------------------------------------------------------------------
(***************************************************************************)
(* The boss: main, and handler_setup on its thread.                        *)
(***************************************************************************)
LoadContent ==
    /\ boss = "content"
    /\ \E file \in ContentFiles : content_init(file)
    /\ boss' = "create"
    /\ UNCHANGED <<created, asked, pc, job, mutex, queueVars, replyVars,
                   endVars>>

\* No content file; or one with a blank line, a key without a path, a path that
\* cannot be opened, or no newline at the end, which costs the last path its
\* last character (unless that, too, can be opened): exit.
ContentFails ==
    /\ boss = "content"
    /\ Exit("no_content")
    /\ UNCHANGED <<contentVars, bossVars, pc, job, mutex, queueVars,
                   replyVars>>

\* Faulty: one thread too many.
CreateThreadMore ==
    /\ boss = "create"
    /\ created <= NThreads
    /\ pc' = [pc EXCEPT ![created + 1] = "lock"]
    /\ created' = created + 1
    /\ UNCHANGED <<contentVars, boss, asked, job, mutex, queueVars, replyVars,
                   endVars>>

CreateThread ==
    /\ boss = "create"
    /\ created < NThreads
    /\ pc' = [pc EXCEPT ![created + 1] = "lock"]
    /\ created' = created + 1
    /\ UNCHANGED <<contentVars, boss, asked, job, mutex, queueVars, replyVars,
                   endVars>>

\* pthread_create failed; or, from the second thread on, its identifier was
\* stored past the end of an array that has room for one.
CreateFails ==
    /\ boss = "create"
    /\ created < NThreads
    /\ \/ Exit("create_failed")
       \/ created > 0 /\ Exit("heap_overflow")
    /\ UNCHANGED <<contentVars, bossVars, pc, job, mutex, queueVars,
                   replyVars>>

Serve ==
    /\ boss = "create"
    /\ created = NThreads
    /\ boss' = "serve"
    /\ UNCHANGED <<contentVars, created, asked, pc, job, mutex, queueVars,
                   replyVars, endVars>>

\* gfserver_serve: the path of the next request is copied into the buffer and
\* the callback is called.
Accept ==
    /\ boss = "serve"
    /\ Len(asked) < MaxRequests
    /\ Len(asked) + Len(items) < MaxLoad
    /\ \E p \in Paths : asked' = Append(asked, p)
    /\ boss' = "lock"
    /\ UNCHANGED <<contentVars, created, pc, job, mutex, queueVars, replyVars,
                   endVars>>

MainLock ==
    /\ boss = "lock"
    /\ mutex = Nobody
    /\ mutex' = Main
    /\ boss' = "enqueue"
    /\ UNCHANGED <<contentVars, created, asked, pc, job, queueVars, replyVars,
                   endVars>>

\* Faulty: steque_push instead of steque_enqueue.
EnqueueFront ==
    /\ boss = "enqueue"
    /\ queue' = <<Len(asked) - 1>> \o queue
    /\ boss' = "signal"
    /\ UNCHANGED <<contentVars, created, asked, pc, job, mutex, taken,
                   replyVars, endVars>>

\* enqueue_ctx: the pair of the context and the pointer to the path.
Enqueue ==
    /\ boss = "enqueue"
    /\ queue' = Append(queue, Len(asked) - 1)
    /\ boss' = "signal"
    /\ UNCHANGED <<contentVars, created, asked, pc, job, mutex, taken,
                   replyVars, endVars>>

Waiting == {w \in Workers : pc[w] = "wait"}

\* Faulty: nobody is signalled.
SignalNobody ==
    /\ boss = "signal"
    /\ boss' = "unlock"
    /\ UNCHANGED <<contentVars, created, asked, pc, job, mutex, queueVars,
                   replyVars, endVars>>

Signal ==
    /\ boss = "signal"
    /\ IF Waiting = {}
       THEN UNCHANGED pc
       ELSE \E w \in Waiting : pc' = [pc EXCEPT ![w] = "relock"]
    /\ boss' = "unlock"
    /\ UNCHANGED <<contentVars, created, asked, job, mutex, queueVars,
                   replyVars, endVars>>

MainUnlock ==
    /\ boss = "unlock"
    /\ mutex' = Nobody
    /\ boss' = "serve"
    /\ UNCHANGED <<contentVars, created, asked, pc, job, queueVars, replyVars,
                   endVars>>

BossStep ==
    \/ LoadContent \/ ContentFails
    \/ CreateThread \/ Serve \/ MainLock \/ Enqueue \/ Signal \/ MainUnlock
-----------------------------------------------------------------------------
(***************************************************************************)
(* A worker.                                                               *)
(***************************************************************************)
Lock(w) ==
    /\ Goto(w, "lock", "test")
    /\ mutex = Nobody
    /\ mutex' = w
    /\ UNCHANGED <<contentVars, bossVars, job, queueVars, replyVars, endVars>>

\* Faulty: the worker waits without looking at the queue first.
TestNot(w) ==
    /\ Goto(w, "test", "wait")
    /\ mutex' = Nobody
    /\ UNCHANGED <<contentVars, bossVars, job, queueVars, replyVars, endVars>>

Test(w) ==
    /\ IF queue = << >>
       THEN Goto(w, "test", "wait") /\ mutex' = Nobody
       ELSE Goto(w, "test", "pop") /\ UNCHANGED mutex
    /\ UNCHANGED <<contentVars, bossVars, job, queueVars, replyVars, endVars>>

SpuriousWakeup(w) ==
    /\ spurious < MaxSpurious
    /\ Goto(w, "wait", "relock")
    /\ spurious' = spurious + 1
    /\ UNCHANGED <<contentVars, bossVars, job, mutex, queueVars, replyVars,
                   exit>>

Relock(w) ==
    /\ Goto(w, "relock", "test")
    /\ mutex = Nobody
    /\ mutex' = w
    /\ UNCHANGED <<contentVars, bossVars, job, queueVars, replyVars, endVars>>

\* Faulty: steque_front instead of steque_pop.
PopKeeps(w) ==
    /\ queue # << >>
    /\ Goto(w, "pop", "unlock")
    /\ job' = [job EXCEPT ![w] = Head(queue)]
    /\ UNCHANGED <<contentVars, bossVars, mutex, queueVars, replyVars,
                   endVars>>

Pop(w) ==
    /\ pc[w] = "pop"
    /\ IF queue = << >>
       THEN Exit("underflow") /\ UNCHANGED <<pc, job, queueVars>>
       ELSE /\ Goto(w, "pop", "unlock")
            /\ job' = [job EXCEPT ![w] = Head(queue)]
            /\ queue' = Tail(queue)
            /\ taken' = taken + 1
            /\ UNCHANGED endVars
    /\ UNCHANGED <<contentVars, bossVars, mutex, replyVars>>

Unlock(w) ==
    /\ Goto(w, "unlock", "get")
    /\ mutex' = Nobody
    /\ UNCHANGED <<contentVars, bossVars, job, queueVars, replyVars, endVars>>

\* content_get(path): the pointer leads to the path of the latest request.
ContentGet(w) ==
    /\ Goto(w, "get", "send")
    /\ found' = [found EXCEPT ![job[w]] = asked[Len(asked)]]
    /\ UNCHANGED <<contentVars, bossVars, job, mutex, queueVars, answer,
                   socket, endVars>>

\* The rest of handler_get when nothing fails: a refusal or the whole file.
Send(w) ==
    /\ Goto(w, "send", "close")
    /\ answer' = [answer EXCEPT ![job[w]] =
                      IF content_get(found[job[w]]) >= 0 THEN found[job[w]]
                      ELSE "NOT_FOUND"]
    /\ UNCHANGED <<contentVars, bossVars, job, mutex, queueVars, found,
                   socket, endVars>>

\* pread or gfs_send failed, or only a part was sent: gfs_abort closes the
\* connection and frees its context.
SendFails(w) ==
    /\ Goto(w, "send", "close")
    /\ content_get(found[job[w]]) >= 0
    /\ answer' = [answer EXCEPT ![job[w]] = "incomplete"]
    /\ socket' = [socket EXCEPT ![job[w]] = "closed"]
    /\ UNCHANGED <<contentVars, bossVars, job, mutex, queueVars, found,
                   endVars>>

\* The client is gone, and nobody handles SIGPIPE.
BrokenPipe(w) ==
    /\ pc[w] = "send"
    /\ Exit("sigpipe")
    /\ UNCHANGED <<contentVars, bossVars, pc, job, mutex, queueVars,
                   replyVars>>

\* gfs_abort of process_request, which a failed handler_get has already
\* called: its context is then freed a second time.
Close(w) ==
    /\ pc[w] = "close"
    /\ IF socket[job[w]] = "closed"
       THEN Exit("double_free") /\ UNCHANGED <<pc, socket>>
       ELSE /\ Goto(w, "close", "free")
            /\ socket' = [socket EXCEPT ![job[w]] = "closed"]
            /\ UNCHANGED endVars
    /\ UNCHANGED <<contentVars, bossVars, job, mutex, queueVars, found,
                   answer>>

\* free(q_ctx->file_path) of the pointer into the library's buffer, which
\* malloc did not return: the loop of process_request gets no further.
FreePath(w) ==
    /\ pc[w] = "free"
    /\ Exit("bad_free")
    /\ UNCHANGED <<contentVars, bossVars, pc, job, mutex, queueVars,
                   replyVars>>

WorkerStep(w) ==
    \/ Lock(w) \/ Test(w) \/ Relock(w) \/ Pop(w) \/ Unlock(w)
    \/ ContentGet(w) \/ Send(w) \/ Close(w) \/ FreePath(w)

Fault(w) == SpuriousWakeup(w) \/ SendFails(w) \/ BrokenPipe(w)
-----------------------------------------------------------------------------
Running == exit = "no"

\* A process that has ended, or that nobody sends a request, does nothing.
Idle ==
    /\ ~Running \/ boss = "serve"
    /\ UNCHANGED vars

Next ==
    \/ Running /\ (BossStep \/ CreateFails \/ Accept)
    \/ \E w \in Workers : Running /\ (WorkerStep(w) \/ Fault(w))
    \/ Idle

Spec == Init /\ [][Next]_vars

\* The scheduler runs every thread that can run; no request need arrive.
Fairness ==
    /\ WF_vars(Running /\ BossStep)
    /\ \A w \in Workers : WF_vars(Running /\ WorkerStep(w))

FairSpec == Spec /\ Fairness
-----------------------------------------------------------------------------
(***************************************************************************)
(* Correctness.                                                            *)
(***************************************************************************)
Replies == Paths \cup {"none", "NOT_FOUND", "incomplete"}

\* Every variable keeps its type.
TypeOK ==
    /\ items \in Seq(Keys) /\ listed \subseteq Keys
    /\ boss \in {"content", "create", "serve", "lock", "enqueue", "signal",
                "unlock"}
    /\ created \in 0 .. NThreads
    /\ asked \in Seq(Paths)
    /\ pc \in [Workers -> {"unborn", "lock", "test", "wait", "relock", "pop",
                           "unlock", "get", "send", "close", "free"}]
    /\ job \in [Workers -> Requests \cup {None}]
    /\ found \in [Requests -> Paths \cup {"none"}]
    /\ mutex \in Workers \cup {Main, Nobody}
    /\ queue \in Seq(Requests)
    /\ taken \in 0 .. MaxRequests
    /\ answer \in [Requests -> Replies]
    /\ socket \in [Requests -> {"open", "closed"}]
    /\ spurious \in 0 .. MaxSpurious
    /\ exit \in {"no", "no_content", "create_failed", "heap_overflow",
                 "underflow", "sigpipe", "double_free", "bad_free"}

\* Requests that handler_setup has queued.
Enqueued ==
    IF boss \in {"lock", "enqueue"} THEN Len(asked) - 1 ELSE Len(asked)

\* The queue holds the requests queued and not yet taken, each once, in the
\* order in which they arrived.
QueueIsWindow == IsWindow(queue, taken, Enqueued)

Awake == {w \in Workers : pc[w] \in {"lock", "relock", "test", "pop"}}

\* No wakeup is lost: while a worker sleeps, each queued request has an awake
\* worker of its own, but for one whose signal is still to come.
NoLostWakeup ==
    Waiting # {} =>
        Len(queue) <= Cardinality(Awake) + (IF boss = "signal" THEN 1 ELSE 0)

Holders(k) == {w \in Workers : job[w] = k}

\* No request is forgotten or answered twice: one that was taken has exactly
\* one worker, its connection is closed by that worker only, and only after
\* something was sent; one that still waits has none and is untouched.
AnsweredOnce ==
    \A k \in 0 .. Len(asked) - 1 :
        IF k < taken
        THEN /\ Cardinality(Holders(k)) = 1
             /\ socket[k] = "closed" => answer[k] # "none"
        ELSE /\ Holders(k) = {}
             /\ socket[k] = "open" /\ answer[k] = "none"

\* The binary search finds a key exactly if the content file lists it: nobody
\* is refused a file that the server has, or sent one for a key that it lacks.
FoundIfListed ==
    \A k \in Requests :
        /\ answer[k] = "NOT_FOUND" => found[k] \notin listed
        /\ answer[k] \in Paths \cup {"incomplete"} => found[k] \in listed

\* Every request that arrived gets its connection closed, if the server does
\* not end first: no worker sleeps for ever on a queue that is not empty.
EveryoneServed ==
    \A k \in Requests :
        Len(asked) > k ~> (socket[k] = "closed" \/ ~Running)

\* The handler is given the requested path (gfserver.h): who is sent a file
\* is sent the one that was asked for.
RightFile ==
    \A k \in 0 .. Len(asked) - 1 : answer[k] \in Paths => answer[k] = asked[k + 1]
=============================================================================
