------------------------------ MODULE MTClient -------------------------------
(***************************************************************************)
(* The multi-threaded GETFILE download client,                             *)
(* "Client Server Lab/mtgf/gfclient_download.c": a boss (main) that starts *)
(* NThreads workers, queues NRequests * NThreads requests under a mutex    *)
(* and signals a condition variable for each, joins the workers and        *)
(* destroys the queue; and the workers (handle_request), each of which     *)
(* pops NRequests requests and downloads them one after the other into a   *)
(* local file whose name carries the value of a shared counter.            *)
(*                                                                         *)
(* A request is known by the order in which the boss queued it; what the   *)
(* queue really holds is the pointer PathOf(k) stands for.  A step of a    *)
(* thread is the code between two points where another thread can matter.  *)
(***************************************************************************)
EXTENDS Integers, Sequences, FiniteSets, Window

CONSTANTS NThreads,     \* option -t
          NRequests,    \* option -n, requests per thread
          Workload,     \* the paths of the workload file, in file order
          TooLong,      \* those of them longer than 256 characters
          Outcomes,     \* what gfc_perform may do, of AllOutcomes
          MaxSpurious   \* bound on spurious wakeups of pthread_cond_wait

ASSUME ThreadsAssumption  == NThreads \in Nat /\ NRequests \in Nat
ASSUME SpuriousAssumption == MaxSpurious \in Nat
\* What gfc_perform returned and what gfc_get_status says after it.
AllOutcomes == {[rc |-> 0, status |-> "OK"],             \* complete download
                [rc |-> 0, status |-> "FILE_NOT_FOUND"], \* proper refusal
                [rc |-> 0, status |-> "ERROR"],
                [rc |-> -1, status |-> "OK"],       \* closed in mid-file
                [rc |-> -1, status |-> "INVALID"],  \* unusable header
                [rc |-> -1, status |-> "ERROR"]}    \* no connection

Success == [rc |-> 0, status |-> "OK"]

ASSUME OutcomesAssumption ==
    Success \in Outcomes /\ Outcomes \subseteq AllOutcomes
ASSUME WorkloadAssumption == Workload \in Seq(STRING) /\ Workload # << >>

Workers  == 1 .. NThreads
Main     == 0
Nobody   == -1
None     == -1
Total    == NRequests * NThreads
Requests == 0 .. Total - 1

\* workload_get_path: the entries of the workload file, round and round.
PathOf(k) == Workload[(k % Len(Workload)) + 1]

VARIABLES
    main,       \* control state of the boss
    i,          \* loop counter of the boss's current for loop
    pc,         \* control state of each worker
    handled,    \* loop counter i of each worker's for loop
    req,        \* req_path of each worker while it handles a request
    mutex,      \* holder of the mutex
    queue,      \* contents of the steque
    queueLive,  \* the queue has not been destroyed and freed
    taken,      \* history: number of requests popped so far
    counter,    \* static int counter of localPath
    number,     \* the counter value that went into each request's local path
    disk,       \* <<path, k>>: the file at that path was opened for request k
    result,     \* outcome of each worker's gfc_perform
    kept,       \* history: requests whose download the client reports as OK
    spurious,   \* spurious wakeups so far
    exit        \* how the process ended, "no" while it runs

bossVars  == <<main, i>>
loopVars  == <<handled, req>>
queueVars == <<queue, queueLive, taken>>
endVars   == <<spurious, exit>>
numVars   == <<counter, number>>
fileVars  == <<numVars, disk, result, kept>>
vars      == <<main, i, pc, handled, req, mutex, queue, queueLive, taken,
               spurious, exit, counter, number, disk, result, kept>>

\* Faulty: the local path does not carry the name of the request's.
LocalPathNumber(k) == <<"", number[k]>>

\* sprintf(local_path, "%s-%06d", &req_path[1], counter): the path's name
\* and the number tell two local paths apart.
LocalPath(k) == <<PathOf(k), number[k]>>
LocalPaths   == STRING \X Nat

Init ==
    /\ main = "create"
    /\ i = 0
    /\ pc = [w \in Workers |-> "unborn"]
    /\ handled = [w \in Workers |-> 0]
    /\ req = [w \in Workers |-> None]
    /\ mutex = Nobody
    /\ queue = << >>
    /\ queueLive = TRUE
    /\ taken = 0
    /\ counter = 0
    /\ number = [k \in Requests |-> None]
    /\ disk = {}
    /\ result = [w \in Workers |-> Success]
    /\ kept = {}
    /\ spurious = 0
    /\ exit = "no"

Goto(w, from, to) ==
    /\ pc[w] = from
    /\ pc' = [pc EXCEPT ![w] = to]

\* Faulty: one request too many.
LoopHeadOnceMore(n) == IF n <= NRequests THEN "lock" ELSE "done"

\* The test of a worker's for loop.
LoopHead(n) == IF n < NRequests THEN "lock" ELSE "done"
-----------------------------------------------------------------------------
(***************************************************************************)
(* The boss.                                                               *)
(***************************************************************************)
CreateThread ==
    /\ main = "create"
    /\ i < NThreads
    /\ pc' = [pc EXCEPT ![i + 1] = LoopHead(0)]
    /\ i' = i + 1
    /\ UNCHANGED <<main, loopVars, mutex, queueVars, endVars, fileVars>>

BeginProduce ==
    /\ main = "create"
    /\ i >= NThreads
    /\ main' = "produce"
    /\ i' = 0
    /\ UNCHANGED <<pc, loopVars, mutex, queueVars, endVars, fileVars>>

\* workload_get_path, and the check of the path's length.
GetPath ==
    /\ main = "produce"
    /\ i < Total
    /\ IF PathOf(i) \in TooLong
       THEN exit' = "too_long" /\ UNCHANGED main
       ELSE main' = "lock" /\ UNCHANGED exit
    /\ UNCHANGED <<i, pc, loopVars, mutex, queueVars, spurious, fileVars>>

\* Faulty: the boss queues without the mutex.
MainLockNot ==
    /\ main = "lock"
    /\ mutex' = Main
    /\ main' = "enqueue"
    /\ UNCHANGED <<i, pc, loopVars, queueVars, endVars, fileVars>>

MainLock ==
    /\ main = "lock"
    /\ mutex = Nobody
    /\ mutex' = Main
    /\ main' = "enqueue"
    /\ UNCHANGED <<i, pc, loopVars, queueVars, endVars, fileVars>>

\* Faulty: steque_push instead of steque_enqueue.
EnqueueFront ==
    /\ main = "enqueue"
    /\ queue' = <<i>> \o queue
    /\ main' = "signal"
    /\ UNCHANGED <<i, pc, loopVars, mutex, queueLive, taken, endVars,
                   fileVars>>

Enqueue ==
    /\ main = "enqueue"
    /\ queue' = Append(queue, i)
    /\ main' = "signal"
    /\ UNCHANGED <<i, pc, loopVars, mutex, queueLive, taken, endVars,
                   fileVars>>

\* pthread_cond_signal wakes a waiter if there is one and is lost otherwise.
Waiting == {w \in Workers : pc[w] = "wait"}

\* Faulty: nobody is signalled.
SignalNobody ==
    /\ main = "signal"
    /\ main' = "unlock"
    /\ UNCHANGED <<i, pc, loopVars, mutex, queueVars, endVars, fileVars>>

Signal ==
    /\ main = "signal"
    /\ IF Waiting = {}
       THEN UNCHANGED pc
       ELSE \E w \in Waiting : pc' = [pc EXCEPT ![w] = "relock"]
    /\ main' = "unlock"
    /\ UNCHANGED <<i, loopVars, mutex, queueVars, endVars, fileVars>>

MainUnlock ==
    /\ main = "unlock"
    /\ mutex' = Nobody
    /\ main' = "produce"
    /\ i' = i + 1
    /\ UNCHANGED <<pc, loopVars, queueVars, endVars, fileVars>>

\* Faulty: main does not wait for the workers.
BeginJoinNone ==
    /\ main = "produce"
    /\ i >= Total
    /\ main' = "join"
    /\ i' = NThreads
    /\ UNCHANGED <<pc, loopVars, mutex, queueVars, endVars, fileVars>>

BeginJoin ==
    /\ main = "produce"
    /\ i >= Total
    /\ main' = "join"
    /\ i' = 0
    /\ UNCHANGED <<pc, loopVars, mutex, queueVars, endVars, fileVars>>

\* pthread_join(workers[i]) returns once that worker has ended.
Join ==
    /\ main = "join"
    /\ i < NThreads
    /\ pc[i + 1] = "done"
    /\ i' = i + 1
    /\ UNCHANGED <<main, pc, loopVars, mutex, queueVars, endVars, fileVars>>

\* steque_destroy pops what is left, free(queue), return 0.
Destroy ==
    /\ main = "join"
    /\ i >= NThreads
    /\ queue' = << >>
    /\ queueLive' = FALSE
    /\ exit' = "success"
    /\ UNCHANGED <<bossVars, pc, loopVars, mutex, taken, spurious, fileVars>>

MainStep ==
    \/ CreateThread \/ BeginProduce \/ GetPath \/ MainLock \/ Enqueue
    \/ Signal \/ MainUnlock \/ BeginJoin \/ Join \/ Destroy
-----------------------------------------------------------------------------
(***************************************************************************)
(* A worker taking a request: lock, wait while the queue is empty, pop,    *)
(* unlock.                                                                 *)
(***************************************************************************)
Lock(w) ==
    /\ Goto(w, "lock", "test")
    /\ mutex = Nobody
    /\ mutex' = w
    /\ UNCHANGED <<bossVars, loopVars, queueVars, endVars, fileVars>>

\* while (steque_isempty(queue)) pthread_cond_wait(...): the wait releases
\* the mutex and blocks in one step.
Test(w) ==
    /\ IF queue = << >>
       THEN Goto(w, "test", "wait") /\ mutex' = Nobody
       ELSE Goto(w, "test", "pop") /\ UNCHANGED mutex
    /\ UNCHANGED <<bossVars, loopVars, queueVars, endVars, fileVars>>

\* POSIX lets pthread_cond_wait return without a signal.
SpuriousWakeup(w) ==
    /\ spurious < MaxSpurious
    /\ Goto(w, "wait", "relock")
    /\ spurious' = spurious + 1
    /\ UNCHANGED <<bossVars, loopVars, mutex, queueVars, exit, fileVars>>

\* Faulty: "if" instead of "while" around the wait.
RelockOnce(w) ==
    /\ Goto(w, "relock", "pop")
    /\ mutex = Nobody
    /\ mutex' = w
    /\ UNCHANGED <<bossVars, loopVars, queueVars, endVars, fileVars>>

\* pthread_cond_wait returns with the mutex held, to the loop's test.
Relock(w) ==
    /\ Goto(w, "relock", "test")
    /\ mutex = Nobody
    /\ mutex' = w
    /\ UNCHANGED <<bossVars, loopVars, queueVars, endVars, fileVars>>

\* Faulty: steque_front instead of steque_pop.
PopKeeps(w) ==
    /\ queue # << >>
    /\ Goto(w, "pop", "unlock")
    /\ req' = [req EXCEPT ![w] = Head(queue)]
    /\ UNCHANGED <<bossVars, handled, mutex, queueVars, endVars, fileVars>>

\* steque_pop exits the process on an empty queue.
Pop(w) ==
    /\ pc[w] = "pop"
    /\ IF queue = << >>
       THEN /\ exit' = "underflow"
            /\ UNCHANGED <<pc, req, queue, taken>>
       ELSE /\ Goto(w, "pop", "unlock")
            /\ req' = [req EXCEPT ![w] = Head(queue)]
            /\ queue' = Tail(queue)
            /\ taken' = taken + 1
            /\ UNCHANGED exit
    /\ UNCHANGED <<bossVars, handled, mutex, queueLive, spurious, fileVars>>

Unlock(w) ==
    /\ Goto(w, "unlock", "load")
    /\ mutex' = Nobody
    /\ UNCHANGED <<bossVars, loopVars, queueVars, endVars, fileVars>>
-----------------------------------------------------------------------------
(***************************************************************************)
(* A worker handling its request, outside the mutex.                       *)
(***************************************************************************)
\* counter++ in localPath is a load and a store with no lock around them.
LoadCounter(w) ==
    /\ Goto(w, "load", "store")
    /\ number' = [number EXCEPT ![req[w]] = counter]
    /\ UNCHANGED <<bossVars, loopVars, mutex, queueVars, endVars, counter,
                   disk, result, kept>>

StoreCounter(w) ==
    /\ Goto(w, "store", "open")
    /\ counter' = number[req[w]] + 1
    /\ UNCHANGED <<bossVars, loopVars, mutex, queueVars, endVars, number,
                   disk, result, kept>>

\* openFile: fopen(path, "w") creates the file or truncates the one that is
\* there, so that two requests then write to one file; a failure of mkdir or
\* fopen ends the whole process.
OpenFile(w) ==
    /\ Goto(w, "open", "perform")
    /\ disk' = disk \cup {<<LocalPath(req[w]), req[w]>>}
    /\ UNCHANGED <<bossVars, loopVars, mutex, queueVars, endVars, numVars,
                   result, kept>>

OpenFails(w) ==
    /\ pc[w] = "open"
    /\ exit' = "open_failed"
    /\ UNCHANGED <<bossVars, pc, loopVars, mutex, queueVars, spurious,
                   fileVars>>

\* gfc_perform, whose writecb calls write to the open file, and fclose.
Perform(w) ==
    /\ \E o \in Outcomes :
         /\ result' = [result EXCEPT ![w] = o]
         /\ Goto(w, "perform", IF o.rc < 0 THEN "unlink" ELSE "status")
    /\ UNCHANGED <<bossVars, loopVars, mutex, queueVars, endVars, numVars,
                   disk, kept>>

RemoveFile(k) == {d \in disk : d[1] # LocalPath(k)}

\* Faulty: the file of an interrupted download is left behind.
UnlinkNot(w) ==
    /\ Goto(w, "unlink", "status")
    /\ UNCHANGED <<bossVars, loopVars, mutex, queueVars, endVars, fileVars>>

\* unlink after a negative return; unlinking what is not there only prints.
Unlink(w) ==
    /\ Goto(w, "unlink", "status")
    /\ disk' = RemoveFile(req[w])
    /\ UNCHANGED <<bossVars, loopVars, mutex, queueVars, endVars, numVars,
                   result, kept>>

\* gfc_get_status is tested whatever gfc_perform returned.
CheckStatus(w) ==
    /\ Goto(w, "status", "cleanup")
    /\ disk' = IF result[w].status # "OK" THEN RemoveFile(req[w]) ELSE disk
    /\ kept' = IF result[w] = Success THEN kept \cup {req[w]} ELSE kept
    /\ UNCHANGED <<bossVars, loopVars, mutex, queueVars, endVars, numVars,
                   result>>

\* gfc_cleanup and the loop's increment and test.
Cleanup(w) ==
    /\ Goto(w, "cleanup", LoopHead(handled[w] + 1))
    /\ handled' = [handled EXCEPT ![w] = @ + 1]
    /\ req' = [req EXCEPT ![w] = None]
    /\ result' = [result EXCEPT ![w] = Success]
    /\ UNCHANGED <<bossVars, mutex, queueVars, endVars, numVars, disk, kept>>

WorkerStep(w) ==
    \/ Lock(w) \/ Test(w) \/ Relock(w) \/ Pop(w) \/ Unlock(w)
    \/ LoadCounter(w) \/ StoreCounter(w) \/ OpenFile(w) \/ OpenFails(w)
    \/ Perform(w) \/ Unlink(w) \/ CheckStatus(w) \/ Cleanup(w)
-----------------------------------------------------------------------------
Running == exit = "no"

\* A process that has ended does nothing more.
Ended == ~Running /\ UNCHANGED vars

Next ==
    \/ Running /\ MainStep
    \/ \E w \in Workers : Running /\ (WorkerStep(w) \/ SpuriousWakeup(w))
    \/ Ended

Spec == Init /\ [][Next]_vars

\* The scheduler runs every thread that can run, and gfc_perform returns.
Fairness ==
    /\ WF_vars(Running /\ MainStep)
    /\ \A w \in Workers : WF_vars(Running /\ WorkerStep(w))

FairSpec == Spec /\ Fairness
-----------------------------------------------------------------------------
(***************************************************************************)
(* Correctness.                                                            *)
(***************************************************************************)
MainStates == {"create", "produce", "lock", "enqueue", "signal", "unlock",
               "join"}

WorkerStates == {"unborn", "lock", "test", "wait", "relock", "pop", "unlock",
                 "load", "store", "open", "perform", "unlink", "status",
                 "cleanup", "done"}

\* Every variable keeps its type.
TypeOK ==
    /\ main \in MainStates
    /\ i \in Nat
    /\ pc \in [Workers -> WorkerStates]
    /\ handled \in [Workers -> 0 .. NRequests]
    /\ req \in [Workers -> Requests \cup {None}]
    /\ mutex \in Workers \cup {Main, Nobody}
    /\ queue \in Seq(Requests)
    /\ queueLive \in BOOLEAN
    /\ taken \in 0 .. Total
    /\ counter \in Nat
    /\ number \in [Requests -> Nat \cup {None}]
    /\ disk \in SUBSET (LocalPaths \X Requests)
    /\ result \in [Workers -> Outcomes]
    /\ kept \in SUBSET Requests
    /\ spurious \in 0 .. MaxSpurious
    /\ exit \in {"no", "success", "too_long", "open_failed", "underflow"}

\* The mutex is held by exactly the thread whose code is between lock and
\* unlock, so queue and condition variable have one user at a time.
MutualExclusion ==
    /\ \A w \in Workers : mutex = w <=> pc[w] \in {"test", "pop", "unlock"}
    /\ mutex = Main <=> main \in {"enqueue", "signal", "unlock"}

\* No worker pops an empty queue (steque_pop would end the process): what
\* the loop around pthread_cond_wait is for.
NoUnderflow == exit # "underflow"

\* Requests queued so far, those already taken included.
Enqueued ==
    CASE main = "create" -> 0
      [] main \in {"produce", "lock", "enqueue"} -> i
      [] main \in {"signal", "unlock"} -> i + 1
      [] main = "join" -> Total

\* The queue holds the requests that were queued and not yet taken, each
\* once, oldest first: none is lost, duplicated or overtaken, whichever
\* worker takes it.
QueueIsWindow == queueLive => IsWindow(queue, taken, Enqueued)

\* No request is handled by two workers at a time.
RequestsNotShared ==
    \A v, w \in Workers : v # w /\ req[v] # None => req[v] # req[w]

\* Workers that will look at the queue before they block.
Awake == {w \in Workers : pc[w] \in {"lock", "relock", "test", "pop"}}

\* No wakeup is lost: when a worker sleeps on the condition variable, each
\* queued request has a worker of its own that is awake and will look at the
\* queue, but for the one request whose signal is still to come.
NoLostWakeup ==
    Waiting # {} =>
        Len(queue) <= Cardinality(Awake) + (IF main = "signal" THEN 1 ELSE 0)

\* The client hands out its requests as a work queue does: in order, each to
\* one worker, NRequests to every worker; and main destroys the queue and
\* returns only when all of them have been handled.
Status == CASE exit = "no" -> "open"
            [] exit = "success" -> "closed"
            [] OTHER -> "aborted"

WQ == INSTANCE WorkQueue WITH
          Share <- NRequests,
          submitted <- Enqueued,
          holding <- req,
          status <- Status

ImplementsWorkQueue == WQ!Spec

\* The client ends: with every download done, or with the exit of a thread.
Termination == <>(exit # "no")

\* A download reported OK has its file: the path is there and no other
\* request ever opened, truncated or wrote the file behind it.
KeptIntact ==
    \A k \in kept : {d \in disk : d[1] = LocalPath(k)} = {<<LocalPath(k), k>>}

InProgress == {req[w] : w \in Workers}

\* A download that failed leaves no file behind.
NoLeftovers == \A d \in disk : d[2] \in kept \cup InProgress
-----------------------------------------------------------------------------
(***************************************************************************)
(* What relates the control states to the rest, for the inductive proofs.  *)
(***************************************************************************)
Handling == {"unlock", "load", "store", "open", "perform", "unlink",
             "status", "cleanup"}

\* How far the boss's loop counter can have come in each of its loops.
BossInv ==
    /\ main \in {"create", "join"} => i <= NThreads
    /\ main = "produce" => i <= Total
    /\ main \in {"lock", "enqueue", "signal", "unlock"} => i < Total
    /\ main = "join" => \A w \in Workers : w <= i => pc[w] = "done"

\* Where a worker is says whether it was started, holds a request and has
\* requests left to handle.
WorkerOK(w) ==
    /\ pc[w] = "unborn" <=> (main = "create" /\ i < w)
    /\ pc[w] \notin {"unborn", "done"} => handled[w] < NRequests
    /\ pc[w] = "unborn" => handled[w] = 0
    /\ pc[w] = "done" => handled[w] = NRequests
    /\ pc[w] = "pop" => queue # << >>
    /\ req[w] # None <=> pc[w] \in Handling
    /\ req[w] < taken
    /\ pc[w] \in Handling \ {"unlock", "load"} => number[req[w]] # None

WorkerInv == \A w \in Workers : WorkerOK(w)

ControlInv ==
    /\ BossInv
    /\ WorkerInv
    /\ ~queueLive <=> exit = "success"
    /\ exit = "success" => main = "join" /\ i = NThreads
=============================================================================
