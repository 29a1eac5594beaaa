--------------------------- MODULE MTServerProofs ----------------------------
(***************************************************************************)
(* Proofs about MTServer, for any number of threads, any content file and  *)
(* any bounds on requests and spurious wakeups.                            *)
(***************************************************************************)
EXTENDS MTServer, WindowProofs, FiniteSetTheorems, TLAPS

\* The states of the boss in which it is past the creation of the threads,
\* and those of a worker that holds the mutex, that holds a request, and that
\* has sent something for it.
Serving   == {"serve", "lock", "enqueue", "signal", "unlock"}
BossHolds == {"enqueue", "signal", "unlock"}
Inside    == {"test", "pop", "unlock"}
Busy      == {"unlock", "get", "send", "close", "free"}
Answered  == {"close", "free"}

BossInv ==
    /\ boss = "content" => created = 0
    /\ boss \notin Serving => asked = << >>
    /\ boss \in Serving => created = NThreads
    /\ boss \in Serving \ {"serve"} => Len(asked) > 0
    /\ Len(asked) <= MaxRequests

\* The mutex is held by exactly the thread between lock and unlock.
MutexInv ==
    /\ mutex = Main <=> boss \in BossHolds
    /\ \A w \in Workers : mutex = w <=> pc[w] \in Inside

\* What the control state of a worker says of its request.
WorkerOK(w) ==
    /\ pc[w] = "unborn" <=> w > created
    /\ pc[w] = "pop" => queue # << >>
    /\ pc[w] \in Busy <=> job[w] # None
    /\ job[w] # None =>
        /\ job[w] < taken
        /\ pc[w] \in Answered <=> answer[job[w]] # "none"
        /\ pc[w] \in Busy \ Answered => socket[job[w]] = "open"
        /\ pc[w] = "send" => found[job[w]] \in Paths

WorkerInv == \A w \in Workers : WorkerOK(w)

\* Each request taken is held by one worker, and by one only.
JobInv ==
    /\ \A k \in Requests : k < taken => \E w \in Workers : job[w] = k
    /\ \A v, w \in Workers : job[v] = job[w] /\ job[v] # None => v = w

\* A request not yet taken is untouched.
UntouchedInv ==
    \A k \in Requests :
        k >= taken => socket[k] = "open" /\ answer[k] = "none"

\* The inductive invariant.
IInv == /\ TypeOK /\ QueueIsWindow
        /\ BossInv /\ MutexInv /\ WorkerInv /\ JobInv /\ UntouchedInv
-----------------------------------------------------------------------------
\* What content_init makes of a content file is a sorted table of its lines.
LEMMA InitTable ==
    ASSUME NEW file \in ContentFiles, content_init(file)
    PROVE  /\ items' \in Seq(Keys) /\ listed' \subseteq Keys
           /\ Sorted(items)'
           /\ listed' = {items'[i] : i \in DOMAIN items'}
<1>1. PICK n \in 0 .. MaxLines : file \in [1 .. n -> Keys]
  BY DEF ContentFiles
<1>2. PICK p \in Bijection(DOMAIN file, DOMAIN file) :
           items' = [i \in DOMAIN file |-> file[p[i]]]
  BY DEF content_init, qsort
<1>3. n \in Nat /\ DOMAIN file = 1 .. n
  BY <1>1, MaxLinesAssumption
<1>4. /\ p \in [1 .. n -> 1 .. n]
      /\ \A t \in 1 .. n : \E s \in 1 .. n : p[s] = t
  BY <1>2, <1>3 DEF Bijection, Injection, Surjection
<1>5. items' \in [1 .. n -> Keys]
  BY <1>1, <1>2, <1>3, <1>4
<1>6. items' \in Seq(Keys)
  BY <1>3, <1>5
<1>7. listed' = {file[i] : i \in 1 .. n}
  BY <1>3 DEF content_init
<1>8. listed' = {items'[i] : i \in 1 .. n}
  <2>1. \A i \in 1 .. n : items'[i] = file[p[i]] /\ p[i] \in 1 .. n
    BY <1>2, <1>3, <1>4
  <2>2. \A i \in 1 .. n : \E j \in 1 .. n : file[i] = items'[j]
    <3>1. ASSUME NEW i \in 1 .. n
          PROVE  \E j \in 1 .. n : file[i] = items'[j]
      <4>1. PICK j \in 1 .. n : p[j] = i
        BY <1>4
      <4>2. QED
        BY <2>1, <4>1
    <3>2. QED
      BY <3>1
  <2>3. listed' \subseteq {items'[i] : i \in 1 .. n}
    BY <1>7, <2>2
  <2>4. \A i \in 1 .. n : items'[i] \in listed'
    BY <1>7, <2>1
  <2>5. QED
    BY <2>3, <2>4
<1>9. Sorted(items)'
  BY DEF content_init, qsort, Sorted
<1>10. QED
  BY <1>1, <1>5, <1>6, <1>7, <1>8, <1>9

LEMMA EnqueuedBound == IInv => Enqueued \in 0 .. MaxRequests
BY BoundsAssumption DEF IInv, TypeOK, BossInv, Enqueued, Serving

\* What a worker that finds the queue not empty takes is the next request.
LEMMA HeadOfQueue ==
    IInv /\ queue # << >> =>
        /\ Head(queue) = taken /\ taken < Enqueued
        /\ Head(queue) \in Requests /\ Tail(queue) \in Seq(Requests)
        /\ IsWindow(Tail(queue), taken + 1, Enqueued)
<1> SUFFICES ASSUME IInv, queue # << >>
             PROVE  /\ Head(queue) = taken /\ taken < Enqueued
                    /\ Head(queue) \in Requests
                    /\ Tail(queue) \in Seq(Requests)
                    /\ IsWindow(Tail(queue), taken + 1, Enqueued)
    OBVIOUS
<1>1. queue \in Seq(Requests) /\ IsWindow(queue, taken, Enqueued)
  BY DEF IInv, TypeOK, QueueIsWindow
<1>2. queue \in Seq(Int) /\ taken \in Int /\ Enqueued \in Int
  BY EnqueuedBound, BoundsAssumption DEF IInv, TypeOK, Requests
<1>3. QED
  BY <1>1, <1>2, WindowTail

\* A request that a worker holds has arrived.
LEMMA AskedWhenTaken ==
    IInv => \A w \in Workers :
                job[w] # None => Len(asked) > 0 /\ asked[Len(asked)] \in Paths
<1> SUFFICES ASSUME IInv, NEW w \in Workers, job[w] # None
             PROVE  Len(asked) > 0 /\ asked[Len(asked)] \in Paths
    OBVIOUS
<1>1. job[w] \in Nat /\ job[w] < taken
  BY DEF IInv, TypeOK, WorkerInv, WorkerOK, Requests
<1>2. Len(queue) = Enqueued - taken /\ Len(queue) \in Nat
  BY DEF IInv, TypeOK, QueueIsWindow, IsWindow
<1>3. Enqueued <= Len(asked) /\ Len(asked) \in Nat
  BY DEF Enqueued, IInv, TypeOK
<1>4. Len(asked) > 0
  BY <1>1, <1>2, <1>3, EnqueuedBound DEF IInv, TypeOK
<1>5. QED
  BY <1>4 DEF IInv, TypeOK

\* Every step keeps the types.
LEMMA TypeStep == IInv /\ [Next]_vars => TypeOK'
<1> SUFFICES ASSUME IInv, [Next]_vars
             PROVE  TypeOK'
    OBVIOUS
<1> USE ThreadsAssumption, BoundsAssumption, PathsAssumption, NoticesAssumption
        DEF IInv, TypeOK, BossInv, WorkerInv, WorkerOK, Running, Workers,
        Main, Nobody, None, Requests, Goto, vars, contentVars, bossVars,
        queueVars, replyVars, endVars, Serving, BossHolds, Inside, Busy,
        Answered, Replies
<1>1. CASE Running /\ LoadContent
  <2>1. PICK file \in ContentFiles : content_init(file)
    BY <1>1 DEF LoadContent
  <2>2. items' \in Seq(Keys) /\ listed' \subseteq Keys
    BY <2>1, InitTable
  <2>3. QED
    BY <1>1, <2>2 DEF LoadContent
<1>2. CASE Running /\ ContentFails
  BY <1>2 DEF ContentFails, Exit
<1>3. CASE Running /\ CreateThread
  BY <1>3 DEF CreateThread
<1>4. CASE Running /\ CreateFails
  BY <1>4 DEF CreateFails, Exit
<1>5. CASE Running /\ Serve
  BY <1>5 DEF Serve
<1>6. CASE Running /\ Accept
  BY <1>6 DEF Accept
<1>7. CASE Running /\ MainLock
  BY <1>7 DEF MainLock
<1>8. CASE Running /\ Enqueue
  <2>1. Len(asked) - 1 \in Requests
    BY <1>8 DEF Enqueue
  <2>2. QED
    BY <1>8, <2>1 DEF Enqueue
<1>9. CASE Running /\ Signal
  BY <1>9 DEF Signal, Waiting
<1>10. CASE Running /\ MainUnlock
  BY <1>10 DEF MainUnlock
<1>11. ASSUME NEW w \in Workers, Running, Lock(w)
      PROVE  TypeOK'
  BY <1>11 DEF Lock
<1>12. ASSUME NEW w \in Workers, Running, Test(w)
      PROVE  TypeOK'
  BY <1>12 DEF Test
<1>13. ASSUME NEW w \in Workers, Running, SpuriousWakeup(w)
      PROVE  TypeOK'
  BY <1>13 DEF SpuriousWakeup
<1>14. ASSUME NEW w \in Workers, Running, Relock(w)
      PROVE  TypeOK'
  BY <1>14 DEF Relock
<1>15. ASSUME NEW w \in Workers, Running, Pop(w)
      PROVE  TypeOK'
  <2>1. queue # << >>
    BY <1>15 DEF Pop
  <2>2. /\ Head(queue) = taken /\ taken < Enqueued
        /\ Head(queue) \in Requests /\ Tail(queue) \in Seq(Requests)
    BY <2>1, HeadOfQueue
  <2>3. taken + 1 \in 0 .. MaxRequests
    BY <2>2, EnqueuedBound
  <2>4. /\ pc' = [pc EXCEPT ![w] = "unlock"]
        /\ job' = [job EXCEPT ![w] = Head(queue)]
        /\ queue' = Tail(queue) /\ taken' = taken + 1
        /\ UNCHANGED <<contentVars, bossVars, mutex, replyVars, endVars>>
    BY <1>15, <2>1 DEF Pop
  <2>5. QED
    BY <2>2, <2>3, <2>4
<1>16. ASSUME NEW w \in Workers, Running, Unlock(w)
      PROVE  TypeOK'
  BY <1>16 DEF Unlock
<1>17. ASSUME NEW w \in Workers, Running, ContentGet(w)
      PROVE  TypeOK'
  <2>1. job[w] \in Requests /\ Len(asked) > 0 /\ asked[Len(asked)] \in Paths
    BY <1>17, AskedWhenTaken DEF ContentGet
  <2>2. QED
    BY <1>17, <2>1 DEF ContentGet
<1>18. ASSUME NEW w \in Workers, Running, Send(w)
      PROVE  TypeOK'
  <2>1. job[w] \in Requests /\ found[job[w]] \in Paths
    BY <1>18 DEF Send
  <2>2. QED
    BY <1>18, <2>1 DEF Send
<1>19. ASSUME NEW w \in Workers, Running, SendFails(w)
      PROVE  TypeOK'
  BY <1>19 DEF SendFails
<1>20. ASSUME NEW w \in Workers, Running, BrokenPipe(w)
      PROVE  TypeOK'
  BY <1>20 DEF BrokenPipe, Exit
<1>21. ASSUME NEW w \in Workers, Running, Close(w)
      PROVE  TypeOK'
  <2>1. job[w] \in Requests
    BY <1>21 DEF Close
  <2>2. CASE socket[job[w]] = "closed"
    BY <1>21, <2>2 DEF Close, Exit
  <2>3. CASE socket[job[w]] # "closed"
    <3>1. /\ pc' = [pc EXCEPT ![w] = "free"]
          /\ socket' = [socket EXCEPT ![job[w]] = "closed"]
          /\ UNCHANGED <<contentVars, bossVars, job, mutex, queueVars, found,
                         answer, endVars>>
      BY <1>21, <2>3 DEF Close
    <3>2. socket' \in [Requests -> {"open", "closed"}]
      BY <2>1, <3>1
    <3>3. QED
      BY <3>1, <3>2
  <2>4. QED
    BY <2>2, <2>3
<1>22. ASSUME NEW w \in Workers, Running, FreePath(w)
      PROVE  TypeOK'
  BY <1>22 DEF FreePath, Exit
<1>23. CASE UNCHANGED vars
  BY <1>23
<1>24. QED
  BY <1>1, <1>2, <1>3, <1>4, <1>5, <1>6, <1>7, <1>8, <1>9, <1>10, <1>11,
     <1>12, <1>13, <1>14, <1>15, <1>16, <1>17, <1>18, <1>19, <1>20, <1>21,
     <1>22, <1>23
  DEF Next, BossStep, WorkerStep, Fault, Idle

\* Every step keeps what the control state of the boss says.
LEMMA BossInvStep == IInv /\ [Next]_vars => BossInv'
<1> SUFFICES ASSUME IInv, [Next]_vars
             PROVE  BossInv'
    OBVIOUS
<1> USE ThreadsAssumption, BoundsAssumption
        DEF IInv, TypeOK, BossInv, MutexInv, WorkerInv, WorkerOK, Running,
        Workers, Main, Nobody, None, Requests, Goto, vars, contentVars,
        bossVars, queueVars, replyVars, endVars, Serving, BossHolds, Inside,
        Busy, Answered
<1>1. ASSUME NEW w \in Workers, Running, Lock(w) \/ Test(w) \/
             SpuriousWakeup(w) \/ Relock(w) \/ Unlock(w) \/ ContentGet(w) \/
             Send(w) \/ SendFails(w) \/ BrokenPipe(w) \/ Close(w) \/
             FreePath(w)
      PROVE  BossInv'
  BY <1>1 DEF Lock, Test, SpuriousWakeup, Relock, Unlock, ContentGet, Send,
     SendFails, BrokenPipe, Exit, Close, Exit, FreePath, Exit
<1>2. CASE Running /\ LoadContent
  BY <1>2 DEF LoadContent
<1>3. CASE Running /\ ContentFails
  BY <1>3 DEF ContentFails, Exit
<1>4. CASE Running /\ CreateThread
  BY <1>4 DEF CreateThread
<1>5. CASE Running /\ CreateFails
  BY <1>5 DEF CreateFails, Exit
<1>6. CASE Running /\ Serve
  BY <1>6 DEF Serve
<1>7. CASE Running /\ Accept
  BY <1>7 DEF Accept
<1>8. CASE Running /\ MainLock
  BY <1>8 DEF MainLock
<1>9. CASE Running /\ Enqueue
  BY <1>9 DEF Enqueue
<1>10. CASE Running /\ Signal
  BY <1>10 DEF Signal, Waiting
<1>11. CASE Running /\ MainUnlock
  BY <1>11 DEF MainUnlock
<1>12. ASSUME NEW w \in Workers, Running, Pop(w)
      PROVE  BossInv'
  BY <1>12 DEF Pop, Exit
<1>13. CASE UNCHANGED vars
  BY <1>13
<1>14. QED
  BY <1>1, <1>2, <1>3, <1>4, <1>5, <1>6, <1>7, <1>8, <1>9, <1>10, <1>11,
     <1>12, <1>13
  DEF Next, BossStep, WorkerStep, Fault, Idle

\* Every step keeps the mutex with the one thread that is inside it.
LEMMA MutexStep == IInv /\ [Next]_vars => MutexInv'
<1> SUFFICES ASSUME IInv, [Next]_vars
             PROVE  MutexInv'
    OBVIOUS
<1> USE ThreadsAssumption, BoundsAssumption
        DEF IInv, TypeOK, BossInv, MutexInv, WorkerInv, WorkerOK, Running,
        Workers, Main, Nobody, None, Requests, Goto, vars, contentVars,
        bossVars, queueVars, replyVars, endVars, Serving, BossHolds, Inside,
        Busy, Answered
<1>1. CASE Running /\ LoadContent
  BY <1>1 DEF LoadContent
<1>2. CASE Running /\ ContentFails
  BY <1>2 DEF ContentFails, Exit
<1>3. CASE Running /\ CreateThread
  BY <1>3 DEF CreateThread
<1>4. CASE Running /\ CreateFails
  BY <1>4 DEF CreateFails, Exit
<1>5. CASE Running /\ Serve
  BY <1>5 DEF Serve
<1>6. CASE Running /\ Accept
  BY <1>6 DEF Accept
<1>7. CASE Running /\ MainLock
  BY <1>7 DEF MainLock
<1>8. CASE Running /\ Enqueue
  BY <1>8 DEF Enqueue
<1>9. CASE Running /\ Signal
  BY <1>9 DEF Signal, Waiting
<1>10. CASE Running /\ MainUnlock
  BY <1>10 DEF MainUnlock
<1>11. ASSUME NEW w \in Workers, Running, Lock(w)
      PROVE  MutexInv'
  BY <1>11 DEF Lock
<1>12. ASSUME NEW w \in Workers, Running, Test(w)
      PROVE  MutexInv'
  <2>1. CASE queue = << >>
    BY <1>12, <2>1 DEF Test
  <2>2. CASE queue # << >>
    BY <1>12, <2>2 DEF Test
  <2>3. QED
    BY <2>1, <2>2
<1>13. ASSUME NEW w \in Workers, Running, SpuriousWakeup(w)
      PROVE  MutexInv'
  BY <1>13 DEF SpuriousWakeup
<1>14. ASSUME NEW w \in Workers, Running, Relock(w)
      PROVE  MutexInv'
  BY <1>14 DEF Relock
<1>15. ASSUME NEW w \in Workers, Running, Pop(w)
      PROVE  MutexInv'
  BY <1>15 DEF Pop, Exit
<1>16. ASSUME NEW w \in Workers, Running, Unlock(w)
      PROVE  MutexInv'
  <2>1. mutex = w /\ boss \notin BossHolds
    BY <1>16 DEF Unlock
  <2>2. pc' = [pc EXCEPT ![w] = "get"] /\ mutex' = Nobody /\ boss' = boss
    BY <1>16 DEF Unlock
  <2>3. QED
    BY <2>1, <2>2
<1>17. ASSUME NEW w \in Workers, Running, ContentGet(w)
      PROVE  MutexInv'
  BY <1>17 DEF ContentGet
<1>18. ASSUME NEW w \in Workers, Running, Send(w)
      PROVE  MutexInv'
  BY <1>18 DEF Send
<1>19. ASSUME NEW w \in Workers, Running, SendFails(w)
      PROVE  MutexInv'
  BY <1>19 DEF SendFails
<1>20. ASSUME NEW w \in Workers, Running, BrokenPipe(w)
      PROVE  MutexInv'
  BY <1>20 DEF BrokenPipe, Exit
<1>21. ASSUME NEW w \in Workers, Running, Close(w)
      PROVE  MutexInv'
  <2>1. /\ pc[w] = "close" /\ UNCHANGED <<mutex, boss>>
        /\ pc' = pc \/ pc' = [pc EXCEPT ![w] = "free"]
    BY <1>21 DEF Close
  <2>2. CASE pc' = pc
    BY <2>1, <2>2
  <2>3. CASE pc' = [pc EXCEPT ![w] = "free"]
    BY <2>1, <2>3
  <2>4. QED
    BY <2>1, <2>2, <2>3
<1>22. ASSUME NEW w \in Workers, Running, FreePath(w)
      PROVE  MutexInv'
  BY <1>22 DEF FreePath, Exit
<1>23. CASE UNCHANGED vars
  BY <1>23
<1>24. QED
  BY <1>1, <1>2, <1>3, <1>4, <1>5, <1>6, <1>7, <1>8, <1>9, <1>10, <1>11,
     <1>12, <1>13, <1>14, <1>15, <1>16, <1>17, <1>18, <1>19, <1>20, <1>21,
     <1>22, <1>23
  DEF Next, BossStep, WorkerStep, Fault, Idle

\* Every step keeps the queue the window of requests queued and not taken.
LEMMA QueueStep == IInv /\ [Next]_vars => QueueIsWindow'
<1> SUFFICES ASSUME IInv, [Next]_vars
             PROVE  QueueIsWindow'
    OBVIOUS
<1> USE ThreadsAssumption, BoundsAssumption
        DEF IInv, TypeOK, BossInv, MutexInv, WorkerInv, WorkerOK, Running,
        Workers, Main, Nobody, None, Requests, Goto, vars, contentVars,
        bossVars, queueVars, replyVars, endVars, Serving, BossHolds, Inside,
        Busy, Answered, QueueIsWindow,
        Enqueued
<1>1. ASSUME NEW w \in Workers, Running, Lock(w) \/ Test(w) \/
             SpuriousWakeup(w) \/ Relock(w) \/ Unlock(w) \/ ContentGet(w) \/
             Send(w) \/ SendFails(w) \/ BrokenPipe(w) \/ Close(w) \/
             FreePath(w)
      PROVE  QueueIsWindow'
  <2>1. UNCHANGED <<queue, taken, boss, asked>>
    BY <1>1 DEF Lock, Test, SpuriousWakeup, Relock, Unlock, ContentGet, Send,
       SendFails, BrokenPipe, Close, FreePath
  <2>2. QED
    BY <2>1
<1>2. CASE Running /\ LoadContent
  BY <1>2 DEF LoadContent
<1>3. CASE Running /\ ContentFails
  BY <1>3 DEF ContentFails, Exit
<1>4. CASE Running /\ CreateThread
  BY <1>4 DEF CreateThread
<1>5. CASE Running /\ CreateFails
  BY <1>5 DEF CreateFails, Exit
<1>6. CASE Running /\ Serve
  BY <1>6 DEF Serve
<1>7. CASE Running /\ Accept
  BY <1>7 DEF Accept
<1>8. CASE Running /\ MainLock
  BY <1>8 DEF MainLock
<1>9. CASE Running /\ Enqueue
  <2>1. /\ Len(asked) - 1 \in Int /\ queue \in Seq(Int)
        /\ Enqueued = Len(asked) - 1 /\ Enqueued' = Len(asked)
    BY <1>9 DEF Enqueue
  <2>2. IsWindow(Append(queue, Len(asked) - 1), taken, Len(asked))
    BY <2>1, WindowAppend
  <2>3. QED
    BY <1>9, <2>1, <2>2 DEF Enqueue
<1>10. CASE Running /\ Signal
  BY <1>10 DEF Signal, Waiting
<1>11. CASE Running /\ MainUnlock
  BY <1>11 DEF MainUnlock
<1>12. ASSUME NEW w \in Workers, Running, Pop(w)
      PROVE  QueueIsWindow'
  <2>1. queue # << >>
    BY <1>12 DEF Pop
  <2>2. IsWindow(Tail(queue), taken + 1, Enqueued)
    BY <2>1, HeadOfQueue
  <2>3. queue' = Tail(queue) /\ taken' = taken + 1 /\ Enqueued' = Enqueued
    BY <1>12, <2>1 DEF Pop
  <2>4. QED
    BY <2>2, <2>3
<1>13. CASE UNCHANGED vars
  BY <1>13
<1>14. QED
  BY <1>1, <1>2, <1>3, <1>4, <1>5, <1>6, <1>7, <1>8, <1>9, <1>10, <1>11,
     <1>12, <1>13
  DEF Next, BossStep, WorkerStep, Fault, Idle

\* What may happen to the rest of the server while WorkerOK(v) stays true.
LEMMA WorkerKept ==
    ASSUME IInv, NEW v \in Workers, WorkerOK(v),
           created' = created, pc'[v] = pc[v], job'[v] = job[v],
           taken' \in Nat, taken' >= taken,
           pc[v] = "pop" => queue' # << >>,
           job[v] # None => /\ answer'[job[v]] = answer[job[v]]
                            /\ socket'[job[v]] = socket[job[v]]
                            /\ found'[job[v]] = found[job[v]]
    PROVE  WorkerOK(v)'
<1>1. taken \in Nat /\ job[v] \in Requests \cup {None}
  BY DEF IInv, TypeOK
<1>2. QED
  BY <1>1 DEF WorkerOK, Requests, None

\* Every step keeps what the control states of the workers say.
LEMMA WorkerInvStep == IInv /\ [Next]_vars => WorkerInv'
<1> SUFFICES ASSUME IInv, [Next]_vars, NEW v \in Workers
             PROVE  WorkerOK(v)'
    BY DEF WorkerInv
<1> USE ThreadsAssumption, BoundsAssumption, NoticesAssumption
        DEF IInv, TypeOK, BossInv, WorkerOK, Running, Workers, Main, Nobody,
        None, Requests, Goto, vars, contentVars, bossVars, queueVars,
        replyVars, endVars, Serving, BossHolds, Inside, Busy, Answered
<1>0. WorkerOK(v) /\ (\A w \in Workers : WorkerOK(w))
  BY DEF WorkerInv
<1>a. \A w \in Workers : job[v] = job[w] /\ job[v] # None => v = w
  BY DEF JobInv
<1>1. CASE Running /\ (LoadContent \/ ContentFails \/ CreateFails \/ Serve
           \/ Accept \/ MainLock \/ MainUnlock)
  <2>1. UNCHANGED <<created, queue, taken, pc, job, found, answer, socket>>
    BY <1>1 DEF LoadContent, ContentFails, CreateFails, Serve, Accept, MainLock,
       MainUnlock
  <2>2. QED
    BY <1>0, <2>1, WorkerKept
<1>2. ASSUME NEW w \in Workers, Running, Lock(w) \/ Test(w) \/
             SpuriousWakeup(w) \/ Relock(w) \/ Unlock(w) \/ BrokenPipe(w) \/
             FreePath(w)
      PROVE  WorkerOK(v)'
  <2>1. UNCHANGED <<created, queue, taken, job, found, answer, socket>>
    BY <1>2 DEF Lock, Test, SpuriousWakeup, Relock, Unlock, BrokenPipe, FreePath
  <2>2. /\ \A u \in Workers : u # w => pc'[u] = pc[u]
        /\ \/ pc'[w] = pc[w]
           \/ /\ pc[w] \in {"lock", "test", "wait", "relock"}
              /\ \/ pc'[w] \in {"test", "wait", "relock"}
                 \/ queue # << >> /\ pc'[w] = "pop"
           \/ pc[w] = "unlock" /\ pc'[w] = "get"
    BY <1>2 DEF Lock, Test, SpuriousWakeup, Relock, Unlock, BrokenPipe, FreePath
  <2>3. CASE pc'[v] = pc[v]
    BY <1>0, <2>1, <2>3, WorkerKept
  <2>4. CASE v = w /\ pc'[w] # pc[w]
    BY <1>0, <2>1, <2>2, <2>4
  <2>5. QED
    BY <2>2, <2>3, <2>4
<1>3. ASSUME NEW w \in Workers, Running, Send(w) \/ SendFails(w)
      PROVE  WorkerOK(v)'
  <2>1. /\ pc[w] = "send" /\ job[w] \in Requests /\ found[job[w]] \in Paths
    BY <1>0, <1>3 DEF Send, SendFails
  <2>2. PICK a \in Paths \cup {"NOT_FOUND", "incomplete"} :
               answer' = [answer EXCEPT ![job[w]] = a]
    BY <1>3, <2>1 DEF Send, SendFails
  <2>3. /\ pc' = [pc EXCEPT ![w] = "close"]
        /\ \/ socket' = socket
           \/ socket' = [socket EXCEPT ![job[w]] = "closed"]
        /\ UNCHANGED <<created, queue, taken, job, found>>
    BY <1>3 DEF Send, SendFails
  <2>4. a # "none"
    BY <2>2
  <2>5. CASE v = w
    <3>1. answer'[job[w]] = a
      BY <2>1, <2>2
    <3>2. QED
      BY <1>0, <2>1, <2>3, <2>4, <2>5, <3>1
  <2>6. CASE v # w /\ job[v] # None
    <3>1. job[v] # job[w] /\ job[v] \in Requests
      BY <1>a, <2>6
    <3>2. answer'[job[v]] = answer[job[v]] /\ socket'[job[v]] = socket[job[v]]
      BY <2>1, <2>2, <2>3, <3>1
    <3>3. QED
      BY <1>0, <2>1, <2>3, <2>6, <3>2
  <2>7. CASE v # w /\ job[v] = None
    BY <1>0, <2>1, <2>3, <2>7
  <2>8. QED
    BY <2>5, <2>6, <2>7
<1>4. CASE Running /\ CreateThread
  <2>1. created + 1 \in Workers /\ pc[created + 1] = "unborn"
    BY <1>0, <1>4 DEF CreateThread
  <2>2. /\ pc' = [pc EXCEPT ![created + 1] = "lock"]
        /\ created' = created + 1
        /\ UNCHANGED <<queue, taken, job, found, answer, socket>>
    BY <1>4 DEF CreateThread
  <2>3. CASE v = created + 1
    <3>1. pc[v] = "unborn" /\ pc'[v] = "lock" /\ job[v] = None
      BY <1>0, <2>1, <2>2, <2>3
    <3>2. QED
      BY <2>2, <2>3, <3>1
  <2>4. CASE v # created + 1
    <3>1. pc'[v] = pc[v] /\ (v > created + 1 <=> v > created)
      BY <2>1, <2>2, <2>4
    <3>2. QED
      BY <1>0, <2>2, <3>1
  <2>5. QED
    BY <2>3, <2>4
<1>5. CASE Running /\ Enqueue
  <2>1. queue' # << >>
    <3>1. queue \in Seq(Int) /\ Len(asked) - 1 \in Int
      BY DEF Enqueue
    <3>2. QED
      BY <1>5, <3>1, AppendNotEmpty DEF Enqueue
  <2>2. UNCHANGED <<created, taken, pc, job, found, answer, socket>>
    BY <1>5 DEF Enqueue
  <2>3. QED
    BY <1>0, <2>1, <2>2, WorkerKept
<1>6. CASE Running /\ Signal
  <2>0. UNCHANGED <<created, queue, taken, job, found, answer, socket>>
    BY <1>6 DEF Signal
  <2>1. CASE Waiting = {}
    <3>1. pc' = pc
      BY <1>6, <2>1 DEF Signal
    <3>2. QED
      BY <1>0, <2>0, <3>1, WorkerKept
  <2>2. CASE Waiting # {}
    <3>1. PICK w \in Workers : pc[w] = "wait" /\ pc' = [pc EXCEPT ![w] = "relock"]
      BY <1>6, <2>2 DEF Signal, Waiting
    <3>2. CASE v = w
      <4>1. pc[v] = "wait" /\ pc'[v] = "relock"
        BY <3>1, <3>2
      <4>2. QED
        BY <1>0, <2>0, <4>1
    <3>3. CASE v # w
      <4>1. pc'[v] = pc[v]
        BY <3>1, <3>3
      <4>2. QED
        BY <1>0, <2>0, <4>1, WorkerKept
    <3>4. QED
      BY <3>2, <3>3
  <2>3. QED
    BY <2>1, <2>2
<1>7. ASSUME NEW w \in Workers, Running, Pop(w)
      PROVE  WorkerOK(v)'
  <2>1. /\ queue # << >> /\ pc[w] = "pop" /\ job[w] = None
    BY <1>0, <1>7 DEF Pop
  <2>2. /\ Head(queue) = taken /\ taken \in Requests
    BY <2>1, HeadOfQueue
  <2>3. /\ pc' = [pc EXCEPT ![w] = "unlock"]
        /\ job' = [job EXCEPT ![w] = taken]
        /\ taken' = taken + 1
        /\ UNCHANGED <<created, found, answer, socket>>
    BY <1>7, <2>1, <2>2 DEF Pop
  <2>4. answer[taken] = "none" /\ socket[taken] = "open"
    BY <2>2 DEF UntouchedInv
  <2>5. v # w => pc[v] # "pop"
    <3>1. mutex = w /\ (pc[v] = "pop" => mutex = v)
      BY <2>1 DEF MutexInv
    <3>2. QED
      BY <3>1
  <2>6. CASE v = w
    <3>1. pc'[v] = "unlock" /\ job'[v] = taken /\ pc[v] = "pop"
      BY <2>1, <2>3, <2>6
    <3>2. ~(v > created)
      BY <1>0, <3>1
    <3>3. taken # None /\ taken < taken'
      BY <2>2, <2>3
    <3>4. QED
      BY <2>3, <2>4, <3>1, <3>2, <3>3
  <2>7. CASE v # w
    <3>1. pc'[v] = pc[v] /\ job'[v] = job[v] /\ taken' \in Nat /\ taken' >= taken
      BY <2>3, <2>7
    <3>2. QED
      BY <1>0, <2>3, <2>5, <2>7, <3>1, WorkerKept
  <2>8. QED
    BY <2>6, <2>7
<1>8. ASSUME NEW w \in Workers, Running, ContentGet(w)
      PROVE  WorkerOK(v)'
  <2>1. /\ pc[w] = "get" /\ job[w] \in Requests
        /\ asked[Len(asked)] \in Paths
    BY <1>0, <1>8, AskedWhenTaken DEF ContentGet
  <2>2. /\ pc' = [pc EXCEPT ![w] = "send"]
        /\ found' = [found EXCEPT ![job[w]] = asked[Len(asked)]]
        /\ UNCHANGED <<created, queue, taken, job, answer, socket>>
    BY <1>8 DEF ContentGet
  <2>3. CASE v = w
    BY <1>0, <2>1, <2>2, <2>3
  <2>4. CASE v # w
    BY <1>0, <1>a, <2>1, <2>2, <2>4
  <2>5. QED
    BY <2>3, <2>4
<1>9. ASSUME NEW w \in Workers, Running, Close(w)
      PROVE  WorkerOK(v)'
  <2>1. pc[w] = "close" /\ job[w] \in Requests
    BY <1>0, <1>9 DEF Close
  <2>2. /\ \/ pc' = pc /\ socket' = socket
           \/ /\ pc' = [pc EXCEPT ![w] = "free"]
              /\ socket' = [socket EXCEPT ![job[w]] = "closed"]
        /\ UNCHANGED <<created, queue, taken, job, found, answer>>
    BY <1>9 DEF Close
  <2>3. CASE v = w
    <3>1. \/ pc'[v] = pc[v] /\ socket' = socket
          \/ pc'[v] = "free"
      BY <2>1, <2>2, <2>3
    <3>2. CASE pc'[v] = pc[v] /\ socket' = socket
      BY <1>0, <2>2, <3>2, WorkerKept
    <3>3. CASE pc'[v] = "free"
      BY <1>0, <2>1, <2>2, <2>3, <3>3
    <3>4. QED
      BY <3>1, <3>2, <3>3
  <2>4. CASE v # w
    <3>1. pc'[v] = pc[v]
      BY <2>2, <2>4
    <3>2. job[v] # None => socket'[job[v]] = socket[job[v]]
      BY <1>a, <2>1, <2>2, <2>4
    <3>3. QED
      BY <1>0, <2>2, <3>1, <3>2, WorkerKept
  <2>5. QED
    BY <2>3, <2>4
<1>10. CASE UNCHANGED vars
  BY <1>0, <1>10
<1>11. QED
  BY <1>1, <1>2, <1>3, <1>4, <1>5, <1>6, <1>7, <1>8, <1>9, <1>10
  DEF Next, BossStep, WorkerStep, Fault, Idle

\* A request just taken is one that no worker holds, and nobody gives one up.
LEMMA JobStep == IInv /\ [Next]_vars => JobInv'
<1> SUFFICES ASSUME IInv, [Next]_vars
             PROVE  JobInv'
    OBVIOUS
<1> USE ThreadsAssumption, BoundsAssumption, NoticesAssumption
        DEF IInv, TypeOK, BossInv, WorkerOK, Running, Workers, Main, Nobody,
        None, Requests, Goto, vars, contentVars, bossVars, queueVars,
        replyVars, endVars, Serving, BossHolds, Inside, Busy, Answered, JobInv
<1>1. CASE Running /\ (LoadContent \/ ContentFails \/ CreateThread \/
           CreateFails \/ Serve \/ Accept \/ MainLock \/ Enqueue \/ Signal
           \/ MainUnlock)
  <2>1. UNCHANGED <<job, taken>>
    BY <1>1 DEF LoadContent, ContentFails, CreateThread, CreateFails, Serve,
       Accept, MainLock, Enqueue, Signal, MainUnlock
  <2>2. QED
    BY <2>1
<1>2. ASSUME NEW w \in Workers, Running, Lock(w) \/ Test(w) \/
             SpuriousWakeup(w) \/ Relock(w) \/ Unlock(w) \/ ContentGet(w) \/
             Send(w) \/ SendFails(w) \/ BrokenPipe(w) \/ Close(w) \/
             FreePath(w)
      PROVE  JobInv'
  <2>1. UNCHANGED <<job, taken>>
    BY <1>2 DEF Lock, Test, SpuriousWakeup, Relock, Unlock, ContentGet, Send,
       SendFails, BrokenPipe, Close, FreePath
  <2>2. QED
    BY <2>1
<1>3. ASSUME NEW w \in Workers, Running, Pop(w)
      PROVE  JobInv'
  <2>1. queue # << >> /\ job[w] = None
    <3>1. pc[w] = "pop" /\ WorkerOK(w)
      BY <1>3 DEF Pop, WorkerInv
    <3>2. QED
      BY <3>1
  <2>2. Head(queue) = taken /\ taken \in Requests
    BY <2>1, HeadOfQueue
  <2>3. job' = [job EXCEPT ![w] = taken] /\ taken' = taken + 1
    BY <1>3, <2>1, <2>2 DEF Pop
  <2>4. \A v \in Workers : job[v] # taken
    <3>1. ASSUME NEW v \in Workers PROVE job[v] # taken
      <4>1. WorkerOK(v)
        BY DEF WorkerInv
      <4>2. QED
        BY <4>1
    <3>2. QED
      BY <3>1
  <2>5. ASSUME NEW k \in Requests, k < taken'
        PROVE  \E v \in Workers : job'[v] = k
    <3>1. CASE k = taken
      BY <2>3, <3>1
    <3>2. CASE k # taken
      <4>1. PICK v \in Workers : job[v] = k
        BY <2>3, <2>5, <3>2
      <4>2. v # w
        BY <2>1, <4>1
      <4>3. QED
        BY <2>3, <4>1, <4>2
    <3>3. QED
      BY <3>1, <3>2
  <2>6. \A u, v \in Workers : job'[u] = job'[v] /\ job'[u] # None => u = v
    BY <2>2, <2>3, <2>4
  <2>7. QED
    BY <2>5, <2>6
<1>4. CASE UNCHANGED vars
  BY <1>4
<1>5. QED
  BY <1>1, <1>2, <1>3, <1>4
  DEF Next, BossStep, WorkerStep, Fault, Idle

\* Only the worker that holds a request sends something for it or closes it.
LEMMA UntouchedStep == IInv /\ [Next]_vars => UntouchedInv'
<1> SUFFICES ASSUME IInv, [Next]_vars
             PROVE  UntouchedInv'
    OBVIOUS
<1> USE ThreadsAssumption, BoundsAssumption, NoticesAssumption
        DEF IInv, TypeOK, BossInv, WorkerOK, Running, Workers, Main, Nobody,
        None, Requests, Goto, vars, contentVars, bossVars, queueVars,
        replyVars, endVars, Serving, BossHolds, Inside, Busy, Answered, UntouchedInv
<1>1. CASE Running /\ (LoadContent \/ ContentFails \/ CreateThread \/
           CreateFails \/ Serve \/ Accept \/ MainLock \/ Enqueue \/ Signal
           \/ MainUnlock)
  <2>1. UNCHANGED <<taken, socket, answer>>
    BY <1>1 DEF LoadContent, ContentFails, CreateThread, CreateFails, Serve,
       Accept, MainLock, Enqueue, Signal, MainUnlock
  <2>2. QED
    BY <2>1
<1>2. ASSUME NEW w \in Workers, Running, Lock(w) \/ Test(w) \/
             SpuriousWakeup(w) \/ Relock(w) \/ Unlock(w) \/ ContentGet(w) \/
             BrokenPipe(w) \/ FreePath(w) \/ Pop(w)
      PROVE  UntouchedInv'
  <2>1. UNCHANGED <<socket, answer>> /\ (taken' = taken \/ taken' = taken + 1)
    BY <1>2 DEF Lock, Test, SpuriousWakeup, Relock, Unlock, ContentGet,
       BrokenPipe, FreePath, Pop
  <2>2. QED
    BY <2>1
<1>3. ASSUME NEW w \in Workers, Running, Send(w) \/ SendFails(w) \/ Close(w)
      PROVE  UntouchedInv'
  <2>1. job[w] \in Requests /\ job[w] < taken
    BY <1>3 DEF Send, SendFails, Close, WorkerInv
  <2>2. /\ \/ socket' = socket
           \/ socket' = [socket EXCEPT ![job[w]] = "closed"]
        /\ \/ answer' = answer
           \/ \E a : answer' = [answer EXCEPT ![job[w]] = a]
        /\ taken' = taken
    BY <1>3 DEF Send, SendFails, Close
  <2>3. ASSUME NEW k \in Requests, k >= taken
        PROVE  socket'[k] = socket[k] /\ answer'[k] = answer[k]
    <3>1. k # job[w]
      BY <2>1, <2>3
    <3>2. socket'[k] = socket[k]
      BY <2>1, <2>2, <3>1
    <3>3. CASE answer' = answer
      BY <3>2, <3>3
    <3>4. ASSUME NEW a, answer' = [answer EXCEPT ![job[w]] = a]
          PROVE  answer'[k] = answer[k]
      BY <2>1, <3>1, <3>4
    <3>5. QED
      BY <2>2, <3>2, <3>3, <3>4
  <2>4. QED
    BY <2>2, <2>3
<1>4. CASE UNCHANGED vars
  BY <1>4
<1>5. QED
  BY <1>1, <1>2, <1>3, <1>4
  DEF Next, BossStep, WorkerStep, Fault, Idle

LEMMA Initially == Init => IInv
<1> SUFFICES ASSUME Init PROVE IInv
    OBVIOUS
<1> USE ThreadsAssumption, BoundsAssumption
    DEF Init, ContentInit, Workers, None, Main, Nobody, Requests
<1>1. TypeOK
  BY DEF TypeOK, Replies
<1>2. QueueIsWindow
  BY DEF QueueIsWindow, IsWindow, Enqueued
<1>3. BossInv /\ MutexInv
  BY DEF BossInv, MutexInv, Serving, BossHolds, Inside
<1>4. WorkerInv
  BY DEF WorkerInv, WorkerOK, Busy
<1>5. JobInv /\ UntouchedInv
  BY DEF JobInv, UntouchedInv
<1>6. QED
  BY <1>1, <1>2, <1>3, <1>4, <1>5 DEF IInv

LEMMA Inductive == IInv /\ [Next]_vars => IInv'
BY TypeStep, QueueStep, BossInvStep, MutexStep, WorkerInvStep, JobStep,
   UntouchedStep DEF IInv

\* The inductive invariant holds in every reachable state of the server.
THEOREM Invariance == Spec => []IInv
BY Initially, Inductive, PTL DEF Spec
-----------------------------------------------------------------------------
(***************************************************************************)
(* The properties that follow from the invariant.                          *)
(***************************************************************************)
\* Every variable of the server keeps its type.
THEOREM TypeCorrect == Spec => []TypeOK
BY Invariance, PTL DEF IInv

\* The queue holds exactly the requests queued and not yet taken, in order.
THEOREM QueueCorrect == Spec => []QueueIsWindow
BY Invariance, PTL DEF IInv

\* No request is forgotten, answered twice, or closed before its answer.
THEOREM AnswerCorrect == Spec => []AnsweredOnce
<1>1. IInv => AnsweredOnce
  <2> SUFFICES ASSUME IInv, NEW k \in 0 .. Len(asked) - 1
               PROVE  IF k < taken
                      THEN /\ Cardinality(Holders(k)) = 1
                           /\ socket[k] = "closed" => answer[k] # "none"
                      ELSE /\ Holders(k) = {}
                           /\ socket[k] = "open" /\ answer[k] = "none"
      BY DEF AnsweredOnce
  <2>1. k \in Requests /\ k # None /\ taken \in Nat
    BY BoundsAssumption DEF IInv, TypeOK, BossInv, Requests, None
  <2>2. CASE k < taken
    <3>1. PICK w \in Workers : job[w] = k
      BY <2>1, <2>2 DEF IInv, JobInv
    <3>2. Holders(k) = {w}
      BY <2>1, <3>1 DEF IInv, JobInv, Holders
    <3>3. Cardinality(Holders(k)) = 1
      BY <3>2, FS_Singleton
    <3>4. WorkerOK(w) /\ socket[k] \in {"open", "closed"}
      BY <2>1 DEF IInv, WorkerInv, TypeOK
    <3>5. socket[k] = "closed" => answer[k] # "none"
      BY <2>1, <3>1, <3>4 DEF WorkerOK
    <3>6. QED
      BY <2>2, <3>3, <3>5
  <2>3. CASE ~(k < taken)
    <3>1. \A w \in Workers : job[w] # k
      <4>1. ASSUME NEW w \in Workers, job[w] = k
            PROVE  FALSE
        <5>1. WorkerOK(w)
          BY DEF IInv, WorkerInv
        <5>2. QED
          BY <2>1, <2>3, <4>1, <5>1 DEF WorkerOK
      <4>2. QED
        BY <4>1
    <3>2. socket[k] = "open" /\ answer[k] = "none"
      BY <2>1, <2>3 DEF IInv, UntouchedInv, Requests
    <3>3. QED
      BY <2>3, <3>1, <3>2 DEF Holders
  <2>4. QED
    BY <2>2, <2>3
<1>2. QED
  BY <1>1, Invariance, PTL
-----------------------------------------------------------------------------
(***************************************************************************)
(* No wakeup is lost.                                                      *)
(***************************************************************************)
LEMMA WorkersFinite ==
    \A S \in SUBSET Workers : IsFiniteSet(S) /\ Cardinality(S) \in Nat
<1>1. IsFiniteSet(Workers)
  BY ThreadsAssumption, FS_Interval DEF Workers
<1>2. QED
  BY <1>1, FS_Subset, FS_CardinalityType

\* A step that wakes workers, or does nothing to them and to the queue.
LEMMA WakeupKept ==
    ASSUME NoLostWakeup, queue \in Seq(Requests), queue' = queue,
           boss' = "signal" <=> boss = "signal",
           \A w \in Workers : pc'[w] = "wait" => pc[w] = "wait",
           \A w \in Workers : w \in Awake => w \in Awake'
    PROVE  NoLostWakeup'
<1> SUFFICES ASSUME Waiting' # {}
             PROVE  Len(queue') <= Cardinality(Awake')
                                     + (IF boss' = "signal" THEN 1 ELSE 0)
    BY DEF NoLostWakeup
<1>1. Waiting # {}
  BY DEF Waiting
<1>2. Awake \in SUBSET Workers /\ Awake' \in SUBSET Workers
  BY DEF Awake
<1>3. Awake \in SUBSET Awake'
  BY <1>2
<1>4. /\ Cardinality(Awake) <= Cardinality(Awake')
      /\ Cardinality(Awake) \in Nat /\ Cardinality(Awake') \in Nat
  BY <1>2, <1>3, WorkersFinite, FS_Subset
<1>5. Len(queue) <= Cardinality(Awake) + (IF boss = "signal" THEN 1 ELSE 0)
  BY <1>1 DEF NoLostWakeup
<1>6. QED
  BY <1>4, <1>5

LEMMA WakeupStep == IInv /\ NoLostWakeup /\ [Next]_vars => NoLostWakeup'
<1> SUFFICES ASSUME IInv, NoLostWakeup, [Next]_vars
             PROVE  NoLostWakeup'
    OBVIOUS
<1>0. /\ queue \in Seq(Requests) /\ Len(queue) \in Nat
      /\ DOMAIN pc = Workers /\ Requests \subseteq Int
  BY BoundsAssumption DEF IInv, TypeOK, Requests
<1>a. /\ Awake \in SUBSET Workers /\ Awake' \in SUBSET Workers
      /\ Cardinality(Awake) \in Nat /\ Cardinality(Awake') \in Nat
      /\ IsFiniteSet(Awake)
  BY WorkersFinite DEF Awake
<1>1. CASE Running /\ CreateThread
  <2>1. created + 1 \in Workers /\ pc[created + 1] = "unborn"
    <3>1. created + 1 \in Workers /\ created \in Nat
      BY <1>1, ThreadsAssumption DEF CreateThread, IInv, TypeOK, Workers
    <3>2. WorkerOK(created + 1)
      BY <3>1 DEF IInv, WorkerInv
    <3>3. QED
      BY <3>1, <3>2 DEF WorkerOK
  <2>2. /\ pc' = [pc EXCEPT ![created + 1] = "lock"]
        /\ queue' = queue /\ boss' = boss
    BY <1>1 DEF CreateThread, queueVars
  <2>3. QED
    BY <1>0, <2>1, <2>2, WakeupKept DEF Awake
<1>2. CASE Running /\ (\/ LoadContent \/ ContentFails \/ CreateFails \/ Serve
                      \/ Accept \/ MainLock \/ MainUnlock)
  <2>1. /\ pc' = pc /\ queue' = queue
        /\ boss # "signal" /\ boss' # "signal"
    BY <1>2 DEF LoadContent, ContentFails, CreateFails, Serve, Accept,
       MainLock, MainUnlock, queueVars, bossVars
  <2>2. QED
    BY <1>0, <2>1, WakeupKept DEF Awake
<1>3. CASE Running /\ Enqueue
  <2>1. Len(asked) - 1 \in Int
    BY DEF IInv, TypeOK
  <2>2. Len(queue') = Len(queue) + 1
    BY <1>0, <1>3, <2>1 DEF Enqueue
  <2>3. pc' = pc /\ boss = "enqueue" /\ boss' = "signal"
    BY <1>3 DEF Enqueue
  <2>4. Awake' = Awake /\ Waiting' = Waiting
    BY <2>3 DEF Awake, Waiting
  <2>5. QED
    BY <1>0, <1>a, <2>2, <2>3, <2>4 DEF NoLostWakeup
<1>4. CASE Running /\ Signal
  <2>1. boss = "signal" /\ boss' = "unlock" /\ queue' = queue
    BY <1>4 DEF Signal, queueVars
  <2>2. CASE Waiting = {}
    <3>1. pc' = pc
      BY <1>4, <2>2 DEF Signal
    <3>2. Waiting' = {}
      BY <2>2, <3>1 DEF Waiting
    <3>3. QED
      BY <3>2 DEF NoLostWakeup
  <2>3. CASE Waiting # {}
    <3>1. PICK w \in Waiting : pc' = [pc EXCEPT ![w] = "relock"]
      BY <1>4, <2>3 DEF Signal
    <3>2. w \in Workers /\ w \notin Awake
      BY <3>1 DEF Waiting, Awake
    <3>3. Awake' = Awake \cup {w}
      BY <1>0, <3>1, <3>2 DEF Awake
    <3>4. Cardinality(Awake') = Cardinality(Awake) + 1
      BY <1>a, <3>2, <3>3, FS_AddElement
    <3>5. Len(queue) <= Cardinality(Awake) + 1
      BY <2>1, <2>3 DEF NoLostWakeup
    <3>6. QED
      BY <1>0, <1>a, <2>1, <3>4, <3>5 DEF NoLostWakeup
  <2>4. QED
    BY <2>2, <2>3
<1>5. ASSUME NEW w \in Workers, Running, Test(w)
      PROVE  NoLostWakeup'
  <2>1. queue' = queue /\ boss' = boss
    BY <1>5 DEF Test, queueVars, bossVars
  <2>2. CASE queue = << >>
    BY <1>a, <2>1, <2>2 DEF NoLostWakeup
  <2>3. CASE queue # << >>
    <3>1. pc[w] = "test" /\ pc' = [pc EXCEPT ![w] = "pop"]
      BY <1>5, <2>3 DEF Test, Goto
    <3>2. QED
      BY <1>0, <2>1, <3>1, WakeupKept DEF Awake
  <2>4. QED
    BY <2>2, <2>3
<1>6. ASSUME NEW w \in Workers, Running, Pop(w)
      PROVE  NoLostWakeup'
  <2>1. pc[w] = "pop" /\ queue # << >>
    BY <1>6 DEF Pop, IInv, WorkerInv, WorkerOK
  <2>2. /\ pc' = [pc EXCEPT ![w] = "unlock"]
        /\ queue' = Tail(queue) /\ boss' = boss
    BY <1>6, <2>1 DEF Pop, Goto, bossVars
  <2>3. Len(queue') = Len(queue) - 1
    BY <1>0, <2>1, <2>2
  <2>4. w \in Awake /\ Awake' = Awake \ {w}
    BY <1>0, <2>1, <2>2 DEF Awake
  <2>5. Cardinality(Awake') = Cardinality(Awake) - 1
    BY <1>a, <2>4, FS_RemoveElement
  <2>6. Waiting' = Waiting
    BY <1>0, <2>1, <2>2 DEF Waiting
  <2>7. QED
    BY <1>0, <1>a, <2>2, <2>3, <2>5, <2>6 DEF NoLostWakeup
<1>7. ASSUME NEW w \in Workers, Running,
             \/ Lock(w) \/ Relock(w) \/ SpuriousWakeup(w) \/ Unlock(w)
             \/ ContentGet(w) \/ Send(w) \/ SendFails(w) \/ BrokenPipe(w)
             \/ Close(w) \/ FreePath(w)
      PROVE  NoLostWakeup'
  <2>1. queue' = queue /\ boss' = boss
    BY <1>7 DEF Lock, Relock, SpuriousWakeup, Unlock, ContentGet, Send,
       SendFails, BrokenPipe, Close, FreePath, queueVars, bossVars
  <2>2. \/ pc' = pc
        \/ \E to \in {"test", "relock"} : pc' = [pc EXCEPT ![w] = to]
        \/ /\ pc[w] \notin {"lock", "relock", "test", "pop"}
           /\ \E to \in {"get", "send", "close", "free"} :
                  pc' = [pc EXCEPT ![w] = to]
    BY <1>7 DEF Lock, Relock, SpuriousWakeup, Unlock, ContentGet, Send,
       SendFails, BrokenPipe, Close, FreePath, Goto
  <2>3. QED
    BY <1>0, <2>1, <2>2, WakeupKept DEF Awake
<1>8. CASE UNCHANGED vars
  BY <1>0, <1>8, WakeupKept DEF vars, queueVars, bossVars, Awake
<1>9. QED
  BY <1>1, <1>2, <1>3, <1>4, <1>5, <1>6, <1>7, <1>8
  DEF Next, BossStep, WorkerStep, Fault, Idle

\* Whenever a worker sleeps, every queued request whose signal was sent has
\* an awake worker that will look at the queue before it blocks.
THEOREM WakeupCorrect == Spec => []NoLostWakeup
<1>1. Init => NoLostWakeup
  BY DEF Init, NoLostWakeup, Waiting
<1>2. QED
  BY <1>1, WakeupStep, Invariance, PTL DEF Spec
-----------------------------------------------------------------------------
(***************************************************************************)
(* The binary search of content_get, for every sorted table: that the      *)
(* recursion defines a function is shown by induction over the width of    *)
(* the range that is left to search, and so is what the function returns.  *)
(***************************************************************************)
Ranges == (0 .. Len(items)) \X (-1 .. Len(items) - 1)

Mid(r) == r[1] + (r[2] - r[1]) \div 2

\* One round of the loop, s being what the later rounds return.
Round(s, key, r) ==
    LET lo  == r[1]
        hi  == r[2]
        mid == lo + (hi - lo) \div 2
        cmp == strcmp(key, items[mid + 1])
    IN  IF lo > hi THEN -1
        ELSE IF cmp = 0 THEN mid
        ELSE IF cmp < 0 THEN s[<<lo, mid - 1>>]
        ELSE s[<<mid + 1, hi>>]

IsSearch(s, key) == s = [r \in Ranges |-> Round(s, key, r)]

\* What remains after a round that did not end is a narrower range.
LEMMA Narrower ==
    ASSUME items \in Seq(Keys), NEW r \in Ranges, ~(r[1] > r[2])
    PROVE  /\ Mid(r) \in r[1] .. r[2]
           /\ Mid(r) \in 0 .. Len(items) - 1
           /\ <<r[1], Mid(r) - 1>> \in Ranges
           /\ <<Mid(r) + 1, r[2]>> \in Ranges
<1>1. Len(items) \in Nat
  OBVIOUS
<1>2. r[1] \in 0 .. Len(items) /\ r[2] \in -1 .. Len(items) - 1
  BY DEF Ranges
<1>3. Mid(r) \in r[1] .. r[2]
  BY <1>1, <1>2 DEF Mid
<1>4. QED
  BY <1>1, <1>2, <1>3 DEF Ranges

\* s is right on the ranges of at most k entries.
RightTo(s, key, k) ==
    /\ s = [r \in Ranges |-> s[r]]
    /\ \A r \in Ranges : r[2] - r[1] + 1 <= k => s[r] = Round(s, key, r)

\* Such a function can be made right on those of k + 1 entries.
LEMMA SearchExtends ==
    ASSUME items \in Seq(Keys), NEW key, NEW k \in Nat, NEW s,
           RightTo(s, key, k)
    PROVE  \E t : RightTo(t, key, k + 1)
<1> DEFINE t == [r \in Ranges |-> Round(s, key, r)]
<1>1. ASSUME NEW r \in Ranges, r[2] - r[1] + 1 <= k
      PROVE  t[r] = s[r]
  BY <1>1 DEF RightTo
<1>2. ASSUME NEW r \in Ranges, r[2] - r[1] + 1 <= k + 1
      PROVE  Round(t, key, r) = Round(s, key, r)
  <2>1. r[1] \in Int /\ r[2] \in Int
    BY DEF Ranges
  <2>2. CASE r[1] > r[2]
    BY <2>2 DEF Round
  <2>3. CASE ~(r[1] > r[2])
    <3>1. /\ Mid(r) \in r[1] .. r[2]
          /\ <<r[1], Mid(r) - 1>> \in Ranges /\ <<Mid(r) + 1, r[2]>> \in Ranges
      BY <2>3, Narrower
    <3>2. (Mid(r) - 1) - r[1] + 1 <= k /\ r[2] - (Mid(r) + 1) + 1 <= k
      BY <1>2, <2>1, <3>1
    <3>3. /\ t[<<r[1], Mid(r) - 1>>] = s[<<r[1], Mid(r) - 1>>]
          /\ t[<<Mid(r) + 1, r[2]>>] = s[<<Mid(r) + 1, r[2]>>]
      BY <1>1, <3>1, <3>2
    <3> HIDE DEF t
    <3>4. QED
      BY <3>3 DEF Round, Mid
  <2>4. QED
    BY <2>2, <2>3
<1>3. t = [r \in Ranges |-> t[r]]
  OBVIOUS
<1>4. \A r \in Ranges : t[r] = Round(s, key, r)
  OBVIOUS
<1> HIDE DEF t
<1>5. RightTo(t, key, k + 1)
  BY <1>2, <1>3, <1>4 DEF RightTo
<1>6. QED
  BY <1>5

LEMMA SearchExists ==
    ASSUME items \in Seq(Keys), NEW key
    PROVE  \E s : IsSearch(s, key)
<1> DEFINE S == {k \in Nat : \E s : RightTo(s, key, k)}
<1>1. 0 \in S
  <2> DEFINE s == [r \in Ranges |-> -1]
  <2>1. s = [r \in Ranges |-> s[r]]
    OBVIOUS
  <2>2. ASSUME NEW r \in Ranges, r[2] - r[1] + 1 <= 0
        PROVE  s[r] = Round(s, key, r)
    <3>1. r[1] > r[2]
      BY <2>2 DEF Ranges
    <3>2. QED
      BY <3>1 DEF Round
  <2> HIDE DEF s
  <2>3. RightTo(s, key, 0)
    BY <2>1, <2>2 DEF RightTo
  <2>4. QED
    BY <2>3
<1>2. \A k \in S : k + 1 \in S
  BY SearchExtends
<1>3. S = Nat
  <2>1. S \in SUBSET Nat
    OBVIOUS
  <2> HIDE DEF S
  <2>2. QED
    BY <1>1, <1>2, <2>1, SetInduction
<1>4. Len(items) \in Nat
  OBVIOUS
<1>5. PICK s : RightTo(s, key, Len(items))
  BY <1>3, <1>4
<1>6. \A r \in Ranges : s[r] = Round(s, key, r)
  <2>1. ASSUME NEW r \in Ranges
        PROVE  r[2] - r[1] + 1 <= Len(items)
    BY <1>4 DEF Ranges
  <2>2. QED
    BY <1>5, <2>1 DEF RightTo
<1>7. s = [r \in Ranges |-> Round(s, key, r)]
  BY <1>5, <1>6 DEF RightTo
<1>8. QED
  BY <1>7 DEF IsSearch

\* content_get returns what the search of the whole table does.
LEMMA GetIsSearch ==
    ASSUME items \in Seq(Keys), NEW key
    PROVE  \E s : /\ \A r \in Ranges : s[r] = Round(s, key, r)
                  /\ content_get(key) = s[<<0, Len(items) - 1>>]
<1> DEFINE s == CHOOSE t : IsSearch(t, key)
<1>1. content_get(key) = s[<<0, Len(items) - 1>>]
  BY Zenon DEF content_get, IsSearch, Ranges, Round
<1>2. IsSearch(s, key)
  BY SearchExists, Zenon
<1> HIDE DEF s
<1>3. \A r \in Ranges : s[r] = Round(s, key, r)
  BY <1>2 DEF IsSearch
<1>4. QED
  BY <1>1, <1>3

\* strcmp tells two keys apart, and orders them.
LEMMA CompareKeys ==
    ASSUME NEW a \in Keys, NEW b \in Keys
    PROVE  /\ strcmp(a, b) \in Int
           /\ strcmp(a, b) = 0 <=> a = b
           /\ strcmp(b, a) < 0 <=> strcmp(a, b) > 0
<1>1. ASSUME NEW k \in Keys
      PROVE  Place(k) \in Int /\ Names[Place(k)] = k
  <2>1. \E i \in DOMAIN Names : Names[i] = k
    BY DEF Keys
  <2>2. Place(k) \in DOMAIN Names /\ Names[Place(k)] = k
    BY <2>1, Zenon DEF Place
  <2>3. QED
    BY <2>2, NamesAssumption
<1>2. /\ Place(a) \in Int /\ Names[Place(a)] = a
      /\ Place(b) \in Int /\ Names[Place(b)] = b
  BY <1>1
<1>3. QED
  BY <1>2 DEF strcmp

\* What the search returns for a range of a sorted table.
Outcome(s, key, r) ==
    \/ /\ s[r] = -1
       /\ \A i \in r[1] .. r[2] : items[i + 1] # key
    \/ /\ s[r] \in r[1] .. r[2]
       /\ items[s[r] + 1] = key

LEMMA SearchOutcome ==
    ASSUME items \in Seq(Keys), Sorted(items), NEW key \in Keys, NEW s,
           \A r \in Ranges : s[r] = Round(s, key, r)
    PROVE  \A r \in Ranges : Outcome(s, key, r)
<1> DEFINE S == {k \in Nat :
                    \A r \in Ranges :
                        r[2] - r[1] + 1 <= k => Outcome(s, key, r)}
<1>0. Len(items) \in Nat
  OBVIOUS
<1>1. ASSUME NEW r \in Ranges, r[1] > r[2]
      PROVE  Outcome(s, key, r)
  <2>1. s[r] = -1
    BY <1>1 DEF Round
  <2>2. r[1] .. r[2] = {}
    BY <1>0, <1>1 DEF Ranges
  <2>3. QED
    BY <2>1, <2>2 DEF Outcome
<1>2. 0 \in S
  <2>1. ASSUME NEW r \in Ranges, r[2] - r[1] + 1 <= 0
        PROVE  r[1] > r[2]
    BY <1>0, <2>1 DEF Ranges
  <2>2. QED
    BY <1>1, <2>1
<1>3. ASSUME NEW k \in S, NEW r \in Ranges, r[2] - r[1] + 1 <= k + 1
      PROVE  Outcome(s, key, r)
  <2> DEFINE m == Mid(r)
             left  == <<r[1], m - 1>>
             right == <<m + 1, r[2]>>
  <2>1. CASE r[1] > r[2]
    BY <1>1, <2>1
  <2>2. CASE ~(r[1] > r[2])
    <3>1. /\ m \in r[1] .. r[2] /\ m \in 0 .. Len(items) - 1
          /\ left \in Ranges /\ right \in Ranges
      BY <2>2, Narrower
    <3>2. r[1] \in 0 .. Len(items) /\ r[2] \in -1 .. Len(items) - 1 /\ k \in Nat
      BY DEF Ranges
    <3>3. Outcome(s, key, left) /\ Outcome(s, key, right)
      <4>1. /\ left[1] = r[1] /\ left[2] = m - 1
            /\ right[1] = m + 1 /\ right[2] = r[2]
        OBVIOUS
      <4> HIDE DEF m, left, right, S
      <4>2. left[2] - left[1] + 1 <= k /\ right[2] - right[1] + 1 <= k
        <5>1. r[1] \in Int /\ r[2] \in Int /\ k \in Int /\ m \in Int
          BY <1>0, <3>1, <3>2
        <5>2. r[2] - r[1] + 1 <= k + 1 /\ r[1] <= m /\ m <= r[2]
          BY <1>3, <3>1, <5>1
        <5>3. (m - 1) - r[1] + 1 <= k /\ r[2] - (m + 1) + 1 <= k
          BY <5>1, <5>2
        <5>4. QED
          BY <4>1, <5>3
      <4>3. QED
        BY <3>1, <4>2 DEF S
    <3>4. /\ items[m + 1] \in Keys
          /\ \A i \in 0 .. Len(items) - 1 : items[i + 1] \in Keys
      BY <1>0, <3>1
    <3>5. s[r] = IF strcmp(key, items[m + 1]) = 0 THEN m
                 ELSE IF strcmp(key, items[m + 1]) < 0 THEN s[left] ELSE s[right]
      BY <2>2 DEF Round, Mid
    <3>6. \A i, j \in 0 .. Len(items) - 1 :
              i < j => ~(strcmp(items[j + 1], items[i + 1]) < 0)
      <4>1. ASSUME NEW i \in 0 .. Len(items) - 1, NEW j \in 0 .. Len(items) - 1,
                   i < j
            PROVE  ~(strcmp(items[j + 1], items[i + 1]) < 0)
        <5>1. i + 1 \in DOMAIN items /\ j + 1 \in DOMAIN items /\ i + 1 < j + 1
          BY <1>0, <4>1
        <5>2. QED
          BY <5>1 DEF Sorted, Precedes
      <4>2. QED
        BY <4>1
    <3> HIDE DEF m, left, right
    <3>7. CASE strcmp(key, items[m + 1]) = 0
      <4>1. s[r] = m /\ items[m + 1] = key
        BY <3>4, <3>5, <3>7, CompareKeys
      <4>2. QED
        BY <3>1, <4>1 DEF Outcome
    <3>8. CASE strcmp(key, items[m + 1]) < 0
      <4>1. s[r] = s[left]
        BY <3>5, <3>8
      <4>2. ASSUME NEW i \in m .. r[2]
            PROVE  items[i + 1] # key
        <5>1. i \in 0 .. Len(items) - 1
          BY <3>1, <3>2
        <5>2. ~(strcmp(items[i + 1], items[m + 1]) < 0)
          <6>1. CASE i = m
            BY <3>4, <6>1, CompareKeys
          <6>2. CASE i # m
            BY <3>1, <3>6, <5>1, <6>2
          <6>3. QED
            BY <6>1, <6>2
        <5>3. QED
          BY <3>8, <5>2
      <4>3. left[1] = r[1] /\ left[2] = m - 1
        BY DEF left
      <4>4. QED
        BY <3>1, <3>2, <3>3, <4>1, <4>2, <4>3 DEF Outcome
    <3>9. CASE ~(strcmp(key, items[m + 1]) = 0) /\ ~(strcmp(key, items[m + 1]) < 0)
      <4>1. s[r] = s[right]
        BY <3>5, <3>9
      <4>2. strcmp(items[m + 1], key) < 0
        BY <3>4, <3>9, CompareKeys
      <4>3. ASSUME NEW i \in r[1] .. m
            PROVE  items[i + 1] # key
        <5>1. i \in 0 .. Len(items) - 1
          BY <3>1, <3>2
        <5>2. ~(strcmp(items[m + 1], items[i + 1]) < 0)
          <6>1. CASE i = m
            BY <3>4, <6>1, CompareKeys
          <6>2. CASE i # m
            BY <3>1, <3>6, <5>1, <6>2
          <6>3. QED
            BY <6>1, <6>2
        <5>3. QED
          BY <4>2, <5>2
      <4>4. right[1] = m + 1 /\ right[2] = r[2]
        BY DEF right
      <4>5. QED
        BY <3>1, <3>2, <3>3, <4>1, <4>3, <4>4 DEF Outcome
    <3>10. QED
      BY <3>7, <3>8, <3>9
  <2>3. QED
    BY <2>1, <2>2
<1>4. \A k \in S : k + 1 \in S
  BY <1>3
<1>5. S = Nat
  <2>1. S \in SUBSET Nat
    OBVIOUS
  <2> HIDE DEF S
  <2>2. QED
    BY <1>2, <1>4, <2>1, SetInduction
<1>6. \A r \in Ranges : r[2] - r[1] + 1 <= Len(items)
  BY <1>0 DEF Ranges
<1>7. QED
  BY <1>0, <1>5, <1>6

\* The binary search finds a key exactly if a sorted table has it.
LEMMA GetCorrect ==
    ASSUME items \in Seq(Keys), Sorted(items), NEW key \in Keys
    PROVE  content_get(key) >= 0 <=> \E i \in DOMAIN items : items[i] = key
<1>1. PICK s : /\ \A r \in Ranges : s[r] = Round(s, key, r)
               /\ content_get(key) = s[<<0, Len(items) - 1>>]
  BY GetIsSearch
<1>2. Len(items) \in Nat /\ <<0, Len(items) - 1>> \in Ranges
  BY DEF Ranges
<1>3. Outcome(s, key, <<0, Len(items) - 1>>)
  BY <1>1, <1>2, SearchOutcome
<1>4. CASE content_get(key) = -1 /\ \A i \in 0 .. Len(items) - 1 : items[i + 1] # key
  <2>1. ASSUME NEW i \in DOMAIN items
        PROVE  items[i] # key
    <3>1. i - 1 \in 0 .. Len(items) - 1 /\ (i - 1) + 1 = i
      BY <1>2
    <3>2. items[(i - 1) + 1] # key
      BY <1>4, <3>1
    <3>3. QED
      BY <3>1, <3>2
  <2>2. QED
    BY <1>4, <2>1
<1>5. CASE /\ content_get(key) \in 0 .. Len(items) - 1
           /\ items[content_get(key) + 1] = key
  <2>1. content_get(key) + 1 \in DOMAIN items
    BY <1>2, <1>5
  <2>2. QED
    BY <1>2, <1>5, <2>1
<1>6. QED
  BY <1>1, <1>3, <1>4, <1>5 DEF Outcome
-----------------------------------------------------------------------------
(***************************************************************************)
(* Who is refused a file, and who is sent one.                             *)
(***************************************************************************)
\* The table is sorted and holds the lines of the content file.
ContentInv ==
    /\ Sorted(items)
    /\ listed = {items[i] : i \in DOMAIN items}

LEMMA ContentStep == IInv /\ ContentInv /\ [Next]_vars => ContentInv'
<1> SUFFICES ASSUME IInv, ContentInv, [Next]_vars
             PROVE  ContentInv'
    OBVIOUS
<1>1. CASE LoadContent
  <2>1. PICK file \in ContentFiles : content_init(file)
    BY <1>1 DEF LoadContent
  <2>2. QED
    BY <2>1, InitTable DEF ContentInv
<1>2. CASE UNCHANGED contentVars
  BY <1>2 DEF contentVars, ContentInv, Sorted, Precedes
<1>3. [Next]_vars => LoadContent \/ UNCHANGED contentVars
  BY DEF Next, BossStep, WorkerStep, Fault, Idle, ContentFails, CreateThread,
     CreateFails, Serve, Accept, MainLock, Enqueue, Signal, MainUnlock, Lock,
     Test, SpuriousWakeup, Relock, Pop, Unlock, ContentGet, Send, SendFails,
     BrokenPipe, Close, FreePath, vars
<1>4. QED
  BY <1>1, <1>2, <1>3

\* What content_get says of a path that was read is whether it is listed.
LEMMA GetListed ==
    ASSUME IInv, ContentInv, NEW p \in Paths
    PROVE  content_get(p) >= 0 <=> p \in listed
<1>1. items \in Seq(Keys) /\ Sorted(items) /\ p \in Keys
  BY PathsAssumption DEF IInv, TypeOK, ContentInv
<1>2. QED
  BY <1>1, GetCorrect DEF ContentInv

LEMMA FoundStep ==
    IInv /\ ContentInv /\ FoundIfListed /\ [Next]_vars => FoundIfListed'
<1> SUFFICES ASSUME IInv, ContentInv, FoundIfListed, [Next]_vars
             PROVE  FoundIfListed'
    OBVIOUS
<1>1. CASE LoadContent
  <2>1. boss = "content" /\ answer' = answer
    BY <1>1 DEF LoadContent, replyVars
  <2>2. taken = 0
    <3>1. Enqueued = 0 /\ Len(queue) = Enqueued - taken
      BY <2>1 DEF IInv, BossInv, Serving, Enqueued, QueueIsWindow, IsWindow
    <3>2. taken \in Nat /\ Len(queue) \in Nat
      BY DEF IInv, TypeOK
    <3>3. QED
      BY <3>1, <3>2
  <2>3. \A k \in Requests : answer'[k] = "none"
    BY <2>1, <2>2 DEF IInv, UntouchedInv, Requests
  <2>4. QED
    BY <2>3, NoticesAssumption DEF FoundIfListed
<1>2. ASSUME NEW w \in Workers, ContentGet(w)
      PROVE  FoundIfListed'
  <2>1. pc[w] = "get" /\ job[w] \in Requests /\ answer[job[w]] = "none"
    <3>1. WorkerOK(w) /\ pc[w] = "get" /\ job[w] \in Requests \cup {None}
      BY <1>2 DEF ContentGet, Goto, IInv, WorkerInv, TypeOK
    <3>2. QED
      BY <3>1 DEF WorkerOK, Busy, Answered
  <2>2. /\ \E p : found' = [found EXCEPT ![job[w]] = p]
        /\ UNCHANGED <<answer, listed>>
    BY <1>2 DEF ContentGet, contentVars
  <2>3. ASSUME NEW k \in Requests, answer[k] # "none"
        PROVE  found'[k] = found[k]
    BY <2>1, <2>2, <2>3 DEF IInv, TypeOK
  <2>4. QED
    BY <2>2, <2>3, NoticesAssumption DEF FoundIfListed
<1>3. ASSUME NEW w \in Workers, Send(w) \/ SendFails(w)
      PROVE  FoundIfListed'
  <2>1. job[w] \in Requests /\ found[job[w]] \in Paths
    <3>1. WorkerOK(w) /\ pc[w] = "send" /\ job[w] \in Requests \cup {None}
      BY <1>3 DEF Send, SendFails, Goto, IInv, WorkerInv, TypeOK
    <3>2. QED
      BY <3>1 DEF WorkerOK, Busy, Answered
  <2>2. content_get(found[job[w]]) >= 0 <=> found[job[w]] \in listed
    BY <2>1, GetListed
  <2>3. PICK a : /\ answer' = [answer EXCEPT ![job[w]] = a]
                 /\ a = "NOT_FOUND" => found[job[w]] \notin listed
                 /\ a # "NOT_FOUND" => found[job[w]] \in listed
    BY <1>3, <2>1, <2>2, NoticesAssumption DEF Send, SendFails
  <2>4. UNCHANGED <<found, listed>>
    BY <1>3 DEF Send, SendFails, contentVars
  <2>5. ASSUME NEW k \in Requests
        PROVE  /\ answer'[k] = "NOT_FOUND" => found[k] \notin listed
               /\ answer'[k] \in Paths \cup {"incomplete"} => found[k] \in listed
    <3>1. CASE k = job[w]
      <4>1. answer'[k] = a
        BY <2>1, <2>3, <3>1 DEF IInv, TypeOK
      <4>2. QED
        BY <2>3, <3>1, <4>1, NoticesAssumption
    <3>2. CASE k # job[w]
      <4>1. answer'[k] = answer[k]
        BY <2>3, <3>2 DEF IInv, TypeOK
      <4>2. QED
        BY <4>1 DEF FoundIfListed
    <3>3. QED
      BY <3>1, <3>2
  <2>6. QED
    BY <2>4, <2>5 DEF FoundIfListed
<1>4. CASE UNCHANGED <<found, listed, answer>>
  BY <1>4 DEF FoundIfListed
<1>5. [Next]_vars =>
          \/ LoadContent
          \/ \E w \in Workers : ContentGet(w) \/ Send(w) \/ SendFails(w)
          \/ UNCHANGED <<found, listed, answer>>
  BY DEF Next, BossStep, WorkerStep, Fault, Idle, ContentFails, CreateThread,
     CreateFails, Serve, Accept, MainLock, Enqueue, Signal, MainUnlock, Lock,
     Test, SpuriousWakeup, Relock, Pop, Unlock, BrokenPipe, Close, FreePath,
     vars, contentVars, replyVars
<1>6. QED
  BY <1>1, <1>2, <1>3, <1>4, <1>5

\* Nobody is refused a file that the content file lists, and nobody is sent
\* one for a key that it lacks: the binary search is right for every table.
THEOREM SearchCorrect == Spec => []FoundIfListed
<1>1. Init => ContentInv /\ FoundIfListed
  <2> SUFFICES ASSUME Init PROVE ContentInv /\ FoundIfListed
      OBVIOUS
  <2>1. items = << >> /\ listed = {} /\ \A k \in Requests : answer[k] = "none"
    BY DEF Init, ContentInit
  <2>2. ContentInv
    BY <2>1 DEF ContentInv, Sorted
  <2>3. FoundIfListed
    BY <2>1, NoticesAssumption DEF FoundIfListed
  <2>4. QED
    BY <2>2, <2>3
<1>2. QED
  BY <1>1, ContentStep, FoundStep, Invariance, PTL DEF Spec
=============================================================================
