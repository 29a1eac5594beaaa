--------------------------- MODULE MTClientProofs ----------------------------
(***************************************************************************)
(* Proofs about MTClient, for any number of threads, of requests per       *)
(* thread, of paths in the workload and of spurious wakeups.               *)
(***************************************************************************)
EXTENDS MTClient, WindowProofs, FiniteSetTheorems, TLAPS

\* The inductive invariant: the types, the lock, what the queue holds, and
\* what the control states say of the rest.
IInv == TypeOK /\ MutualExclusion /\ QueueIsWindow /\ RequestsNotShared
        /\ ControlInv

LEMMA TotalNat == Total \in Nat
BY ThreadsAssumption DEF Total

LEMMA EnqueuedBound == TypeOK /\ BossInv => Enqueued \in 0 .. Total
<1> SUFFICES ASSUME TypeOK, BossInv PROVE Enqueued \in 0 .. Total
    OBVIOUS
<1>1. main \in MainStates /\ i \in Nat /\ Total \in Nat
  BY TotalNat DEF TypeOK
<1>2. QED
  BY <1>1 DEF BossInv, Enqueued, MainStates

LEMMA PathType == \A k \in Nat : PathOf(k) \in STRING
<1> SUFFICES ASSUME NEW k \in Nat PROVE PathOf(k) \in STRING
    OBVIOUS
<1>1. Len(Workload) \in Nat \ {0}
  BY WorkloadAssumption
<1>2. k % Len(Workload) \in 0 .. Len(Workload) - 1
  BY <1>1
<1>3. QED
  BY <1>1, <1>2, WorkloadAssumption DEF PathOf

\* What a worker that finds the queue not empty takes is the next request.
LEMMA HeadOfQueue ==
    IInv /\ Running /\ queue # << >> =>
        /\ Head(queue) = taken /\ taken < Enqueued
        /\ taken + 1 \in 0 .. Total
        /\ taken \in Requests
<1> SUFFICES ASSUME IInv, Running, queue # << >>
             PROVE  /\ Head(queue) = taken /\ taken < Enqueued
                    /\ taken + 1 \in 0 .. Total
                    /\ taken \in Requests
    OBVIOUS
<1>1. /\ queue \in Seq(Int) /\ taken \in 0 .. Total
      /\ IsWindow(queue, taken, Enqueued)
  BY TotalNat DEF IInv, TypeOK, QueueIsWindow, ControlInv, Running, Requests
<1>2. Enqueued \in 0 .. Total /\ Total \in Nat
  BY EnqueuedBound, TotalNat DEF IInv, ControlInv
<1>3. Head(queue) = taken /\ taken < Enqueued
  BY <1>1, <1>2, WindowTail
<1>4. taken + 1 \in 0 .. Total /\ taken \in 0 .. Total - 1
  BY <1>1, <1>2, <1>3
<1>5. QED
  BY <1>3, <1>4 DEF Requests

\* Every step keeps the types.
LEMMA TypeStep == IInv /\ [Next]_vars => TypeOK'
<1> SUFFICES ASSUME IInv, [Next]_vars
             PROVE  TypeOK'
    OBVIOUS
<1> USE TotalNat, ThreadsAssumption, SpuriousAssumption, OutcomesAssumption
        DEF Running, Workers, Main, Nobody, None, Requests, Goto, LoopHead,
        vars, bossVars, loopVars, queueVars, endVars, fileVars, numVars,
        IInv, TypeOK, QueueIsWindow, ControlInv, BossInv, WorkerInv,
        Handling, MainStates, WorkerStates
<1>1. CASE Running /\ CreateThread
  <2>1. i + 1 \in Workers /\ i' \in Nat
    BY <1>1 DEF CreateThread
  <2>2. LoopHead(0) \in WorkerStates
    OBVIOUS
  <2>3. pc' \in [Workers -> WorkerStates]
    BY <1>1, <2>1, <2>2 DEF CreateThread
  <2>4. QED
    BY <1>1, <2>1, <2>3 DEF CreateThread
<1>2. CASE Running /\ BeginProduce
  BY <1>2 DEF BeginProduce
<1>3. CASE Running /\ GetPath
  BY <1>3 DEF GetPath
<1>4. CASE Running /\ MainLock
  BY <1>4 DEF MainLock
<1>5. CASE Running /\ Enqueue
  BY <1>5 DEF Enqueue
<1>6. CASE Running /\ Signal
  BY <1>6 DEF Signal, Waiting
<1>7. CASE Running /\ MainUnlock
  BY <1>7 DEF MainUnlock
<1>8. CASE Running /\ BeginJoin
  BY <1>8 DEF BeginJoin
<1>9. CASE Running /\ Join
  BY <1>9 DEF Join
<1>10. CASE Running /\ Destroy
  <2>1. << >> \in Seq(Requests)
    OBVIOUS
  <2>2. QED
    BY <1>10, <2>1 DEF Destroy
<1>11. ASSUME NEW w \in Workers, Running, Lock(w)
      PROVE  TypeOK'
  BY <1>11 DEF Lock
<1>12. ASSUME NEW w \in Workers, Running, Test(w)
      PROVE  TypeOK'
  BY <1>12 DEF Test
<1>13. ASSUME NEW w \in Workers, Running, Relock(w)
      PROVE  TypeOK'
  BY <1>13 DEF Relock
<1>14. ASSUME NEW w \in Workers, Running, Pop(w)
      PROVE  TypeOK'
  <2>1. CASE queue = << >>
    BY <1>14, <2>1 DEF Pop
  <2>2. CASE queue # << >>
    <3>1. Head(queue) \in Requests /\ Tail(queue) \in Seq(Requests)
      BY <2>2
    <3>3. taken + 1 \in 0 .. Total
      BY <1>14, <2>2, HeadOfQueue DEF Running
    <3>4. /\ pc' \in [Workers -> WorkerStates]
          /\ req' \in [Workers -> Requests \cup {None}]
      BY <1>14, <2>2, <3>1 DEF Pop
    <3>5. QED
      BY <1>14, <2>2, <3>1, <3>3, <3>4 DEF Pop
  <2>3. QED
    BY <2>1, <2>2
<1>15. ASSUME NEW w \in Workers, Running, Unlock(w)
      PROVE  TypeOK'
  BY <1>15 DEF Unlock
<1>16. ASSUME NEW w \in Workers, Running, LoadCounter(w)
      PROVE  TypeOK'
  BY <1>16 DEF LoadCounter, WorkerOK
<1>17. ASSUME NEW w \in Workers, Running, StoreCounter(w)
      PROVE  TypeOK'
  <2>1. pc[w] = "store"
    BY <1>17 DEF StoreCounter
  <2>2. req[w] \in Requests /\ number[req[w]] # None
    BY <2>1 DEF WorkerOK
  <2>3. number[req[w]] \in Nat
    BY <2>2
  <2>4. counter' = number[req[w]] + 1
    BY <1>17 DEF StoreCounter
  <2>5. counter' \in Nat
    BY <2>3, <2>4
  <2>6. QED
    BY <1>17, <2>5 DEF StoreCounter
<1>18. ASSUME NEW w \in Workers, Running, OpenFile(w)
      PROVE  TypeOK'
  <2>1. req[w] \in Requests /\ number[req[w]] \in Nat
    BY <1>18 DEF OpenFile, WorkerOK
  <2>2. LocalPath(req[w]) \in LocalPaths
    BY <2>1, PathType DEF LocalPath, LocalPaths
  <2>3. disk' \in SUBSET (LocalPaths \X Requests)
    BY <1>18, <2>1, <2>2 DEF OpenFile
  <2>4. QED
    BY <1>18, <2>3 DEF OpenFile
<1>19. ASSUME NEW w \in Workers, Running, OpenFails(w)
      PROVE  TypeOK'
  BY <1>19 DEF OpenFails
<1>20. ASSUME NEW w \in Workers, Running, Perform(w)
      PROVE  TypeOK'
  BY <1>20 DEF Perform
<1>21. ASSUME NEW w \in Workers, Running, Unlink(w)
      PROVE  TypeOK'
  BY <1>21 DEF Unlink, RemoveFile
<1>22. ASSUME NEW w \in Workers, Running, CheckStatus(w)
      PROVE  TypeOK'
  BY <1>22 DEF CheckStatus, RemoveFile, WorkerOK
<1>23. ASSUME NEW w \in Workers, Running, Cleanup(w)
      PROVE  TypeOK'
  <2>1. handled[w] + 1 \in 0 .. NRequests
    <3>1. WorkerOK(w) /\ pc[w] = "cleanup"
      BY <1>23 DEF Cleanup
    <3>2. handled[w] < NRequests
      BY <3>1 DEF WorkerOK
    <3>3. QED
      BY <3>2
  <2>2. LoopHead(handled[w] + 1) \in WorkerStates
    OBVIOUS
  <2>3. pc' \in [Workers -> WorkerStates]
    BY <1>23, <2>2 DEF Cleanup
  <2>4. handled' \in [Workers -> 0 .. NRequests]
    BY <1>23, <2>1 DEF Cleanup
  <2>5. req' \in [Workers -> Requests \cup {None}]
    BY <1>23 DEF Cleanup
  <2>6. result' \in [Workers -> Outcomes]
    <3>1. Success \in Outcomes
      BY OutcomesAssumption
    <3>2. QED
      BY <1>23, <3>1 DEF Cleanup
  <2>7. QED
    BY <1>23, <2>3, <2>4, <2>5, <2>6 DEF Cleanup
<1>24. ASSUME NEW w \in Workers, Running, SpuriousWakeup(w)
      PROVE  TypeOK'
  <2>1. spurious' \in 0 .. MaxSpurious
    BY <1>24 DEF SpuriousWakeup
  <2>2. pc' \in [Workers -> WorkerStates]
    BY <1>24 DEF SpuriousWakeup
  <2>3. QED
    BY <1>24, <2>1, <2>2 DEF SpuriousWakeup
<1>25. CASE UNCHANGED vars
  BY <1>25
<1>26. QED
  BY <1>1, <1>2, <1>3, <1>4, <1>5, <1>6, <1>7, <1>8, <1>9, <1>10, <1>11,
     <1>12, <1>13, <1>14, <1>15, <1>16, <1>17, <1>18, <1>19, <1>20, <1>21,
     <1>22, <1>23, <1>24, <1>25 DEF Next, MainStep, WorkerStep, Ended

\* Every step keeps the mutex with the one thread that is inside it.
LEMMA MutexStep == IInv /\ [Next]_vars => MutualExclusion'
<1> SUFFICES ASSUME IInv, [Next]_vars
             PROVE  MutualExclusion'
    OBVIOUS
<1> USE ThreadsAssumption DEF Running, Workers, Main, Nobody, None, Requests,
                              Goto, LoopHead, vars, bossVars, loopVars,
                              queueVars, endVars, fileVars, numVars, IInv,
                              TypeOK, MutualExclusion, MainStates,
                              WorkerStates, ControlInv, WorkerInv
<1>1. CASE Running /\ CreateThread
  <2>1. i + 1 \in Workers /\ pc[i + 1] = "unborn"
    BY <1>1 DEF CreateThread, WorkerInv, WorkerOK
  <2>2. QED
    BY <1>1, <2>1 DEF CreateThread
<1>2. CASE Running /\ BeginProduce
  BY <1>2 DEF BeginProduce
<1>3. CASE Running /\ GetPath
  BY <1>3 DEF GetPath
<1>4. CASE Running /\ MainLock
  BY <1>4 DEF MainLock
<1>5. CASE Running /\ Enqueue
  BY <1>5 DEF Enqueue
<1>6. CASE Running /\ Signal
  BY <1>6 DEF Signal, Waiting
<1>7. CASE Running /\ MainUnlock
  BY <1>7 DEF MainUnlock
<1>8. CASE Running /\ BeginJoin
  BY <1>8 DEF BeginJoin
<1>9. CASE Running /\ Join
  BY <1>9 DEF Join
<1>10. CASE Running /\ Destroy
  BY <1>10 DEF Destroy
<1>11. ASSUME NEW w \in Workers, Running, Lock(w)
      PROVE  MutualExclusion'
  BY <1>11 DEF Lock
<1>12. ASSUME NEW w \in Workers, Running, Test(w)
      PROVE  MutualExclusion'
  <2>1. CASE queue = << >>
    BY <1>12, <2>1 DEF Test
  <2>2. CASE queue # << >>
    BY <1>12, <2>2 DEF Test
  <2>3. QED
    BY <2>1, <2>2
<1>13. ASSUME NEW w \in Workers, Running, Relock(w)
      PROVE  MutualExclusion'
  BY <1>13 DEF Relock
<1>14. ASSUME NEW w \in Workers, Running, Pop(w)
      PROVE  MutualExclusion'
  BY <1>14 DEF Pop
<1>15. ASSUME NEW w \in Workers, Running, Unlock(w)
      PROVE  MutualExclusion'
  BY <1>15 DEF Unlock
<1>16. ASSUME NEW w \in Workers, Running, LoadCounter(w)
      PROVE  MutualExclusion'
  BY <1>16 DEF LoadCounter
<1>17. ASSUME NEW w \in Workers, Running, StoreCounter(w)
      PROVE  MutualExclusion'
  BY <1>17 DEF StoreCounter
<1>18. ASSUME NEW w \in Workers, Running, OpenFile(w)
      PROVE  MutualExclusion'
  BY <1>18 DEF OpenFile, LocalPath
<1>19. ASSUME NEW w \in Workers, Running, OpenFails(w)
      PROVE  MutualExclusion'
  BY <1>19 DEF OpenFails
<1>20. ASSUME NEW w \in Workers, Running, Perform(w)
      PROVE  MutualExclusion'
  BY <1>20 DEF Perform
<1>21. ASSUME NEW w \in Workers, Running, Unlink(w)
      PROVE  MutualExclusion'
  BY <1>21 DEF Unlink, RemoveFile
<1>22. ASSUME NEW w \in Workers, Running, CheckStatus(w)
      PROVE  MutualExclusion'
  BY <1>22 DEF CheckStatus, RemoveFile
<1>23. ASSUME NEW w \in Workers, Running, Cleanup(w)
      PROVE  MutualExclusion'
  BY <1>23 DEF Cleanup
<1>24. ASSUME NEW w \in Workers, Running, SpuriousWakeup(w)
      PROVE  MutualExclusion'
  BY <1>24 DEF SpuriousWakeup
<1>25. CASE UNCHANGED vars
  BY <1>25
<1>26. QED
  BY <1>1, <1>2, <1>3, <1>4, <1>5, <1>6, <1>7, <1>8, <1>9, <1>10, <1>11,
     <1>12, <1>13, <1>14, <1>15, <1>16, <1>17, <1>18, <1>19, <1>20, <1>21,
     <1>22, <1>23, <1>24, <1>25 DEF Next, MainStep, WorkerStep, Ended

\* Every step keeps the queue the window of requests queued and not taken.
LEMMA QueueStep == IInv /\ [Next]_vars => QueueIsWindow'
<1> SUFFICES ASSUME IInv, [Next]_vars
             PROVE  QueueIsWindow'
    OBVIOUS
<1> USE TotalNat, ThreadsAssumption DEF Running, Workers, Main, Nobody, None,
        Requests, Goto, LoopHead, vars, bossVars, loopVars, queueVars,
        endVars, fileVars, numVars, IInv, TypeOK, MutualExclusion,
        QueueIsWindow, ControlInv, BossInv, MainStates, Enqueued
<1>1. CASE Running /\ CreateThread
  BY <1>1 DEF CreateThread
<1>2. CASE Running /\ BeginProduce
  BY <1>2 DEF BeginProduce
<1>3. CASE Running /\ GetPath
  BY <1>3 DEF GetPath
<1>4. CASE Running /\ MainLock
  BY <1>4 DEF MainLock
<1>5. CASE Running /\ Enqueue
  <2>1. /\ i \in Requests /\ Enqueued = i /\ Enqueued' = i + 1
        /\ queue \in Seq(Int)
    BY <1>5 DEF Enqueue
  <2>2. queueLive => IsWindow(Append(queue, i), taken, i + 1)
    BY <2>1, WindowAppend
  <2>3. QED
    BY <1>5, <2>1, <2>2 DEF Enqueue
<1>6. CASE Running /\ Signal
  BY <1>6 DEF Signal, Waiting
<1>7. CASE Running /\ MainUnlock
  BY <1>7 DEF MainUnlock
<1>8. CASE Running /\ BeginJoin
  BY <1>8 DEF BeginJoin
<1>9. CASE Running /\ Join
  BY <1>9 DEF Join
<1>10. CASE Running /\ Destroy
  BY <1>10 DEF Destroy
<1>11. ASSUME NEW w \in Workers, Running, Lock(w)
      PROVE  QueueIsWindow'
  BY <1>11 DEF Lock
<1>12. ASSUME NEW w \in Workers, Running, Test(w)
      PROVE  QueueIsWindow'
  BY <1>12 DEF Test
<1>13. ASSUME NEW w \in Workers, Running, Relock(w)
      PROVE  QueueIsWindow'
  BY <1>13 DEF Relock
<1>14. ASSUME NEW w \in Workers, Running, Pop(w)
      PROVE  QueueIsWindow'
  <2>1. CASE queue = << >>
    BY <1>14, <2>1 DEF Pop
  <2>2. CASE queue # << >>
    <3>1. /\ queue' = Tail(queue) /\ taken' = taken + 1
          /\ Enqueued' = Enqueued /\ queueLive' = queueLive
      BY <1>14, <2>2 DEF Pop
    <3>2. queue \in Seq(Int) /\ taken \in Int /\ Enqueued \in Int
      BY EnqueuedBound
    <3>3. QED
      BY <2>2, <3>1, <3>2, WindowTail
  <2>3. QED
    BY <2>1, <2>2
<1>15. ASSUME NEW w \in Workers, Running, Unlock(w)
      PROVE  QueueIsWindow'
  BY <1>15 DEF Unlock
<1>16. ASSUME NEW w \in Workers, Running, LoadCounter(w)
      PROVE  QueueIsWindow'
  BY <1>16 DEF LoadCounter
<1>17. ASSUME NEW w \in Workers, Running, StoreCounter(w)
      PROVE  QueueIsWindow'
  BY <1>17 DEF StoreCounter
<1>18. ASSUME NEW w \in Workers, Running, OpenFile(w)
      PROVE  QueueIsWindow'
  BY <1>18 DEF OpenFile, LocalPath
<1>19. ASSUME NEW w \in Workers, Running, OpenFails(w)
      PROVE  QueueIsWindow'
  BY <1>19 DEF OpenFails
<1>20. ASSUME NEW w \in Workers, Running, Perform(w)
      PROVE  QueueIsWindow'
  BY <1>20 DEF Perform
<1>21. ASSUME NEW w \in Workers, Running, Unlink(w)
      PROVE  QueueIsWindow'
  BY <1>21 DEF Unlink, RemoveFile
<1>22. ASSUME NEW w \in Workers, Running, CheckStatus(w)
      PROVE  QueueIsWindow'
  BY <1>22 DEF CheckStatus, RemoveFile
<1>23. ASSUME NEW w \in Workers, Running, Cleanup(w)
      PROVE  QueueIsWindow'
  BY <1>23 DEF Cleanup
<1>24. ASSUME NEW w \in Workers, Running, SpuriousWakeup(w)
      PROVE  QueueIsWindow'
  BY <1>24 DEF SpuriousWakeup
<1>25. CASE UNCHANGED vars
  BY <1>25
<1>26. QED
  BY <1>1, <1>2, <1>3, <1>4, <1>5, <1>6, <1>7, <1>8, <1>9, <1>10, <1>11,
     <1>12, <1>13, <1>14, <1>15, <1>16, <1>17, <1>18, <1>19, <1>20, <1>21,
     <1>22, <1>23, <1>24, <1>25 DEF Next, MainStep, WorkerStep, Ended

\* A request just taken is one that no other worker holds.
LEMMA SharedStep == IInv /\ [Next]_vars => RequestsNotShared'
<1> SUFFICES ASSUME IInv, [Next]_vars
             PROVE  RequestsNotShared'
    OBVIOUS
<1> USE TotalNat, ThreadsAssumption DEF Running, Workers, Main, Nobody, None,
        Requests, Goto, LoopHead, vars, bossVars, loopVars, queueVars,
        endVars, fileVars, numVars, IInv, TypeOK, RequestsNotShared,
        QueueIsWindow, ControlInv, WorkerInv
<1>1. CASE Running /\ CreateThread
  BY <1>1 DEF CreateThread
<1>2. CASE Running /\ BeginProduce
  BY <1>2 DEF BeginProduce
<1>3. CASE Running /\ GetPath
  BY <1>3 DEF GetPath
<1>4. CASE Running /\ MainLock
  BY <1>4 DEF MainLock
<1>5. CASE Running /\ Enqueue
  BY <1>5 DEF Enqueue
<1>6. CASE Running /\ Signal
  BY <1>6 DEF Signal, Waiting
<1>7. CASE Running /\ MainUnlock
  BY <1>7 DEF MainUnlock
<1>8. CASE Running /\ BeginJoin
  BY <1>8 DEF BeginJoin
<1>9. CASE Running /\ Join
  BY <1>9 DEF Join
<1>10. CASE Running /\ Destroy
  BY <1>10 DEF Destroy
<1>11. ASSUME NEW w \in Workers, Running, Lock(w)
      PROVE  RequestsNotShared'
  BY <1>11 DEF Lock
<1>12. ASSUME NEW w \in Workers, Running, Test(w)
      PROVE  RequestsNotShared'
  BY <1>12 DEF Test
<1>13. ASSUME NEW w \in Workers, Running, Relock(w)
      PROVE  RequestsNotShared'
  BY <1>13 DEF Relock
<1>14. ASSUME NEW w \in Workers, Running, Pop(w)
      PROVE  RequestsNotShared'
  <2>1. CASE queue = << >>
    BY <1>14, <2>1 DEF Pop
  <2>2. CASE queue # << >>
    <3>1. Head(queue) = taken
      BY <1>14, <2>2, HeadOfQueue
    <3>2. req' = [req EXCEPT ![w] = taken]
      BY <1>14, <2>2, <3>1 DEF Pop
    <3>3. \A v \in Workers : req[v] < taken
      BY DEF WorkerInv, WorkerOK
    <3>4. QED
      BY <3>2, <3>3
  <2>3. QED
    BY <2>1, <2>2
<1>15. ASSUME NEW w \in Workers, Running, Unlock(w)
      PROVE  RequestsNotShared'
  BY <1>15 DEF Unlock
<1>16. ASSUME NEW w \in Workers, Running, LoadCounter(w)
      PROVE  RequestsNotShared'
  BY <1>16 DEF LoadCounter
<1>17. ASSUME NEW w \in Workers, Running, StoreCounter(w)
      PROVE  RequestsNotShared'
  BY <1>17 DEF StoreCounter
<1>18. ASSUME NEW w \in Workers, Running, OpenFile(w)
      PROVE  RequestsNotShared'
  BY <1>18 DEF OpenFile, LocalPath
<1>19. ASSUME NEW w \in Workers, Running, OpenFails(w)
      PROVE  RequestsNotShared'
  BY <1>19 DEF OpenFails
<1>20. ASSUME NEW w \in Workers, Running, Perform(w)
      PROVE  RequestsNotShared'
  BY <1>20 DEF Perform
<1>21. ASSUME NEW w \in Workers, Running, Unlink(w)
      PROVE  RequestsNotShared'
  BY <1>21 DEF Unlink, RemoveFile
<1>22. ASSUME NEW w \in Workers, Running, CheckStatus(w)
      PROVE  RequestsNotShared'
  BY <1>22 DEF CheckStatus, RemoveFile
<1>23. ASSUME NEW w \in Workers, Running, Cleanup(w)
      PROVE  RequestsNotShared'
  BY <1>23 DEF Cleanup
<1>24. ASSUME NEW w \in Workers, Running, SpuriousWakeup(w)
      PROVE  RequestsNotShared'
  BY <1>24 DEF SpuriousWakeup
<1>25. CASE UNCHANGED vars
  BY <1>25
<1>26. QED
  BY <1>1, <1>2, <1>3, <1>4, <1>5, <1>6, <1>7, <1>8, <1>9, <1>10, <1>11,
     <1>12, <1>13, <1>14, <1>15, <1>16, <1>17, <1>18, <1>19, <1>20, <1>21,
     <1>22, <1>23, <1>24, <1>25 DEF Next, MainStep, WorkerStep, Ended

\* Every step keeps the bounds of the boss's loops.
LEMMA BossStep == IInv /\ [Next]_vars => BossInv'
<1> SUFFICES ASSUME IInv, [Next]_vars
             PROVE  BossInv'
    OBVIOUS
<1> USE TotalNat, ThreadsAssumption DEF Running, Workers, Main, Nobody, None,
        Requests, Goto, LoopHead, vars, bossVars, loopVars, queueVars,
        endVars, fileVars, numVars, IInv, TypeOK, ControlInv, BossInv,
        WorkerInv, MainStates
<1>1. CASE Running /\ CreateThread
  BY <1>1 DEF CreateThread
<1>2. CASE Running /\ BeginProduce
  BY <1>2 DEF BeginProduce
<1>3. CASE Running /\ GetPath
  BY <1>3 DEF GetPath
<1>4. CASE Running /\ MainLock
  BY <1>4 DEF MainLock
<1>5. CASE Running /\ Enqueue
  BY <1>5 DEF Enqueue
<1>6. CASE Running /\ Signal
  BY <1>6 DEF Signal, Waiting
<1>7. CASE Running /\ MainUnlock
  BY <1>7 DEF MainUnlock
<1>8. CASE Running /\ BeginJoin
  BY <1>8 DEF BeginJoin
<1>9. CASE Running /\ Join
  <2>1. /\ main = "join" /\ main' = main /\ pc' = pc
        /\ i < NThreads /\ i' = i + 1 /\ pc[i + 1] = "done"
    BY <1>9 DEF Join
  <2>2. ASSUME NEW w \in Workers, w <= i + 1
        PROVE  pc[w] = "done"
    <3>1. w <= i \/ w = i + 1
      BY <2>2
    <3>2. QED
      BY <2>1, <3>1
  <2>3. QED
    BY <2>1, <2>2
<1>10. CASE Running /\ Destroy
  BY <1>10 DEF Destroy
<1>11. ASSUME NEW w \in Workers, Running, Lock(w)
      PROVE  BossInv'
  BY <1>11 DEF Lock
<1>12. ASSUME NEW w \in Workers, Running, Test(w)
      PROVE  BossInv'
  BY <1>12 DEF Test
<1>13. ASSUME NEW w \in Workers, Running, Relock(w)
      PROVE  BossInv'
  BY <1>13 DEF Relock
<1>14. ASSUME NEW w \in Workers, Running, Pop(w)
      PROVE  BossInv'
  BY <1>14 DEF Pop
<1>15. ASSUME NEW w \in Workers, Running, Unlock(w)
      PROVE  BossInv'
  BY <1>15 DEF Unlock
<1>16. ASSUME NEW w \in Workers, Running, LoadCounter(w)
      PROVE  BossInv'
  BY <1>16 DEF LoadCounter
<1>17. ASSUME NEW w \in Workers, Running, StoreCounter(w)
      PROVE  BossInv'
  BY <1>17 DEF StoreCounter
<1>18. ASSUME NEW w \in Workers, Running, OpenFile(w)
      PROVE  BossInv'
  BY <1>18 DEF OpenFile, LocalPath
<1>19. ASSUME NEW w \in Workers, Running, OpenFails(w)
      PROVE  BossInv'
  BY <1>19 DEF OpenFails
<1>20. ASSUME NEW w \in Workers, Running, Perform(w)
      PROVE  BossInv'
  BY <1>20 DEF Perform
<1>21. ASSUME NEW w \in Workers, Running, Unlink(w)
      PROVE  BossInv'
  BY <1>21 DEF Unlink, RemoveFile
<1>22. ASSUME NEW w \in Workers, Running, CheckStatus(w)
      PROVE  BossInv'
  BY <1>22 DEF CheckStatus, RemoveFile
<1>23. ASSUME NEW w \in Workers, Running, Cleanup(w)
      PROVE  BossInv'
  BY <1>23 DEF Cleanup
<1>24. ASSUME NEW w \in Workers, Running, SpuriousWakeup(w)
      PROVE  BossInv'
  BY <1>24 DEF SpuriousWakeup
<1>25. CASE UNCHANGED vars
  BY <1>25
<1>26. QED
  BY <1>1, <1>2, <1>3, <1>4, <1>5, <1>6, <1>7, <1>8, <1>9, <1>10, <1>11,
     <1>12, <1>13, <1>14, <1>15, <1>16, <1>17, <1>18, <1>19, <1>20, <1>21,
     <1>22, <1>23, <1>24, <1>25 DEF Next, MainStep, WorkerStep, Ended

\* Every step keeps what a worker's control state says of the worker.
LEMMA WorkerInvStep == IInv /\ [Next]_vars => WorkerInv'
<1> SUFFICES ASSUME IInv, [Next]_vars, NEW v \in Workers
             PROVE  WorkerOK(v)'
    BY DEF WorkerInv, Workers
<1>0. WorkerOK(v)
  BY DEF IInv, ControlInv, WorkerInv
<1> USE TotalNat, ThreadsAssumption DEF Running, Workers, Main, Nobody, None,
        Requests, Goto, LoopHead, vars, bossVars, loopVars, queueVars,
        endVars, fileVars, numVars, IInv, TypeOK, ControlInv, WorkerOK,
        Handling, MainStates, WorkerStates
<1>1. CASE Running /\ CreateThread
  BY <1>0, <1>1 DEF CreateThread
<1>2. CASE Running /\ BeginProduce
  BY <1>0, <1>2 DEF BeginProduce
<1>3. CASE Running /\ GetPath
  BY <1>0, <1>3 DEF GetPath
<1>4. CASE Running /\ MainLock
  BY <1>0, <1>4 DEF MainLock
<1>5. CASE Running /\ Enqueue
  <2>1. Append(queue, i) # << >>
    <3>1. queue \in Seq(Int) /\ i \in Int
      OBVIOUS
    <3>2. QED
      BY <3>1, AppendNotEmpty
  <2>2. QED
    BY <1>0, <1>5, <2>1 DEF Enqueue
<1>6. CASE Running /\ Signal
  <2>1. CASE Waiting = {}
    BY <1>0, <1>6, <2>1 DEF Signal
  <2>2. CASE Waiting # {}
    <3>1. PICK w \in Waiting : pc' = [pc EXCEPT ![w] = "relock"]
      BY <1>6, <2>2 DEF Signal
    <3>2. pc'[v] = IF v = w THEN "relock" ELSE pc[v]
      BY <3>1
    <3>3. v = w => pc[v] = "wait"
      BY DEF Waiting
    <3>4. QED
      BY <1>0, <1>6, <3>2, <3>3 DEF Signal
  <2>3. QED
    BY <2>1, <2>2
<1>7. CASE Running /\ MainUnlock
  BY <1>0, <1>7 DEF MainUnlock
<1>8. CASE Running /\ BeginJoin
  BY <1>0, <1>8 DEF BeginJoin
<1>9. CASE Running /\ Join
  BY <1>0, <1>9 DEF Join
<1>10. CASE Running /\ Destroy
  <2>1. pc[v] = "done"
    BY <1>10 DEF Destroy, BossInv
  <2>2. QED
    BY <1>0, <1>10, <2>1 DEF Destroy
<1>11. ASSUME NEW w \in Workers, Running, Lock(w)
      PROVE  WorkerOK(v)'
  BY <1>0, <1>11 DEF Lock
<1>12. ASSUME NEW w \in Workers, Running, Test(w)
      PROVE  WorkerOK(v)'
  BY <1>0, <1>12 DEF Test
<1>13. ASSUME NEW w \in Workers, Running, Relock(w)
      PROVE  WorkerOK(v)'
  BY <1>0, <1>13 DEF Relock
<1>14. ASSUME NEW w \in Workers, Running, Pop(w)
      PROVE  WorkerOK(v)'
  <2>1. queue # << >>
    BY <1>14 DEF Pop, WorkerInv
  <2>3. Head(queue) = taken
    BY <1>14, <2>1, HeadOfQueue
  <2>4. req' = [req EXCEPT ![w] = taken] /\ taken' = taken + 1
    BY <1>14, <2>1, <2>3 DEF Pop
  <2>5. v # w => pc[v] # "pop"
    BY <1>14 DEF Pop, MutualExclusion
  <2>6. QED
    <3>1. CASE v = w
      <4>1. pc'[v] = "unlock" /\ req'[v] = taken
        BY <1>14, <2>1, <2>4, <3>1 DEF Pop
      <4>2. QED
        BY <1>0, <1>14, <2>4, <3>1, <4>1 DEF Pop
    <3>2. CASE v # w
      <4>1. /\ pc'[v] = pc[v] /\ req'[v] = req[v] /\ taken' = taken + 1
            /\ main' = main /\ i' = i /\ handled' = handled
            /\ number' = number /\ pc[v] # "pop"
        BY <1>14, <2>1, <2>4, <2>5, <3>2 DEF Pop
      <4>2. QED
        BY <1>0, <4>1
    <3>3. QED
      BY <3>1, <3>2
<1>15. ASSUME NEW w \in Workers, Running, Unlock(w)
      PROVE  WorkerOK(v)'
  BY <1>0, <1>15 DEF Unlock
<1>16. ASSUME NEW w \in Workers, Running, LoadCounter(w)
      PROVE  WorkerOK(v)'
  BY <1>0, <1>16 DEF LoadCounter
<1>17. ASSUME NEW w \in Workers, Running, StoreCounter(w)
      PROVE  WorkerOK(v)'
  BY <1>0, <1>17 DEF StoreCounter
<1>18. ASSUME NEW w \in Workers, Running, OpenFile(w)
      PROVE  WorkerOK(v)'
  BY <1>0, <1>18 DEF OpenFile, LocalPath
<1>19. ASSUME NEW w \in Workers, Running, OpenFails(w)
      PROVE  WorkerOK(v)'
  BY <1>0, <1>19 DEF OpenFails
<1>20. ASSUME NEW w \in Workers, Running, Perform(w)
      PROVE  WorkerOK(v)'
  BY <1>0, <1>20 DEF Perform
<1>21. ASSUME NEW w \in Workers, Running, Unlink(w)
      PROVE  WorkerOK(v)'
  BY <1>0, <1>21 DEF Unlink, RemoveFile
<1>22. ASSUME NEW w \in Workers, Running, CheckStatus(w)
      PROVE  WorkerOK(v)'
  BY <1>0, <1>22 DEF CheckStatus, RemoveFile
<1>23. ASSUME NEW w \in Workers, Running, Cleanup(w)
      PROVE  WorkerOK(v)'
  BY <1>0, <1>23 DEF Cleanup
<1>24. ASSUME NEW w \in Workers, Running, SpuriousWakeup(w)
      PROVE  WorkerOK(v)'
  BY <1>0, <1>24 DEF SpuriousWakeup
<1>25. CASE UNCHANGED vars
  BY <1>0, <1>25
<1>26. QED
  BY <1>1, <1>2, <1>3, <1>4, <1>5, <1>6, <1>7, <1>8, <1>9, <1>10, <1>11,
     <1>12, <1>13, <1>14, <1>15, <1>16, <1>17, <1>18, <1>19, <1>20, <1>21,
     <1>22, <1>23, <1>24, <1>25 DEF Next, MainStep, WorkerStep, Ended

\* The queue is destroyed exactly when the boss ends the process.
EndInv == /\ ~queueLive <=> exit = "success"
          /\ exit = "success" => main = "join" /\ i = NThreads

LEMMA EndStep == IInv /\ [Next]_vars => EndInv'
<1> SUFFICES ASSUME IInv, [Next]_vars
             PROVE  EndInv'
    OBVIOUS
<1> USE TotalNat, ThreadsAssumption DEF Running, EndInv, Goto, vars,
        bossVars, loopVars, queueVars, endVars, fileVars, numVars, IInv,
        ControlInv, BossInv, TypeOK
<1>1. CASE Running /\ CreateThread
  BY <1>1 DEF CreateThread
<1>2. CASE Running /\ BeginProduce
  BY <1>2 DEF BeginProduce
<1>3. CASE Running /\ GetPath
  BY <1>3 DEF GetPath
<1>4. CASE Running /\ MainLock
  BY <1>4 DEF MainLock
<1>5. CASE Running /\ Enqueue
  BY <1>5 DEF Enqueue
<1>6. CASE Running /\ Signal
  BY <1>6 DEF Signal, Waiting
<1>7. CASE Running /\ MainUnlock
  BY <1>7 DEF MainUnlock
<1>8. CASE Running /\ BeginJoin
  BY <1>8 DEF BeginJoin
<1>9. CASE Running /\ Join
  BY <1>9 DEF Join
<1>10. CASE Running /\ Destroy
  BY <1>10 DEF Destroy
<1>11. ASSUME NEW w \in Workers, Running, Lock(w)
      PROVE  EndInv'
  BY <1>11 DEF Lock
<1>12. ASSUME NEW w \in Workers, Running, Test(w)
      PROVE  EndInv'
  BY <1>12 DEF Test
<1>13. ASSUME NEW w \in Workers, Running, Relock(w)
      PROVE  EndInv'
  BY <1>13 DEF Relock
<1>14. ASSUME NEW w \in Workers, Running, Pop(w)
      PROVE  EndInv'
  BY <1>14 DEF Pop
<1>15. ASSUME NEW w \in Workers, Running, Unlock(w)
      PROVE  EndInv'
  BY <1>15 DEF Unlock
<1>16. ASSUME NEW w \in Workers, Running, LoadCounter(w)
      PROVE  EndInv'
  BY <1>16 DEF LoadCounter
<1>17. ASSUME NEW w \in Workers, Running, StoreCounter(w)
      PROVE  EndInv'
  BY <1>17 DEF StoreCounter
<1>18. ASSUME NEW w \in Workers, Running, OpenFile(w)
      PROVE  EndInv'
  BY <1>18 DEF OpenFile, LocalPath
<1>19. ASSUME NEW w \in Workers, Running, OpenFails(w)
      PROVE  EndInv'
  BY <1>19 DEF OpenFails
<1>20. ASSUME NEW w \in Workers, Running, Perform(w)
      PROVE  EndInv'
  BY <1>20 DEF Perform
<1>21. ASSUME NEW w \in Workers, Running, Unlink(w)
      PROVE  EndInv'
  BY <1>21 DEF Unlink, RemoveFile
<1>22. ASSUME NEW w \in Workers, Running, CheckStatus(w)
      PROVE  EndInv'
  BY <1>22 DEF CheckStatus, RemoveFile
<1>23. ASSUME NEW w \in Workers, Running, Cleanup(w)
      PROVE  EndInv'
  BY <1>23 DEF Cleanup
<1>24. ASSUME NEW w \in Workers, Running, SpuriousWakeup(w)
      PROVE  EndInv'
  BY <1>24 DEF SpuriousWakeup
<1>25. CASE UNCHANGED vars
  BY <1>25
<1>26. QED
  BY <1>1, <1>2, <1>3, <1>4, <1>5, <1>6, <1>7, <1>8, <1>9, <1>10, <1>11,
     <1>12, <1>13, <1>14, <1>15, <1>16, <1>17, <1>18, <1>19, <1>20, <1>21,
     <1>22, <1>23, <1>24, <1>25 DEF Next, MainStep, WorkerStep, Ended

\* The invariant holds initially and is kept by every step.
LEMMA Initially == Init => IInv
<1> SUFFICES ASSUME Init PROVE IInv
    OBVIOUS
<1> USE TotalNat, ThreadsAssumption
<1>1. TypeOK
  BY SpuriousAssumption, OutcomesAssumption
  DEF Init, TypeOK, MainStates, WorkerStates, Workers, None, Requests, Nobody
<1>2. MutualExclusion
  BY DEF Init, MutualExclusion, Workers, Main, Nobody
<1>3. QueueIsWindow
  BY DEF Init, QueueIsWindow, IsWindow, Enqueued
<1>4. RequestsNotShared
  BY DEF Init, RequestsNotShared
<1>5. ControlInv
  BY DEF Init, ControlInv, BossInv, WorkerInv, WorkerOK, Workers, None,
      Handling
<1>6. QED
  BY <1>1, <1>2, <1>3, <1>4, <1>5 DEF IInv

LEMMA Inductive == IInv /\ [Next]_vars => IInv'
BY TypeStep, MutexStep, QueueStep, SharedStep, BossStep, WorkerInvStep, EndStep
DEF IInv, ControlInv, EndInv

\* The inductive invariant holds in every reachable state of the client.
THEOREM Invariance == Spec => []IInv
<1>1. QED
  BY Initially, Inductive, PTL DEF Spec
-----------------------------------------------------------------------------
(***************************************************************************)
(* The properties that the invariant contains.                             *)
(***************************************************************************)
\* Every variable of the client keeps its type.
THEOREM TypeCorrect == Spec => []TypeOK
BY Invariance, PTL DEF IInv

\* The mutex is held by exactly the thread that is between lock and unlock.
THEOREM MutexCorrect == Spec => []MutualExclusion
BY Invariance, PTL DEF IInv

\* The queue holds exactly the requests queued and not yet taken, in order.
THEOREM QueueCorrect == Spec => []QueueIsWindow
BY Invariance, PTL DEF IInv

\* No request is handled by two workers at a time.
THEOREM SharingCorrect == Spec => []RequestsNotShared
BY Invariance, PTL DEF IInv

\* steque_pop never finds the queue empty, whatever wakes the workers.
THEOREM UnderflowCorrect == Spec => []NoUnderflow
<1>1. Init => NoUnderflow
  BY DEF Init, NoUnderflow
<1>2. IInv /\ NoUnderflow /\ [Next]_vars => NoUnderflow'
  <2> SUFFICES ASSUME IInv, NoUnderflow, [Next]_vars
               PROVE  NoUnderflow'
      OBVIOUS
  <2>1. CASE Running /\ MainStep
    BY <2>1 DEF NoUnderflow, MainStep, CreateThread, BeginProduce, GetPath,
       MainLock, Enqueue, Signal, MainUnlock, BeginJoin, Join, Destroy, endVars
  <2>2. ASSUME NEW w \in Workers, Pop(w)
        PROVE  NoUnderflow'
    <3>1. queue # << >>
      BY <2>2 DEF Pop, IInv, ControlInv, WorkerInv, WorkerOK
    <3>2. QED
      BY <2>2, <3>1 DEF Pop, NoUnderflow
  <2>3. ASSUME NEW w \in Workers, WorkerStep(w) \/ SpuriousWakeup(w), ~Pop(w)
        PROVE  NoUnderflow'
    BY <2>3 DEF NoUnderflow, WorkerStep, Lock, Test, Relock, Unlock,
       LoadCounter, StoreCounter, OpenFile, OpenFails, Perform, Unlink,
       CheckStatus, Cleanup, SpuriousWakeup, endVars
  <2>4. CASE UNCHANGED vars
    BY <2>4 DEF NoUnderflow, vars
  <2>5. QED
    BY <2>1, <2>2, <2>3, <2>4 DEF Next, Ended
<1>3. QED
  BY <1>1, <1>2, Invariance, PTL DEF Spec
-----------------------------------------------------------------------------
(***************************************************************************)
(* No wakeup is lost.                                                      *)
(***************************************************************************)
LEMMA WorkersFinite ==
    \A S \in SUBSET Workers : IsFiniteSet(S) /\ Cardinality(S) \in Nat
<1>1. IsFiniteSet(Workers)
  BY ThreadsAssumption, FS_Interval DEF Workers
<1>2. QED
  BY <1>1, FS_Subset, FS_CardinalityType

\* A step that wakes workers, or does nothing to them and to the queue.
LEMMA WakeupKept ==
    /\ NoLostWakeup
    /\ queue \in Seq(Requests)
    /\ queue' = queue
    /\ main' = "signal" <=> main = "signal"
    /\ \A w \in Workers : pc'[w] = "wait" => pc[w] = "wait"
    /\ \A w \in Workers : w \in Awake => w \in Awake'
    => NoLostWakeup'
<1> SUFFICES ASSUME NoLostWakeup, queue \in Seq(Requests), queue' = queue,
                    main' = "signal" <=> main = "signal",
                    \A w \in Workers : pc'[w] = "wait" => pc[w] = "wait",
                    \A w \in Workers : w \in Awake => w \in Awake',
                    Waiting' # {}
             PROVE  Len(queue') <= Cardinality(Awake')
                                     + (IF main' = "signal" THEN 1 ELSE 0)
    BY DEF NoLostWakeup
<1>1. Waiting # {}
  BY DEF Waiting
<1>2. Awake \in SUBSET Workers /\ Awake' \in SUBSET Workers
  BY DEF Awake
<1>3. Awake \in SUBSET Awake'
  BY <1>2
<1>4. /\ Cardinality(Awake) <= Cardinality(Awake')
      /\ Cardinality(Awake) \in Nat /\ Cardinality(Awake') \in Nat
  BY <1>2, <1>3, WorkersFinite, FS_Subset
<1>5. Len(queue) <= Cardinality(Awake) + (IF main = "signal" THEN 1 ELSE 0)
  BY <1>1 DEF NoLostWakeup
<1>6. QED
  BY <1>4, <1>5

LEMMA WakeupStep == IInv /\ NoLostWakeup /\ [Next]_vars => NoLostWakeup'
<1> SUFFICES ASSUME IInv, NoLostWakeup, [Next]_vars
             PROVE  NoLostWakeup'
    OBVIOUS
<1>0. /\ queue \in Seq(Requests) /\ Len(queue) \in Nat
      /\ pc \in [Workers -> WorkerStates]
  BY DEF IInv, TypeOK
<1>a. /\ Awake \in SUBSET Workers /\ Awake' \in SUBSET Workers
      /\ Cardinality(Awake) \in Nat /\ Cardinality(Awake') \in Nat
      /\ IsFiniteSet(Awake)
  BY WorkersFinite DEF Awake
<1>1. CASE Running /\ CreateThread
  <2>1. i + 1 \in Workers /\ pc[i + 1] = "unborn"
    <3>1. i + 1 \in Workers /\ main = "create" /\ i \in Nat
      BY <1>1, ThreadsAssumption DEF CreateThread, IInv, TypeOK, Workers
    <3>2. WorkerOK(i + 1)
      BY <3>1 DEF IInv, ControlInv, WorkerInv
    <3>3. QED
      BY <3>1, <3>2 DEF WorkerOK
  <2>2. pc' = [pc EXCEPT ![i + 1] = LoopHead(0)] /\ LoopHead(0) # "wait"
    BY <1>1 DEF CreateThread, LoopHead
  <2>3. queue' = queue /\ main' = main
    BY <1>1 DEF CreateThread, queueVars
  <2>4. QED
    BY <1>0, <2>1, <2>2, <2>3, WakeupKept DEF Awake
<1>2. CASE Running /\ (\/ BeginProduce \/ GetPath \/ MainLock \/ MainUnlock
                      \/ BeginJoin \/ Join)
  <2>1. pc' = pc /\ queue' = queue /\ main # "signal" /\ main' # "signal"
    BY <1>2 DEF BeginProduce, GetPath, MainLock, MainUnlock, BeginJoin, Join,
       queueVars
  <2>2. QED
    BY <1>0, <2>1, WakeupKept DEF Awake
<1>3. CASE Running /\ Enqueue
  <2>1. i \in Requests
    BY <1>3, TotalNat DEF Enqueue, IInv, TypeOK, ControlInv, BossInv, Requests
  <2>2. Len(queue') = Len(queue) + 1
    BY <1>0, <1>3, <2>1 DEF Enqueue
  <2>3. pc' = pc /\ main = "enqueue" /\ main' = "signal"
    BY <1>3 DEF Enqueue
  <2>4. Awake' = Awake /\ Waiting' = Waiting
    BY <2>3 DEF Awake, Waiting
  <2>5. QED
    BY <1>0, <1>a, <2>2, <2>3, <2>4 DEF NoLostWakeup
<1>4. CASE Running /\ Signal
  <2>1. main = "signal" /\ main' = "unlock" /\ queue' = queue
    BY <1>4 DEF Signal, queueVars
  <2>2. CASE Waiting = {}
    <3>1. pc' = pc
      BY <1>4, <2>2 DEF Signal
    <3>2. Waiting' = {}
      BY <2>2, <3>1 DEF Waiting
    <3>3. QED
      BY <3>2 DEF NoLostWakeup
  <2>3. CASE Waiting # {}
    <3>1. PICK w \in Waiting : pc' = [pc EXCEPT ![w] = "relock"]
      BY <1>4, <2>3 DEF Signal
    <3>2. w \in Workers /\ w \notin Awake
      BY <3>1 DEF Waiting, Awake
    <3>3. Awake' = Awake \cup {w}
      BY <1>0, <3>1, <3>2 DEF Awake
    <3>4. Cardinality(Awake') = Cardinality(Awake) + 1
      BY <1>a, <3>2, <3>3, FS_AddElement
    <3>5. Len(queue) <= Cardinality(Awake) + 1
      BY <2>1, <2>3 DEF NoLostWakeup
    <3>6. QED
      BY <1>0, <1>a, <2>1, <3>4, <3>5 DEF NoLostWakeup
  <2>4. QED
    BY <2>2, <2>3
<1>5. CASE Running /\ Destroy
  <2>1. Len(queue') = 0
    BY <1>5 DEF Destroy
  <2>2. QED
    BY <1>a, <2>1 DEF NoLostWakeup
<1>6. ASSUME NEW w \in Workers, Running, Test(w)
      PROVE  NoLostWakeup'
  <2>1. queue' = queue /\ main' = main
    BY <1>6 DEF Test, queueVars, bossVars
  <2>2. CASE queue = << >>
    BY <1>a, <2>1, <2>2 DEF NoLostWakeup
  <2>3. CASE queue # << >>
    <3>1. pc[w] = "test" /\ pc' = [pc EXCEPT ![w] = "pop"]
      BY <1>6, <2>3 DEF Test, Goto
    <3>2. QED
      BY <1>0, <2>1, <3>1, WakeupKept DEF Awake
  <2>4. QED
    BY <2>2, <2>3
<1>7. ASSUME NEW w \in Workers, Running, Pop(w)
      PROVE  NoLostWakeup'
  <2>1. pc[w] = "pop" /\ queue # << >>
    BY <1>7 DEF Pop, IInv, ControlInv, WorkerInv, WorkerOK
  <2>2. /\ pc' = [pc EXCEPT ![w] = "unlock"]
        /\ queue' = Tail(queue) /\ main' = main
    BY <1>7, <2>1 DEF Pop, Goto, bossVars
  <2>3. Len(queue') = Len(queue) - 1
    BY <1>0, <2>1, <2>2
  <2>4. w \in Awake /\ Awake' = Awake \ {w}
    BY <1>0, <2>1, <2>2 DEF Awake
  <2>5. Cardinality(Awake') = Cardinality(Awake) - 1
    BY <1>a, <2>4, FS_RemoveElement
  <2>6. Waiting' = Waiting
    BY <1>0, <2>1, <2>2 DEF Waiting
  <2>7. QED
    BY <1>0, <1>a, <2>2, <2>3, <2>5, <2>6 DEF NoLostWakeup
<1>8. ASSUME NEW w \in Workers, Running,
             \/ Lock(w) \/ Relock(w) \/ SpuriousWakeup(w) \/ Unlock(w)
             \/ LoadCounter(w) \/ StoreCounter(w) \/ OpenFile(w)
             \/ OpenFails(w) \/ Perform(w) \/ Unlink(w) \/ CheckStatus(w)
             \/ Cleanup(w)
      PROVE  NoLostWakeup'
  <2>1. queue' = queue /\ main' = main
    BY <1>8 DEF Lock, Relock, SpuriousWakeup, Unlock, LoadCounter,
       StoreCounter, OpenFile, OpenFails, Perform, Unlink, CheckStatus,
       Cleanup, queueVars, bossVars
  <2>2. \/ pc' = pc
        \/ \E to \in {"lock", "test", "relock"} : pc' = [pc EXCEPT ![w] = to]
        \/ /\ pc[w] \notin {"lock", "relock", "test", "pop"}
           /\ \E to \in WorkerStates \ {"wait"} : pc' = [pc EXCEPT ![w] = to]
    BY <1>8 DEF Lock, Relock, SpuriousWakeup, Unlock, LoadCounter,
       StoreCounter, OpenFile, OpenFails, Perform, Unlink, CheckStatus,
       Cleanup, Goto, LoopHead, WorkerStates
  <2>3. QED
    BY <1>0, <2>1, <2>2, WakeupKept DEF Awake
<1>9. CASE UNCHANGED vars
  BY <1>0, <1>9, WakeupKept DEF vars, Awake
<1>10. QED
  BY <1>1, <1>2, <1>3, <1>4, <1>5, <1>6, <1>7, <1>8, <1>9
  DEF Next, MainStep, WorkerStep, Ended

\* Whenever a worker sleeps, every queued request whose signal was sent has
\* an awake worker that will look at the queue before it blocks.
THEOREM WakeupCorrect == Spec => []NoLostWakeup
<1>1. Init => NoLostWakeup
  BY DEF Init, NoLostWakeup, Waiting
<1>2. QED
  BY <1>1, WakeupStep, Invariance, PTL DEF Spec
-----------------------------------------------------------------------------
(***************************************************************************)
(* The client implements WorkQueue.  That main destroys the queue only     *)
(* after every request was handled is a matter of counting: the places     *)
(* <<w, n>>, "the n-th request of worker w", that are taken are as many as *)
(* the requests popped, and when all workers are done all are taken.       *)
(***************************************************************************)
Places == Workers \X (0 .. NRequests - 1)

Busy(w) == IF req[w] # None THEN 1 ELSE 0

PlacesTaken == {p \in Places : p[2] < handled[p[1]] + Busy(p[1])}

CountInv == taken = Cardinality(PlacesTaken)

LEMMA PlacesFinite ==
    /\ IsFiniteSet(Places)
    /\ Cardinality(Places) = Total
    /\ IsFiniteSet(PlacesTaken)
<1>1. IsFiniteSet(Workers) /\ Cardinality(Workers) = NThreads
  BY ThreadsAssumption, FS_Interval DEF Workers
<1>2. /\ IsFiniteSet(0 .. NRequests - 1)
      /\ Cardinality(0 .. NRequests - 1) = NRequests
  BY ThreadsAssumption, FS_Interval
<1>3. /\ IsFiniteSet(Places)
      /\ Cardinality(Places) = NThreads * NRequests
  BY <1>1, <1>2, FS_Product DEF Places
<1>4. PlacesTaken \in SUBSET Places
  BY DEF PlacesTaken
<1>5. QED
  BY <1>3, <1>4, FS_Subset, ThreadsAssumption DEF Total

\* Taking a request fills one more place.
LEMMA CountPop ==
    ASSUME IInv, CountInv, NEW w \in Workers, Running, Pop(w)
    PROVE  CountInv'
<1>1. /\ pc[w] = "pop" /\ queue # << >> /\ req[w] = None
      /\ handled[w] \in 0 .. NRequests - 1
  <2>1. WorkerOK(w) /\ pc[w] = "pop" /\ handled[w] \in 0 .. NRequests
    BY DEF Pop, IInv, ControlInv, WorkerInv, TypeOK
  <2>2. QED
    BY <2>1, ThreadsAssumption DEF WorkerOK, Handling
<1>2. Head(queue) \in Requests /\ None \notin Requests
  <2>1. Head(queue) \in Requests
    BY <1>1 DEF IInv, TypeOK
  <2>2. QED
    BY <2>1 DEF Requests, None
<1>3. /\ req' = [req EXCEPT ![w] = Head(queue)]
      /\ handled' = handled /\ taken' = taken + 1
  BY <1>1 DEF Pop
<1>4. req \in [Workers -> Requests \cup {None}] /\ taken \in Nat
  BY TotalNat DEF IInv, TypeOK
<1>5. \A v \in Workers : Busy(v)' = IF v = w THEN 1 ELSE Busy(v)
  BY <1>2, <1>3, <1>4 DEF Busy
<1>6. Busy(w) = 0
  BY <1>1 DEF Busy
<1>7. <<w, handled[w]>> \in Places /\ <<w, handled[w]>> \notin PlacesTaken
  BY <1>1, <1>6 DEF Places, PlacesTaken
<1>8. PlacesTaken' = PlacesTaken \cup {<<w, handled[w]>>}
  <2>1. ASSUME NEW p \in Places
        PROVE  p \in PlacesTaken' <=> p \in PlacesTaken \cup {<<w, handled[w]>>}
    <3>1. PICK v \in Workers, n \in 0 .. NRequests - 1 : p = <<v, n>>
      BY DEF Places
    <3>2. p \in PlacesTaken' <=> n < handled[v] + Busy(v)'
      BY <1>3, <3>1 DEF PlacesTaken
    <3>3. p \in PlacesTaken <=> n < handled[v] + Busy(v)
      BY <3>1 DEF PlacesTaken
    <3>4. CASE v # w
      BY <1>5, <3>1, <3>2, <3>3, <3>4
    <3>5. CASE v = w
      BY <1>1, <1>5, <1>6, <3>1, <3>2, <3>3, <3>5
    <3>6. QED
      BY <3>4, <3>5
  <2>2. QED
    BY <1>7, <2>1 DEF PlacesTaken
<1>9. Cardinality(PlacesTaken') = Cardinality(PlacesTaken) + 1
  BY <1>7, <1>8, PlacesFinite, FS_AddElement
<1>10. QED
  BY <1>3, <1>9 DEF CountInv

\* Finishing a request moves it from the busy places to the handled ones.
LEMMA CountCleanup ==
    ASSUME IInv, CountInv, NEW w \in Workers, Cleanup(w)
    PROVE  CountInv'
<1>1. pc[w] = "cleanup" /\ req[w] # None
  BY DEF Cleanup, Goto, IInv, ControlInv, WorkerInv, WorkerOK, Handling
<1>2. /\ req' = [req EXCEPT ![w] = None]
      /\ handled' = [handled EXCEPT ![w] = @ + 1]
      /\ taken' = taken
  BY DEF Cleanup, queueVars
<1>3. /\ req \in [Workers -> Requests \cup {None}]
      /\ handled \in [Workers -> 0 .. NRequests]
  BY DEF IInv, TypeOK
<1>4. ASSUME NEW v \in Workers
      PROVE  handled'[v] + Busy(v)' = handled[v] + Busy(v)
  BY <1>1, <1>2, <1>3, ThreadsAssumption DEF Busy
<1>5. PlacesTaken' = PlacesTaken
  BY <1>4 DEF PlacesTaken, Places
<1>6. QED
  BY <1>2, <1>5 DEF CountInv

\* No other step takes or finishes a request.
OtherStep ==
    \/ Running /\ MainStep
    \/ \E w \in Workers :
         \/ Lock(w) \/ Test(w) \/ Relock(w) \/ SpuriousWakeup(w) \/ Unlock(w)
         \/ LoadCounter(w) \/ StoreCounter(w) \/ OpenFile(w) \/ OpenFails(w)
         \/ Perform(w) \/ Unlink(w) \/ CheckStatus(w)
    \/ UNCHANGED vars

LEMMA NextCases ==
    [Next]_vars => \/ OtherStep
                   \/ \E w \in Workers : Running /\ (Pop(w) \/ Cleanup(w))
BY DEF Next, WorkerStep, OtherStep, Ended

LEMMA OtherUnchanged == OtherStep => UNCHANGED <<handled, req, taken>>
<1>1. CASE MainStep
  BY <1>1 DEF MainStep, CreateThread, BeginProduce, GetPath, MainLock, Enqueue,
     Signal, MainUnlock, BeginJoin, Join, Destroy, loopVars, queueVars
<1>2. ASSUME NEW w \in Workers,
             \/ Lock(w) \/ Test(w) \/ Relock(w) \/ SpuriousWakeup(w)
             \/ Unlock(w) \/ LoadCounter(w) \/ StoreCounter(w) \/ OpenFile(w)
             \/ OpenFails(w) \/ Perform(w) \/ Unlink(w) \/ CheckStatus(w)
      PROVE  UNCHANGED <<handled, req, taken>>
  BY <1>2 DEF Lock, Test, Relock, SpuriousWakeup, Unlock, LoadCounter,
     StoreCounter, OpenFile, OpenFails, Perform, Unlink, CheckStatus, loopVars,
     queueVars
<1>3. CASE UNCHANGED vars
  BY <1>3 DEF vars
<1>4. QED
  BY <1>1, <1>2, <1>3 DEF OtherStep

LEMMA CountStep == IInv /\ CountInv /\ [Next]_vars => CountInv'
<1>1. OtherStep /\ CountInv => CountInv'
  BY OtherUnchanged DEF CountInv, PlacesTaken, Places, Busy
<1>2. QED
  BY <1>1, NextCases, CountPop, CountCleanup

LEMMA CountInitially == Init => CountInv
<1> SUFFICES ASSUME Init PROVE CountInv
    OBVIOUS
<1>1. \A w \in Workers : handled[w] = 0 /\ Busy(w) = 0
  BY DEF Init, Busy
<1>2. PlacesTaken = {}
  BY <1>1 DEF PlacesTaken, Places
<1>3. QED
  BY <1>2, FS_EmptySet DEF CountInv, Init

\* When every worker has ended, every request has been taken.
LEMMA AllTaken ==
    IInv /\ CountInv /\ (\A w \in Workers : pc[w] = "done")
        => /\ taken = Total
           /\ \A w \in Workers : req[w] = None /\ handled[w] = NRequests
<1> SUFFICES ASSUME IInv, CountInv, \A w \in Workers : pc[w] = "done"
             PROVE  /\ taken = Total
                    /\ \A w \in Workers : req[w] = None /\ handled[w] = NRequests
    OBVIOUS
<1>1. \A w \in Workers : req[w] = None /\ handled[w] = NRequests
  BY DEF IInv, ControlInv, WorkerInv, WorkerOK, Handling
<1>2. PlacesTaken = Places
  BY <1>1, ThreadsAssumption DEF PlacesTaken, Places, Busy
<1>3. QED
  BY <1>1, <1>2, PlacesFinite DEF CountInv
-----------------------------------------------------------------------------
LEMMA RefinesInit == Init => WQ!Init
BY DEF Init, WQ!Init, Enqueued, Status, None, WQ!None

\* A step that changes nothing WorkQueue can see.
LEMMA Unseen ==
    /\ UNCHANGED <<handled, req, taken, exit>>
    /\ Enqueued' = Enqueued
    => UNCHANGED WQ!wvars
BY DEF WQ!wvars, Status

LEMMA RefinesMain ==
    IInv /\ CountInv /\ Running /\ MainStep => [WQ!Next]_(WQ!wvars)
<1> SUFFICES ASSUME IInv, CountInv, Running, MainStep
             PROVE  [WQ!Next]_(WQ!wvars)
    OBVIOUS
<1>0. /\ UNCHANGED <<handled, req, taken>> /\ Status = "open"
      /\ i \in Nat /\ Total \in Nat
  BY OtherUnchanged, TotalNat DEF OtherStep, Running, Status, IInv, TypeOK
<1>1. CASE CreateThread \/ BeginProduce \/ MainLock \/ Signal \/ MainUnlock
           \/ BeginJoin \/ Join
  <2>1. exit' = exit
    BY <1>1 DEF CreateThread, BeginProduce, MainLock, Signal, MainUnlock,
       BeginJoin, Join, endVars
  <2>2. Enqueued' = Enqueued
    BY <1>0, <1>1 DEF CreateThread, BeginProduce, MainLock, Signal, MainUnlock,
       BeginJoin, Join, Enqueued, IInv, ControlInv, BossInv, bossVars
  <2>3. QED
    BY <1>0, <2>1, <2>2, Unseen
<1>2. CASE GetPath
  <2>1. Enqueued' = Enqueued
    BY <1>2 DEF GetPath, Enqueued
  <2>2. CASE exit' = exit
    BY <1>0, <2>1, <2>2, Unseen
  <2>3. CASE exit' = "too_long"
    <3>1. Status' = "aborted"
      BY <2>3 DEF Status
    <3>2. WQ!Abort
      BY <1>0, <2>1, <3>1 DEF WQ!Abort
    <3>3. QED
      BY <3>2 DEF WQ!Next
  <2>4. QED
    BY <1>2, <2>2, <2>3 DEF GetPath
<1>3. CASE Enqueue
  <2>1. Enqueued = i /\ Enqueued' = i + 1 /\ i < Total
    BY <1>3 DEF Enqueue, Enqueued, IInv, ControlInv, BossInv
  <2>2. Status' = Status
    BY <1>3 DEF Enqueue, endVars, Status
  <2>3. WQ!Submit
    BY <1>0, <2>1, <2>2 DEF WQ!Submit
  <2>4. QED
    BY <2>3 DEF WQ!Next
<1>4. CASE Destroy
  <2>1. \A w \in Workers : pc[w] = "done"
    BY <1>0, <1>4, ThreadsAssumption
    DEF Destroy, IInv, ControlInv, BossInv, Workers
  <2>2. /\ taken = Total
        /\ \A w \in Workers : req[w] = None /\ handled[w] = NRequests
    BY <2>1, AllTaken
  <2>3. Enqueued = Total /\ Enqueued' = Enqueued /\ Status' = "closed"
    BY <1>4 DEF Destroy, Enqueued, Status, bossVars
  <2>4. WQ!Close
    BY <1>0, <2>2, <2>3 DEF WQ!Close, None, WQ!None
  <2>5. QED
    BY <2>4 DEF WQ!Next
<1>5. QED
  BY <1>1, <1>2, <1>3, <1>4 DEF MainStep

LEMMA RefinesWorker ==
    ASSUME IInv, NEW w \in Workers, Running, WorkerStep(w) \/ SpuriousWakeup(w)
    PROVE  [WQ!Next]_(WQ!wvars)
<1>0. Status = "open" /\ WorkerOK(w)
  BY DEF Running, Status, IInv, ControlInv, WorkerInv
<1>1. Enqueued' = Enqueued
  BY DEF WorkerStep, Lock, Test, Relock, Pop, Unlock, LoadCounter,
     StoreCounter, OpenFile, OpenFails, Perform, Unlink, CheckStatus, Cleanup,
     SpuriousWakeup, bossVars, Enqueued
<1>2. CASE Pop(w)
  <2>1. /\ pc[w] = "pop" /\ queue # << >> /\ queueLive
        /\ req[w] = None /\ handled[w] < NRequests
    BY <1>0, <1>2 DEF Pop, WorkerOK, Handling, Running, IInv, ControlInv
  <2>3. Head(queue) = taken /\ taken < Enqueued
    BY <2>1, HeadOfQueue
  <2>4. /\ req' = [req EXCEPT ![w] = taken] /\ taken' = taken + 1
        /\ handled' = handled /\ Status' = Status
    BY <1>2, <2>1, <2>3 DEF Pop, Status
  <2>5. WQ!Take(w)
    BY <1>0, <1>1, <2>1, <2>3, <2>4 DEF WQ!Take, None, WQ!None
  <2>6. QED
    BY <2>5 DEF WQ!Next
<1>3. CASE Cleanup(w)
  <2>1. /\ req' = [req EXCEPT ![w] = None]
        /\ handled' = [handled EXCEPT ![w] = @ + 1]
        /\ taken' = taken /\ Status' = Status
    BY <1>3 DEF Cleanup, queueVars, endVars, Status
  <2>2. req[w] # None
    BY <1>0, <1>3 DEF Cleanup, Goto, WorkerOK, Handling
  <2>3. WQ!Complete(w)
    BY <1>0, <1>1, <2>1, <2>2 DEF WQ!Complete, None, WQ!None
  <2>4. QED
    BY <2>3 DEF WQ!Next
<1>4. CASE OpenFails(w)
  <2>1. UNCHANGED <<handled, req, taken>> /\ Status' = "aborted"
    BY <1>4 DEF OpenFails, loopVars, queueVars, Status
  <2>2. WQ!Abort
    BY <1>0, <1>1, <2>1 DEF WQ!Abort
  <2>3. QED
    BY <2>2 DEF WQ!Next
<1>5. CASE \/ Lock(w) \/ Test(w) \/ Relock(w) \/ SpuriousWakeup(w) \/ Unlock(w)
           \/ LoadCounter(w) \/ StoreCounter(w) \/ OpenFile(w) \/ Perform(w)
           \/ Unlink(w) \/ CheckStatus(w)
  <2>1. UNCHANGED <<handled, req, taken, exit>>
    BY <1>5 DEF Lock, Test, Relock, SpuriousWakeup, Unlock, LoadCounter,
       StoreCounter, OpenFile, Perform, Unlink, CheckStatus, loopVars,
       queueVars, endVars
  <2>2. QED
    BY <1>1, <2>1, Unseen
<1>6. QED
  BY <1>2, <1>3, <1>4, <1>5 DEF WorkerStep

\* Every behaviour of the client is one of the work queue: requests are taken
\* in order, each by one worker, NRequests by each, and the queue is
\* destroyed only when all of them have been handled.
THEOREM ClientImplementsWorkQueue == Spec => ImplementsWorkQueue
<1>1. IInv /\ CountInv /\ [Next]_vars => [WQ!Next]_(WQ!wvars)
  <2> SUFFICES ASSUME IInv, CountInv, [Next]_vars
               PROVE  [WQ!Next]_(WQ!wvars)
      OBVIOUS
  <2>1. CASE UNCHANGED vars
    <3>1. UNCHANGED <<handled, req, taken, exit>> /\ Enqueued' = Enqueued
      BY <2>1 DEF vars, Enqueued
    <3>2. QED
      BY <3>1, Unseen
  <2>2. QED
    BY <2>1, RefinesMain, RefinesWorker DEF Next, Ended
<1>2. QED
  BY <1>1, Invariance, RefinesInit, CountInitially, CountStep, PTL
  DEF Spec, ImplementsWorkQueue, WQ!Spec
-----------------------------------------------------------------------------
(***************************************************************************)
(* The files: what a worker has on disk at each step of its request.       *)
(***************************************************************************)
Unopened(k) == \A d \in disk : d[2] # k

\* Before it opens its file, after it has removed it, and once it has come
\* to the end of a request that did not succeed, a worker has no file.
FileOK(w) ==
    /\ pc[w] \in {"unlock", "load", "store", "open"} => Unopened(req[w])
    /\ pc[w] = "unlink" => result[w].rc < 0
    /\ pc[w] = "status" /\ result[w].rc < 0 => Unopened(req[w])
    /\ pc[w] = "cleanup" /\ req[w] \notin kept => Unopened(req[w])
    /\ pc[w] \in Handling \ {"cleanup"} => req[w] \notin kept

\* Every file carries the local path of the request it was opened for.
NamesInv ==
    /\ \A d \in disk : d[1] = LocalPath(d[2]) /\ d[2] < taken
    /\ \A k \in kept : k < taken

FileInv == NamesInv /\ \A w \in Workers : FileOK(w)

\* The steps that leave every file and every request in progress alone.
Quiet ==
    /\ UNCHANGED <<req, taken, number, disk, result, kept>>
    /\ \A v \in Workers : pc'[v] \in Handling => pc'[v] = pc[v]

\* The steps of a worker in the middle of a request.
Handle(w) ==
    \/ Unlock(w) \/ LoadCounter(w) \/ StoreCounter(w) \/ OpenFile(w)
    \/ Perform(w) \/ Unlink(w) \/ CheckStatus(w) \/ Cleanup(w)

LEMMA FileCases ==
    IInv /\ [Next]_vars =>
        \/ Quiet
        \/ \E w \in Workers :
             \/ Running /\ Pop(w) /\ queue # << >>
             \/ Running /\ Handle(w)
<1> SUFFICES ASSUME IInv, [Next]_vars
             PROVE  \/ Quiet
                    \/ \E w \in Workers :
                         \/ Running /\ Pop(w) /\ queue # << >>
                         \/ Running /\ Handle(w)
    OBVIOUS
<1> USE DEF Quiet, Handling, bossVars, loopVars, queueVars, endVars,
        fileVars, numVars, Goto
<1>0. pc \in [Workers -> WorkerStates]
  BY DEF IInv, TypeOK
<1>1. CASE CreateThread
  BY <1>0, <1>1 DEF CreateThread, LoopHead
<1>2. CASE BeginProduce \/ GetPath \/ MainLock \/ Enqueue \/ MainUnlock
           \/ BeginJoin \/ Join \/ Destroy
  BY <1>0, <1>2 DEF BeginProduce, GetPath, MainLock, Enqueue, MainUnlock,
     BeginJoin, Join, Destroy
<1>3. CASE Signal
  BY <1>0, <1>3 DEF Signal
<1>4. ASSUME NEW w \in Workers,
             Lock(w) \/ Test(w) \/ Relock(w) \/ SpuriousWakeup(w)
             \/ OpenFails(w)
      PROVE  Quiet
  BY <1>0, <1>4 DEF Lock, Test, Relock, SpuriousWakeup, OpenFails
<1>5. ASSUME NEW w \in Workers, Pop(w), queue = << >>
      PROVE  Quiet
  BY <1>5 DEF Pop
<1>6. CASE UNCHANGED vars
  BY <1>6 DEF vars
<1>7. QED
  BY <1>1, <1>2, <1>3, <1>4, <1>5, <1>6
     DEF Next, MainStep, WorkerStep, Ended, Handle

LEMMA FileQuiet == IInv /\ FileInv /\ Quiet => FileInv'
<1> SUFFICES ASSUME IInv, FileInv, Quiet
             PROVE  FileInv'
    OBVIOUS
<1>1. NamesInv'
  BY DEF FileInv, NamesInv, Quiet, LocalPath
<1>2. ASSUME NEW v \in Workers
      PROVE  FileOK(v)'
  <2>1. pc'[v] \in Handling => pc'[v] = pc[v]
    BY DEF Quiet
  <2>2. FileOK(v) /\ UNCHANGED <<req, disk, result, kept>>
    BY DEF FileInv, Quiet
  <2>3. QED
    BY <2>1, <2>2 DEF FileOK, Unopened, Handling
<1>3. QED
  BY <1>1, <1>2 DEF FileInv

\* A worker is not disturbed by what another does with request k.
LEMMA FileKept ==
    ASSUME NEW v \in Workers, NEW k, FileOK(v),
           pc'[v] = pc[v], req'[v] = req[v], result'[v] = result[v],
           req[v] # k,
           \A d \in disk' : d \in disk \/ d[2] = k,
           \A j \in kept' : j \in kept \/ j = k,
           kept \subseteq kept'
    PROVE  FileOK(v)'
BY DEF FileOK, Unopened

LEMMA FilePop ==
    ASSUME IInv, FileInv, NEW w \in Workers, Running, Pop(w), queue # << >>
    PROVE  FileInv'
<1>1. Head(queue) = taken /\ taken \in Nat
  BY HeadOfQueue, TotalNat DEF IInv, TypeOK
<1>2. /\ req \in [Workers -> Requests \cup {None}]
      /\ pc \in [Workers -> WorkerStates]
  BY DEF IInv, TypeOK
<1>3. /\ req' = [req EXCEPT ![w] = taken] /\ taken' = taken + 1
      /\ pc' = [pc EXCEPT ![w] = "unlock"]
      /\ UNCHANGED <<disk, result, kept, number>>
  BY <1>1 DEF Pop, Goto, fileVars, numVars
<1>4. \A j \in Requests : j < taken => j < taken'
  BY <1>1, <1>3 DEF Requests
<1>5. NamesInv'
  <2>1. disk \in SUBSET (LocalPaths \X Requests) /\ kept \in SUBSET Requests
    BY DEF IInv, TypeOK
  <2>2. QED
    BY <1>3, <1>4, <2>1 DEF FileInv, NamesInv, LocalPath
<1>6. ASSUME NEW v \in Workers
      PROVE  FileOK(v)'
  <2>1. CASE v = w
    <3>1. pc'[v] = "unlock" /\ req'[v] = taken
      BY <1>2, <1>3, <2>1
    <3>2. \A d \in disk : d[2] # taken
      BY <1>1 DEF FileInv, NamesInv
    <3>3. taken \notin kept
      BY <1>1 DEF FileInv, NamesInv
    <3>4. QED
      BY <1>3, <3>1, <3>2, <3>3 DEF FileOK, Unopened, Handling
  <2>2. CASE v # w
    <3>1. pc'[v] = pc[v] /\ req'[v] = req[v] /\ result'[v] = result[v]
      BY <1>2, <1>3, <2>2
    <3>2. req[v] # taken
      BY <1>1, TotalNat DEF IInv, ControlInv, WorkerInv, WorkerOK
    <3>3. QED
      BY <1>3, <3>1, <3>2, FileKept DEF FileInv
  <2>3. QED
    BY <2>1, <2>2
<1>7. QED
  BY <1>5, <1>6 DEF FileInv

\* What the steps of a request share: they are about its own worker, and
\* about the files and the number of its own request.
LEMMA HandleFacts ==
    ASSUME IInv, NEW w \in Workers, Running, Handle(w)
    PROVE  /\ req[w] \in Requests /\ req[w] < taken /\ taken' = taken
           /\ pc[w] \in Handling
           /\ \A v \in Workers :
                v # w => /\ pc'[v] = pc[v] /\ req'[v] = req[v]
                         /\ result'[v] = result[v] /\ req[v] # req[w]
           /\ ~Cleanup(w) => req' = req
           /\ \A d \in disk' : d \in disk \/ d = <<LocalPath(req[w]), req[w]>>
           /\ \A j \in kept' : j \in kept \/ j = req[w]
           /\ kept \subseteq kept'
           /\ ~LoadCounter(w) => number' = number
<1>1. /\ pc \in [Workers -> WorkerStates]
      /\ req \in [Workers -> Requests \cup {None}]
      /\ result \in [Workers -> Outcomes]
      /\ WorkerOK(w)
  BY DEF IInv, TypeOK, ControlInv, WorkerInv
<1>2. pc[w] \in Handling
  BY DEF Handle, Unlock, LoadCounter, StoreCounter, OpenFile, Perform, Unlink,
     CheckStatus, Cleanup, Goto, Handling
<1>3. req[w] \in Requests /\ req[w] < taken /\ req[w] # None
  BY <1>1, <1>2 DEF WorkerOK
<1>4. taken' = taken
  BY DEF Handle, Unlock, LoadCounter, StoreCounter, OpenFile, Perform, Unlink,
     CheckStatus, Cleanup, queueVars
<1>5. ASSUME NEW v \in Workers, v # w
      PROVE  /\ pc'[v] = pc[v] /\ req'[v] = req[v]
             /\ result'[v] = result[v] /\ req[v] # req[w]
  <2>1. pc'[v] = pc[v]
    BY <1>1, <1>5 DEF Handle, Unlock, LoadCounter, StoreCounter, OpenFile,
       Perform, Unlink, CheckStatus, Cleanup, Goto
  <2>2. req'[v] = req[v]
    BY <1>1, <1>5 DEF Handle, Unlock, LoadCounter, StoreCounter, OpenFile,
       Perform, Unlink, CheckStatus, Cleanup, loopVars
  <2>3. result'[v] = result[v]
    BY <1>1, <1>5 DEF Handle, Unlock, LoadCounter, StoreCounter, OpenFile,
       Perform, Unlink, CheckStatus, Cleanup, fileVars
  <2>4. req[v] # req[w]
    BY <1>3, <1>5 DEF IInv, RequestsNotShared
  <2>5. QED
    BY <2>1, <2>2, <2>3, <2>4
<1>6. ~Cleanup(w) => req' = req
  BY DEF Handle, Unlock, LoadCounter, StoreCounter, OpenFile,
     Perform, Unlink, CheckStatus, loopVars
<1>7. \A d \in disk' : d \in disk \/ d = <<LocalPath(req[w]), req[w]>>
  BY DEF Handle, Unlock, LoadCounter, StoreCounter, OpenFile,
     Perform, Unlink, CheckStatus, Cleanup, RemoveFile, fileVars
<1>8. kept \subseteq kept' /\ \A j \in kept' : j \in kept \/ j = req[w]
  BY DEF Handle, Unlock, LoadCounter, StoreCounter, OpenFile,
     Perform, Unlink, CheckStatus, Cleanup, fileVars
<1>9. ~LoadCounter(w) => number' = number
  BY DEF Handle, Unlock, StoreCounter, OpenFile,
     Perform, Unlink, CheckStatus, Cleanup, fileVars, numVars
<1>10. QED
  BY <1>2, <1>3, <1>4, <1>5, <1>6, <1>7, <1>8, <1>9

LEMMA HandleNames ==
    ASSUME IInv, FileInv, NEW w \in Workers, Running, Handle(w)
    PROVE  NamesInv'
<1> DEFINE k == req[w]
<1>1. /\ k \in Requests /\ k < taken /\ taken' = taken
      /\ \A d \in disk' : d \in disk \/ d = <<LocalPath(k), k>>
      /\ \A j \in kept' : j \in kept \/ j = k
      /\ ~LoadCounter(w) => number' = number
  BY HandleFacts
<1>2. ASSUME NEW d \in disk'
      PROVE  d[1] = LocalPath(d[2])' /\ d[2] < taken'
  <2>1. d[1] = LocalPath(d[2]) /\ d[2] < taken
    BY <1>1, <1>2 DEF FileInv, NamesInv
  <2>2. CASE LoadCounter(w)
    <3>1. d \in disk /\ number' = [number EXCEPT ![k] = counter]
      BY <2>2 DEF LoadCounter
    <3>2. Unopened(k)
      BY <2>2 DEF LoadCounter, Goto, FileInv, FileOK
    <3>3. d[2] # k
      BY <3>1, <3>2 DEF Unopened
    <3>4. number'[d[2]] = number[d[2]]
      <4>1. d[2] \in Requests /\ number \in [Requests -> Nat \cup {None}]
        BY <3>1 DEF IInv, TypeOK
      <4>2. QED
        BY <3>1, <3>3, <4>1
    <3>5. QED
      BY <2>1, <3>4, <1>1 DEF LocalPath
  <2>3. CASE ~LoadCounter(w)
    BY <2>1, <2>3, <1>1 DEF LocalPath
  <2>4. QED
    BY <2>2, <2>3
<1>3. \A j \in kept' : j < taken'
  BY <1>1 DEF FileInv, NamesInv
<1>4. QED
  BY <1>2, <1>3 DEF NamesInv

\* Removing a file removes every trace of its request.
LEMMA RemovedFile ==
    ASSUME NamesInv, NEW k, NEW d \in RemoveFile(k)
    PROVE  d[2] # k
BY DEF NamesInv, RemoveFile

LEMMA HandleOwn ==
    ASSUME IInv, FileInv, NEW w \in Workers, Running, Handle(w)
    PROVE  FileOK(w)'
<1> DEFINE k == req[w]
<1>1. /\ pc \in [Workers -> WorkerStates]
      /\ result \in [Workers -> Outcomes]
      /\ result[w] \in AllOutcomes
      /\ FileOK(w) /\ NamesInv
  BY OutcomesAssumption DEF IInv, TypeOK, FileInv
<1>2. result[w].rc \in {0, -1}
      /\ (result[w].rc = 0 /\ result[w].status = "OK" => result[w] = Success)
  BY <1>1 DEF AllOutcomes, Success
<1>3. ~Cleanup(w) => req' = req
  BY HandleFacts
<1>4. CASE Unlock(w)
  <2>1. pc[w] = "unlock" /\ pc'[w] = "load"
        /\ UNCHANGED <<req, disk, kept, result>>
    BY <1>1, <1>4 DEF Unlock, Goto, fileVars, loopVars
  <2>2. QED
    BY <2>1, <1>1 DEF FileOK, Unopened, Handling
<1>5. CASE LoadCounter(w)
  <2>1. pc[w] = "load" /\ pc'[w] = "store"
        /\ UNCHANGED <<req, disk, kept, result>>
    BY <1>1, <1>5 DEF LoadCounter, Goto, loopVars
  <2>2. QED
    BY <2>1, <1>1 DEF FileOK, Unopened, Handling
<1>6. CASE StoreCounter(w)
  <2>1. pc[w] = "store" /\ pc'[w] = "open"
        /\ UNCHANGED <<req, disk, kept, result>>
    BY <1>1, <1>6 DEF StoreCounter, Goto, loopVars
  <2>2. QED
    BY <2>1, <1>1 DEF FileOK, Unopened, Handling
<1>7. CASE OpenFile(w)
  <2>1. pc[w] = "open" /\ pc'[w] = "perform"
        /\ UNCHANGED <<req, kept, result>>
    BY <1>1, <1>7 DEF OpenFile, Goto, loopVars
  <2>2. QED
    BY <2>1, <1>1 DEF FileOK, Handling
<1>8. CASE Perform(w)
  <2>1. PICK o \in Outcomes :
          /\ result' = [result EXCEPT ![w] = o]
          /\ Goto(w, "perform", IF o.rc < 0 THEN "unlink" ELSE "status")
    BY <1>8 DEF Perform
  <2>2. /\ pc[w] = "perform" /\ result'[w] = o
        /\ pc'[w] = (IF o.rc < 0 THEN "unlink" ELSE "status")
        /\ UNCHANGED <<req, disk, kept>>
    BY <2>1, <1>1, <1>8 DEF Perform, Goto, loopVars
  <2>3. QED
    BY <2>2, <1>1 DEF FileOK, Handling
<1>9. CASE Unlink(w)
  <2>1. /\ pc[w] = "unlink" /\ pc'[w] = "status"
        /\ disk' = RemoveFile(k)
        /\ UNCHANGED <<req, kept, result>>
    BY <1>1, <1>9 DEF Unlink, Goto, loopVars
  <2>2. Unopened(req[w])'
    BY <2>1, <1>1, RemovedFile DEF Unopened
  <2>3. QED
    BY <2>1, <2>2, <1>1 DEF FileOK, Handling
<1>10. CASE CheckStatus(w)
  <2>1. /\ pc[w] = "status" /\ pc'[w] = "cleanup"
        /\ disk' = IF result[w].status # "OK" THEN RemoveFile(k) ELSE disk
        /\ kept' = IF result[w] = Success THEN kept \cup {k} ELSE kept
        /\ UNCHANGED <<req, result>>
    BY <1>1, <1>10 DEF CheckStatus, Goto, loopVars
  <2>2. CASE result[w] = Success
    <3>1. req'[w] \in kept'
      BY <2>1, <2>2
    <3>2. QED
      BY <2>1, <3>1 DEF FileOK, Handling
  <2>3. CASE result[w].status # "OK"
    <3>1. Unopened(req[w])'
      BY <2>1, <2>3, <1>1, RemovedFile DEF Unopened
    <3>2. QED
      BY <2>1, <3>1 DEF FileOK, Handling
  <2>4. CASE result[w] # Success /\ result[w].status = "OK"
    <3>1. result[w].rc < 0 /\ disk' = disk
      BY <2>1, <2>4, <1>2
    <3>2. Unopened(req[w])'
      BY <2>1, <3>1, <1>1 DEF FileOK, Unopened
    <3>3. QED
      BY <2>1, <3>2 DEF FileOK, Handling
  <2>5. QED
    BY <2>2, <2>3, <2>4
<1>11. CASE Cleanup(w)
  <2>1. pc'[w] \in {"lock", "done"}
    BY <1>1, <1>11 DEF Cleanup, Goto, LoopHead
  <2>2. QED
    BY <2>1 DEF FileOK, Handling
<1>12. QED
  BY <1>4, <1>5, <1>6, <1>7, <1>8, <1>9, <1>10, <1>11 DEF Handle

LEMMA FileStep == IInv /\ FileInv /\ [Next]_vars => FileInv'
<1> SUFFICES ASSUME IInv, FileInv, [Next]_vars
             PROVE  FileInv'
    OBVIOUS
<1>1. ASSUME NEW w \in Workers, Running, Handle(w)
      PROVE  FileInv'
  <2>1. NamesInv'
    BY <1>1, HandleNames
  <2>2. ASSUME NEW v \in Workers, v # w
        PROVE  FileOK(v)'
    <3>1. /\ pc'[v] = pc[v] /\ req'[v] = req[v]
          /\ result'[v] = result[v] /\ req[v] # req[w]
          /\ \A d \in disk' :
               d \in disk \/ d = <<LocalPath(req[w]), req[w]>>
          /\ \A j \in kept' : j \in kept \/ j = req[w]
          /\ kept \subseteq kept'
      BY <1>1, <2>2, HandleFacts
    <3>2. \A d \in disk' : d \in disk \/ d[2] = req[w]
      BY <3>1
    <3>3. FileOK(v)
      BY DEF FileInv
    <3>4. QED
      BY <3>1, <3>2, <3>3, FileKept
  <2>3. FileOK(w)'
    BY <1>1, HandleOwn
  <2>4. QED
    BY <2>1, <2>2, <2>3 DEF FileInv
<1>2. QED
  BY <1>1, FileCases, FileQuiet, FilePop

\* A request that is taken off the list of those in progress is one of those
\* kept, or has no file.
LEMMA LeftoverStep ==
    IInv /\ FileInv /\ NoLeftovers /\ [Next]_vars => NoLeftovers'
<1> SUFFICES ASSUME IInv, FileInv, NoLeftovers, [Next]_vars,
                    NEW d \in disk'
             PROVE  d[2] \in kept' \cup InProgress'
    BY DEF NoLeftovers
<1> USE DEF NoLeftovers, InProgress
<1>1. CASE Quiet
  BY <1>1 DEF Quiet
<1>2. ASSUME NEW w \in Workers, Running, Pop(w), queue # << >>
      PROVE  d[2] \in kept' \cup InProgress'
  <2>1. /\ req' = [req EXCEPT ![w] = Head(queue)]
        /\ pc[w] = "pop" /\ UNCHANGED <<disk, kept>>
    BY <1>2 DEF Pop, fileVars
  <2>2. /\ req \in [Workers -> Requests \cup {None}] /\ req[w] = None
        /\ d[2] \in Requests
    BY <2>1 DEF IInv, TypeOK, ControlInv, WorkerInv, WorkerOK, Handling
  <2>3. d[2] # None
    BY <2>2, TotalNat DEF Requests, None
  <2>4. CASE d[2] \in kept
    BY <2>1, <2>4
  <2>5. CASE d[2] \notin kept
    <3>1. PICK v \in Workers : d[2] = req[v]
      BY <2>1, <2>5
    <3>2. v # w
      BY <3>1, <2>2, <2>3
    <3>3. req'[v] = d[2]
      BY <2>1, <2>2, <3>1, <3>2
    <3>4. QED
      BY <3>3
  <2>6. QED
    BY <2>4, <2>5
<1>3. ASSUME NEW w \in Workers, Running, Handle(w)
      PROVE  d[2] \in kept' \cup InProgress'
  <2>1. /\ d \in disk \/ d = <<LocalPath(req[w]), req[w]>>
        /\ kept \subseteq kept'
        /\ ~Cleanup(w) => req' = req
        /\ \A v \in Workers : v # w => req'[v] = req[v]
    BY <1>3, HandleFacts
  <2>2. CASE ~Cleanup(w)
    BY <2>1, <2>2
  <2>3. CASE Cleanup(w)
    <3>1. pc[w] = "cleanup" /\ UNCHANGED <<disk, kept>>
      BY <2>3 DEF Cleanup, Goto
    <3>2. d[2] = req[w] => req[w] \in kept
      BY <3>1 DEF FileInv, FileOK, Unopened
    <3>3. QED
      BY <2>1, <3>1, <3>2
  <2>4. QED
    BY <2>2, <2>3
<1>4. QED
  BY <1>1, <1>2, <1>3, FileCases

LEMMA FileInitially == Init => FileInv /\ NoLeftovers
BY DEF Init, FileInv, NamesInv, FileOK, NoLeftovers, Handling

\* A download that failed, or one that a worker has given up, leaves no file
\* behind, whatever the other workers do and whatever paths repeat.
THEOREM LeftoverCorrect == Spec => []NoLeftovers
BY FileInitially, FileStep, LeftoverStep, Invariance, PTL DEF Spec

\* No two requests of this run name the same path: the workload has as many
\* entries as there are requests, and no entry twice.
NoPathTwice ==
    \A j, k \in Requests : PathOf(j) = PathOf(k) => j = k

\* What a worker has opened, and what was reported as complete, is on disk.
OpenOK(w) ==
    (pc[w] = "perform" \/ (pc[w] = "status" /\ result[w].rc = 0)) =>
        <<LocalPath(req[w]), req[w]>> \in disk

KeptInv ==
    /\ \A w \in Workers : OpenOK(w)
    /\ \A k \in kept : <<LocalPath(k), k>> \in disk

LEMMA KeptQuiet == KeptInv /\ Quiet => KeptInv'
<1> SUFFICES ASSUME KeptInv, Quiet
             PROVE  KeptInv'
    OBVIOUS
<1> USE DEF Quiet
<1>1. \A k \in kept' : <<LocalPath(k)', k>> \in disk'
  BY DEF KeptInv, LocalPath
<1>2. ASSUME NEW v \in Workers
      PROVE  OpenOK(v)'
  BY DEF KeptInv, OpenOK, LocalPath, Handling
<1>3. QED
  BY <1>1, <1>2 DEF KeptInv

LEMMA KeptPop ==
    ASSUME IInv, FileInv, KeptInv, NEW w \in Workers, Running, Pop(w),
           queue # << >>
    PROVE  KeptInv'
<1>1. /\ req' = [req EXCEPT ![w] = Head(queue)]
      /\ pc' = [pc EXCEPT ![w] = "unlock"]
      /\ UNCHANGED <<disk, kept, number, result>>
  BY DEF Pop, Goto, fileVars, numVars
<1>2. /\ req \in [Workers -> Requests \cup {None}]
      /\ pc \in [Workers -> WorkerStates]
  BY DEF IInv, TypeOK
<1>3. \A k \in kept' : <<LocalPath(k)', k>> \in disk'
  BY <1>1 DEF KeptInv, LocalPath
<1>4. ASSUME NEW v \in Workers
      PROVE  OpenOK(v)'
  <2>1. v = w => pc'[v] = "unlock"
    BY <1>1, <1>2
  <2>2. v # w => pc'[v] = pc[v] /\ req'[v] = req[v]
    BY <1>1, <1>2
  <2>3. OpenOK(v)
    BY DEF KeptInv
  <2>4. QED
    BY <1>1, <2>1, <2>2, <2>3 DEF OpenOK, LocalPath
<1>5. QED
  BY <1>3, <1>4 DEF KeptInv

\* Where no path repeats, a worker disturbs no other worker's file: neither
\* opening nor removing its own touches what another request has on disk.
LEMMA OwnFileOnly ==
    ASSUME NoPathTwice, IInv, FileInv, NEW w \in Workers, Running, Handle(w),
           NEW k \in Requests, k # req[w], <<LocalPath(k), k>> \in disk
    PROVE  <<LocalPath(k)', k>> \in disk'
<1>1. req[w] \in Requests
  BY HandleFacts
<1>2. LocalPath(k) # LocalPath(req[w])
  BY <1>1 DEF NoPathTwice, LocalPath
<1>3. <<LocalPath(k), k>> \in RemoveFile(req[w])
  BY <1>2 DEF RemoveFile
<1>4. LocalPath(k)' = LocalPath(k)
  <2>1. CASE LoadCounter(w)
    <3>1. number' = [number EXCEPT ![req[w]] = counter]
          /\ number \in [Requests -> Nat \cup {None}]
      BY <2>1 DEF LoadCounter, IInv, TypeOK
    <3>2. QED
      BY <3>1 DEF LocalPath
  <2>2. CASE ~LoadCounter(w)
    BY <2>2, HandleFacts DEF LocalPath
  <2>3. QED
    BY <2>1, <2>2
<1>5. <<LocalPath(k), k>> \in disk'
  BY <1>3 DEF Handle, Unlock, LoadCounter, StoreCounter, OpenFile, Perform,
     Unlink, CheckStatus, Cleanup, fileVars
<1>6. QED
  BY <1>4, <1>5

LEMMA KeptOwn ==
    ASSUME IInv, FileInv, KeptInv, NEW w \in Workers, Running, Handle(w)
    PROVE  /\ OpenOK(w)'
           /\ \A k \in kept' :
                k = req[w] => <<LocalPath(k)', k>> \in disk'
<1> SUFFICES ASSUME NEW k, k = req[w]
             PROVE  /\ OpenOK(w)'
                    /\ k \in kept' => <<LocalPath(k)', k>> \in disk'
    OBVIOUS
<1>1. /\ pc \in [Workers -> WorkerStates]
      /\ result \in [Workers -> Outcomes]
      /\ FileOK(w) /\ OpenOK(w)
      /\ k \in kept => <<LocalPath(k), k>> \in disk
  BY DEF IInv, TypeOK, FileInv, KeptInv
<1>2. CASE Unlock(w)
  <2>1. /\ pc[w] = "unlock" /\ pc'[w] = "load"
        /\ UNCHANGED <<req, disk, kept, result, number>>
    BY <1>1, <1>2 DEF Unlock, Goto, fileVars, numVars, loopVars
  <2>2. QED
    BY <2>1, <1>1 DEF OpenOK, LocalPath
<1>3. CASE LoadCounter(w)
  <2>1. pc[w] = "load" /\ pc'[w] = "store" /\ UNCHANGED <<req, disk, kept>>
    BY <1>1, <1>3 DEF LoadCounter, Goto, loopVars
  <2>2. k \notin kept
    BY <2>1, <1>1 DEF FileOK, Handling
  <2>3. QED
    BY <2>1, <2>2 DEF OpenOK
<1>4. CASE StoreCounter(w)
  <2>1. /\ pc[w] = "store" /\ pc'[w] = "open"
        /\ UNCHANGED <<req, disk, kept, number>>
    BY <1>1, <1>4 DEF StoreCounter, Goto, loopVars
  <2>2. QED
    BY <2>1, <1>1 DEF OpenOK, LocalPath
<1>5. CASE OpenFile(w)
  <2>1. /\ disk' = disk \cup {<<LocalPath(k), k>>}
        /\ UNCHANGED <<req, number>>
    BY <1>5 DEF OpenFile, loopVars, numVars
  <2>2. QED
    BY <2>1 DEF OpenOK, LocalPath
<1>6. CASE Perform(w)
  <2>1. /\ pc[w] = "perform"
        /\ UNCHANGED <<req, disk, kept, number>>
    BY <1>6 DEF Perform, Goto, loopVars, numVars
  <2>2. QED
    BY <2>1, <1>1 DEF OpenOK, LocalPath
<1>7. CASE Unlink(w)
  <2>1. /\ pc[w] = "unlink" /\ pc'[w] = "status"
        /\ UNCHANGED <<req, kept, result>>
    BY <1>1, <1>7 DEF Unlink, Goto, loopVars
  <2>2. result[w].rc < 0 /\ k \notin kept
    BY <2>1, <1>1 DEF FileOK, Handling
  <2>3. result[w].rc # 0
    <3>1. result[w].rc \in {0, -1}
      BY <1>1, OutcomesAssumption DEF AllOutcomes
    <3>2. QED
      BY <2>2, <3>1
  <2>4. QED
    BY <2>1, <2>2, <2>3 DEF OpenOK
<1>8. CASE CheckStatus(w)
  <2>1. /\ pc[w] = "status" /\ pc'[w] = "cleanup"
        /\ disk' = IF result[w].status # "OK" THEN RemoveFile(k) ELSE disk
        /\ kept' = IF result[w] = Success THEN kept \cup {k} ELSE kept
        /\ number' = number
    BY <1>1, <1>8 DEF CheckStatus, Goto, numVars
  <2>2. k \notin kept
    BY <2>1, <1>1 DEF FileOK, Handling
  <2>3. CASE result[w] = Success
    <3>1. disk' = disk /\ <<LocalPath(k), k>> \in disk
      BY <2>1, <2>3, <1>1 DEF Success, OpenOK
    <3>2. QED
      BY <2>1, <3>1 DEF OpenOK, LocalPath
  <2>4. CASE result[w] # Success
    <3>1. kept' = kept
      BY <2>1, <2>4
    <3>2. QED
      BY <2>1, <2>2, <3>1 DEF OpenOK
  <2>5. QED
    BY <2>3, <2>4
<1>9. CASE Cleanup(w)
  <2>1. /\ pc'[w] \in {"lock", "done"}
        /\ UNCHANGED <<disk, kept, number>>
    BY <1>1, <1>9 DEF Cleanup, Goto, LoopHead, numVars
  <2>2. QED
    BY <2>1, <1>1 DEF OpenOK, LocalPath
<1>10. QED
  BY <1>2, <1>3, <1>4, <1>5, <1>6, <1>7, <1>8, <1>9 DEF Handle

LEMMA KeptStep ==
    NoPathTwice /\ IInv /\ FileInv /\ KeptInv /\ [Next]_vars => KeptInv'
<1> SUFFICES ASSUME NoPathTwice, IInv, FileInv, KeptInv, [Next]_vars
             PROVE  KeptInv'
    OBVIOUS
<1>1. ASSUME NEW w \in Workers, Running, Handle(w)
      PROVE  KeptInv'
  <2>1. /\ pc \in [Workers -> WorkerStates]
        /\ req \in [Workers -> Requests \cup {None}]
        /\ kept \in SUBSET Requests
    BY DEF IInv, TypeOK
  <2>2. ASSUME NEW k \in kept'
        PROVE  <<LocalPath(k)', k>> \in disk'
    <3>1. CASE k = req[w]
      BY <1>1, <3>1, KeptOwn
    <3>2. CASE k # req[w]
      <4>1. k \in kept /\ k \in Requests
        BY <1>1, <2>1, <3>2, HandleFacts
      <4>2. <<LocalPath(k), k>> \in disk
        BY <4>1 DEF KeptInv
      <4>3. QED
        BY <1>1, <3>2, <4>1, <4>2, OwnFileOnly
    <3>3. QED
      BY <3>1, <3>2
  <2>3. ASSUME NEW v \in Workers, v # w
        PROVE  OpenOK(v)'
    <3>1. /\ pc'[v] = pc[v] /\ req'[v] = req[v]
          /\ result'[v] = result[v] /\ req[v] # req[w]
      BY <1>1, <2>3, HandleFacts
    <3>2. OpenOK(v) /\ WorkerOK(v)
      BY DEF KeptInv, IInv, ControlInv, WorkerInv
    <3>3. CASE pc[v] \in {"perform", "status"}
      <4>1. req[v] \in Requests
        BY <3>2, <3>3, <2>1 DEF WorkerOK, Handling
      <4>2. PICK k \in Requests : k = req[v]
        BY <4>1
      <4>3. CASE <<LocalPath(k), k>> \in disk
        <5>1. <<LocalPath(k)', k>> \in disk'
          BY <1>1, <3>1, <4>2, <4>3, OwnFileOnly
        <5>2. LocalPath(req[v])' = LocalPath(k)' /\ req'[v] = k
          BY <3>1, <4>2 DEF LocalPath
        <5>3. QED
          BY <5>1, <5>2 DEF OpenOK
      <4>4. CASE <<LocalPath(k), k>> \notin disk
        <5>1. ~(pc[v] = "perform" \/ (pc[v] = "status" /\ result[v].rc = 0))
          BY <3>2, <4>2, <4>4 DEF OpenOK
        <5>2. QED
          BY <3>1, <5>1 DEF OpenOK
      <4>5. QED
        BY <4>3, <4>4
    <3>4. CASE pc[v] \notin {"perform", "status"}
      BY <3>1, <3>4 DEF OpenOK
    <3>5. QED
      BY <3>3, <3>4
  <2>4. OpenOK(w)'
    BY <1>1, KeptOwn
  <2>5. QED
    BY <2>2, <2>3, <2>4 DEF KeptInv
<1>2. QED
  BY <1>1, FileCases, KeptQuiet, KeptPop

LEMMA KeptInitially == Init => KeptInv
BY DEF Init, KeptInv, OpenOK

\* Where no path repeats, the unlocked counter does no harm: a file on disk
\* under a request's local path is that request's own.
LEMMA KeptMeans ==
    NoPathTwice /\ IInv /\ FileInv /\ KeptInv => KeptIntact
<1> SUFFICES ASSUME NoPathTwice, IInv, FileInv, KeptInv, NEW k \in kept
             PROVE  {d \in disk : d[1] = LocalPath(k)} = {<<LocalPath(k), k>>}
    BY DEF KeptIntact
<1>1. kept \in SUBSET Requests /\ disk \in SUBSET (LocalPaths \X Requests)
  BY DEF IInv, TypeOK
<1>2. <<LocalPath(k), k>> \in disk
  BY DEF KeptInv
<1>3. ASSUME NEW d \in disk, d[1] = LocalPath(k)
      PROVE  d = <<LocalPath(k), k>>
  <2>1. d[2] \in Requests /\ d = <<d[1], d[2]>>
    BY <1>1
  <2>2. LocalPath(d[2]) = LocalPath(k)
    BY <1>3 DEF FileInv, NamesInv
  <2>3. PathOf(d[2]) = PathOf(k)
    BY <2>2 DEF LocalPath
  <2>4. d[2] = k
    BY <1>1, <2>1, <2>3 DEF NoPathTwice
  <2>5. QED
    BY <1>3, <2>1, <2>4
<1>4. QED
  BY <1>2, <1>3

\* A download reported OK keeps its file to itself, in every run whose
\* requests name different paths.  (In the others two workers can read the
\* same counter, which the run client_race shows.)
THEOREM KeptCorrect ==
    ASSUME NoPathTwice
    PROVE  Spec => []KeptIntact
<1>1. IInv /\ FileInv /\ KeptInv /\ [Next]_vars => KeptInv'
  BY KeptStep
<1>2. IInv /\ FileInv /\ KeptInv => KeptIntact
  BY KeptMeans
<1>3. QED
  BY <1>1, <1>2, KeptInitially, FileInitially, FileStep, Invariance, PTL
     DEF Spec
=============================================================================
