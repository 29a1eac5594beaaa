------------------------------ MODULE WorkQueue ------------------------------
(***************************************************************************)
(* What a boss/worker hand-off promises, without a lock, a condition       *)
(* variable or a queue: a boss submits the requests 0 .. Workers * Share-1 *)
(* in order, each is given to exactly one worker, in the order of          *)
(* submission, and every worker handles exactly Share of them.  The run    *)
(* closes only when every request has been handled, or aborts as a whole.  *)
(***************************************************************************)
EXTENDS Integers

CONSTANTS Workers,   \* the pool of threads
          Share,     \* requests that each worker handles
          Total      \* requests that the boss submits

None == -1           \* "holds no request"

VARIABLES submitted, \* number of requests the boss has submitted
          taken,     \* number of requests handed to a worker
          holding,   \* request each worker is handling, or None
          handled,   \* number of requests each worker is through with
          status     \* "open", "closed" or "aborted"

wvars == <<submitted, taken, holding, handled, status>>

Init ==
    /\ submitted = 0
    /\ taken = 0
    /\ holding = [w \in Workers |-> None]
    /\ handled = [w \in Workers |-> 0]
    /\ status = "open"

Submit ==
    /\ status = "open"
    /\ submitted < Total
    /\ submitted' = submitted + 1
    /\ UNCHANGED <<taken, holding, handled, status>>

Take(w) ==
    /\ status = "open"
    /\ holding[w] = None
    /\ handled[w] < Share
    /\ taken < submitted
    /\ holding' = [holding EXCEPT ![w] = taken]
    /\ taken' = taken + 1
    /\ UNCHANGED <<submitted, handled, status>>

Complete(w) ==
    /\ status = "open"
    /\ holding[w] # None
    /\ holding' = [holding EXCEPT ![w] = None]
    /\ handled' = [handled EXCEPT ![w] = @ + 1]
    /\ UNCHANGED <<submitted, taken, status>>

\* Closing is allowed only once nothing is left to hand out and nobody works.
Close ==
    /\ status = "open"
    /\ taken = Total
    /\ submitted = Total
    /\ \A w \in Workers : holding[w] = None /\ handled[w] = Share
    /\ status' = "closed"
    /\ UNCHANGED <<submitted, taken, holding, handled>>

\* The process may be ended by the failure of any of its threads.
Abort ==
    /\ status = "open"
    /\ status' = "aborted"
    /\ UNCHANGED <<submitted, taken, holding, handled>>

Next ==
    \/ Submit
    \/ \E w \in Workers : Take(w) \/ Complete(w)
    \/ Close
    \/ Abort

Spec == Init /\ [][Next]_wvars

FairSpec == Spec /\ WF_wvars(Next)
=============================================================================
