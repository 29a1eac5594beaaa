-------------------------------- MODULE QTest --------------------------------
(***************************************************************************)
(* The queue tester of "Linked List Lab": the commands of qtest.c, the     *)
(* queue of queue.c that they try out, statement by statement, and the     *)
(* harness of harness.c around it, which counts the allocated blocks and   *)
(* leaves an operation by siglongjmp when the alarm goes off or a bad      *)
(* pointer is followed.                                                    *)
(***************************************************************************)
EXTENDS Integers, Sequences, FiniteSets, SequencesExt

CONSTANTS
    Str,           \* the strings that are inserted
    NoStr,         \* no string
    FailLimit,     \* fail_limit
    BigQueue,      \* big_queue_size
    ErrLimit,      \* err_limit
    MaxReps,       \* bound: the repetitions a command asks for
    MaxLen,        \* bound: the script keeps the queue this short
    MaxAlarms,     \* bound: alarms in a run
    MaxBlocks      \* bound: addresses malloc can return

ASSUME TesterAssumption ==
    /\ NoStr \notin Str /\ NoStr \notin Seq(Str)
    /\ {FailLimit, ErrLimit, MaxReps} \subseteq Nat \ {0}
    /\ {BigQueue, MaxLen, MaxAlarms, MaxBlocks} \subseteq Nat
    /\ MaxBlocks >= 2 * MaxLen + 2        \* malloc has room for them

VARIABLES
    heap,            \* the block at each allocated address
    q, qcnt, fail_count,
    error_occurred, cautious_mode, noallocate_mode, jmp_ready, time_limited,
    err_cnt,         \* the console's count of failed commands
    exit,            \* how the process has ended, if it has
    pc,              \* the statement to be executed next
    cmd,             \* the command
    op,              \* the function that carries it out
    loc,             \* the local variables of that function
    verbose,         \* verblevel is 3 or more
    alarms,          \* history: how many alarms went off
    before,          \* history: the strings in the queue when the command began
    reported         \* history: the function whose exception was reported

memory   == <<heap, q>>
tally    == <<qcnt, fail_count>>
modes    == <<cautious_mode, noallocate_mode>>
recovery == <<jmp_ready, time_limited>>
console  == <<err_cnt, exit, cmd, op>>
history  == <<alarms, reported, before>>
noted    == <<alarms, reported>>
vars     == <<memory, tally, error_occurred, modes, recovery, console, pc,
              loc, verbose, history>>

NULL  == 0
Wild  == -1           \* memory as test_malloc fills it, read as a pointer
Block == 1 .. MaxBlocks

IsElement(p) == p \in DOMAIN heap /\ heap[p].kind = "element"

Address == {Wild, NULL} \cup Block

\* The addresses of the elements from p on, up to the first that is none.
Chain(p) ==
    LET from[x \in (0 .. MaxBlocks) \X Address] ==
            IF x[1] > 0 /\ IsElement(x[2])
            THEN <<x[2]>> \o from[<<x[1] - 1, heap[x[2]].next>>]
            ELSE << >>
    IN  from[<<MaxBlocks, p>>]

\* Their strings.
Strings(p) ==
    LET chain == Chain(p)
    IN  [i \in DOMAIN chain |-> heap[heap[chain[i]].value].str]

-----------------------------------------------------------------------------
(* Commands.  An alarm may leave the queue damaged; the script goes on with  *)
(* what shows and frees it.                                                  *)

Command ==
    [op : {"new", "free", "rhq", "reverse", "show", "bad"}, str : {NoStr}, n : {1}]
        \cup [op : {"ih", "it"}, str : Str, n : 1 .. MaxReps]
        \cup [op : {"rh"}, str : Str \cup {NoStr}, n : {1}]
        \cup [op : {"size"}, str : {NoStr}, n : {1, MaxReps}]

NoCommand == [op |-> "none", str |-> NoStr, n |-> 1]

Issued(c) ==
    /\ c.op \in {"ih", "it"} => qcnt + c.n <= MaxLen
    /\ alarms > 0 => c.op \in {"show", "free"}

Locals == [ok |-> TRUE, r |-> 0, ptr |-> NULL, aux |-> NULL, rval |-> FALSE,
           seen |-> 0, taken |-> NoStr]

\* queue_init, init_cmd.
Init ==
    /\ heap = << >> /\ q = NULL
    /\ qcnt = 0 /\ fail_count = 0
    /\ error_occurred = FALSE
    /\ cautious_mode = TRUE /\ noallocate_mode = FALSE
    /\ jmp_ready = FALSE /\ time_limited = FALSE
    /\ err_cnt = 0 /\ exit = "no"
    /\ pc = "idle"
    /\ cmd = NoCommand /\ op = "none"
    /\ loc = Locals
    /\ verbose \in BOOLEAN
    /\ alarms = 0 /\ reported = "none" /\ before = NoStr

Goto(label) == pc' = label

\* The function f up to exception_setup: error_check(), and the mode it sets.
Enter(f) ==
    /\ op' = f
    /\ error_occurred' = IF f \in {"show", "quit"} THEN error_occurred ELSE FALSE
    /\ cautious_mode' = ~(f \in {"free", "quit"} /\ qcnt > BigQueue)
    /\ noallocate_mode' = (f = "reverse")
    /\ Goto(IF f = "show" THEN "show" ELSE "setup")

\* do_new frees the old queue first.
Begin(c) ==
    /\ pc = "idle" /\ c.op # "bad" /\ Issued(c)
    /\ Enter(IF c.op = "new" /\ q # NULL THEN "free" ELSE c.op)
    /\ cmd' = c
    /\ loc' = Locals
    /\ before' = IF q = NULL \/ alarms > 0 THEN NoStr ELSE Strings(heap[q].head)
    /\ UNCHANGED <<memory, tally, recovery, err_cnt, exit, verbose, noted>>

\* The quit command, or the end of the input if no command has failed:
\* do_quit_cmd calls queue_quit.
Quit ==
    /\ pc = "idle"
    /\ Enter("quit")
    /\ loc' = Locals
    /\ UNCHANGED <<memory, tally, recovery, err_cnt, exit, cmd, verbose, history>>

\* The end of the input after an error: main does not get to finish_cmd.
Leave ==
    /\ pc = "idle" /\ err_cnt > 0
    /\ Goto("exit") /\ exit' = "failure"
    /\ UNCHANGED <<memory, tally, error_occurred, modes, recovery, err_cnt, cmd, op,
                   loc, verbose, history>>

\* interpret_cmda after a command: record_error, which at the limit stops the
\* process without its quit helpers.
Record(success) ==
    /\ err_cnt' = IF success THEN err_cnt ELSE err_cnt + 1
    /\ IF err_cnt' >= ErrLimit /\ ~success
       THEN Goto("exit") /\ exit' = "failure"
       ELSE Goto("idle") /\ UNCHANGED exit
    /\ cmd' = NoCommand /\ op' = "none" /\ loc' = Locals /\ before' = NoStr

\* A command with too many arguments or with a count that is no number.
BadCommand(c) ==
    /\ pc = "idle" /\ c.op = "bad" /\ Issued(c)
    /\ Record(FALSE)
    /\ UNCHANGED <<memory, tally, error_occurred, modes, recovery, verbose, noted>>

First == CASE op \in {"ih", "it", "size"} -> "loop"
           [] op \in {"rh", "rhq"}        -> "remove"
           [] op \in {"free", "quit"}     -> "free"
           [] OTHER                       -> op

ArmedSetup ==
    /\ jmp_ready' = TRUE
    /\ time_limited' = TRUE

ExceptionSetup ==
    /\ pc = "setup"
    /\ ArmedSetup
    /\ Goto(First)
    /\ UNCHANGED <<memory, tally, error_occurred, modes, console, loc, verbose,
                   history>>

-----------------------------------------------------------------------------
(* test_malloc and test_free, each one step: the alarm comes between them.   *)

\* Freed memory is handed out again as soon as possible.
FreeBlock == CHOOSE b \in Block : b \notin DOMAIN heap
                                  /\ \A c \in Block \ DOMAIN heap : b <= c

With(b, cell) == [a \in DOMAIN heap \cup {b} |-> IF a = b THEN cell ELSE heap[a]]
Without(b)    == [a \in DOMAIN heap \ {b} |-> heap[a]]

allocation_check == Cardinality(DOMAIN heap)

Returns(result) ==
    /\ loc' = [loc EXCEPT !.rval = result]
    /\ Goto(IF op \in {"ih", "it"} THEN "ret" ELSE "cancel")

QNew ==
    \/ /\ pc = "new"
       /\ heap' = With(FreeBlock, [kind |-> "queue", head |-> NULL,
                                   tail |-> NULL, size |-> 0])
       /\ loc' = [loc EXCEPT !.ptr = FreeBlock]
       /\ Goto("new.ret")
       /\ UNCHANGED q
    \/ /\ pc = "new"
       /\ Returns(FALSE)
       /\ UNCHANGED memory
    \/ /\ pc = "new.ret"
       /\ q' = loc.ptr
       /\ Returns(TRUE)
       /\ UNCHANGED heap

QFree ==
    \/ /\ pc = "free"
       /\ IF q = NULL
          THEN Goto("cancel") /\ UNCHANGED loc
          ELSE Goto("free.next") /\ loc' = [loc EXCEPT !.ptr = heap[q].head]
       /\ UNCHANGED memory
    \/ /\ pc = "free.next"
       /\ IF loc.ptr = NULL
          THEN Goto("free.queue") /\ UNCHANGED loc
          ELSE Goto("free.value") /\ loc' = [loc EXCEPT !.aux = heap[loc.ptr].next]
       /\ UNCHANGED memory
    \/ /\ pc = "free.value"
       /\ heap' = Without(heap[loc.ptr].value)
       /\ Goto("free.element")
       /\ UNCHANGED <<q, loc>>
    \/ /\ pc = "free.element"
       /\ heap' = Without(loc.ptr)
       /\ loc' = [loc EXCEPT !.ptr = loc.aux]
       /\ Goto("free.next")
       /\ UNCHANGED q
    \/ /\ pc = "free.queue"
       /\ heap' = Without(q)
       /\ Goto("cancel")
       /\ UNCHANGED <<q, loc>>

\* Faulty: the element is not freed when there is no room for its string.
KeepNewElement ==
    /\ pc = "insert.value"
    /\ Returns(FALSE)
    /\ UNCHANGED memory

FreeNewElement ==
    /\ pc = "insert.value"
    /\ heap' = Without(loc.ptr)
    /\ Returns(FALSE)
    /\ UNCHANGED q

\* What both insertions begin with: allocate an element and a copy of the string.
NewElement ==
    \/ /\ pc = "insert" /\ q = NULL
       /\ Returns(FALSE)
       /\ UNCHANGED memory
    \/ /\ pc = "insert" /\ q # NULL
       /\ heap' = With(FreeBlock, [kind |-> "element", value |-> Wild, next |-> Wild])
       /\ loc' = [loc EXCEPT !.ptr = FreeBlock]
       /\ Goto("insert.value")
       /\ UNCHANGED q
    \/ /\ pc = "insert" /\ q # NULL
       /\ Returns(FALSE)
       /\ UNCHANGED memory
    \/ /\ pc = "insert.value"
       /\ heap' = [With(FreeBlock, [kind |-> "string", str |-> cmd.str])
                      EXCEPT ![loc.ptr].value = FreeBlock]
       /\ Goto(op)
       /\ UNCHANGED <<q, loc>>
    \/ FreeNewElement

WriteHead(p) == heap' = [heap EXCEPT ![q].head = p]
WriteTail(p) == heap' = [heap EXCEPT ![q].tail = p]
WriteSize(n) == heap' = [heap EXCEPT ![q].size = n]

SetFirstTail ==
    /\ pc = "ih"
    /\ IF heap[q].head = NULL THEN WriteTail(loc.ptr) ELSE UNCHANGED heap
    /\ Goto("ih.next")
    /\ UNCHANGED <<q, loc>>

QInsertHead ==
    \/ SetFirstTail
    \/ /\ pc = "ih.next"
       /\ heap' = [heap EXCEPT ![loc.ptr].next = heap[q].head]
       /\ Goto("ih.head")
       /\ UNCHANGED <<q, loc>>
    \/ /\ pc = "ih.head"
       /\ WriteHead(loc.ptr)
       /\ Goto("ih.size")
       /\ UNCHANGED <<q, loc>>
    \/ /\ pc = "ih.size"
       /\ WriteSize(heap[q].size + 1)
       /\ Returns(TRUE)
       /\ UNCHANGED q

\* Faulty: the tail stays where it was unless the queue was empty.
SetTailOnce ==
    /\ pc = "it.tail"
    /\ IF heap[q].size = 0 THEN WriteTail(loc.ptr) ELSE UNCHANGED heap
    /\ Goto("it.size")
    /\ UNCHANGED <<q, loc>>

SetTail ==
    /\ pc = "it.tail"
    /\ WriteTail(loc.ptr)
    /\ Goto("it.size")
    /\ UNCHANGED <<q, loc>>

QInsertTail ==
    \/ /\ pc = "it"
       /\ IF heap[q].size = 0
          THEN WriteHead(loc.ptr)
          ELSE heap' = [heap EXCEPT ![heap[q].tail].next = loc.ptr]
       /\ Goto("it.next")
       /\ UNCHANGED <<q, loc>>
    \/ /\ pc = "it.next"
       /\ heap' = [heap EXCEPT ![loc.ptr].next = NULL]
       /\ Goto("it.tail")
       /\ UNCHANGED <<q, loc>>
    \/ SetTail
    \/ /\ pc = "it.size"
       /\ WriteSize(heap[q].size + 1)
       /\ Returns(TRUE)
       /\ UNCHANGED q

\* Faulty: the size is not decremented.
KeepSize ==
    /\ pc = "remove.size"
    /\ Returns(TRUE)
    /\ UNCHANGED memory

ShrinkSize ==
    /\ pc = "remove.size"
    /\ WriteSize(heap[q].size - 1)
    /\ Returns(TRUE)
    /\ UNCHANGED q

\* The tail of a queue that becomes empty stays where it was.
QRemoveHead ==
    \/ /\ pc = "remove"
       /\ IF q = NULL \/ heap[q].head = NULL
          THEN Returns(FALSE)
          ELSE LET first == heap[q].head
               IN  /\ loc' = [loc EXCEPT !.ptr = first,
                                         !.taken = heap[heap[first].value].str]
                   /\ Goto("remove.head")
       /\ UNCHANGED memory
    \/ /\ pc = "remove.head"
       /\ WriteHead(heap[loc.ptr].next)
       /\ Goto("remove.value")
       /\ UNCHANGED <<q, loc>>
    \/ /\ pc = "remove.value"
       /\ heap' = Without(heap[loc.ptr].value)
       /\ Goto("remove.element")
       /\ UNCHANGED <<q, loc>>
    \/ /\ pc = "remove.element"
       /\ heap' = Without(loc.ptr)
       /\ Goto("remove.size")
       /\ UNCHANGED <<q, loc>>
    \/ ShrinkSize

QSize ==
    /\ pc = "size"
    /\ loc' = [loc EXCEPT !.seen = IF q # NULL /\ heap[q].head # NULL
                                   THEN heap[q].size ELSE 0]
    /\ Goto("check")
    /\ UNCHANGED memory

\* Faulty: a queue of two is taken for one that need not be reversed.
BeginLongReverse ==
    /\ pc = "reverse"
    /\ IF q # NULL /\ heap[q].size > 2
       THEN /\ loc' = [loc EXCEPT !.ptr = heap[q].head]
            /\ WriteTail(heap[q].head)
            /\ Goto("reverse.loop")
       ELSE UNCHANGED <<heap, loc>> /\ Goto("cancel")
    /\ UNCHANGED q

BeginReverse ==
    /\ pc = "reverse"
    /\ IF q # NULL /\ heap[q].size > 1
       THEN /\ loc' = [loc EXCEPT !.ptr = heap[q].head]
            /\ WriteTail(heap[q].head)
            /\ Goto("reverse.loop")
       ELSE UNCHANGED <<heap, loc>> /\ Goto("cancel")
    /\ UNCHANGED q

\* Faulty: the loop does not go on to the next element.
TurnSame ==
    /\ pc = "reverse.loop" /\ loc.ptr # NULL
    /\ heap' = [heap EXCEPT ![loc.ptr].next = loc.aux]
    /\ loc' = [loc EXCEPT !.aux = loc.ptr]
    /\ UNCHANGED <<q, pc>>

TurnElement ==
    /\ pc = "reverse.loop" /\ loc.ptr # NULL
    /\ heap' = [heap EXCEPT ![loc.ptr].next = loc.aux]
    /\ loc' = [loc EXCEPT !.aux = loc.ptr, !.ptr = heap[loc.ptr].next]
    /\ UNCHANGED <<q, pc>>

QReverse ==
    \/ BeginReverse
    \/ TurnElement
    \/ /\ pc = "reverse.loop" /\ loc.ptr = NULL
       /\ WriteHead(loc.aux)
       /\ Goto("cancel")
       /\ UNCHANGED <<q, loc>>

Library ==
    /\ \/ QNew \/ QFree \/ NewElement \/ QInsertHead \/ QInsertTail
       \/ QRemoveHead \/ QSize \/ QReverse
    /\ UNCHANGED <<tally, error_occurred, modes, recovery, console, verbose, history>>

-----------------------------------------------------------------------------
(* The rest of the commands.                                                 *)

Loop ==
    /\ pc = "loop"
    /\ Goto(IF ~loc.ok \/ loc.r = cmd.n THEN "cancel"
            ELSE IF op = "size" THEN "size" ELSE "insert")
    /\ UNCHANGED <<memory, tally, error_occurred, modes, recovery, console, loc,
                   verbose, history>>

\* After an insertion; only do_insert_head compares the copies.
AfterInsertion ==
    /\ pc = "ret"
    /\ IF loc.rval
       THEN LET copy == heap[heap[q].head].value
            IN  /\ qcnt' = qcnt + 1
                /\ loc' = [loc EXCEPT
                      !.ok = copy # NULL /\ ~(op = "ih" /\ loc.r = 1 /\ loc.aux = copy),
                      !.aux = IF op = "ih" THEN copy ELSE @]
                /\ UNCHANGED fail_count
       ELSE /\ fail_count' = fail_count + 1
            /\ loc' = [loc EXCEPT !.ok = @ /\ fail_count' < FailLimit]
            /\ UNCHANGED qcnt
    /\ Goto("check")
    /\ UNCHANGED <<memory, error_occurred, modes, recovery, console, verbose, history>>

\* ok = ok && !error_check(), and the increment of the for loop.
NextRound ==
    /\ pc = "check"
    /\ loc' = [loc EXCEPT !.ok = @ /\ ~error_occurred, !.r = @ + 1]
    /\ error_occurred' = (error_occurred /\ ~loc.ok)
    /\ Goto("loop")
    /\ UNCHANGED <<memory, tally, modes, recovery, console, verbose, history>>

Counted == op \in {"rh", "rhq"}

\* The counters, and the verdict of the commands that compare something.
Judge ==
    /\ qcnt' = CASE op \in {"new", "free"} -> 0
                 [] Counted /\ loc.rval    -> qcnt - 1
                 [] OTHER                  -> qcnt
    /\ fail_count' = IF Counted /\ ~loc.rval THEN fail_count + 1 ELSE fail_count
    /\ loc' = [loc EXCEPT !.ok =
          CASE op = "size"                      -> @ /\ qcnt = loc.seen
            [] Counted /\ ~loc.rval             -> fail_count' < FailLimit
                                                   /\ cmd.str = NoStr
            [] Counted /\ loc.rval /\ cmd.str # NoStr
                                                -> loc.taken = cmd.str
            [] OTHER                            -> @]

\* Faulty: do_reverse leaves allocation disallowed.
RestoreCautiousMode == cautious_mode' = TRUE /\ UNCHANGED noallocate_mode

RestoreModes == cautious_mode' = TRUE /\ noallocate_mode' = FALSE

\* exception_cancel and what follows it, up to show_queue.
ExceptionCancel ==
    /\ pc = "cancel"
    /\ jmp_ready' = FALSE /\ time_limited' = FALSE
    /\ Judge
    /\ RestoreModes
    /\ q' = IF op = "free" THEN NULL ELSE q
    /\ Goto(IF op = "quit" THEN "after" ELSE "show")
    /\ UNCHANGED <<heap, error_occurred, console, verbose, history>>

\* show_queue up to its loop.
BeginShow ==
    /\ pc = "show"
    /\ IF q = NULL \/ ~(verbose \/ op = "show")
       THEN Goto("after") /\ UNCHANGED <<loc, recovery>>
       ELSE /\ loc' = [loc EXCEPT !.ptr = heap[q].head, !.seen = 0, !.rval = TRUE]
            /\ ArmedSetup
            /\ Goto("show.loop")
    /\ UNCHANGED <<memory, tally, error_occurred, modes, console, verbose, history>>

\* rval is show_queue's own ok.
ShowNext ==
    /\ pc = "show.loop" /\ loc.rval /\ loc.ptr # NULL /\ loc.seen < qcnt
    /\ loc' = [loc EXCEPT !.ptr = heap[loc.ptr].next, !.seen = @ + 1,
                          !.rval = ~error_occurred]
    /\ error_occurred' = FALSE
    /\ UNCHANGED <<memory, tally, modes, recovery, console, pc, verbose, history>>

EndShow ==
    /\ \/ pc = "show.loop" /\ ~(loc.rval /\ loc.ptr # NULL /\ loc.seen < qcnt)
       \/ pc = "show.cancel"
    /\ jmp_ready' = FALSE /\ time_limited' = FALSE
    /\ loc' = [loc EXCEPT !.rval = @ /\ loc.ptr = NULL]
    /\ Goto("after")
    /\ UNCHANGED <<memory, tally, error_occurred, modes, console, verbose, history>>

\* The function's own ok; do_free counts the blocks that are left.
Satisfied ==
    CASE op = "show" -> q = NULL \/ loc.rval
      [] op = "free" -> allocation_check = 0
      [] OTHER       -> loc.ok

\* return ok && !error_check(), which the insertions and do_show do not call.
Verdict == Satisfied /\ (error_occurred => op \in {"show", "ih", "it"})

\* do_new goes on after do_free; any other command returns to the console.
Return ==
    /\ pc = "after" /\ op # "quit"
    /\ IF op = "free" /\ cmd.op = "new"
       THEN /\ Enter("new")
            /\ loc' = [Locals EXCEPT !.ok = Verdict]
            /\ before' = NoStr
            /\ UNCHANGED <<err_cnt, exit, cmd>>
       ELSE /\ error_occurred' = (error_occurred /\ (Verdict \/ ~Satisfied))
            /\ Record(Verdict)
            /\ UNCHANGED modes
    /\ UNCHANGED <<memory, tally, recovery, verbose, noted>>

\* queue_quit returns through do_quit_cmd to the console, which counts an error
\* if blocks are left, and to main.
Finish ==
    /\ pc = "after" /\ op = "quit"
    /\ exit' = IF allocation_check = 0 /\ err_cnt = 0 THEN "success" ELSE "failure"
    /\ Goto("exit")
    /\ UNCHANGED <<memory, tally, error_occurred, modes, recovery, err_cnt, cmd, op,
                   loc, verbose, history>>

-----------------------------------------------------------------------------
(* Exceptions.  exception_setup has returned when siglongjmp goes back into  *)
(* it, which is undefined; in the program as it is built (-O0) its return    *)
(* address was overwritten by the calls made since, so that the latest of    *)
(* them returns again, with 0.                                               *)

ReturnAgain ==
    CASE pc = "show.loop" ->
           /\ Goto(IF loc.seen = 0 THEN "show.cancel" ELSE "show.loop")
           /\ UNCHANGED loc
      [] pc = "loop" ->                                \* error_check, or the setup
           /\ Goto(IF loc.r = 0 THEN "cancel" ELSE "loop")
           /\ loc' = [loc EXCEPT !.r = IF @ \in 1 .. cmd.n - 1 THEN @ + 1 ELSE @]
      [] op \in {"ih", "it"} /\ pc \notin {"show.loop", "loop", "cancel", "check"} ->
           /\ Goto("ret")
           /\ loc' = [loc EXCEPT !.rval = FALSE]
      [] op \in {"ih", "it"} /\ pc = "check" ->        \* the insertion, or report
           /\ Goto(IF loc.rval THEN "ret" ELSE "check")
           /\ loc' = [loc EXCEPT !.rval = FALSE]
      [] op = "size" /\ pc \in {"size", "check"} ->
           /\ Goto("check")
           /\ loc' = [loc EXCEPT !.seen = 0]
      [] OTHER ->
           /\ Goto("cancel")
           /\ loc' = [loc EXCEPT !.rval = FALSE]

TriggerException ==
    /\ IF jmp_ready
       THEN /\ ReturnAgain
            /\ reported' = op
            /\ UNCHANGED exit
       ELSE /\ Goto("exit")
            /\ exit' = "failure"
            /\ UNCHANGED <<loc, reported>>
    /\ error_occurred' = TRUE
    /\ jmp_ready' = FALSE /\ time_limited' = FALSE
    /\ UNCHANGED <<memory, tally, modes, err_cnt, cmd, op, verbose, before>>

Alarm ==
    /\ time_limited /\ alarms < MaxAlarms
    /\ alarms' = alarms + 1
    /\ TriggerException

\* The next statement follows a pointer that does not lead to a block of the
\* kind it expects.
BadPointer ==
    LET Bad(p)  == p # NULL /\ ~IsElement(p)
        Bad0(p) == ~IsElement(p)
    IN  CASE pc \in {"free.next", "reverse.loop"} -> Bad(loc.ptr)
          [] pc = "show.loop"    -> loc.rval /\ loc.seen < qcnt /\ Bad(loc.ptr)
          [] pc \in {"free.value", "remove.value"} ->
                Bad0(loc.ptr) \/ heap[loc.ptr].value \notin DOMAIN heap
          [] pc = "it"           -> heap[q].size # 0 /\ Bad0(heap[q].tail)
          [] pc = "remove"       -> q # NULL /\ Bad(heap[q].head)
          [] pc \in {"remove.head", "free.element", "remove.element"} -> Bad0(loc.ptr)
          [] pc = "ret"          -> loc.rval /\ Bad0(heap[q].head)
          [] OTHER               -> FALSE

Segv ==
    /\ BadPointer
    /\ TriggerException
    /\ UNCHANGED alarms

-----------------------------------------------------------------------------

Statement ==
    /\ ~BadPointer
    /\ \/ Library
       \/ ExceptionSetup \/ Loop \/ AfterInsertion \/ NextRound \/ ExceptionCancel
       \/ BeginShow \/ ShowNext \/ EndShow \/ Return \/ Finish

Step == Statement \/ Segv

Next ==
    \/ \E c \in Command : Begin(c) \/ BadCommand(c)
    \/ Quit \/ Leave
    \/ Step
    \/ Alarm

Ended == pc = "exit" /\ UNCHANGED vars

Spec == Init /\ [][Next \/ Ended]_vars

\* A command that was begun goes on; nothing makes the user give one.
FairSpec == Spec /\ WF_vars(Step)

-----------------------------------------------------------------------------
(* Properties.                                                               *)

\* The variables have their types; in particular qcnt and the size of the queue
\* never fall below zero.
TypeOK ==
    /\ q \in Block \cup {NULL}
    /\ DOMAIN heap \subseteq Block
    /\ \A b \in DOMAIN heap : heap[b].kind = "queue" => heap[b].size \in 0 .. MaxLen
    /\ qcnt \in 0 .. MaxLen
    /\ fail_count \in Nat
    /\ {error_occurred, cautious_mode, noallocate_mode, jmp_ready, time_limited,
        verbose} \subseteq BOOLEAN
    /\ err_cnt \in 0 .. ErrLimit
    /\ exit \in {"no", "success", "failure"}
    /\ cmd \in Command \cup {NoCommand}
    /\ alarms \in 0 .. MaxAlarms

Calm == alarms = 0

\* Until an alarm goes off, between commands and whichever allocations failed, the
\* elements form one chain of the length that queue and tester have counted, with
\* the tail at its end, and exactly they, their strings and the queue are
\* allocated: nothing leaks.
QueueSound ==
    /\ TypeOK
    /\ Calm /\ pc = "idle" =>
        IF q = NULL THEN heap = << >> /\ qcnt = 0
        ELSE LET chain  == Chain(heap[q].head)
                 values == {heap[chain[i]].value : i \in DOMAIN chain}
             IN  /\ Len(chain) = heap[q].size
                 /\ Len(chain) = qcnt
                 /\ chain # << >> =>
                        /\ heap[q].tail = chain[Len(chain)]
                        /\ heap[heap[q].tail].next = NULL
                 /\ DOMAIN heap = {q} \cup {chain[i] : i \in DOMAIN chain} \cup values
                 /\ Cardinality(DOMAIN heap) = 1 + 2 * Len(chain)

\* As long as no alarm goes off, no statement of queue.c follows a bad pointer,
\* so that the harness has nothing to report; a command fails only when
\* operations may not fail any more or when it compares a removed string; and
\* at the end only failed commands keep the tester from succeeding.  If one
\* goes off in any function but an insertion or the display, outside verbose mode,
\* and the queue is not displayed before the verdict, then the command is counted
\* as failed.
NoFalseVerdict ==
    /\ Calm => /\ ~error_occurred /\ reported = "none"
               /\ ~loc.ok => fail_count >= FailLimit \/ (op = "rh" /\ cmd.str # NoStr)
               /\ exit = "failure" => err_cnt > 0
    /\ pc = "idle" /\ ~verbose /\ reported \notin {"none", "ih", "it", "show"}
          => err_cnt > 0

\* Wherever an alarm interrupts a command, the next one finds allocation
\* allowed, free checked, and no alarm or jump prepared.
ModesRestored ==
    pc = "idle" => /\ cautious_mode /\ ~noallocate_mode
                   /\ ~jmp_ready /\ ~time_limited

\* Every command, interrupted or not, comes to an end.
CommandsEnd == (pc = "setup") ~> (pc \in {"idle", "exit"})

\* The queue as its user sees it: gone as soon as q_free has begun, turned
\* around when q_reverse stores the new head.
Contents ==
    IF ~Calm \/ q = NULL \/ (op \in {"free", "quit"} /\ pc \notin {"idle", "setup", "free"})
    THEN NoStr
    ELSE IF pc = "reverse.loop"
         THEN Reverse(Strings(loc.aux)) \o Strings(loc.ptr)
         ELSE Strings(heap[q].head)

Abstract == INSTANCE ListQueue WITH
    NoQueue <- NoStr, contents <- Contents, damaged <- ~Calm

\* When the function returns, what qtest.c has counted and compared is what the
\* commands say: an insertion that succeeded has added its string, a removal has
\* taken and shown the first one, and a reversal has turned the queue around.
CommandEffect ==
    Calm /\ pc = "cancel" =>
        LET was  == IF before = NoStr THEN << >> ELSE before
            new  == [i \in 1 .. qcnt - Len(was) |-> cmd.str]
            rest == IF loc.rval THEN Tail(was) ELSE was
        IN  CASE op = "new"     -> loc.rval = (Contents = << >>)
              [] op = "ih"      -> q # NULL => Contents = new \o was
              [] op = "it"      -> q # NULL => Contents = was \o new
              [] Counted        -> /\ loc.rval = (was # << >>)
                                   /\ q # NULL => Contents = rest
                                   /\ loc.rval /\ op = "rh" => loc.taken = Head(was)
              [] op = "size"    -> loc.seen = Len(was) /\ Contents = before
              [] op = "reverse" -> q # NULL => Contents = Reverse(was)
              [] OTHER          -> TRUE

\* Until an alarm goes off, the queue behaves as a list of strings.
ImplementsListQueue == Abstract!Spec
=============================================================================
