--------------------------------- MODULE BTest ---------------------------------
(***************************************************************************)
(* The driver "Data Lab/btest.c" with its default options: run_tests takes *)
(* the puzzles of the table in turn, and test_function compares each with  *)
(* its reference over the values that gen_vals makes up, until the first   *)
(* error or until an alarm goes off.                                       *)
(***************************************************************************)
EXTENDS Bits, FiniteSetsExt, Functions

CONSTANTS TestRange,   \* the range of values for 1, 2 and 3 arguments
          Samples,     \* what random_val may return for them
          MaxTimeouts  \* bound on the alarms that go off

ASSUME RangeAssumption   == TestRange \in [1 .. 3 -> Nat \ {0}]
ASSUME SamplesAssumption == \A n \in 1 .. 3 : Samples[n] # {} /\ Samples[n] \subseteq Word
ASSUME TimeoutAssumption == MaxTimeouts \in Nat

VARIABLES
    pc,        \* "run", "gen", "test", "done" or "crashed"
    i,         \* run_tests: the puzzle
    a,         \* test_function: the counters a1, a2, a3
    arg,       \* and the values they stand for
    tests,     \* history: the tests of the puzzle that were made
    armed,     \* an alarm is pending
    timeouts,  \* alarms that went off
    errors,    \* run_tests: the puzzles that failed
    points,    \* and the points of the others
    passed,    \* history: the puzzles all of whose tests ran and agreed
    refuted    \* history: those that failed a test

testVars  == <<a, arg, tests>>
scoreVars == <<errors, points, passed, refuted>>
vars == <<pc, i, testVars, armed, timeouts, scoreVars>>

Init ==
    /\ pc = "run"
    /\ i = 1
    /\ a = << >>
    /\ arg = << >>
    /\ tests = 0
    /\ armed = FALSE
    /\ timeouts = 0
    /\ errors = 0
    /\ points = 0
    /\ passed = {}
    /\ refuted = {}

puzzle == test_set[i]
-----------------------------------------------------------------------------
\* gen_vals: the number of values for an argument, and what the n-th may be.
\* Each value near a boundary is one of five made in a turn of the loop, the
\* fifth is random.  The values for floats begin with +0.
Count == IF puzzle.name \in Floats THEN 12 * TestRange[puzzle.args] + 4
         ELSE 5 * TestRange[puzzle.args]

TestVals(n) ==
    LET turn == Num(n \div 5)
    IN  IF puzzle.name \in Floats THEN {Zero}
        ELSE CASE n % 5 = 0 -> {Plus(TMin, turn)}
               [] n % 5 = 1 -> {Plus(TMax, Minus(turn))}
               [] n % 5 = 2 -> {turn}
               [] n % 5 = 3 -> {Minus(turn)}
               [] n % 5 = 4 -> Samples[puzzle.args]

\* The values at the counters b, of which those before the k-th have not moved.
\* (A random value is made up when it is read, not once for the whole test.)
ReadVals(b, k) ==
    LET may == [j \in k .. Len(b) |-> TestVals(b[j])]
        new == {v \in [k .. Len(b) -> UNION Range(may)] :
                    \A j \in k .. Len(b) : v[j] \in may[j]}
    IN  {[j \in 1 .. Len(b) |-> IF j < k THEN arg[j] ELSE v[j]] : v \in new}

\* run_tests, at the head of its loop.
NextPuzzle ==
    /\ pc = "run"
    /\ pc' = IF i > Len(test_set) THEN "done" ELSE "gen"
    /\ UNCHANGED <<i, testVars, armed, timeouts, scoreVars>>

\* test_function up to its first test: the arrays, sigsetjmp and alarm.
Prepare ==
    /\ pc = "gen"
    /\ pc' = "test"
    /\ a' = [j \in 1 .. puzzle.args |-> 0]
    /\ arg' \in ReadVals(a', 1)
    /\ tests' = 0
    /\ armed' = TRUE
    /\ UNCHANGED <<i, timeouts, scoreVars>>

Agrees == Solution(puzzle.name, arg) = Reference(puzzle.name, arg)

\* test_function returns its number of errors to run_tests.
Return(terrors) ==
    /\ pc' = "run"
    /\ i' = i + 1
    /\ a' = << >> /\ arg' = << >> /\ tests' = 0
    /\ errors' = errors + terrors
    /\ points' = points + (IF terrors = 0 THEN puzzle.rating ELSE 0)

\* The counters that have not reached their last value.
Unfinished == {j \in 1 .. puzzle.args : a[j] < Count - 1}

\* Faulty: the inner loops begin where they ended.
AdvanceOnly ==
    LET k == Max(Unfinished)
    IN  /\ a' = [a EXCEPT ![k] = @ + 1]
        /\ arg' \in ReadVals(a', k)
        /\ tests' = tests + 1

\* The innermost loop that goes on; those inside of it begin again.
Advance ==
    LET k == Max(Unfinished)
    IN  /\ a' = [j \in 1 .. puzzle.args |->
                    IF j < k THEN a[j] ELSE IF j = k THEN a[k] + 1 ELSE 0]
        /\ arg' \in ReadVals(a', k)
        /\ tests' = tests + 1

\* One test, and the head of the loops around it.
Test ==
    /\ pc = "test"
    /\ IF ~Agrees THEN Return(1) /\ refuted' = refuted \cup {i} /\ UNCHANGED passed
       ELSE IF Unfinished = {}
            THEN Return(0) /\ passed' = passed \cup {i} /\ UNCHANGED refuted
       ELSE Advance /\ UNCHANGED <<pc, i, scoreVars>>
    /\ UNCHANGED <<armed, timeouts>>

\* Faulty: the puzzle that timed out is not counted as an error.
TimeoutUncounted ==
    /\ armed
    /\ timeouts < MaxTimeouts
    /\ armed' = FALSE
    /\ timeouts' = timeouts + 1
    /\ pc \in {"test", "gen"}
    /\ Return(0)
    /\ UNCHANGED <<passed, refuted>>

\* timeout_handler.  The alarm is not cancelled when a test ends: it may go off
\* before the next test_function calls sigsetjmp.  The jump then finds the
\* frame of the last call, in which the next one runs already, or nothing.
Timeout ==
    /\ armed
    /\ timeouts < MaxTimeouts
    /\ armed' = FALSE
    /\ timeouts' = timeouts + 1
    /\ \/ pc \in {"test", "gen"} /\ Return(1) /\ UNCHANGED <<passed, refuted>>
       \/ /\ pc = "run"
          /\ pc' = "crashed"
          /\ UNCHANGED <<i, testVars, scoreVars>>

Ended ==
    /\ pc \in {"done", "crashed"}
    /\ UNCHANGED vars

Next == NextPuzzle \/ Prepare \/ Test \/ Timeout \/ Ended

Spec == Init /\ [][Next]_vars
-----------------------------------------------------------------------------
(***************************************************************************)
(* Correctness.                                                            *)
(***************************************************************************)
\* Every solution that is written computes what its reference does, in every
\* test: at the boundaries of the word, around zero, and where the sums that
\* it is built from overflow.
SolutionsAgree ==
    pc = "test" /\ puzzle.name \notin Floats => Agrees

\* The score is earned: its points are those of exactly the puzzles all of
\* whose tests ran and agreed, every other puzzle that was begun counts as one
\* error, and each error has a cause of its own, a test that failed or an alarm:
\* one that was left over from the puzzle before costs one puzzle, not two.
ScoreEarned ==
    /\ points = MapThenSumSet(LAMBDA p : test_set[p].rating, passed)
    /\ errors = i - 1 - Cardinality(passed)
    /\ errors = Cardinality(refuted) + timeouts - (IF pc = "crashed" THEN 1 ELSE 0)

\* No combination of values is skipped: when the loops come to their last
\* test, all others have been made, for each number of arguments.
AllTested ==
    pc = "test" /\ a # << >> /\ Unfinished = {} => tests = Count ^ puzzle.args - 1
=============================================================================
