------------------------------ MODULE ListQueue ------------------------------
(***************************************************************************)
(* What queue.h promises of a queue of strings: a list that grows at both  *)
(* ends, shrinks at its head and can be reversed, or no queue at all. Once *)
(* an operation on it was interrupted, nothing is promised any more.       *)
(***************************************************************************)
EXTENDS Naturals, Sequences, SequencesExt

CONSTANTS Str,    \* the strings callers store
          NoQueue \* "there is no queue"

VARIABLES contents, \* the strings, head first, or NoQueue
          damaged   \* an operation was interrupted

lqvars == <<contents, damaged>>

Init ==
    /\ contents = NoQueue
    /\ damaged = FALSE

Create ==
    /\ contents = NoQueue
    /\ contents' = << >>

Destroy ==
    /\ contents # NoQueue
    /\ contents' = NoQueue

InsertHead(s) ==
    /\ contents # NoQueue
    /\ contents' = <<s>> \o contents

InsertTail(s) ==
    /\ contents # NoQueue
    /\ contents' = Append(contents, s)

RemoveHead ==
    /\ contents \notin {NoQueue, << >>}
    /\ contents' = Tail(contents)

ReverseAll ==
    /\ contents # NoQueue
    /\ contents' = Reverse(contents)

Operation ==
    \/ Create
    \/ Destroy
    \/ \E s \in Str : InsertHead(s) \/ InsertTail(s)
    \/ RemoveHead
    \/ ReverseAll

Interrupted ==
    /\ damaged' = TRUE
    /\ contents' = NoQueue

Next ==
    \/ ~damaged /\ Operation /\ UNCHANGED damaged
    \/ ~damaged /\ Interrupted

Spec == Init /\ [][Next]_lqvars
=============================================================================
