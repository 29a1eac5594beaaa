-------------------------------- MODULE Deque --------------------------------
(***************************************************************************)
(* What a steque (a stack-ended queue) promises its callers, as steque.h   *)
(* describes it: a sequence of items that can be added at both ends, taken *)
(* and read at the front and rotated, and that empties at once.            *)
(***************************************************************************)
EXTENDS Naturals, Sequences

CONSTANTS Item,     \* what callers store
          Nothing   \* "the operation returned no value"

VARIABLES contents, \* the items, front first
          out,      \* what the last operation returned
          aborted   \* the process was ended because of an underflow

dvars == <<contents, out, aborted>>

Init ==
    /\ contents = << >>
    /\ out = Nothing
    /\ aborted = FALSE

AddBack(x) ==
    /\ contents' = Append(contents, x)
    /\ out' = Nothing

AddFront(x) ==
    /\ contents' = <<x>> \o contents
    /\ out' = Nothing

TakeFront ==
    /\ contents # << >>
    /\ contents' = Tail(contents)
    /\ out' = Head(contents)

ReadFront ==
    /\ contents # << >>
    /\ out' = Head(contents)
    /\ UNCHANGED contents

Rotate ==
    /\ contents' = IF contents = << >> THEN << >>
                   ELSE Append(Tail(contents), Head(contents))
    /\ out' = Nothing

Size ==
    /\ out' = Len(contents)
    /\ UNCHANGED contents

IsEmpty ==
    /\ out' = IF contents = << >> THEN 1 ELSE 0
    /\ UNCHANGED contents

Clear ==
    /\ contents' = << >>
    /\ out' = Nothing

Operation ==
    \/ \E x \in Item : AddBack(x) \/ AddFront(x)
    \/ TakeFront \/ ReadFront \/ Rotate \/ Size \/ IsEmpty \/ Clear

\* Taking or reading the front of an empty steque ends the process.
Underflow ==
    /\ contents = << >>
    /\ aborted' = TRUE
    /\ UNCHANGED <<contents, out>>

Next ==
    \/ ~aborted /\ Operation /\ UNCHANGED aborted
    \/ ~aborted /\ Underflow

Spec == Init /\ [][Next]_dvars
=============================================================================
