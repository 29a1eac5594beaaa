------------------------------- MODULE Window --------------------------------
(***************************************************************************)
(* Queues of consecutive numbers.  When the entries put into a FIFO queue  *)
(* are numbered in the order they are put in, a queue that loses,          *)
(* duplicates and reorders nothing always holds a window of them.          *)
(***************************************************************************)
EXTENDS Integers, Sequences

\* q is <<lo, lo + 1, ..., hi - 1>>.
IsWindow(q, lo, hi) ==
    /\ Len(q) = hi - lo
    /\ \A n \in 1 .. Len(q) : q[n] = lo + n - 1
=============================================================================
