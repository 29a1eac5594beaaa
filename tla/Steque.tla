------------------------------- MODULE Steque --------------------------------
(***************************************************************************)
(* The steque of "Client Server Lab/mtgf/steque.c" with its nodes and      *)
(* pointers: the queue that both multi-threaded programs share between     *)
(* their threads.  They call it under a mutex, so that an operation is one *)
(* step; steque_destroy is the loop it is in the code.                     *)
(***************************************************************************)
EXTENDS Naturals, Sequences

CONSTANTS Node,     \* addresses malloc can return
          Item,     \* what callers store
          NULL,     \* the null pointer
          Nothing   \* "the operation returned no value"

ASSUME NodeAssumption == NULL \notin Node

VARIABLES
    front, back, N, \* the fields of steque_t
    heap,           \* item and next of every node that is allocated
    out,            \* what the last operation returned
    destroying,     \* inside the loop of steque_destroy
    aborted,        \* an underflow has ended the process
    chain           \* history: the nodes in the steque, front first

fields == <<front, back, N>>
ghost  == chain
vars   == <<front, back, N, heap, out, destroying, aborted, chain>>

\* steque_init.
Init ==
    /\ front = NULL
    /\ back = NULL
    /\ N = 0
    /\ heap = << >>
    /\ out = Nothing
    /\ destroying = FALSE
    /\ aborted = FALSE
    /\ chain = << >>

Unused == Node \ DOMAIN heap

\* The heap with a node more, and with a node freed.
Malloc(node, x, successor) ==
    [n \in DOMAIN heap \cup {node} |->
        IF n = node THEN [item |-> x, next |-> successor] ELSE heap[n]]

Free(node) == [n \in DOMAIN heap \ {node} |-> heap[n]]

Returns(v) == out' = v /\ UNCHANGED <<destroying, aborted>>

Enqueue(x) ==
    /\ \E node \in Unused :
         /\ IF back = NULL
            THEN front' = node /\ heap' = Malloc(node, x, NULL)
            ELSE /\ UNCHANGED front
                 /\ heap' = [Malloc(node, x, NULL) EXCEPT ![back].next = node]
         /\ back' = node
         /\ chain' = Append(chain, node)
    /\ N' = N + 1
    /\ Returns(Nothing)

Push(x) ==
    /\ \E node \in Unused :
         /\ heap' = Malloc(node, x, front)
         /\ back' = IF back = NULL THEN node ELSE back
         /\ front' = node
         /\ chain' = <<node>> \o chain
    /\ N' = N + 1
    /\ Returns(Nothing)

\* exit(EXIT_FAILURE) in steque_pop and steque_front.
Underflow ==
    /\ front = NULL
    /\ aborted' = TRUE
    /\ UNCHANGED <<fields, heap, out, destroying, ghost>>

\* Faulty: the back still points to the node that was freed.
RemoveFrontOnly ==
    /\ front # NULL
    /\ front' = heap[front].next
    /\ heap' = Free(front)
    /\ N' = N - 1
    /\ chain' = Tail(chain)
    /\ UNCHANGED back

\* Faulty: the count is not decremented.
RemoveFrontUncounted ==
    /\ front # NULL
    /\ front' = heap[front].next
    /\ back' = IF front' = NULL THEN NULL ELSE back
    /\ heap' = Free(front)
    /\ chain' = Tail(chain)
    /\ UNCHANGED N

\* What steque_pop does to the list; it returns the item of the old front.
RemoveFront ==
    /\ front # NULL
    /\ front' = heap[front].next
    /\ back' = IF front' = NULL THEN NULL ELSE back
    /\ heap' = Free(front)
    /\ N' = N - 1
    /\ chain' = Tail(chain)

Pop == RemoveFront /\ Returns(heap[front].item)

\* back->next = front; back = front; front = front->next; back->next = NULL:
\* with a single node, the third of them reads what the first has written.
Cycle ==
    /\ IF back = NULL
       THEN UNCHANGED <<fields, heap, ghost>>
       ELSE LET linked == [heap EXCEPT ![back].next = front]
            IN  /\ back' = front
                /\ front' = linked[front].next
                /\ heap' = [linked EXCEPT ![front].next = NULL]
                /\ chain' = Append(Tail(chain), Head(chain))
                /\ UNCHANGED N
    /\ Returns(Nothing)

\* Faulty: the item at the other end.
FrontOfBack ==
    /\ front # NULL
    /\ Returns(heap[back].item)
    /\ UNCHANGED <<fields, heap, ghost>>

Front ==
    /\ front # NULL
    /\ Returns(heap[front].item)
    /\ UNCHANGED <<fields, heap, ghost>>

Size == Returns(N) /\ UNCHANGED <<fields, heap, ghost>>

IsEmpty ==
    /\ Returns(IF N = 0 THEN 1 ELSE 0)
    /\ UNCHANGED <<fields, heap, ghost>>

Call ==
    \/ \E x \in Item : Enqueue(x) \/ Push(x)
    \/ Pop \/ Cycle \/ Front \/ Size \/ IsEmpty \/ Underflow

\* steque_destroy pops until the count is 0.
Destroy ==
    /\ destroying' = TRUE
    /\ out' = Nothing
    /\ UNCHANGED <<fields, heap, aborted, ghost>>

DestroyPop ==
    /\ N # 0
    /\ \/ RemoveFront /\ UNCHANGED <<out, destroying, aborted>>
       \/ Underflow

DestroyReturns ==
    /\ N = 0
    /\ destroying' = FALSE
    /\ UNCHANGED <<fields, heap, out, aborted, ghost>>

\* A process that has ended does nothing more.
Ended == aborted /\ UNCHANGED vars

Next ==
    \/ Ended
    \/ ~aborted /\ ~destroying /\ (Call \/ Destroy)
    \/ ~aborted /\ destroying /\ (DestroyPop \/ DestroyReturns)

Spec == Init /\ [][Next]_vars
-----------------------------------------------------------------------------
(***************************************************************************)
(* Correctness.                                                            *)
(***************************************************************************)
Cell == [item : Item, next : Node \cup {NULL}]

TypeOK ==
    /\ front \in Node \cup {NULL}
    /\ back \in Node \cup {NULL}
    /\ N \in Nat
    /\ DOMAIN heap \in SUBSET Node
    /\ heap \in [DOMAIN heap -> Cell]
    /\ out \in Item \cup Nat \cup {Nothing}
    /\ destroying \in BOOLEAN
    /\ aborted \in BOOLEAN
    /\ chain \in Seq(Node)

NodesInChain == {chain[k] : k \in 1 .. Len(chain)}

\* The nodes that were added and not removed are one chain from front to
\* back, each reached once, counted by N and ended by NULL, and they are all
\* the memory there is: no node is leaked, and none that was freed can be
\* reached.
WellLinked ==
    /\ TypeOK
    /\ N = Len(chain)
    /\ \A j, k \in 1 .. Len(chain) : chain[j] = chain[k] => j = k
    /\ DOMAIN heap = NodesInChain
    /\ \A k \in 1 .. Len(chain) - 1 : heap[chain[k]].next = chain[k + 1]
    /\ IF chain = << >>
       THEN front = NULL /\ back = NULL
       ELSE /\ front = chain[1]
            /\ back = chain[Len(chain)]
            /\ heap[back].next = NULL

\* The destruction of a steque, a loop that ends by the count while its pop goes
\* by the pointers, frees every node once: as long as the count is not 0 the next
\* pop finds a node that is still allocated (else it would end the process or use
\* a node that was freed), and when the count is 0 nothing is left.
DestroyIsSafe ==
    destroying => /\ ~aborted
                  /\ N # 0 => front \in DOMAIN heap
                  /\ N = 0 => front = NULL /\ DOMAIN heap = {}

\* The list behaves as a steque is described to: what is returned depends
\* only on the sequence of items, and destroying it empties it.
Contents ==
    IF destroying THEN << >>
    ELSE [k \in 1 .. Len(chain) |-> heap[chain[k]].item]

D == INSTANCE Deque WITH contents <- Contents

ImplementsDeque == D!Spec
=============================================================================
