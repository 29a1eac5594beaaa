---------------------------- MODULE StequeProofs -----------------------------
(***************************************************************************)
(* Proofs about Steque: its list of nodes is well linked after any         *)
(* sequence of operations, whatever the memory malloc takes the nodes      *)
(* from, and it implements the sequence of items that Deque describes.     *)
(***************************************************************************)
EXTENDS Steque, Integers, TLAPS

\* The inductive invariant.
NotEnded == destroying => ~aborted

IInv == WellLinked /\ NotEnded
-----------------------------------------------------------------------------
(***************************************************************************)
(* Sequences that grow and shrink at their ends.                           *)
(***************************************************************************)
LEMMA AppendFacts ==
    ASSUME NEW S, NEW s \in Seq(S), NEW x \in S
    PROVE  /\ Append(s, x) \in Seq(S)
           /\ Len(Append(s, x)) = Len(s) + 1
           /\ \A k \in 1 .. Len(s) : Append(s, x)[k] = s[k]
           /\ Append(s, x)[Len(s) + 1] = x
OBVIOUS

LEMMA PrependFacts ==
    ASSUME NEW S, NEW s \in Seq(S), NEW x \in S
    PROVE  /\ <<x>> \o s \in Seq(S)
           /\ Len(<<x>> \o s) = Len(s) + 1
           /\ (<<x>> \o s)[1] = x
           /\ \A k \in 1 .. Len(s) : (<<x>> \o s)[k + 1] = s[k]
<1>1. <<x>> \in Seq(S) /\ Len(<<x>>) = 1
  OBVIOUS
<1>2. QED
  BY <1>1

LEMMA TailFacts ==
    ASSUME NEW S, NEW s \in Seq(S), s # << >>
    PROVE  /\ Len(s) \in Nat \ {0}
           /\ Head(s) = s[1] /\ Head(s) \in S
           /\ Tail(s) \in Seq(S)
           /\ Len(Tail(s)) = Len(s) - 1
           /\ \A k \in 1 .. Len(s) - 1 : Tail(s)[k] = s[k + 1]
OBVIOUS

LEMMA SameSequence ==
    ASSUME NEW S, NEW s \in Seq(S), NEW t \in Seq(S), Len(s) = Len(t),
           \A k \in 1 .. Len(s) : s[k] = t[k]
    PROVE  s = t
OBVIOUS
-----------------------------------------------------------------------------
(***************************************************************************)
(* The shape of the list, and that every operation keeps it.               *)
(***************************************************************************)
\* What a state with at least one node looks like.
LEMMA Shape ==
    ASSUME WellLinked, chain # << >>
    PROVE  /\ Len(chain) \in Nat \ {0}
           /\ front = chain[1] /\ back = chain[Len(chain)]
           /\ front \in DOMAIN heap /\ back \in DOMAIN heap
           /\ front # NULL /\ back # NULL
           /\ heap[back].next = NULL
<1>1. Len(chain) \in Nat \ {0}
  BY TailFacts DEF WellLinked, TypeOK
<1>2. /\ front = chain[1] /\ back = chain[Len(chain)]
      /\ heap[back].next = NULL
  BY DEF WellLinked
<1>3. front \in DOMAIN heap /\ back \in DOMAIN heap
  BY <1>1, <1>2 DEF WellLinked, NodesInChain
<1>4. DOMAIN heap \subseteq Node
  BY DEF WellLinked, TypeOK
<1>5. QED
  BY <1>1, <1>2, <1>3, <1>4, NodeAssumption

LEMMA ChainNodes ==
    ASSUME WellLinked, NEW k \in 1 .. Len(chain)
    PROVE  /\ chain[k] \in DOMAIN heap /\ chain[k] \in Node
           /\ heap[chain[k]] \in Cell
           /\ heap[chain[k]].item \in Item
           /\ heap[chain[k]].next \in Node \cup {NULL}
<1>1. chain[k] \in DOMAIN heap
  BY DEF WellLinked, NodesInChain
<1>2. heap[chain[k]] \in Cell
  BY <1>1 DEF WellLinked, TypeOK
<1>3. QED
  BY <1>1, <1>2 DEF WellLinked, TypeOK, Cell

LEMMA EmptyShape ==
    ASSUME WellLinked
    PROVE  /\ chain = << >> <=> front = NULL
           /\ chain = << >> <=> back = NULL
           /\ chain = << >> <=> N = 0
<1>1. chain \in Seq(Node) /\ N = Len(chain)
  BY DEF WellLinked, TypeOK
<1>2. CASE chain = << >>
  BY <1>1, <1>2 DEF WellLinked
<1>3. CASE chain # << >>
  BY <1>1, <1>3, Shape
<1>4. QED
  BY <1>2, <1>3

\* A node that malloc returns is a new one.
LEMMA NewNode ==
    ASSUME WellLinked, NEW node \in Unused
    PROVE  /\ node \in Node /\ node \notin DOMAIN heap
           /\ \A k \in 1 .. Len(chain) : chain[k] # node
BY ChainNodes DEF Unused

\* A cell added to the heap leaves the others as they are.
LEMMA MallocFacts ==
    ASSUME WellLinked, NEW node \in Unused, NEW x \in Item,
           NEW successor \in Node \cup {NULL}
    PROVE  /\ DOMAIN Malloc(node, x, successor) = DOMAIN heap \cup {node}
           /\ Malloc(node, x, successor) \in [DOMAIN heap \cup {node} -> Cell]
           /\ Malloc(node, x, successor)[node]
                = [item |-> x, next |-> successor]
           /\ \A n \in DOMAIN heap : Malloc(node, x, successor)[n] = heap[n]
<1>1. heap \in [DOMAIN heap -> Cell]
  BY DEF WellLinked, TypeOK
<1>2. [item |-> x, next |-> successor] \in Cell
  BY DEF Cell
<1>3. node \notin DOMAIN heap
  BY NewNode
<1>4. QED
  BY <1>1, <1>2, <1>3 DEF Malloc

LEMMA EnqueueLinked ==
    ASSUME WellLinked, NEW x \in Item, Enqueue(x)
    PROVE  WellLinked'
<1>1. PICK node \in Unused :
        /\ IF back = NULL
           THEN front' = node /\ heap' = Malloc(node, x, NULL)
           ELSE /\ UNCHANGED front
                /\ heap' = [Malloc(node, x, NULL) EXCEPT ![back].next = node]
        /\ back' = node
        /\ chain' = Append(chain, node)
  BY DEF Enqueue
<1>2. N' = N + 1 /\ out' = Nothing /\ UNCHANGED <<destroying, aborted>>
  BY DEF Enqueue, Returns
<1>3. /\ chain \in Seq(Node) /\ Len(chain) \in Nat /\ N = Len(chain)
      /\ DOMAIN heap = NodesInChain
      /\ DOMAIN heap \subseteq Node
  BY DEF WellLinked, TypeOK
<1>4. /\ node \in Node /\ node \notin DOMAIN heap
      /\ \A k \in 1 .. Len(chain) : chain[k] # node
  BY NewNode
<1>5. /\ chain' \in Seq(Node) /\ Len(chain') = Len(chain) + 1
      /\ \A k \in 1 .. Len(chain) : chain'[k] = chain[k]
      /\ chain'[Len(chain) + 1] = node
  BY <1>1, <1>3, <1>4, AppendFacts
<1> DEFINE new == Malloc(node, x, NULL)
<1>6. /\ DOMAIN new = DOMAIN heap \cup {node}
      /\ new \in [DOMAIN heap \cup {node} -> Cell]
      /\ new[node] = [item |-> x, next |-> NULL]
      /\ \A n \in DOMAIN heap : new[n] = heap[n]
  BY MallocFacts
<1> HIDE DEF new
<1>7. /\ DOMAIN heap' = DOMAIN heap \cup {node}
      /\ heap' \in [DOMAIN heap' -> Cell]
      /\ heap'[node].next = NULL
      /\ chain # << >> => heap'[back].next = node
      /\ \A n \in DOMAIN heap : n # back => heap'[n] = heap[n]
  <2>1. CASE chain = << >>
    <3>1. back = NULL
      BY <2>1, EmptyShape
    <3>2. heap' = new
      BY <1>1, <3>1 DEF new
    <3>3. QED
      BY <2>1, <3>2, <1>6
  <2>2. CASE chain # << >>
    <3>1. back # NULL /\ back \in DOMAIN heap
      BY <2>2, Shape
    <3>2. heap' = [new EXCEPT ![back].next = node]
      BY <1>1, <3>1 DEF new
    <3>3. DOMAIN heap' = DOMAIN new
      BY <3>2
    <3>4. heap'[back] = [new[back] EXCEPT !.next = node]
      BY <3>1, <3>2, <1>6
    <3>5. new[back] \in Cell
      BY <3>1, <1>6
    <3>6. heap'[back] \in Cell /\ heap'[back].next = node
      BY <3>4, <3>5, <1>4 DEF Cell
    <3>7. \A n \in DOMAIN new : n # back => heap'[n] = new[n]
      BY <3>2
    <3>8. heap' \in [DOMAIN new -> Cell]
      BY <3>2, <3>6, <3>7, <1>6
    <3>9. node # back
      BY <3>1, <1>4
    <3>10. QED
      BY <3>3, <3>6, <3>7, <3>8, <3>9, <1>6
  <2>3. QED
    BY <2>1, <2>2
<1>8. TypeOK'
  <2>1. front' \in Node \cup {NULL}
    BY <1>1, <1>4 DEF WellLinked, TypeOK
  <2>2. DOMAIN heap' \in SUBSET Node
    BY <1>3, <1>4, <1>7
  <2>3. QED
    BY <1>1, <1>2, <1>3, <1>4, <1>5, <1>7, <2>1, <2>2 DEF WellLinked, TypeOK
<1>9. \A j, k \in 1 .. Len(chain') : chain'[j] = chain'[k] => j = k
  <2>1. \A j, k \in 1 .. Len(chain) : chain[j] = chain[k] => j = k
    BY DEF WellLinked
  <2>2. QED
    BY <2>1, <1>3, <1>4, <1>5
<1>10. DOMAIN heap' = NodesInChain'
  <2>1. NodesInChain' = NodesInChain \cup {node}
    BY <1>3, <1>5 DEF NodesInChain
  <2>2. QED
    BY <2>1, <1>3, <1>7
<1>11. ASSUME NEW k \in 1 .. Len(chain') - 1
       PROVE  heap'[chain'[k]].next = chain'[k + 1]
  <2>1. k \in 1 .. Len(chain) /\ chain'[k] = chain[k]
    BY <1>3, <1>5
  <2>2. chain # << >>
    BY <2>1
  <2>3. CASE k = Len(chain)
    BY <2>1, <2>2, <2>3, <1>5, <1>7, Shape
  <2>4. CASE k # Len(chain)
    <3>1. k \in 1 .. Len(chain) - 1 /\ k + 1 \in 1 .. Len(chain)
      BY <2>1, <2>4, <1>3
    <3>2. heap[chain[k]].next = chain[k + 1]
      BY <3>1 DEF WellLinked
    <3>3. chain[k] # back
      <4>1. back = chain[Len(chain)] /\ Len(chain) \in 1 .. Len(chain)
        BY <2>2, <1>3, Shape
      <4>2. QED
        BY <4>1, <2>1, <2>4 DEF WellLinked
    <3>4. heap'[chain[k]] = heap[chain[k]]
      BY <2>1, <3>3, <1>7, ChainNodes
    <3>5. QED
      BY <2>1, <3>1, <3>2, <3>4, <1>5
  <2>5. QED
    BY <2>3, <2>4
<1>12. /\ chain' # << >> /\ front' = chain'[1]
       /\ back' = chain'[Len(chain')] /\ heap'[back'].next = NULL
  <2>1. chain' # << >>
    BY <1>3, <1>5
  <2>2. CASE chain = << >>
    <3>1. back = NULL /\ Len(chain) = 0
      BY <2>2, EmptyShape
    <3>2. QED
      BY <2>1, <3>1, <1>1, <1>5, <1>7
  <2>3. CASE chain # << >>
    <3>1. back # NULL /\ front = chain[1] /\ 1 \in 1 .. Len(chain)
      BY <2>3, <1>3, Shape
    <3>2. QED
      BY <2>1, <3>1, <1>1, <1>5, <1>7
  <2>4. QED
    BY <2>2, <2>3
<1>13. QED
  BY <1>2, <1>3, <1>5, <1>8, <1>9, <1>10, <1>11, <1>12 DEF WellLinked

LEMMA PushLinked ==
    ASSUME WellLinked, NEW x \in Item, Push(x)
    PROVE  WellLinked'
<1>1. PICK node \in Unused :
        /\ heap' = Malloc(node, x, front)
        /\ back' = IF back = NULL THEN node ELSE back
        /\ front' = node
        /\ chain' = <<node>> \o chain
  BY DEF Push
<1>2. N' = N + 1 /\ out' = Nothing /\ UNCHANGED <<destroying, aborted>>
  BY DEF Push, Returns
<1>3. /\ chain \in Seq(Node) /\ Len(chain) \in Nat /\ N = Len(chain)
      /\ DOMAIN heap = NodesInChain
      /\ DOMAIN heap \subseteq Node
      /\ front \in Node \cup {NULL}
  BY DEF WellLinked, TypeOK
<1>4. /\ node \in Node /\ node \notin DOMAIN heap
      /\ \A k \in 1 .. Len(chain) : chain[k] # node
  BY NewNode
<1>5. /\ chain' \in Seq(Node) /\ Len(chain') = Len(chain) + 1
      /\ chain'[1] = node
      /\ \A k \in 1 .. Len(chain) : chain'[k + 1] = chain[k]
  BY <1>1, <1>3, <1>4, PrependFacts
<1>6. /\ DOMAIN heap' = DOMAIN heap \cup {node}
      /\ heap' \in [DOMAIN heap' -> Cell]
      /\ heap'[node].next = front
      /\ \A n \in DOMAIN heap : heap'[n] = heap[n]
  <2> DEFINE new == Malloc(node, x, front)
  <2>1. /\ DOMAIN new = DOMAIN heap \cup {node}
        /\ new \in [DOMAIN heap \cup {node} -> Cell]
        /\ new[node] = [item |-> x, next |-> front]
        /\ \A n \in DOMAIN heap : new[n] = heap[n]
    <3>1. \A s \in Node \cup {NULL} :
            LET cells == Malloc(node, x, s)
            IN  /\ DOMAIN cells = DOMAIN heap \cup {node}
                /\ cells \in [DOMAIN heap \cup {node} -> Cell]
                /\ cells[node] = [item |-> x, next |-> s]
                /\ \A n \in DOMAIN heap : cells[n] = heap[n]
      BY MallocFacts
    <3>2. QED
      BY <3>1, <1>3 DEF Malloc
  <2>2. heap' = new
    BY <1>1
  <2> HIDE DEF new
  <2>3. QED
    BY <2>1, <2>2
<1>7. \A k \in 2 .. Len(chain') :
        k - 1 \in 1 .. Len(chain) /\ chain'[k] = chain[k - 1]
  BY <1>3, <1>5
<1>8. TypeOK'
  BY <1>1, <1>2, <1>3, <1>4, <1>5, <1>6 DEF WellLinked, TypeOK
<1>9. ASSUME NEW j \in 1 .. Len(chain'), NEW k \in 1 .. Len(chain'),
             chain'[j] = chain'[k]
      PROVE  j = k
  <2>1. \A m, n \in 1 .. Len(chain) : chain[m] = chain[n] => m = n
    BY DEF WellLinked
  <2>2. j \in Int /\ k \in Int
    OBVIOUS
  <2>3. CASE j = 1 \/ k = 1
    BY <2>2, <2>3, <1>9, <1>3, <1>4, <1>5, <1>7
  <2>4. CASE j # 1 /\ k # 1
    <3>1. j \in 2 .. Len(chain') /\ k \in 2 .. Len(chain')
      BY <2>4, <1>3, <1>5
    <3>2. j - 1 = k - 1
      BY <3>1, <2>1, <1>7, <1>9
    <3>3. QED
      BY <2>2, <3>2
  <2>5. QED
    BY <2>3, <2>4
<1>10. DOMAIN heap' = NodesInChain'
  <2>1. NodesInChain' \subseteq NodesInChain \cup {node}
    <3>1. \A k \in 1 .. Len(chain') : k = 1 \/ k \in 2 .. Len(chain')
      BY <1>3, <1>5
    <3>2. QED
      BY <3>1, <1>5, <1>7 DEF NodesInChain
  <2>2. NodesInChain \subseteq NodesInChain'
    <3>1. \A k \in 1 .. Len(chain) : k + 1 \in 1 .. Len(chain')
      BY <1>3, <1>5
    <3>2. QED
      BY <3>1, <1>5 DEF NodesInChain
  <2>3. node \in NodesInChain'
    <3>1. 1 \in 1 .. Len(chain')
      BY <1>3, <1>5
    <3>2. QED
      BY <3>1, <1>5 DEF NodesInChain
  <2>4. QED
    BY <2>1, <2>2, <2>3, <1>3, <1>6
<1>11. ASSUME NEW k \in 1 .. Len(chain') - 1
       PROVE  heap'[chain'[k]].next = chain'[k + 1]
  <2>1. k \in 1 .. Len(chain) /\ chain'[k + 1] = chain[k]
    BY <1>3, <1>5
  <2>2. CASE k = 1
    <3>1. chain # << >> /\ front = chain[1]
      BY <2>1, Shape
    <3>2. QED
      BY <2>1, <2>2, <3>1, <1>5, <1>6
  <2>3. CASE k # 1
    <3>1. k \in 2 .. Len(chain') /\ k - 1 \in 1 .. Len(chain) - 1
      BY <2>1, <2>3, <1>3, <1>5
    <3>2. chain'[k] = chain[k - 1] /\ chain[k - 1] \in DOMAIN heap
      BY <3>1, <1>7, ChainNodes
    <3>3. heap[chain[k - 1]].next = chain[(k - 1) + 1]
      BY <3>1 DEF WellLinked
    <3>4. (k - 1) + 1 = k
      BY <2>1
    <3>5. QED
      BY <2>1, <3>2, <3>3, <3>4, <1>6
  <2>4. QED
    BY <2>2, <2>3
<1>12. /\ chain' # << >> /\ front' = chain'[1]
       /\ back' = chain'[Len(chain')] /\ heap'[back'].next = NULL
  <2>1. chain' # << >>
    BY <1>3, <1>5
  <2>2. CASE chain = << >>
    <3>1. back = NULL /\ front = NULL /\ Len(chain) = 0
      BY <2>2, EmptyShape
    <3>2. QED
      BY <2>1, <3>1, <1>1, <1>5, <1>6
  <2>3. CASE chain # << >>
    <3>1. /\ back # NULL /\ back = chain[Len(chain)]
          /\ Len(chain) \in 1 .. Len(chain)
          /\ back \in DOMAIN heap /\ heap[back].next = NULL
      BY <2>3, <1>3, Shape
    <3>2. chain'[Len(chain')] = back
      BY <3>1, <1>5
    <3>3. QED
      BY <2>1, <3>1, <3>2, <1>1, <1>5, <1>6
  <2>4. QED
    BY <2>2, <2>3
<1>13. QED
  BY <1>2, <1>3, <1>5, <1>8, <1>9, <1>10, <1>11, <1>12 DEF WellLinked

\* Removing the node at the front keeps the list, and what else it leaves.
LEMMA RemoveLinked ==
    ASSUME WellLinked, RemoveFront,
           out' \in Item \cup Nat \cup {Nothing},
           destroying' \in BOOLEAN, aborted' \in BOOLEAN
    PROVE  /\ WellLinked'
           /\ chain # << >>
           /\ \A k \in 1 .. Len(chain') :
                /\ k + 1 \in 1 .. Len(chain)
                /\ chain'[k] = chain[k + 1]
                /\ heap'[chain'[k]] = heap[chain[k + 1]]
<1>1. /\ front # NULL /\ front' = heap[front].next
      /\ back' = IF front' = NULL THEN NULL ELSE back
      /\ heap' = Free(front) /\ N' = N - 1 /\ chain' = Tail(chain)
  BY DEF RemoveFront
<1>2. chain # << >>
  BY <1>1, EmptyShape
<1>3. /\ chain \in Seq(Node) /\ Len(chain) \in Nat \ {0} /\ N = Len(chain)
      /\ DOMAIN heap = NodesInChain /\ DOMAIN heap \subseteq Node
      /\ heap \in [DOMAIN heap -> Cell]
      /\ front = chain[1] /\ back = chain[Len(chain)]
      /\ heap[back].next = NULL
      /\ \A j, k \in 1 .. Len(chain) : chain[j] = chain[k] => j = k
  BY <1>2, Shape DEF WellLinked, TypeOK
<1>4. /\ chain' \in Seq(Node) /\ Len(chain') = Len(chain) - 1
      /\ \A k \in 1 .. Len(chain) - 1 : chain'[k] = chain[k + 1]
  BY <1>1, <1>2, <1>3, TailFacts
<1>5. \A k \in 1 .. Len(chain) - 1 :
        k + 1 \in 1 .. Len(chain) /\ k \in 1 .. Len(chain)
  BY <1>3
<1>6. \A k \in 1 .. Len(chain) - 1 : chain[k + 1] # front
  <2> SUFFICES ASSUME NEW k \in 1 .. Len(chain) - 1, chain[k + 1] = front
               PROVE  FALSE
      OBVIOUS
  <2>1. k + 1 \in 1 .. Len(chain) /\ 1 \in 1 .. Len(chain)
    BY <1>3
  <2>2. k + 1 = 1
    BY <2>1, <1>3
  <2>3. QED
    BY <2>2
<1>7. /\ DOMAIN heap' = DOMAIN heap \ {front}
      /\ heap' \in [DOMAIN heap' -> Cell]
      /\ \A n \in DOMAIN heap : n # front => heap'[n] = heap[n]
  BY <1>1, <1>3 DEF Free
<1>8. \A k \in 1 .. Len(chain) - 1 :
        heap'[chain'[k]] = heap[chain[k + 1]]
  BY <1>4, <1>5, <1>6, <1>7, ChainNodes
<1>9. TypeOK'
  <2>1. front' \in Node \cup {NULL} /\ back' \in Node \cup {NULL}
    <3>1. 1 \in 1 .. Len(chain)
      BY <1>3
    <3>2. QED
      BY <3>1, <1>1, <1>3, ChainNodes DEF WellLinked, TypeOK
  <2>2. N' \in Nat
    BY <1>1, <1>3
  <2>3. QED
    BY <2>1, <2>2, <1>3, <1>4, <1>7 DEF TypeOK
<1>10. \A j, k \in 1 .. Len(chain') : chain'[j] = chain'[k] => j = k
  <2> SUFFICES ASSUME NEW j \in 1 .. Len(chain'),
                      NEW k \in 1 .. Len(chain'), chain'[j] = chain'[k]
               PROVE  j = k
      OBVIOUS
  <2>1. j \in 1 .. Len(chain) - 1 /\ k \in 1 .. Len(chain) - 1
    BY <1>4
  <2>2. j + 1 = k + 1
    BY <2>1, <1>3, <1>4, <1>5
  <2>3. QED
    BY <2>1, <2>2
<1>11. DOMAIN heap' = NodesInChain'
  <2>1. NodesInChain' \subseteq NodesInChain \ {front}
    BY <1>4, <1>5, <1>6 DEF NodesInChain
  <2>2. ASSUME NEW n \in NodesInChain \ {front}
        PROVE  n \in NodesInChain'
    <3>1. PICK k \in 1 .. Len(chain) : n = chain[k]
      BY DEF NodesInChain
    <3>2. k # 1
      BY <3>1, <1>3
    <3>3. k - 1 \in 1 .. Len(chain) - 1 /\ (k - 1) + 1 = k
      BY <3>2, <1>3
    <3>4. chain'[k - 1] = n
      BY <3>1, <3>3, <1>4
    <3>5. QED
      BY <3>3, <3>4, <1>4 DEF NodesInChain
  <2>3. QED
    BY <2>1, <2>2, <1>3, <1>7
<1>12. ASSUME NEW k \in 1 .. Len(chain') - 1
       PROVE  heap'[chain'[k]].next = chain'[k + 1]
  <2>1. /\ k \in 1 .. Len(chain) - 1 /\ k + 1 \in 1 .. Len(chain) - 1
    BY <1>3, <1>4
  <2>2. heap[chain[k + 1]].next = chain[(k + 1) + 1]
    BY <2>1 DEF WellLinked
  <2>3. QED
    BY <2>1, <2>2, <1>4, <1>8
<1>13. IF chain' = << >>
       THEN front' = NULL /\ back' = NULL
       ELSE /\ front' = chain'[1]
            /\ back' = chain'[Len(chain')]
            /\ heap'[back'].next = NULL
  <2>1. CASE Len(chain) = 1
    <3>1. chain' = << >>
      BY <2>1, <1>4
    <3>2. front' = NULL /\ back' = NULL
      BY <2>1, <1>1, <1>3
    <3>3. QED
      BY <3>1, <3>2
  <2>2. CASE Len(chain) # 1
    <3>1. 1 \in 1 .. Len(chain) - 1 /\ Len(chain) - 1 \in 1 .. Len(chain) - 1
      BY <2>2, <1>3
    <3>2. chain' # << >> /\ Len(chain') \in 1 .. Len(chain) - 1
      BY <3>1, <1>4
    <3>3. heap[chain[1]].next = chain[1 + 1]
      BY <3>1 DEF WellLinked
    <3>4. front' = chain'[1]
      BY <3>1, <3>3, <1>1, <1>3, <1>4
    <3>5. front' # NULL
      BY <3>2, <3>4, <1>4, NodeAssumption
    <3>6. back' = back
      BY <3>5, <1>1
    <3>7. (Len(chain) - 1) + 1 = Len(chain)
      BY <1>3
    <3>8. chain'[Len(chain')] = back
      BY <3>1, <3>7, <1>3, <1>4
    <3>9. heap'[chain'[Len(chain')]] = heap[back]
      BY <3>1, <3>7, <1>3, <1>4, <1>8
    <3>10. QED
      BY <3>2, <3>4, <3>6, <3>8, <3>9, <1>3
  <2>3. QED
    BY <2>1, <2>2
<1>14. WellLinked'
  BY <1>1, <1>3, <1>4, <1>9, <1>10, <1>11, <1>12, <1>13 DEF WellLinked
<1>15. QED
  BY <1>2, <1>4, <1>5, <1>8, <1>14

\* The oldest node becomes the youngest; with one node nothing changes.
LEMMA CycleLinked ==
    ASSUME WellLinked, Cycle
    PROVE  /\ WellLinked'
           /\ Len(chain') = Len(chain)
           /\ chain = << >> => chain' = << >>
           /\ chain # << >> =>
                /\ chain'[Len(chain)] = chain[1]
                /\ \A k \in 1 .. Len(chain) - 1 : chain'[k] = chain[k + 1]
           /\ \A k \in 1 .. Len(chain) :
                heap'[chain[k]].item = heap[chain[k]].item
<1>1. out' = Nothing /\ UNCHANGED <<destroying, aborted>>
  BY DEF Cycle, Returns
<1>2. CASE chain = << >>
  <2>1. back = NULL
    BY <1>2, EmptyShape
  <2>2. UNCHANGED <<front, back, N, heap, chain>>
    BY <2>1 DEF Cycle, fields, ghost
  <2>3. UNCHANGED NodesInChain
    BY <2>2 DEF NodesInChain
  <2>4. TypeOK'
    BY <1>1, <2>2 DEF WellLinked, TypeOK
  <2>5. WellLinked'
    BY <2>2, <2>3, <2>4 DEF WellLinked
  <2>6. Len(chain') = Len(chain) /\ chain' = << >>
    BY <1>2, <2>2
  <2>7. QED
    BY <1>2, <2>2, <2>5, <2>6
<1>3. CASE chain # << >>
  <2>1. /\ chain \in Seq(Node) /\ Len(chain) \in Nat \ {0} /\ N = Len(chain)
        /\ DOMAIN heap = NodesInChain /\ DOMAIN heap \subseteq Node
        /\ heap \in [DOMAIN heap -> Cell]
        /\ front = chain[1] /\ back = chain[Len(chain)]
        /\ front \in DOMAIN heap /\ back \in DOMAIN heap
        /\ back # NULL /\ heap[back].next = NULL
        /\ \A j, k \in 1 .. Len(chain) : chain[j] = chain[k] => j = k
    BY <1>3, Shape DEF WellLinked, TypeOK
  <2> DEFINE linked == [heap EXCEPT ![back].next = front]
  <2>2. /\ back' = front
        /\ front' = linked[front].next
        /\ heap' = [linked EXCEPT ![front].next = NULL]
        /\ chain' = Append(Tail(chain), Head(chain))
        /\ N' = N
    BY <2>1 DEF Cycle
  <2>3. /\ DOMAIN linked = DOMAIN heap
        /\ linked[back] = [heap[back] EXCEPT !.next = front]
        /\ \A n \in DOMAIN heap : n # back => linked[n] = heap[n]
    BY <2>1
  <2> HIDE DEF linked
  <2>4. heap[back] \in Cell /\ heap[front] \in Cell /\ front \in Node
    BY <2>1
  <2>5. linked[back] \in Cell /\ linked[back].next = front
        /\ linked[back].item = heap[back].item
    BY <2>3, <2>4 DEF Cell
  <2>6. /\ linked[front] \in Cell
        /\ linked[front].item = heap[front].item
        /\ front # back => linked[front] = heap[front]
    BY <2>1, <2>3, <2>4, <2>5
  <2>7. /\ DOMAIN heap' = DOMAIN heap
        /\ heap'[front] = [linked[front] EXCEPT !.next = NULL]
        /\ \A n \in DOMAIN heap : n # front => heap'[n] = linked[n]
    BY <2>1, <2>2, <2>3
  <2>8. /\ heap'[front] \in Cell /\ heap'[front].next = NULL
        /\ heap'[front].item = heap[front].item
    BY <2>6, <2>7 DEF Cell
  <2>9. /\ front # back => heap'[back].next = front
                           /\ heap'[back].item = heap[back].item
        /\ \A n \in DOMAIN heap :
             n # front /\ n # back => heap'[n] = heap[n]
    BY <2>1, <2>3, <2>5, <2>7
  <2>10. heap' \in [DOMAIN heap -> Cell]
    <3>1. \A n \in DOMAIN heap : heap'[n] \in Cell
      BY <2>1, <2>5, <2>7, <2>8, <2>9
    <3>2. heap' = [n \in DOMAIN heap |-> heap'[n]]
      BY <2>2, <2>3, <2>7
    <3>3. QED
      BY <3>1, <3>2
  <2>11. \A n \in DOMAIN heap : heap'[n].item = heap[n].item
    BY <2>8, <2>9
  <2>12. /\ chain' \in Seq(Node) /\ Len(chain') = Len(chain)
         /\ \A k \in 1 .. Len(chain) - 1 : chain'[k] = chain[k + 1]
         /\ chain'[Len(chain)] = chain[1]
    <3>1. /\ Head(chain) = chain[1] /\ Head(chain) \in Node
          /\ Tail(chain) \in Seq(Node) /\ Len(Tail(chain)) = Len(chain) - 1
          /\ \A k \in 1 .. Len(chain) - 1 : Tail(chain)[k] = chain[k + 1]
      BY <1>3, <2>1, TailFacts
    <3>2. (Len(chain) - 1) + 1 = Len(chain)
      BY <2>1
    <3>3. /\ Append(Tail(chain), Head(chain)) \in Seq(Node)
          /\ Len(Append(Tail(chain), Head(chain))) = (Len(chain) - 1) + 1
          /\ \A k \in 1 .. Len(chain) - 1 :
               Append(Tail(chain), Head(chain))[k] = Tail(chain)[k]
          /\ Append(Tail(chain), Head(chain))[(Len(chain) - 1) + 1]
               = Head(chain)
      BY <3>1, AppendFacts
    <3>4. QED
      BY <2>2, <3>1, <3>2, <3>3
  <2>13. \A k \in 1 .. Len(chain) - 1 :
           k + 1 \in 1 .. Len(chain) /\ k \in 1 .. Len(chain)
    BY <2>1
  <2>14. TypeOK'
    <3>1. front' \in Node \cup {NULL}
      BY <2>2, <2>6 DEF Cell
    <3>2. QED
      BY <1>1, <2>1, <2>2, <2>4, <2>7, <2>10, <2>12, <3>1
         DEF WellLinked, TypeOK
  <2>15. ASSUME NEW j \in 1 .. Len(chain'), NEW k \in 1 .. Len(chain'),
                chain'[j] = chain'[k]
         PROVE  j = k
    <3>1. \A m \in 1 .. Len(chain) : m # Len(chain) => m \in 1 .. Len(chain) - 1
      BY <2>1
    <3>2. \A m \in 1 .. Len(chain) - 1 : chain'[m] # chain[1]
      <4> SUFFICES ASSUME NEW m \in 1 .. Len(chain) - 1,
                          chain'[m] = chain[1]
                   PROVE  FALSE
          OBVIOUS
      <4>1. m + 1 \in 1 .. Len(chain) /\ 1 \in 1 .. Len(chain)
        BY <2>1
      <4>2. m + 1 = 1
        BY <4>1, <2>1, <2>12
      <4>3. QED
        BY <4>2
    <3>3. j \in 1 .. Len(chain) /\ k \in 1 .. Len(chain)
      BY <2>12
    <3>4. CASE j = Len(chain) \/ k = Len(chain)
      BY <3>1, <3>2, <3>3, <3>4, <2>12, <2>15
    <3>5. CASE j # Len(chain) /\ k # Len(chain)
      <4>1. j \in 1 .. Len(chain) - 1 /\ k \in 1 .. Len(chain) - 1
        BY <3>1, <3>3, <3>5
      <4>2. chain[j + 1] = chain[k + 1]
        BY <4>1, <2>12, <2>15
      <4>3. j + 1 = k + 1
        BY <4>1, <4>2, <2>1, <2>13
      <4>4. QED
        BY <4>1, <4>3
    <3>6. QED
      BY <3>4, <3>5
  <2>16. DOMAIN heap' = NodesInChain'
    <3>1. NodesInChain' \subseteq NodesInChain
      <4>1. \A k \in 1 .. Len(chain) :
              k = Len(chain) \/ k \in 1 .. Len(chain) - 1
        BY <2>1
      <4>2. 1 \in 1 .. Len(chain)
        BY <2>1
      <4>3. QED
        BY <4>1, <4>2, <2>12, <2>13 DEF NodesInChain
    <3>2. ASSUME NEW n \in NodesInChain
          PROVE  n \in NodesInChain'
      <4>1. PICK k \in 1 .. Len(chain) : n = chain[k]
        BY DEF NodesInChain
      <4>2. CASE k = 1
        <5>1. Len(chain) \in 1 .. Len(chain)
          BY <2>1
        <5>2. QED
          BY <4>1, <4>2, <5>1, <2>12 DEF NodesInChain
      <4>3. CASE k # 1
        <5>1. k - 1 \in 1 .. Len(chain) - 1 /\ (k - 1) + 1 = k
          BY <4>3, <2>1
        <5>2. k - 1 \in 1 .. Len(chain') /\ chain'[k - 1] = n
          BY <4>1, <5>1, <2>12, <2>13
        <5>3. QED
          BY <5>2 DEF NodesInChain
      <4>4. QED
        BY <4>2, <4>3
    <3>3. QED
      BY <3>1, <3>2, <2>1, <2>7
  <2>17. ASSUME NEW k \in 1 .. Len(chain') - 1
         PROVE  heap'[chain'[k]].next = chain'[k + 1]
    <3>1. /\ k \in 1 .. Len(chain) - 1 /\ k + 1 \in 1 .. Len(chain)
          /\ chain'[k] = chain[k + 1] /\ chain[k + 1] \in DOMAIN heap
      <4>1. k \in 1 .. Len(chain) - 1 /\ k + 1 \in 1 .. Len(chain)
        BY <2>12, <2>13
      <4>2. QED
        BY <4>1, <2>12, ChainNodes
    <3>2. chain[k + 1] # front
      <4>1. 1 \in 1 .. Len(chain) /\ k + 1 # 1
        BY <2>1, <3>1
      <4>2. QED
        BY <3>1, <4>1, <2>1
    <3>3. CASE k = Len(chain) - 1
      <4>1. k + 1 = Len(chain)
        BY <3>1, <3>3, <2>1
      <4>2. chain[k + 1] = back /\ front # back
        BY <3>2, <4>1, <2>1
      <4>3. QED
        BY <3>1, <4>1, <4>2, <2>1, <2>9, <2>12
    <3>4. CASE k # Len(chain) - 1
      <4>1. k + 1 \in 1 .. Len(chain) - 1 /\ k + 1 # Len(chain)
        BY <3>1, <3>4, <2>1
      <4>2. Len(chain) \in 1 .. Len(chain)
        BY <2>1
      <4>3. chain[k + 1] # back
        BY <3>1, <4>1, <4>2, <2>1
      <4>4. heap'[chain'[k]] = heap[chain[k + 1]]
        BY <3>1, <3>2, <4>3, <2>9
      <4>5. heap[chain[k + 1]].next = chain[(k + 1) + 1]
        BY <4>1 DEF WellLinked
      <4>6. chain'[k + 1] = chain[(k + 1) + 1]
        BY <4>1, <2>12
      <4>7. QED
        BY <4>4, <4>5, <4>6
    <3>5. QED
      BY <3>3, <3>4
  <2>18. /\ chain' # << >> /\ front' = chain'[1]
         /\ back' = chain'[Len(chain')] /\ heap'[back'].next = NULL
    <3>1. chain' # << >>
      BY <2>1, <2>12
    <3>2. back' = chain'[Len(chain')] /\ heap'[back'].next = NULL
      BY <2>1, <2>2, <2>8, <2>12
    <3>3. CASE front = back
      <4>1. Len(chain) = 1
        <5>1. 1 \in 1 .. Len(chain) /\ Len(chain) \in 1 .. Len(chain)
          BY <2>1
        <5>2. QED
          BY <3>3, <5>1, <2>1
      <4>2. front' = front
        BY <3>3, <2>2, <2>5
      <4>3. QED
        BY <3>1, <3>2, <4>1, <4>2, <2>1, <2>12
    <3>4. CASE front # back
      <4>1. 1 \in 1 .. Len(chain) - 1
        <5>1. Len(chain) # 1
          BY <3>4, <2>1
        <5>2. QED
          BY <5>1, <2>1
      <4>2. heap[chain[1]].next = chain[1 + 1]
        BY <4>1 DEF WellLinked
      <4>3. front' = chain'[1]
        BY <3>4, <4>1, <4>2, <2>1, <2>2, <2>6, <2>12
      <4>4. QED
        BY <3>1, <3>2, <4>3
    <3>5. QED
      BY <3>3, <3>4
  <2>19. WellLinked'
    BY <2>1, <2>2, <2>12, <2>14, <2>15, <2>16, <2>17, <2>18 DEF WellLinked
  <2>20. QED
    BY <1>3, <2>11, <2>12, <2>19, ChainNodes
<1>4. QED
  BY <1>2, <1>3

\* An operation that leaves the list alone leaves it well linked.
LEMMA UntouchedLinked ==
    ASSUME WellLinked, UNCHANGED <<fields, heap, ghost>>,
           out' \in Item \cup Nat \cup {Nothing},
           destroying' \in BOOLEAN, aborted' \in BOOLEAN
    PROVE  WellLinked'
<1>1. UNCHANGED <<front, back, N, heap, chain>>
  BY DEF fields, ghost
<1>2. UNCHANGED NodesInChain
  BY <1>1 DEF NodesInChain
<1>3. TypeOK'
  BY <1>1 DEF WellLinked, TypeOK
<1>4. QED
  BY <1>1, <1>2, <1>3 DEF WellLinked

\* The item that is read at the front.
LEMMA FrontItem ==
    ASSUME WellLinked, front # NULL
    PROVE  chain # << >> /\ front = chain[1] /\ heap[front].item \in Item
<1>1. chain # << >>
  BY EmptyShape
<1>2. front = chain[1] /\ Len(chain) \in Nat \ {0}
  BY <1>1, Shape
<1>3. 1 \in 1 .. Len(chain)
  BY <1>2
<1>4. QED
  BY <1>1, <1>2, <1>3, ChainNodes

LEMMA CallLinked ==
    ASSUME WellLinked, Call
    PROVE  WellLinked'
<1>1. /\ out \in Item \cup Nat \cup {Nothing} /\ N \in Nat
      /\ destroying \in BOOLEAN /\ aborted \in BOOLEAN
  BY DEF WellLinked, TypeOK
<1>2. ASSUME NEW x \in Item, Enqueue(x)
      PROVE  WellLinked'
  BY <1>2, EnqueueLinked
<1>3. ASSUME NEW x \in Item, Push(x)
      PROVE  WellLinked'
  BY <1>3, PushLinked
<1>4. CASE Pop
  <2>1. RemoveFront /\ out' = heap[front].item
        /\ UNCHANGED <<destroying, aborted>>
    BY <1>4 DEF Pop, Returns
  <2>2. out' \in Item
    BY <2>1, FrontItem DEF RemoveFront
  <2>3. QED
    BY <2>1, <2>2, <1>1, RemoveLinked
<1>5. CASE Cycle
  BY <1>5, CycleLinked
<1>6. CASE Front
  <2>1. out' = heap[front].item /\ front # NULL
        /\ UNCHANGED <<fields, heap, ghost, destroying, aborted>>
    BY <1>6 DEF Front, Returns
  <2>2. QED
    BY <2>1, <1>1, FrontItem, UntouchedLinked
<1>7. CASE Size
  BY <1>7, <1>1, UntouchedLinked DEF Size, Returns
<1>8. CASE IsEmpty
  <2>1. out' \in {0, 1} /\ UNCHANGED <<fields, heap, ghost>>
        /\ UNCHANGED <<destroying, aborted>>
    BY <1>8 DEF IsEmpty, Returns
  <2>2. QED
    BY <2>1, <1>1, UntouchedLinked
<1>9. CASE Underflow
  BY <1>9, <1>1, UntouchedLinked DEF Underflow
<1>10. QED
  BY <1>2, <1>3, <1>4, <1>5, <1>6, <1>7, <1>8, <1>9 DEF Call

\* No pop of a steque that is not empty runs into the underflow.
LEMMA NeverUnderflows ==
    ASSUME WellLinked, N # 0
    PROVE  ~Underflow
BY EmptyShape DEF Underflow

LEMMA LinkedStep == IInv /\ [Next]_vars => WellLinked'
<1> SUFFICES ASSUME IInv, [Next]_vars
             PROVE  WellLinked'
    OBVIOUS
<1>1. WellLinked
  BY DEF IInv
<1>2. /\ out \in Item \cup Nat \cup {Nothing}
      /\ destroying \in BOOLEAN /\ aborted \in BOOLEAN
  BY <1>1 DEF WellLinked, TypeOK
<1>3. CASE UNCHANGED vars
  BY <1>1, <1>2, <1>3, UntouchedLinked DEF vars, fields, ghost
<1>4. CASE Call
  BY <1>1, <1>4, CallLinked
<1>5. CASE Destroy
  BY <1>1, <1>2, <1>5, UntouchedLinked DEF Destroy
<1>6. CASE DestroyPop
  <2>1. RemoveFront /\ UNCHANGED <<out, destroying, aborted>>
    BY <1>1, <1>6, NeverUnderflows DEF DestroyPop
  <2>2. QED
    BY <2>1, <1>1, <1>2, RemoveLinked
<1>7. CASE DestroyReturns
  BY <1>1, <1>2, <1>7, UntouchedLinked DEF DestroyReturns
<1>8. QED
  BY <1>3, <1>4, <1>5, <1>6, <1>7 DEF Next, Ended

LEMMA CallReturns ==
    ASSUME Call
    PROVE  UNCHANGED destroying
BY DEF Call, Enqueue, Push, Pop, Cycle, Front, Size, IsEmpty, Underflow,
       Returns

LEMMA SafeStep == IInv /\ [Next]_vars => NotEnded'
<1> SUFFICES ASSUME IInv, [Next]_vars
             PROVE  NotEnded'
    OBVIOUS
<1>1. CASE UNCHANGED vars
  BY <1>1 DEF vars, IInv, NotEnded
<1>2. CASE ~destroying /\ Call
  BY <1>2, CallReturns DEF NotEnded
<1>3. CASE ~aborted /\ Destroy
  BY <1>3 DEF Destroy, NotEnded
<1>4. CASE ~aborted /\ DestroyPop
  BY <1>4, NeverUnderflows DEF IInv, DestroyPop, NotEnded
<1>5. CASE DestroyReturns
  BY <1>5 DEF DestroyReturns, NotEnded
<1>6. QED
  BY <1>1, <1>2, <1>3, <1>4, <1>5 DEF Next, Ended

LEMMA InitInv == Init => IInv
<1> SUFFICES ASSUME Init
             PROVE  IInv
    OBVIOUS
<1>1. Len(chain) = 0 /\ chain \in Seq(Node) /\ DOMAIN heap = {}
  BY DEF Init
<1>2. NodesInChain = {}
  BY <1>1 DEF NodesInChain
<1>3. heap \in [DOMAIN heap -> Cell]
  BY DEF Init
<1>4. TypeOK
  BY <1>1, <1>3 DEF Init, TypeOK
<1>5. WellLinked
  BY <1>1, <1>2, <1>4 DEF Init, WellLinked
<1>6. QED
  BY <1>5 DEF Init, IInv, NotEnded

\* The list is well linked and its destruction is safe, always.
THEOREM Invariance == Spec => []IInv
<1>1. IInv /\ [Next]_vars => IInv'
  BY LinkedStep, SafeStep DEF IInv
<1>2. QED
  BY <1>1, InitInv, PTL DEF Spec

\* Whatever calls are made in whatever order, the nodes in use are one chain
\* from front to back that N counts; none is leaked, none is used after it
\* was freed.
THEOREM LinksCorrect == Spec => []WellLinked
BY Invariance, PTL DEF IInv

\* The count and the pointers of a well linked list agree on what is left to pop.
LEMMA DestroyFinds ==
    ASSUME WellLinked
    PROVE  IF N = 0 THEN front = NULL /\ DOMAIN heap = {} ELSE front \in DOMAIN heap
<1>1. /\ chain \in Seq(Node) /\ N = Len(chain) /\ DOMAIN heap = NodesInChain
      /\ chain # << >> => front = chain[1]
  BY DEF WellLinked, TypeOK
<1>2. CASE N = 0
  <2>1. 1 .. Len(chain) = {}
    BY <1>1, <1>2
  <2>2. NodesInChain = {}
    BY <2>1 DEF NodesInChain
  <2>3. QED
    BY <1>1, <1>2, <2>2, EmptyShape
<1>3. CASE N # 0
  <2>1. 1 \in 1 .. Len(chain) /\ front = chain[1]
    BY <1>1, <1>3, EmptyShape
  <2>2. QED
    BY <1>1, <1>3, <2>1 DEF NodesInChain
<1>4. QED
  BY <1>2, <1>3

\* steque_destroy never ends the process in the underflow of steque_pop; each of
\* its pops finds a node that is still allocated, and it leaves none.
THEOREM DestroyCorrect == Spec => []DestroyIsSafe
<1>1. IInv => DestroyIsSafe
  BY DestroyFinds DEF IInv, NotEnded, DestroyIsSafe
<1>2. QED
  BY <1>1, Invariance, PTL
-----------------------------------------------------------------------------
(***************************************************************************)
(* The list implements the sequence of items.                              *)
(***************************************************************************)
\* The items in the order of the chain.
Items == [k \in 1 .. Len(chain) |-> heap[chain[k]].item]

ItemsOK ==
    /\ Items \in Seq(Item) /\ Len(Items) = Len(chain)
    /\ \A k \in 1 .. Len(chain) : Items[k] = heap[chain[k]].item
    /\ Items = << >> <=> chain = << >>

LEMMA ItemsFacts == WellLinked => ItemsOK
<1> SUFFICES ASSUME WellLinked
             PROVE  ItemsOK
    OBVIOUS
<1>1. chain \in Seq(Node) /\ Len(chain) \in Nat
  BY DEF WellLinked, TypeOK
<1>2. \A k \in 1 .. Len(chain) : heap[chain[k]].item \in Item
  BY ChainNodes
<1>3. /\ Items \in [1 .. Len(chain) -> Item]
      /\ \A k \in 1 .. Len(chain) : Items[k] = heap[chain[k]].item
  BY <1>2 DEF Items
<1>4. Items \in Seq(Item) /\ Len(Items) = Len(chain)
  BY <1>1, <1>3
<1>5. QED
  BY <1>1, <1>3, <1>4 DEF ItemsOK

LEMMA EnqueueItems ==
    ASSUME WellLinked, NEW x \in Item, Enqueue(x)
    PROVE  Items' = Append(Items, x)
<1>1. WellLinked'
  BY EnqueueLinked
<1>2. PICK node \in Unused :
        /\ IF back = NULL
           THEN heap' = Malloc(node, x, NULL)
           ELSE heap' = [Malloc(node, x, NULL) EXCEPT ![back].next = node]
        /\ chain' = Append(chain, node)
  BY DEF Enqueue
<1>3. /\ chain \in Seq(Node) /\ Len(chain) \in Nat
      /\ node \in Node /\ node \notin DOMAIN heap
  BY NewNode DEF WellLinked, TypeOK
<1>4. /\ chain' \in Seq(Node) /\ Len(chain') = Len(chain) + 1
      /\ \A k \in 1 .. Len(chain) : chain'[k] = chain[k]
      /\ chain'[Len(chain) + 1] = node
  BY <1>2, <1>3, AppendFacts
<1> DEFINE new == Malloc(node, x, NULL)
<1>5. /\ DOMAIN new = DOMAIN heap \cup {node}
      /\ new \in [DOMAIN heap \cup {node} -> Cell]
      /\ new[node] = [item |-> x, next |-> NULL]
      /\ \A n \in DOMAIN heap : new[n] = heap[n]
  BY MallocFacts
<1>6. back = NULL => heap' = new
  BY <1>2
<1>7. back # NULL => heap' = [new EXCEPT ![back].next = node]
  BY <1>2
<1> HIDE DEF new
<1>8. \A n \in DOMAIN new : heap'[n].item = new[n].item
  <2>1. CASE back = NULL
    BY <2>1, <1>6
  <2>2. CASE back # NULL
    <3>1. chain # << >>
      BY <2>2, EmptyShape
    <3>2. back \in DOMAIN new
      BY <3>1, <1>5, Shape
    <3>3. heap'[back] = [new[back] EXCEPT !.next = node]
      BY <2>2, <3>2, <1>7
    <3>4. new[back] \in Cell
      BY <3>2, <1>5
    <3>5. heap'[back].item = new[back].item
      BY <3>3, <3>4 DEF Cell
    <3>6. \A n \in DOMAIN new : n # back => heap'[n] = new[n]
      BY <2>2, <1>7
    <3>7. QED
      BY <3>5, <3>6
  <2>3. QED
    BY <2>1, <2>2
<1>9. heap'[node].item = x
  BY <1>5, <1>8
<1>10. \A k \in 1 .. Len(chain) :
         heap'[chain'[k]].item = heap[chain[k]].item
  BY <1>4, <1>5, <1>8, ChainNodes
<1> DEFINE s == Items'
           t == Append(Items, x)
<1>11. /\ s \in Seq(Item) /\ Len(s) = Len(chain) + 1
       /\ \A k \in 1 .. Len(chain) + 1 : s[k] = heap'[chain'[k]].item
  <2>1. ItemsOK'
    BY <1>1, ItemsFacts, PTL
  <2>2. QED
    BY <2>1, <1>4 DEF ItemsOK
<1>12. /\ Items \in Seq(Item) /\ Len(Items) = Len(chain)
       /\ \A k \in 1 .. Len(chain) : Items[k] = heap[chain[k]].item
  BY ItemsFacts DEF ItemsOK
<1>13. /\ t \in Seq(Item) /\ Len(t) = Len(chain) + 1
       /\ \A k \in 1 .. Len(chain) : t[k] = heap[chain[k]].item
       /\ t[Len(chain) + 1] = x
  BY <1>12, AppendFacts
<1> HIDE DEF s, t
<1>14. \A k \in 1 .. Len(chain) + 1 : s[k] = t[k]
  <2>1. \A k \in 1 .. Len(chain) + 1 :
          k = Len(chain) + 1 \/ k \in 1 .. Len(chain)
    BY <1>3
  <2>2. QED
    BY <2>1, <1>4, <1>9, <1>10, <1>11, <1>13
<1>15. s = t
  BY <1>11, <1>13, <1>14, SameSequence
<1>16. QED
  BY <1>15 DEF s, t

LEMMA PushItems ==
    ASSUME WellLinked, NEW x \in Item, Push(x)
    PROVE  Items' = <<x>> \o Items
<1>1. WellLinked'
  BY PushLinked
<1>2. PICK node \in Unused :
        heap' = Malloc(node, x, front) /\ chain' = <<node>> \o chain
  BY DEF Push
<1>3. /\ chain \in Seq(Node) /\ Len(chain) \in Nat
      /\ node \in Node /\ node \notin DOMAIN heap
  BY NewNode DEF WellLinked, TypeOK
<1>4. /\ Len(chain') = Len(chain) + 1
      /\ chain'[1] = node
      /\ \A k \in 1 .. Len(chain) : chain'[k + 1] = chain[k]
  BY <1>2, <1>3, PrependFacts
<1>5. /\ heap'[node].item = x
      /\ \A n \in DOMAIN heap : heap'[n] = heap[n]
  BY <1>2, <1>3 DEF Malloc
<1> DEFINE s == Items'
           t == <<x>> \o Items
<1>6. /\ s \in Seq(Item) /\ Len(s) = Len(chain) + 1
      /\ \A k \in 1 .. Len(chain) + 1 : s[k] = heap'[chain'[k]].item
  <2>1. ItemsOK'
    BY <1>1, ItemsFacts, PTL
  <2>2. QED
    BY <2>1, <1>4 DEF ItemsOK
<1>7. /\ Items \in Seq(Item) /\ Len(Items) = Len(chain)
      /\ \A k \in 1 .. Len(chain) : Items[k] = heap[chain[k]].item
  BY ItemsFacts DEF ItemsOK
<1>8. /\ t \in Seq(Item) /\ Len(t) = Len(chain) + 1
      /\ t[1] = x
      /\ \A k \in 1 .. Len(chain) : t[k + 1] = heap[chain[k]].item
  BY <1>7, PrependFacts
<1> HIDE DEF s, t
<1>9. \A k \in 1 .. Len(chain) + 1 : s[k] = t[k]
  <2> SUFFICES ASSUME NEW k \in 1 .. Len(chain) + 1
               PROVE  s[k] = t[k]
      OBVIOUS
  <2>1. CASE k = 1
    BY <2>1, <1>4, <1>5, <1>6, <1>8
  <2>2. CASE k # 1
    <3>1. k - 1 \in 1 .. Len(chain) /\ (k - 1) + 1 = k
      BY <2>2, <1>3
    <3>2. chain'[k] = chain[k - 1] /\ chain[k - 1] \in DOMAIN heap
      BY <3>1, <1>4, ChainNodes
    <3>3. t[k] = heap[chain[k - 1]].item
      BY <3>1, <1>8
    <3>4. QED
      BY <3>2, <3>3, <1>5, <1>6
  <2>3. QED
    BY <2>1, <2>2
<1>10. s = t
  BY <1>6, <1>8, <1>9, SameSequence
<1>11. QED
  BY <1>10 DEF s, t

LEMMA RemoveItems ==
    ASSUME WellLinked, RemoveFront,
           out' \in Item \cup Nat \cup {Nothing},
           destroying' \in BOOLEAN, aborted' \in BOOLEAN
    PROVE  Items # << >> /\ Items' = Tail(Items)
<1>1. /\ WellLinked'
      /\ chain # << >>
      /\ \A k \in 1 .. Len(chain') :
           /\ k + 1 \in 1 .. Len(chain)
           /\ heap'[chain'[k]] = heap[chain[k + 1]]
  BY RemoveLinked
<1>2. /\ Items \in Seq(Item) /\ Len(Items) = Len(chain) /\ Items # << >>
      /\ \A k \in 1 .. Len(chain) : Items[k] = heap[chain[k]].item
  BY <1>1, ItemsFacts DEF ItemsOK
<1>3. Len(chain') = Len(chain) - 1 /\ Len(chain) \in Nat \ {0}
  BY <1>1, TailFacts DEF RemoveFront, WellLinked, TypeOK
<1> DEFINE s == Items'
           t == Tail(Items)
<1>4. /\ s \in Seq(Item) /\ Len(s) = Len(chain')
      /\ \A k \in 1 .. Len(chain') : s[k] = heap'[chain'[k]].item
  <2>1. ItemsOK'
    BY <1>1, ItemsFacts, PTL
  <2>2. QED
    BY <2>1 DEF ItemsOK
<1>5. /\ t \in Seq(Item) /\ Len(t) = Len(chain) - 1
      /\ \A k \in 1 .. Len(chain) - 1 : t[k] = Items[k + 1]
  BY <1>2, TailFacts
<1> HIDE DEF s, t
<1>6. \A k \in 1 .. Len(chain') : s[k] = t[k]
  BY <1>1, <1>2, <1>3, <1>4, <1>5
<1>7. s = t
  BY <1>3, <1>4, <1>5, <1>6, SameSequence
<1>8. QED
  BY <1>2, <1>7 DEF s, t

LEMMA CycleItems ==
    ASSUME WellLinked, Cycle
    PROVE  Items' = IF Items = << >> THEN << >>
                    ELSE Append(Tail(Items), Head(Items))
<1>1. /\ WellLinked'
      /\ Len(chain') = Len(chain)
      /\ chain = << >> => chain' = << >>
      /\ chain # << >> =>
           /\ chain'[Len(chain)] = chain[1]
           /\ \A k \in 1 .. Len(chain) - 1 : chain'[k] = chain[k + 1]
      /\ \A k \in 1 .. Len(chain) : heap'[chain[k]].item = heap[chain[k]].item
  BY CycleLinked
<1>2. /\ Items \in Seq(Item) /\ Len(Items) = Len(chain)
      /\ Items = << >> <=> chain = << >>
      /\ \A k \in 1 .. Len(chain) : Items[k] = heap[chain[k]].item
  BY ItemsFacts DEF ItemsOK
<1> DEFINE s == Items'
<1>3. /\ s \in Seq(Item) /\ Len(s) = Len(chain)
      /\ s = << >> <=> chain' = << >>
      /\ \A k \in 1 .. Len(chain) : s[k] = heap'[chain'[k]].item
  <2>1. ItemsOK'
    BY <1>1, ItemsFacts, PTL
  <2>2. QED
    BY <2>1, <1>1 DEF ItemsOK
<1>4. CASE chain = << >>
  BY <1>1, <1>2, <1>3, <1>4
<1>5. CASE chain # << >>
  <2> DEFINE t == Append(Tail(Items), Head(Items))
  <2>1. Len(chain) \in Nat \ {0}
    BY <1>5, Shape
  <2>2. /\ Head(Items) = Items[1] /\ Head(Items) \in Item
        /\ Tail(Items) \in Seq(Item) /\ Len(Tail(Items)) = Len(chain) - 1
        /\ \A k \in 1 .. Len(chain) - 1 : Tail(Items)[k] = Items[k + 1]
    BY <1>2, <1>5, TailFacts
  <2>3. (Len(chain) - 1) + 1 = Len(chain)
    BY <2>1
  <2>4. /\ t \in Seq(Item) /\ Len(t) = (Len(chain) - 1) + 1
        /\ \A k \in 1 .. Len(chain) - 1 : t[k] = Tail(Items)[k]
        /\ t[(Len(chain) - 1) + 1] = Head(Items)
    BY <2>2, AppendFacts
  <2> HIDE DEF s, t
  <2>5. ASSUME NEW k \in 1 .. Len(chain)
        PROVE  s[k] = t[k]
    <3>1. 1 \in 1 .. Len(chain)
      BY <2>1
    <3>2. CASE k = Len(chain)
      BY <3>1, <3>2, <2>2, <2>3, <2>4, <1>1, <1>2, <1>3, <1>5
    <3>3. CASE k # Len(chain)
      <4>1. k \in 1 .. Len(chain) - 1 /\ k + 1 \in 1 .. Len(chain)
        BY <3>3, <2>1
      <4>2. s[k] = heap'[chain[k + 1]].item
        BY <4>1, <1>1, <1>3, <1>5
      <4>3. heap'[chain[k + 1]].item = heap[chain[k + 1]].item
        BY <4>1, <1>1
      <4>4. t[k] = Items[k + 1] /\ Items[k + 1] = heap[chain[k + 1]].item
        BY <4>1, <2>2, <2>4, <1>2
      <4>5. QED
        BY <4>2, <4>3, <4>4
    <3>4. QED
      BY <3>2, <3>3
  <2>6. s = t
    BY <2>3, <2>4, <2>5, <1>3, SameSequence
  <2>7. QED
    BY <2>6, <1>2, <1>5 DEF s, t
<1>6. QED
  BY <1>4, <1>5

\* The item at the front of the list is the first one.
LEMMA FirstItem ==
    ASSUME WellLinked, front # NULL
    PROVE  Items # << >> /\ Head(Items) = heap[front].item
<1>1. chain # << >> /\ front = chain[1]
  BY FrontItem
<1>2. Len(chain) \in Nat \ {0}
  BY <1>1, Shape
<1>3. /\ Items \in Seq(Item) /\ Items # << >>
      /\ 1 \in 1 .. Len(chain) /\ Items[1] = heap[chain[1]].item
  BY <1>1, <1>2, ItemsFacts DEF ItemsOK
<1>4. QED
  BY <1>1, <1>3, TailFacts

\* Every call is the deque's operation of that name.
LEMMA CallImplements ==
    ASSUME WellLinked, ~destroying, ~aborted, Call
    PROVE  D!Next
<1>1. UNCHANGED destroying
  BY CallReturns
<1>2. Contents = Items /\ Contents' = Items'
  BY <1>1 DEF Contents, Items
<1> USE DEF D!Next, D!Operation
<1>3. ASSUME NEW x \in Item, Enqueue(x)
      PROVE  D!Next
  <2>1. out' = Nothing /\ UNCHANGED aborted
    BY <1>3 DEF Enqueue, Returns
  <2>2. D!AddBack(x)
    BY <2>1, <1>2, <1>3, EnqueueItems DEF D!AddBack
  <2>3. QED
    BY <2>1, <2>2
<1>4. ASSUME NEW x \in Item, Push(x)
      PROVE  D!Next
  <2>1. out' = Nothing /\ UNCHANGED aborted
    BY <1>4 DEF Push, Returns
  <2>2. D!AddFront(x)
    BY <2>1, <1>2, <1>4, PushItems DEF D!AddFront
  <2>3. QED
    BY <2>1, <2>2
<1>5. CASE Pop
  <2>1. /\ RemoveFront /\ front # NULL /\ out' = heap[front].item
        /\ UNCHANGED <<destroying, aborted>>
    BY <1>5 DEF Pop, Returns, RemoveFront
  <2>2. out' \in Item /\ destroying' \in BOOLEAN /\ aborted' \in BOOLEAN
    BY <2>1, FrontItem DEF WellLinked, TypeOK
  <2>3. Items # << >> /\ Items' = Tail(Items) /\ out' = Head(Items)
    BY <2>1, <2>2, RemoveItems, FirstItem
  <2>4. D!TakeFront
    BY <2>3, <1>2 DEF D!TakeFront
  <2>5. QED
    BY <2>1, <2>4
<1>6. CASE Cycle
  <2>1. out' = Nothing /\ UNCHANGED aborted
    BY <1>6 DEF Cycle, Returns
  <2>2. D!Rotate
    BY <2>1, <1>2, <1>6, CycleItems DEF D!Rotate
  <2>3. QED
    BY <2>1, <2>2
<1>7. CASE Front
  <2>1. /\ front # NULL /\ out' = heap[front].item
        /\ UNCHANGED <<fields, heap, ghost, aborted>>
    BY <1>7 DEF Front, Returns
  <2>2. Items' = Items
    BY <2>1 DEF Items, ghost
  <2>3. D!ReadFront
    BY <2>1, <2>2, <1>2, FirstItem DEF D!ReadFront
  <2>4. QED
    BY <2>1, <2>3
<1>8. CASE Size
  <2>1. out' = N /\ UNCHANGED <<fields, heap, ghost, aborted>>
    BY <1>8 DEF Size, Returns
  <2>2. Items' = Items
    BY <2>1 DEF Items, ghost
  <2>3. Len(Items) = N
    BY ItemsFacts DEF ItemsOK, WellLinked
  <2>4. D!Size
    BY <2>1, <2>2, <2>3, <1>2 DEF D!Size
  <2>5. QED
    BY <2>1, <2>4
<1>9. CASE IsEmpty
  <2>1. /\ out' = (IF N = 0 THEN 1 ELSE 0)
        /\ UNCHANGED <<fields, heap, ghost, aborted>>
    BY <1>9 DEF IsEmpty, Returns
  <2>2. Items' = Items
    BY <2>1 DEF Items, ghost
  <2>3. Items = << >> <=> N = 0
    BY ItemsFacts, EmptyShape DEF ItemsOK
  <2>4. D!IsEmpty
    BY <2>1, <2>2, <2>3, <1>2 DEF D!IsEmpty
  <2>5. QED
    BY <2>1, <2>4
<1>10. CASE Underflow
  <2>1. /\ front = NULL /\ aborted' = TRUE
        /\ UNCHANGED <<fields, heap, ghost, out>>
    BY <1>10 DEF Underflow
  <2>2. Items' = Items
    BY <2>1 DEF Items, ghost
  <2>3. Items = << >>
    BY <2>1, ItemsFacts, EmptyShape DEF ItemsOK
  <2>4. D!Underflow
    BY <2>1, <2>2, <2>3, <1>2 DEF D!Underflow
  <2>5. QED
    BY <2>4
<1>11. QED
  BY <1>3, <1>4, <1>5, <1>6, <1>7, <1>8, <1>9, <1>10 DEF Call

\* The destruction is one step of the deque, the first: from there on the
\* items cannot be seen any more.
LEMMA StepImplements == IInv /\ [Next]_vars => [D!Next]_(D!dvars)
<1> SUFFICES ASSUME IInv, [Next]_vars
             PROVE  [D!Next]_(D!dvars)
    OBVIOUS
<1> USE DEF D!dvars
<1>1. WellLinked /\ destroying \in BOOLEAN
  BY DEF IInv, WellLinked, TypeOK
<1>2. CASE UNCHANGED vars
  BY <1>2 DEF vars, Contents
<1>3. CASE ~aborted /\ ~destroying /\ Call
  BY <1>1, <1>3, CallImplements
<1>4. CASE ~aborted /\ ~destroying /\ Destroy
  <2>1. Contents' = << >> /\ out' = Nothing /\ UNCHANGED aborted
    BY <1>4 DEF Destroy, Contents
  <2>2. QED
    BY <2>1, <1>4 DEF D!Next, D!Operation, D!Clear
<1>5. CASE ~aborted /\ destroying /\ DestroyPop
  <2>1. UNCHANGED <<out, destroying, aborted>>
    BY <1>1, <1>5, NeverUnderflows DEF DestroyPop
  <2>2. QED
    BY <2>1, <1>5 DEF Contents
<1>6. CASE ~aborted /\ destroying /\ DestroyReturns
  <2>1. /\ N = 0 /\ ~destroying'
        /\ UNCHANGED <<fields, heap, out, aborted, ghost>>
    BY <1>6 DEF DestroyReturns
  <2>2. Items = << >>
    BY <2>1, <1>1, ItemsFacts, EmptyShape DEF ItemsOK
  <2>3. Contents' = Items'
    BY <2>1 DEF Contents, Items
  <2>4. Items' = Items
    BY <2>1 DEF Items, ghost
  <2>5. Contents = << >>
    BY <1>6 DEF Contents
  <2>6. QED
    BY <2>1, <2>2, <2>3, <2>4, <2>5
<1>7. QED
  BY <1>2, <1>3, <1>4, <1>5, <1>6 DEF Next, Ended

LEMMA InitImplements == Init => D!Init
<1> SUFFICES ASSUME Init
             PROVE  D!Init
    OBVIOUS
<1>1. chain = << >> /\ WellLinked /\ ~destroying
  BY InitInv DEF Init, IInv
<1>2. Items = << >>
  BY <1>1, ItemsFacts DEF ItemsOK
<1>3. Contents = Items
  BY <1>1 DEF Contents, Items
<1>4. QED
  BY <1>2, <1>3 DEF Init, D!Init

\* Callers cannot tell the linked list from the sequence of its items.
THEOREM StequeImplementsDeque == Spec => ImplementsDeque
BY InitImplements, StepImplements, Invariance, PTL
   DEF Spec, ImplementsDeque, D!Spec
=============================================================================
