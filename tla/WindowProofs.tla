---------------------------- MODULE WindowProofs -----------------------------
(***************************************************************************)
(* How a window of numbers moves under the two ends of a FIFO queue, and   *)
(* induction over the natural numbers: the lemmas that know no component.  *)
(***************************************************************************)
EXTENDS Window, SequenceTheorems, WellFoundedInduction, TLAPS

\* A queue that something was appended to is not empty.
LEMMA AppendNotEmpty ==
    ASSUME NEW q \in Seq(Int), NEW x \in Int
    PROVE  Append(q, x) # << >>
<1>1. Len(Append(q, x)) # 0
  OBVIOUS
<1>2. QED
  BY <1>1

LEMMA EmptyWindow ==
    ASSUME NEW lo \in Int
    PROVE  IsWindow(<< >>, lo, lo)
BY DEF IsWindow

\* Appending the next number lengthens the window at its high end.
LEMMA WindowAppend ==
    ASSUME NEW q \in Seq(Int), NEW lo \in Int, NEW hi \in Int,
           IsWindow(q, lo, hi)
    PROVE  IsWindow(Append(q, hi), lo, hi + 1)
<1>1. Len(Append(q, hi)) = Len(q) + 1
  OBVIOUS
<1>2. ASSUME NEW n \in 1 .. Len(q) + 1
      PROVE  Append(q, hi)[n] = IF n = Len(q) + 1 THEN hi ELSE q[n]
  BY <1>1
<1>3. QED
  BY <1>1, <1>2 DEF IsWindow

\* The head of a window is its low end, and the tail is the window above it.
LEMMA WindowTail ==
    ASSUME NEW q \in Seq(Int), NEW lo \in Int, NEW hi \in Int,
           IsWindow(q, lo, hi), q # << >>
    PROVE  /\ Head(q) = lo
           /\ lo < hi
           /\ IsWindow(Tail(q), lo + 1, hi)
<1>1. Len(q) \in Nat /\ Len(q) > 0
  OBVIOUS
<1>2. Head(q) = q[1] /\ q[1] = lo
  BY <1>1 DEF IsWindow
<1>3. Len(Tail(q)) = Len(q) - 1
  BY <1>1
<1>4. ASSUME NEW n \in 1 .. Len(q) - 1
      PROVE  Tail(q)[n] = q[n + 1]
  BY <1>1, <1>3
<1>5. QED
  BY <1>1, <1>2, <1>3, <1>4 DEF IsWindow
-----------------------------------------------------------------------------
(***************************************************************************)
(* Induction over the natural numbers, stated of a set, so that it needs   *)
(* no operator for its parameter: S is the set of numbers for which the    *)
(* assertion holds.                                                        *)
(***************************************************************************)
LEMMA SmallestOfSet ==
    ASSUME NEW T \in SUBSET Nat, T # {}
    PROVE  \E x \in T : \A y \in T : x <= y
<1> DEFINE R == OpToRel(<, Nat)
<1>1. IsWellFoundedOn(R, Nat)
  BY NatLessThanWellFounded
<1>2. T \subseteq Nat
  OBVIOUS
<1>3. \A x, y \in Nat : <<y, x>> \in R <=> y < x
  BY DEF OpToRel
<1> HIDE DEF R
<1>4. \E x \in T : \A y \in T : ~(<<y, x>> \in R)
  BY <1>1, <1>2, WFMin, Zenon
<1>5. PICK x \in T : \A y \in T : ~(<<y, x>> \in R)
  BY <1>4
<1>6. ASSUME NEW y \in T
      PROVE  x <= y
  <2>1. x \in Nat /\ y \in Nat /\ ~(y < x)
    BY <1>2, <1>3, <1>5
  <2>2. QED
    BY <2>1
<1>7. QED
  BY <1>6

LEMMA SetInduction ==
    ASSUME NEW S \in SUBSET Nat, 0 \in S, \A n \in S : n + 1 \in S
    PROVE  S = Nat
<1> SUFFICES ASSUME Nat \ S # {}
             PROVE  FALSE
    OBVIOUS
<1>1. Nat \ S \in SUBSET Nat
  OBVIOUS
<1>2. PICK x \in Nat \ S : \A y \in Nat \ S : x <= y
  BY <1>1, SmallestOfSet
<1>3. x - 1 \in S
  BY <1>2
<1>4. (x - 1) + 1 \in S /\ (x - 1) + 1 = x
  BY <1>2, <1>3
<1>5. QED
  BY <1>4

\* Windows that meet are one window, and a window cut in two is two.
LEMMA WindowConcat ==
    ASSUME NEW q \in Seq(Int), NEW r \in Seq(Int), NEW lo \in Int,
           NEW mid \in Int, NEW hi \in Int,
           IsWindow(q, lo, mid), IsWindow(r, mid, hi)
    PROVE  IsWindow(q \o r, lo, hi)
<1>1. /\ q \o r \in Seq(Int) /\ Len(q \o r) = Len(q) + Len(r)
      /\ \A n \in 1 .. Len(q) + Len(r) :
           (q \o r)[n] = IF n <= Len(q) THEN q[n] ELSE r[n - Len(q)]
  OBVIOUS
<1>2. /\ Len(q) = mid - lo /\ Len(r) = hi - mid
      /\ Len(q) \in Nat /\ Len(r) \in Nat
      /\ \A n \in 1 .. Len(q) : q[n] = lo + n - 1
      /\ \A n \in 1 .. Len(r) : r[n] = mid + n - 1
  BY DEF IsWindow
<1>3. ASSUME NEW n \in 1 .. Len(q) + Len(r)
      PROVE  (q \o r)[n] = lo + n - 1
  <2>1. CASE n <= Len(q)
    BY <2>1, <1>1, <1>2
  <2>2. CASE n > Len(q)
    <3>1. n - Len(q) \in 1 .. Len(r) /\ ~(n <= Len(q))
      BY <2>2, <1>2
    <3>2. (q \o r)[n] = r[n - Len(q)]
      BY <3>1, <1>1
    <3>3. r[n - Len(q)] = mid + (n - Len(q)) - 1
      BY <3>1, <1>2
    <3>4. QED
      BY <3>2, <3>3, <1>2
  <2>3. QED
    BY <2>1, <2>2, <1>2
<1>4. Len(q) + Len(r) = hi - lo
  BY <1>2
<1>5. QED
  BY <1>1, <1>3, <1>4 DEF IsWindow

LEMMA WindowFirst ==
    ASSUME NEW q \in Seq(Int), NEW lo \in Int, NEW hi \in Int,
           IsWindow(q, lo, hi), NEW n \in 0 .. Len(q)
    PROVE  /\ SubSeq(q, 1, n) \in Seq(Int) /\ Len(SubSeq(q, 1, n)) = n
           /\ IsWindow(SubSeq(q, 1, n), lo, lo + n)
<1>1. /\ n \in Int /\ Len(q) \in Nat /\ 1 \in Int
      /\ \A k \in 1 .. n : k \in 1 .. Len(q) /\ q[k] \in Int
  OBVIOUS
<1>2. /\ SubSeq(q, 1, n) \in Seq(Int)
      /\ Len(SubSeq(q, 1, n)) = IF 1 <= n THEN n - 1 + 1 ELSE 0
      /\ \A k \in 1 .. n - 1 + 1 : SubSeq(q, 1, n)[k] = q[1 + k - 1]
  BY <1>1, SubSeqProperties
<1>3. Len(SubSeq(q, 1, n)) = n
  BY <1>1, <1>2
<1>4. \A k \in 1 .. n : SubSeq(q, 1, n)[k] = lo + k - 1
  BY <1>1, <1>2 DEF IsWindow
<1>5. QED
  BY <1>1, <1>2, <1>3, <1>4 DEF IsWindow

LEMMA WindowRest ==
    ASSUME NEW q \in Seq(Int), NEW lo \in Int, NEW hi \in Int,
           IsWindow(q, lo, hi), NEW n \in 0 .. Len(q)
    PROVE  /\ SubSeq(q, n + 1, Len(q)) \in Seq(Int)
           /\ Len(SubSeq(q, n + 1, Len(q))) = Len(q) - n
           /\ IsWindow(SubSeq(q, n + 1, Len(q)), lo + n, hi)
<1>1. /\ n \in Int /\ Len(q) \in Nat /\ n + 1 \in Int /\ Len(q) \in Int
      /\ \A k \in n + 1 .. Len(q) : k \in 1 .. Len(q) /\ q[k] \in Int
  OBVIOUS
<1> DEFINE r == SubSeq(q, n + 1, Len(q))
<1>2. /\ r \in Seq(Int)
      /\ Len(r) = IF n + 1 <= Len(q) THEN Len(q) - (n + 1) + 1 ELSE 0
      /\ \A k \in 1 .. Len(q) - (n + 1) + 1 : r[k] = q[(n + 1) + k - 1]
  BY <1>1, SubSeqProperties
<1> HIDE DEF r
<1>3. Len(r) = Len(q) - n
  BY <1>1, <1>2
<1>4. ASSUME NEW k \in 1 .. Len(r)
      PROVE  r[k] = (lo + n) + k - 1
  <2>1. k \in 1 .. Len(q) - (n + 1) + 1 /\ (n + 1) + k - 1 \in 1 .. Len(q)
    BY <1>1, <1>3
  <2>2. r[k] = q[(n + 1) + k - 1]
    BY <2>1, <1>2
  <2>3. q[(n + 1) + k - 1] = lo + ((n + 1) + k - 1) - 1
    BY <2>1 DEF IsWindow
  <2>4. QED
    BY <2>1, <2>2, <2>3
<1>5. Len(r) = hi - (lo + n)
  BY <1>1, <1>3 DEF IsWindow
<1>6. IsWindow(r, lo + n, hi)
  BY <1>2, <1>4, <1>5 DEF IsWindow
<1>7. QED
  BY <1>2, <1>3, <1>6 DEF r

LEMMA ConcatLength ==
    ASSUME NEW q \in Seq(Int), NEW r \in Seq(Int)
    PROVE  /\ q \o r \in Seq(Int) /\ Len(q \o r) = Len(q) + Len(r)
           /\ Len(q) \in Nat /\ Len(r) \in Nat /\ Len(q) + Len(r) \in Nat
OBVIOUS

\* The first n entries of r move to the end of q.
LEMMA MovedParts ==
    ASSUME NEW q \in Seq(Int), NEW r \in Seq(Int), NEW n \in 1 .. Len(r)
    PROVE  /\ q \o SubSeq(r, 1, n) \in Seq(Int)
           /\ SubSeq(r, n + 1, Len(r)) \in Seq(Int)
           /\ Len(q \o SubSeq(r, 1, n)) = Len(q) + n
           /\ Len(q \o SubSeq(r, 1, n)) + Len(SubSeq(r, n + 1, Len(r)))
                = Len(q) + Len(r)
<1>1. /\ n \in Int /\ Len(r) \in Nat /\ Len(q) \in Nat /\ 1 \in Int
      /\ n + 1 \in Int /\ Len(r) \in Int
      /\ \A k \in 1 .. n : k \in 1 .. Len(r) /\ r[k] \in Int
      /\ \A k \in n + 1 .. Len(r) : k \in 1 .. Len(r) /\ r[k] \in Int
  OBVIOUS
<1>2. /\ SubSeq(r, 1, n) \in Seq(Int)
      /\ Len(SubSeq(r, 1, n)) = IF 1 <= n THEN n - 1 + 1 ELSE 0
  BY <1>1, SubSeqProperties
<1>3. /\ SubSeq(r, n + 1, Len(r)) \in Seq(Int)
      /\ Len(SubSeq(r, n + 1, Len(r))) =
           IF n + 1 <= Len(r) THEN Len(r) - (n + 1) + 1 ELSE 0
  BY <1>1, SubSeqProperties
<1>4. Len(SubSeq(r, 1, n)) = n /\ Len(SubSeq(r, n + 1, Len(r))) = Len(r) - n
  BY <1>1, <1>2, <1>3
<1>5. /\ q \o SubSeq(r, 1, n) \in Seq(Int)
      /\ Len(q \o SubSeq(r, 1, n)) = Len(q) + Len(SubSeq(r, 1, n))
  BY <1>2, ConcatLength
<1>6. Len(q \o SubSeq(r, 1, n)) = Len(q) + n
  BY <1>4, <1>5
<1>7. (Len(q) + n) + (Len(r) - n) = Len(q) + Len(r)
  BY <1>1
<1>8. QED
  BY <1>3, <1>4, <1>5, <1>6, <1>7

LEMMA WindowMoved ==
    ASSUME NEW q \in Seq(Int), NEW r \in Seq(Int), NEW n \in 1 .. Len(r),
           NEW lo \in Int, NEW mid \in Int, NEW hi \in Int,
           IsWindow(q, lo, mid), IsWindow(r, mid, hi)
    PROVE  /\ IsWindow(q \o SubSeq(r, 1, n), lo, mid + n)
           /\ IsWindow(SubSeq(r, n + 1, Len(r)), mid + n, hi)
<1>1. n \in 0 .. Len(r) /\ mid + n \in Int
  OBVIOUS
<1>2. /\ SubSeq(r, 1, n) \in Seq(Int)
      /\ IsWindow(SubSeq(r, 1, n), mid, mid + n)
      /\ IsWindow(SubSeq(r, n + 1, Len(r)), mid + n, hi)
  BY <1>1, WindowFirst, WindowRest
<1>3. QED
  BY <1>1, <1>2, WindowConcat
=============================================================================
