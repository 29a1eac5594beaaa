--------------------------------- MODULE Words ---------------------------------
(***************************************************************************)
(* The int of C on the machine that "Data Lab" is built for: 32 bits in    *)
(* two's complement.  A word is the set of the positions of its ones, so   *)
(* that ~, &, | and ^ are set operations (complement, \cap, \cup, Xor) and *)
(* no arithmetic beyond that of positions is needed.  Additions wrap       *)
(* around, which is what gcc makes of them with the options of the         *)
(* Makefile (C leaves a signed overflow undefined).                        *)
(***************************************************************************)
EXTENDS Integers

Positions == 0 .. 31
Word      == SUBSET Positions
SignBit   == 31

Zero == {}
One  == {0}

\* The word of a number that is not negative.
Num(n) == {i \in 0 .. 30 : (n \div 2^i) % 2 = 1}

\* 0 or 1, as the comparisons and ! of C return it.
Truth(b) == IF b THEN One ELSE Zero

Complement(x) == Positions \ x
Xor(x, y)     == (x \ y) \cup (y \ x)
Bang(x)       == Truth(x = Zero)

ShiftLeft(x, n) == {i \in Positions : i - n \in x}

\* Arithmetic: the sign is shifted in.
ShiftRight(x, n) ==
    {i \in Positions : (IF i + n > SignBit THEN SignBit ELSE i + n) \in x}

\* The carry into position i: some lower position generates one, and every
\* position from there on passes it.
Carry(x, y, i) ==
    \E j \in 0 .. i - 1 :
        /\ j \in x \cap y
        /\ \A k \in j + 1 .. i - 1 : k \in x \cup y

Plus(x, y) == {i \in Positions : (i \in Xor(x, y)) # Carry(x, y, i)}

\* -x: every position above the lowest one of x is inverted.
Minus(x) == {i \in Positions : (i \in x) # (\E j \in 0 .. i - 1 : j \in x)}

\* x < y: they differ first, from above, at a position where y has the one;
\* but at the sign it is the smaller that has the one.
Less(x, y) ==
    \E i \in Positions :
        /\ i \in (IF i = SignBit THEN x \ y ELSE y \ x)
        /\ \A k \in i + 1 .. SignBit : k \in x <=> k \in y

\* Number of positions up to the highest one.
Width(x) ==
    IF x = Zero THEN 0
    ELSE 1 + CHOOSE i \in x : \A k \in x : k <= i

TMin == {SignBit}
TMax == Positions \ TMin
=============================================================================
