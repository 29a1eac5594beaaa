--------------------------------- MODULE Bits ---------------------------------
(***************************************************************************)
(* The bit puzzles of "Data Lab/bits.c", each beside the function of       *)
(* tests.c that it is compared with, and the table of decl.c.  The three   *)
(* puzzles on floats are not solved: they return 2.                        *)
(***************************************************************************)
EXTENDS Words, Sequences

bitXor(x, y) ==
    LET both    == x \cap y
        neither == Complement(x) \cap Complement(y)
    IN  Complement(neither) \cap Complement(both)

tmin == ShiftLeft(One, 31)

isTmax(x) ==
    Bang(Xor(Complement(x), Plus(x, One)) \cup Bang(Complement(x)))

OddMask ==
    LET mask == Plus(ShiftLeft(Num(170), 8), Num(170))
    IN  Plus(ShiftLeft(mask, 16), mask)

allOddBits(x) == Bang(Complement(x \cup Complement(OddMask)))

negate(x) == Plus(Complement(x), One)

isAsciiDigit(x) ==
    LET minus(n) == Plus(x, Plus(Complement(Num(n)), One))
    IN  Bang(ShiftRight(minus(48), 31)) \cap ShiftRight(minus(58), 31)

conditional(x, y, z) ==
    LET mask == Plus(Complement(Bang(x)), One)    \* -1 if x is 0, else 0
    IN  Plus(y \cap Complement(mask), z \cap mask)

\* Faulty: the sign of the difference, which may have overflowed.
isLessOrEqualByDifference(x, y) ==
    LET difference == Plus(x, Plus(Complement(y), One))
    IN  (ShiftRight(difference, 31) \cap One) \cup Bang(Xor(x, y))

isLessOrEqual(x, y) ==
    LET signX == ShiftRight(x, 31)
        signY == ShiftRight(y, 31)
        flag1 == Bang(signY) \cap signX
        flag2 == Bang(Xor(x, y))
        flag3 == Bang(Xor(signX, signY))
                   \cap (ShiftRight(Plus(x, Plus(Complement(y), One)), 31) \cap One)
    IN  flag1 \cup flag2 \cup flag3

logicalNeg(x) ==
    LET mask == Complement(x) \cap Complement(Plus(Complement(x), One))
    IN  ShiftRight(mask, 31) \cap One

\* One level of the search: does x have a one at position n or above?
Above(x, n) == ShiftRight(x, n) # Zero

howManyBits(x0) ==
    LET sign  == ShiftRight(x0, 31)
        x     == (sign \cap Complement(x0)) \cup (Complement(sign) \cap x0)
        bit16 == IF Above(x, 16) THEN 16 ELSE 0
        x16   == ShiftRight(x, bit16)
        bit8  == IF Above(x16, 8) THEN 8 ELSE 0
        x8    == ShiftRight(x16, bit8)
        bit4  == IF Above(x8, 4) THEN 4 ELSE 0
        x4    == ShiftRight(x8, bit4)
        bit2  == IF Above(x4, 2) THEN 2 ELSE 0
        x2    == ShiftRight(x4, bit2)
        bit1  == IF Above(x2, 1) THEN 1 ELSE 0
        bit0  == ShiftRight(x2, bit1)
    IN  Plus(Num(bit16 + bit8 + bit4 + bit2 + bit1 + 1), bit0)

float_twice(uf) == Num(2)
float_i2f(x)    == Num(2)
float_f2i(uf)   == Num(2)
-----------------------------------------------------------------------------
(***************************************************************************)
(* tests.c: what the puzzles ought to return.                              *)
(***************************************************************************)
test_bitXor(x, y)         == Xor(x, y)
test_tmin                 == TMin
test_isTmax(x)            == Truth(x = TMax)
test_allOddBits(x)        == Truth(\A i \in Positions : i % 2 = 1 => i \in x)
test_negate(x)            == Minus(x)
test_isAsciiDigit(x)      == Truth(~Less(x, Num(48)) /\ ~Less(Num(57), x))
test_conditional(x, y, z) == IF x # Zero THEN y ELSE z
test_isLessOrEqual(x, y)  == Truth(Less(x, y) \/ x = y)
test_logicalNeg(x)        == Truth(x = Zero)

\* -x - 1 for a negative x; Positions is -1.
test_howManyBits(x) ==
    Num(1 + Width(IF SignBit \in x THEN Plus(Minus(x), Positions) ELSE x))

\* test_float_twice, test_float_i2f and test_float_f2i, at +0.
test_float(x) == Zero
-----------------------------------------------------------------------------
(***************************************************************************)
(* decl.c.  The tests of the floats begin with +0 and fail there, so that  *)
(* btest gets no further.                                                  *)
(***************************************************************************)
Puzzle(name, args, rating) == [name |-> name, args |-> args, rating |-> rating]

test_set == <<
    Puzzle("bitXor", 2, 1), Puzzle("tmin", 0, 1), Puzzle("isTmax", 1, 2),
    Puzzle("allOddBits", 1, 2), Puzzle("negate", 1, 2),
    Puzzle("isAsciiDigit", 1, 3), Puzzle("conditional", 3, 3),
    Puzzle("isLessOrEqual", 2, 3), Puzzle("logicalNeg", 1, 4),
    Puzzle("howManyBits", 1, 4), Puzzle("float_twice", 1, 4),
    Puzzle("float_i2f", 1, 4), Puzzle("float_f2i", 1, 4) >>

Floats == {"float_twice", "float_i2f", "float_f2i"}

Solution(name, a) ==
    CASE name = "bitXor"        -> bitXor(a[1], a[2])
      [] name = "tmin"          -> tmin
      [] name = "isTmax"        -> isTmax(a[1])
      [] name = "allOddBits"    -> allOddBits(a[1])
      [] name = "negate"        -> negate(a[1])
      [] name = "isAsciiDigit"  -> isAsciiDigit(a[1])
      [] name = "conditional"   -> conditional(a[1], a[2], a[3])
      [] name = "isLessOrEqual" -> isLessOrEqual(a[1], a[2])
      [] name = "logicalNeg"    -> logicalNeg(a[1])
      [] name = "howManyBits"   -> howManyBits(a[1])
      [] name = "float_twice"   -> float_twice(a[1])
      [] name = "float_i2f"     -> float_i2f(a[1])
      [] name = "float_f2i"     -> float_f2i(a[1])

Reference(name, a) ==
    CASE name = "bitXor"        -> test_bitXor(a[1], a[2])
      [] name = "tmin"          -> test_tmin
      [] name = "isTmax"        -> test_isTmax(a[1])
      [] name = "allOddBits"    -> test_allOddBits(a[1])
      [] name = "negate"        -> test_negate(a[1])
      [] name = "isAsciiDigit"  -> test_isAsciiDigit(a[1])
      [] name = "conditional"   -> test_conditional(a[1], a[2], a[3])
      [] name = "isLessOrEqual" -> test_isLessOrEqual(a[1], a[2])
      [] name = "logicalNeg"    -> test_logicalNeg(a[1])
      [] name = "howManyBits"   -> test_howManyBits(a[1])
      [] name \in Floats        -> test_float(a[1])
=============================================================================
