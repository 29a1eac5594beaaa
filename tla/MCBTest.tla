-------------------------------- MODULE MCBTest --------------------------------
(***************************************************************************)
(* Values of BTest's constants for TLC: for the random values, words whose *)
(* ones are where solutions go wrong.  With one argument, these are all    *)
(* runs of ones, their complements, and the numbers around the limits of a *)
(* digit, also with the sign.                                              *)
(***************************************************************************)
EXTENDS BTest

Complements(S) == S \cup {Complement(x) : x \in S}

Limits == {Num(47), Num(48), Num(57), Num(58)}

OneArgument ==
    Complements({m .. n : m, n \in Positions}
                  \cup {OddMask, OddMask \ {1}, OddMask \ {31}}
                  \cup Limits \cup {Plus(TMin, x) : x \in Limits})

TwoArguments ==
    Complements({OddMask, Num(57), {15, 16}} \cup {{n} : n \in {1, 16, 30}})

ThreeArguments == {OddMask, {16}}

MCTestRange == <<1, 2, 1>>
MCSamples   == <<OneArgument, TwoArguments, ThreeArguments>>
=============================================================================
