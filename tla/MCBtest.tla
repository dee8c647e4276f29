------------------------------ MODULE MCBtest ------------------------------
(***************************************************************************)
(* Command lines for checking Btest.                                        *)
(***************************************************************************)
EXTENDS Btest, TLC

Numeral(n) == [float |-> FALSE, clean |-> TRUE, upper |-> 0, word |-> WordOf(n)]
FloatNumeral(bits, isClean) == [float |-> TRUE, clean |-> isClean, upper |-> 0, word |-> WordOf(bits)]
On(name, option) == <<[c |-> "f", v |-> name], option>>
Fixed(n, sval) == [c |-> "1-3", arg |-> n, v |-> sval]

(* Arguments a user may fix: around the cases the puzzles distinguish.      *)
IntArguments == {0, -1, TMin, TMax, 47, 48, 57, 58, 255, -256, 127, -126, -127, -149}
FloatArguments ==
    {254 * 2^23, 254 * 2^23 + 1, 255 * 2^23 - 1, 255 * 2^23 + 1, 255 * 2^23, 2^22, 2^23 - 1,
     157 * 2^23 + 5, 158 * 2^23, 150 * 2^23 + 3, 127 * 2^23 - 1}
UnaryInts == {test_set[n].name : n \in {m \in DOMAIN test_set : test_set[m].args = 1 /\ test_set[m].range = "int"}}

Commands ==
    {<<>>, <<[c |-> "T", v |-> 0], [c |-> "r", v |-> 2]>>, <<[c |-> "r", v |-> -1]>>,
     <<[c |-> "h"]>>, <<[c |-> "f", v |-> "floatScale2"]>>,
     <<Fixed(1, Numeral(5)), Fixed(1, Numeral(6))>>,          \* refused: one value too many
     <<Fixed(2, FloatNumeral(127 * 2^23, TRUE))>>,
     <<Fixed(3, FloatNumeral(0, FALSE))>>,                    \* refused: text after a float
     <<Fixed(1, [Numeral(0) EXCEPT !.upper = 2])>>}           \* refused: more than 32 bits
    \cup {On(name, Fixed(1, Numeral(n))) : name \in UnaryInts \cup {"floatPower2"}, n \in IntArguments}
    \cup {On(name, Fixed(1, Numeral(n))) : name \in {"floatScale2", "floatFloat2Int"}, n \in FloatArguments}
    \cup {On(name, Fixed(1, FloatNumeral(n, TRUE))) : name \in {"floatScale2", "floatFloat2Int"}, n \in FloatArguments}
    \cup {On(name, Fixed(1, Numeral(n))) : name \in {"isLessOrEqual", "conditional", "bitXor"}, n \in {0, TMax, -7}}

Ranges == <<9, 3, 2>>   \* nine values, for two arguments three and for three arguments two
Random == <<{0, 3, 9, 17, 30}, {2, 4, 5, 11, 23, 26, 31}, {1, 3, 5, 7, 8, 12, 24, 29},
            {6, 13, 14, 15, 22, 28, 31}, {10, 16, 18, 19, 20, 21, 25}>>
=============================================================================
