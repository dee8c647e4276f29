-------------------------------- MODULE Bits --------------------------------
(***************************************************************************)
(* The puzzles of the data lab, bits.c, and the functions that judge them,  *)
(* tests.c.  A word is the set of its one-bits, so that &, | and ~ are      *)
(* intersection, union and complement.  Signed overflow wraps, as the       *)
(* puzzles assume.                                                          *)
(***************************************************************************)
EXTENDS Integers

Bit  == 0 .. 31
Word == SUBSET Bit
Sign == {31}

-----------------------------------------------------------------------------
(* The operators of C on words.  Carry is the set of bits into which the    *)
(* sum carries: a lower bit generates it, the bits between pass it on.      *)
Not(x)    == Bit \ x
Xor(x, y) == (x \ y) \cup (y \ x)
Bang(x)   == IF x = {} THEN {0} ELSE {}

Carry(x, y) ==
    {i \in Bit : \E j \in x \cap y : j < i /\ \A k \in (j + 1) .. (i - 1) : k \in x \cup y}
Add(x, y) == Xor(Xor(x, y), Carry(x, y))

(* A shift by an amount outside 0 .. 31 has no known value, and TLC would   *)
(* stop at it.                                                              *)
Unknown == CHOOSE w : w \notin Word
Shl(x, n) == IF n \in Bit THEN {i \in Bit : i - n \in x} ELSE Unknown
Shr(x, n) == IF n \in Bit THEN {i \in Bit : i + n \in x} ELSE Unknown
SignCopies(x, n) == IF 31 \in x THEN {i \in Bit : i + n > 31} ELSE {}
Sar(x, n) == Shr(x, n) \cup SignCopies(x, n)

(* The value of a word as an int, and the word of an int.                   *)
TMin == -2147483647 - 1
TMax == 2147483647
Signed(x) ==
    LET below[n \in 0 .. 31] == IF n = 0 THEN 0
                                ELSE below[n - 1] + (IF n - 1 \in x THEN 2^(n - 1) ELSE 0)
    IN below[31] + (IF 31 \in x THEN TMin ELSE 0)
WordOf(n) == {i \in 0 .. 30 : (n \div 2^i) % 2 = 1} \cup (IF n < 0 THEN Sign ELSE {})

-----------------------------------------------------------------------------
(* bits.c, the integer puzzles.                                             *)
bitXor(x, y) == Not(Not(x) \cap Not(y)) \cap Not(x \cap y)

tmin == Shl({0}, 31)

isTmax(x) ==
    LET candidate == Add(x, {0})
        candidatePlusX == Add(candidate, x)
    IN Bang(Add(candidatePlusX, {0})) \cap Bang(Bang(candidate))

OddMask ==
    LET mask == Add({1, 3, 5, 7}, Shl({1, 3, 5, 7}, 8))
    IN Add(mask, Shl(mask, 16))
allOddBits(x) == Bang(Xor(x \cap OddMask, OddMask))

negate(x) == Add(Not(x), {0})

isAsciiDigit(x) ==
    LET lowerBound == Add(Add(x, Not({4, 5})), {0})
        upperBound == Add(Add({0, 3, 4, 5}, Not(x)), {0})
    IN Bang(Sar(lowerBound \cup upperBound, 31))

conditional(x, y, z) ==
    LET mask == Add(Not(Bang(x)), {0})
    IN Add(mask \cap z, Not(mask) \cap y)

isLessOrEqualByDifference(x, y) == Bang(Sar(Add(y, negate(x)), 31))   \* mutant
isLessOrEqual(x, y) ==
    LET diffSign == Sar(Add(y, negate(x)), 31)
        xSign == Sar(x, 31)
        ySign == Sar(y, 31)
    IN (Bang(Xor(xSign, ySign)) \cap Bang(diffSign)) \cup (xSign \cap Bang(ySign))

logicalNeg(x) == Add(Sar(negate(x) \cup x, 31), {0})

(* b16, b8, b4, b2 and b1 in turn: the half of what is left of x that holds *)
(* its first one.                                                           *)
howManyBits(x) ==
    LET sign == Sar(x, 31)
        Half(left, n) == IF Sar(left, n) = {} THEN 0 ELSE n
        x16 == (sign \cap Not(x)) \cup (Not(sign) \cap x)
        b16 == Half(x16, 16)  x8 == Sar(x16, b16)
        b8 == Half(x8, 8)     x4 == Sar(x8, b8)
        b4 == Half(x4, 4)     x2 == Sar(x4, b4)
        b2 == Half(x2, 2)     x1 == Sar(x2, b2)
        b1 == Half(x1, 1)     b0 == Signed(Sar(x1, b1))
    IN WordOf(b16 + b8 + b4 + b2 + b1 + b0 + 1)

-----------------------------------------------------------------------------
(* bits.c, the floating-point puzzles, on the bits of a float.              *)
Exponent == 23 .. 30
Fraction == 0 .. 22
ExponentOf(uf) == Signed(Shr(uf \cap Exponent, 23))
FractionOf(uf) == Signed(uf \cap Fraction)
Inf == Exponent

floatScale2Flushed(uf) ==   \* mutant: a denormal that becomes normal loses its first bit
    IF uf \cap Exponent = Inf THEN uf
    ELSE IF uf \cap Exponent = {} THEN (uf \cap Sign) \cup (Shl(uf \cap Fraction, 1) \cap Fraction)
    ELSE (uf \cap Sign) \cup Add(uf \cap Exponent, {23}) \cup (uf \cap Fraction)
floatScale2(uf) ==
    LET exponent == uf \cap Exponent
        fraction == uf \cap Fraction
    IN CASE exponent = Inf -> uf
         [] exponent = {} -> (uf \cap Sign) \cup Shl(fraction, 1)
         [] OTHER -> (uf \cap Sign) \cup Add(exponent, {23}) \cup fraction

floatFloat2Int(uf) ==
    LET exponent == ExponentOf(uf) - 127
        fraction == uf \cap Fraction
        shifted == IF exponent > 23 THEN Shl(fraction, exponent - 23)
                                    ELSE Shr(fraction, 23 - exponent)
        whole == shifted \cup {exponent}
    IN CASE exponent >= 31 -> Sign
         [] exponent < 0 -> {}
         [] OTHER -> IF 31 \in uf THEN negate(whole) ELSE whole

floatPower2(x) ==
    LET n == Signed(x)
    IN CASE n > 127 -> Inf
         [] n < -149 -> {}
         [] n \in -149 .. -127 -> Shl({0}, n + 149)
         [] OTHER -> Shl(WordOf(n + 127), 23)

-----------------------------------------------------------------------------
(* tests.c: what each puzzle is compared with.                              *)
test_bitXor(x, y)    == Xor(x, y)
test_tmin            == Sign
test_isTmax(x)       == IF x = Bit \ Sign THEN {0} ELSE {}
test_allOddBits(x)   == IF \A i \in Bit : i % 2 = 1 => i \in x THEN {0} ELSE {}
test_negate(x)       == IF x = Sign THEN Sign ELSE WordOf(-Signed(x))
test_isAsciiDigit(x) == IF Signed(x) \in 48 .. 57 THEN {0} ELSE {}
test_conditional(x, y, z) == IF x # {} THEN y ELSE z
test_isLessOrEqual(x, y)  == IF Signed(x) <= Signed(y) THEN {0} ELSE {}
test_logicalNeg(x)   == IF x = {} THEN {0} ELSE {}

test_howManyBits(x) ==
    LET a == IF 31 \in x THEN Not(x) ELSE x
    IN WordOf(IF a = {} THEN 1 ELSE 2 + CHOOSE i \in a : \A j \in a : j <= i)

(* A finite float is its sign and significand * 2^power; a value that needs *)
(* no rounding, back to bits.                                               *)
u2f(uf) ==
    IF ExponentOf(uf) = 0 THEN [significand |-> FractionOf(uf), power |-> -149]
    ELSE [significand |-> FractionOf(uf) + 2^23, power |-> ExponentOf(uf) - 150]
f2u(f) ==
    LET denorm == f.significand < 2^23
        m == IF denorm /\ f.power > -149 THEN 2 * f.significand ELSE f.significand
        p == IF denorm THEN -149 ELSE f.power
    IN CASE p > 104 -> Inf
         [] m < 2^23 -> WordOf(m)
         [] OTHER -> WordOf(m - 2^23) \cup Shl(WordOf(p + 150), 23)

test_floatScale2(uf) ==
    IF ExponentOf(uf) = 255 THEN uf
    ELSE (uf \cap Sign) \cup f2u([u2f(uf) EXCEPT !.power = @ + 1])

(* (int) f truncates, and gives INT_MIN for what an int cannot hold.        *)
test_floatFloat2Int(uf) ==
    LET f == u2f(uf)
        size == CASE f.power >= 0 -> f.significand * 2^f.power
                  [] f.power \in -23 .. -1 -> f.significand \div 2^(-f.power)
                  [] OTHER -> 0
    IN IF ExponentOf(uf) >= 158 THEN Sign ELSE WordOf(IF 31 \in uf THEN -size ELSE size)

(* Repeated squaring on powers of two: 128 stands for infinity and -150 for *)
(* zero, to which an exponent out of range rounds.                          *)
test_floatPower2(x) ==
    LET n == Signed(x)
        size == IF n < 0 THEN WordOf(-n) ELSE x
        Round(e) == CASE e > 127 -> 128 [] e < -149 -> -150 [] OTHER -> e
        p2[i \in 0 .. 30] == IF i = 0 THEN (IF n < 0 THEN -1 ELSE 1) ELSE Round(2 * p2[i - 1])
        result[i \in 0 .. 31] ==
            IF i = 0 THEN 0
            ELSE IF i - 1 \in size THEN Round(result[i - 1] + p2[i - 1]) ELSE result[i - 1]
        e == result[31]
    IN CASE x = Sign -> {}
         [] e = -150 -> {}
         [] e = 128 -> Inf
         [] OTHER -> f2u(IF e < -126 THEN [significand |-> 2^(e + 149), power |-> -149]
                                    ELSE [significand |-> 2^23, power |-> e - 23])
=============================================================================
