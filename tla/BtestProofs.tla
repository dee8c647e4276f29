---------------------------- MODULE BtestProofs ----------------------------
(***************************************************************************)
(* The puzzles of bits.c on every word, and the safety of the test harness   *)
(* for every command line, every number of test values, every sequence of   *)
(* random words and every number of late alarms.                            *)
(***************************************************************************)
EXTENDS Btest, NatProofs

-----------------------------------------------------------------------------
(* The puzzles that return what their references return for every word.    *)

(* Adding one to ~0 carries through the word and leaves zero, adding zero   *)
(* changes nothing: what the masks of conditional are made with.            *)
LEMMA AddZero == ASSUME NEW x \in Word PROVE Add(x, {}) = x /\ Add({}, x) = x
BY DEF Add, Xor, Carry, Word

LEMMA AllOnesPlusOne == Add(Bit, {0}) = {}
<1>1. ASSUME NEW k \in Bit, k > 0 PROVE k \in Carry(Bit, {0})
  <2>1. 0 \in Bit \cap {0} /\ 0 < k
    BY <1>1 DEF Bit
  <2>2. \A j \in (0 + 1) .. (k - 1) : j \in Bit \cup {0}
    BY <1>1 DEF Bit
  <2> QED BY <2>1, <2>2, <1>1 DEF Carry
<1>2. 0 \notin Carry(Bit, {0})
  BY DEF Carry, Bit
<1>3. Carry(Bit, {0}) = Bit \ {0}
  BY <1>1, <1>2 DEF Carry, Bit
<1> QED BY <1>3 DEF Add, Xor, Bit

LEMMA WordOperators ==
    ASSUME NEW x \in Word, NEW y \in Word
    PROVE  Not(x) \in Word /\ Add(x, y) \in Word /\ negate(x) \in Word
<1>1. {0} \in Word
  BY DEF Word, Bit
<1>2. \A v, w \in Word : Add(v, w) \in Word
  BY DEF Add, Xor, Carry, Word
<1>3. Not(x) \in Word
  BY DEF Not, Word
<1> QED BY <1>1, <1>2, <1>3 DEF negate

(* Shifting by 31 leaves copies of the sign.                                *)
LEMMA SignShift ==
    ASSUME NEW x \in Word
    PROVE  (31 \in x => Sar(x, 31) = Bit) /\ (31 \notin x => Sar(x, 31) = {})
<1>1. Shr(x, 31) = {k \in Bit : k + 31 \in x}
  <2>1. 31 \in Bit
    BY DEF Bit
  <2> QED BY <2>1 DEF Shr
<1>2. ASSUME NEW n \in Bit PROVE n + 31 \in x <=> n = 0 /\ 31 \in x
  <2>1. CASE n = 0
    BY <2>1
  <2>2. CASE n # 0
    BY <2>2 DEF Bit, Word
  <2> QED BY <2>1, <2>2
<1>3. \A n \in Bit : n \in Shr(x, 31) <=> n = 0 /\ 31 \in x
  BY <1>1, <1>2
<1>4. Shr(x, 31) \subseteq Bit /\ 0 \in Bit
  BY <1>1 DEF Bit
<1>5. (31 \in x => SignCopies(x, 31) = Bit \ {0}) /\ (31 \notin x => SignCopies(x, 31) = {})
  BY DEF SignCopies, Bit
<1> QED BY <1>3, <1>4, <1>5 DEF Sar

(* Disjoint words add without a carry.                                      *)
LEMMA AddDisjoint == ASSUME NEW x \in Word, NEW y \in Word, x \cap y = {}
                     PROVE  Add(x, y) = x \cup y
BY DEF Add, Xor, Carry, Word

(* Adding one inverts a bit if all lower ones are set.                      *)
LEMMA Increment ==
    ASSUME NEW x \in Word, NEW n \in Bit
    PROVE  n \in Add(x, {0}) <=> ~(n \in x <=> \A k \in Bit : k < n => k \in x)
<1>1. n \in Carry(x, {0}) <=> n > 0 /\ \A k \in Bit : k < n => k \in x
  <2>1. n \in Carry(x, {0}) <=>
            \E j \in x \cap {0} : j < n /\ \A k \in (j + 1) .. (n - 1) : k \in x \cup {0}
    BY DEF Carry
  <2>2. ASSUME n \in Carry(x, {0}) PROVE n > 0 /\ \A k \in Bit : k < n => k \in x
    <3>1. 0 \in x /\ 0 < n /\ \A k \in (0 + 1) .. (n - 1) : k \in x \cup {0}
      BY <2>1, <2>2
    <3> QED BY <3>1 DEF Bit
  <2>3. ASSUME n > 0, \A k \in Bit : k < n => k \in x PROVE n \in Carry(x, {0})
    <3>1. 0 \in x \cap {0} /\ 0 < n
      BY <2>3 DEF Bit
    <3>2. \A k \in (0 + 1) .. (n - 1) : k \in x \cup {0}
      BY <2>3 DEF Bit
    <3> QED BY <2>1, <3>1, <3>2
  <2> QED BY <2>2, <2>3
<1>2. n \in Add(x, {0}) <=> ~((n \in x <=> n # 0) <=> n \in Carry(x, {0}))
  BY DEF Add, Xor
<1> DEFINE Below == \A k \in Bit : k < n => k \in x
<1>3. CASE n = 0
  <2>1. Below /\ n \notin Carry(x, {0})
    BY <1>1, <1>3 DEF Bit
  <2> QED BY <2>1, <1>2, <1>3
<1>4. CASE n # 0
  <2>1. n > 0
    BY <1>4 DEF Bit
  <2>2. n \in Carry(x, {0}) <=> Below
    BY <1>1, <2>1
  <2> HIDE DEF Below
  <2>3. n \in Add(x, {0}) <=> ~(n \in x <=> Below)
    BY <2>2, <1>2, <1>4
  <2> QED BY <2>3 DEF Below
<1> QED BY <1>3, <1>4

(* The lowest bit of a word.                                                *)
LEMMA Lowest == ASSUME NEW x \in Word, x # {}
                PROVE  \E m \in x : \A k \in Bit : k < m => k \notin x
<1>1. x \in SUBSET Nat
  BY DEF Word, Bit
<1>2. Min(x) \in x /\ \A k \in x : Min(x) <= k
  BY <1>1, NatMin
<1>3. ASSUME NEW k \in Bit, k < Min(x), k \in x PROVE FALSE
  <2>1. Min(x) <= k /\ Min(x) \in Nat /\ k \in Nat
    BY <1>1, <1>2, <1>3
  <2> HIDE DEF Bit
  <2> QED BY <2>1, <1>3
<1> QED BY <1>2, <1>3

(* The bits of -x: those of x up to its lowest one, inverted above.         *)
LEMMA Negated ==
    ASSUME NEW x \in Word, NEW n \in Bit
    PROVE  n \in negate(x) <=> (n \in x <=> \A k \in Bit : k < n => k \notin x)
<1>1. Not(x) \in Word /\ \A k \in Bit : k \in Not(x) <=> k \notin x
  BY DEF Not, Word
<1>2. n \in negate(x) <=> ~(n \in Not(x) <=> \A k \in Bit : k < n => k \in Not(x))
  BY <1>1, Increment DEF negate
<1> QED BY <1>1, <1>2

(* bitXor, with ~ and & only.                                               *)
THEOREM BitXorRight == \A x, y \in Word : bitXor(x, y) = test_bitXor(x, y)
BY DEF bitXor, test_bitXor, Not, Xor, Word

(* tmin.                                                                    *)
THEOREM TminRight == tmin = test_tmin
BY DEF tmin, test_tmin, Shl, Sign, Bit

(* conditional chooses by the truth of x.                                   *)
THEOREM ConditionalRight ==
    \A x, y, z \in Word : conditional(x, y, z) = test_conditional(x, y, z)
<1> SUFFICES ASSUME NEW x \in Word, NEW y \in Word, NEW z \in Word
             PROVE  conditional(x, y, z) = test_conditional(x, y, z)
  OBVIOUS
<1>1. CASE x = {}
  <2>1. Not(Bang(x)) = Bit \ {0}
    BY <1>1 DEF Not, Bang
  <2>2. Carry(Bit \ {0}, {0}) = {}
    BY DEF Carry
  <2>3. Add(Bit \ {0}, {0}) = Bit
    BY <2>2 DEF Add, Xor, Bit
  <2>4. conditional(x, y, z) = Add(Bit \cap z, (Bit \ Bit) \cap y)
    BY <2>1, <2>3 DEF conditional, Not
  <2>5. Bit \cap z = z /\ (Bit \ Bit) \cap y = {}
    BY DEF Word
  <2> QED BY <2>4, <2>5, AddZero, <1>1 DEF test_conditional
<1>2. CASE x # {}
  <2>1. Not(Bang(x)) = Bit
    BY <1>2 DEF Not, Bang
  <2>2. conditional(x, y, z) = Add({} \cap z, (Bit \ {}) \cap y)
    BY <2>1, AllOnesPlusOne DEF conditional, Not
  <2>3. {} \cap z = {} /\ (Bit \ {}) \cap y = y
    BY DEF Word
  <2> QED BY <2>2, <2>3, AddZero, <1>2 DEF test_conditional
<1> QED BY <1>1, <1>2

(* negate: x and what it returns add to zero.                               *)
THEOREM NegateRight == \A x \in Word : Add(x, negate(x)) = {}
<1> SUFFICES ASSUME NEW x \in Word, NEW n \in Bit, n \in Add(x, negate(x)) PROVE FALSE
  <2>1. \A x \in Word : Add(x, negate(x)) \subseteq Bit
    BY WordOperators DEF Word
  <2> QED BY <2>1
<1> DEFINE y == negate(x)
<1>1. n \in Add(x, y) <=> ~((n \in x <=> n \notin y) <=> n \in Carry(x, y))
  BY DEF Add, Xor
<1>2. \A k \in Bit : k \in y <=> (k \in x <=> \A l \in Bit : l < k => l \notin x)
  BY Negated
<1>3. n \in Carry(x, y) <=> \E j \in x \cap y :
                              j < n /\ \A k \in (j + 1) .. (n - 1) : k \in x \cup y
  BY DEF Carry
<1> HIDE DEF y
<1>4. CASE \A l \in Bit : l < n => l \notin x
  <2>1. n \in y <=> n \in x
    BY <1>2, <1>4
  <2>2. n \notin Carry(x, y)
    BY <1>3, <1>4 DEF Word
  <2> QED BY <1>1, <2>1, <2>2 DEF y
<1>5. CASE ~\A l \in Bit : l < n => l \notin x
  <2>1. n \in y <=> n \notin x
    BY <1>2, <1>5
  <2>2. PICK m \in x : m \in Bit /\ \A k \in Bit : k < m => k \notin x
    BY Lowest, <1>5 DEF Word
  <2>3. m < n
    <3>1. PICK l \in Bit : l < n /\ l \in x
      BY <1>5
    <3> QED BY <3>1, <2>2 DEF Bit
  <2>4. m \in y
    BY <1>2, <2>2
  <2>5. ASSUME NEW k \in (m + 1) .. (n - 1) PROVE k \in x \cup y
    <3>1. k \in Bit /\ m < k
      BY <2>2, <2>3 DEF Bit
    <3> QED BY <3>1, <1>2, <2>2
  <2>6. n \in Carry(x, y)
    BY <1>3, <2>2, <2>3, <2>4, <2>5
  <2> QED BY <1>1, <2>1, <2>6 DEF y
<1> QED BY <1>4, <1>5

(* logicalNeg: only for zero is the sign of neither x nor -x set.           *)
THEOREM LogicalNegRight == \A x \in Word : logicalNeg(x) = test_logicalNeg(x)
<1> SUFFICES ASSUME NEW x \in Word PROVE logicalNeg(x) = test_logicalNeg(x)
  OBVIOUS
<1> DEFINE s == negate(x) \cup x
<1>1. 31 \in s <=> x # {}
  <2>1. 31 \in negate(x) <=> (31 \in x <=> \A k \in Bit : k < 31 => k \notin x)
    BY Negated DEF Bit
  <2>2. CASE x = {}
    BY <2>1, <2>2 DEF Bit
  <2>3. CASE x # {}
    <3>1. PICK m \in x : m \in Bit
      BY <2>3 DEF Word
    <3>2. m < 31 \/ m = 31
      BY <3>1 DEF Bit
    <3> QED BY <2>1, <2>3, <3>1, <3>2
  <2> QED BY <2>2, <2>3
<1>2. CASE x = {}
  <2>1. \A n \in Bit : n \notin negate(x)
    BY Negated, <1>2 DEF Bit
  <2>2. negate(x) \in Word
    BY WordOperators
  <2>3. s = {}
    BY <2>1, <2>2, <1>2 DEF Word
  <2>4. Sar({}, 31) = {}
    BY SignShift DEF Word
  <2>5. {0} \in Word
    BY DEF Word, Bit
  <2> QED BY <2>3, <2>4, <2>5, AddZero, <1>2 DEF logicalNeg, test_logicalNeg
<1>3. CASE x # {}
  <2>1. 31 \in s
    BY <1>1, <1>3
  <2> HIDE DEF s
  <2>2. Sar(s, 31) = Bit
    <3>1. s \in Word
      BY WordOperators DEF s, Word
    <3> QED BY <2>1, <3>1, SignShift
  <2>3. logicalNeg(x) = Add(Sar(s, 31), {0})
    BY DEF logicalNeg, s
  <2> QED BY <2>2, <2>3, AllOnesPlusOne, <1>3 DEF test_logicalNeg
<1> QED BY <1>2, <1>3

(* allOddBits: the mask is made of its eight bits without a carry.          *)
THEOREM AllOddBitsRight == \A x \in Word : allOddBits(x) = test_allOddBits(x)
<1> DEFINE low == {1, 3, 5, 7}
           half == {1, 3, 5, 7, 9, 11, 13, 15}
           odd == {n \in Bit : n % 2 = 1}
<1>1. low \in Word /\ Shl(low, 8) = {9, 11, 13, 15} /\ half \in Word
  <2>1. 8 \in Bit
    BY DEF Bit
  <2>2. Shl(low, 8) = {n \in Bit : n - 8 \in low}
    BY <2>1 DEF Shl
  <2>3. {n \in Bit : n - 8 \in low} = {9, 11, 13, 15}
    BY DEF Bit
  <2> QED BY <2>2, <2>3 DEF Word, Bit
<1>2. Add(low, Shl(low, 8)) = half
  <2>1. {9, 11, 13, 15} \in Word /\ low \cap {9, 11, 13, 15} = {}
    BY DEF Word, Bit
  <2>2. low \cup {9, 11, 13, 15} = half
    OBVIOUS
  <2> HIDE DEF low, half
  <2> QED BY <1>1, <2>1, <2>2, AddDisjoint
<1>3. Shl(half, 16) = {n \in Bit : n - 16 \in half}
  <2>1. 16 \in Bit
    BY DEF Bit
  <2> QED BY <2>1 DEF Shl
<1>4. half \cap Shl(half, 16) = {} /\ Shl(half, 16) \in Word
  BY <1>3 DEF Bit, Word
<1>5. half \cup Shl(half, 16) = odd
  <2>1. ASSUME NEW n \in Bit PROVE n \in half \/ n - 16 \in half <=> n % 2 = 1
    BY DEF Bit
  <2>2. half \subseteq Bit
    BY <1>1 DEF Word
  <2> HIDE DEF half
  <2> QED BY <1>3, <2>1, <2>2
<1>6. OddMask = odd
  <2>1. OddMask = Add(half, Shl(half, 16))
    <3> HIDE DEF half
    <3> QED BY <1>2 DEF OddMask
  <2> HIDE DEF half, odd
  <2> QED BY <2>1, <1>1, <1>4, <1>5, AddDisjoint
<1>7. ASSUME NEW x \in Word PROVE allOddBits(x) = test_allOddBits(x)
  <2>1. Xor(x \cap OddMask, OddMask) = OddMask \ x
    BY DEF Xor
  <2>2. OddMask \ x = {} <=> \A n \in Bit : n % 2 = 1 => n \in x
    BY <1>6
  <2> QED BY <2>1, <2>2 DEF allOddBits, test_allOddBits, Bang
<1> QED BY <1>7

(* isTmax: below the lowest zero bit m of x, x + 1 is zero, and above m it  *)
(* is x.  So bit m + 1 of (x + 1) + x is zero, unless m is the sign; and    *)
(* without a zero bit, x + 1 is zero.                                       *)
THEOREM IsTmaxRight == \A x \in Word : isTmax(x) = test_isTmax(x)
<1> SUFFICES ASSUME NEW x \in Word PROVE isTmax(x) = test_isTmax(x)
  OBVIOUS
<1> DEFINE c == Add(x, {0})
           s == Add(c, x)
<1>1. {0} \in Word /\ c \in Word /\ s \in Word /\ Not(x) \in Word
  <2>1. {0} \in Word
    BY DEF Word, Bit
  <2> QED BY <2>1, WordOperators
<1>2. \A n \in Bit : n \in c <=> ~(n \in x <=> \A k \in Bit : k < n => k \in x)
  BY Increment
<1>3. \A w \in Word : Add(w, {0}) = {} <=> w = Bit
  <2> SUFFICES ASSUME NEW w \in Word, w # Bit PROVE Add(w, {0}) # {}
    BY AllOnesPlusOne
  <2>1. Not(w) \in Word /\ Not(w) # {}
    BY DEF Not, Word
  <2>2. PICK m \in Not(w) : \A k \in Bit : k < m => k \notin Not(w)
    BY <2>1, Lowest
  <2>3. m \in Bit /\ m \notin w /\ \A k \in Bit : k < m => k \in w
    BY <2>2 DEF Not
  <2>4. m \in Add(w, {0})
    BY <2>3, Increment
  <2> QED BY <2>4
<1>4. isTmax(x) = Bang(Add(s, {0})) \cap Bang(Bang(c))
  BY DEF isTmax
<1>5. isTmax(x) = IF s = Bit /\ c # {} THEN {0} ELSE {}
  <2> HIDE DEF c, s
  <2>1. Bang(Add(s, {0})) = IF s = Bit THEN {0} ELSE {}
    BY <1>1, <1>3 DEF Bang
  <2>2. Bang(Bang(c)) = IF c # {} THEN {0} ELSE {}
    BY DEF Bang
  <2> QED BY <1>4, <2>1, <2>2
<1>6. CASE x = Bit
  <2>1. c = {} /\ x # Bit \ Sign
    BY <1>6, AllOnesPlusOne DEF Sign, Bit
  <2> QED BY <2>1, <1>5 DEF test_isTmax
<1>7. CASE x = Bit \ Sign
  <2>1. c = {31}
    <3>1. \A n \in Bit : n \in x <=> n # 31
      BY <1>7 DEF Sign
    <3>2. \A n \in Bit : n \in c <=> n = 31
      BY <3>1, <1>2 DEF Bit
    <3>3. c \subseteq Bit /\ 31 \in Bit
      BY <1>1 DEF Word, Bit
    <3> HIDE DEF c
    <3> QED BY <3>2, <3>3
  <2>2. s = {31} \cup x
    <3>1. {31} \in Word /\ {31} \cap x = {}
      BY <1>7 DEF Word, Bit, Sign
    <3> HIDE DEF c
    <3> QED BY <2>1, <3>1, AddDisjoint
  <2>3. s = Bit
    BY <2>2, <1>7 DEF Sign, Bit
  <2> HIDE DEF c, s
  <2> QED BY <2>1, <2>3, <1>5, <1>7 DEF test_isTmax
<1>8. CASE x # Bit /\ x # Bit \ Sign
  <2>1. PICK m \in Not(x) : \A k \in Bit : k < m => k \notin Not(x)
    BY <1>1, <1>8, Lowest DEF Not, Word
  <2>2. m \in Bit /\ m \notin x /\ \A k \in Bit : k < m => k \in x
    BY <2>1 DEF Not
  <2>3. m + 1 \in Bit
    <3>1. CASE m = 31
      <4>1. \A k \in Bit : k \in x <=> k # 31
        BY <2>2, <3>1 DEF Bit
      <4>2. x = Bit \ Sign
        BY <4>1 DEF Sign, Word
      <4> QED BY <4>2, <1>8
    <3> QED BY <3>1, <2>2 DEF Bit
  <2>4. m + 1 \in c <=> m + 1 \in x
    <3>1. m < m + 1
      BY <2>2 DEF Bit
    <3> QED BY <1>2, <2>2, <2>3, <3>1
  <2>5. m + 1 \notin Carry(c, x)
    <3> SUFFICES ASSUME NEW j \in c \cap x, j < m + 1 PROVE FALSE
      BY DEF Carry
    <3>1. j \in Bit /\ j # m
      BY <2>2 DEF Word
    <3>2. j < m
      BY <3>1, <2>2 DEF Bit
    <3>3. \A k \in Bit : k < j => k \in x
      BY <2>2, <3>1, <3>2 DEF Bit
    <3> QED BY <1>2, <3>1, <3>3
  <2>6. m + 1 \notin s
    <3> HIDE DEF c
    <3> QED BY <2>4, <2>5 DEF Add, Xor
  <2> HIDE DEF c, s
  <2> QED BY <2>3, <2>6, <1>5, <1>8 DEF test_isTmax
<1> QED BY <1>6, <1>7, <1>8

-----------------------------------------------------------------------------
(* The numbers that words stand for.                                        *)
LEMMA WordOfWord == \A n : WordOf(n) \in Word
BY DEF WordOf, Word, Bit, Sign

Pow == [k \in 0 .. 32 |-> 2^k]

LEMMA Powers ==
    /\ \A k \in 0 .. 32 : Pow[k] = 2^k /\ Pow[k] \in Nat /\ Pow[k] > 0
    /\ \A k \in Bit : Pow[k + 1] = 2 * Pow[k]
    /\ Pow[0] = 1 /\ Pow[3] = 8 /\ Pow[4] = 16 /\ Pow[5] = 32 /\ Pow[8] = 256
    /\ Pow[31] > 1000 /\ TMin = 0 - Pow[31] /\ TMax = Pow[31] - 1 /\ Pow[32] = 2 * Pow[31]
<1>1. \A k \in 0 .. 32 : Pow[k] = 2^k
  BY DEF Pow
<1>2.  /\ Pow[0] = 1 /\ Pow[1] = 2 /\ Pow[2] = 4 /\ Pow[3] = 8 /\ Pow[4] = 16 /\ Pow[5] = 32
      /\ Pow[6] = 64 /\ Pow[7] = 128 /\ Pow[8] = 256 /\ Pow[9] = 512 /\ Pow[10] = 1024
      /\ Pow[11] = 2048 /\ Pow[12] = 4096 /\ Pow[13] = 8192 /\ Pow[14] = 16384
      /\ Pow[15] = 32768 /\ Pow[16] = 65536 /\ Pow[17] = 131072 /\ Pow[18] = 262144
      /\ Pow[19] = 524288 /\ Pow[20] = 1048576 /\ Pow[21] = 2097152 /\ Pow[22] = 4194304
      /\ Pow[23] = 8388608 /\ Pow[24] = 16777216 /\ Pow[25] = 33554432 /\ Pow[26] = 67108864
      /\ Pow[27] = 134217728 /\ Pow[28] = 268435456 /\ Pow[29] = 536870912
      /\ Pow[30] = 1073741824 /\ Pow[31] = 2147483648 /\ Pow[32] = 4294967296
  BY SMT DEF Pow
<1> HIDE DEF Pow
<1>3. ASSUME NEW k \in 0 .. 32
      PROVE  Pow[k] \in Nat /\ Pow[k] > 0 /\ (k < 32 => Pow[k + 1] = 2 * Pow[k])
  <2>1. \/ k \in 0 .. 7 \/ k \in 8 .. 15 \/ k \in 16 .. 23 \/ k \in 24 .. 32
    OBVIOUS
  <2>2. CASE k \in 0 .. 7
    <3>1. k = 0 \/ k = 1 \/ k = 2 \/ k = 3 \/ k = 4 \/ k = 5 \/ k = 6 \/ k = 7
      BY <2>2
    <3> QED BY <3>1, <1>2, SMT
  <2>3. CASE k \in 8 .. 15
    <3>1. k = 8 \/ k = 9 \/ k = 10 \/ k = 11 \/ k = 12 \/ k = 13 \/ k = 14 \/ k = 15
      BY <2>3
    <3> QED BY <3>1, <1>2, SMT
  <2>4. CASE k \in 16 .. 23
    <3>1. k = 16 \/ k = 17 \/ k = 18 \/ k = 19 \/ k = 20 \/ k = 21 \/ k = 22 \/ k = 23
      BY <2>4
    <3> QED BY <3>1, <1>2, SMT
  <2>5. CASE k \in 24 .. 32
    <3>1. \/ k = 24 \/ k = 25 \/ k = 26 \/ k = 27 \/ k = 28 \/ k = 29 \/ k = 30 \/ k = 31
          \/ k = 32
      BY <2>5
    <3> QED BY <3>1, <1>2, SMT
  <2> QED BY <2>1, <2>2, <2>3, <2>4, <2>5
<1>4. /\ Pow[0] = 1 /\ Pow[3] = 8 /\ Pow[4] = 16 /\ Pow[5] = 32 /\ Pow[8] = 256
      /\ Pow[31] > 1000 /\ TMin = 0 - Pow[31] /\ TMax = Pow[31] - 1 /\ Pow[32] = 2 * Pow[31]
  BY <1>2, SMT DEF TMin, TMax
<1>5. \A k \in Bit : k \in 0 .. 32 /\ k < 32
  BY DEF Bit
<1> QED BY <1>1, <1>3, <1>4, <1>5

(* Low(x)[n] is the number that the lowest n bits of x stand for.           *)
Worth(x, n) == IF n \in x THEN Pow[n] ELSE 0
LEMMA WorthIs == ASSUME NEW x, NEW n
                 PROVE  (n \in x => Worth(x, n) = Pow[n]) /\ (n \notin x => Worth(x, n) = 0)
BY Zenon DEF Worth

Adds(f, x, m) == f[0] = 0 /\ \A n \in 0 .. m - 1 : f[n + 1] = f[n] + Worth(x, n)
Low(x) == CHOOSE f : f \in [0 .. 32 -> Nat] /\ Adds(f, x, 32)

LEMMA LowAt ==
    ASSUME NEW x
    PROVE  /\ Low(x)[0] = 0 /\ \A n \in 0 .. 32 : Low(x)[n] \in Nat
           /\ \A n \in Bit : Low(x)[n + 1] = Low(x)[n] + Worth(x, n)
           /\ \A n \in Bit : Worth(x, n) = (IF n \in x THEN Pow[n] ELSE 0) /\ Worth(x, n) \in Nat
<1>1. \A n \in Bit : Worth(x, n) \in Nat
  BY Powers DEF Worth, Bit
<1> DEFINE S == {m \in 0 .. 32 : \E f \in [0 .. m -> Nat] : Adds(f, x, m)}
<1>2. 0 \in S
  <2> DEFINE f == [n \in 0 .. 0 |-> 0]
  <2>1. f \in [0 .. 0 -> Nat] /\ Adds(f, x, 0)
    BY DEF Adds
  <2> HIDE DEF f
  <2> QED BY <2>1
<1>3. ASSUME NEW m \in 0 .. 32, m \in S, m < 32 PROVE m + 1 \in S
  <2>1. PICK f \in [0 .. m -> Nat] : Adds(f, x, m)
    BY <1>3
  <2> DEFINE g == [n \in 0 .. m + 1 |-> IF n = m + 1 THEN f[m] + Worth(x, m) ELSE f[n]]
  <2>2. /\ \A n \in 0 .. m : g[n] = f[n] /\ f[n] \in Nat
        /\ g[m + 1] = f[m] + Worth(x, m) /\ Worth(x, m) \in Nat
        /\ g \in [0 .. m + 1 -> Nat]
    <3>1. m \in Bit
      BY <1>3 DEF Bit
    <3>2. Worth(x, m) \in Nat
      BY <3>1, <1>1
    <3>3. \A n \in 0 .. m + 1 : n # m + 1 => n \in 0 .. m
      OBVIOUS
    <3>4. \A n \in 0 .. m : n \in 0 .. m + 1 /\ n # m + 1
      OBVIOUS
    <3>5. m \in 0 .. m /\ m + 1 \in 0 .. m + 1
      OBVIOUS
    <3> QED BY <3>2, <3>3, <3>4, <3>5
  <2> HIDE DEF g
  <2>3. Adds(g, x, m + 1)
    <3>1. 0 \in 0 .. m /\ \A n \in 0 .. (m + 1) - 1 : n = m \/ n \in 0 .. m - 1
      OBVIOUS
    <3>2. \A n \in 0 .. m - 1 : n \in 0 .. m /\ n + 1 \in 0 .. m
      OBVIOUS
    <3>3. m \in 0 .. m
      OBVIOUS
    <3> QED BY <2>1, <2>2, <3>1, <3>2, <3>3 DEF Adds
  <2>4. m + 1 \in 0 .. 32
    BY <1>3
  <2> QED BY <2>2, <2>3, <2>4
<1>4. 32 \in S
  <2> HIDE DEF S
  <2>1. 0 .. 32 \subseteq S
    BY <1>2, <1>3, BoundedInduct
  <2> QED BY <2>1
<1>5. \E f : f \in [0 .. 32 -> Nat] /\ Adds(f, x, 32)
  BY <1>4
<1>6. Low(x) \in [0 .. 32 -> Nat] /\ Adds(Low(x), x, 32)
  BY <1>5 DEF Low
<1>7. \A n \in Bit : n \in 0 .. 32 - 1
  BY DEF Bit
<1> QED BY <1>1, <1>6, <1>7 DEF Adds, Worth

LEMMA LowBound ==
    ASSUME NEW x
    PROVE  \A n \in 0 .. 32 : Low(x)[n] \in Nat /\ Low(x)[n] < Pow[n] /\ Pow[n] \in Nat
<1> DEFINE S == {n \in 0 .. 32 : Low(x)[n] < Pow[n]}
<1>1. 0 \in S
  BY LowAt, Powers
<1>2. ASSUME NEW n \in 0 .. 32, n \in S, n < 32 PROVE n + 1 \in S
  <2>1. n \in Bit /\ n + 1 \in 0 .. 32
    BY <1>2 DEF Bit
  <2>2. /\ Low(x)[n + 1] = Low(x)[n] + Worth(x, n) /\ Pow[n + 1] = 2 * Pow[n]
        /\ Worth(x, n) = (IF n \in x THEN Pow[n] ELSE 0)
        /\ Low(x)[n] \in Nat /\ Pow[n] \in Nat /\ Low(x)[n] < Pow[n] /\ Pow[n] > 0
    BY <1>2, <2>1, LowAt, Powers
  <2> QED BY <2>1, <2>2
<1> HIDE DEF S
<1>3. 0 .. 32 \subseteq S
  BY <1>1, <1>2, BoundedInduct
<1> QED BY <1>3, LowAt, Powers DEF S

(* The value as an int: the sign counts 2^31 down.                          *)
LEMMA SignedLow ==
    ASSUME NEW x \in Word
    PROVE  /\ Signed(x) = Low(x)[31] - (IF 31 \in x THEN Pow[31] ELSE 0)
           /\ Low(x)[31] \in 0 .. TMax /\ Signed(x) \in TMin .. TMax
           /\ 31 \in x <=> Signed(x) < 0
<1> DEFINE Sum(g) == g = [n \in 0 .. 31 |-> IF n = 0 THEN 0
                             ELSE g[n - 1] + (IF n - 1 \in x THEN 2^(n - 1) ELSE 0)]
           below == CHOOSE g : Sum(g)
<1>1. Signed(x) = below[31] + (IF 31 \in x THEN TMin ELSE 0)
  BY Zenon DEF Signed
<1> DEFINE f == [n \in 0 .. 31 |-> Low(x)[n]]
<1>2. ASSUME NEW n \in 1 .. 31
      PROVE  /\ n - 1 \in 0 .. 31 /\ (IF n - 1 \in x THEN 2^(n - 1) ELSE 0) = Worth(x, n - 1)
             /\ Low(x)[n] = Low(x)[n - 1] + Worth(x, n - 1)
  <2>1. n - 1 \in Bit /\ (n - 1) + 1 = n /\ n - 1 \in 0 .. 32
    BY DEF Bit
  <2>2. Low(x)[(n - 1) + 1] = Low(x)[n - 1] + Worth(x, n - 1)
    BY <2>1, LowAt
  <2>3. \A m \in 0 .. 32 : (IF m \in x THEN 2^m ELSE 0) = Worth(x, m)
    BY Powers, Zenon DEF Worth
  <2> QED BY <2>1, <2>2, <2>3, Zenon DEF Bit
<1>3. Sum(f)
  <2>1. \A n \in 0 .. 31 : n = 0 \/ n \in 1 .. 31
    OBVIOUS
  <2>2. \A n \in 0 .. 31 : f[n] = Low(x)[n]
    OBVIOUS
  <2>3. ASSUME NEW n \in 0 .. 31
        PROVE  f[n] = IF n = 0 THEN 0 ELSE f[n - 1] + (IF n - 1 \in x THEN 2^(n - 1) ELSE 0)
    BY <1>2, <2>1, <2>2, LowAt
  <2>4. f = [n \in 0 .. 31 |-> f[n]]
    OBVIOUS
  <2> HIDE DEF f
  <2>5. [n \in 0 .. 31 |-> f[n]] = [n \in 0 .. 31 |-> IF n = 0 THEN 0
                             ELSE f[n - 1] + (IF n - 1 \in x THEN 2^(n - 1) ELSE 0)]
    BY <2>3
  <2> QED BY <2>4, <2>5
<1>4. Sum(below)
  <2> HIDE DEF Sum, f
  <2> QED BY <1>3
<1>5. \A n \in 0 .. 31 : below[n] = IF n = 0 THEN 0
                             ELSE below[n - 1] + (IF n - 1 \in x THEN 2^(n - 1) ELSE 0)
  <2> HIDE DEF below
  <2> QED BY <1>4
<1> HIDE DEF below, Sum, f
<1>6. below[31] = Low(x)[31]
  <2> DEFINE S == {n \in 0 .. 31 : below[n] = Low(x)[n]}
  <2>1. 0 \in S
    BY <1>5, LowAt
  <2>2. ASSUME NEW n \in 0 .. 31, n \in S, n < 31 PROVE n + 1 \in S
    <3>1. n + 1 \in 1 .. 31 /\ (n + 1) - 1 = n /\ n + 1 # 0 /\ n + 1 \in 0 .. 31
      BY <2>2
    <3>2. below[n + 1] = below[(n + 1) - 1]
                           + (IF (n + 1) - 1 \in x THEN 2^((n + 1) - 1) ELSE 0)
      BY <1>5, <3>1
    <3>3. below[n + 1] = Low(x)[(n + 1) - 1] + Worth(x, (n + 1) - 1)
      BY <2>2, <3>1, <3>2, <1>2
    <3> QED BY <3>1, <3>3, <1>2
  <2> HIDE DEF S
  <2>3. 0 .. 31 \subseteq S
    BY <2>1, <2>2, BoundedInduct
  <2> QED BY <2>3 DEF S
<1>7. Low(x)[31] \in Nat /\ Low(x)[31] < Pow[31] /\ Pow[31] \in Nat
  BY LowBound, Powers
<1>8. TMin = 0 - Pow[31] /\ TMax = Pow[31] - 1
  BY Powers
<1> QED BY <1>1, <1>6, <1>7, <1>8

(* Words that agree below n stand for the same number there.                *)
LEMMA LowSame ==
    ASSUME NEW x, NEW y, NEW n \in 0 .. 32, \A k \in 0 .. n - 1 : k \in x <=> k \in y
    PROVE  Low(x)[n] = Low(y)[n]
<1> DEFINE S == {m \in 0 .. 32 : m <= n => Low(x)[m] = Low(y)[m]}
<1>1. 0 \in S
  BY LowAt
<1>2. ASSUME NEW m \in 0 .. 32, m \in S, m < 32 PROVE m + 1 \in S
  <2>1. m \in Bit /\ m + 1 \in 0 .. 32 /\ (m + 1 <= n => m \in 0 .. n - 1 /\ m <= n)
    BY <1>2 DEF Bit
  <2>2. m + 1 <= n => (m \in x <=> m \in y)
    BY <2>1
  <2>3. m + 1 <= n => Worth(x, m) = Worth(y, m)
    BY <2>2, WorthIs, Zenon
  <2> QED BY <1>2, <2>1, <2>3, LowAt
<1> HIDE DEF S
<1>3. 0 .. 32 \subseteq S
  BY <1>1, <1>2, BoundedInduct
<1> QED BY <1>3 DEF S

LEMMA LowUnion ==
    ASSUME NEW x, NEW y, x \cap y = {}
    PROVE  \A n \in 0 .. 32 : Low(x \cup y)[n] = Low(x)[n] + Low(y)[n]
<1> DEFINE S == {m \in 0 .. 32 : Low(x \cup y)[m] = Low(x)[m] + Low(y)[m]}
<1>1. 0 \in S
  BY LowAt
<1>2. ASSUME NEW m \in 0 .. 32, m \in S, m < 32 PROVE m + 1 \in S
  <2>1. m \in Bit /\ m + 1 \in 0 .. 32
    BY <1>2 DEF Bit
  <2>2. Pow[m] \in Nat
    BY <1>2, Powers
  <2>3. Worth(x \cup y, m) = Worth(x, m) + Worth(y, m)
    <3>1. CASE m \in x
      <4>1. m \notin y /\ m \in x \cup y
        BY <3>1
      <4>2. Worth(x, m) = Pow[m] /\ Worth(y, m) = 0 /\ Worth(x \cup y, m) = Pow[m]
        BY <3>1, <4>1, WorthIs, Zenon
      <4> QED BY <2>2, <4>2
    <3>2. CASE m \in y
      <4>1. m \notin x /\ m \in x \cup y
        BY <3>2
      <4>2. Worth(y, m) = Pow[m] /\ Worth(x, m) = 0 /\ Worth(x \cup y, m) = Pow[m]
        BY <3>2, <4>1, WorthIs, Zenon
      <4> QED BY <2>2, <4>2
    <3>3. CASE m \notin x \cup y
      <4>1. Worth(y, m) = 0 /\ Worth(x, m) = 0 /\ Worth(x \cup y, m) = 0
        BY <3>3, WorthIs, Zenon
      <4> QED BY <4>1
    <3> QED BY <3>1, <3>2, <3>3
  <2>4. /\ Low(x \cup y)[m + 1] = Low(x \cup y)[m] + Worth(x \cup y, m)
        /\ Low(x)[m + 1] = Low(x)[m] + Worth(x, m) /\ Low(y)[m + 1] = Low(y)[m] + Worth(y, m)
        /\ Low(x)[m] \in Nat /\ Low(y)[m] \in Nat /\ Worth(x, m) \in Nat /\ Worth(y, m) \in Nat
    BY <2>1, LowAt
  <2>5. Low(x \cup y)[m] = Low(x)[m] + Low(y)[m]
    BY <1>2
  <2> QED BY <2>1, <2>3, <2>4, <2>5
<1> HIDE DEF S
<1>3. 0 .. 32 \subseteq S
  BY <1>1, <1>2, BoundedInduct
<1> QED BY <1>3 DEF S

LEMMA LowEmpty == \A n \in 0 .. 32 : Low({})[n] = 0
<1> DEFINE S == {m \in 0 .. 32 : Low({})[m] = 0}
<1>1. 0 \in S
  BY LowAt
<1>2. ASSUME NEW m \in 0 .. 32, m \in S, m < 32 PROVE m + 1 \in S
  <2>1. m \in Bit /\ m + 1 \in 0 .. 32
    BY <1>2 DEF Bit
  <2> QED BY <1>2, <2>1, LowAt
<1> HIDE DEF S
<1>3. 0 .. 32 \subseteq S
  BY <1>1, <1>2, BoundedInduct
<1> QED BY <1>3 DEF S

LEMMA LowSingle ==
    ASSUME NEW k \in Bit, NEW n \in 0 .. 32
    PROVE  Low({k})[n] = IF k < n THEN Pow[k] ELSE 0
<1> DEFINE S == {m \in 0 .. 32 : Low({k})[m] = IF k < m THEN Pow[k] ELSE 0}
<1>1. 0 \in S
  BY LowAt DEF Bit
<1>2. ASSUME NEW m \in 0 .. 32, m \in S, m < 32 PROVE m + 1 \in S
  <2>1. m \in Bit /\ m + 1 \in 0 .. 32 /\ k \in 0 .. 32
    BY <1>2 DEF Bit
  <2>2. (m = k => Worth({k}, m) = Pow[k]) /\ (m # k => Worth({k}, m) = 0) /\ Pow[k] \in Nat
    <3>1. m = k => Worth({k}, m) = Pow[k]
      <4>1. k \in {k}
        OBVIOUS
      <4>2. Worth({k}, k) = Pow[k]
        BY <4>1, WorthIs, Zenon
      <4> QED BY <4>2
    <3>2. m # k => Worth({k}, m) = 0
      <4>1. m # k => m \notin {k}
        OBVIOUS
      <4> QED BY <4>1, WorthIs, Zenon
    <3> QED BY <2>1, <3>1, <3>2, Powers
  <2>3. Low({k})[m + 1] = Low({k})[m] + Worth({k}, m)
    BY <2>1, LowAt
  <2>4. Low({k})[m] = IF k < m THEN Pow[k] ELSE 0
    BY <1>2
  <2>5. Low({k})[m + 1] = IF k < m + 1 THEN Pow[k] ELSE 0
    BY <2>1, <2>2, <2>3, <2>4
  <2> QED BY <2>1, <2>5
<1> HIDE DEF S
<1>3. 0 .. 32 \subseteq S
  BY <1>1, <1>2, BoundedInduct
<1> QED BY <1>3 DEF S

(* The number decides the bits.                                             *)
LEMMA DigitsDecide ==
    \A a, b, c, d, p \in Nat :
        a < p /\ b < p /\ c \in {0, p} /\ d \in {0, p} /\ a + c = b + d => a = b /\ c = d
OBVIOUS

LEMMA MinusDecides == \A a, b, c \in Int : a - c = b - c => a = b
OBVIOUS

LEMMA LowDecides ==
    ASSUME NEW x, NEW y, NEW n \in 0 .. 32, Low(x)[n] = Low(y)[n]
    PROVE  \A k \in 0 .. n - 1 : k \in x <=> k \in y
<1> DEFINE S == {m \in 0 .. 32 : Low(x)[m] = Low(y)[m] => \A k \in 0 .. m - 1 : k \in x <=> k \in y}
<1>1. 0 \in S
  OBVIOUS
<1>2. ASSUME NEW m \in 0 .. 32, m \in S, m < 32 PROVE m + 1 \in S
  <2>1. m \in Bit /\ m + 1 \in 0 .. 32
    BY <1>2 DEF Bit
  <2>2. /\ Worth(x, m) \in {0, Pow[m]} /\ Worth(y, m) \in {0, Pow[m]} /\ Pow[m] \in Nat
        /\ Low(x)[m + 1] = Low(x)[m] + Worth(x, m) /\ Low(y)[m + 1] = Low(y)[m] + Worth(y, m)
        /\ Low(x)[m] \in Nat /\ Low(y)[m] \in Nat /\ Low(x)[m] < Pow[m] /\ Low(y)[m] < Pow[m]
    BY <1>2, <2>1, LowAt, LowBound, Powers
  <2> SUFFICES ASSUME Low(x)[m + 1] = Low(y)[m + 1], NEW k \in 0 .. (m + 1) - 1
               PROVE  k \in x <=> k \in y
    BY <2>1
  <2>3. Low(x)[m] = Low(y)[m] /\ Worth(x, m) = Worth(y, m)
    <3>1. Worth(x, m) \in Nat /\ Worth(y, m) \in Nat
      BY <2>1, LowAt
    <3>2. Low(x)[m] + Worth(x, m) = Low(y)[m] + Worth(y, m)
      BY <2>2
    <3> QED BY <2>2, <3>1, <3>2, DigitsDecide
  <2>5. m \in x <=> m \in y
    <3>1. Pow[m] # 0
      BY <1>2, Powers
    <3>2. /\ (m \in x => Worth(x, m) = Pow[m]) /\ (m \notin x => Worth(x, m) = 0)
          /\ (m \in y => Worth(y, m) = Pow[m]) /\ (m \notin y => Worth(y, m) = 0)
      BY WorthIs, Zenon
    <3> QED BY <2>3, <3>1, <3>2, Zenon
  <2>4. k = m \/ k \in 0 .. m - 1
    BY <1>2
  <2> QED BY <1>2, <2>3, <2>4, <2>5
<1> HIDE DEF S
<1>3. 0 .. 32 \subseteq S
  BY <1>1, <1>2, BoundedInduct
<1> QED BY <1>3 DEF S

LEMMA SignedDecides ==
    ASSUME NEW x \in Word, NEW y \in Word, Signed(x) = Signed(y)
    PROVE  x = y
<1>1. 31 \in x <=> 31 \in y
  BY SignedLow
<1>2. Low(x)[31] = Low(y)[31]
  <2>1. Low(x)[31] \in Int /\ Low(y)[31] \in Int /\ Pow[31] \in Int
    BY LowAt, Powers
  <2>2. CASE 31 \in x
    <3>1. Signed(x) = Low(x)[31] - Pow[31] /\ Signed(y) = Low(y)[31] - Pow[31]
      BY <1>1, <2>2, SignedLow
    <3> QED BY <2>1, <3>1, MinusDecides, Zenon
  <2>3. CASE 31 \notin x
    <3>1. Signed(x) = Low(x)[31] - 0 /\ Signed(y) = Low(y)[31] - 0 /\ 0 \in Int
      BY <1>1, <2>3, SignedLow
    <3> QED BY <2>1, <3>1, MinusDecides, Zenon
  <2> QED BY <2>2, <2>3
<1>3. \A k \in Bit : k = 31 \/ k \in 0 .. 31 - 1
  BY DEF Bit
<1>4. \A k \in Bit : k \in x <=> k \in y
  <2>1. 31 \in 0 .. 32
    OBVIOUS
  <2>2. \A k \in 0 .. 31 - 1 : k \in x <=> k \in y
    BY <1>2, <2>1, LowDecides, Zenon
  <2> QED BY <1>1, <1>3, <2>2
<1> QED BY <1>4 DEF Word

(* Division.                                                                *)
LEMMA DivBounds == ASSUME NEW v \in Int, NEW d \in Nat, d > 0
                   PROVE  /\ v \div d \in Int
                          /\ d * (v \div d) <= v /\ v < d * (v \div d) + d
OBVIOUS

LEMMA DivIs == ASSUME NEW v \in Int, NEW d \in Nat, d > 0, NEW q \in Int,
                      d * q <= v, v < d * q + d
               PROVE  v \div d = q
OBVIOUS

LEMMA DivHalf == ASSUME NEW v \in Int, NEW d \in Nat, d > 0
                 PROVE  v \div (2 * d) = (v \div d) \div 2
OBVIOUS

SplitAt(v, l, p, q) ==
    /\ q % 2 = 0 => v = (l + 0) + (2 * p) * (q \div 2)
    /\ q % 2 # 0 => v = (l + p) + (2 * p) * (q \div 2)
LEMMA DigitStep ==
    ASSUME NEW p \in Nat, NEW q \in Int, NEW v \in Int, NEW l \in Int, v = l + p * q
    PROVE  SplitAt(v, l, p, q)
<1>1. q \div 2 \in Int /\ (q % 2 = 0 => q = 2 * (q \div 2)) /\ (q % 2 # 0 => q = 2 * (q \div 2) + 1)
  OBVIOUS
<1>2. \A h \in Int : q = 2 * h => v = (l + 0) + (2 * p) * h
  OBVIOUS
<1>3. \A h \in Int : q = 2 * h + 1 => v = (l + p) + (2 * p) * h
  OBVIOUS
<1> QED BY <1>1, <1>2, <1>3 DEF SplitAt

(* The word of a number stands for the number.                              *)
LEMMA WordOfBits ==
    ASSUME NEW v \in Int
    PROVE  /\ \A n \in 0 .. 30 : n \in WordOf(v) <=> (v \div Pow[n]) % 2 = 1
           /\ 31 \in WordOf(v) <=> v < 0
<1>1. \A n \in 0 .. 30 : n \in WordOf(v) <=> (v \div 2^n) % 2 = 1
  <2>1. \A n \in 0 .. 30 : n \notin Sign
    BY DEF Sign
  <2> QED BY <2>1, Zenon DEF WordOf
<1>2. \A n \in 0 .. 30 : Pow[n] = 2^n
  <2>1. \A n \in 0 .. 30 : n \in 0 .. 32
    OBVIOUS
  <2> QED BY <2>1, Powers, Zenon
<1>3. 31 \in WordOf(v) <=> v < 0
  <2>1. 31 \notin 0 .. 30 /\ 31 \in Sign
    BY DEF Sign
  <2> QED BY <2>1, Zenon DEF WordOf
<1> QED BY <1>1, <1>2, <1>3, Zenon

LEMMA LowWordOf ==
    ASSUME NEW v \in Int
    PROVE  \A n \in 0 .. 31 : v \div Pow[n] \in Int /\ v = Low(WordOf(v))[n] + Pow[n] * (v \div Pow[n])
<1> DEFINE w == WordOf(v)
           S == {n \in 0 .. 31 : v = Low(w)[n] + Pow[n] * (v \div Pow[n])}
<1>0. \A n \in 0 .. 31 : v \div Pow[n] \in Int
  <2>1. \A n \in 0 .. 31 : Pow[n] \in Nat /\ Pow[n] > 0
    BY Powers
  <2> QED BY <2>1, DivBounds
<1>1. 0 \in S
  <2>1. Pow[0] = 1 /\ Low(w)[0] = 0
    BY Powers, LowAt
  <2>2. v \div 1 = v
    OBVIOUS
  <2> HIDE DEF w
  <2> QED BY <2>1, <2>2
<1>2. ASSUME NEW n \in 0 .. 31, n \in S, n < 31 PROVE n + 1 \in S
  <2> DEFINE q == v \div Pow[n]
  <2>1. n \in Bit /\ n + 1 \in 0 .. 31 /\ n \in 0 .. 30
    BY <1>2 DEF Bit
  <2>2. Pow[n] \in Nat /\ Pow[n] > 0 /\ Pow[n + 1] = 2 * Pow[n]
    BY <2>1, Powers
  <2>3. q \in Int /\ v \div Pow[n + 1] = q \div 2
    BY <2>2, DivBounds, DivHalf
  <2>4. Low(w)[n] \in Int /\ v = Low(w)[n] + Pow[n] * q
    BY <1>2, LowAt
  <2>5. n \in w <=> q % 2 = 1
    BY <2>1, WordOfBits
  <2>6. Low(w)[n + 1] = Low(w)[n] + Worth(w, n)
    BY <2>1, LowAt
  <2>7. /\ q % 2 = 0 => v = (Low(w)[n] + 0) + (2 * Pow[n]) * (q \div 2)
        /\ q % 2 # 0 => v = (Low(w)[n] + Pow[n]) + (2 * Pow[n]) * (q \div 2)
    <3> HIDE DEF q, w
    <3>1. SplitAt(v, Low(w)[n], Pow[n], q)
      BY <2>2, <2>3, <2>4, DigitStep
    <3> QED BY <3>1, Zenon DEF SplitAt
  <2>8. q % 2 = 0 \/ q % 2 = 1
    BY <2>3
  <2> HIDE DEF q, w
  <2>9. (q % 2 = 0 => Worth(w, n) = 0) /\ (q % 2 = 1 => Worth(w, n) = Pow[n])
    <3>1. (q % 2 = 0 => n \notin w) /\ (q % 2 = 1 => n \in w)
      BY <2>5
    <3>2. (n \in w => Worth(w, n) = Pow[n]) /\ (n \notin w => Worth(w, n) = 0)
      BY WorthIs, Zenon
    <3> QED BY <3>1, <3>2, Zenon
  <2>10. v = Low(w)[n + 1] + Pow[n + 1] * (q \div 2)
    <3>1. CASE q % 2 = 0
      BY <3>1, <2>2, <2>6, <2>7, <2>9
    <3>2. CASE q % 2 = 1
      BY <3>2, <2>2, <2>6, <2>7, <2>9
    <3> QED BY <2>8, <3>1, <3>2
  <2> QED BY <2>1, <2>3, <2>10
<1>3. 0 .. 31 \subseteq S
  <2> HIDE DEF S
  <2> QED BY <1>1, <1>2, BoundedInduct
<1> QED BY <1>0, <1>3

LEMMA SignedWordOf == ASSUME NEW v \in TMin .. TMax PROVE Signed(WordOf(v)) = v
<1> DEFINE w == WordOf(v)
<1>1. Pow[31] \in Nat /\ Pow[31] > 0 /\ TMin = 0 - Pow[31] /\ TMax = Pow[31] - 1
  BY Powers
<1>2. v \in Int /\ 0 - Pow[31] <= v /\ v < Pow[31]
  BY <1>1
<1>3. v = Low(w)[31] + Pow[31] * (v \div Pow[31]) /\ Low(w)[31] \in Nat
  BY <1>2, LowWordOf, LowAt
<1>4. w \in Word /\ (31 \in w <=> v < 0)
  BY <1>2, WordOfWord, WordOfBits
<1> HIDE DEF w
<1>5. CASE v < 0
  <2>1. v \div Pow[31] = 0 - 1
    <3>1. Pow[31] * (0 - 1) <= v /\ v < Pow[31] * (0 - 1) + Pow[31]
      BY <1>1, <1>2, <1>5
    <3> QED BY <1>1, <1>2, <3>1, DivIs
  <2>2. v = Low(w)[31] - Pow[31]
    BY <1>1, <1>3, <2>1
  <2>3. Signed(w) = Low(w)[31] - Pow[31]
    BY <1>4, <1>5, SignedLow
  <2> QED BY <2>2, <2>3 DEF w
<1>6. CASE v >= 0
  <2>1. v \div Pow[31] = 0
    <3>1. Pow[31] * 0 <= v /\ v < Pow[31] * 0 + Pow[31]
      BY <1>1, <1>2, <1>6
    <3> QED BY <1>1, <1>2, <3>1, DivIs
  <2>2. v = Low(w)[31] - 0
    BY <1>1, <1>3, <2>1
  <2>3. Signed(w) = Low(w)[31] - 0
    <3>1. 31 \notin w
      BY <1>2, <1>4, <1>6
    <3> QED BY <1>4, <3>1, SignedLow
  <2> QED BY <2>2, <2>3 DEF w
<1> QED BY <1>2, <1>5, <1>6

LEMMA WordOfSigned == ASSUME NEW x \in Word PROVE WordOf(Signed(x)) = x
<1>1. Signed(x) \in TMin .. TMax
  BY SignedLow
<1>2. Signed(WordOf(Signed(x))) = Signed(x)
  BY <1>1, SignedWordOf
<1> QED BY <1>2, WordOfWord, SignedDecides

(* Addition: the lowest n bits of the sum and the carry into bit n make the *)
(* sum of the lowest n bits.                                                *)
CarryOut(x, y, n) ==
    \E j \in x \cap y : j < n /\ \A k \in (j + 1) .. (n - 1) : k \in x \cup y
Majority(p, q, r) == (p /\ q) \/ (r /\ (p \/ q))

LEMMA CarryNext ==
    ASSUME NEW x \in Word, NEW y \in Word, NEW n \in 0 .. 31
    PROVE  /\ ~CarryOut(x, y, 0)
           /\ CarryOut(x, y, n + 1) <=> Majority(n \in x, n \in y, CarryOut(x, y, n))
           /\ n \in Carry(x, y) <=> CarryOut(x, y, n)
<1>1. \A j \in x \cap y : j \in 0 .. 31
  BY DEF Word, Bit
<1>2. ~CarryOut(x, y, 0)
  BY <1>1 DEF CarryOut
<1>3. ASSUME CarryOut(x, y, n + 1) PROVE Majority(n \in x, n \in y, CarryOut(x, y, n))
  <2>1. PICK j \in x \cap y : j < n + 1 /\ \A k \in (j + 1) .. ((n + 1) - 1) : k \in x \cup y
    BY <1>3 DEF CarryOut
  <2>2. CASE j = n
    BY <2>1, <2>2 DEF Majority
  <2>3. CASE j # n
    <3>1. j < n /\ n \in (j + 1) .. ((n + 1) - 1) /\ \A k \in (j + 1) .. (n - 1) : k \in (j + 1) .. ((n + 1) - 1)
      BY <1>1, <2>1, <2>3
    <3>2. CarryOut(x, y, n) /\ n \in x \cup y
      BY <2>1, <3>1 DEF CarryOut
    <3> QED BY <3>2 DEF Majority
  <2> QED BY <2>2, <2>3
<1>4. ASSUME Majority(n \in x, n \in y, CarryOut(x, y, n)) PROVE CarryOut(x, y, n + 1)
  <2>1. CASE n \in x /\ n \in y
    <3>1. n < n + 1 /\ \A k \in (n + 1) .. ((n + 1) - 1) : k \in x \cup y
      OBVIOUS
    <3> QED BY <2>1, <3>1 DEF CarryOut
  <2>2. CASE CarryOut(x, y, n) /\ n \in x \cup y
    <3>1. PICK j \in x \cap y : j < n /\ \A k \in (j + 1) .. (n - 1) : k \in x \cup y
      BY <2>2 DEF CarryOut
    <3>2. j < n + 1 /\ \A k \in (j + 1) .. ((n + 1) - 1) : k = n \/ k \in (j + 1) .. (n - 1)
      BY <1>1, <3>1
    <3> QED BY <2>2, <3>1, <3>2 DEF CarryOut
  <2> QED BY <1>4, <2>1, <2>2 DEF Majority
<1>5. n \in Carry(x, y) <=> CarryOut(x, y, n)
  BY DEF Carry, CarryOut, Bit
<1> QED BY <1>2, <1>3, <1>4, <1>5

LEMMA FullAdder ==
    ASSUME NEW n \in Bit, NEW x, NEW y, NEW c, NEW z,
           n \in z <=> ~((~(n \in x <=> n \in y)) <=> n \in c),
           n + 1 \in c <=> Majority(n \in x, n \in y, n \in c)
    PROVE  Worth(z, n) + Worth(c, n + 1) = Worth(x, n) + Worth(y, n) + Worth(c, n)
<1>1. Pow[n] \in Nat /\ Pow[n + 1] = 2 * Pow[n]
  BY Powers DEF Bit
<1>2. \A w, k : (k \in w => Worth(w, k) = Pow[k]) /\ (k \notin w => Worth(w, k) = 0)
  BY WorthIs, Zenon
<1>3. CASE n \in x /\ n \in y /\ n \in c
  <2>1. /\ Worth(z, n) = Pow[n] /\ Worth(c, n + 1) = Pow[n + 1] /\ Worth(x, n) = Pow[n]
        /\ Worth(y, n) = Pow[n] /\ Worth(c, n) = Pow[n]
    BY <1>2, <1>3, Zenon DEF Majority
  <2> QED BY <1>1, <2>1
<1>4. CASE n \in x /\ n \in y /\ n \notin c
  <2>1. /\ Worth(z, n) = 0 /\ Worth(c, n + 1) = Pow[n + 1] /\ Worth(x, n) = Pow[n]
        /\ Worth(y, n) = Pow[n] /\ Worth(c, n) = 0
    BY <1>2, <1>4, Zenon DEF Majority
  <2> QED BY <1>1, <2>1
<1>5. CASE n \in x /\ n \notin y /\ n \in c
  <2>1. /\ Worth(z, n) = 0 /\ Worth(c, n + 1) = Pow[n + 1] /\ Worth(x, n) = Pow[n]
        /\ Worth(y, n) = 0 /\ Worth(c, n) = Pow[n]
    BY <1>2, <1>5, Zenon DEF Majority
  <2> QED BY <1>1, <2>1
<1>6. CASE n \in x /\ n \notin y /\ n \notin c
  <2>1. /\ Worth(z, n) = Pow[n] /\ Worth(c, n + 1) = 0 /\ Worth(x, n) = Pow[n]
        /\ Worth(y, n) = 0 /\ Worth(c, n) = 0
    BY <1>2, <1>6, Zenon DEF Majority
  <2> QED BY <1>1, <2>1
<1>7. CASE n \notin x /\ n \in y /\ n \in c
  <2>1. /\ Worth(z, n) = 0 /\ Worth(c, n + 1) = Pow[n + 1] /\ Worth(x, n) = 0
        /\ Worth(y, n) = Pow[n] /\ Worth(c, n) = Pow[n]
    BY <1>2, <1>7, Zenon DEF Majority
  <2> QED BY <1>1, <2>1
<1>8. CASE n \notin x /\ n \in y /\ n \notin c
  <2>1. /\ Worth(z, n) = Pow[n] /\ Worth(c, n + 1) = 0 /\ Worth(x, n) = 0
        /\ Worth(y, n) = Pow[n] /\ Worth(c, n) = 0
    BY <1>2, <1>8, Zenon DEF Majority
  <2> QED BY <1>1, <2>1
<1>9. CASE n \notin x /\ n \notin y /\ n \in c
  <2>1. /\ Worth(z, n) = Pow[n] /\ Worth(c, n + 1) = 0 /\ Worth(x, n) = 0
        /\ Worth(y, n) = 0 /\ Worth(c, n) = Pow[n]
    BY <1>2, <1>9, Zenon DEF Majority
  <2> QED BY <1>1, <2>1
<1>10. CASE n \notin x /\ n \notin y /\ n \notin c
  <2>1. /\ Worth(z, n) = 0 /\ Worth(c, n + 1) = 0 /\ Worth(x, n) = 0
        /\ Worth(y, n) = 0 /\ Worth(c, n) = 0
    BY <1>2, <1>10, Zenon DEF Majority
  <2> QED BY <1>1, <2>1
<1> QED BY <1>3, <1>4, <1>5, <1>6, <1>7, <1>8, <1>9, <1>10

LEMMA SumStep ==
    \A a, b, s, c, d, e, f, g \in Int :
        s + c = a + b /\ d + e = f + g + c => (s + d) + e = (a + f) + (b + g)
OBVIOUS

Carries(x, y) == {n \in 0 .. 32 : CarryOut(x, y, n)}

LEMMA LowAdd ==
    ASSUME NEW x \in Word, NEW y \in Word
    PROVE  \A n \in 0 .. 32 : Low(Add(x, y))[n] + Worth(Carries(x, y), n) = Low(x)[n] + Low(y)[n]
<1> DEFINE z == Add(x, y)
           c == Carries(x, y)
           S == {n \in 0 .. 32 : Low(z)[n] + Worth(c, n) = Low(x)[n] + Low(y)[n]}
<1>0. ASSUME NEW n \in 0 .. 32 PROVE n \in c <=> CarryOut(x, y, n)
  BY DEF Carries
<1>1. 0 \in S
  <2>1. 0 \notin c
    BY CarryNext DEF Carries
  <2>2. Low(z)[0] = 0 /\ Low(x)[0] = 0 /\ Low(y)[0] = 0 /\ Worth(c, 0) = 0
    <3> HIDE DEF z, c
    <3>1. Worth(c, 0) = 0
      BY <2>1, WorthIs, Zenon
    <3> QED BY <3>1, LowAt, Zenon
  <2> HIDE DEF z, c
  <2> QED BY <2>2
<1>2. ASSUME NEW n \in 0 .. 32, n \in S, n < 32 PROVE n + 1 \in S
  <2>1. n \in Bit /\ n \in 0 .. 31 /\ n + 1 \in 0 .. 32
    BY <1>2 DEF Bit
  <2>2. n + 1 \in c <=> Majority(n \in x, n \in y, n \in c)
    <3>1. (n + 1 \in c <=> CarryOut(x, y, n + 1)) /\ (n \in c <=> CarryOut(x, y, n))
      BY <1>0, <2>1
    <3>2. CarryOut(x, y, n + 1) <=> Majority(n \in x, n \in y, CarryOut(x, y, n))
      BY <2>1, CarryNext
    <3> QED BY <3>1, <3>2 DEF Majority
  <2>3. n \in z <=> ~((~(n \in x <=> n \in y)) <=> n \in c)
    <3>1. (n \in Carry(x, y) <=> CarryOut(x, y, n)) /\ (n \in c <=> CarryOut(x, y, n))
      BY <1>0, <2>1, CarryNext
    <3> HIDE DEF c
    <3> QED BY <3>1 DEF Add, Xor
  <2> HIDE DEF z, c
  <2>5. Worth(z, n) + Worth(c, n + 1) = Worth(x, n) + Worth(y, n) + Worth(c, n)
    BY <2>1, <2>2, <2>3, FullAdder
  <2>6. Low(z)[n] + Worth(c, n) = Low(x)[n] + Low(y)[n]
    BY <1>2
  <2>7. \A w : Low(w)[n] \in Int /\ Low(w)[n + 1] = Low(w)[n] + Worth(w, n)
    BY <2>1, LowAt
  <2>8. \A w, m : m \in 0 .. 32 => Worth(w, m) \in Int
    <3>1. \A w, m : m \in 0 .. 32 => Pow[m] \in Int /\ 0 \in Int
      BY Powers
    <3>2. \A w, m : Worth(w, m) = Pow[m] \/ Worth(w, m) = 0
      BY WorthIs, Zenon
    <3> QED BY <3>1, <3>2, Zenon
  <2>9. Low(z)[n + 1] + Worth(c, n + 1) = Low(x)[n + 1] + Low(y)[n + 1]
    BY <2>1, <2>5, <2>6, <2>7, <2>8, SumStep
  <2> QED BY <2>1, <2>9
<1>3. 0 .. 32 \subseteq S
  <2> HIDE DEF S
  <2> QED BY <1>1, <1>2, BoundedInduct
<1> QED BY <1>3

(* Sums are right modulo 2^32.                                              *)
Congruent(s, t) == \E k \in Int : s = t + k * Pow[32]

LEMMA CongruentRules ==
    ASSUME NEW r \in Int, NEW s \in Int, NEW t \in Int
    PROVE  /\ Congruent(s, s)
           /\ Congruent(s, t) => Congruent(t, s)
           /\ Congruent(r, s) /\ Congruent(s, t) => Congruent(r, t)
           /\ Congruent(s, t) => Congruent(r + s, r + t) /\ Congruent(s + r, t + r)
<1> DEFINE P == Pow[32]
<1>1. P \in Int
  BY Powers
<1> HIDE DEF P
<1>2. \A a, b : Congruent(a, b) <=> \E k \in Int : a = b + k * P
  BY DEF P, Congruent
<1>3. Congruent(s, s)
  <2>1. 0 \in Int /\ s = s + 0 * P
    BY <1>1
  <2> QED BY <1>2, <2>1
<1>4. ASSUME Congruent(s, t) PROVE Congruent(t, s) /\ Congruent(r + s, r + t) /\ Congruent(s + r, t + r)
  <2>1. PICK k \in Int : s = t + k * P
    BY <1>2, <1>4
  <2>2. 0 - k \in Int /\ t = s + (0 - k) * P
    BY <1>1, <2>1
  <2>3. r + s = (r + t) + k * P /\ s + r = (t + r) + k * P
    BY <1>1, <2>1
  <2> QED BY <1>2, <2>2, <2>3
<1>5. ASSUME Congruent(r, s), Congruent(s, t) PROVE Congruent(r, t)
  <2>1. PICK k \in Int : r = s + k * P
    BY <1>2, <1>5
  <2>2. PICK l \in Int : s = t + l * P
    BY <1>2, <1>5
  <2>3. k + l \in Int /\ r = t + (k + l) * P
    BY <1>1, <2>1, <2>2
  <2> QED BY <1>2, <2>3
<1> QED BY <1>3, <1>4, <1>5

LEMMA CongruentAdd ==
    ASSUME NEW s \in Int, NEW t \in Int, Congruent(s, t), NEW r \in Int
    PROVE  Congruent(r + s, r + t) /\ Congruent(s + r, t + r)
BY CongruentRules

(* What is congruent to t as an int, when t is at most one turn away.       *)
LEMMA Wrapped ==
    ASSUME NEW s \in TMin .. TMax, NEW t \in Int, Congruent(s, t),
           0 - Pow[32] <= t, t <= Pow[32]
    PROVE  /\ t \in TMin .. TMax => s = t
           /\ t < TMin => s = t + Pow[32]
           /\ t > TMax => s = t - Pow[32]
<1> DEFINE P == Pow[31]
           Q == Pow[32]
<1>1. P \in Nat /\ P > 0 /\ Q = 2 * P /\ TMin = 0 - P /\ TMax = P - 1
  BY Powers
<1>2. PICK k \in Int : s = t + k * Q
  BY DEF Congruent
<1>3. s \in Int /\ 0 - P <= s /\ s <= P - 1 /\ 0 - Q <= t /\ t <= Q
  BY <1>1
<1> HIDE DEF P, Q
<1>4. k = 0 \/ k = 1 \/ k = 0 - 1
  <2>1. CASE k >= 2
    <3>1. k * Q >= 2 * Q
      BY <1>1, <2>1
    <3> QED BY <1>1, <1>2, <1>3, <3>1
  <2>2. CASE k <= 0 - 2
    <3>1. k * Q <= (0 - 2) * Q
      BY <1>1, <2>2
    <3> QED BY <1>1, <1>2, <1>3, <3>1
  <2> QED BY <2>1, <2>2
<1>5. s = t \/ s = t + Q \/ s = t - Q
  BY <1>1, <1>2, <1>4
<1>6. Q = Pow[32]
  BY DEF Q
<1>7. /\ t \in (0 - P) .. (P - 1) => s = t
      /\ t < 0 - P => s = t + Q
      /\ t > P - 1 => s = t - Q
  BY <1>1, <1>3, <1>5
<1> QED BY <1>1, <1>6, <1>7, Zenon

LEMMA SignedLow32 ==
    ASSUME NEW x \in Word
    PROVE  Signed(x) \in Int /\ Low(x)[32] \in Nat /\ Congruent(Signed(x), Low(x)[32])
<1>1. 31 \in Bit /\ 31 + 1 = 32
  BY DEF Bit
<1>2. /\ Low(x)[32] = Low(x)[31] + Worth(x, 31) /\ Low(x)[31] \in Nat /\ Low(x)[32] \in Nat
      /\ (31 \in x => Worth(x, 31) = Pow[31]) /\ (31 \notin x => Worth(x, 31) = 0)
  <2>1. Low(x)[31 + 1] = Low(x)[31] + Worth(x, 31)
    BY <1>1, LowAt
  <2>2. (31 \in x => Worth(x, 31) = Pow[31]) /\ (31 \notin x => Worth(x, 31) = 0)
    BY WorthIs, Zenon
  <2>3. Low(x)[31] \in Nat /\ Low(x)[32] \in Nat
    BY LowAt
  <2> QED BY <1>1, <2>1, <2>2, <2>3
<1>3. Pow[31] \in Nat /\ Pow[32] = 2 * Pow[31]
  BY Powers
<1>4. CASE 31 \in x
  <2>1. Signed(x) = Low(x)[31] - Pow[31]
    BY <1>4, SignedLow
  <2>2. 0 - 1 \in Int /\ Signed(x) = Low(x)[32] + (0 - 1) * Pow[32] /\ Signed(x) \in Int
    BY <1>2, <1>3, <1>4, <2>1
  <2> QED BY <1>2, <2>2 DEF Congruent
<1>5. CASE 31 \notin x
  <2>1. Signed(x) = Low(x)[31] - 0
    BY <1>5, SignedLow
  <2>2. 0 \in Int /\ Signed(x) = Low(x)[32] + 0 * Pow[32] /\ Signed(x) \in Int
    BY <1>2, <1>3, <1>5, <2>1
  <2> QED BY <1>2, <2>2 DEF Congruent
<1> QED BY <1>4, <1>5

LEMMA SignedAdd ==
    ASSUME NEW x \in Word, NEW y \in Word
    PROVE  Congruent(Signed(Add(x, y)), Signed(x) + Signed(y))
<1> DEFINE z == Add(x, y)
           c == Carries(x, y)
<1>1. z \in Word
  BY WordOperators
<1>2. Low(z)[32] + Worth(c, 32) = Low(x)[32] + Low(y)[32]
  BY LowAdd
<1> HIDE DEF z, c
<1>3. Worth(c, 32) = Pow[32] \/ Worth(c, 32) = 0
  BY WorthIs, Zenon
<1>4. Low(z)[32] \in Int /\ Low(x)[32] \in Int /\ Low(y)[32] \in Int /\ Pow[32] \in Int
  BY LowAt, Powers
<1>5. Congruent(Low(z)[32], Low(x)[32] + Low(y)[32])
  <2>1. CASE Worth(c, 32) = Pow[32]
    <3>1. Low(z)[32] = (Low(x)[32] + Low(y)[32]) + (0 - 1) * Pow[32] /\ 0 - 1 \in Int
      BY <1>2, <1>4, <2>1
    <3> QED BY <3>1 DEF Congruent
  <2>2. CASE Worth(c, 32) = 0
    <3>1. Low(z)[32] = (Low(x)[32] + Low(y)[32]) + 0 * Pow[32] /\ 0 \in Int
      BY <1>2, <1>4, <2>2
    <3> QED BY <3>1 DEF Congruent
  <2> QED BY <1>3, <2>1, <2>2
<1> DEFINE X == Signed(x)  Y == Signed(y)  Z == Signed(z)
           A == Low(x)[32]  B == Low(y)[32]  C == Low(z)[32]
<1>6. /\ X \in Int /\ Y \in Int /\ Z \in Int /\ A \in Int /\ B \in Int /\ C \in Int
      /\ Congruent(X, A) /\ Congruent(Y, B) /\ Congruent(Z, C) /\ Congruent(C, A + B)
  BY <1>1, <1>4, <1>5, SignedLow32
<1> HIDE DEF X, Y, Z, A, B, C
<1>7. X + Y \in Int /\ A + Y \in Int /\ A + B \in Int
  BY <1>6
<1>8. Congruent(A, X) /\ Congruent(B, Y)
  BY <1>6, CongruentRules
<1>9. Congruent(A + B, A + Y) /\ Congruent(A + Y, X + Y)
  BY <1>6, <1>8, CongruentRules
<1>10. Congruent(A + B, X + Y) /\ Congruent(Z, A + B)
  <2>1. Congruent(A + B, X + Y)
    BY <1>7, <1>9, CongruentRules
  <2>2. Congruent(Z, A + B)
    BY <1>6, <1>7, CongruentRules
  <2> QED BY <2>1, <2>2
<1>11. Congruent(Z, X + Y)
  BY <1>6, <1>7, <1>10, CongruentRules
<1> QED BY <1>11, Zenon DEF X, Y, Z, z

LEMMA SignedNot ==
    ASSUME NEW x \in Word
    PROVE  Not(x) \in Word /\ Signed(Not(x)) = (0 - 1) - Signed(x)
<1> DEFINE y == Not(x)
           S == {n \in 0 .. 31 : Low(x)[n] + Low(y)[n] = Pow[n] - 1}
<1>1. y \in Word /\ \A n \in Bit : n \in y <=> n \notin x
  BY WordOperators DEF Not
<1> HIDE DEF y
<1>2. 0 \in S
  BY LowAt, Powers
<1>3. ASSUME NEW n \in 0 .. 31, n \in S, n < 31 PROVE n + 1 \in S
  <2>1. n \in Bit /\ n + 1 \in 0 .. 31
    BY <1>3 DEF Bit
  <2>2. \/ Worth(x, n) = Pow[n] /\ Worth(y, n) = 0
        \/ Worth(x, n) = 0 /\ Worth(y, n) = Pow[n]
    BY <1>1, <2>1, WorthIs, Zenon
  <2>3. /\ Low(x)[n] \in Int /\ Low(x)[n + 1] = Low(x)[n] + Worth(x, n)
        /\ Low(y)[n] \in Int /\ Low(y)[n + 1] = Low(y)[n] + Worth(y, n)
    BY <2>1, LowAt
  <2>4. Pow[n] \in Int /\ Pow[n + 1] = 2 * Pow[n]
    BY <2>1, Powers
  <2>5. Low(x)[n] + Low(y)[n] = Pow[n] - 1
    BY <1>3
  <2>6. Low(x)[n + 1] + Low(y)[n + 1] = Pow[n + 1] - 1
    BY <2>2, <2>3, <2>4, <2>5
  <2> QED BY <2>1, <2>6
<1>4. Low(x)[31] + Low(y)[31] = Pow[31] - 1
  <2> HIDE DEF S
  <2>1. 0 .. 31 \subseteq S
    BY <1>2, <1>3, BoundedInduct
  <2> QED BY <2>1 DEF S
<1>5. Low(x)[31] \in Int /\ Low(y)[31] \in Int /\ Pow[31] \in Int /\ 31 \in Bit
  BY LowAt, Powers DEF Bit
<1>6. CASE 31 \in x
  <2>1. Signed(x) = Low(x)[31] - Pow[31] /\ Signed(y) = Low(y)[31] - 0
    BY <1>1, <1>5, <1>6, SignedLow
  <2> QED BY <1>1, <1>4, <1>5, <2>1 DEF y
<1>7. CASE 31 \notin x
  <2>1. Signed(x) = Low(x)[31] - 0 /\ Signed(y) = Low(y)[31] - Pow[31]
    BY <1>1, <1>5, <1>7, SignedLow
  <2> QED BY <1>1, <1>4, <1>5, <2>1 DEF y
<1> QED BY <1>6, <1>7

(* The small words that the puzzles add.                                    *)
LEMMA SignedSingle ==
    ASSUME NEW k \in 0 .. 30
    PROVE  {k} \in Word /\ Signed({k}) = Pow[k] /\ Pow[k] \in Nat
<1>1. {k} \in Word /\ k \in Bit /\ k # 31 /\ k < 31 /\ 31 \in 0 .. 32 /\ k \in 0 .. 32
  BY DEF Word, Bit
<1>2. Low({k})[31] = Pow[k] /\ Pow[k] \in Nat
  BY <1>1, LowSingle, Powers
<1>3. 31 \notin {k}
  BY <1>1
<1>4. Signed({k}) = Low({k})[31] - 0
  BY <1>1, <1>3, SignedLow
<1> QED BY <1>1, <1>2, <1>4

LEMMA SignedZero == {} \in Word /\ Signed({}) = 0
<1>1. {} \in Word /\ 31 \notin {}
  BY DEF Word
<1>2. Low({})[31] = 0
  BY LowEmpty
<1>3. Signed({}) = Low({})[31] - 0
  BY <1>1, SignedLow
<1> QED BY <1>1, <1>2, <1>3

(* Of disjoint words, without the sign.                                     *)
LEMMA SignedUnion ==
    ASSUME NEW x \in Word, NEW y \in Word, x \cap y = {}, 31 \notin x, 31 \notin y
    PROVE  x \cup y \in Word /\ Signed(x \cup y) = Signed(x) + Signed(y)
<1>1. x \cup y \in Word /\ 31 \notin x \cup y
  BY DEF Word
<1>2. Low(x \cup y)[31] = Low(x)[31] + Low(y)[31]
  BY LowUnion
<1>3. /\ Signed(x \cup y) = Low(x \cup y)[31] - 0 /\ Signed(x) = Low(x)[31] - 0
      /\ Signed(y) = Low(y)[31] - 0
  BY <1>1, SignedLow
<1>4. Low(x)[31] \in Int /\ Low(y)[31] \in Int
  BY LowAt
<1> QED BY <1>1, <1>2, <1>3, <1>4

LEMMA Digits ==
    /\ {0} \in Word /\ Signed({0}) = 1
    /\ {4, 5} \in Word /\ Signed({4, 5}) = 48
    /\ {0, 3, 4, 5} \in Word /\ Signed({0, 3, 4, 5}) = 57
<1>1. /\ {0} \in Word /\ Signed({0}) = 1 /\ {3} \in Word /\ Signed({3}) = 8
      /\ {4} \in Word /\ Signed({4}) = 16 /\ {5} \in Word /\ Signed({5}) = 32
  BY SignedSingle, Powers
<1>2. {4} \cup {5} \in Word /\ Signed({4} \cup {5}) = Signed({4}) + Signed({5})
  BY <1>1, SignedUnion
<1>3. {4} \cup {5} = {4, 5}
  OBVIOUS
<1>4. {0} \cup {3} \in Word /\ Signed({0} \cup {3}) = Signed({0}) + Signed({3})
  BY <1>1, SignedUnion
<1>5. {0} \cup {3} = {0, 3} /\ {0, 3} \cap {4, 5} = {} /\ {0, 3} \cup {4, 5} = {0, 3, 4, 5}
  OBVIOUS
<1>6. {4, 5} \in Word /\ Signed({4, 5}) = 48 /\ {0, 3} \in Word /\ Signed({0, 3}) = 9
  BY <1>1, <1>2, <1>3, <1>4, <1>5
<1>7. {0, 3} \cup {4, 5} \in Word /\ Signed({0, 3} \cup {4, 5}) = Signed({0, 3}) + Signed({4, 5})
  BY <1>5, <1>6, SignedUnion
<1> QED BY <1>1, <1>5, <1>6, <1>7

(* x - y as the puzzles compute it.                                         *)
LEMMA SignedMinus ==
    ASSUME NEW x \in Word, NEW y \in Word
    PROVE  /\ Add(Add(x, Not(y)), {0}) \in Word /\ Add(x, negate(y)) \in Word
           /\ Congruent(Signed(Add(Add(x, Not(y)), {0})), Signed(x) - Signed(y))
           /\ Congruent(Signed(Add(x, negate(y))), Signed(x) - Signed(y))
           /\ Congruent(Signed(negate(y)), 0 - Signed(y)) /\ negate(y) \in Word
<1> DEFINE n == Not(y)
           m == negate(y)
           s == Add(x, n)
           t == Add(s, {0})
           u == Add(x, m)
           X == Signed(x)  Y == Signed(y)  N == Signed(n)
           M == Signed(m)  S == Signed(s)  T == Signed(t)  U == Signed(u)
<1>1. n \in Word /\ m \in Word /\ s \in Word /\ t \in Word /\ u \in Word /\ {0} \in Word
  BY WordOperators, Digits
<1>2. X \in Int /\ Y \in Int /\ N \in Int /\ M \in Int /\ S \in Int /\ T \in Int /\ U \in Int
  <2> HIDE DEF n, m, s, t, u
  <2> QED BY <1>1, SignedLow32
<1>3. N = (0 - 1) - Y
  BY SignedNot
<1>4. Congruent(M, N + Signed({0}))
  BY <1>1, SignedAdd DEF negate
<1>5. Congruent(S, X + N) /\ Congruent(U, X + M)
  <2> HIDE DEF n, m
  <2> QED BY <1>1, SignedAdd
<1>6. Congruent(T, S + Signed({0}))
  <2> HIDE DEF s
  <2> QED BY <1>1, SignedAdd
<1>7. Signed({0}) = 1
  BY Digits
<1> HIDE DEF X, Y, N, M, S, T, U, n, m, s, t, u
<1>8. Congruent(M, N + 1) /\ Congruent(T, S + 1)
  BY <1>4, <1>6, <1>7
<1>9. N + 1 = 0 - Y /\ (X + N) + 1 = X - Y /\ X + (N + 1) = X - Y
  BY <1>2, <1>3
<1>10. Congruent(S + 1, X - Y) /\ Congruent(X + M, X - Y)
  <2>1. X + N \in Int /\ N + 1 \in Int
    BY <1>2
  <2>2. Congruent(S + 1, (X + N) + 1)
    BY <1>2, <1>5, <2>1, CongruentAdd
  <2>3. Congruent(X + M, X + (N + 1))
    BY <1>2, <1>8, <2>1, CongruentAdd
  <2> QED BY <1>9, <2>2, <2>3
<1>11. S + 1 \in Int /\ X - Y \in Int /\ X + M \in Int
  BY <1>2
<1>12. Congruent(T, X - Y)
  BY <1>2, <1>8, <1>10, <1>11, CongruentRules
<1>13. Congruent(U, X - Y)
  BY <1>2, <1>5, <1>10, <1>11, CongruentRules
<1>14. Congruent(M, 0 - Y)
  BY <1>8, <1>9
<1> QED BY <1>1, <1>12, <1>13, <1>14, Zenon DEF X, Y, M, T, U, n, m, s, t, u

(* negate: what the reference computes, an int.                             *)
THEOREM NegateIs == \A x \in Word : negate(x) = test_negate(x)
<1> SUFFICES ASSUME NEW x \in Word PROVE negate(x) = test_negate(x)
  OBVIOUS
<1> DEFINE X == Signed(x)
           M == Signed(negate(x))
<1>1. /\ X \in TMin .. TMax /\ M \in TMin .. TMax /\ negate(x) \in Word
      /\ Congruent(M, 0 - X)
  BY SignedMinus, SignedLow
<1>2. TMin = 0 - Pow[31] /\ TMax = Pow[31] - 1 /\ Pow[32] = 2 * Pow[31] /\ Pow[31] \in Nat /\ Pow[31] > 0
  BY Powers
<1>3. Sign \in Word /\ Signed(Sign) = TMin
  <2>1. Sign \in Word /\ 31 \in Sign
    BY DEF Sign, Word, Bit
  <2>2. Low(Sign)[31] = 0
    <3>1. 31 \in Bit /\ 31 \in 0 .. 32 /\ ~(31 < 31)
      BY DEF Bit
    <3>2. Low({31})[31] = IF 31 < 31 THEN Pow[31] ELSE 0
      BY <3>1, LowSingle
    <3> QED BY <3>1, <3>2 DEF Sign
  <2>3. Signed(Sign) = Low(Sign)[31] - Pow[31]
    BY <2>1, SignedLow
  <2> QED BY <1>2, <2>1, <2>2, <2>3
<1>4. CASE x = Sign
  <2>1. X = TMin
    BY <1>3, <1>4
  <2>2. 0 - X \in Int /\ 0 - Pow[32] <= 0 - X /\ 0 - X <= Pow[32] /\ 0 - X > TMax
    BY <1>2, <2>1
  <2>3. M = (0 - X) - Pow[32]
    BY <1>1, <2>2, Wrapped
  <2>4. M = TMin
    BY <1>2, <2>1, <2>3
  <2>5. negate(x) = Sign
    BY <1>1, <1>3, <2>4, SignedDecides
  <2> QED BY <1>4, <2>5 DEF test_negate
<1>5. CASE x # Sign
  <2>1. X # TMin
    BY <1>3, <1>5, SignedDecides
  <2> HIDE DEF X, M
  <2>2. /\ 0 - X \in Int /\ 0 - Pow[32] <= 0 - X /\ 0 - X <= Pow[32]
        /\ 0 - X \in TMin .. TMax
    BY <1>1, <1>2, <2>1
  <2>3. M = 0 - X
    BY <1>1, <2>2, Wrapped
  <2>4. -X = 0 - X
    BY <1>1, <1>2
  <2>5. WordOf(M) = negate(x)
    BY <1>1, WordOfSigned DEF M
  <2>6. WordOf(-X) = negate(x)
    BY <2>3, <2>4, <2>5
  <2> QED BY <1>5, <2>6, Zenon DEF test_negate, X
<1> QED BY <1>4, <1>5

(* isAsciiDigit: neither difference with a bound is negative.  A difference *)
(* that overflows turns one of them negative all the same.                  *)
THEOREM IsAsciiDigitRight == \A x \in Word : isAsciiDigit(x) = test_isAsciiDigit(x)
<1> SUFFICES ASSUME NEW x \in Word PROVE isAsciiDigit(x) = test_isAsciiDigit(x)
  OBVIOUS
<1> DEFINE l == Add(Add(x, Not({4, 5})), {0})
           u == Add(Add({0, 3, 4, 5}, Not(x)), {0})
           X == Signed(x)
           L == Signed(l)
           U == Signed(u)
<1>1. /\ l \in Word /\ u \in Word /\ Congruent(L, X - 48) /\ Congruent(U, 57 - X)
  <2>1. /\ {4, 5} \in Word /\ Signed({4, 5}) = 48
        /\ {0, 3, 4, 5} \in Word /\ Signed({0, 3, 4, 5}) = 57
    BY Digits
  <2>2. l \in Word /\ Congruent(L, X - Signed({4, 5}))
    BY <2>1, SignedMinus
  <2>3. u \in Word /\ Congruent(U, Signed({0, 3, 4, 5}) - X)
    BY <2>1, SignedMinus
  <2> HIDE DEF l, u, X, L, U
  <2> QED BY <2>1, <2>2, <2>3
<1>2. /\ X \in TMin .. TMax /\ L \in TMin .. TMax /\ U \in TMin .. TMax
      /\ (31 \in l <=> L < 0) /\ (31 \in u <=> U < 0)
  <2> HIDE DEF l, u
  <2> QED BY <1>1, SignedLow
<1>3. isAsciiDigit(x) = Bang(Sar(l \cup u, 31))
  BY DEF isAsciiDigit
<1>4. test_isAsciiDigit(x) = IF X \in 48 .. 57 THEN {0} ELSE {}
  BY DEF test_isAsciiDigit
<1> HIDE DEF l, u, X, L, U
<1>5. TMin = 0 - Pow[31] /\ TMax = Pow[31] - 1 /\ Pow[32] = 2 * Pow[31] /\ Pow[31] \in Nat /\ Pow[31] > 1000
  BY Powers
<1>6. /\ X - 48 \in Int /\ 0 - Pow[32] <= X - 48 /\ X - 48 <= Pow[32]
      /\ 57 - X \in Int /\ 0 - Pow[32] <= 57 - X /\ 57 - X <= Pow[32]
  BY <1>2, <1>5
<1>7. /\ X - 48 \in TMin .. TMax => L = X - 48
      /\ X - 48 < TMin => L = (X - 48) + Pow[32]
      /\ 57 - X \in TMin .. TMax => U = 57 - X
      /\ 57 - X > TMax => U = (57 - X) - Pow[32]
  BY <1>1, <1>2, <1>6, Wrapped
<1>8. L < 0 \/ U < 0 <=> X \notin 48 .. 57
  BY <1>2, <1>5, <1>7
<1>9. Sar(l \cup u, 31) = IF X \in 48 .. 57 THEN {} ELSE Bit
  <2>1. l \cup u \in Word /\ (31 \in l \cup u <=> X \notin 48 .. 57)
    BY <1>1, <1>2, <1>8 DEF Word
  <2> HIDE DEF Bit
  <2> QED BY <2>1, SignShift, Zenon
<1>10. Bit # {}
  BY DEF Bit
<1> QED BY <1>3, <1>4, <1>9, <1>10, Zenon DEF Bang

(* isLessOrEqual: the difference decides if the signs are equal, and then   *)
(* it does not overflow.                                                    *)
THEOREM IsLessOrEqualRight ==
    \A x, y \in Word : isLessOrEqual(x, y) = test_isLessOrEqual(x, y)
<1> SUFFICES ASSUME NEW x \in Word, NEW y \in Word
             PROVE  isLessOrEqual(x, y) = test_isLessOrEqual(x, y)
  OBVIOUS
<1> DEFINE d == Add(y, negate(x))
           X == Signed(x)
           Y == Signed(y)
           D == Signed(d)
<1>1. d \in Word /\ Congruent(D, Y - X)
  BY SignedMinus
<1>2. /\ X \in TMin .. TMax /\ Y \in TMin .. TMax /\ D \in TMin .. TMax
      /\ (31 \in x <=> X < 0) /\ (31 \in y <=> Y < 0) /\ (31 \in d <=> D < 0)
  <2> HIDE DEF d
  <2> QED BY <1>1, SignedLow
<1>3. isLessOrEqual(x, y) = (Bang(Xor(Sar(x, 31), Sar(y, 31))) \cap Bang(Sar(d, 31)))
                                \cup (Sar(x, 31) \cap Bang(Sar(y, 31)))
  BY DEF isLessOrEqual
<1>4. test_isLessOrEqual(x, y) = IF X <= Y THEN {0} ELSE {}
  BY DEF test_isLessOrEqual
<1>5. /\ Sar(x, 31) = (IF 31 \in x THEN Bit ELSE {}) /\ Sar(y, 31) = (IF 31 \in y THEN Bit ELSE {})
      /\ Sar(d, 31) = (IF 31 \in d THEN Bit ELSE {})
  BY <1>1, SignShift, Zenon
<1> HIDE DEF d, X, Y, D
<1>6. TMin = 0 - Pow[31] /\ TMax = Pow[31] - 1 /\ Pow[32] = 2 * Pow[31] /\ Pow[31] \in Nat /\ Pow[31] > 1000
  BY Powers
<1>7. Y - X \in Int /\ 0 - Pow[32] <= Y - X /\ Y - X <= Pow[32]
  BY <1>2, <1>6
<1>8. Y - X \in TMin .. TMax => D = Y - X
  BY <1>1, <1>2, <1>7, Wrapped
<1>9. 0 \in Bit /\ Bit # {}
  BY DEF Bit
<1>10. CASE 31 \in x /\ 31 \in y
  <2>1. D < 0 <=> ~(X <= Y)
    BY <1>2, <1>6, <1>8, <1>10
  <2>2. isLessOrEqual(x, y) = IF 31 \in d THEN {} ELSE {0}
    <3> HIDE DEF Bit
    <3> QED BY <1>3, <1>5, <1>9, <1>10 DEF Bang, Xor
  <2> QED BY <1>2, <1>4, <2>1, <2>2
<1>11. CASE 31 \notin x /\ 31 \notin y
  <2>1. D < 0 <=> ~(X <= Y)
    BY <1>2, <1>6, <1>8, <1>11
  <2>2. isLessOrEqual(x, y) = IF 31 \in d THEN {} ELSE {0}
    <3> HIDE DEF Bit
    <3> QED BY <1>3, <1>5, <1>9, <1>11 DEF Bang, Xor
  <2> QED BY <1>2, <1>4, <2>1, <2>2
<1>12. CASE 31 \in x /\ 31 \notin y
  <2>1. X <= Y
    BY <1>2, <1>6, <1>12
  <2>2. isLessOrEqual(x, y) = {0}
    <3> HIDE DEF Bit
    <3> QED BY <1>3, <1>5, <1>9, <1>12 DEF Bang, Xor
  <2> QED BY <1>4, <2>1, <2>2
<1>13. CASE 31 \notin x /\ 31 \in y
  <2>1. ~(X <= Y)
    BY <1>2, <1>6, <1>13
  <2>2. isLessOrEqual(x, y) = {}
    <3> HIDE DEF Bit
    <3> QED BY <1>3, <1>5, <1>9, <1>13 DEF Bang, Xor
  <2> QED BY <1>4, <2>1, <2>2
<1> QED BY <1>10, <1>11, <1>12, <1>13

(* The highest bit of a word.                                               *)
Top(x, m) == m \in x /\ \A k \in x : k <= m

LEMMA Highest == ASSUME NEW x \in Word, x # {} PROVE \E m \in x : Top(x, m)
<1> DEFINE y == {k \in Bit : 31 - k \in x}
<1>1. \A k \in x : k \in 0 .. 31 /\ 31 - k \in Bit /\ 31 - (31 - k) = k
  BY DEF Word, Bit
<1>2. \A k \in x : 31 - k \in y
  BY <1>1
<1>3. y \in Word /\ y # {}
  BY <1>2 DEF Word
<1>4. PICK l \in y : \A k \in Bit : k < l => k \notin y
  BY <1>3, Lowest
<1>5. l \in 0 .. 31 /\ 31 - l \in x
  BY <1>4 DEF Bit
<1>6. ASSUME NEW k \in x PROVE k <= 31 - l
  <2>1. ~(31 - k < l)
    BY <1>1, <1>2, <1>4
  <2> QED BY <1>1, <1>5, <2>1
<1> QED BY <1>5, <1>6 DEF Top

LEMMA TopIs == ASSUME NEW x \in Word, NEW m, Top(x, m)
               PROVE  m \in 0 .. 31 /\ m = CHOOSE k \in x : \A j \in x : j <= k
<1>1. \A k \in x : k \in 0 .. 31
  BY DEF Word, Bit
<1>2. m \in x /\ \A k \in x : k <= m
  BY DEF Top
<1>3. \A k \in x : (\A j \in x : j <= k) => k = m
  BY <1>1, <1>2
<1> QED BY <1>1, <1>2, <1>3

(* One halving: what is left of a word with its first one below 2n.         *)
HalfOf(left, n) == IF Sar(left, n) = {} THEN 0 ELSE n

LEMMA SarPlain ==
    ASSUME NEW x \in Word, 31 \notin x, NEW n \in Bit
    PROVE  Sar(x, n) = {k \in Bit : k + n \in x}
<1>1. SignCopies(x, n) = {}
  BY DEF SignCopies
<1>2. Shr(x, n) = {k \in Bit : k + n \in x}
  BY Zenon DEF Shr
<1> QED BY <1>1, <1>2 DEF Sar

LEMMA HalfTop ==
    ASSUME NEW x \in Word, NEW m, Top(x, m), NEW n \in 1 .. 16, m < 2 * n, m < 31
    PROVE  /\ HalfOf(x, n) = (IF m >= n THEN n ELSE 0)
           /\ Sar(x, HalfOf(x, n)) \in Word /\ Top(Sar(x, HalfOf(x, n)), m - HalfOf(x, n))
           /\ m - HalfOf(x, n) < n /\ m - HalfOf(x, n) < 31
<1>1. m \in x /\ (\A k \in x : k <= m /\ k \in 0 .. 31) /\ m \in 0 .. 30 /\ 31 \notin x
  BY DEF Top, Word, Bit
<1>2. n \in Bit /\ 0 \in Bit
  BY DEF Bit
<1>3. HalfOf(x, n) = IF m >= n THEN n ELSE 0
  <2>1. Sar(x, n) = {k \in Bit : k + n \in x}
    BY <1>1, <1>2, SarPlain
  <2>2. CASE m >= n
    <3>1. m - n \in Bit /\ (m - n) + n = m
      BY <1>1, <2>2 DEF Bit
    <3>2. Sar(x, n) # {}
      BY <1>1, <2>1, <3>1
    <3> QED BY <2>2, <3>2 DEF HalfOf
  <2>3. CASE ~(m >= n)
    <3>1. \A k \in Bit : k + n \notin x
      BY <1>1, <2>3 DEF Bit
    <3> QED BY <2>1, <2>3, <3>1 DEF HalfOf
  <2> QED BY <2>2, <2>3
<1> DEFINE b == HalfOf(x, n)
<1>4. b \in Bit /\ m - b \in 0 .. 30 /\ m - b < n
  BY <1>1, <1>2, <1>3 DEF Bit
<1> HIDE DEF b
<1>5. Sar(x, b) = {k \in Bit : k + b \in x}
  BY <1>1, <1>4, SarPlain
<1>6. m - b \in Bit /\ (m - b) + b = m
  BY <1>1, <1>4 DEF Bit
<1>7. m - b \in Sar(x, b)
  BY <1>1, <1>5, <1>6
<1>8. \A k \in Sar(x, b) : k <= m - b
  BY <1>1, <1>4, <1>5 DEF Bit
<1>9. Sar(x, b) \in Word
  BY <1>5 DEF Word
<1>10. Top(Sar(x, b), m - b) /\ m - b < 31
  BY <1>4, <1>7, <1>8 DEF Top
<1> QED BY <1>3, <1>4, <1>9, <1>10 DEF b

(* howManyBits finds the first one of x, or the first zero of a negative x. *)
THEOREM HowManyBitsRight == \A x \in Word : howManyBits(x) = test_howManyBits(x)
<1> SUFFICES ASSUME NEW x \in Word PROVE howManyBits(x) = test_howManyBits(x)
  OBVIOUS
<1> DEFINE sign == Sar(x, 31)
           x16 == (sign \cap Not(x)) \cup (Not(sign) \cap x)
           b16 == HalfOf(x16, 16)  x8 == Sar(x16, b16)
           b8 == HalfOf(x8, 8)     x4 == Sar(x8, b8)
           b4 == HalfOf(x4, 4)     x2 == Sar(x4, b4)
           b2 == HalfOf(x2, 2)     x1 == Sar(x2, b2)
           b1 == HalfOf(x1, 1)     b0 == Signed(Sar(x1, b1))
           a == IF 31 \in x THEN Not(x) ELSE x
<1>1. howManyBits(x) = WordOf(b16 + b8 + b4 + b2 + b1 + b0 + 1)
  BY Zenon DEF howManyBits, HalfOf
<1>2. x16 = a
  BY SignShift DEF Not, Word
<1>3. a \in Word /\ 31 \notin a
  BY DEF Not, Word, Bit
<1>4. test_howManyBits(x) = WordOf(IF a = {} THEN 1 ELSE 2 + CHOOSE k \in a : \A j \in a : j <= k)
  BY Zenon DEF test_howManyBits
<1>5. CASE a = {}
  <2>1. \A n \in Bit : Sar({}, n) = {}
    BY SarPlain DEF Word
  <2>2. 16 \in Bit /\ 8 \in Bit /\ 4 \in Bit /\ 2 \in Bit /\ 1 \in Bit /\ 0 \in Bit
    BY DEF Bit
  <2>3. \A n \in Bit : HalfOf({}, n) = 0
    BY <2>1 DEF HalfOf
  <2>4. b16 = 0 /\ x8 = {} /\ x16 = {}
    <3> HIDE DEF x16, Bit
    <3> QED BY <1>2, <1>5, <2>1, <2>2, <2>3
  <2> HIDE DEF x8, b16
  <2>5. b8 = 0 /\ x4 = {}
    <3> HIDE DEF Bit
    <3> QED BY <2>1, <2>2, <2>3, <2>4
  <2> HIDE DEF x4, b8
  <2>6. b4 = 0 /\ x2 = {}
    <3> HIDE DEF Bit
    <3> QED BY <2>1, <2>2, <2>3, <2>5
  <2> HIDE DEF x2, b4
  <2>7. b2 = 0 /\ x1 = {}
    <3> HIDE DEF Bit
    <3> QED BY <2>1, <2>2, <2>3, <2>6
  <2> HIDE DEF x1, b2
  <2>8. b1 = 0 /\ b0 = 0
    <3> HIDE DEF Bit
    <3> QED BY <2>1, <2>2, <2>3, <2>7, SignedZero
  <2> HIDE DEF b1, b0, a
  <2>9. b16 + b8 + b4 + b2 + b1 + b0 + 1 = 1
    BY <2>4, <2>5, <2>6, <2>7, <2>8
  <2> QED BY <1>1, <1>4, <1>5, <2>9
<1>6. CASE a # {}
  <2>1. PICK m \in a : Top(a, m)
    BY <1>3, <1>6, Highest
  <2>2. m \in 0 .. 30
    <3>1. m \in 0 .. 31 /\ m # 31
      BY <1>3, <2>1, TopIs
    <3> QED BY <3>1
  <2>11. m = CHOOSE k \in a : \A j \in a : j <= k
    BY <1>3, <2>1, TopIs
  <2> HIDE DEF x16, a
  <2>3. /\ b16 \in {0, 16} /\ x8 \in Word /\ Top(x8, m - b16) /\ m - b16 < 16 /\ m - b16 < 31
    <3>1. x16 \in Word /\ Top(x16, m) /\ 16 \in 1 .. 16 /\ m < 2 * 16 /\ m < 31
      BY <1>2, <1>3, <2>1, <2>2
    <3> QED BY <3>1, HalfTop
  <2> HIDE DEF x8, b16
  <2> DEFINE m8 == m - b16
  <2>4. /\ b8 \in {0, 8} /\ x4 \in Word /\ Top(x4, m8 - b8) /\ m8 - b8 < 8 /\ m8 - b8 < 31
    <3>1. x8 \in Word /\ Top(x8, m8) /\ 8 \in 1 .. 16 /\ m8 < 2 * 8 /\ m8 < 31
      BY <2>3
    <3> HIDE DEF m8
    <3> QED BY <3>1, HalfTop
  <2> HIDE DEF x4, b8
  <2> DEFINE m4 == m8 - b8
  <2>5. /\ b4 \in {0, 4} /\ x2 \in Word /\ Top(x2, m4 - b4) /\ m4 - b4 < 4 /\ m4 - b4 < 31
    <3>1. x4 \in Word /\ Top(x4, m4) /\ 4 \in 1 .. 16 /\ m4 < 2 * 4 /\ m4 < 31
      BY <2>4
    <3> HIDE DEF m4
    <3> QED BY <3>1, HalfTop
  <2> HIDE DEF x2, b4
  <2> DEFINE m2 == m4 - b4
  <2>6. /\ b2 \in {0, 2} /\ x1 \in Word /\ Top(x1, m2 - b2) /\ m2 - b2 < 2 /\ m2 - b2 < 31
    <3>1. x2 \in Word /\ Top(x2, m2) /\ 2 \in 1 .. 16 /\ m2 < 2 * 2 /\ m2 < 31
      BY <2>5
    <3> HIDE DEF m2
    <3> QED BY <3>1, HalfTop
  <2> HIDE DEF x1, b2
  <2> DEFINE m1 == m2 - b2
  <2>7. /\ b1 \in {0, 1} /\ Sar(x1, b1) \in Word /\ Top(Sar(x1, b1), m1 - b1) /\ m1 - b1 < 1
    <3>1. x1 \in Word /\ Top(x1, m1) /\ 1 \in 1 .. 16 /\ m1 < 2 * 1 /\ m1 < 31
      BY <2>6
    <3> HIDE DEF m1
    <3> QED BY <3>1, HalfTop
  <2> DEFINE x0 == Sar(x1, b1)
  <2> HIDE DEF b1
  <2>8. m1 - b1 = 0 /\ x0 = {0}
    <3> HIDE DEF m1
    <3>1. m1 - b1 \in 0 .. 31 /\ m1 - b1 < 1
      BY <2>7, TopIs
    <3>2. m1 - b1 = 0
      BY <3>1
    <3>3. 0 \in x0 /\ \A k \in x0 : k <= 0 /\ k \in 0 .. 31
      BY <2>7, <3>2 DEF Top, Word, Bit
    <3> HIDE DEF x0
    <3>4. \A k \in x0 : k = 0
      BY <3>3
    <3> QED BY <3>2, <3>3, <3>4
  <2>9. b0 = 1
    BY <2>8, Digits
  <2> HIDE DEF b0
  <2>10. b16 + b8 + b4 + b2 + b1 + b0 + 1 = 2 + m
    <3>1. b16 \in Int /\ b8 \in Int /\ b4 \in Int /\ b2 \in Int /\ b1 \in Int
      BY <2>3, <2>4, <2>5, <2>6, <2>7
    <3>2. m - b16 - b8 - b4 - b2 - b1 = 0
      BY <2>8
    <3> QED BY <2>2, <2>9, <3>1, <3>2
  <2> QED BY <1>1, <1>4, <1>6, <2>10, <2>11
<1> QED BY <1>5, <1>6

(* Shifts multiply and divide by powers of two.                             *)
LEMMA PowSum == ASSUME NEW k \in 0 .. 32
                PROVE  \A n \in 0 .. 32 : n + k <= 32 => Pow[n + k] = Pow[n] * Pow[k]
<1> DEFINE S == {n \in 0 .. 32 : n + k <= 32 => Pow[n + k] = Pow[n] * Pow[k]}
<1>1. 0 \in S
  <2>1. Pow[0] = 1 /\ Pow[k] \in Nat /\ 0 + k = k
    BY Powers
  <2> QED BY <2>1
<1>2. ASSUME NEW n \in 0 .. 32, n \in S, n < 32 PROVE n + 1 \in S
  <2>1. n + 1 \in 0 .. 32
    BY <1>2
  <2>2. ASSUME (n + 1) + k <= 32 PROVE Pow[(n + 1) + k] = Pow[n + 1] * Pow[k]
    <3>1. n + k <= 32 /\ n + k \in Bit /\ n \in Bit /\ (n + 1) + k = (n + k) + 1
      BY <2>2, <1>2 DEF Bit
    <3>2. Pow[n + k] = Pow[n] * Pow[k]
      BY <1>2, <3>1
    <3>3. Pow[(n + k) + 1] = 2 * Pow[n + k] /\ Pow[n + 1] = 2 * Pow[n] /\ Pow[n] \in Nat /\ Pow[k] \in Nat
      BY <3>1, Powers
    <3>4. Pow[(n + k) + 1] = Pow[n + 1] * Pow[k]
      <4>1. \A a, b \in Nat : 2 * (a * b) = (2 * a) * b
        OBVIOUS
      <4> QED BY <3>2, <3>3, <4>1
    <3> QED BY <3>1, <3>4
  <2> QED BY <2>1, <2>2
<1> HIDE DEF S
<1>3. 0 .. 32 \subseteq S
  BY <1>1, <1>2, BoundedInduct
<1> QED BY <1>3 DEF S

LEMMA WorthShift ==
    ASSUME NEW x, NEW y, NEW k \in 0 .. 32, NEW n \in 0 .. 32, n + k <= 32, n + k \in x <=> n \in y
    PROVE  Worth(x, n + k) = Worth(y, n) * Pow[k] /\ Worth(y, n) \in Nat
<1>1. Pow[n + k] = Pow[n] * Pow[k] /\ Pow[n] \in Nat /\ Pow[k] \in Nat
  <2>1. Pow[n + k] = Pow[n] * Pow[k]
    BY PowSum
  <2> QED BY <2>1, Powers
<1>2. CASE n \in y
  <2>1. Worth(y, n) = Pow[n] /\ Worth(x, n + k) = Pow[n + k]
    BY <1>2, WorthIs, Zenon
  <2> QED BY <1>1, <2>1
<1>3. CASE n \notin y
  <2>1. Worth(y, n) = 0 /\ Worth(x, n + k) = 0
    BY <1>3, WorthIs, Zenon
  <2> QED BY <1>1, <2>1
<1> QED BY <1>2, <1>3

(* When y is x without its lowest k bits, moved down by k.                  *)
Shifted(x, y, k) == \A n \in 0 .. 32 : n + k < 32 => (n + k \in x <=> n \in y)
LowSplits(x, y, k, m) == Low(x)[m + k] = Low(x)[k] + Low(y)[m] * Pow[k]
LEMMA LowShift ==
    ASSUME NEW x, NEW y, NEW k \in 0 .. 32, Shifted(x, y, k), NEW m \in 0 .. 32, m + k <= 32
    PROVE  LowSplits(x, y, k, m)
<1> DEFINE S == {n \in 0 .. 32 : n + k <= 32 => Low(x)[n + k] = Low(x)[k] + Low(y)[n] * Pow[k]}
<1>1. 0 \in S
  <2>1. Low(y)[0] = 0 /\ Low(x)[k] \in Nat /\ Pow[k] \in Nat /\ 0 + k = k
    BY LowAt, Powers
  <2> QED BY <2>1
<1>2. ASSUME NEW n \in 0 .. 32, n \in S, n < 32 PROVE n + 1 \in S
  <2>1. n + 1 \in 0 .. 32
    BY <1>2
  <2>2. ASSUME (n + 1) + k <= 32 PROVE Low(x)[(n + 1) + k] = Low(x)[k] + Low(y)[n + 1] * Pow[k]
    <3>1. n + k < 32 /\ n + k <= 32 /\ n + k \in Bit /\ n \in Bit /\ (n + 1) + k = (n + k) + 1
      BY <2>2, <1>2 DEF Bit
    <3>2. Low(x)[n + k] = Low(x)[k] + Low(y)[n] * Pow[k]
      BY <1>2, <3>1
    <3>3. n + k \in x <=> n \in y
      BY <1>2, <3>1 DEF Shifted
    <3>4. Worth(x, n + k) = Worth(y, n) * Pow[k] /\ Worth(y, n) \in Nat
      BY <1>2, <3>1, <3>3, WorthShift
    <3>5. /\ Low(x)[(n + k) + 1] = Low(x)[n + k] + Worth(x, n + k)
          /\ Low(y)[n + 1] = Low(y)[n] + Worth(y, n)
      BY <3>1, LowAt
    <3>6. Low(x)[k] \in Nat /\ Low(y)[n] \in Nat /\ Pow[k] \in Nat
      BY <1>2, LowAt, Powers
    <3>7. \A a, b, c, p \in Nat : (a + b * p) + c * p = a + (b + c) * p
      OBVIOUS
    <3>8. Low(x)[(n + k) + 1] = Low(x)[k] + Low(y)[n + 1] * Pow[k]
      BY <3>2, <3>4, <3>5, <3>6, <3>7
    <3> QED BY <3>1, <3>8
  <2> QED BY <2>1, <2>2
<1> HIDE DEF S
<1>3. 0 .. 32 \subseteq S
  BY <1>1, <1>2, BoundedInduct
<1> QED BY <1>3 DEF S, LowSplits

(* Without bits from k on.                                                  *)
LEMMA LowFlat ==
    ASSUME NEW x, NEW k \in 0 .. 32, \A n \in k .. 31 : n \notin x
    PROVE  \A n \in k .. 32 : Low(x)[n] = Low(x)[k]
<1> DEFINE S == {n \in 0 .. 32 : k <= n => Low(x)[n] = Low(x)[k]}
<1>1. 0 \in S
  OBVIOUS
<1>2. ASSUME NEW n \in 0 .. 32, n \in S, n < 32 PROVE n + 1 \in S
  <2>1. n + 1 \in 0 .. 32 /\ n \in Bit
    BY <1>2 DEF Bit
  <2>2. CASE k <= n
    <3>1. n \notin x
      BY <1>2, <2>2
    <3>2. Low(x)[n + 1] = Low(x)[n] + 0 /\ Low(x)[n] \in Nat
      <4>1. Worth(x, n) = 0
        BY <3>1, WorthIs, Zenon
      <4> QED BY <2>1, <4>1, LowAt
    <3>3. Low(x)[n] = Low(x)[k]
      BY <1>2, <2>2
    <3> QED BY <2>1, <3>2, <3>3
  <2>3. CASE k > n
    BY <1>2, <2>1, <2>3
  <2> QED BY <2>2, <2>3
<1> HIDE DEF S
<1>3. 0 .. 32 \subseteq S
  BY <1>1, <1>2, BoundedInduct
<1> QED BY <1>3 DEF S

LEMMA LowOnes ==
    ASSUME NEW x, NEW m \in 0 .. 32, \A k \in 0 .. m - 1 : k \in x
    PROVE  Low(x)[m] = Pow[m] - 1
<1> DEFINE S == {n \in 0 .. 32 : n <= m => Low(x)[n] = Pow[n] - 1}
<1>1. 0 \in S
  BY LowAt, Powers
<1>2. ASSUME NEW n \in 0 .. 32, n \in S, n < 32 PROVE n + 1 \in S
  <2>1. n + 1 \in 0 .. 32 /\ n \in Bit
    BY <1>2 DEF Bit
  <2>2. ASSUME n + 1 <= m PROVE Low(x)[n + 1] = Pow[n + 1] - 1
    <3>1. n \in x /\ Low(x)[n] = Pow[n] - 1
      BY <1>2, <2>2
    <3>2. Low(x)[n + 1] = Low(x)[n] + Pow[n]
      <4>1. Worth(x, n) = Pow[n]
        BY <3>1, WorthIs, Zenon
      <4> QED BY <2>1, <4>1, LowAt
    <3>3. Pow[n] \in Nat /\ Pow[n + 1] = 2 * Pow[n]
      BY <2>1, Powers
    <3> QED BY <3>1, <3>2, <3>3
  <2> QED BY <2>1, <2>2
<1> HIDE DEF S
<1>3. 0 .. 32 \subseteq S
  BY <1>1, <1>2, BoundedInduct
<1> QED BY <1>3 DEF S

LEMMA LowNone ==
    ASSUME NEW x, NEW n \in 0 .. 32, \A k \in 0 .. n - 1 : k \notin x
    PROVE  Low(x)[n] = 0
<1>1. \A k \in 0 .. n - 1 : k \in x <=> k \in {}
  OBVIOUS
<1>2. Low(x)[n] = Low({})[n]
  BY <1>1, LowSame
<1> QED BY <1>2, LowEmpty

LEMMA SignedPlain ==
    ASSUME NEW x \in Word, 31 \notin x
    PROVE  Signed(x) = Low(x)[31] /\ Signed(x) \in Nat /\ Signed(x) \in 0 .. TMax
<1>1. Signed(x) = Low(x)[31] - 0 /\ Low(x)[31] \in Nat /\ Low(x)[31] \in 0 .. TMax
  BY SignedLow, LowAt
<1> QED BY <1>1

LEMMA SignedShl ==
    ASSUME NEW x \in Word, NEW k \in 0 .. 30, \A n \in x : n + k < 31
    PROVE  /\ Shl(x, k) \in Word /\ \A n \in Shl(x, k) : n >= k /\ n < 31 /\ n - k \in x
           /\ Signed(Shl(x, k)) = Signed(x) * Pow[k] /\ Signed(x) \in Nat /\ Pow[k] \in Nat
<1>1. \A n \in x : n \in 0 .. 31
  BY DEF Word, Bit
<1>2. Shl(x, k) = {n \in Bit : n - k \in x}
  BY DEF Shl, Bit
<1> DEFINE y == Shl(x, k)
<1>3. y \in Word /\ \A n \in y : n \in Bit /\ n - k \in x
  BY <1>2 DEF Word
<1>4. \A n \in y : n >= k /\ n < 31 /\ n - k \in x
  BY <1>1, <1>3 DEF Bit
<1>5. Shifted(y, x, k)
  <2> SUFFICES ASSUME NEW n \in 0 .. 32, n + k < 32 PROVE n + k \in y <=> n \in x
    BY DEF Shifted
  <2>1. n + k \in Bit /\ (n + k) - k = n
    BY DEF Bit
  <2> HIDE DEF Bit
  <2> QED BY <1>2, <2>1
<1> HIDE DEF y
<1>6. k \in 0 .. 32 /\ 31 - k \in 0 .. 32 /\ (31 - k) + k = 31 /\ 31 \in (31 - k) .. 32
  OBVIOUS
<1>7. Low(y)[31] = Low(y)[k] + Low(x)[31 - k] * Pow[k]
  <2>1. (31 - k) + k <= 32
    OBVIOUS
  <2>2. Low(y)[(31 - k) + k] = Low(y)[k] + Low(x)[31 - k] * Pow[k]
    <3>1. LowSplits(y, x, k, 31 - k)
      BY <1>5, <1>6, <2>1, LowShift
    <3> QED BY <3>1 DEF LowSplits
  <2> QED BY <1>6, <2>2
<1>8. Low(y)[k] = 0
  <2>1. \A n \in 0 .. k - 1 : n \notin y
    BY <1>4
  <2> QED BY <1>6, <2>1, LowNone
<1>9. Low(x)[31] = Low(x)[31 - k]
  <2>1. \A n \in (31 - k) .. 31 : n \notin x
    BY <1>1
  <2>2. \A n \in (31 - k) .. 32 : Low(x)[n] = Low(x)[31 - k]
    BY <1>6, <2>1, LowFlat
  <2> QED BY <1>6, <2>2
<1>10. 31 \notin x /\ 31 \notin y
  BY <1>1, <1>4
<1>11. Signed(x) = Low(x)[31] /\ Signed(x) \in Nat /\ Signed(y) = Low(y)[31]
  BY <1>3, <1>10, SignedPlain DEF y
<1>12. Pow[k] \in Nat
  BY <1>6, Powers
<1>13. Signed(y) = Signed(x) * Pow[k]
  BY <1>7, <1>8, <1>9, <1>11, <1>12
<1> QED BY <1>3, <1>4, <1>11, <1>12, <1>13 DEF y

(* The exponent and the fraction of a float.                                *)
LEMMA ExponentIs ==
    ASSUME NEW uf \in Word
    PROVE  /\ uf \cap Exponent \in Word /\ 31 \notin uf \cap Exponent
           /\ ExponentOf(uf) \in 0 .. 255 /\ Pow[23] \in Nat /\ Pow[23] > 0
           /\ ExponentOf(uf) = Low(Shr(uf \cap Exponent, 23))[8]
           /\ Signed(uf \cap Exponent) = ExponentOf(uf) * Pow[23]
<1> DEFINE x == uf \cap Exponent
           y == Shr(x, 23)
<1>1. x \in Word /\ \A n \in x : n \in 23 .. 30
  BY DEF Word, Exponent
<1>2. y = {n \in Bit : n + 23 \in x}
  BY DEF Shr, Bit
<1> HIDE DEF x
<1>3. y \in Word /\ (\A n \in y : n \in 0 .. 7) /\ 31 \notin y /\ 31 \notin x
  BY <1>1, <1>2 DEF Word, Bit
<1>4. Shifted(x, y, 23)
  BY <1>2 DEF Bit, Shifted
<1> HIDE DEF y
<1>5. Low(x)[31] = Low(x)[23] + Low(y)[8] * Pow[23]
  <2>1. 23 \in 0 .. 32 /\ 8 \in 0 .. 32 /\ 8 + 23 <= 32 /\ 8 + 23 = 31
    OBVIOUS
  <2>2. Low(x)[8 + 23] = Low(x)[23] + Low(y)[8] * Pow[23]
    <3>1. LowSplits(x, y, 23, 8)
      BY <1>4, <2>1, LowShift
    <3> QED BY <3>1 DEF LowSplits
  <2> QED BY <2>1, <2>2
<1>6. Low(x)[23] = 0
  <2>1. 23 \in 0 .. 32 /\ \A n \in 0 .. 23 - 1 : n \notin x
    BY <1>1
  <2> QED BY <2>1, LowNone
<1>7. Low(y)[31] = Low(y)[8]
  <2>1. 8 \in 0 .. 32 /\ 31 \in 8 .. 32 /\ \A n \in 8 .. 31 : n \notin y
    BY <1>3
  <2> QED BY <2>1, LowFlat
<1>8. Low(y)[8] \in Nat /\ Low(y)[8] < Pow[8] /\ Pow[8] = 256 /\ Pow[23] \in Nat /\ Pow[23] > 0
  BY LowBound, Powers
<1>9. Signed(x) = Low(x)[31] /\ Signed(y) = Low(y)[31]
  BY <1>1, <1>3, SignedPlain
<1>10. ExponentOf(uf) = Signed(y)
  BY DEF ExponentOf, x, y
<1>11. ExponentOf(uf) = Low(y)[8] /\ Signed(x) = ExponentOf(uf) * Pow[23]
  <2>1. ExponentOf(uf) = Low(y)[8]
    BY <1>7, <1>9, <1>10
  <2>2. Signed(x) = 0 + Low(y)[8] * Pow[23]
    BY <1>5, <1>6, <1>9
  <2>3. \A a, b \in Nat : 0 + a * b = a * b
    OBVIOUS
  <2>4. Signed(x) = Low(y)[8] * Pow[23]
    BY <1>8, <2>2, <2>3
  <2> QED BY <2>1, <2>4
<1>12. ExponentOf(uf) \in 0 .. 255
  <2>1. Low(y)[8] \in 0 .. 255
    BY <1>8
  <2> QED BY <1>11, <2>1
<1> QED BY <1>1, <1>3, <1>8, <1>11, <1>12 DEF x, y

LEMMA ExponentDecides ==
    ASSUME NEW uf \in Word, NEW vf \in Word, ExponentOf(uf) = ExponentOf(vf)
    PROVE  uf \cap Exponent = vf \cap Exponent
<1>1. Signed(uf \cap Exponent) = Signed(vf \cap Exponent)
  BY ExponentIs
<1> QED BY <1>1, ExponentIs, SignedDecides

LEMMA ExponentCases ==
    ASSUME NEW uf \in Word
    PROVE  /\ uf \cap Exponent = {} <=> ExponentOf(uf) = 0
           /\ uf \cap Exponent = Inf <=> ExponentOf(uf) = 255
           /\ uf \cap Exponent = 24 .. 30 <=> ExponentOf(uf) = 254
<1>1. /\ {} \in Word /\ {} \cap Exponent = {}
      /\ Inf \in Word /\ Inf \cap Exponent = Inf
      /\ 24 .. 30 \in Word /\ (24 .. 30) \cap Exponent = 24 .. 30
  BY DEF Inf, Exponent, Word, Bit
<1>2. \A vf \in Word : /\ ExponentOf(vf) = ExponentOf(uf) => vf \cap Exponent = uf \cap Exponent
                       /\ vf \cap Exponent = uf \cap Exponent => ExponentOf(vf) = ExponentOf(uf)
  <2>1. \A vf \in Word : ExponentOf(vf) = ExponentOf(uf) => vf \cap Exponent = uf \cap Exponent
    BY ExponentDecides
  <2>2. \A vf : vf \cap Exponent = uf \cap Exponent => ExponentOf(vf) = ExponentOf(uf)
    BY DEF ExponentOf
  <2> QED BY <2>1, <2>2
<1>3. \A vf \in Word : ExponentOf(vf) = Low(Shr(vf \cap Exponent, 23))[8]
  BY ExponentIs
<1>4. \A x : Shr(x, 23) = {n \in Bit : n + 23 \in x}
  BY DEF Shr, Bit
<1>5. 8 \in 0 .. 32
  OBVIOUS
<1>6. ExponentOf({}) = 0
  <2>1. \A k \in 0 .. 8 - 1 : k \notin Shr({}, 23)
    BY <1>4
  <2>2. Low(Shr({}, 23))[8] = 0
    BY <1>5, <2>1, LowNone
  <2> QED BY <1>1, <1>3, <2>2
<1>7. ExponentOf(Inf) = 255
  <2>1. \A k \in 0 .. 8 - 1 : k \in Shr(Inf, 23)
    <3>1. \A k \in 0 .. 8 - 1 : k \in Bit /\ k + 23 \in Inf
      BY DEF Bit, Inf, Exponent
    <3> QED BY <1>4, <3>1
  <2>2. Low(Shr(Inf, 23))[8] = Pow[8] - 1
    BY <1>5, <2>1, LowOnes
  <2> QED BY <1>1, <1>3, <2>2, Powers
<1>8. ExponentOf(24 .. 30) = 254
  <2> DEFINE y == Shr(24 .. 30, 23)
  <2>1. \A k \in 0 .. 7 : k \in y <=> k # 0
    <3>1. \A k \in 0 .. 7 : k \in Bit /\ (k + 23 \in 24 .. 30 <=> k # 0)
      BY DEF Bit
    <3> QED BY <1>4, <3>1
  <2> HIDE DEF y
  <2>2. {0} \cap y = {}
    BY <2>1
  <2>3. \A k \in 0 .. 8 - 1 : k \in {0} \cup y
    BY <2>1
  <2>4. Low({0} \cup y)[8] = Pow[8] - 1
    BY <1>5, <2>3, LowOnes
  <2>5. Low({0} \cup y)[8] = Low({0})[8] + Low(y)[8]
    BY <1>5, <2>2, LowUnion
  <2>6. Low({0})[8] = 1
    <3>1. 0 \in Bit /\ 0 < 8
      BY DEF Bit
    <3>2. Low({0})[8] = IF 0 < 8 THEN Pow[0] ELSE 0
      BY <1>5, <3>1, LowSingle
    <3> QED BY <3>1, <3>2, Powers
  <2>7. Pow[8] = 256 /\ Low(y)[8] \in Nat
    BY <1>5, Powers, LowAt
  <2>8. Low(y)[8] = 254
    BY <2>4, <2>5, <2>6, <2>7
  <2> QED BY <1>1, <1>3, <2>8 DEF y
<1>9. uf \cap Exponent = {} <=> ExponentOf(uf) = 0
  BY <1>1, <1>2, <1>6
<1>10. uf \cap Exponent = Inf <=> ExponentOf(uf) = 255
  BY <1>1, <1>2, <1>7
<1>11. uf \cap Exponent = 24 .. 30 <=> ExponentOf(uf) = 254
  BY <1>1, <1>2, <1>8
<1> QED BY <1>9, <1>10, <1>11

LEMMA FractionIs ==
    ASSUME NEW uf \in Word
    PROVE  /\ uf \cap Fraction \in Word /\ (\A n \in uf \cap Fraction : n \in 0 .. 22)
           /\ FractionOf(uf) = Signed(uf \cap Fraction) /\ FractionOf(uf) \in Nat
           /\ FractionOf(uf) = Low(uf \cap Fraction)[23] /\ FractionOf(uf) < Pow[23]
<1> DEFINE x == uf \cap Fraction
<1>1. x \in Word /\ (\A n \in x : n \in 0 .. 22) /\ 31 \notin x
  BY DEF Word, Fraction
<1>2. FractionOf(uf) = Signed(x)
  BY DEF FractionOf
<1> HIDE DEF x
<1>3. Signed(x) = Low(x)[31] /\ Signed(x) \in Nat
  BY <1>1, SignedPlain
<1>4. Low(x)[31] = Low(x)[23]
  <2>1. 23 \in 0 .. 32 /\ 31 \in 23 .. 32 /\ \A n \in 23 .. 31 : n \notin x
    BY <1>1
  <2> QED BY <2>1, LowFlat
<1>5. Low(x)[23] < Pow[23]
  BY LowBound
<1> QED BY <1>1, <1>2, <1>3, <1>4, <1>5 DEF x

(* The words the float puzzles write as hexadecimal numbers.                *)
LEMMA SmallWords ==
    /\ Inf \in Word /\ Sign \in Word /\ {23} \in Word /\ Shl({0}, 23) = {23}
    /\ WordOf(0) = {} /\ WordOf(1) = {0} /\ Pow[23] = 2^23
    /\ Pow[24] = 2 * Pow[23] /\ Pow[31] = Pow[8] * Pow[23] /\ Pow[1] = 2 /\ Pow[23] > 0
<1>1. Inf \in Word /\ Sign \in Word /\ {23} \in Word /\ {0} \in Word /\ {} \in Word
  BY DEF Inf, Exponent, Word, Bit, Sign
<1>2. Shl({0}, 23) = {23}
  BY DEF Shl, Bit
<1>3. WordOf(0) = {} /\ WordOf(1) = {0}
  BY <1>1, WordOfSigned, SignedZero, Digits
<1>4. Pow[23] = 2^23
  <2>1. 23 \in 0 .. 32
    OBVIOUS
  <2> QED BY <2>1, Powers, Zenon
<1>5. Pow[23 + 1] = 2 * Pow[23] /\ 23 + 1 = 24 /\ Pow[0 + 1] = 2 * Pow[0] /\ 0 + 1 = 1 /\ Pow[0] = 1 /\ Pow[23] > 0
  BY Powers DEF Bit
<1>6. Pow[8 + 23] = Pow[8] * Pow[23] /\ 8 + 23 = 31
  BY PowSum
<1> QED BY <1>1, <1>2, <1>3, <1>4, <1>5, <1>6

(* Doubling a denormal number: its fraction moves up, into the exponent if  *)
(* it must.                                                                 *)
LEMMA DoubleDenormal ==
    ASSUME NEW uf \in Word
    PROVE  LET double == 2 * FractionOf(uf)
           IN  /\ double < Pow[23] => WordOf(double) = Shl(uf \cap Fraction, 1)
               /\ double >= Pow[23] =>
                      WordOf(double - Pow[23]) \cup {23} = Shl(uf \cap Fraction, 1)
<1> DEFINE x == uf \cap Fraction
           y == Shl(x, 1)
           F == FractionOf(uf)
<1>1. x \in Word /\ (\A n \in x : n \in 0 .. 22) /\ F = Signed(x) /\ F \in Nat /\ F < Pow[23]
  BY FractionIs
<1> HIDE DEF x, F
<1>2. /\ y \in Word /\ (\A n \in y : n >= 1 /\ n < 31 /\ n - 1 \in x)
      /\ Signed(y) = Signed(x) * Pow[1]
  <2>1. 1 \in 0 .. 30 /\ \A n \in x : n + 1 < 31
    BY <1>1
  <2> QED BY <1>1, <2>1, SignedShl
<1> HIDE DEF y
<1>3. Signed(y) = 2 * F
  BY <1>1, <1>2, SmallWords
<1>4. WordOf(2 * F) = y
  BY <1>2, <1>3, WordOfSigned
<1>5. ASSUME 2 * F >= Pow[23] PROVE WordOf(2 * F - Pow[23]) \cup {23} = y
  <2> DEFINE z == y \ {23}
  <2>1. z \in Word /\ 31 \notin z /\ 31 \notin y /\ (\A n \in z : n \in 0 .. 22)
    <3>1. \A n \in y : n - 1 \in 0 .. 22 /\ n \in 0 .. 31 /\ n # 31
      BY <1>1, <1>2 DEF Word, Bit
    <3>2. \A n \in y : n # 23 => n \in 0 .. 22
      BY <3>1
    <3> QED BY <1>2, <3>1, <3>2 DEF Word
  <2>2. 23 \in y
    <3> SUFFICES ASSUME 23 \notin y PROVE FALSE
      OBVIOUS
    <3>1. z = y
      OBVIOUS
    <3>2. Low(y)[31] = Low(y)[23]
      <4>1. 23 \in 0 .. 32 /\ 31 \in 23 .. 32 /\ \A n \in 23 .. 31 : n \notin y
        BY <2>1, <3>1
      <4> QED BY <4>1, LowFlat
    <3>3. Low(y)[23] < Pow[23] /\ Low(y)[23] \in Nat /\ Pow[23] \in Nat
      BY LowBound
    <3>4. Signed(y) = Low(y)[31]
      BY <1>2, <2>1, SignedPlain
    <3> QED BY <1>1, <1>3, <1>5, <3>2, <3>3, <3>4
  <2>3. z \cap {23} = {} /\ z \cup {23} = y
    BY <2>2
  <2> HIDE DEF z
  <2>4. {23} \in Word /\ Signed({23}) = Pow[23] /\ 31 \notin {23} /\ Pow[23] \in Nat
    BY SignedSingle
  <2>5. Signed(y) = Signed(z) + Signed({23})
    BY <2>1, <2>3, <2>4, SignedUnion
  <2>6. Signed(z) \in Nat
    BY <2>1, SignedPlain
  <2>7. Signed(z) = 2 * F - Pow[23]
    BY <1>1, <1>3, <2>4, <2>5, <2>6
  <2>8. WordOf(2 * F - Pow[23]) = z
    BY <2>1, <2>7, WordOfSigned
  <2> QED BY <2>3, <2>8
<1> QED BY <1>4, <1>5 DEF x, y, F

(* Adding one to the exponent.                                              *)
LEMMA NextExponent ==
    ASSUME NEW uf \in Word, ExponentOf(uf) < 254
    PROVE  Add(uf \cap Exponent, {23}) = Shl(WordOf(ExponentOf(uf) + 1), 23)
<1> DEFINE x == uf \cap Exponent
           E == ExponentOf(uf)
           w == WordOf(E + 1)
           P == Pow[23]
<1>1. /\ x \in Word /\ E \in 0 .. 255 /\ P \in Nat /\ P > 0 /\ Signed(x) = E * P
  BY ExponentIs
<1>2. {23} \in Word /\ Signed({23}) = P
  BY SignedSingle
<1>3. E + 1 \in Nat /\ E + 1 < 255
  BY <1>1
<1>4. TMax = Pow[31] - 1 /\ TMin = 0 - Pow[31] /\ Pow[31] > 1000 /\ Pow[31] \in Nat /\ Pow[32] = 2 * Pow[31]
  BY Powers
<1>5. Pow[31] = 256 * P
  BY SmallWords, Powers
<1> HIDE DEF x, E, P
<1>6. w \in Word /\ Signed(w) = E + 1
  <2>1. E + 1 \in TMin .. TMax
    BY <1>3, <1>4
  <2> QED BY <2>1, WordOfWord, SignedWordOf
<1>7. \A n \in w : n + 23 < 31
  <2>1. \A n \in w : n \in 0 .. 31
    BY <1>6 DEF Word, Bit
  <2> HIDE DEF w
  <2>2. 31 \notin w
    BY <1>3, <1>6, SignedLow
  <2>3. ASSUME NEW n \in w, n >= 8 PROVE FALSE
    <3>1. n \in 0 .. 30
      BY <2>1, <2>2
    <3>2. Low(w)[31] = E + 1
      BY <1>6, <2>2, SignedPlain
    <3>3. w = (w \ {n}) \cup {n} /\ (w \ {n}) \cap {n} = {} /\ w \ {n} \in Word
      BY <1>6 DEF Word
    <3>4. Low(w)[31] = Low(w \ {n})[31] + Low({n})[31]
      BY <3>3, LowUnion
    <3>5. Low({n})[31] = Pow[n] /\ Low(w \ {n})[31] \in Nat
      <4>1. n \in Bit /\ n < 31 /\ 31 \in 0 .. 32
        BY <3>1 DEF Bit
      <4>2. Low({n})[31] = IF n < 31 THEN Pow[n] ELSE 0
        BY <4>1, LowSingle
      <4> QED BY <4>1, <4>2, LowAt
    <3>6. Pow[n] >= 256
      <4>1. n - 8 \in 0 .. 32 /\ (n - 8) + 8 <= 32 /\ (n - 8) + 8 = n /\ 8 \in 0 .. 32
        BY <2>3, <3>1
      <4>2. Pow[(n - 8) + 8] = Pow[n - 8] * Pow[8]
        BY <4>1, PowSum
      <4>3. Pow[8] = 256 /\ Pow[n - 8] \in Nat /\ Pow[n - 8] > 0
        BY <4>1, Powers
      <4> QED BY <4>1, <4>2, <4>3
    <3>7. Pow[n] \in Nat
      BY <3>1, Powers
    <3> QED BY <1>3, <3>2, <3>4, <3>5, <3>6, <3>7
  <2> QED BY <2>1, <2>3
<1> HIDE DEF w
<1>8. Shl(w, 23) \in Word /\ Signed(Shl(w, 23)) = (E + 1) * P
  <2>1. 23 \in 0 .. 30
    OBVIOUS
  <2> QED BY <1>6, <1>7, <2>1, SignedShl DEF P
<1>9. Add(x, {23}) \in Word /\ Congruent(Signed(Add(x, {23})), E * P + P)
  BY <1>1, <1>2, WordOperators, SignedAdd
<1>10. Signed(Add(x, {23})) = E * P + P
  <2>1. E * P \in Nat /\ E * P + P <= 255 * P
    BY <1>1, <1>3
  <2>2. E * P + P \in Int /\ E * P + P >= 0 /\ E * P + P < Pow[31]
    BY <1>1, <1>5, <2>1
  <2>3. E * P + P \in TMin .. TMax /\ 0 - Pow[32] <= E * P + P /\ E * P + P <= Pow[32]
    BY <1>4, <2>2
  <2>4. Signed(Add(x, {23})) \in TMin .. TMax
    BY <1>9, SignedLow
  <2> QED BY <1>9, <2>2, <2>3, <2>4, Wrapped
<1>11. E * P + P = (E + 1) * P
  BY <1>1
<1>12. Add(x, {23}) = Shl(w, 23)
  BY <1>8, <1>9, <1>10, <1>11, SignedDecides
<1> QED BY <1>12 DEF x, w, E

(* f2u, without its rounding of what needs none.                            *)
LEMMA F2uIs ==
    ASSUME NEW f, NEW n \in Nat, NEW e \in Int, f.significand = n, f.power = e
    PROVE  /\ n >= Pow[23] /\ e > 104 => f2u(f) = Inf
           /\ n >= Pow[23] /\ e <= 104 =>
                  f2u(f) = WordOf(n - Pow[23]) \cup Shl(WordOf(e + 150), 23)
           /\ n < Pow[23] /\ e = -149 => f2u(f) = WordOf(n)
           /\ 2 * n < Pow[23] /\ e = -148 => f2u(f) = WordOf(2 * n)
           /\ n < Pow[23] /\ 2 * n >= Pow[23] /\ e = -148 =>
                  f2u(f) = WordOf(2 * n - Pow[23]) \cup {23}
<1> DEFINE P == 2^23
           m == IF n < P /\ e > -149 THEN 2 * n ELSE n
           p == IF n < P THEN -149 ELSE e
<1>1. f2u(f) = CASE p > 104 -> Inf [] m < P -> WordOf(m) [] OTHER -> WordOf(m - P) \cup Shl(WordOf(p + 150), 23)
  BY Zenon DEF f2u
<1>2. P = Pow[23] /\ P \in Nat /\ P > 0
  <2>1. P = Pow[23]
    BY SmallWords, Zenon
  <2>2. Pow[23] \in Nat /\ Pow[23] > 0
    BY Powers
  <2> QED BY <2>1, <2>2, Zenon
<1> HIDE DEF P
<1>3. ASSUME n >= P, e > 104 PROVE f2u(f) = Inf
  <2>1. p > 104 /\ ~(m < P)
    BY <1>2, <1>3
  <2> HIDE DEF p, m
  <2> QED BY <1>1, <2>1
<1>4. ASSUME n >= P, e <= 104 PROVE f2u(f) = WordOf(n - P) \cup Shl(WordOf(e + 150), 23)
  <2>1. ~(p > 104) /\ ~(m < P) /\ m = n /\ p = e
    BY <1>2, <1>4
  <2> HIDE DEF p, m
  <2> QED BY <1>1, <2>1
<1>5. ASSUME n < P, e = -149 PROVE f2u(f) = WordOf(n)
  <2>1. ~(p > 104) /\ m < P /\ m = n
    BY <1>2, <1>5
  <2> HIDE DEF p, m
  <2> QED BY <1>1, <2>1
<1>6. ASSUME 2 * n < P, e = -148 PROVE f2u(f) = WordOf(2 * n)
  <2>1. ~(p > 104) /\ m < P /\ m = 2 * n
    BY <1>2, <1>6
  <2> HIDE DEF p, m
  <2> QED BY <1>1, <2>1
<1>7. ASSUME n < P, 2 * n >= P, e = -148 PROVE f2u(f) = WordOf(2 * n - P) \cup {23}
  <2>1. ~(p > 104) /\ ~(m < P) /\ m = 2 * n /\ p + 150 = 1
    BY <1>2, <1>7
  <2>2. Shl(WordOf(1), 23) = {23}
    BY SmallWords
  <2> HIDE DEF p, m
  <2> QED BY <1>1, <2>1, <2>2
<1> QED BY <1>2, <1>3, <1>4, <1>5, <1>6, <1>7

(* floatScale2 is right for every float, but for a finite one whose double  *)
(* is too large for a float and whose fraction is not zero: it then returns *)
(* a NaN in place of infinity.                                              *)
THEOREM FloatScale2Right ==
    \A uf \in Word : ~DoubleTooLarge(uf) => floatScale2(uf) = test_floatScale2(uf)
<1> SUFFICES ASSUME NEW uf \in Word, ~DoubleTooLarge(uf)
             PROVE  floatScale2(uf) = test_floatScale2(uf)
  OBVIOUS
<1> DEFINE E == ExponentOf(uf)
           F == FractionOf(uf)
           x == uf \cap Exponent
           y == uf \cap Fraction
           s == uf \cap Sign
           P == Pow[23]
           f == u2f(uf)
           g == [f EXCEPT !.power = @ + 1]
<1>1. P = 2^23 /\ P \in Nat /\ P > 0
  <2>1. P = 2^23
    BY SmallWords, Zenon
  <2>2. P \in Nat /\ P > 0
    BY Powers
  <2> QED BY <2>1, <2>2, Zenon
<1>2. /\ E \in 0 .. 255 /\ F \in Nat /\ F < P /\ y \in Word /\ F = Signed(y)
  BY ExponentIs, FractionIs, ZenonT(60)
<1>3. /\ x = {} <=> E = 0
      /\ x = Inf <=> E = 255
      /\ x = 24 .. 30 <=> E = 254
  BY ExponentCases
<1>4. Inf # {}
  BY DEF Inf, Exponent
<1>5. floatScale2(uf) = CASE x = Inf -> uf [] x = {} -> s \cup Shl(y, 1) [] OTHER -> s \cup Add(x, {23}) \cup y
  BY Zenon DEF floatScale2
<1>6. test_floatScale2(uf) = IF E = 255 THEN uf ELSE s \cup f2u(g)
  BY Zenon DEF test_floatScale2
<1>7. f = IF E = 0 THEN [significand |-> F, power |-> -149] ELSE [significand |-> F + P, power |-> E - 150]
  BY <1>1, Zenon DEF u2f
<1>9. CASE E = 255
  BY <1>3, <1>5, <1>6, <1>9
<1>10. CASE E = 0
  <2>1. floatScale2(uf) = s \cup Shl(y, 1)
    <3>1. x = {} /\ x # Inf
      BY <1>3, <1>4, <1>10
    <3> HIDE DEF x, y, s
    <3> QED BY <1>5, <3>1
  <2>2. g.significand = F /\ g.power = -148
    <3>1. f = [significand |-> F, power |-> -149]
      BY <1>7, <1>10
    <3> HIDE DEF f, F
    <3> QED BY <3>1
  <2> HIDE DEF g, F, E
  <2>4. f2u(g) = Shl(y, 1)
    <3>1. CASE 2 * F < P
      <4>1. WordOf(2 * F) = Shl(y, 1)
        BY <3>1, DoubleDenormal DEF F
      <4>2. f2u(g) = WordOf(2 * F)
        BY <1>2, <2>2, <3>1, F2uIs
      <4> QED BY <4>1, <4>2
    <3>2. CASE 2 * F >= P
      <4>1. WordOf(2 * F - P) \cup {23} = Shl(y, 1)
        BY <3>2, DoubleDenormal DEF F
      <4>2. f2u(g) = WordOf(2 * F - P) \cup {23}
        BY <1>2, <2>2, <3>2, F2uIs
      <4> QED BY <4>1, <4>2
    <3> QED BY <1>1, <1>2, <3>1, <3>2
  <2>5. test_floatScale2(uf) = s \cup f2u(g)
    BY <1>6, <1>10
  <2> QED BY <2>1, <2>4, <2>5
<1>11. CASE E \in 1 .. 254
  <2>1. floatScale2(uf) = s \cup Add(x, {23}) \cup y
    <3>1. x # {} /\ x # Inf
      BY <1>3, <1>11
    <3> HIDE DEF x, y, s
    <3> QED BY <1>5, <3>1
  <2>2. g.significand = F + P /\ g.power = E - 149
    <3>1. f = [significand |-> F + P, power |-> E - 150]
      BY <1>7, <1>11
    <3> HIDE DEF f, F, P, E
    <3>2. g.significand = F + P /\ g.power = (E - 150) + 1
      BY <3>1
    <3> QED BY <1>2, <3>2
  <2> HIDE DEF g, F, E, P
  <2>3. F + P \in Nat /\ F + P >= P /\ E - 149 \in Int
    BY <1>1, <1>2
  <2>4. test_floatScale2(uf) = s \cup f2u(g)
    BY <1>6, <1>11
  <2>5. CASE E = 254
    <3>1. f2u(g) = Inf
      <4>1. E - 149 > 104
        BY <2>5
      <4> QED BY <2>2, <2>3, <4>1, F2uIs DEF P
    <3>2. x = 24 .. 30 /\ y = {}
      BY <1>3, <2>5 DEF DoubleTooLarge
    <3>3. Add(x, {23}) = Inf
      <4>1. 24 .. 30 \in Word /\ {23} \in Word /\ (24 .. 30) \cap {23} = {} /\ (24 .. 30) \cup {23} = Inf
        BY DEF Word, Bit, Inf, Exponent
      <4> QED BY <3>2, <4>1, AddDisjoint
    <3> QED BY <2>1, <2>4, <3>1, <3>2, <3>3
  <2>6. CASE E < 254
    <3>1. f2u(g) = WordOf((F + P) - P) \cup Shl(WordOf((E - 149) + 150), 23)
      <4>1. E - 149 <= 104
        BY <1>2, <2>6
      <4> QED BY <2>2, <2>3, <4>1, F2uIs DEF P
    <3>2. (F + P) - P = F /\ (E - 149) + 150 = E + 1
      BY <1>1, <1>2, <2>3
    <3>3. WordOf(F) = y
      BY <1>2, WordOfSigned
    <3>4. Add(x, {23}) = Shl(WordOf(E + 1), 23)
      BY <2>6, NextExponent DEF E
    <3>5. f2u(g) = y \cup Add(x, {23})
      BY <3>1, <3>2, <3>3, <3>4
    <3> HIDE DEF x, y, s
    <3>6. s \cup (y \cup Add(x, {23})) = s \cup Add(x, {23}) \cup y
      OBVIOUS
    <3> QED BY <2>1, <2>4, <3>5, <3>6
  <2> QED BY <1>2, <2>5, <2>6, <1>11
<1> QED BY <1>2, <1>9, <1>10, <1>11

(* The whole part of a float of exponent e: its fraction with the implied   *)
(* bit, moved.                                                              *)
WholePart(uf, e) ==
    (IF e > 23 THEN Shl(uf \cap Fraction, e - 23) ELSE Shr(uf \cap Fraction, 23 - e)) \cup {e}

LEMMA DivSum ==
    ASSUME NEW l \in Nat, NEW p \in Nat, l < p, NEW y \in Nat, NEW q \in Nat,
           NEW v \in Nat, v = (l + y * p) + q * p
    PROVE  v \div p = y + q
<1>1. v = l + (y + q) * p /\ v \in Int /\ y + q \in Int
  OBVIOUS
<1>2. p * (y + q) <= v /\ v < p * (y + q) + p
  BY <1>1
<1> QED BY <1>1, <1>2, DivIs

LEMMA WholeUp ==
    ASSUME NEW uf \in Word, NEW k \in 0 .. 7
    PROVE  /\ WholePart(uf, 23 + k) \in Word /\ 31 \notin WholePart(uf, 23 + k)
           /\ Signed(WholePart(uf, 23 + k)) = (FractionOf(uf) + Pow[23]) * Pow[k]
<1> DEFINE x == uf \cap Fraction
           y == Shl(x, k)
           e == 23 + k
<1>1. x \in Word /\ (\A n \in x : n \in 0 .. 22) /\ FractionOf(uf) = Signed(x)
  BY FractionIs
<1>2. WholePart(uf, e) = y \cup {e}
  <2>1. CASE k = 0
    <3>1. Shr(x, 0) = Shl(x, 0)
      BY DEF Shr, Shl, Bit
    <3>2. WholePart(uf, 23) = Shr(x, 0) \cup {23}
      BY DEF WholePart
    <3> QED BY <2>1, <3>1, <3>2
  <2>2. CASE k > 0
    <3>1. e > 23 /\ e - 23 = k
      BY <2>2
    <3> HIDE DEF e
    <3>2. WholePart(uf, e) = Shl(x, e - 23) \cup {e}
      BY <3>1, Zenon DEF WholePart
    <3> HIDE DEF x
    <3> QED BY <3>1, <3>2, Zenon
  <2>3. k = 0 \/ k > 0
    OBVIOUS
  <2> QED BY <2>1, <2>2, <2>3, Zenon
<1> HIDE DEF x
<1>3. y \in Word /\ (\A n \in y : n < e /\ n < 31) /\ Signed(y) = Signed(x) * Pow[k] /\ Signed(x) \in Nat /\ Pow[k] \in Nat
  <2>1. k \in 0 .. 30 /\ \A n \in x : n + k < 31
    BY <1>1
  <2>2. /\ y \in Word /\ (\A n \in y : n < 31 /\ n - k \in x /\ n >= k)
        /\ Signed(y) = Signed(x) * Pow[k] /\ Signed(x) \in Nat /\ Pow[k] \in Nat
    BY <1>1, <2>1, SignedShl
  <2> HIDE DEF y
  <2>3. \A n \in y : n \in 0 .. 31 /\ n - k \in 0 .. 22
    BY <1>1, <2>2 DEF Word, Bit
  <2>4. \A n \in y : n < e
    BY <2>3
  <2> QED BY <2>2, <2>4
<1>4. e \in 0 .. 30 /\ 31 \notin {e}
  OBVIOUS
<1>5. {e} \in Word /\ Signed({e}) = Pow[e] /\ Pow[e] \in Nat
  <2> HIDE DEF e
  <2> QED BY <1>4, SignedSingle
<1>6. Pow[e] = Pow[23] * Pow[k] /\ Pow[23] \in Nat
  <2>1. k \in 0 .. 32 /\ 23 \in 0 .. 32 /\ 23 + k <= 32
    OBVIOUS
  <2>2. \A n \in 0 .. 32 : n + k <= 32 => Pow[n + k] = Pow[n] * Pow[k]
    BY <2>1, PowSum
  <2>3. Pow[23 + k] = Pow[23] * Pow[k]
    BY <2>1, <2>2, Zenon
  <2> QED BY <2>1, <2>3, Powers
<1> HIDE DEF y, e
<1>7. y \cap {e} = {} /\ 31 \notin y /\ 31 \notin y \cup {e}
  BY <1>3, <1>4
<1>8. y \cup {e} \in Word /\ Signed(y \cup {e}) = Signed(y) + Signed({e})
  BY <1>3, <1>4, <1>5, <1>7, SignedUnion
<1>9. \A a, b, c \in Nat : a * c + b * c = (a + b) * c
  OBVIOUS
<1>10. Signed(y \cup {e}) = (Signed(x) + Pow[23]) * Pow[k]
  BY <1>3, <1>5, <1>6, <1>8, <1>9
<1> QED BY <1>1, <1>2, <1>7, <1>8, <1>10 DEF e

LEMMA WholeDown ==
    ASSUME NEW uf \in Word, NEW e \in 0 .. 22
    PROVE  /\ WholePart(uf, e) \in Word /\ 31 \notin WholePart(uf, e)
           /\ Signed(WholePart(uf, e)) = (FractionOf(uf) + Pow[23]) \div Pow[23 - e]
<1> DEFINE x == uf \cap Fraction
           k == 23 - e
           y == Shr(x, k)
<1>1. /\ x \in Word /\ (\A n \in x : n \in 0 .. 22)
      /\ FractionOf(uf) = Low(x)[23] /\ FractionOf(uf) \in Nat
  BY FractionIs
<1>2. WholePart(uf, e) = y \cup {e}
  <2>1. ~(e > 23)
    OBVIOUS
  <2> QED BY <2>1, Zenon DEF WholePart
<1> HIDE DEF x
<1>3. k \in 1 .. 23 /\ e + k = 23 /\ k \in 0 .. 32 /\ e \in 0 .. 32 /\ e + k <= 32 /\ k \in Bit
  BY DEF Bit
<1> HIDE DEF k
<1>4. y = {n \in Bit : n + k \in x}
  BY <1>3 DEF Shr
<1>5. y \in Word /\ (\A n \in y : n \in 0 .. 31 /\ n + k \in 0 .. 22)
  BY <1>1, <1>4 DEF Word, Bit
<1>6. Shifted(x, y, k)
  <2> SUFFICES ASSUME NEW n \in 0 .. 32, n + k < 32 PROVE n + k \in x <=> n \in y
    BY DEF Shifted
  <2>1. n \in Bit
    BY <1>3 DEF Bit
  <2> QED BY <1>4, <2>1
<1> HIDE DEF y
<1>7. \A n \in y : n \in 0 .. 31 /\ n < e
  BY <1>3, <1>5
<1>8. Low(x)[23] = Low(x)[k] + Low(y)[e] * Pow[k]
  <2>1. LowSplits(x, y, k, e)
    BY <1>3, <1>6, LowShift
  <2> QED BY <1>3, <2>1 DEF LowSplits
<1>9. Low(y)[31] = Low(y)[e]
  <2>1. 31 \in e .. 32 /\ \A n \in e .. 31 : n \notin y
    BY <1>7
  <2> QED BY <1>3, <2>1, LowFlat
<1>10. y \cap {e} = {} /\ 31 \notin y /\ e \in 0 .. 30 /\ 31 \notin {e}
  BY <1>7
<1>11. Signed(y) = Low(y)[31] /\ Low(y)[31] \in Nat
  BY <1>5, <1>10, SignedPlain, LowAt
<1>12. {e} \in Word /\ Signed({e}) = Pow[e] /\ Pow[e] \in Nat
  BY <1>10, SignedSingle
<1>13. y \cup {e} \in Word /\ Signed(y \cup {e}) = Signed(y) + Signed({e}) /\ 31 \notin y \cup {e}
  BY <1>5, <1>10, <1>12, SignedUnion
<1>14. Pow[23] = Pow[e] * Pow[k]
  BY <1>3, PowSum
<1>15. Low(x)[k] \in Nat /\ Low(x)[k] < Pow[k] /\ Pow[k] \in Nat
  BY <1>3, LowBound
<1>16. (FractionOf(uf) + Pow[23]) \div Pow[k] = Low(y)[e] + Pow[e]
  <2> DEFINE v == FractionOf(uf) + Pow[23]
             l == Low(x)[k]
             h == Low(y)[e]
             p == Pow[k]
             q == Pow[e]
  <2>1. v = (l + h * p) + q * p
    BY <1>1, <1>8, <1>14
  <2>2. h \in Nat
    BY <1>9, <1>11
  <2>3. v \in Nat
    BY <1>1, Powers
  <2>4. l \in Nat /\ l < p /\ p \in Nat /\ q \in Nat
    BY <1>12, <1>15
  <2> HIDE DEF v, l, h, p, q
  <2>5. v \div p = h + q
    BY <2>1, <2>2, <2>3, <2>4, DivSum
  <2> QED BY <2>5 DEF v, l, h, p, q
<1>17. Signed(y \cup {e}) = (FractionOf(uf) + Pow[23]) \div Pow[k]
  BY <1>9, <1>11, <1>12, <1>13, <1>16
<1> QED BY <1>2, <1>13, <1>17 DEF k

(* floatFloat2Int: right for every float.                                   *)
THEOREM FloatFloat2IntRight ==
    \A uf \in Word : floatFloat2Int(uf) = test_floatFloat2Int(uf)
<1> SUFFICES ASSUME NEW uf \in Word PROVE floatFloat2Int(uf) = test_floatFloat2Int(uf)
  OBVIOUS
<1> DEFINE E == ExponentOf(uf)
           e == E - 127
           F == FractionOf(uf)
           f == u2f(uf)
           size == CASE f.power >= 0 -> f.significand * 2^f.power
                     [] f.power \in -23 .. -1 -> f.significand \div 2^(-f.power)
                     [] OTHER -> 0
           whole == WholePart(uf, e)
<1>1. E \in 0 .. 255 /\ F \in Nat /\ Pow[23] = 2^23
  BY ExponentIs, FractionIs, SmallWords
<1>2. floatFloat2Int(uf) = CASE e >= 31 -> Sign [] e < 0 -> {} [] OTHER -> IF 31 \in uf THEN negate(whole) ELSE whole
  BY Zenon DEF floatFloat2Int, WholePart
<1>3. test_floatFloat2Int(uf) = IF E >= 158 THEN Sign ELSE WordOf(IF 31 \in uf THEN -size ELSE size)
  BY Zenon DEF test_floatFloat2Int
<1>4. f = IF E = 0 THEN [significand |-> F, power |-> -149] ELSE [significand |-> F + Pow[23], power |-> E - 150]
  BY <1>1, Zenon DEF u2f
<1>5. CASE E >= 158
  <2>1. e >= 31 /\ ~(e < 0)
    BY <1>1, <1>5
  <2> HIDE DEF e, whole, size
  <2> QED BY <1>2, <1>3, <1>5, <2>1
<1>6. CASE E < 127
  <2>1. e < 0 /\ ~(e >= 31) /\ ~(E >= 158)
    BY <1>1, <1>6
  <2>2. f.power < -23 /\ f.power \in Int
    <3>1. CASE E = 0
      <4> HIDE DEF f
      <4>1. f.power = -149
        BY <1>4, <3>1
      <4> QED BY <4>1
    <3>2. CASE E # 0
      <4> HIDE DEF f
      <4>1. f.power = E - 150
        BY <1>4, <3>2
      <4> QED BY <1>1, <1>6, <4>1
    <3> QED BY <3>1, <3>2
  <2>3. size = 0
    <3> HIDE DEF f
    <3>1. ~(f.power >= 0) /\ ~(f.power \in -23 .. -1)
      BY <2>2
    <3> QED BY <3>1, Zenon
  <2> HIDE DEF e, whole, size
  <2>4. floatFloat2Int(uf) = {}
    BY <1>2, <2>1
  <2>5. -size = 0
    <3>1. \A n \in Int : -n = 0 - n
      OBVIOUS
    <3>2. 0 \in Int /\ 0 - 0 = 0
      OBVIOUS
    <3> QED BY <2>3, <3>1, <3>2, Zenon
  <2>6. test_floatFloat2Int(uf) = WordOf(0)
    BY <1>3, <2>1, <2>3, <2>5
  <2> QED BY <2>4, <2>6, SmallWords
<1>7. CASE E \in 127 .. 157
  <2>1. ~(e < 0) /\ ~(e >= 31) /\ ~(E >= 158) /\ e \in 0 .. 30 /\ E # 0
    BY <1>7
  <2>2. f.significand = F + Pow[23] /\ f.power = E - 150 /\ f.power = e - 23
    <3>1. f = [significand |-> F + Pow[23], power |-> E - 150]
      BY <1>4, <2>1
    <3> HIDE DEF f, F, E
    <3>2. f.significand = F + Pow[23] /\ f.power = E - 150
      BY <3>1
    <3> QED BY <1>1, <3>2
  <2> HIDE DEF f, F, E
  <2>3. whole \in Word /\ 31 \notin whole /\ Signed(whole) = size
    <3>1. CASE e >= 23
      <4> DEFINE k == e - 23
      <4>1. k \in 0 .. 7 /\ 23 + k = e /\ f.power >= 0 /\ k \in 0 .. 32 /\ f.power = k
        BY <2>1, <2>2, <3>1
      <4> HIDE DEF k
      <4>2. size = (F + Pow[23]) * Pow[k]
        <5>1. Pow[k] = 2^k
          BY <4>1, Powers, Zenon
        <5>2. k >= 0
          BY <4>1
        <5>3. ~(f.power \in -23 .. -1)
          BY <4>1
        <5> QED BY <2>2, <4>1, <5>1, <5>2, <5>3, Zenon
      <4> HIDE DEF e, size
      <4>3. /\ WholePart(uf, 23 + k) \in Word /\ 31 \notin WholePart(uf, 23 + k)
            /\ Signed(WholePart(uf, 23 + k)) = (F + Pow[23]) * Pow[k]
        BY <4>1, WholeUp DEF F
      <4> QED BY <4>1, <4>2, <4>3
    <3>2. CASE e < 23
      <4> DEFINE k == 23 - e
      <4>1. k \in 0 .. 32 /\ e \in 0 .. 22 /\ ~(f.power >= 0) /\ f.power \in -23 .. -1 /\ -f.power = k
        BY <2>1, <2>2, <3>2
      <4> HIDE DEF k
      <4>2. size = (F + Pow[23]) \div Pow[k]
        <5>1. Pow[k] = 2^k
          BY <4>1, Powers, Zenon
        <5> QED BY <2>2, <4>1, <5>1, Zenon
      <4> HIDE DEF e, size
      <4>3. /\ WholePart(uf, e) \in Word /\ 31 \notin WholePart(uf, e)
            /\ Signed(WholePart(uf, e)) = (F + Pow[23]) \div Pow[23 - e]
        BY <4>1, WholeDown DEF F
      <4> QED BY <4>2, <4>3 DEF k
    <3> QED BY <2>1, <3>1, <3>2
  <2> HIDE DEF e, whole, size
  <2>4. floatFloat2Int(uf) = IF 31 \in uf THEN negate(whole) ELSE whole
    BY <1>2, <2>1
  <2>5. WordOf(size) = whole
    BY <2>3, WordOfSigned
  <2>6. negate(whole) = WordOf(-size)
    <3>1. whole # Sign
      BY <2>3 DEF Sign
    <3>2. negate(whole) = test_negate(whole)
      BY <2>3, NegateIs
    <3> QED BY <2>3, <3>1, <3>2 DEF test_negate
  <2> QED BY <1>3, <2>1, <2>4, <2>5, <2>6
<1> QED BY <1>1, <1>5, <1>6, <1>7

(* The reference of floatPower2, by repeated squaring: rounding at each     *)
(* step comes to rounding once, for the exponents keep their sign.          *)
Rounded(e) == CASE e > 127 -> 128 [] e < -149 -> -150 [] OTHER -> e

LEMMA RoundedIs ==
    ASSUME NEW a \in Int
    PROVE  /\ a > 127 => Rounded(a) = 128
           /\ a < -149 => Rounded(a) = -150
           /\ a <= 127 /\ a >= -149 => Rounded(a) = a
<1>1. (a > 127 => ~(a < -149)) /\ (a <= 127 /\ a >= -149 => ~(a < -149) /\ ~(a > 127)) /\ (a < -149 => ~(a > 127))
  OBVIOUS
<1> QED BY <1>1 DEF Rounded

LEMMA RoundedSum ==
    ASSUME NEW a \in Int, NEW b \in Int, (a >= 0 /\ b >= 0) \/ (a <= 0 /\ b <= 0)
    PROVE  Rounded(Rounded(a) + Rounded(b)) = Rounded(a + b)
<1> DEFINE ra == Rounded(a)
           rb == Rounded(b)
<1>1. /\ (a > 127 => ra = 128) /\ (a < -149 => ra = -150) /\ (a <= 127 /\ a >= -149 => ra = a)
      /\ (b > 127 => rb = 128) /\ (b < -149 => rb = -150) /\ (b <= 127 /\ b >= -149 => rb = b)
  BY RoundedIs
<1> HIDE DEF ra, rb
<1>2. ra \in Int /\ rb \in Int
  BY <1>1
<1> DEFINE c == ra + rb
           d == a + b
<1>3. \/ c > 127 /\ d > 127
      \/ c < -149 /\ d < -149
      \/ c <= 127 /\ c >= -149 /\ c = d
  BY <1>1, <1>2
<1>4. c \in Int /\ d \in Int
  BY <1>2
<1> HIDE DEF c, d
<1>5. Rounded(c) = Rounded(d)
  <2>1. CASE c > 127 /\ d > 127
    BY <1>4, <2>1, RoundedIs
  <2>2. CASE c < -149 /\ d < -149
    BY <1>4, <2>2, RoundedIs
  <2>3. CASE c <= 127 /\ c >= -149 /\ c = d
    BY <2>3
  <2> QED BY <1>3, <2>1, <2>2, <2>3
<1> QED BY <1>5 DEF c, d, ra, rb

(* A quotient rounded toward zero, as C casts it, adds up like numbers of   *)
(* one sign.                                                                *)
Toward(n, m) == IF n < 0 THEN 0 - m ELSE m
LEMMA TowardIs ==
    ASSUME NEW n \in Int, NEW a \in Nat, NEW b \in Nat
    PROVE  /\ Toward(n, a) \in Int /\ Toward(n, a) + Toward(n, b) = Toward(n, a + b)
           /\ \/ Toward(n, a) >= 0 /\ Toward(n, b) >= 0
              \/ Toward(n, a) <= 0 /\ Toward(n, b) <= 0
BY DEF Toward

Squares(g, n) ==
    g = [k \in 0 .. 30 |-> IF k = 0 THEN (IF n < 0 THEN -1 ELSE 1) ELSE Rounded(2 * g[k - 1])]
LEMMA SquaresAre ==
    ASSUME NEW n \in Int
    PROVE  \A k \in 0 .. 30 : (CHOOSE g : Squares(g, n))[k] = Rounded(Toward(n, Pow[k]))
<1> DEFINE v(k) == Rounded(Toward(n, Pow[k]))
           f == [k \in 0 .. 30 |-> v(k)]
<1>1. v(0) = IF n < 0 THEN -1 ELSE 1
  <2>1. Pow[0] = 1
    BY Powers
  <2>2. CASE n < 0
    <3>1. Toward(n, Pow[0]) = -1
      BY <2>1, <2>2 DEF Toward
    <3> QED BY <2>2, <3>1, RoundedIs
  <2>3. CASE ~(n < 0)
    <3>1. Toward(n, Pow[0]) = 1
      BY <2>1, <2>3 DEF Toward
    <3> QED BY <2>3, <3>1, RoundedIs
  <2> QED BY <2>2, <2>3
<1>2. ASSUME NEW k \in 0 .. 29 PROVE v(k + 1) = Rounded(2 * v(k))
  <2>1. k \in Bit /\ k \in 0 .. 32
    BY DEF Bit
  <2>2. Pow[k] \in Nat /\ Pow[k + 1] = 2 * Pow[k]
    BY <2>1, Powers
  <2> DEFINE p == Pow[k]
             a == Toward(n, p)
  <2>3. Pow[k + 1] = p + p
    BY <2>2
  <2>4. a \in Int /\ a + a = Toward(n, p + p) /\ (a >= 0 \/ a <= 0)
    <3> HIDE DEF p
    <3>1. p \in Nat
      BY <2>2 DEF p
    <3> QED BY <3>1, TowardIs
  <2> HIDE DEF p, a
  <2>5. Rounded(Rounded(a) + Rounded(a)) = Rounded(a + a)
    BY <2>4, RoundedSum
  <2>6. Rounded(a) \in Int
    BY <2>4, RoundedIs
  <2>7. Rounded(a) + Rounded(a) = 2 * Rounded(a)
    BY <2>6
  <2> QED BY <2>3, <2>4, <2>5, <2>7, Zenon DEF a, p
<1> HIDE DEF v
<1>3. Squares(f, n)
  <2>1. ASSUME NEW k \in 0 .. 30
        PROVE  v(k) = IF k = 0 THEN (IF n < 0 THEN -1 ELSE 1) ELSE Rounded(2 * f[k - 1])
    <3>1. CASE k = 0
      BY <1>1, <3>1, Zenon
    <3>2. CASE k # 0
      <4>1. k - 1 \in 0 .. 29 /\ (k - 1) + 1 = k /\ k - 1 \in 0 .. 30
        BY <3>2
      <4>2. v((k - 1) + 1) = Rounded(2 * v(k - 1)) /\ f[k - 1] = v(k - 1)
        BY <1>2, <4>1
      <4> HIDE DEF f
      <4> QED BY <3>2, <4>1, <4>2, Zenon
    <3> QED BY <3>1, <3>2
  <2> DEFINE r(k) == IF k = 0 THEN (IF n < 0 THEN -1 ELSE 1) ELSE Rounded(2 * f[k - 1])
  <2>2. \A k \in 0 .. 30 : v(k) = r(k)
    BY <2>1
  <2> HIDE DEF r
  <2>3. f = [k \in 0 .. 30 |-> r(k)]
    BY <2>2
  <2> QED BY <2>3, Zenon DEF Squares, r
<1> DEFINE g == CHOOSE h : Squares(h, n)
<1>4. Squares(g, n)
  <2> HIDE DEF f
  <2> QED BY <1>3
<1> HIDE DEF g, f
<1>5. \A k \in 0 .. 30 : g[k] = IF k = 0 THEN (IF n < 0 THEN -1 ELSE 1) ELSE Rounded(2 * g[k - 1])
  BY <1>4, Zenon DEF Squares
<1> DEFINE S == {k \in 0 .. 30 : g[k] = v(k)}
<1>6. 0 \in S
  BY <1>1, <1>5
<1>7. ASSUME NEW k \in 0 .. 30, k \in S, k < 30 PROVE k + 1 \in S
  <2>1. k + 1 \in 0 .. 30 /\ k + 1 # 0 /\ (k + 1) - 1 = k /\ k \in 0 .. 29
    BY <1>7
  <2>2. g[k + 1] = Rounded(2 * g[(k + 1) - 1])
    BY <1>5, <2>1, Zenon
  <2>3. g[k] = v(k)
    BY <1>7
  <2>4. g[k + 1] = v(k + 1)
    BY <1>2, <2>1, <2>2, <2>3, Zenon
  <2> QED BY <2>1, <2>4
<1>8. 0 .. 30 \subseteq S
  <2> HIDE DEF S
  <2> QED BY <1>6, <1>7, BoundedInduct
<1> QED BY <1>8, Zenon DEF S, v, g

Product(g, p2, size) ==
    g = [k \in 0 .. 31 |-> IF k = 0 THEN 0
                           ELSE IF k - 1 \in size THEN Rounded(g[k - 1] + p2[k - 1]) ELSE g[k - 1]]
LEMMA ProductIs ==
    ASSUME NEW n \in Int, NEW size, NEW p2, \A k \in 0 .. 30 : p2[k] = Rounded(Toward(n, Pow[k]))
    PROVE  (CHOOSE g : Product(g, p2, size))[31] = Rounded(Toward(n, Low(size)[31]))
<1> DEFINE v(k) == Rounded(Toward(n, Low(size)[k]))
           f == [k \in 0 .. 31 |-> v(k)]
<1>1. v(0) = 0
  <2>1. Low(size)[0] = 0
    BY LowAt
  <2>2. Toward(n, Low(size)[0]) = 0
    BY <2>1 DEF Toward
  <2> QED BY <2>2, RoundedIs
<1>2. ASSUME NEW k \in 0 .. 30
      PROVE  v(k + 1) = IF k \in size THEN Rounded(v(k) + p2[k]) ELSE v(k)
  <2>1. k \in Bit /\ k \in 0 .. 32
    BY DEF Bit
  <2> DEFINE l == Low(size)[k]
             p == Pow[k]
             a == Toward(n, l)
             b == Toward(n, p)
  <2>2. l \in Nat /\ p \in Nat /\ Low(size)[k + 1] = l + Worth(size, k) /\ p2[k] = Rounded(b)
    BY <2>1, LowAt, Powers
  <2>3. CASE k \in size
    <3>1. Worth(size, k) = p
      BY <2>3, WorthIs, Zenon
    <3>2. Low(size)[k + 1] = l + p
      BY <2>2, <3>1, Zenon
    <3>3. a \in Int /\ b \in Int /\ a + b = Toward(n, l + p) /\ ((a >= 0 /\ b >= 0) \/ (a <= 0 /\ b <= 0))
      <4> HIDE DEF l, p
      <4> QED BY <2>2, TowardIs
    <3> HIDE DEF a, b
    <3>4. Rounded(Rounded(a) + Rounded(b)) = Rounded(a + b)
      BY <3>3, RoundedSum
    <3> QED BY <2>2, <2>3, <3>2, <3>3, <3>4, Zenon DEF a
  <2>4. CASE k \notin size
    <3>1. Worth(size, k) = 0
      BY <2>4, WorthIs, Zenon
    <3>2. Low(size)[k + 1] = l
      BY <2>2, <3>1
    <3> QED BY <2>4, <3>2, Zenon
  <2> QED BY <2>3, <2>4
<1> HIDE DEF v
<1>3. Product(f, p2, size)
  <2> DEFINE r(k) == IF k = 0 THEN 0
                     ELSE IF k - 1 \in size THEN Rounded(f[k - 1] + p2[k - 1]) ELSE f[k - 1]
  <2>1. ASSUME NEW k \in 0 .. 31 PROVE v(k) = r(k)
    <3>1. CASE k = 0
      BY <1>1, <3>1, Zenon
    <3>2. CASE k # 0
      <4>1. k - 1 \in 0 .. 30 /\ (k - 1) + 1 = k /\ k - 1 \in 0 .. 31
        BY <3>2
      <4>2. /\ v((k - 1) + 1) = IF k - 1 \in size THEN Rounded(v(k - 1) + p2[k - 1]) ELSE v(k - 1)
            /\ f[k - 1] = v(k - 1)
        BY <1>2, <4>1
      <4> HIDE DEF f
      <4> QED BY <3>2, <4>1, <4>2, Zenon
    <3> QED BY <3>1, <3>2
  <2> HIDE DEF r
  <2>3. f = [k \in 0 .. 31 |-> r(k)]
    BY <2>1
  <2> QED BY <2>3, Zenon DEF Product, r
<1> DEFINE g == CHOOSE h : Product(h, p2, size)
<1>4. Product(g, p2, size)
  <2> HIDE DEF f
  <2> QED BY <1>3
<1> HIDE DEF g, f
<1>5. \A k \in 0 .. 31 : g[k] = IF k = 0 THEN 0
                           ELSE IF k - 1 \in size THEN Rounded(g[k - 1] + p2[k - 1]) ELSE g[k - 1]
  BY <1>4, Zenon DEF Product
<1> DEFINE S == {k \in 0 .. 31 : g[k] = v(k)}
<1>6. 0 \in S
  BY <1>1, <1>5
<1>7. ASSUME NEW k \in 0 .. 31, k \in S, k < 31 PROVE k + 1 \in S
  <2>1. k + 1 \in 0 .. 31 /\ k + 1 # 0 /\ (k + 1) - 1 = k /\ k \in 0 .. 30
    BY <1>7
  <2>2. g[k + 1] = IF (k + 1) - 1 \in size THEN Rounded(g[(k + 1) - 1] + p2[(k + 1) - 1])
                   ELSE g[(k + 1) - 1]
    BY <1>5, <2>1, Zenon
  <2>3. g[k] = v(k)
    BY <1>7
  <2>4. g[k + 1] = v(k + 1)
    BY <1>2, <2>1, <2>2, <2>3, Zenon
  <2> QED BY <2>1, <2>4
<1>8. 0 .. 31 \subseteq S
  <2> HIDE DEF S
  <2> QED BY <1>6, <1>7, BoundedInduct
<1>9. 31 \in 0 .. 31
  OBVIOUS
<1> QED BY <1>8, <1>9, Zenon DEF S, v, g

LEMMA PowBelow == ASSUME NEW k \in 0 .. 22 PROVE Pow[k] \in Nat /\ Pow[k] < Pow[23]
<1>1. k \in Bit /\ k + 1 \in 0 .. 32 /\ 22 - k \in 0 .. 32 /\ (22 - k) + (k + 1) = 23
  BY DEF Bit
<1>2. Pow[(22 - k) + (k + 1)] = Pow[22 - k] * Pow[k + 1]
  BY <1>1, PowSum
<1>3. /\ Pow[k + 1] = 2 * Pow[k] /\ Pow[k] \in Nat /\ Pow[k] > 0
      /\ Pow[22 - k] \in Nat /\ Pow[22 - k] > 0
  <2>1. k \in 0 .. 32
    OBVIOUS
  <2> QED BY <1>1, <2>1, Powers
<1>4. \A a, b \in Nat : a > 0 /\ b > 0 => a * (2 * b) > b
  OBVIOUS
<1> QED BY <1>1, <1>2, <1>3, <1>4

(* floatPower2: right for every int.                                        *)
THEOREM FloatPower2Right == \A x \in Word : floatPower2(x) = test_floatPower2(x)
<1> SUFFICES ASSUME NEW x \in Word PROVE floatPower2(x) = test_floatPower2(x)
  OBVIOUS
<1> DEFINE n == Signed(x)
           size == IF n < 0 THEN WordOf(-n) ELSE x
           p2 == CHOOSE g : Squares(g, n)
           e == (CHOOSE g : Product(g, p2, size))[31]
           f == IF e < -126 THEN [significand |-> 2^(e + 149), power |-> -149]
                            ELSE [significand |-> 2^23, power |-> e - 23]
<1>1. floatPower2(x) = CASE n > 127 -> Inf [] n < -149 -> {}
                         [] n \in -149 .. -127 -> Shl({0}, n + 149)
                         [] OTHER -> Shl(WordOf(n + 127), 23)
  BY Zenon DEF floatPower2
<1>2. test_floatPower2(x) = CASE x = Sign -> {} [] e = -150 -> {} [] e = 128 -> Inf [] OTHER -> f2u(f)
  BY Zenon DEF test_floatPower2, Squares, Product, Rounded
<1>3. n \in TMin .. TMax /\ n \in Int /\ TMin = 0 - Pow[31] /\ TMax = Pow[31] - 1 /\ Pow[31] > 1000 /\ Pow[31] \in Nat
  BY SignedLow, Powers
<1>4. Sign \in Word /\ Signed(Sign) = TMin
  <2>1. Sign \in Word /\ 31 \in Sign /\ 31 \in Bit /\ 31 \in 0 .. 32
    BY DEF Sign, Word, Bit
  <2>2. Low(Sign)[31] = 0
    <3>1. \A k \in 0 .. 31 - 1 : k \notin Sign
      BY DEF Sign
    <3> QED BY <2>1, <3>1, LowNone
  <2>3. Signed(Sign) = Low(Sign)[31] - Pow[31]
    BY <2>1, SignedLow
  <2> QED BY <1>3, <2>1, <2>2, <2>3
<1>5. CASE x = Sign
  <2>1. n < -149 /\ ~(n > 127) /\ ~(n \in -149 .. -127)
    BY <1>3, <1>4, <1>5
  <2> HIDE DEF n, size, f, p2
  <2>2. floatPower2(x) = {}
    BY <1>1, <2>1
  <2>3. \A k \in 0 .. 30 : p2[k] = Rounded(Toward(n, Pow[k]))
    BY <1>3, SquaresAre DEF p2
  <2>4. e = Rounded(Toward(n, Low(size)[31]))
    BY <1>3, <2>3, ProductIs
  <2> HIDE DEF e
  <2>5. e # 128
    <3>1. Toward(n, Low(size)[31]) = 0 - Low(size)[31] /\ Low(size)[31] \in Nat
      BY <1>3, <2>1, LowAt DEF Toward
    <3> DEFINE t == Toward(n, Low(size)[31])
    <3>2. t \in Int /\ t <= 127
      BY <3>1
    <3> HIDE DEF t
    <3>3. Rounded(t) # 128
      BY <3>2, RoundedIs
    <3> QED BY <2>4, <3>3 DEF t
  <2>6. test_floatPower2(x) = {}
    BY <1>2, <1>5, <2>5
  <2> QED BY <2>2, <2>6
<1>6. CASE x # Sign
  <2>1. n # TMin
    BY <1>4, <1>6, SignedDecides
  <2>2. size \in Word /\ 31 \notin size /\ Toward(n, Low(size)[31]) = n
    <3>1. CASE n < 0
      <4> HIDE DEF n
      <4>1. -n = 0 - n /\ -n \in TMin .. TMax /\ ~(-n < 0) /\ -n \in Int
        BY <1>3, <2>1, <3>1
      <4>2. size = WordOf(-n)
        BY <3>1
      <4> HIDE DEF size
      <4>3. size \in Word /\ Signed(size) = -n
        BY <4>1, <4>2, WordOfWord, SignedWordOf
      <4>4. 31 \notin size
        BY <4>1, <4>3, SignedLow
      <4>5. Low(size)[31] = -n
        BY <4>3, <4>4, SignedPlain
      <4>6. 0 - (-n) = n
        BY <1>3, <4>1
      <4> QED BY <3>1, <4>3, <4>4, <4>5, <4>6, Zenon DEF Toward
    <3>2. CASE ~(n < 0)
      <4>1. size = x
        BY <3>2
      <4>2. 31 \notin x
        BY <3>2, SignedLow
      <4>3. Signed(x) = Low(x)[31]
        BY <4>2, SignedPlain
      <4> QED BY <3>2, <4>1, <4>2, <4>3, Zenon DEF Toward
    <3> QED BY <3>1, <3>2
  <2> HIDE DEF size, n, p2
  <2>3. \A k \in 0 .. 30 : p2[k] = Rounded(Toward(n, Pow[k]))
    BY <1>3, SquaresAre DEF p2
  <2>4. e = Rounded(n)
    BY <1>3, <2>2, <2>3, ProductIs
  <2> HIDE DEF e
  <2>5. /\ n > 127 => e = 128
        /\ n < -149 => e = -150
        /\ n <= 127 /\ n >= -149 => e = n
    BY <1>3, <2>4, RoundedIs
  <2>6. CASE n > 127
    <3>1. ~(n < -149) /\ ~(n \in -149 .. -127) /\ e = 128 /\ e # -150
      BY <1>3, <2>5, <2>6
    <3> HIDE DEF f
    <3> QED BY <1>1, <1>2, <1>6, <2>6, <3>1
  <2>7. CASE n < -149
    <3>1. ~(n > 127) /\ ~(n \in -149 .. -127) /\ e = -150 /\ e # 128
      BY <1>3, <2>5, <2>7
    <3> HIDE DEF f
    <3> QED BY <1>1, <1>2, <1>6, <2>7, <3>1
  <2>8. CASE n \in -149 .. -127
    <3> DEFINE k == n + 149
    <3>1. /\ ~(n > 127) /\ ~(n < -149) /\ e = n /\ e # 128 /\ e # -150 /\ e < -126
          /\ k \in 0 .. 22 /\ k \in 0 .. 32 /\ k \in 0 .. 30 /\ k \in Bit
      BY <1>3, <2>5, <2>8 DEF Bit
    <3>2. f.significand = Pow[k] /\ f.power = -149
      <4>1. Pow[k] = 2^k
        <5>1. k \in 0 .. 32
          BY <3>1
        <5> HIDE DEF k
        <5> QED BY <5>1, Powers, Zenon
      <4>2. f = [significand |-> 2^(n + 149), power |-> -149]
        <5>1. e = n /\ e < -126
          BY <3>1
        <5> QED BY <5>1, Zenon
      <4> HIDE DEF f
      <4>3. f.significand = 2^(n + 149) /\ f.power = -149
        BY <4>2
      <4> QED BY <4>1, <4>3, Zenon
    <3> HIDE DEF f, k
    <3>3. Pow[k] \in Nat /\ Pow[k] < Pow[23] /\ -149 \in Int
      BY <3>1, PowBelow
    <3>4. f2u(f) = WordOf(Pow[k])
      <4> DEFINE m == Pow[k]
                 d == -149
      <4>1. f.significand = m /\ f.power = d /\ m \in Nat /\ d \in Int /\ m < Pow[23] /\ d = -149
        BY <3>2, <3>3
      <4> HIDE DEF m, d
      <4>2. f2u(f) = WordOf(m)
        BY <4>1, F2uIs
      <4> QED BY <4>2 DEF m
    <3>5. {k} \in Word /\ Signed({k}) = Pow[k]
      BY <3>1, SignedSingle, ZenonT(60)
    <3>6. WordOf(Pow[k]) = {k}
      <4>1. WordOf(Signed({k})) = {k}
        BY <3>5, WordOfSigned
      <4> QED BY <3>5, <4>1, Zenon
    <3>7. Shl({0}, k) = {k}
      <4>1. Shl({0}, k) = {m \in Bit : m - k \in {0}}
        BY <3>1 DEF Shl
      <4>2. \A m \in Bit : m - k \in {0} <=> m = k
        BY <3>1 DEF Bit
      <4> QED BY <3>1, <4>1, <4>2
    <3>8. floatPower2(x) = Shl({0}, k)
      BY <1>1, <2>8, <3>1 DEF k
    <3>9. test_floatPower2(x) = f2u(f)
      BY <1>2, <1>6, <3>1
    <3> QED BY <3>4, <3>6, <3>7, <3>8, <3>9
  <2>9. CASE n \in -126 .. 127
    <3>1. /\ ~(n > 127) /\ ~(n < -149) /\ ~(n \in -149 .. -127) /\ e = n /\ e # 128 /\ e # -150
          /\ ~(e < -126) /\ n - 23 \in Int /\ n - 23 <= 104 /\ (n - 23) + 150 = n + 127
      BY <1>3, <2>5, <2>9
    <3>2. f.significand = Pow[23] /\ f.power = n - 23
      <4>1. Pow[23] = 2^23
        BY SmallWords
      <4>2. f = [significand |-> Pow[23], power |-> n - 23]
        BY <3>1, <4>1, Zenon
      <4> HIDE DEF f
      <4> QED BY <4>2
    <3> HIDE DEF f
    <3>3. Pow[23] \in Nat /\ Pow[23] >= Pow[23] /\ Pow[23] - Pow[23] = 0
      BY Powers
    <3>4. f2u(f) = WordOf(Pow[23] - Pow[23]) \cup Shl(WordOf((n - 23) + 150), 23)
      BY <3>1, <3>2, <3>3, F2uIs
    <3>5. f2u(f) = {} \cup Shl(WordOf(n + 127), 23)
      BY <3>1, <3>3, <3>4, SmallWords
    <3>6. floatPower2(x) = Shl(WordOf(n + 127), 23)
      BY <1>1, <3>1
    <3>7. test_floatPower2(x) = f2u(f)
      BY <1>2, <1>6, <3>1
    <3> QED BY <3>5, <3>6, <3>7
  <2> QED BY <1>3, <2>6, <2>7, <2>8, <2>9
<1> QED BY <1>5, <1>6

-----------------------------------------------------------------------------
(* The table of decl.c.                                                     *)
Puzzles == 1 .. 13

Names == {"bitXor", "tmin", "isTmax", "allOddBits", "negate", "isAsciiDigit", "conditional",
          "isLessOrEqual", "logicalNeg", "howManyBits", "floatScale2", "floatFloat2Int",
          "floatPower2"}

LEMMA TestSet ==
    /\ Len(test_set) = 13
    /\ \A n \in Puzzles : test_set[n].name \in Names
    /\ \A n \in Puzzles : /\ test_set[n].args \in 0 .. 3 /\ test_set[n].rating \in Nat
                          /\ test_set[n].range \in {"int", "float"}
    /\ \A n, m \in Puzzles : test_set[n].name = test_set[m].name => n = m
<1>1. Len(test_set) = 13
  BY DEF test_set
<1>2. ASSUME NEW n \in Puzzles
      PROVE  /\ test_set[n].args \in 0 .. 3 /\ test_set[n].rating \in Nat
             /\ test_set[n].range \in {"int", "float"}
  BY DEF test_set, Puzzle, Puzzles
<1> DEFINE names == << "bitXor", "tmin", "isTmax", "allOddBits", "negate", "isAsciiDigit",
                       "conditional", "isLessOrEqual", "logicalNeg", "howManyBits",
                       "floatScale2", "floatFloat2Int", "floatPower2" >>
<1>3. ASSUME NEW n \in Puzzles PROVE test_set[n].name = names[n]
  BY DEF test_set, Puzzle, Puzzles
<1>4. ASSUME NEW n \in Puzzles, NEW m \in Puzzles, names[n] = names[m] PROVE n = m
  BY <1>4 DEF Puzzles
<1>5. ASSUME NEW n \in Puzzles PROVE names[n] \in Names
  BY DEF Puzzles, Names
<1> HIDE DEF names
<1> QED BY <1>1, <1>2, <1>3, <1>4, <1>5

FloatRange(test_range) == IF test_range > 2^23 THEN 2^23 ELSE test_range
LEMMA FloatRangeIs ==
    ASSUME NEW test_range \in Nat \ {0}
    PROVE  FloatRange(test_range) \in Nat \ {0} /\ FloatRange(test_range) <= Pow[23]
<1>1. Pow[23] = 2^23 /\ Pow[23] \in Nat /\ Pow[23] > 0
  BY SmallWords, Powers
<1>2. FloatRange(test_range) = IF test_range > Pow[23] THEN Pow[23] ELSE test_range
  BY <1>1, Zenon DEF FloatRange
<1> QED BY <1>1, <1>2

(* The bits of the magnitudes around a step, without and with the sign, in   *)
(* the order in which gen_vals lists them, and those of the special values. *)
Minus(n) == WordOf(n) \cup Sign
Around(k) ==
    <<WordOf(k), Minus(k), WordOf(2^23 + k), WordOf(2^23 - k), Minus(2^23 + k), Minus(2^23 - k),
      WordOf(127 * 2^23 + k), WordOf(127 * 2^23 - k), Minus(127 * 2^23 + k), Minus(127 * 2^23 - k),
      WordOf(254 * 2^23 - k), Minus(254 * 2^23 - k)>>
Special == <<WordOf(255 * 2^23), Minus(255 * 2^23), WordOf(255 * 2^23 + 2^22), Minus(255 * 2^23 + 2^22)>>
FloatVal(n, range) ==
    IF n <= 12 * range THEN Around((n - 1) \div 12)[((n - 1) % 12) + 1] ELSE Special[n - 12 * range]

LEMMA FloatValsAre ==
    ASSUME NEW test_range
    PROVE  FloatVals(test_range) =
               [n \in 1 .. 12 * FloatRange(test_range) + 4 |-> FloatVal(n, FloatRange(test_range))]
BY Zenon DEF FloatVals, FloatVal, Around, Minus, Special, FloatRange

(* Only the largest exponent below infinity can be doubled too far.         *)
LEMMA TooLargeIs ==
    ASSUME NEW n \in 0 .. TMax, DoubleTooLarge(WordOf(n))
    PROVE  254 * Pow[23] < n /\ n < 255 * Pow[23]
<1> DEFINE w == WordOf(n)
           x == w \cap Exponent
           y == Shr(x, 23)
           P == Pow[23]
<1>1. n \in TMin .. TMax /\ n \in Nat /\ ~(n < 0)
  BY Powers
<1>2. w \in Word /\ Signed(w) = n
  BY <1>1, WordOfWord, SignedWordOf
<1>3. x = 24 .. 30 /\ w \cap Fraction # {}
  BY DEF DoubleTooLarge
<1> HIDE DEF w
<1>4. 31 \notin w
  BY <1>1, <1>2, SignedLow
<1>5. Low(w)[31] = n
  BY <1>2, <1>4, SignedPlain
<1>6. Shifted(w, y, 23)
  <2> SUFFICES ASSUME NEW k \in 0 .. 32, k + 23 < 32 PROVE k + 23 \in w <=> k \in y
    BY DEF Shifted
  <2>1. k \in Bit /\ (k + 23 \in Exponent \/ k + 23 = 31)
    BY DEF Bit, Exponent
  <2>2. y = {m \in Bit : m + 23 \in x}
    BY DEF Shr, Bit
  <2>3. 31 \notin Exponent
    BY DEF Exponent
  <2> QED BY <1>4, <2>1, <2>2, <2>3
<1>7. n = Low(w)[23] + Low(y)[8] * P
  <2>1. 23 \in 0 .. 32 /\ 8 \in 0 .. 32 /\ 8 + 23 <= 32 /\ 8 + 23 = 31
    OBVIOUS
  <2> HIDE DEF y
  <2>2. LowSplits(w, y, 23, 8)
    BY <1>6, <2>1, LowShift
  <2> QED BY <1>5, <2>1, <2>2 DEF LowSplits
<1>8. Low(y)[8] = 254
  <2>1. ExponentOf(w) = Low(y)[8]
    BY <1>2, ExponentIs
  <2>2. ExponentOf(w) = 254
    BY <1>2, <1>3, ExponentCases
  <2> QED BY <2>1, <2>2
<1> HIDE DEF y
<1>9. Low(w)[23] \in Nat /\ Low(w)[23] < P /\ P \in Nat
  BY LowBound
<1>10. Low(w)[23] # 0
  <2> SUFFICES ASSUME Low(w)[23] = 0 PROVE FALSE
    OBVIOUS
  <2> DEFINE e == {}
  <2>1. Low(w)[23] = Low(e)[23] /\ 23 \in 0 .. 32 /\ \A k : k \notin e
    BY LowEmpty
  <2> HIDE DEF e
  <2>2. \A k \in 0 .. 23 - 1 : k \in w <=> k \in e
    BY <2>1, LowDecides, ZenonT(60)
  <2>3. Fraction = 0 .. 23 - 1
    BY DEF Fraction
  <2> QED BY <1>3, <2>1, <2>2, <2>3
<1> HIDE DEF P
<1>11. 254 * P < n /\ n < 255 * P
  BY <1>7, <1>8, <1>9, <1>10
<1> QED BY <1>11 DEF P

(* What gen_vals chooses is a magnitude, without or with the sign, and none *)
(* that is doubled too far: with a step of at most 2^23, magnitudes stay at *)
(* or below 2^127, or are infinite.                                         *)
Harmless(M) == M \in 0 .. TMax /\ ~(254 * Pow[23] < M /\ M < 255 * Pow[23])
LEMMA FloatValIs ==
    ASSUME NEW range \in Nat \ {0}, range <= Pow[23], NEW n \in 1 .. 12 * range + 4
    PROVE  \E M : Harmless(M) /\ FloatVal(n, range) \in {WordOf(M), Minus(M)}
<1> DEFINE P == 2^23
           Q == 2^22
           k == (n - 1) \div 12
           r == (n - 1) % 12
           w == FloatVal(n, range)
<1>1. P = Pow[23] /\ P \in Nat /\ P > 0 /\ TMax = 256 * P - 1
  BY SmallWords, Powers
<1>2. Q \in Nat /\ P = 2 * Q
  <2>1. 22 \in Bit /\ 22 + 1 = 23 /\ 22 \in 0 .. 32
    BY DEF Bit
  <2>2. Pow[22] = Q
    BY <2>1, Powers, ZenonT(60)
  <2>3. Pow[22 + 1] = 2 * Pow[22] /\ Pow[22] \in Nat
    BY <2>1, Powers
  <2> HIDE DEF P, Q
  <2> QED BY <1>1, <2>1, <2>2, <2>3
<1>3. CASE n <= 12 * range
  <2> DEFINE b == P + k
             c == P - k
             d == 127 * P + k
             e == 127 * P - k
             f == 254 * P - k
  <2>1. w = <<WordOf(k), Minus(k), WordOf(b), WordOf(c), Minus(b), Minus(c),
              WordOf(d), WordOf(e), Minus(d), Minus(e), WordOf(f), Minus(f)>>[r + 1]
    BY <1>3, Zenon DEF FloatVal, Around
  <2> HIDE DEF P, Q, w
  <2>2. k \in Nat /\ k < range /\ k < P
    BY <1>1, <1>3
  <2>3. r \in 0 .. 11
    OBVIOUS
  <2> HIDE DEF k, r
  <2>4. Harmless(k) /\ Harmless(b) /\ Harmless(c) /\ Harmless(d) /\ Harmless(e) /\ Harmless(f)
    BY <1>1, <2>2 DEF Harmless
  <2> HIDE DEF b, c, d, e, f
  <2>5. w \in {WordOf(k), WordOf(b), WordOf(c), WordOf(d), WordOf(e), WordOf(f)}
            \cup {Minus(k), Minus(b), Minus(c), Minus(d), Minus(e), Minus(f)}
    <3>1. r = 0 \/ r = 1 \/ r = 2 \/ r = 3 \/ r = 4 \/ r = 5 \/ r = 6 \/ r = 7 \/ r = 8 \/ r = 9
          \/ r = 10 \/ r = 11
      BY <2>3
    <3> QED BY <2>1, <3>1
  <2> QED BY <2>4, <2>5 DEF w
<1>4. CASE ~(n <= 12 * range)
  <2> DEFINE inf == 255 * P
             nan == 255 * P + Q
             s == n - 12 * range
  <2>1. w = <<WordOf(inf), Minus(inf), WordOf(nan), Minus(nan)>>[s]
    BY <1>4, Zenon DEF FloatVal, Special
  <2> HIDE DEF P, Q, w
  <2>2. s = 1 \/ s = 2 \/ s = 3 \/ s = 4
    BY <1>4
  <2>3. Harmless(inf) /\ Harmless(nan)
    BY <1>1, <1>2 DEF Harmless
  <2> HIDE DEF inf, nan, s
  <2>4. w \in {WordOf(inf), Minus(inf), WordOf(nan), Minus(nan)}
    BY <2>1, <2>2
  <2> QED BY <2>3, <2>4 DEF w
<1> QED BY <1>3, <1>4

(* What gen_vals returns is never empty, and holds words.                   *)
LEMMA FloatValsOK ==
    ASSUME NEW test_range \in Nat \ {0}
    PROVE  FloatVals(test_range) \in Seq(Word) /\ Len(FloatVals(test_range)) > 0
<1>1. Sign \in Word
  BY DEF Sign, Word, Bit
<1>2. \A n : WordOf(n) \in Word /\ Minus(n) \in Word
  BY <1>1, WordOfWord DEF Word, Minus
<1> DEFINE range == FloatRange(test_range)
           size == 12 * range + 4
<1>3. range \in Nat \ {0} /\ range <= Pow[23]
  BY FloatRangeIs
<1>4. size \in Nat /\ size > 0
  <2> HIDE DEF range
  <2> QED BY <1>3
<1> HIDE DEF range
<1>5. FloatVals(test_range) \in [1 .. size -> Word]
  <2>1. \A n \in 1 .. size : FloatVal(n, range) \in Word
    BY <1>2, <1>3, FloatValIs
  <2>2. FloatVals(test_range) = [n \in 1 .. size |-> FloatVal(n, range)]
    BY FloatValsAre DEF range
  <2> QED BY <2>1, <2>2
<1> HIDE DEF size
<1> QED BY <1>4, <1>5

LEMMA FloatValsSmall ==
    ASSUME NEW test_range \in Nat \ {0}, NEW n \in DOMAIN FloatVals(test_range)
    PROVE  ~DoubleTooLarge(FloatVals(test_range)[n])
<1> DEFINE range == FloatRange(test_range)
           w == FloatVals(test_range)[n]
<1>1. range \in Nat \ {0} /\ range <= Pow[23]
  BY FloatRangeIs
<1>2. n \in 1 .. 12 * range + 4 /\ w = FloatVal(n, range)
  BY FloatValsAre
<1> HIDE DEF range, w
<1>3. PICK M : Harmless(M) /\ w \in {WordOf(M), Minus(M)}
  BY <1>1, <1>2, FloatValIs
<1>4. ~DoubleTooLarge(WordOf(M))
  BY <1>3, TooLargeIs DEF Harmless
<1>5. w \cap Exponent = WordOf(M) \cap Exponent /\ w \cap Fraction = WordOf(M) \cap Fraction
  <2>1. Sign \cap Exponent = {} /\ Sign \cap Fraction = {}
    BY DEF Sign, Exponent, Fraction
  <2> QED BY <1>3, <2>1 DEF Minus
<1> QED BY <1>4, <1>5 DEF DoubleTooLarge, w

LEMMA IntValsOK ==
    ASSUME NEW range \in Nat \ {0}, NEW arg \in 1 .. 3
    PROVE  IntVals(range, arg) \in Seq(Word) /\ Len(IntVals(range, arg)) > 0
<1> DEFINE size == 5 * range
           L == Len(RandomWords)
           random_val(k) == RandomWords[(((arg - 1) * range + k) % L) + 1]
           Element(n) == LET k == (n - 1) \div 5
                         IN CASE n % 5 = 1 -> WordOf(TMin + k)
                              [] n % 5 = 2 -> WordOf(TMax - k)
                              [] n % 5 = 3 -> WordOf(k)
                              [] n % 5 = 4 -> WordOf(-k)
                              [] OTHER -> random_val(k)
<1>1. size \in Nat /\ size > 0
  OBVIOUS
<1>2. L \in Nat \ {0} /\ \A m \in 1 .. L : RandomWords[m] \in Word
  BY BtestAssumption
<1>3. ASSUME NEW k \in Int PROVE random_val(k) \in Word
  <2> HIDE DEF L
  <2>1. (arg - 1) * range + k \in Int
    OBVIOUS
  <2>2. \A v \in Int : (v % L) + 1 \in 1 .. L
    BY <1>2
  <2> QED BY <2>1, <2>2, <1>2
<1>4. ASSUME NEW n \in 1 .. size PROVE Element(n) \in Word
  <2>1. (n - 1) \div 5 \in Int
    BY <1>1
  <2> HIDE DEF random_val, size
  <2> QED BY <2>1, <1>3, WordOfWord
<1>5. IntVals(range, arg) = [n \in 1 .. size |-> Element(n)]
  BY DEF IntVals
<1> HIDE DEF size, Element
<1>6. IntVals(range, arg) \in [1 .. size -> Word]
  BY <1>4, <1>5
<1> QED BY <1>1, <1>6

FixedArguments == [1 .. 3 -> [given : BOOLEAN, val : Word]]

LEMMA ValuesOK ==
    ASSUME opt.fixed \in FixedArguments, i \in Puzzles, NEW arg \in 1 .. 3
    PROVE  Values(arg) \in Seq(Word) /\ Len(Values(arg)) > 0
<1> DEFINE puzzle == test_set[i]
           fixed == opt.fixed
<1>1. puzzle.args \in 0 .. 3 /\ puzzle.range \in {"int", "float"}
  BY TestSet
<1>2. \A w \in Word : <<w>> \in Seq(Word) /\ Len(<<w>>) > 0
  OBVIOUS
<1>3. Values(arg) = gen_vals(fixed, puzzle, arg)
  BY DEF Values
<1> HIDE DEF puzzle
<1>4. CASE arg > puzzle.args
  <2>1. {} \in Word
    BY DEF Word
  <2> QED BY <1>2, <1>3, <1>4, <2>1 DEF gen_vals
<1>5. CASE ~(arg > puzzle.args) /\ fixed[arg].given
  BY <1>2, <1>3, <1>5 DEF gen_vals, FixedArguments
<1>6. CASE ~(arg > puzzle.args) /\ ~fixed[arg].given /\ puzzle.range = "float"
  <2>1. Values(arg) = FloatVals(arg_test_range[1])
    BY <1>3, <1>6 DEF gen_vals, Generated
  <2>2. arg_test_range[1] \in Nat \ {0}
    BY BtestAssumption
  <2> QED BY <2>1, <2>2, FloatValsOK
<1>7. CASE ~(arg > puzzle.args) /\ ~fixed[arg].given /\ puzzle.range # "float"
  <2>1. puzzle.args \in 1 .. 3 /\ arg \in 1 .. puzzle.args
    BY <1>1, <1>7
  <2>2. Values(arg) = IntVals(arg_test_range[puzzle.args], arg)
    BY <1>3, <1>7, <2>1 DEF gen_vals, Generated
  <2>3. arg_test_range[puzzle.args] \in Nat \ {0}
    BY <2>1, BtestAssumption
  <2> QED BY <2>2, <2>3, IntValsOK
<1> QED BY <1>4, <1>5, <1>6, <1>7

-----------------------------------------------------------------------------
(* The invariant.  An alarm belongs to the function under test, or to the   *)
(* last one that was scored, which then ended by its tests.                 *)
Last == report[Len(report)]
AlarmOwner ==
    alarm =>
        /\ pc # "main" /\ opt.limit > 0
        /\ env \in Puzzles /\ Selected(env)
        /\ pc = "test" => env = i
        /\ pc = "score" => env = i /\ by = "tests"
        /\ pc \in {"loop", "generate"} =>
              /\ report # <<>> /\ Last.by = "tests" /\ Last.puzzle = env
              /\ env < i /\ (opt.fname = {} => i = env + 1)

(* Functions are scored in order, but for what a late alarm does.           *)
InOrder ==
    /\ pc = "main" => report = <<>>
    /\ pc \in {"loop", "generate", "test", "score"} /\ report # <<>> =>
          \/ Last.puzzle < i
          \/ pc = "score" /\ by = "again" /\ Last.puzzle = i /\ Last.by = "tests"
    /\ pc = "score" /\ by = "unstarted" =>
          report # <<>> /\ Last.by = "tests" /\ i = Last.puzzle + 1

(* The values before a1 agreed; the tests ended at a value that did not.    *)
Progress ==
    pc = "test" => \A k \in 1 .. a1 - 1 : AgreeOn(test_set[i].name, Values(1)[k])
Failure ==
    pc = "score" /\ terrors = 1 /\ by = "tests" =>
        a1 \in DOMAIN Values(1) /\ ~AgreeOn(test_set[i].name, Values(1)[a1])


-----------------------------------------------------------------------------
(* Types.                                                                   *)
OptType == [fname : SUBSET STRING, rating : Int, limit : Int, fixed : FixedArguments]
Causes == {"tests", "timeout", "unstarted", "again"}
Reported == [puzzle : Puzzles, errors : {0, 1}, by : Causes]

(* TypeOK, conjunct by conjunct, with the length of the table put in.       *)
Types ==
    /\ pc \in PCs
    /\ argv \in Seq(Options)
    /\ opt \in OptType
    /\ pc = "usage" \/ opt.rating >= 0
    /\ i \in 1 .. 14
    /\ pc \in {"generate", "test", "score"} => i <= 13 /\ Selected(i)
    /\ pc = "test" => a1 \in DOMAIN Values(1)
    /\ terrors \in {0, 1} /\ by \in Causes
    /\ alarm \in BOOLEAN /\ env \in 0 .. 13
    /\ max_points \in Nat /\ points \in 0 .. max_points
    /\ report \in Seq(Reported)
    /\ alarms \in 0 .. MaxAlarms

LEMMA TypesIsTypeOK == TypeOK <=> Types
<1>1. Len(test_set) = 13
  BY TestSet
<1> QED BY ONLY <1>1 DEF TypeOK, Types, OptType, FixedArguments, Reported, Causes, Puzzles

LEMMA TypesNext == Types' <=> TypeOK'
BY TypesIsTypeOK, PTL

LEMMA SetOption ==
    ASSUME opt \in OptType
    PROVE  /\ \A name \in STRING : [opt EXCEPT !.fname = {name}] \in OptType
           /\ \A n \in Int : [opt EXCEPT !.rating = n] \in OptType
           /\ \A n \in Int : [opt EXCEPT !.limit = n] \in OptType
           /\ \A arg \in 1 .. 3, w \in Word :
                 [opt EXCEPT !.fixed[arg] = [given |-> TRUE, val |-> w]] \in OptType
<1>1. ASSUME NEW name \in STRING PROVE [opt EXCEPT !.fname = {name}] \in OptType
  BY DEF OptType
<1>2. ASSUME NEW n \in Int
      PROVE  [opt EXCEPT !.rating = n] \in OptType /\ [opt EXCEPT !.limit = n] \in OptType
  BY DEF OptType
<1>3. ASSUME NEW arg \in 1 .. 3, NEW w \in Word
      PROVE  [opt EXCEPT !.fixed[arg] = [given |-> TRUE, val |-> w]] \in OptType
  <2>1. [opt.fixed EXCEPT ![arg] = [given |-> TRUE, val |-> w]] \in FixedArguments
    BY DEF OptType, FixedArguments
  <2> QED BY <2>1 DEF OptType
<1> QED BY <1>1, <1>2, <1>3

LEMMA ReadTypes ==
    ASSUME opt \in OptType, opt.rating >= 0, pc = "main", NEW option \in Options, Read(option)
    PROVE  /\ opt' \in OptType /\ pc' \in {"main", "usage", "refused"}
           /\ pc' = "usage" \/ opt'.rating >= 0
<1>1. CASE option.c = "f"
  <2>1. opt' = [opt EXCEPT !.fname = {option.v}] /\ pc' = pc
    BY <1>1 DEF Read
  <2>2. option.v \in STRING
    BY <1>1 DEF Options
  <2>3. opt'.rating = opt.rating
    BY <2>1 DEF OptType
  <2>4. opt' \in OptType
    BY <2>1, <2>2, SetOption
  <2> QED BY <2>1, <2>3, <2>4
<1>2. CASE option.c = "T"
  <2>1. opt' = [opt EXCEPT !.limit = option.v] /\ pc' = pc
    BY <1>2 DEF Read
  <2>2. option.v \in Int
    BY <1>2 DEF Options
  <2>3. opt'.rating = opt.rating
    BY <2>1 DEF OptType
  <2>4. opt' \in OptType
    BY <2>1, <2>2, SetOption
  <2> QED BY <2>1, <2>3, <2>4
<1>3. CASE option.c = "r"
  <2>1. opt' = [opt EXCEPT !.rating = option.v] /\ pc' = IF option.v < 0 THEN "usage" ELSE pc
    BY <1>3 DEF Read
  <2>2. option.v \in Int
    BY <1>3 DEF Options
  <2>3. opt'.rating = option.v
    BY <2>1 DEF OptType
  <2>4. opt' \in OptType
    BY <2>1, <2>2, SetOption
  <2>5. pc' \in {"main", "usage"} /\ (~(option.v < 0) \/ pc' = "usage")
    BY <2>1
  <2> QED BY <2>2, <2>3, <2>4, <2>5
<1>4. CASE option.c = "1-3"
  <2>1. option.arg \in 1 .. 3 /\ option.v.word \in Word
    BY <1>4 DEF Options, Numerals
  <2>2. CASE UNCHANGED opt /\ pc' = "refused"
    BY <2>2
  <2>3. CASE /\ opt' = [opt EXCEPT !.fixed[option.arg] = [given |-> TRUE, val |-> option.v.word]]
             /\ UNCHANGED pc
    <3> DEFINE arg == option.arg
               w == option.v.word
    <3>1. opt' \in OptType
      <4>1. opt' = [opt EXCEPT !.fixed[arg] = [given |-> TRUE, val |-> w]]
        BY <2>3
      <4>2. arg \in 1 .. 3 /\ w \in Word
        BY <2>1
      <4> HIDE DEF arg, w
      <4> QED BY <4>1, <4>2, SetOption
    <3>2. opt'.rating = opt.rating
      BY <2>3 DEF OptType
    <3> QED BY <2>3, <3>1, <3>2
  <2> QED BY <1>4, <2>2, <2>3 DEF Read
<1>5. CASE option.c \in {"h", "?"}
  BY <1>5 DEF Read
<1> QED BY <1>1, <1>2, <1>3, <1>4, <1>5 DEF Options

LEMMA RatingOK == ASSUME Types, i \in Puzzles, pc # "usage" PROVE Rating \in Nat
<1>1. opt.rating \in Nat
  BY DEF Types, OptType
<1>2. test_set[i].rating \in Nat
  BY TestSet
<1> QED BY <1>1, <1>2 DEF Rating

(* What does not change the options or the index changes no value.          *)
LEMMA SameValues ==
    ASSUME opt' = opt
    PROVE  /\ \A n : Selected(n)' = Selected(n)
           /\ i' = i => \A arg : Values(arg)' = Values(arg)
BY DEF Selected, Values

LEMMA TypeNext == ASSUME Types, AlarmOwner, [Next]_vars PROVE Types'
<1>0. Len(test_set) = 13
  BY TestSet
<1> USE DEF PCs, Causes
<1>1. CASE main
  <2>1. CASE argv = <<>> /\ pc' = "loop" /\ UNCHANGED <<argv, opt>>
    BY <1>1, <2>1 DEF main, Types
  <2>2. CASE argv # <<>> /\ argv' = Tail(argv) /\ Read(Head(argv))
    <3>1. Head(argv) \in Options /\ argv' \in Seq(Options)
      <4>1. argv \in Seq(Options)
        BY DEF Types
      <4> QED BY <2>2, <4>1
    <3>2. opt \in OptType /\ pc = "main" /\ opt.rating >= 0
      BY <1>1 DEF main, Types
    <3>3. /\ opt' \in OptType /\ pc' \in {"main", "usage", "refused"}
          /\ pc' = "usage" \/ opt'.rating >= 0
      BY <2>2, <3>1, <3>2, ReadTypes
    <3> HIDE DEF OptType
    <3> QED BY <1>1, <3>1, <3>3 DEF main, Types
  <2> QED BY <1>1, <2>1, <2>2 DEF main
<1>2. CASE Skip
  BY <1>0, <1>2 DEF Skip, Types
<1>3. CASE Enter
  BY <1>0, <1>3, SameValues DEF Enter, Types
<1>4. CASE Total
  BY <1>4 DEF Total, Types
<1>5. CASE Arm
  <2>1. UNCHANGED <<argv, opt, i, terrors, by, points, max_points, report, alarms>>
        /\ pc = "generate" /\ pc' = "test" /\ a1' = 1
    BY <1>5 DEF Arm
  <2>2. 1 \in DOMAIN Values(1)
    <3>1. opt.fixed \in FixedArguments /\ i \in Puzzles
      BY <2>1 DEF Types, OptType, Puzzles
    <3> QED BY <3>1, ValuesOK
  <2>3. Values(1)' = Values(1) /\ Selected(i)' = Selected(i)
    BY <2>1, SameValues
  <2>4. alarm' \in BOOLEAN /\ env' \in 0 .. 13
    <3>1. i \in 1 .. 13 /\ alarm \in BOOLEAN /\ env \in 0 .. 13
      BY <2>1 DEF Types
    <3>2. CASE alarm' = TRUE /\ env' = i
      BY <3>1, <3>2
    <3>3. CASE alarm' = alarm /\ env' = env
      BY <3>1, <3>3
    <3> QED BY <1>5, <3>2, <3>3 DEF Arm
  <2> QED BY <2>1, <2>2, <2>3, <2>4 DEF Types
<1>6. CASE Test
  <2>1. UNCHANGED <<argv, opt, i, alarm, env, points, max_points, report, alarms>> /\ pc = "test"
    BY <1>6 DEF Test
  <2>2. Values(1)' = Values(1) /\ Selected(i)' = Selected(i)
    BY <2>1, SameValues
  <2>3. \/ pc' = "score" /\ terrors' \in {0, 1} /\ by' = "tests"
        \/ a1 < Len(Values(1)) /\ a1' = a1 + 1 /\ UNCHANGED <<pc, terrors, by>>
    BY <1>6 DEF Test, Return
  <2>4. a1 < Len(Values(1)) => a1 + 1 \in DOMAIN Values(1)
    <3>1. opt.fixed \in FixedArguments /\ i \in Puzzles /\ a1 \in DOMAIN Values(1)
      BY <2>1 DEF Types, OptType, Puzzles
    <3> QED BY <3>1, ValuesOK
  <2> QED BY <2>1, <2>2, <2>3, <2>4 DEF Types
<1>7. CASE Score
  <2>1. pc = "score" /\ pc' = "loop" /\ i' = i + 1
        /\ UNCHANGED <<argv, opt, a1, terrors, by, alarm, env, alarms>>
    BY <1>7 DEF Score
  <2>2. i \in Puzzles /\ i' \in 1 .. 14
    BY <2>1 DEF Types, Puzzles
  <2>3. Rating \in Nat
    BY <2>1, <2>2, RatingOK
  <2>4. max_points' \in Nat /\ points' \in 0 .. max_points'
    <3>1. points' = points + Rating \/ points' = points + 0
      BY <1>7 DEF Score
    <3>2. max_points' = max_points + Rating
      BY <1>7 DEF Score
    <3>3. points \in 0 .. max_points
      BY DEF Types
    <3>4. max_points \in Nat
      BY <2>1 DEF Types
    <3> QED BY <2>3, <3>1, <3>2, <3>3, <3>4
  <2>5. report' \in Seq(Reported)
    <3>1. [puzzle |-> i, errors |-> terrors, by |-> by] \in Reported
      <4>1. terrors \in {0, 1} /\ by \in Causes
        BY DEF Types
      <4> QED BY ONLY <2>2, <4>1 DEF Reported
    <3>2. report \in Seq(Reported)
      BY DEF Types
    <3> HIDE DEF Reported
    <3> QED BY <1>7, <3>1, <3>2 DEF Score
  <2> QED BY <2>1, <2>2, <2>4, <2>5 DEF Types
<1>8. CASE timeout_handler
  <2>1. alarms' \in 0 .. MaxAlarms /\ alarm' = FALSE
    BY <1>8, BtestAssumption DEF timeout_handler, GoesOff, Types, AlarmSpent
  <2>2. /\ UNCHANGED <<argv, opt, i, a1, env, points, max_points, report>>
        /\ pc = "test" /\ pc' = "score" /\ terrors' = 1 /\ by' = "timeout"
    BY <1>8 DEF timeout_handler, Return
  <2>3. Selected(i)' = Selected(i)
    BY <2>2, SameValues
  <2> QED BY <2>1, <2>2, <2>3 DEF Types
<1>9. CASE StaleAlarm
  <2>1. alarms' \in 0 .. MaxAlarms /\ alarm' = FALSE /\ alarm
    BY <1>9, BtestAssumption DEF StaleAlarm, GoesOff, Types, AlarmSpent
  <2>2. UNCHANGED <<argv, opt, a1, env, points, max_points, report>>
        /\ pc \in {"generate", "score", "loop"}
    BY <1>9 DEF StaleAlarm
  <2>3. /\ pc' \in {"score", "crashed"} /\ terrors' \in {0, 1} /\ by' \in Causes
        /\ i' = i \/ i' = env
        /\ pc' = "score" => (pc = "generate" /\ i' = i) \/ i' = env
    BY <1>9 DEF StaleAlarm, Return, Types
  <2>4. env \in Puzzles /\ Selected(env)
    BY <2>1 DEF AlarmOwner
  <2>5. i' = i => Selected(i)' = Selected(i)
    BY <2>2, SameValues
  <2>6. i' = env => Selected(i)'
    BY <2>2, <2>4, SameValues DEF Selected
  <2>7. i' \in 1 .. 14 /\ (pc' = "score" => i' <= 13 /\ Selected(i)')
    <3>1. i \in 1 .. 14 /\ (pc = "generate" => i <= 13 /\ Selected(i))
      BY DEF Types
    <3> QED BY <2>3, <2>4, <2>5, <2>6, <3>1 DEF Puzzles
  <2>8. pc' # "test" /\ pc' # "generate" /\ pc # "usage" /\ pc' \in PCs
    BY <2>2, <2>3
  <2> HIDE DEF PCs, Causes, Puzzles
  <2> QED BY <2>1, <2>2, <2>3, <2>7, <2>8 DEF Types
<1>10. CASE UNCHANGED vars
  BY <1>10, SameValues DEF vars, Types
<1> QED
  BY <1>1, <1>2, <1>3, <1>4, <1>5, <1>6, <1>7, <1>8, <1>9, <1>10 DEF Next

-----------------------------------------------------------------------------
(* An alarm goes off for the function it was set for, or for the last one   *)
(* that was scored.                                                         *)
LEMMA AppendLast ==
    ASSUME NEW s \in Seq(Reported), NEW r \in Reported
    PROVE  /\ Append(s, r) \in Seq(Reported) /\ Append(s, r) # <<>>
           /\ Append(s, r)[Len(Append(s, r))] = r
           /\ Len(Append(s, r)) = Len(s) + 1
           /\ \A n \in 1 .. Len(s) : Append(s, r)[n] = s[n]
<1> HIDE DEF Reported
<1> QED OBVIOUS

LEMMA Scored ==
    ASSUME Types, Score
    PROVE  /\ report \in Seq(Reported) /\ report' \in Seq(Reported) /\ report' # <<>>
           /\ Last'.puzzle = i /\ Last'.by = by /\ Last' = report'[Len(report')]
           /\ Len(report') = Len(report) + 1
           /\ \A n \in 1 .. Len(report) : report'[n] = report[n]
           /\ i \in Puzzles
<1> DEFINE r == [puzzle |-> i, errors |-> terrors, by |-> by]
<1>1. i \in Puzzles /\ r \in Reported
  <2>1. i \in Puzzles /\ terrors \in {0, 1} /\ by \in Causes
    BY DEF Types, Score, Puzzles
  <2> QED BY ONLY <2>1 DEF Reported
<1>2. report' = Append(report, r) /\ report \in Seq(Reported)
  BY DEF Score, Types
<1>3. r.puzzle = i /\ r.by = by
  OBVIOUS
<1> HIDE DEF r
<1>4. Last' = r
  BY <1>1, <1>2, AppendLast DEF Last
<1> QED BY <1>1, <1>2, <1>3, <1>4, AppendLast DEF Last

(* A fixed name selects one function.                                       *)
LEMMA OneSelected ==
    \A n, m \in Puzzles : opt.fname # {} /\ Selected(n) /\ Selected(m) => n = m
BY TestSet DEF Selected

LEMMA OwnerNext ==
    ASSUME Types, AlarmOwner, InOrder, [Next]_vars
    PROVE  AlarmOwner'
<1>1. CASE main
  BY <1>1 DEF main, AlarmOwner
<1>2. CASE Skip
  <2>1. pc = "loop" /\ pc' = "loop" /\ i' = i + 1 /\ i \in Puzzles /\ ~Selected(i)
        /\ UNCHANGED <<opt, alarm, env, report, by>>
    BY <1>2, TestSet DEF Skip, Types, Puzzles
  <2>2. opt.fname # {}
    BY <2>1 DEF Selected
  <2>3. \A n : Selected(n)' = Selected(n)
    BY <2>1, SameValues
  <2>4. CASE alarm
    <3>1. /\ opt.limit > 0 /\ env \in Puzzles /\ Selected(env) /\ env < i
          /\ report # <<>> /\ Last.by = "tests" /\ Last.puzzle = env
      BY <2>1, <2>4 DEF AlarmOwner
    <3>2. env < i'
      BY <2>1, <3>1 DEF Puzzles
    <3>3. Last' = Last
      BY <2>1 DEF Last
    <3> QED BY <2>1, <2>2, <2>3, <3>1, <3>2, <3>3 DEF AlarmOwner
  <2> QED BY <2>1, <2>4 DEF AlarmOwner
<1>3. CASE Enter
  <2>1. pc = "loop" /\ pc' = "generate" /\ UNCHANGED <<opt, alarm, env, report, by, i>>
    BY <1>3 DEF Enter
  <2> QED BY <2>1, SameValues DEF AlarmOwner, Last
<1>4. CASE Total
  <2>1. pc' = "done" /\ pc # "main" /\ UNCHANGED <<opt, alarm, env, report, by, i>>
    BY <1>4 DEF Total
  <2> QED BY <2>1, SameValues DEF AlarmOwner, Last
<1>5. CASE Arm
  <2>1. pc = "generate" /\ pc' = "test" /\ UNCHANGED <<opt, report, by, i>>
    BY <1>5 DEF Arm
  <2>2. i \in Puzzles /\ Selected(i)
    BY <2>1 DEF Types, Puzzles
  <2>3. CASE opt.limit > 0 /\ env' = i
    BY <2>1, <2>2, <2>3, SameValues DEF AlarmOwner
  <2>4. CASE ~(opt.limit > 0) /\ UNCHANGED <<alarm, env>>
    BY <2>1, <2>4 DEF AlarmOwner
  <2> QED BY <1>5, <2>3, <2>4 DEF Arm
<1>6. CASE Test
  <2>1. pc = "test" /\ UNCHANGED <<opt, alarm, env, report, i>>
        /\ (pc' = "test" \/ (pc' = "score" /\ by' = "tests"))
    BY <1>6 DEF Test, Return
  <2> QED BY <2>1, SameValues DEF AlarmOwner, Last
<1>7. CASE Score
  <2>1. pc = "score" /\ pc' = "loop" /\ i' = i + 1 /\ UNCHANGED <<opt, by, alarm, env>>
    BY <1>7 DEF Score
  <2>2. report' # <<>> /\ Last'.puzzle = i /\ Last'.by = by /\ i \in Puzzles
    BY <1>7, Scored
  <2> QED BY <2>1, <2>2, SameValues DEF AlarmOwner, Puzzles
<1>8. CASE timeout_handler
  BY <1>8 DEF timeout_handler, GoesOff, AlarmSpent, AlarmOwner
<1>9. CASE StaleAlarm
  BY <1>9 DEF StaleAlarm, GoesOff, AlarmSpent, AlarmOwner
<1>10. CASE UNCHANGED vars
  BY <1>10, SameValues DEF vars, AlarmOwner, Last
<1> QED
  BY <1>1, <1>2, <1>3, <1>4, <1>5, <1>6, <1>7, <1>8, <1>9, <1>10 DEF Next

LEMMA OrderNext ==
    ASSUME Types, AlarmOwner, InOrder, [Next]_vars
    PROVE  InOrder'
<1>1. CASE main
  BY <1>1 DEF main, Read, InOrder, Last
<1>2. CASE Skip
  <2>1. pc = "loop" /\ pc' = "loop" /\ i' = i + 1 /\ i \in Puzzles /\ UNCHANGED <<report, by>>
    BY <1>2, TestSet DEF Skip, Types, Puzzles
  <2>2. report # <<>> => Last.puzzle \in Puzzles
    <3>1. report \in Seq(Reported)
      BY DEF Types
    <3>2. report # <<>> => Last \in Reported
      <4> HIDE DEF Reported
      <4> QED BY <3>1 DEF Last
    <3> QED BY <3>2 DEF Reported
  <2> QED BY <2>1, <2>2 DEF InOrder, Last, Puzzles
<1>3. CASE Enter
  BY <1>3 DEF Enter, InOrder, Last
<1>4. CASE Total
  BY <1>4 DEF Total, InOrder, Last
<1>5. CASE Arm
  BY <1>5 DEF Arm, InOrder, Last
<1>6. CASE Test
  <2>1. pc = "test" /\ UNCHANGED <<report, i>>
        /\ ((pc' = "test" /\ by' = by) \/ (pc' = "score" /\ by' = "tests"))
    BY <1>6 DEF Test, Return
  <2> QED BY <2>1 DEF InOrder, Last
<1>7. CASE Score
  <2>1. pc = "score" /\ pc' = "loop" /\ i' = i + 1
    BY <1>7 DEF Score
  <2>2. report' # <<>> /\ Last'.puzzle = i /\ i \in Puzzles
    BY <1>7, Scored
  <2> QED BY <2>1, <2>2 DEF InOrder, Puzzles
<1>8. CASE timeout_handler
  BY <1>8 DEF timeout_handler, Return, InOrder, Last
<1>9. CASE StaleAlarm
  <2>1. alarm /\ UNCHANGED <<report, opt>>
    BY <1>9 DEF StaleAlarm, GoesOff
  <2>2. CASE pc = "generate" /\ pc' = "score" /\ by' = "unstarted" /\ i' = i
    <3>1. report # <<>> /\ Last.by = "tests" /\ Last.puzzle = env /\ env < i
      BY <2>1, <2>2 DEF AlarmOwner
    <3>2. i = env + 1
      <4>1. i \in Puzzles /\ Selected(i) /\ env \in Puzzles /\ Selected(env)
        <5>1. i \in Puzzles /\ Selected(i)
          BY <2>2 DEF Types, Puzzles
        <5> QED BY <2>1, <5>1 DEF AlarmOwner
      <4>2. env # i
        BY <3>1, <4>1 DEF Puzzles
      <4> QED BY <2>1, <2>2, <4>1, <4>2, OneSelected DEF AlarmOwner
    <3> QED BY <2>1, <2>2, <3>1, <3>2 DEF InOrder, Last
  <2>3. CASE pc = "score" /\ pc' = "score" /\ by' = "again" /\ i' = env
    BY <2>1, <2>3 DEF InOrder, Last, AlarmOwner
  <2>4. CASE pc = "loop" /\ pc' = "score" /\ by' = "again" /\ i' = env
    BY <2>1, <2>4 DEF InOrder, Last, AlarmOwner
  <2>5. CASE pc' = "crashed"
    BY <2>5 DEF InOrder
  <2> QED BY <1>9, <2>2, <2>3, <2>4, <2>5 DEF StaleAlarm, Return
<1>10. CASE UNCHANGED vars
  BY <1>10 DEF vars, InOrder, Last
<1> QED
  BY <1>1, <1>2, <1>3, <1>4, <1>5, <1>6, <1>7, <1>8, <1>9, <1>10 DEF Next

LEMMA ChargedNext ==
    ASSUME Types, InOrder, ChargedOnce, [Next]_vars
    PROVE  ChargedOnce'
<1>1. CASE UNCHANGED report
  BY <1>1 DEF ChargedOnce
<1>2. CASE Score
  <2> DEFINE L == Len(report)
  <2>1. /\ report \in Seq(Reported) /\ report' \in Seq(Reported)
        /\ report'[L + 1].puzzle = i /\ report'[L + 1].by = by /\ Len(report') = L + 1
        /\ \A n \in 1 .. L : report'[n] = report[n]
    BY <1>2, Scored
  <2>2. L \in Nat /\ DOMAIN report = 1 .. L /\ DOMAIN report' = 1 .. L + 1
    BY <2>1
  <2>3. pc = "score"
    BY <1>2 DEF Score
  <2>4. L = 0 <=> report = <<>>
    BY <2>1
  <2>5. \/ by = "unstarted" /\ L > 0 /\ report[L].by = "tests" /\ i = report[L].puzzle + 1
        \/ by = "again" /\ L > 0 /\ report[L].by = "tests" /\ i = report[L].puzzle
        \/ by # "unstarted" /\ (L > 0 => report[L].puzzle < i)
    BY <2>2, <2>3, <2>4 DEF InOrder, Last
  <2>6. L > 0 => report'[L] = report[L] /\ report[L].puzzle \in Puzzles
    <3>1. L > 0 => report[L] \in Reported
      <4> HIDE DEF Reported
      <4> QED BY <2>1, <2>2
    <3> QED BY <2>1, <2>2, <3>1 DEF Reported
  <2>7. i \in Puzzles
    BY <1>2, Scored
  <2>8. ASSUME NEW n \in 1 .. L
        PROVE  report'[n] = report[n] /\ (n > 1 => report'[n - 1] = report[n - 1])
    BY <2>1, <2>2
  <2> HIDE DEF L
  <2>9. ASSUME NEW n \in 1 .. L + 1
        PROVE  \/ report'[n].by = "unstarted" /\ n > 1 /\ report'[n - 1].by = "tests"
                     /\ report'[n].puzzle = report'[n - 1].puzzle + 1
               \/ report'[n].by = "again" /\ n > 1 /\ report'[n - 1].by = "tests"
                     /\ report'[n].puzzle = report'[n - 1].puzzle
               \/ /\ report'[n].by # "unstarted"
                  /\ n > 1 => report'[n].puzzle > report'[n - 1].puzzle
    <3>1. CASE n = L + 1
      <4>1. L > 0 => report'[n - 1] = report[L]
        BY <2>2, <2>6, <3>1
      <4>2. n > 1 <=> L > 0
        BY <2>2, <3>1
      <4>3. report'[n].puzzle = i /\ report'[n].by = by
        BY <2>1, <3>1
      <4>4. L > 0 /\ report[L].puzzle < i => i > report[L].puzzle
        BY <2>6, <2>7 DEF Puzzles
      <4> QED BY <2>5, <4>1, <4>2, <4>3, <4>4
    <3>2. CASE n \in 1 .. L
      <4>1. \/ report[n].by = "unstarted" /\ n > 1 /\ report[n - 1].by = "tests"
                     /\ report[n].puzzle = report[n - 1].puzzle + 1
            \/ report[n].by = "again" /\ n > 1 /\ report[n - 1].by = "tests"
                     /\ report[n].puzzle = report[n - 1].puzzle
            \/ /\ report[n].by # "unstarted"
               /\ n > 1 => report[n].puzzle > report[n - 1].puzzle
        BY <2>2, <3>2 DEF ChargedOnce
      <4>2. report'[n] = report[n] /\ (n > 1 => report'[n - 1] = report[n - 1])
        BY <2>8, <3>2
      <4>3. CASE n > 1
        <5>1. report'[n] = report[n] /\ report'[n - 1] = report[n - 1]
          BY <4>2, <4>3
        <5> QED BY <4>1, <4>3, <5>1
      <4>4. CASE ~(n > 1)
        BY <4>1, <4>2, <4>4
      <4> QED BY <4>3, <4>4
    <3> QED BY <2>2, <3>1, <3>2
  <2> QED BY <2>2, <2>9 DEF ChargedOnce
<1>3. Score \/ UNCHANGED report
  BY DEF Next, main, Skip, Enter, Total, Arm, Test, timeout_handler, StaleAlarm, vars
<1> QED BY <1>1, <1>2, <1>3

-----------------------------------------------------------------------------
(* What the tests of one function have shown.                               *)
LEMMA SameAgree ==
    ASSUME opt' = opt, i' = i
    PROVE  /\ \A name, x : AgreeOn(name, x)' = AgreeOn(name, x)
           /\ \A arg : Values(arg)' = Values(arg)
           /\ test_set[i]' = test_set[i]
BY SameValues DEF AgreeOn

LEMMA ProgressNext ==
    ASSUME Types, AlarmOwner, Progress, [Next]_vars
    PROVE  Progress'
<1>1. CASE Arm
  <2>1. a1' = 1 /\ 1 .. a1' - 1 = {}
    BY <1>1 DEF Arm
  <2> QED BY <2>1 DEF Progress
<1>2. CASE Test
  <2>1. pc = "test" /\ UNCHANGED <<opt, i>>
    BY <1>2 DEF Test
  <2> DEFINE A(k) == AgreeOn(test_set[i].name, Values(1)[k])
  <2>2. \A k : A(k)' = A(k)
    BY <2>1, SameAgree
  <2>3. \A k \in 1 .. a1 - 1 : A(k)
    BY <2>1 DEF Progress
  <2>4. pc' = "test" => A(a1) /\ a1' = a1 + 1
    <3>1. CASE ~A(a1)
      <4>1. pc' = "score"
        BY <1>2, <3>1 DEF Test, Return
      <4> QED BY <4>1
    <3>2. CASE A(a1) /\ a1 < Len(Values(1))
      BY <1>2, <3>2 DEF Test
    <3>3. CASE A(a1) /\ ~(a1 < Len(Values(1)))
      <4>1. pc' = "score"
        BY <1>2, <3>3 DEF Test, Return
      <4> QED BY <4>1
    <3> QED BY <3>1, <3>2, <3>3
  <2>5. a1 \in Nat
    <3>1. opt.fixed \in FixedArguments /\ i \in Puzzles /\ a1 \in DOMAIN Values(1)
      BY <2>1 DEF Types, OptType, Puzzles
    <3> QED BY <3>1, ValuesOK
  <2> SUFFICES ASSUME pc' = "test", NEW k \in 1 .. a1' - 1 PROVE A(k)'
    BY DEF Progress
  <2> HIDE DEF A
  <2>6. k \in 1 .. a1 - 1 \/ k = a1
    BY <2>4, <2>5
  <2> QED BY <2>2, <2>3, <2>4, <2>6
<1>3. CASE UNCHANGED vars
  <2>1. UNCHANGED <<opt, i, pc, a1>>
    BY <1>3 DEF vars
  <2> QED BY <2>1, SameAgree DEF Progress
<1>4. CASE ~Arm /\ ~Test /\ ~UNCHANGED vars
  <2>1. pc' # "test"
    BY <1>4 DEF Next, main, Read, Skip, Enter, Total, Score, timeout_handler, StaleAlarm, Return
  <2> QED BY <2>1 DEF Progress
<1> QED BY <1>1, <1>2, <1>3, <1>4

(* Where the score can come from.                                           *)
LEMMA ScoreFrom ==
    ASSUME Next, pc' = "score"
    PROVE  Test \/ (terrors' = 1 /\ by' # "tests")
BY DEF Next, main, Read, Skip, Enter, Total, Arm, Score, timeout_handler, StaleAlarm, Return

LEMMA FailureNext ==
    ASSUME Types, Failure, [Next]_vars
    PROVE  Failure'
<1>1. CASE Test /\ pc' = "score" /\ terrors' = 1
  <2>1. UNCHANGED <<opt, i, a1>> /\ pc = "test" /\ ~AgreeOn(test_set[i].name, Values(1)[a1])
    BY <1>1 DEF Test, Return
  <2>2. a1 \in DOMAIN Values(1)
    BY <2>1 DEF Types
  <2> QED BY <2>1, <2>2, SameAgree DEF Failure
<1>2. CASE UNCHANGED vars
  <2>1. UNCHANGED <<opt, i, pc, a1, terrors, by>>
    BY <1>2 DEF vars
  <2> QED BY <2>1, SameAgree DEF Failure
<1> QED BY <1>1, <1>2, ScoreFrom DEF Failure

LEMMA PassedNext ==
    ASSUME Types, Progress, PassedMeansAgrees, [Next]_vars
    PROVE  PassedMeansAgrees'
<1>1. CASE Test /\ pc' = "score" /\ terrors' = 0
  <2>1. /\ UNCHANGED <<opt, i, a1>> /\ pc = "test"
        /\ AgreeOn(test_set[i].name, Values(1)[a1]) /\ ~(a1 < Len(Values(1)))
    BY <1>1 DEF Test, Return
  <2>2. Values(1) \in Seq(Word) /\ a1 \in DOMAIN Values(1)
    <3>1. opt.fixed \in FixedArguments /\ i \in Puzzles /\ a1 \in DOMAIN Values(1)
      BY <2>1 DEF Types, OptType, Puzzles
    <3> QED BY <3>1, ValuesOK
  <2> DEFINE A(x) == AgreeOn(test_set[i].name, x)
  <2>3. \A k \in 1 .. a1 - 1 : A(Values(1)[k])
    BY <2>1 DEF Progress
  <2>4. \A k \in DOMAIN Values(1) : A(Values(1)[k])
    <3> SUFFICES ASSUME NEW k \in DOMAIN Values(1) PROVE A(Values(1)[k])
      OBVIOUS
    <3> HIDE DEF A
    <3>1. k \in 1 .. a1 - 1 \/ k = a1
      BY <2>1, <2>2
    <3> QED BY <2>1, <2>3, <3>1 DEF A
  <2>5. \A x \in Range(Values(1)) : A(x)
    BY <2>4 DEF Range
  <2>6. \A x \in Range(Values(1)), y \in Range(Values(2)), z \in Range(Values(3)) :
            Agree(test_set[i].name, x, y, z)
    BY <2>5 DEF AgreeOn
  <2>7. \A arg : Values(arg)' = Values(arg)
    BY <2>1, SameAgree
  <2> QED BY <2>1, <2>6, <2>7 DEF PassedMeansAgrees
<1>2. CASE UNCHANGED vars
  <2>1. UNCHANGED <<opt, i, pc, terrors>>
    BY <1>2 DEF vars
  <2> QED BY <2>1, SameAgree DEF PassedMeansAgrees
<1> QED BY <1>1, <1>2, ScoreFrom DEF PassedMeansAgrees

-----------------------------------------------------------------------------
Inv == Types /\ AlarmOwner /\ InOrder /\ ChargedOnce /\ Progress /\ Failure /\ PassedMeansAgrees

LEMMA InitInv == Init => Inv
<1> SUFFICES ASSUME Init PROVE Inv
  OBVIOUS
<1> USE DEF Init
<1>1. Types
  <2>1. argv \in Seq(Options)
    BY BtestAssumption
  <2>2. opt \in OptType /\ opt.rating >= 0
    <3> DEFINE fixed == [arg \in 1 .. 3 |-> [given |-> FALSE, val |-> {}]]
    <3>1. {} \in Word
      BY DEF Word
    <3>2. fixed \in FixedArguments
      BY <3>1 DEF FixedArguments
    <3>3. opt = [fname |-> {}, rating |-> 0, limit |-> 10, fixed |-> fixed]
      BY DEF Defaults
    <3> HIDE DEF fixed, Init
    <3> QED BY <3>2, <3>3 DEF OptType
  <2>3. report \in Seq(Reported) /\ alarms \in 0 .. MaxAlarms
    BY BtestAssumption
  <2>4. /\ pc = "main" /\ i \in 1 .. 14 /\ terrors \in {0, 1} /\ env \in 0 .. 13
        /\ max_points \in Nat /\ points \in 0 .. max_points
    BY ONLY Init DEF Init
  <2>5. alarm \in BOOLEAN /\ pc \in PCs /\ by \in Causes
    BY ONLY Init DEF Init, PCs, Causes
  <2> HIDE DEF OptType, Init
  <2> QED BY <2>1, <2>2, <2>3, <2>4, <2>5 DEF Types
<1> QED BY <1>1 DEF Inv, AlarmOwner, InOrder, ChargedOnce, Progress, Failure, PassedMeansAgrees

LEMMA NextInv == Inv /\ [Next]_vars => Inv'
<1> SUFFICES ASSUME Types, AlarmOwner, InOrder, ChargedOnce, Progress, Failure, PassedMeansAgrees,
                    [Next]_vars
             PROVE  Inv'
  BY DEF Inv
<1> QED BY TypeNext, OwnerNext, OrderNext, ChargedNext, ProgressNext, FailureNext, PassedNext DEF Inv

(* What btest's globals, its alarm and its scores have to do with each      *)
(* other between any two steps, whenever alarms go off.                     *)
THEOREM Invariance == Spec => []Inv
BY InitInv, NextInv, PTL DEF Spec

(* Type correctness of the state of btest.c.                                *)
THEOREM TypeCorrect == Spec => []TypeOK
<1>1. Inv => TypeOK
  BY TypesIsTypeOK DEF Inv
<1> QED BY <1>1, Invariance, PTL

(* test_function returns without errors only when every combination of the  *)
(* test values agrees, whatever alarms were late.                           *)
THEOREM PassedRight == Spec => []PassedMeansAgrees
<1>1. Inv => PassedMeansAgrees
  BY DEF Inv
<1> QED BY <1>1, Invariance, PTL

(* A late alarm charges at most one function that is not its own, or scores *)
(* its own twice.                                                           *)
THEOREM ChargedRight == Spec => []ChargedOnce
<1>1. Inv => ChargedOnce
  BY DEF Inv
<1> QED BY <1>1, Invariance, PTL

(* Every puzzle returns what its reference returns, but for floatScale2 of  *)
(* what it doubles to a NaN.                                                *)
LEMMA PuzzlesAgree ==
    \A name \in Names : \A x, y, z \in Word :
        (name = "floatScale2" => ~DoubleTooLarge(x)) => Agree(name, x, y, z)
<1> SUFFICES ASSUME NEW name \in Names, NEW x \in Word, NEW y \in Word, NEW z \in Word,
                    name = "floatScale2" => ~DoubleTooLarge(x)
             PROVE  Agree(name, x, y, z)
  OBVIOUS
<1>1. CASE name = "bitXor"
  BY <1>1, BitXorRight DEF Agree
<1>2. CASE name = "tmin"
  BY <1>2, TminRight DEF Agree
<1>3. CASE name = "isTmax"
  BY <1>3, IsTmaxRight DEF Agree
<1>4. CASE name = "allOddBits"
  BY <1>4, AllOddBitsRight DEF Agree
<1>5. CASE name = "negate"
  BY <1>5, NegateIs DEF Agree
<1>6. CASE name = "isAsciiDigit"
  BY <1>6, IsAsciiDigitRight DEF Agree
<1>7. CASE name = "conditional"
  BY <1>7, ConditionalRight DEF Agree
<1>8. CASE name = "isLessOrEqual"
  BY <1>8, IsLessOrEqualRight DEF Agree
<1>9. CASE name = "logicalNeg"
  BY <1>9, LogicalNegRight DEF Agree
<1>10. CASE name = "howManyBits"
  BY <1>10, HowManyBitsRight DEF Agree
<1>11. CASE name = "floatScale2"
  BY <1>11, FloatScale2Right DEF Agree
<1>12. CASE name = "floatFloat2Int"
  BY <1>12, FloatFloat2IntRight DEF Agree
<1>13. CASE name = "floatPower2"
  BY <1>13, FloatPower2Right DEF Agree
<1> QED BY <1>1, <1>2, <1>3, <1>4, <1>5, <1>6, <1>7, <1>8, <1>9, <1>10, <1>11, <1>12, <1>13
        DEF Names

LEMMA Explained == Types /\ Failure => ErrorsExplained
<1> SUFFICES ASSUME Types, Failure, pc = "score", terrors = 1, by = "tests",
                    ~(test_set[i].name = "floatScale2" /\ DoubleTooLarge(Values(1)[a1]))
             PROVE  FALSE
  BY DEF ErrorsExplained
<1>1. a1 \in DOMAIN Values(1) /\ ~AgreeOn(test_set[i].name, Values(1)[a1])
  BY DEF Failure
<1>2. opt.fixed \in FixedArguments /\ i \in Puzzles
  BY DEF Types, OptType, Puzzles
<1>3. \A arg \in 1 .. 3 : Values(arg) \in Seq(Word)
  BY <1>2, ValuesOK
<1>4. \A arg \in 1 .. 3 : \A n \in DOMAIN Values(arg) : Values(arg)[n] \in Word
  BY <1>3
<1>5. \A arg \in 1 .. 3 : Range(Values(arg)) \subseteq Word
  BY <1>4 DEF Range
<1>6. test_set[i].name \in Names
  BY <1>2, TestSet
<1>7. AgreeOn(test_set[i].name, Values(1)[a1])
  BY <1>1, <1>4, <1>5, <1>6, PuzzlesAgree DEF AgreeOn
<1> QED BY <1>1, <1>7

(* The tests of a function end with an error only if it is floatScale2, on  *)
(* a finite number whose double is too large: bits.c is right on all other  *)
(* arguments, whatever values they are tested with.                         *)
THEOREM ErrorsExplainedRight == Spec => []ErrorsExplained
<1>1. Inv => ErrorsExplained
  BY Explained DEF Inv
<1> QED BY <1>1, Invariance, PTL

-----------------------------------------------------------------------------
(* Without late alarms, run_tests scores the functions it selects, once     *)
(* each, by their tests; and when no argument is fixed, as right.           *)
Running == {"main", "loop", "generate", "test", "score", "done"}
Unfixed == \A arg \in 1 .. 3 : ~opt.fixed[arg].given
Entered(s) == {s[n].puzzle : n \in DOMAIN s}
Quiet ==
    alarms = 0 =>
        /\ pc = "main" => i = 1 /\ points = max_points
        /\ pc = "score" => by = "tests"
        /\ pc = "done" => i = 14
        /\ pc \in Running => Entered(report) = {n \in 1 .. i - 1 : Selected(n)}
        /\ pc \in Running /\ Unfixed => points = max_points

LEMMA EnteredAppend ==
    ASSUME NEW S, NEW s \in Seq(S), NEW e
    PROVE  Entered(Append(s, e)) = Entered(s) \cup {e.puzzle}
<1> DEFINE t == Append(s, e)
           L == Len(s)
<1>1. /\ L \in Nat /\ DOMAIN s = 1 .. L /\ DOMAIN t = 1 .. L + 1
      /\ (\A n \in 1 .. L : t[n] = s[n]) /\ t[L + 1] = e
  OBVIOUS
<1> HIDE DEF t, L
<1>2. \A n \in 1 .. L + 1 : n \in 1 .. L \/ n = L + 1
  BY <1>1
<1>3. \A n \in 1 .. L : n \in 1 .. L + 1
  BY <1>1
<1>4. L + 1 \in 1 .. L + 1
  BY <1>1
<1>5. Entered(t) = Entered(s) \cup {e.puzzle}
  BY <1>1, <1>2, <1>3, <1>4, Zenon DEF Entered
<1> QED BY <1>5 DEF t

(* floatScale2 is tested with values btest chooses, and shows no error.     *)
LEMMA NoErrors ==
    ASSUME Types, Failure, pc = "score", by = "tests", Unfixed
    PROVE  terrors = 0
<1> SUFFICES ASSUME terrors = 1 PROVE FALSE
  BY DEF Types
<1>1. ErrorsExplained /\ a1 \in DOMAIN Values(1)
  BY Explained DEF Failure
<1>2. test_set[i].name = "floatScale2" /\ DoubleTooLarge(Values(1)[a1])
  BY <1>1 DEF ErrorsExplained
<1>3. i \in Puzzles
  BY DEF Types, Puzzles
<1>4. test_set[i].args = 1 /\ test_set[i].range = "float"
  <2>1. 11 \in Puzzles /\ test_set[11].name = "floatScale2"
    BY DEF test_set, Puzzle, Puzzles
  <2>2. i = 11
    BY <1>2, <1>3, <2>1, TestSet
  <2>3. test_set[11].args = 1 /\ test_set[11].range = "float"
    BY DEF test_set, Puzzle
  <2> QED BY <2>2, <2>3
<1>5. Values(1) = FloatVals(arg_test_range[1])
  <2> DEFINE puzzle == test_set[i]
  <2>1. Values(1) = gen_vals(opt.fixed, puzzle, 1)
    BY DEF Values
  <2>2. ~(1 > puzzle.args) /\ ~opt.fixed[1].given /\ puzzle.range = "float"
    BY <1>4 DEF Unfixed
  <2> HIDE DEF puzzle
  <2> QED BY <2>1, <2>2 DEF gen_vals, Generated
<1>6. arg_test_range[1] \in Nat \ {0}
  BY BtestAssumption
<1> QED BY <1>1, <1>2, <1>5, <1>6, FloatValsSmall

LEMMA QuietNext ==
    ASSUME Types, InOrder, Failure, Quiet, [Next]_vars
    PROVE  Quiet'
<1> SUFFICES ASSUME alarms' = 0 PROVE Quiet'
  BY DEF Quiet
<1>1. alarms = 0 /\ ~timeout_handler /\ ~StaleAlarm
  <2>1. alarms \in Nat
    BY DEF Types
  <2>2. ASSUME GoesOff PROVE FALSE
    BY <2>1, <2>2 DEF GoesOff
  <2>3. ~timeout_handler /\ ~StaleAlarm
    BY <2>2 DEF timeout_handler, StaleAlarm
  <2> QED BY <2>3 DEF Next, main, Skip, Enter, Total, Arm, Test, Score, vars
<1>2. i \in 1 .. 14
  BY DEF Types
<1>3. CASE main
  <2>1. /\ pc = "main" /\ pc' \in {"main", "loop", "usage", "refused"}
        /\ i' = i /\ report' = report /\ points' = points /\ max_points' = max_points
    BY <1>3 DEF main, Read
  <2>2. i = 1 /\ points = max_points /\ report = <<>>
    BY <1>1, <2>1 DEF Quiet, InOrder
  <2>3. Entered(report') = {} /\ {n \in 1 .. i' - 1 : Selected(n)'} = {}
    BY <2>1, <2>2 DEF Entered
  <2> QED BY <2>1, <2>2, <2>3 DEF Quiet
<1>4. CASE Skip
  <2>1. /\ pc = "loop" /\ pc' = pc /\ i' = i + 1 /\ ~Selected(i) /\ opt' = opt
        /\ report' = report /\ points' = points /\ max_points' = max_points
    BY <1>4 DEF Skip
  <2>2. \A n : Selected(n)' = Selected(n)
    BY <2>1, SameValues
  <2>3. /\ Entered(report) = {n \in 1 .. i - 1 : Selected(n)} /\ (Unfixed => points = max_points)
    BY <1>1, <2>1 DEF Quiet, Running
  <2>4. {n \in 1 .. i' - 1 : Selected(n)'} = {n \in 1 .. i - 1 : Selected(n)}
    BY <1>2, <2>1, <2>2
  <2> QED BY <2>1, <2>3, <2>4 DEF Quiet, Unfixed
<1>5. CASE Enter \/ Arm \/ Total \/ Test \/ UNCHANGED vars
  <2>1. /\ opt' = opt /\ i' = i /\ report' = report /\ points' = points /\ max_points' = max_points
        /\ pc' \in Running => pc \in Running
        /\ pc' = "main" => pc = "main"
        /\ pc' = "score" => by' = "tests" \/ (pc = "score" /\ by' = by)
        /\ pc' = "done" => Total \/ pc = "done"
    BY <1>5 DEF Enter, Arm, Total, Test, Return, vars, Running
  <2>2. Total => i = 14
    BY <1>2, TestSet DEF Total
  <2>3. \A n : Selected(n)' = Selected(n)
    BY <2>1, SameValues
  <2>4. {n \in 1 .. i' - 1 : Selected(n)'} = {n \in 1 .. i - 1 : Selected(n)}
    BY <2>1, <2>3
  <2>5. Unfixed' = Unfixed
    BY <2>1 DEF Unfixed
  <2> QED BY <1>1, <2>1, <2>2, <2>4, <2>5 DEF Quiet
<1>6. CASE Score
  <2> DEFINE r == [puzzle |-> i, errors |-> terrors, by |-> by]
  <2>1. /\ pc = "score" /\ pc' = "loop" /\ i' = i + 1 /\ opt' = opt
        /\ report' = Append(report, r)
        /\ points' = points + (IF terrors = 0 THEN Rating ELSE 0)
        /\ max_points' = max_points + Rating
    BY <1>6 DEF Score
  <2>2. /\ by = "tests" /\ Entered(report) = {n \in 1 .. i - 1 : Selected(n)}
        /\ (Unfixed => points = max_points)
    BY <1>1, <2>1 DEF Quiet, Running
  <2>3. Selected(i) /\ report \in Seq(Reported)
    BY <2>1 DEF Types
  <2>4. \A n : Selected(n)' = Selected(n)
    BY <2>1, SameValues
  <2>5. Entered(report') = Entered(report) \cup {i}
    <3>1. r.puzzle = i
      OBVIOUS
    <3> HIDE DEF r
    <3> QED BY <2>1, <2>3, <3>1, EnteredAppend
  <2> HIDE DEF r
  <2>6. {n \in 1 .. i' - 1 : Selected(n)'} = {n \in 1 .. i - 1 : Selected(n)} \cup {i}
    <3>1. \A n \in 1 .. i' - 1 : n \in 1 .. i - 1 \/ n = i
      BY <1>2, <2>1
    <3>2. (\A n \in 1 .. i - 1 : n \in 1 .. i' - 1) /\ i \in 1 .. i' - 1
      BY <1>2, <2>1
    <3> QED BY <2>3, <2>4, <3>1, <3>2
  <2>7. Unfixed => terrors = 0
    BY <2>1, <2>2, NoErrors
  <2>8. Unfixed' => points' = max_points'
    <3>1. Unfixed' = Unfixed
      BY <2>1 DEF Unfixed
    <3> QED BY <2>1, <2>2, <2>7, <3>1
  <2> QED BY <2>1, <2>2, <2>5, <2>6, <2>8 DEF Quiet
<1> QED BY <1>1, <1>3, <1>4, <1>5, <1>6 DEF Next

(* With the values btest chooses, and no alarm going off, every function    *)
(* run_tests selects is scored, and gets its full rating.                   *)
THEOREM FullScoreRight == Spec => []FullScore
<1>1. Init => Quiet
  BY DEF Init, Quiet, Entered
<1>2. Inv /\ Quiet /\ [Next]_vars => Quiet'
  BY QuietNext DEF Inv
<1>3. Inv /\ Quiet => FullScore
  <2> SUFFICES ASSUME Types, Quiet, pc = "done", alarms = 0,
                      \A arg \in 1 .. 3 : ~opt.fixed[arg].given
               PROVE  /\ points = max_points
                      /\ {report[n].puzzle : n \in DOMAIN report}
                             = {n \in DOMAIN test_set : Selected(n)}
    BY DEF Inv, FullScore
  <2>1. /\ i = 14 /\ Entered(report) = {n \in 1 .. i - 1 : Selected(n)} /\ points = max_points
    BY DEF Quiet, Running, Unfixed
  <2>2. DOMAIN test_set = 1 .. 14 - 1
    BY DEF test_set
  <2> QED BY <2>1, <2>2 DEF Entered
<1> QED BY <1>1, <1>2, <1>3, Invariance, PTL DEF Spec
=============================================================================
