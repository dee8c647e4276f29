---------------------------- MODULE MmHeapProofs ----------------------------
(***************************************************************************)
(* What the functions of mm.c do to a heap, for every heap size, chunk size *)
(* and request.  A heap is described by the blocks that tile it, sz, a      *)
(* function from the start of each block to its size; by the blocks that    *)
(* are tagged free, F; and by those in the free list, L.                    *)
(***************************************************************************)
EXTENDS MmHeap, NatProofs

Prologue == 2 * WSIZE
Dummy == 4 * WSIZE

(* Blocks lie one behind the other from the prologue to brk.                *)
BlockOK(sz, b) ==
    /\ b \in Nat /\ b >= Prologue /\ b % DSIZE = 0
    /\ sz[b] \in Nat /\ sz[b] % DSIZE = 0 /\ sz[b] >= DSIZE
    /\ b # Prologue => sz[b] >= 2 * DSIZE

Apart(sz) == \A a, b \in DOMAIN sz : a < b => a + sz[a] <= b

Tiling(sz, brk) ==
    /\ brk \in Nat /\ brk % DSIZE = 0 /\ brk <= MAX_HEAP
    /\ Prologue \in DOMAIN sz /\ sz[Prologue] = DSIZE
    /\ Dummy \in DOMAIN sz /\ sz[Dummy] = 2 * DSIZE
    /\ \A b \in DOMAIN sz : BlockOK(sz, b)
    /\ Apart(sz)
    /\ \A b \in DOMAIN sz : b + sz[b] <= brk /\ b + sz[b] \in DOMAIN sz \cup {brk}
    /\ \A b \in DOMAIN sz \cup {brk} :
         b # Prologue => \E p \in DOMAIN sz : p + sz[p] = b

(* What joining, splitting and growing do to a tiling.                      *)
Merged(sz, start, size) ==
    [b \in {x \in DOMAIN sz : x <= start \/ x >= start + size} |->
        IF b = start THEN size ELSE sz[b]]

Divided(sz, bp, asize) ==
    [b \in DOMAIN sz \cup {bp + asize} |->
        IF b = bp THEN asize ELSE IF b = bp + asize THEN sz[bp] - asize ELSE sz[b]]

Grown(sz, brk, size) == [b \in DOMAIN sz \cup {brk} |-> IF b = brk THEN size ELSE sz[b]]

(* The free list is a ring through the dummy block, linked both ways, that  *)
(* has no smaller ring through the dummy block inside it.                   *)
Ringed(L) == L \cup {Dummy}

Linked(m, D, b) ==
    /\ m[b] \in D /\ m[b + WSIZE] \in D
    /\ m[m[b + WSIZE]] = b /\ m[m[b] + WSIZE] = b

Ring(m, L) ==
    /\ \A b \in Ringed(L) : Linked(m, Ringed(L), b)
    /\ \A S \in SUBSET Ringed(L) :
         Dummy \in S /\ (\A b \in S : m[b + WSIZE] \in S) => S = Ringed(L)

(* Places for two pointers.                                                 *)
Spots(D) == \A b \in D : b \in Nat /\ b % DSIZE = 0 /\ b \in Words /\ b + WSIZE \in Words

(* Every block has its tag at both ends, and brk has the epilogue's.        *)
Tag(sz, F, b) == PACK(sz[b], IF b \in F THEN 0 ELSE 1)

Tagged(m, brk, sz, F) ==
    /\ \A b \in DOMAIN sz : m[HDRP(b)] = Tag(sz, F, b) /\ m[b + sz[b] - DSIZE] = Tag(sz, F, b)
    /\ m[HDRP(brk)] = PACK(0, 1)

Ordinary(sz) == DOMAIN sz \ {Prologue, Dummy}

Frame(h, sz, L) ==
    /\ h \in Heap /\ h.listp = Prologue
    /\ Tiling(sz, h.brk) /\ L \subseteq Ordinary(sz) /\ Ring(h.mem, L)

Shape(h, sz, F, L) ==
    Frame(h, sz, L) /\ Tagged(h.mem, h.brk, sz, F) /\ F \subseteq Ordinary(sz)

(* g has the tags of h at the blocks in X, and its epilogue.                *)
SameTags(h, g, sz, X) ==
    /\ \A b \in X : g.mem[HDRP(b)] = h.mem[HDRP(b)]
                  /\ g.mem[b + sz[b] - DSIZE] = h.mem[b + sz[b] - DSIZE]
    /\ g.brk = h.brk /\ g.mem[HDRP(h.brk)] = h.mem[HDRP(h.brk)]

(* Where the footer of a block is.                                          *)
Foot(b, size) == b + size - DSIZE

(* The data of the blocks in X is in g what it is in h.                     *)
Payload(sz, x) == {a \in Words : x <= a /\ a < x + sz[x] - DSIZE}
Untouched(h, g, sz, X) == \A x \in X : \A a \in Payload(sz, x) : g.mem[a] = h.mem[a]

(* A heap between two calls: the list holds the free blocks, no two of      *)
(* which are neighbours.                                                    *)
Good(h, sz, F) == Shape(h, sz, F, F) /\ \A b \in F : b + sz[b] \notin F

(* g has the allocated blocks of h, with their data.                        *)
Allocated(sz, F) == DOMAIN sz \ F
SameAllocated(h, g, sz, F, tz, G) ==
    /\ Allocated(tz, G) = Allocated(sz, F)
    /\ \A x \in Allocated(sz, F) : tz[x] = sz[x]
    /\ Untouched(h, g, sz, Allocated(sz, F) \ {Dummy})

-----------------------------------------------------------------------------
(* Arithmetic of addresses.                                                 *)
LEMMA Sums8 ==
    ASSUME NEW a \in Nat, NEW b \in Nat, a % DSIZE = 0, b % DSIZE = 0
    PROVE  /\ (a + b) % DSIZE = 0
           /\ a < b => a + DSIZE <= b /\ (b - a) % DSIZE = 0
BY DEF DSIZE

LEMMA Words8 ==
    ASSUME NEW a \in Nat, a % DSIZE = 0
    PROVE  /\ a % WSIZE = 0 /\ a + WSIZE \in Nat /\ (a + WSIZE) % WSIZE = 0
           /\ a > 0 => a - WSIZE \in Nat /\ (a - WSIZE) % WSIZE = 0
                      /\ a - DSIZE \in Nat /\ (a - DSIZE) % DSIZE = 0
<1>1. PICK q \in Nat : a = 8 * q
  <2>1. a = 8 * (a \div 8) /\ a \div 8 \in Nat
    BY DEF DSIZE
  <2> QED BY <2>1
<1>2. \A k \in Nat : (4 * k) % 4 = 0 /\ (8 * k) % 8 = 0
  OBVIOUS
<1>3. a = 4 * (2 * q) /\ a + 4 = 4 * (2 * q + 1)
  BY <1>1
<1>4. ASSUME a > 0 PROVE q > 0 /\ a - 4 = 4 * (2 * q - 1) /\ a - 8 = 8 * (q - 1)
  BY <1>1, <1>4
<1>5. a % 4 = 0 /\ (a + 4) % 4 = 0
  <2>1. 2 * q \in Nat /\ 2 * q + 1 \in Nat
    BY <1>1
  <2> QED BY <1>2, <1>3, <2>1
<1>6. ASSUME a > 0 PROVE a - 4 \in Nat /\ (a - 4) % 4 = 0 /\ a - 8 \in Nat /\ (a - 8) % 8 = 0
  <2>1. 2 * q - 1 \in Nat /\ q - 1 \in Nat
    BY <1>4, <1>6
  <2>2. (4 * (2 * q - 1)) % 4 = 0 /\ (8 * (q - 1)) % 8 = 0
    BY <1>2, <2>1
  <2>3. 4 * (2 * q - 1) \in Nat /\ 8 * (q - 1) \in Nat
    BY <2>1
  <2> QED BY <1>4, <1>6, <2>2, <2>3
<1> QED BY <1>5, <1>6 DEF WSIZE, DSIZE

LEMMA MergedTiling ==
    ASSUME NEW sz, NEW brk, Tiling(sz, brk),
           NEW start \in DOMAIN sz, NEW size \in Nat, start > Dummy,
           start + size \in DOMAIN sz \cup {brk}, size >= sz[start]
    PROVE  Tiling(Merged(sz, start, size), brk)
<1> DEFINE tz == Merged(sz, start, size)
           B == {x \in DOMAIN sz : x <= start \/ x >= start + size}
           e == start + size
<1>1. /\ DOMAIN tz = B /\ start \in B /\ B \subseteq DOMAIN sz
      /\ tz[start] = size /\ \A b \in B : b # start => tz[b] = sz[b]
  BY DEF Merged, Tiling, BlockOK
<1>2. /\ \A b \in DOMAIN sz : BlockOK(sz, b)
      /\ BlockOK(sz, start) /\ brk \in Nat /\ brk % DSIZE = 0
  BY DEF Tiling
<1>3. size % DSIZE = 0 /\ e \in Nat /\ e <= brk
  <2>1. e \in Nat /\ e % DSIZE = 0 /\ e <= brk /\ start \in Nat /\ start % DSIZE = 0
    BY <1>2 DEF Tiling, BlockOK
  <2> QED BY <2>1 DEF DSIZE
<1> HIDE DEF tz, B, e
<1>4. \A b \in B : BlockOK(tz, b)
  <2> SUFFICES ASSUME NEW b \in B PROVE BlockOK(tz, b)
    OBVIOUS
  <2>1. CASE b = start
    BY <2>1, <1>1, <1>2, <1>3 DEF BlockOK, DSIZE
  <2>2. CASE b # start
    BY <2>2, <1>1, <1>2 DEF BlockOK
  <2> QED BY <2>1, <2>2
<1>5. \A a, b \in DOMAIN sz : a < b => a + sz[a] <= b
  BY DEF Tiling, Apart
<1>6. Apart(tz)
  <2> SUFFICES ASSUME NEW a \in B, NEW b \in B, a < b PROVE a + tz[a] <= b
    BY <1>1 DEF Apart
  <2>1. CASE a = start
    <3>1. a \in Nat /\ b \in Nat
      BY <1>1, <1>2 DEF BlockOK
    <3> QED BY <2>1, <3>1, <1>1, <1>3 DEF B
  <2>2. CASE a # start
    BY <2>2, <1>1, <1>5
  <2> QED BY <2>1, <2>2
<1>7. ASSUME NEW b \in B
      PROVE  b + tz[b] <= brk /\ b + tz[b] \in B \cup {brk}
  <2>1. CASE b = start
    <3>1. e \in B \cup {brk}
      BY <1>2, <1>3 DEF e, B
    <3> QED BY <2>1, <3>1, <1>1, <1>3 DEF e
  <2>2. CASE b # start
    <3>1. b + sz[b] <= brk /\ b + sz[b] \in DOMAIN sz \cup {brk} /\ tz[b] = sz[b]
      BY <1>1, <2>2 DEF Tiling
    <3>2. CASE b < start
      <4>1. b + sz[b] <= start
        BY <3>2, <1>1, <1>5
      <4> QED BY <3>1, <4>1 DEF B
    <3>3. CASE b >= e
      <4>1. b + sz[b] >= e
        BY <3>3, <1>1, <1>2, <1>3 DEF BlockOK, DSIZE
      <4> QED BY <3>1, <4>1 DEF B, e
    <3>4. b < start \/ b >= e
      BY <2>2, <1>2, <1>1 DEF B, e, BlockOK
    <3> QED BY <3>2, <3>3, <3>4
  <2> QED BY <2>1, <2>2
<1>8. ASSUME NEW x \in B \cup {brk}, x # Prologue
      PROVE  \E p \in B : p + tz[p] = x
  <2>1. PICK p \in DOMAIN sz : p + sz[p] = x
    BY <1>1, <1>8 DEF Tiling
  <2>2. p \in Nat /\ sz[p] \in Nat /\ sz[p] > 0 /\ x \in Nat /\ start \in Nat
    BY <2>1, <1>2 DEF BlockOK, DSIZE
  <2>3. CASE p < start \/ p >= e
    <3>1. p \in B /\ p # start
      BY <2>2, <2>3, <1>2 DEF B, e, BlockOK, DSIZE
    <3> QED BY <3>1, <2>1, <1>1
  <2>4. CASE start <= p /\ p < e
    <3>1. x > start
      BY <2>1, <2>2, <2>4
    <3>2. x >= e
      BY <3>1, <2>2, <1>3, <1>2 DEF B, e
    <3>3. p + sz[p] <= e
      <4>1. CASE e \in DOMAIN sz
        BY <4>1, <2>4, <1>5
      <4>2. CASE e = brk
        BY <4>2 DEF Tiling
      <4> QED BY <4>1, <4>2 DEF e
    <3>4. x = e
      BY <3>2, <3>3, <2>1, <2>2, <1>3
    <3> QED BY <3>4, <1>1 DEF e
  <2> QED BY <2>2, <2>3, <2>4, <1>3
<1>9. /\ Prologue \in B /\ tz[Prologue] = DSIZE /\ Dummy \in B /\ tz[Dummy] = 2 * DSIZE
      /\ brk <= MAX_HEAP
  <2>1. start \in Nat /\ start # Dummy /\ start # Prologue /\ Prologue <= start /\ Dummy <= start
    BY <1>2 DEF BlockOK, Prologue, Dummy, WSIZE
  <2> QED BY <1>1, <2>1 DEF Tiling, B
<1>10. Tiling(tz, brk)
  BY <1>1, <1>2, <1>4, <1>6, <1>7, <1>8, <1>9 DEF Tiling
<1> QED BY <1>10 DEF tz
LEMMA DividedTiling ==
    ASSUME NEW sz, NEW brk, Tiling(sz, brk), NEW bp \in DOMAIN sz, bp > Dummy,
           NEW asize \in Nat, asize % DSIZE = 0, asize >= 2 * DSIZE,
           asize + 2 * DSIZE <= sz[bp]
    PROVE  Tiling(Divided(sz, bp, asize), brk) /\ bp + asize \notin DOMAIN sz
<1> DEFINE tz == Divided(sz, bp, asize)
           m == bp + asize
           B == DOMAIN sz \cup {m}
<1>1. \A b \in DOMAIN sz : BlockOK(sz, b)
  BY DEF Tiling
<1>2. /\ bp \in Nat /\ bp % DSIZE = 0 /\ sz[bp] \in Nat /\ sz[bp] % DSIZE = 0
      /\ m \in Nat /\ m % DSIZE = 0 /\ m > bp /\ m < bp + sz[bp]
      /\ sz[bp] - asize \in Nat /\ (sz[bp] - asize) % DSIZE = 0
      /\ sz[bp] - asize >= 2 * DSIZE /\ m # Prologue /\ bp # Prologue
      /\ m + (sz[bp] - asize) = bp + sz[bp] /\ m # bp /\ m # Dummy /\ bp # Dummy
  BY <1>1 DEF BlockOK, DSIZE, Prologue, Dummy, WSIZE
<1>3. \A a, b \in DOMAIN sz : a < b => a + sz[a] <= b
  BY DEF Tiling, Apart
<1>4. m \notin DOMAIN sz
  BY <1>2, <1>3
<1>5. /\ DOMAIN tz = B
      /\ tz[bp] = asize /\ tz[m] = sz[bp] - asize
      /\ \A b \in DOMAIN sz : b # bp => tz[b] = sz[b]
  BY <1>2, <1>4 DEF Divided
<1> HIDE DEF tz, m, B
<1>6. \A b \in B : BlockOK(tz, b)
  <2> SUFFICES ASSUME NEW b \in B PROVE BlockOK(tz, b)
    OBVIOUS
  <2>1. CASE b = bp
    BY <2>1, <1>1, <1>2, <1>5 DEF BlockOK, DSIZE
  <2>2. CASE b = m
    BY <2>2, <1>2, <1>5 DEF BlockOK, DSIZE, Prologue, WSIZE
  <2>3. CASE b \in DOMAIN sz /\ b # bp
    BY <2>3, <1>1, <1>5 DEF BlockOK
  <2> QED BY <2>1, <2>2, <2>3 DEF B
<1>7. \A b \in DOMAIN sz : b \in Nat /\ sz[b] \in Nat /\ sz[b] > 0
  BY <1>1 DEF BlockOK, DSIZE
<1>8. Apart(tz)
  <2> SUFFICES ASSUME NEW a \in B, NEW b \in B, a < b PROVE a + tz[a] <= b
    BY <1>5 DEF Apart
  <2>1. CASE a = m
    <3>1. b \in DOMAIN sz /\ b \in Nat
      BY <2>1, <1>2, <1>7 DEF B
    <3>2. bp + sz[bp] <= b
      BY <3>1, <2>1, <1>2, <1>3
    <3> QED BY <2>1, <3>2, <1>2, <1>5
  <2>2. CASE a = bp
    <3>1. CASE b = m
      BY <3>1, <2>2, <1>2, <1>5 DEF m
    <3>2. CASE b \in DOMAIN sz
      <4>1. bp + sz[bp] <= b /\ b \in Nat
        BY <2>2, <3>2, <1>3, <1>7
      <4> QED BY <4>1, <2>2, <1>2, <1>5 DEF m
    <3> QED BY <3>1, <3>2 DEF B
  <2>3. CASE a \in DOMAIN sz /\ a # bp
    <3>1. CASE b \in DOMAIN sz
      BY <2>3, <3>1, <1>3, <1>5
    <3>2. CASE b = m
      <4>1. a < bp
        BY <2>3, <3>2, <1>2, <1>3, <1>7
      <4>2. a + sz[a] <= bp
        BY <4>1, <2>3, <1>3
      <4> QED BY <4>2, <2>3, <3>2, <1>2, <1>5, <1>7
    <3> QED BY <3>1, <3>2 DEF B
  <2> QED BY <2>1, <2>2, <2>3 DEF B
<1>9. \A b \in DOMAIN sz : b + sz[b] <= brk /\ b + sz[b] \in DOMAIN sz \cup {brk}
  BY DEF Tiling
<1>10. ASSUME NEW b \in B
       PROVE  b + tz[b] <= brk /\ b + tz[b] \in B \cup {brk}
  <2>1. CASE b = bp
    <3>1. b + tz[b] = m /\ brk \in Nat
      BY <2>1, <1>5 DEF m, Tiling
    <3> QED BY <3>1, <1>2, <1>9 DEF B
  <2>2. CASE b = m
    BY <2>2, <1>5, <1>2, <1>9 DEF B
  <2>3. CASE b \in DOMAIN sz /\ b # bp
    BY <2>3, <1>5, <1>9 DEF B
  <2> QED BY <2>1, <2>2, <2>3 DEF B
<1>11. ASSUME NEW x \in B \cup {brk}, x # Prologue
       PROVE  \E p \in B : p + tz[p] = x
  <2>1. CASE x = m
    BY <2>1, <1>5 DEF m, B
  <2>2. CASE x # m
    <3>1. PICK p \in DOMAIN sz : p + sz[p] = x
      BY <1>11, <2>2 DEF Tiling, B
    <3>2. CASE p = bp
      BY <3>1, <3>2, <1>2, <1>5 DEF B
    <3>3. CASE p # bp
      BY <3>1, <3>3, <1>5 DEF B
    <3> QED BY <3>2, <3>3
  <2> QED BY <2>1, <2>2
<1>12. /\ Prologue \in B /\ tz[Prologue] = DSIZE /\ Dummy \in B /\ tz[Dummy] = 2 * DSIZE
       /\ brk \in Nat /\ brk % DSIZE = 0 /\ brk <= MAX_HEAP
  BY <1>2, <1>5 DEF Tiling, B
<1>13. Tiling(tz, brk)
  BY <1>5, <1>6, <1>8, <1>10, <1>11, <1>12 DEF Tiling
<1> QED BY <1>4, <1>13 DEF tz, m

LEMMA GrownTiling ==
    ASSUME NEW sz, NEW brk, Tiling(sz, brk), NEW size \in Nat,
           size % DSIZE = 0, size >= 2 * DSIZE, brk + size <= MAX_HEAP
    PROVE  Tiling(Grown(sz, brk, size), brk + size) /\ brk \notin DOMAIN sz
<1> DEFINE tz == Grown(sz, brk, size)
           B == DOMAIN sz \cup {brk}
<1>1. \A b \in DOMAIN sz : BlockOK(sz, b)
  BY DEF Tiling
<1>2. /\ brk \in Nat /\ brk % DSIZE = 0 /\ brk + size \in Nat /\ (brk + size) % DSIZE = 0
      /\ MAX_HEAP \in Nat
  BY HeapAssumption DEF Tiling, DSIZE
<1>3. \A b \in DOMAIN sz : b \in Nat /\ sz[b] \in Nat /\ sz[b] > 0
  BY <1>1 DEF BlockOK, DSIZE
<1>4. \A b \in DOMAIN sz : b + sz[b] <= brk /\ b + sz[b] \in DOMAIN sz \cup {brk}
  BY DEF Tiling
<1>5. brk \notin DOMAIN sz /\ \A b \in DOMAIN sz : b < brk
  BY <1>2, <1>3, <1>4
<1>6. /\ DOMAIN tz = B /\ tz[brk] = size
      /\ \A b \in DOMAIN sz : tz[b] = sz[b]
  BY <1>5 DEF Grown
<1>7. Dummy \in DOMAIN sz /\ Prologue \in DOMAIN sz /\ brk > Dummy
  BY <1>5 DEF Tiling
<1> HIDE DEF tz, B
<1>8. \A b \in B : BlockOK(tz, b)
  <2>1. BlockOK(tz, brk)
    BY <1>2, <1>6, <1>7 DEF BlockOK, Prologue, Dummy, WSIZE, DSIZE
  <2> QED BY <2>1, <1>1, <1>6 DEF BlockOK, B
<1>9. Apart(tz)
  <2> SUFFICES ASSUME NEW a \in B, NEW b \in B, a < b PROVE a + tz[a] <= b
    BY <1>6 DEF Apart
  <2>1. a \in DOMAIN sz
    BY <1>2, <1>3, <1>5 DEF B
  <2>2. CASE b = brk
    BY <2>1, <2>2, <1>4, <1>6
  <2>3. CASE b \in DOMAIN sz
    BY <2>1, <2>3, <1>6 DEF Tiling, Apart
  <2> QED BY <2>2, <2>3 DEF B
<1>10. ASSUME NEW b \in B
       PROVE  b + tz[b] <= brk + size /\ b + tz[b] \in B \cup {brk + size}
  <2>1. CASE b = brk
    BY <2>1, <1>2, <1>6
  <2>2. CASE b \in DOMAIN sz
    BY <2>2, <1>2, <1>3, <1>4, <1>6 DEF B
  <2> QED BY <2>1, <2>2 DEF B
<1>11. ASSUME NEW x \in B \cup {brk + size}, x # Prologue
       PROVE  \E p \in B : p + tz[p] = x
  <2>1. CASE x = brk + size
    BY <2>1, <1>6 DEF B
  <2>2. CASE x \in B
    <3>1. PICK p \in DOMAIN sz : p + sz[p] = x
      BY <1>11, <2>2 DEF Tiling, B
    <3> QED BY <3>1, <1>6 DEF B
  <2> QED BY <2>1, <2>2
<1>12. /\ Prologue \in B /\ tz[Prologue] = DSIZE /\ Dummy \in B /\ tz[Dummy] = 2 * DSIZE
  BY <1>6 DEF Tiling, B
<1>13. Tiling(tz, brk + size)
  BY <1>2, <1>6, <1>8, <1>9, <1>10, <1>11, <1>12 DEF Tiling
<1> QED BY <1>5, <1>13 DEF tz

-----------------------------------------------------------------------------
(* The ring.  Its pointers are at even words, which the successors' are not *)
(* at.                                                                      *)
LEMMA SpotsApart ==
    ASSUME NEW D, Spots(D), NEW b \in D, NEW c \in D
    PROVE  /\ b # c + WSIZE /\ c # b + WSIZE
           /\ b + WSIZE = c + WSIZE => b = c
BY DEF Spots, DSIZE, WSIZE

LEMMA RingRemove ==
    ASSUME NEW m, DOMAIN m = Words, NEW L, Dummy \notin L, Spots(Ringed(L)), Ring(m, L),
           NEW b \in L
    PROVE  /\ m[b] \in Ringed(L) \ {b} /\ m[b + WSIZE] \in Ringed(L) \ {b}
           /\ Ring([m EXCEPT ![m[b] + WSIZE] = m[b + WSIZE], ![m[b + WSIZE]] = m[b]], L \ {b})
<1> DEFINE D == Ringed(L)
           E == Ringed(L \ {b})
           p == m[b]
           s == m[b + WSIZE]
           g == [m EXCEPT ![p + WSIZE] = s, ![s] = p]
<1>1. E = D \ {b} /\ b \in D /\ Dummy \in E
  BY DEF Ringed
<1>2. \A x \in D : m[x] \in D /\ m[x + WSIZE] \in D /\ m[m[x + WSIZE]] = x /\ m[m[x] + WSIZE] = x
  BY DEF Ring, Linked
<1>3. \A S \in SUBSET D : Dummy \in S /\ (\A x \in S : m[x + WSIZE] \in S) => S = D
  BY DEF Ring
<1>4. \A x, y \in D : x # y + WSIZE /\ (x + WSIZE = y + WSIZE => x = y)
  BY SpotsApart
<1>5. \A x \in D : x \in Words /\ x + WSIZE \in Words
  BY DEF Spots
<1> HIDE DEF D, E
<1>6. p \in E /\ s \in E
  <2>1. SUFFICES ASSUME s = b \/ p = b PROVE FALSE
    BY <1>1, <1>2
  <2>2. p = b
    BY <1>1, <1>2, <2>1
  <2>3. \A x \in E : m[x + WSIZE] \in E
    BY <1>1, <1>2, <2>2
  <2> QED BY <1>1, <1>3, <2>3
<1>7. /\ \A x \in E : g[x] = IF x = s THEN p ELSE m[x]
      /\ \A x \in E : g[x + WSIZE] = IF x = p THEN s ELSE m[x + WSIZE]
  BY <1>1, <1>4, <1>5, <1>6
<1> HIDE DEF g
<1>8. \A x \in E : Linked(g, E, x)
  <2> SUFFICES ASSUME NEW x \in E PROVE Linked(g, E, x)
    OBVIOUS
  <2>1. g[x] \in E /\ g[g[x] + WSIZE] = x
    <3>1. CASE x = s
      BY <3>1, <1>6, <1>7
    <3>2. CASE x # s
      <4>1. m[x] \in E /\ m[x] # p
        BY <3>2, <1>1, <1>2
      <4> QED BY <4>1, <3>2, <1>1, <1>2, <1>7
    <3> QED BY <3>1, <3>2
  <2>2. g[x + WSIZE] \in E /\ g[g[x + WSIZE]] = x
    <3>1. CASE x = p
      BY <3>1, <1>6, <1>7
    <3>2. CASE x # p
      <4>1. m[x + WSIZE] \in E /\ m[x + WSIZE] # s
        BY <3>2, <1>1, <1>2
      <4> QED BY <4>1, <3>2, <1>1, <1>2, <1>7
    <3> QED BY <3>1, <3>2
  <2> QED BY <2>1, <2>2 DEF Linked
<1>9. ASSUME NEW S \in SUBSET E, Dummy \in S, \A x \in S : g[x + WSIZE] \in S
      PROVE  S = E
  <2>1. CASE p \in S
    <3>1. s \in S
      BY <2>1, <1>6, <1>7, <1>9
    <3>2. \A x \in S \cup {b} : m[x + WSIZE] \in S \cup {b}
      BY <3>1, <1>1, <1>2, <1>7, <1>9
    <3>3. S \cup {b} \in SUBSET D
      BY <1>1
    <3> QED BY <3>2, <3>3, <1>1, <1>3, <1>9
  <2>2. CASE p \notin S
    <3>1. \A x \in S : m[x + WSIZE] \in S
      BY <2>2, <1>7, <1>9
    <3> QED BY <3>1, <1>1, <1>3, <1>9
  <2> QED BY <2>1, <2>2
<1>10. Ring(g, L \ {b})
  BY <1>8, <1>9 DEF Ring, E
<1> QED BY <1>1, <1>6, <1>10 DEF g, D, E

LEMMA RingAdd ==
    ASSUME NEW m, DOMAIN m = Words, NEW L, NEW b, b \notin Ringed(L),
           Spots(Ringed(L \cup {b})), Ring(m, L)
    PROVE  /\ m[Dummy + WSIZE] \in Ringed(L)
           /\ Ring([m EXCEPT ![b + WSIZE] = m[Dummy + WSIZE], ![m[Dummy + WSIZE]] = b,
                             ![b] = Dummy, ![Dummy + WSIZE] = b], L \cup {b})
<1> DEFINE D == Ringed(L)
           E == Ringed(L \cup {b})
           n == m[Dummy + WSIZE]
           g == [m EXCEPT ![b + WSIZE] = n, ![n] = b, ![b] = Dummy, ![Dummy + WSIZE] = b]
<1>1. E = D \cup {b} /\ b \notin D /\ Dummy \in D
  BY DEF Ringed
<1>2. \A x \in D : m[x] \in D /\ m[x + WSIZE] \in D /\ m[m[x + WSIZE]] = x /\ m[m[x] + WSIZE] = x
  BY DEF Ring, Linked
<1>3. \A S \in SUBSET D : Dummy \in S /\ (\A x \in S : m[x + WSIZE] \in S) => S = D
  BY DEF Ring
<1>4. \A x, y \in E : x # y + WSIZE /\ (x + WSIZE = y + WSIZE => x = y)
  BY SpotsApart
<1>5. \A x \in E : x \in Words /\ x + WSIZE \in Words
  BY DEF Spots
<1> HIDE DEF D, E
<1>6. n \in D
  BY <1>1, <1>2
<1> HIDE DEF n
<1>7. ASSUME NEW x \in E
      PROVE  /\ g[x] = IF x = b THEN Dummy ELSE IF x = n THEN b ELSE m[x]
             /\ g[x + WSIZE] = IF x = Dummy THEN b ELSE IF x = b THEN n ELSE m[x + WSIZE]
  <2>1. x # b + WSIZE /\ x # Dummy + WSIZE /\ x + WSIZE # n /\ x + WSIZE # b
    BY <1>1, <1>4, <1>6
  <2>2. /\ x + WSIZE = b + WSIZE => x = b
        /\ x + WSIZE = Dummy + WSIZE => x = Dummy
        /\ b # n /\ b # Dummy /\ x \in Words /\ x + WSIZE \in Words
    BY <1>1, <1>4, <1>5, <1>6
  <2> QED BY <2>1, <2>2
<1> HIDE DEF g
<1>8. ASSUME NEW x \in E PROVE Linked(g, E, x)
  <2>1. g[x] \in E /\ g[g[x] + WSIZE] = x
    <3>1. CASE x = b
      BY <3>1, <1>1, <1>7
    <3>2. CASE x = n
      BY <3>2, <1>1, <1>2, <1>6, <1>7 DEF n
    <3>3. CASE x # b /\ x # n
      <4>1. m[x] \in D /\ m[x] # Dummy
        BY <3>3, <1>1, <1>2 DEF n
      <4> QED BY <4>1, <3>3, <1>1, <1>2, <1>7
    <3> QED BY <3>1, <3>2, <3>3
  <2>2. g[x + WSIZE] \in E /\ g[g[x + WSIZE]] = x
    <3>1. CASE x = Dummy
      BY <3>1, <1>1, <1>7
    <3>2. CASE x = b
      BY <3>2, <1>1, <1>6, <1>7
    <3>3. CASE x # b /\ x # Dummy
      <4>1. m[x + WSIZE] \in D /\ m[x + WSIZE] # n
        BY <3>3, <1>1, <1>2 DEF n
      <4> QED BY <4>1, <3>3, <1>1, <1>2, <1>7
    <3> QED BY <3>1, <3>2, <3>3
  <2> QED BY <2>1, <2>2 DEF Linked
<1>9. ASSUME NEW S \in SUBSET E, Dummy \in S, \A x \in S : g[x + WSIZE] \in S
      PROVE  S = E
  <2>1. b \in S
    BY <1>1, <1>7, <1>9
  <2>2. n \in S
    BY <2>1, <1>1, <1>7, <1>9
  <2>3. \A x \in S \ {b} : m[x + WSIZE] \in S \ {b}
    <3> SUFFICES ASSUME NEW x \in S \ {b} PROVE m[x + WSIZE] \in S \ {b}
      OBVIOUS
    <3>1. CASE x = Dummy
      BY <3>1, <2>2, <1>1, <1>6 DEF n
    <3>2. CASE x # Dummy
      BY <3>2, <1>1, <1>2, <1>7, <1>9
    <3> QED BY <3>1, <3>2
  <2>4. S \ {b} \in SUBSET D /\ Dummy \in S \ {b}
    BY <1>1, <1>9
  <2> QED BY <2>1, <2>3, <2>4, <1>1, <1>3
<1>10. Ring(g, L \cup {b})
  BY <1>8, <1>9 DEF Ring, E
<1> QED BY <1>6, <1>10 DEF g, D, n

(* What is written elsewhere leaves the ring alone.                         *)
LEMMA RingFrame ==
    ASSUME NEW m, NEW g, NEW L, Ring(m, L),
           \A b \in Ringed(L) : g[b] = m[b] /\ g[b + WSIZE] = m[b + WSIZE]
    PROVE  Ring(g, L)
<1>1. \A b \in Ringed(L) : Linked(g, Ringed(L), b)
  BY DEF Ring, Linked
<1> QED BY <1>1 DEF Ring

-----------------------------------------------------------------------------
(* Where tags, pointers and data are.                                       *)
LEMMA InWords ==
    ASSUME NEW a \in Nat, a % WSIZE = 0, a < MAX_HEAP
    PROVE  a \in Words
<1>1. MAX_HEAP \in Nat /\ MAX_HEAP % 8 = 0
  BY HeapAssumption DEF DSIZE
<1>2. a = 4 * (a \div 4) /\ a \div 4 \in 0 .. MAX_HEAP \div 4 - 1
  BY <1>1 DEF WSIZE
<1> QED BY <1>2 DEF Words, WSIZE

LEMMA BlockWords ==
    ASSUME NEW sz, NEW brk, Tiling(sz, brk), NEW b \in DOMAIN sz
    PROVE  /\ b \in Nat /\ sz[b] \in Nat /\ b % DSIZE = 0
           /\ b >= Prologue /\ sz[b] >= DSIZE /\ b + sz[b] <= brk
           /\ b # Prologue => sz[b] >= 2 * DSIZE
           /\ HDRP(b) \in Words /\ b + sz[b] - DSIZE \in Words /\ HDRP(brk) \in Words
           /\ b # Prologue => b \in Words /\ b + WSIZE \in Words
<1>1. BlockOK(sz, b) /\ b + sz[b] <= brk /\ brk \in Nat /\ brk <= MAX_HEAP /\ brk % DSIZE = 0
  BY DEF Tiling
<1>2. MAX_HEAP \in Nat
  BY HeapAssumption
<1>3. /\ b \in Nat /\ sz[b] \in Nat /\ b % DSIZE = 0 /\ sz[b] % DSIZE = 0
      /\ b >= Prologue /\ sz[b] >= DSIZE
      /\ b # Prologue => sz[b] >= 2 * DSIZE
  BY <1>1 DEF BlockOK
<1>4. /\ HDRP(b) \in Nat /\ HDRP(b) % WSIZE = 0 /\ HDRP(b) < MAX_HEAP
      /\ HDRP(brk) \in Nat /\ HDRP(brk) % WSIZE = 0 /\ HDRP(brk) < MAX_HEAP
  <2>1. b > 0 /\ brk > 0 /\ b <= brk
    BY <1>1, <1>3 DEF Prologue, WSIZE, DSIZE
  <2>2. /\ b - WSIZE \in Nat /\ (b - WSIZE) % WSIZE = 0
        /\ brk - WSIZE \in Nat /\ (brk - WSIZE) % WSIZE = 0
    BY <1>1, <1>3, <2>1, Words8
  <2>3. b - WSIZE < MAX_HEAP /\ brk - WSIZE < MAX_HEAP
    BY <1>1, <1>2, <1>3, <2>1 DEF WSIZE
  <2> QED BY <2>2, <2>3 DEF HDRP
<1>5. /\ b + sz[b] - DSIZE \in Nat /\ (b + sz[b] - DSIZE) % WSIZE = 0
      /\ b + sz[b] - DSIZE < MAX_HEAP
  <2> DEFINE e == b + sz[b]
  <2>1. e \in Nat /\ e % DSIZE = 0 /\ e > 0
    BY <1>3, Sums8 DEF DSIZE, Prologue, WSIZE
  <2>2. e - DSIZE \in Nat /\ (e - DSIZE) % DSIZE = 0
    BY <2>1, Words8
  <2>3. (e - DSIZE) % WSIZE = 0
    BY <2>2, Words8
  <2>4. b + sz[b] - DSIZE = e - DSIZE
    BY <1>3 DEF DSIZE
  <2>5. e - DSIZE < MAX_HEAP
    BY <1>1, <1>2, <2>1 DEF DSIZE
  <2> HIDE DEF e
  <2> QED BY <2>2, <2>3, <2>4, <2>5
<1>6. ASSUME b # Prologue
      PROVE  /\ b % WSIZE = 0 /\ b < MAX_HEAP
             /\ b + WSIZE \in Nat /\ (b + WSIZE) % WSIZE = 0 /\ b + WSIZE < MAX_HEAP
  <2>1. b % WSIZE = 0 /\ b + WSIZE \in Nat /\ (b + WSIZE) % WSIZE = 0
    BY <1>3, Words8
  <2>2. b + 16 <= MAX_HEAP
    BY <1>1, <1>2, <1>3, <1>6 DEF DSIZE
  <2> QED BY <1>2, <1>3, <2>1, <2>2 DEF WSIZE
<1>7. HDRP(b) \in Words /\ HDRP(brk) \in Words /\ b + sz[b] - DSIZE \in Words
  BY <1>4, <1>5, InWords
<1>8. b # Prologue => b \in Words /\ b + WSIZE \in Words
  BY <1>3, <1>6, InWords
<1> QED BY <1>1, <1>3, <1>7, <1>8

LEMMA ListSpots ==
    ASSUME NEW sz, NEW brk, Tiling(sz, brk), NEW L, L \subseteq Ordinary(sz)
    PROVE  Spots(Ringed(L))
<1>1. Ringed(L) \subseteq DOMAIN sz \ {Prologue}
  BY DEF Ringed, Ordinary, Tiling, Prologue, Dummy, WSIZE
<1> QED BY <1>1, BlockWords DEF Spots

(* No two of these are the same word: the tags of two blocks, the           *)
(* epilogue, and the pointers in a block.                                   *)
LEMMA CellsApart ==
    ASSUME NEW sz, NEW brk, Tiling(sz, brk), NEW a \in DOMAIN sz, NEW b \in DOMAIN sz
    PROVE  /\ HDRP(a) # b + sz[b] - DSIZE
           /\ HDRP(a) = HDRP(b) => a = b
           /\ a + sz[a] - DSIZE = b + sz[b] - DSIZE => a = b
           /\ HDRP(brk) # HDRP(a) /\ HDRP(brk) # a + sz[a] - DSIZE
           /\ b # Prologue => {b, b + WSIZE} \cap {HDRP(a), a + sz[a] - DSIZE, HDRP(brk)} = {}
<1>1. \A x, y \in DOMAIN sz : x < y => x + sz[x] <= y
  BY DEF Tiling, Apart
<1>2. /\ a \in Nat /\ sz[a] \in Nat /\ sz[a] >= DSIZE /\ a + sz[a] <= brk
      /\ b \in Nat /\ sz[b] \in Nat /\ sz[b] >= DSIZE /\ b + sz[b] <= brk
      /\ b # Prologue => sz[b] >= 2 * DSIZE
      /\ brk \in Nat
  BY BlockWords DEF Tiling
<1>3. a < b \/ a = b \/ b < a
  BY <1>2
<1> QED BY <1>1, <1>2, <1>3 DEF HDRP, WSIZE, DSIZE

(* Tags and pointers are not in the data of another block, and no tag is in *)
(* its own block's.                                                         *)
LEMMA DataApart ==
    ASSUME NEW sz, NEW brk, Tiling(sz, brk), NEW x \in DOMAIN sz, NEW a \in Payload(sz, x),
           NEW b \in DOMAIN sz
    PROVE  /\ a # HDRP(b) /\ a # b + sz[b] - DSIZE /\ a # HDRP(brk)
           /\ b # x /\ b # Prologue => a # b /\ a # b + WSIZE
<1>1. \A c, d \in DOMAIN sz : c < d => c + sz[c] <= d
  BY DEF Tiling, Apart
<1>2. /\ x \in Nat /\ sz[x] \in Nat /\ sz[x] >= DSIZE /\ x + sz[x] <= brk
      /\ b \in Nat /\ sz[b] \in Nat /\ sz[b] >= DSIZE /\ b + sz[b] <= brk
      /\ b # Prologue => sz[b] >= 2 * DSIZE
      /\ brk \in Nat
  BY BlockWords DEF Tiling
<1>3. x <= a /\ a < x + sz[x] - DSIZE /\ a \in Nat
  <2>1. \A i \in 0 .. MAX_HEAP \div WSIZE - 1 : WSIZE * i \in Nat
    BY HeapAssumption DEF WSIZE
  <2> QED BY <2>1 DEF Payload, Words
<1>4. x < b \/ x = b \/ b < x
  BY <1>2
<1> QED BY <1>1, <1>2, <1>3, <1>4 DEF HDRP, WSIZE, DSIZE

-----------------------------------------------------------------------------
(* Reading tags.                                                            *)
LEMMA TagWord ==
    ASSUME NEW s \in Nat, s % DSIZE = 0, NEW bit \in {0, 1}
    PROVE  /\ PACK(s, bit) \in Nat /\ PACK(s, bit) % 2 = bit
           /\ PACK(s, bit) - (PACK(s, bit) % 8) = s
<1>1. s = 8 * (s \div 8) /\ s \div 8 \in Nat
  BY DEF DSIZE
<1>2. \A k \in Nat : /\ (8 * k) % 8 = 0 /\ (8 * k + 1) % 8 = 1
                     /\ (8 * k) % 2 = 0 /\ (8 * k + 1) % 2 = 1
  OBVIOUS
<1>3. /\ s % 8 = 0 /\ (s + 1) % 8 = 1
      /\ s % 2 = 0 /\ (s + 1) % 2 = 1
  BY <1>1, <1>2
<1> QED BY <1>3 DEF PACK

LEMMA ReadTags ==
    ASSUME NEW h, NEW sz, NEW F, Tiling(sz, h.brk), Tagged(h.mem, h.brk, sz, F),
           NEW b \in DOMAIN sz
    PROVE  /\ GET_SIZE(h, HDRP(b)) = sz[b]
           /\ GET_ALLOC(h, HDRP(b)) = IF b \in F THEN 0 ELSE 1
           /\ FTRP(h, b) = b + sz[b] - DSIZE
           /\ GET_SIZE(h, b + sz[b] - DSIZE) = sz[b]
           /\ GET_ALLOC(h, b + sz[b] - DSIZE) = IF b \in F THEN 0 ELSE 1
           /\ NEXT_BLKP(h, b) = b + sz[b]
           /\ PREV_BLKP(h, b + sz[b]) = b
           /\ GET_ALLOC(h, HDRP(h.brk)) = 1
<1>1. BlockOK(sz, b)
  BY DEF Tiling
<1>2. sz[b] \in Nat /\ sz[b] % DSIZE = 0 /\ b \in Nat
  BY <1>1 DEF BlockOK
<1>3. h.mem[HDRP(b)] = Tag(sz, F, b) /\ h.mem[b + sz[b] - DSIZE] = Tag(sz, F, b)
  BY DEF Tagged
<1> DEFINE t == Tag(sz, F, b)
           bit == IF b \in F THEN 0 ELSE 1
<1>4. t \in Nat /\ t - (t % 8) = sz[b] /\ t % 2 = bit
  <2>1. bit \in {0, 1}
    OBVIOUS
  <2>2. t = PACK(sz[b], bit)
    BY DEF Tag
  <2> QED BY <1>2, <2>1, <2>2, TagWord
<1> HIDE DEF t, bit
<1>5. /\ GET_SIZE(h, HDRP(b)) = sz[b] /\ GET_ALLOC(h, HDRP(b)) = bit
      /\ GET_SIZE(h, b + sz[b] - DSIZE) = sz[b] /\ GET_ALLOC(h, b + sz[b] - DSIZE) = bit
  BY <1>3, <1>4 DEF GET_SIZE, GET_ALLOC, t
<1>6. FTRP(h, b) = b + sz[b] - DSIZE
  BY <1>5 DEF FTRP
<1>7. NEXT_BLKP(h, b) = b + sz[b]
  BY <1>5 DEF NEXT_BLKP, HDRP
<1>8. PREV_BLKP(h, b + sz[b]) = b
  <2>1. (b + sz[b]) - DSIZE = b + sz[b] - DSIZE
    BY <1>2 DEF DSIZE
  <2>2. GET_SIZE(h, (b + sz[b]) - DSIZE) = sz[b]
    BY <1>5, <2>1
  <2> QED BY <1>2, <2>2 DEF PREV_BLKP
<1>9. GET_ALLOC(h, HDRP(h.brk)) = 1
  BY DEF Tagged, GET_ALLOC, PACK
<1> QED BY <1>5, <1>6, <1>7, <1>8, <1>9 DEF bit

-----------------------------------------------------------------------------
(* Writing.  Pointers are written in the blocks of the list alone.          *)
LEMMA HeapParts ==
    ASSUME NEW h \in Heap
    PROVE  /\ DOMAIN h.mem = Words
           /\ \A m : m \in [Words -> Nat \cup Ids \cup {Junk}] => [h EXCEPT !.mem = m] \in Heap
           /\ \A m : /\ [h EXCEPT !.mem = m].mem = m
                     /\ [h EXCEPT !.mem = m].brk = h.brk
                     /\ [h EXCEPT !.mem = m].listp = h.listp
BY DEF Heap

(* A heap that differs from another in the pointers of listed blocks and of *)
(* the dummy block only.                                                    *)
LEMMA PointersFrame ==
    ASSUME NEW h, NEW sz, NEW L, Frame(h, sz, L),
           NEW K, K \subseteq Ordinary(sz), NEW P, P \subseteq Ordinary(sz),
           NEW m, m = [a \in Words |-> m[a]], Ring(m, K),
           \A a \in Words : m[a] = h.mem[a]
               \/ (m[a] \in Ringed(P) /\ \E b \in Ringed(P) : a \in {b, b + WSIZE})
    PROVE  LET g == [h EXCEPT !.mem = m]
           IN /\ Frame(g, sz, K) /\ SameTags(h, g, sz, DOMAIN sz)
              /\ Untouched(h, g, sz, DOMAIN sz \ Ringed(P))
<1> DEFINE g == [h EXCEPT !.mem = m]
<1>1. h \in Heap /\ Tiling(sz, h.brk) /\ h.listp = Prologue
  BY DEF Frame
<1>2. Ringed(P) \subseteq DOMAIN sz \ {Prologue}
  BY <1>1 DEF Ringed, Ordinary, Tiling, Prologue, Dummy, WSIZE
<1>3. g.mem = m /\ g.brk = h.brk /\ g.listp = Prologue /\ g \in Heap
  <2>1. \A a \in Words : m[a] \in Nat \cup Ids \cup {Junk}
    <3>1. \A a \in Words : h.mem[a] \in Nat \cup Ids \cup {Junk}
      BY <1>1 DEF Heap
    <3>2. \A b \in Ringed(P) : b \in Nat
      BY <1>1, <1>2, BlockWords
    <3> QED BY <3>1, <3>2
  <2>2. m \in [Words -> Nat \cup Ids \cup {Junk}]
    BY <2>1
  <2> QED BY <1>1, <2>2, HeapParts
<1>4. ASSUME NEW b \in DOMAIN sz, NEW t \in {HDRP(b), b + sz[b] - DSIZE, HDRP(h.brk)}
      PROVE  m[t] = h.mem[t]
  <2>1. t \in Words
    BY <1>1, BlockWords
  <2>2. \A c \in Ringed(P) : c \in DOMAIN sz /\ c # Prologue
    BY <1>2
  <2>3. \A c \in Ringed(P) : {c, c + WSIZE} \cap {HDRP(b), b + sz[b] - DSIZE, HDRP(h.brk)} = {}
    BY <1>1, <2>2, CellsApart
  <2> QED BY <2>1, <2>3
<1>5. SameTags(h, g, sz, DOMAIN sz)
  <2>1. Dummy \in DOMAIN sz
    BY <1>1 DEF Tiling
  <2> QED BY <2>1, <1>3, <1>4 DEF SameTags
<1>6. Frame(g, sz, K)
  BY <1>1, <1>3 DEF Frame
<1>7. ASSUME NEW x \in DOMAIN sz \ Ringed(P), NEW a \in Payload(sz, x)
      PROVE  g.mem[a] = h.mem[a]
  <2>1. \A b \in Ringed(P) : a # b /\ a # b + WSIZE
    BY <1>1, <1>2, DataApart
  <2> QED BY <2>1, <1>3 DEF Payload
<1> QED BY <1>5, <1>6, <1>7 DEF Untouched

(* Tags stay tags where they are the same.                                  *)
LEMMA TaggedStill ==
    ASSUME NEW h, NEW g, NEW sz, NEW F,
           Tagged(h.mem, h.brk, sz, F), SameTags(h, g, sz, DOMAIN sz)
    PROVE  Tagged(g.mem, g.brk, sz, F)
BY DEF Tagged, SameTags

LEMMA RemoveFrame ==
    ASSUME NEW h, NEW sz, NEW L, Frame(h, sz, L), NEW b \in L
    PROVE  LET g == remove_from_free_list(h, b)
           IN /\ Frame(g, sz, L \ {b}) /\ SameTags(h, g, sz, DOMAIN sz)
              /\ Untouched(h, g, sz, DOMAIN sz \ Ringed(L))
<1> DEFINE p == h.mem[b]
           s == h.mem[b + WSIZE]
           m == [h.mem EXCEPT ![p + WSIZE] = s, ![s] = p]
           g == [h EXCEPT !.mem = m]
<1>1. /\ h \in Heap /\ Tiling(sz, h.brk) /\ Ring(h.mem, L) /\ L \subseteq Ordinary(sz)
      /\ Dummy \notin L /\ DOMAIN h.mem = Words
  BY HeapParts DEF Frame, Ordinary
<1>2. Spots(Ringed(L))
  BY <1>1, ListSpots
<1>3. p \in Ringed(L) /\ s \in Ringed(L) /\ Ring(m, L \ {b})
  BY <1>1, <1>2, RingRemove
<1>4. \A a \in Words : m[a] = h.mem[a]
         \/ (m[a] \in Ringed(L) /\ \E c \in Ringed(L) : a \in {c, c + WSIZE})
  BY <1>1, <1>3
<1>5. m = [a \in Words |-> m[a]] /\ L \ {b} \subseteq Ordinary(sz)
  BY <1>1
<1> HIDE DEF m
<1>6. /\ Frame(g, sz, L \ {b}) /\ SameTags(h, g, sz, DOMAIN sz)
      /\ Untouched(h, g, sz, DOMAIN sz \ Ringed(L))
  BY <1>1, <1>3, <1>4, <1>5, PointersFrame
<1>7. g = remove_from_free_list(h, b)
  BY <1>1 DEF remove_from_free_list, GET_PRED, GET_SUCC, m, Heap
<1> QED BY <1>6, <1>7

LEMMA AddFrame ==
    ASSUME NEW h, NEW sz, NEW L, Frame(h, sz, L), NEW b \in Ordinary(sz), b \notin L
    PROVE  LET g == add_to_free_list(h, b)
           IN /\ Frame(g, sz, L \cup {b}) /\ SameTags(h, g, sz, DOMAIN sz)
              /\ Untouched(h, g, sz, DOMAIN sz \ Ringed(L \cup {b}))
<1> DEFINE n == h.mem[Dummy + WSIZE]
           m == [h.mem EXCEPT ![b + WSIZE] = n, ![n] = b, ![b] = Dummy, ![Dummy + WSIZE] = b]
           g == [h EXCEPT !.mem = m]
           K == L \cup {b}
<1>1. /\ h \in Heap /\ Tiling(sz, h.brk) /\ Ring(h.mem, L) /\ K \subseteq Ordinary(sz)
      /\ b \notin Ringed(L) /\ DOMAIN h.mem = Words /\ h.listp = Prologue
  BY HeapParts DEF Frame, Ordinary, Ringed
<1>2. Spots(Ringed(K))
  BY <1>1, ListSpots
<1>3. n \in Ringed(L) /\ Ring(m, K)
  BY <1>1, <1>2, RingAdd
<1>4. n \in Ringed(K) /\ b \in Ringed(K) /\ Dummy \in Ringed(K)
  BY <1>3 DEF Ringed
<1> HIDE DEF K
<1>5. \A a \in Words : m[a] = h.mem[a]
         \/ (m[a] \in Ringed(K) /\ \E c \in Ringed(K) : a \in {c, c + WSIZE})
  BY <1>1, <1>4
<1>6. m = [a \in Words |-> m[a]]
  BY <1>1
<1> HIDE DEF m
<1>7. /\ Frame(g, sz, K) /\ SameTags(h, g, sz, DOMAIN sz)
      /\ Untouched(h, g, sz, DOMAIN sz \ Ringed(K))
  BY <1>1, <1>3, <1>5, <1>6, PointersFrame
<1>8. g = add_to_free_list(h, b)
  <2>1. dummy_blockp(h) = Dummy
    BY <1>1 DEF dummy_blockp, Prologue, Dummy, DSIZE, WSIZE
  <2> QED BY <1>1, <2>1 DEF add_to_free_list, GET_SUCC, m, Heap
<1> QED BY <1>7, <1>8 DEF K

(* PutTags writes the two tags of a block of the new tiling, tz, and        *)
(* nothing of another block's.                                              *)
Retagged(h, g, tz, L, b, alloc) ==
    /\ Frame(g, tz, L) /\ SameTags(h, g, tz, DOMAIN tz \ {b})
    /\ g.mem[HDRP(b)] = PACK(tz[b], alloc)
    /\ g.mem[Foot(b, tz[b])] = PACK(tz[b], alloc)
    /\ Untouched(h, g, tz, DOMAIN tz)

LEMMA PutTagsFrame ==
    ASSUME NEW h, NEW sz, NEW L, Frame(h, sz, L), NEW tz, Tiling(tz, h.brk),
           L \subseteq Ordinary(tz), NEW b \in Ordinary(tz), NEW alloc \in {0, 1},
           NEW g, g = PutTags(h, b, tz[b], alloc)
    PROVE  Retagged(h, g, tz, L, b, alloc)
<1> DEFINE t == PACK(tz[b], alloc)
           hd == HDRP(b)
           ft == b + tz[b] - DSIZE
           m == [h.mem EXCEPT ![hd] = t, ![ft] = t]
           k == [h EXCEPT !.mem = m]
<1>1. /\ h \in Heap /\ Ring(h.mem, L) /\ DOMAIN h.mem = Words /\ h.listp = Prologue
      /\ b \in DOMAIN tz
  BY HeapParts DEF Frame, Ordinary
<1>2. tz[b] \in Nat /\ tz[b] % DSIZE = 0
  BY <1>1 DEF Tiling, BlockOK
<1>3. t \in Nat /\ t - (t % 8) = tz[b]
  BY <1>2, TagWord
<1>4. hd \in Words /\ ft \in Words
  BY <1>1, BlockWords
<1> HIDE DEF t, hd
<1>5. g = k
  <2> DEFINE j == [h EXCEPT !.mem = [h.mem EXCEPT ![hd] = t]]
  <2>1. PUT(h, hd, t) = j /\ j.mem[hd] = t /\ j.mem = [h.mem EXCEPT ![hd] = t]
    BY <1>1, <1>4 DEF PUT, Heap
  <2>2. FTRP(j, b) = ft
    BY <2>1, <1>3 DEF FTRP, GET_SIZE, hd
  <2>3. PUT(j, ft, t) = k
    BY <1>1, <2>1 DEF PUT, Heap
  <2> HIDE DEF j, k
  <2> QED BY <2>1, <2>2, <2>3 DEF PutTags, hd, t
<1>6. g.mem = m /\ g.brk = h.brk /\ g.listp = Prologue /\ g \in Heap
  <2>1. m \in [Words -> Nat \cup Ids \cup {Junk}]
    BY <1>1, <1>3 DEF Heap
  <2> HIDE DEF m
  <2> QED BY <1>1, <1>5, <2>1, HeapParts
<1>7. \A a \in Words : a # hd /\ a # ft => m[a] = h.mem[a]
  BY <1>1
<1>8. m[hd] = t /\ m[ft] = t
  BY <1>1, <1>4
<1> HIDE DEF m, k
<1>9. Ring(m, L)
  <2>1. \A c \in Ringed(L) : c \in DOMAIN tz /\ c # Prologue
    BY DEF Ringed, Ordinary, Tiling, Prologue, Dummy, WSIZE
  <2>2. \A c \in Ringed(L) : {c, c + WSIZE} \cap {hd, ft} = {}
    BY <1>1, <2>1, CellsApart DEF hd
  <2>3. \A c \in Ringed(L) : c \in Words /\ c + WSIZE \in Words
    BY <2>1, BlockWords
  <2>4. \A c \in Ringed(L) : m[c] = h.mem[c] /\ m[c + WSIZE] = h.mem[c + WSIZE]
    BY <1>7, <2>2, <2>3
  <2> QED BY <1>1, <2>4, RingFrame
<1>10. Frame(g, tz, L)
  BY <1>6, <1>9 DEF Frame
<1>11. SameTags(h, g, tz, DOMAIN tz \ {b})
  <2>1. ASSUME NEW c \in DOMAIN tz \ {b}
        PROVE  m[HDRP(c)] = h.mem[HDRP(c)] /\ m[c + tz[c] - DSIZE] = h.mem[c + tz[c] - DSIZE]
    <3>1. HDRP(c) # hd /\ HDRP(c) # ft /\ c + tz[c] - DSIZE # hd /\ c + tz[c] - DSIZE # ft
      BY <1>1, CellsApart DEF hd
    <3>2. HDRP(c) \in Words /\ c + tz[c] - DSIZE \in Words
      BY BlockWords
    <3> QED BY <1>7, <3>1, <3>2
  <2>2. m[HDRP(h.brk)] = h.mem[HDRP(h.brk)]
    <3>1. HDRP(h.brk) # hd /\ HDRP(h.brk) # ft /\ HDRP(h.brk) \in Words
      BY <1>1, CellsApart, BlockWords DEF hd
    <3> QED BY <1>7, <3>1
  <2> QED BY <1>6, <2>1, <2>2 DEF SameTags
<1>12. Untouched(h, g, tz, DOMAIN tz)
  <2> SUFFICES ASSUME NEW x \in DOMAIN tz, NEW a \in Payload(tz, x) PROVE m[a] = h.mem[a]
    BY <1>6 DEF Untouched
  <2>1. a # hd /\ a # ft
    BY <1>1, DataApart DEF hd
  <2> QED BY <2>1, <1>7 DEF Payload
<1>13. g.mem[hd] = t /\ g.mem[ft] = t
  BY <1>6, <1>8
<1> HIDE DEF ft
<1> QED BY <1>10, <1>11, <1>12, <1>13 DEF t, hd, ft, Foot, Retagged

-----------------------------------------------------------------------------
(* Joining.                                                                 *)
LEMMA UntouchedThrough ==
    ASSUME NEW h, NEW k, NEW g, NEW sz, NEW tz, NEW X,
           Untouched(h, k, sz, X), Untouched(k, g, tz, X), \A x \in X : tz[x] = sz[x]
    PROVE  Untouched(h, g, sz, X)
BY DEF Untouched, Payload

(* A free block that takes up the free blocks behind it, or none, and goes  *)
(* into the list, which has the other free blocks.                          *)
LEMMA JoinShape ==
    ASSUME NEW k, NEW sz, NEW F, NEW K, Frame(k, sz, K), Tagged(k.mem, k.brk, sz, F),
           F \subseteq Ordinary(sz), NEW start \in F, NEW size \in Nat, size >= sz[start],
           start + size \in DOMAIN sz \cup {k.brk}, start + size \notin F,
           \A x \in DOMAIN sz : start <= x /\ x < start + size => x \in F,
           K = {x \in F : x < start \/ x >= start + size},
           \A b \in K : b + sz[b] \notin F
    PROVE  LET g == add_to_free_list(PutTags(k, start, size, 0), start)
               tz == Merged(sz, start, size)
               G == K \cup {start}
           IN /\ Good(g, tz, G) /\ g.brk = k.brk /\ tz[start] = size
              /\ SameAllocated(k, g, sz, F, tz, G)
<1> DEFINE tz == Merged(sz, start, size)
           G == K \cup {start}
           j == PutTags(k, start, size, 0)
           g == add_to_free_list(j, start)
           e == start + size
<1>1. /\ Tiling(sz, k.brk) /\ start \in Ordinary(sz) /\ start \in DOMAIN sz
      /\ \A b \in DOMAIN sz : BlockOK(sz, b) /\ b \in Nat
  BY DEF Frame, Tiling, BlockOK, Ordinary
<1>2. start > Dummy
  <2>1. \A b \in DOMAIN sz : b < start => b + sz[b] <= start
    BY <1>1 DEF Tiling, Apart
  <2>2. start \in Nat /\ start >= Prologue /\ start % DSIZE = 0 /\ start # Prologue /\ start # Dummy
    BY <1>1 DEF Ordinary, BlockOK
  <2> QED BY <2>2 DEF Prologue, Dummy, DSIZE, WSIZE
<1>3. Tiling(tz, k.brk)
  BY <1>1, <1>2, MergedTiling
<1>4. /\ DOMAIN tz = {x \in DOMAIN sz : x <= start \/ x >= e} /\ start \in DOMAIN tz
      /\ tz[start] = size /\ \A x \in DOMAIN tz : x # start => tz[x] = sz[x]
  BY <1>1 DEF Merged
<1>5. start \notin K /\ sz[start] > 0
  <2>1. sz[start] > 0 /\ sz[start] \in Nat /\ start \in Nat
    BY <1>1 DEF BlockOK, DSIZE
  <2> QED BY <2>1
<1> HIDE DEF tz, j, e
<1>6. K \subseteq Ordinary(tz) /\ start \in Ordinary(tz) /\ G \subseteq Ordinary(tz)
  <2>1. \A x \in K : x \in DOMAIN tz
    BY <1>1, <1>4 DEF Ordinary, e
  <2> QED BY <2>1, <1>1, <1>4 DEF Ordinary
<1>7. \A x \in DOMAIN tz : x \in F <=> x \in G
  <2> SUFFICES ASSUME NEW x \in DOMAIN tz, x # start PROVE x \in F <=> x \in K
    OBVIOUS
  <2>1. x < start \/ x >= e
    BY <1>1, <1>4
  <2> QED BY <2>1 DEF e
<1>8. /\ Frame(j, tz, K) /\ SameTags(k, j, tz, DOMAIN tz \ {start})
      /\ j.mem[HDRP(start)] = PACK(size, 0) /\ j.mem[Foot(start, size)] = PACK(size, 0)
      /\ Untouched(k, j, tz, DOMAIN tz)
  <2>1. j = PutTags(k, start, tz[start], 0) /\ 0 \in {0, 1}
    BY <1>4 DEF j
  <2>2. Retagged(k, j, tz, K, start, 0)
    BY <2>1, <1>3, <1>6, PutTagsFrame
  <2> QED BY <2>2, <1>4 DEF Retagged
<1>9. Tagged(j.mem, j.brk, tz, G)
  <2>1. ASSUME NEW b \in DOMAIN tz
        PROVE  j.mem[HDRP(b)] = Tag(tz, G, b) /\ j.mem[b + tz[b] - DSIZE] = Tag(tz, G, b)
    <3>1. CASE b = start
      BY <3>1, <1>4, <1>8 DEF Tag, Foot
    <3>2. CASE b # start
      <4>1. b \in DOMAIN sz /\ tz[b] = sz[b] /\ Tag(tz, G, b) = Tag(sz, F, b)
        BY <3>2, <1>4, <1>7 DEF Tag
      <4> QED BY <4>1, <3>2, <1>8 DEF Tagged, SameTags
    <3> QED BY <3>1, <3>2
  <2>2. j.mem[HDRP(j.brk)] = PACK(0, 1)
    BY <1>8 DEF Tagged, SameTags
  <2> QED BY <2>1, <2>2 DEF Tagged
<1>10. /\ Frame(g, tz, G) /\ SameTags(j, g, tz, DOMAIN tz)
       /\ Untouched(j, g, tz, DOMAIN tz \ Ringed(G))
  BY <1>5, <1>6, <1>8, AddFrame
<1> HIDE DEF g
<1>11. Shape(g, tz, G, G)
  BY <1>6, <1>9, <1>10, TaggedStill DEF Shape
<1>12. \A b \in G : b + tz[b] \notin G
  <2>1. G \subseteq F
    OBVIOUS
  <2>2. \A b \in K : tz[b] = sz[b]
    BY <1>4, <1>5, <1>6 DEF Ordinary
  <2> QED BY <2>1, <2>2, <1>4
<1>13. Allocated(tz, G) = Allocated(sz, F) /\ \A x \in Allocated(sz, F) : x \in DOMAIN tz /\ tz[x] = sz[x]
  <2>1. ASSUME NEW x \in DOMAIN sz, x \notin F PROVE x \in DOMAIN tz /\ x # start
    BY <2>1, <1>1, <1>4 DEF e
  <2> QED BY <2>1, <1>4, <1>7 DEF Allocated
<1>14. Untouched(k, g, sz, Allocated(sz, F) \ {Dummy})
  <2> DEFINE X == Allocated(sz, F) \ {Dummy}
  <2>1. X \subseteq DOMAIN tz \ Ringed(G) /\ \A x \in X : tz[x] = sz[x]
    BY <1>7, <1>13 DEF Ringed, Allocated
  <2>2. Untouched(k, j, sz, X) /\ Untouched(j, g, tz, X)
    BY <2>1, <1>8, <1>10 DEF Untouched, Payload
  <2> QED BY <2>1, <2>2, UntouchedThrough
<1>15. g.brk = k.brk
  BY <1>8, <1>10 DEF SameTags
<1> QED BY <1>4, <1>11, <1>12, <1>13, <1>14, <1>15 DEF Good, SameAllocated, g, j, tz

(* Two blocks do not end at the same place, and what is before the end of   *)
(* one and not before its start is that block.                              *)
LEMMA OneBlock ==
    ASSUME NEW sz, NEW brk, Tiling(sz, brk), NEW p \in DOMAIN sz, NEW x \in DOMAIN sz
    PROVE  /\ p + sz[p] = x + sz[x] => p = x
           /\ p <= x /\ x < p + sz[p] => x = p
           /\ p < p + sz[p] /\ p + sz[p] \in Nat
<1>1. \A a, b \in DOMAIN sz : a < b => a + sz[a] <= b
  BY DEF Tiling, Apart
<1>2. /\ p \in Nat /\ sz[p] \in Nat /\ sz[p] >= DSIZE
      /\ x \in Nat /\ sz[x] \in Nat /\ sz[x] >= DSIZE
  BY BlockWords
<1> QED BY <1>1, <1>2 DEF DSIZE

(* Removing a block, or not.                                                *)
LEMMA RemoveIf ==
    ASSUME NEW h, NEW sz, NEW L, Frame(h, sz, L), NEW c \in BOOLEAN, NEW x, c => x \in L
    PROVE  LET g == IF c THEN remove_from_free_list(h, x) ELSE h
           IN /\ Frame(g, sz, IF c THEN L \ {x} ELSE L) /\ SameTags(h, g, sz, DOMAIN sz)
              /\ Untouched(h, g, sz, DOMAIN sz \ Ringed(L))
<1>1. CASE c
  BY <1>1, RemoveFrame
<1>2. CASE ~c
  BY <1>2 DEF SameTags, Untouched
<1> QED BY <1>1, <1>2

(* What coalesce reads is in the tags of the block, of the one before it    *)
(* and of the one behind it.                                                *)
Joins(h, sz, F, p, bp) ==
    LET next == bp + sz[bp]
        size == sz[bp] + (IF p \in F THEN sz[p] ELSE 0) + (IF next \in F THEN sz[next] ELSE 0)
        start == IF p \in F THEN p ELSE bp
        left == IF p \in F THEN remove_from_free_list(h, p) ELSE h
        right == IF next \in F THEN remove_from_free_list(left, next) ELSE left
        joined == IF p \in F \/ next \in F THEN PutTags(right, start, size, 0) ELSE right
    IN Result(add_to_free_list(joined, start), start)

LEMMA Neighbours ==
    ASSUME NEW sz, NEW brk, Tiling(sz, brk), NEW F, F \subseteq DOMAIN sz, NEW bp \in F
    PROVE  /\ bp + sz[bp] \in DOMAIN sz \cup {brk} /\ brk \notin F
           /\ \A x \in DOMAIN sz : /\ x \in Nat /\ sz[x] \in Nat /\ sz[x] > 0
                                   /\ x + sz[x] \in DOMAIN sz \cup {brk}
<1>1. \A x \in DOMAIN sz : x \in Nat /\ sz[x] \in Nat /\ sz[x] >= DSIZE /\ x + sz[x] <= brk
  BY BlockWords
<1>2. brk \notin DOMAIN sz
  BY <1>1 DEF DSIZE, Tiling
<1> QED BY <1>1, <1>2 DEF Tiling, DSIZE

LEMMA CoalesceJoins ==
    ASSUME NEW h, NEW sz, NEW F, NEW bp \in F, Tiling(sz, h.brk),
           Tagged(h.mem, h.brk, sz, F), F \subseteq DOMAIN sz,
           NEW p \in DOMAIN sz, p + sz[p] = bp
    PROVE  coalesce(h, bp) = Joins(h, sz, F, p, bp)
<1> DEFINE next == bp + sz[bp]
           fp == p \in F
           fn == next \in F
<1>1. next \in DOMAIN sz \cup {h.brk} /\ h.brk \notin F
  BY Neighbours
<1>2. PREV_BLKP(h, bp) = p /\ NEXT_BLKP(h, bp) = next /\ GET_SIZE(h, HDRP(bp)) = sz[bp]
  <2>1. PREV_BLKP(h, p + sz[p]) = p
    BY ReadTags
  <2>2. bp \in DOMAIN sz
    OBVIOUS
  <2>3. NEXT_BLKP(h, bp) = next /\ GET_SIZE(h, HDRP(bp)) = sz[bp]
    BY <2>2, ReadTags
  <2> QED BY <2>1, <2>3
<1>3. GET_SIZE(h, HDRP(p)) = sz[p] /\ (GET_ALLOC(h, FTRP(h, p)) = 0 <=> fp)
  BY ReadTags
<1>4. GET_ALLOC(h, HDRP(next)) = 0 <=> fn
  <2>1. CASE next \in DOMAIN sz
    BY <2>1, ReadTags
  <2>2. CASE next = h.brk
    <3>1. GET_ALLOC(h, HDRP(next)) = 1
      BY <2>2, ReadTags
    <3> QED BY <2>2, <3>1, <1>1
  <2> QED BY <2>1, <2>2, <1>1
<1>5. fn => GET_SIZE(h, HDRP(next)) = sz[next]
  BY ReadTags
<1> HIDE DEF next
<1> QED BY <1>2, <1>3, <1>4, <1>5 DEF coalesce, Joins, next

(* The block bp is tagged free and not in the list yet.                     *)
Loose(h, sz, F, bp) ==
    /\ bp \in F /\ Shape(h, sz, F, F \ {bp})
    /\ \A b \in F \ {bp} : b + sz[b] \in F => b + sz[b] = bp

(* It is joined with its neighbours, and the list has the free blocks again. *)
LEMMA CoalesceShape ==
    ASSUME NEW h, NEW sz, NEW F, NEW bp, Loose(h, sz, F, bp)
    PROVE  LET r == coalesce(h, bp)
           IN \E tz, G : /\ Good(r.heap, tz, G) /\ r.heap.brk = h.brk
                         /\ r.ptr \in G /\ tz[r.ptr] >= sz[bp]
                         /\ r.ptr \in F /\ G \subseteq (F \ {bp}) \cup {r.ptr}
                         /\ DOMAIN tz \subseteq DOMAIN sz
                         /\ SameAllocated(h, r.heap, sz, F, tz, G)
<1>1. /\ Frame(h, sz, F \ {bp}) /\ Tiling(sz, h.brk) /\ Tagged(h.mem, h.brk, sz, F)
      /\ F \subseteq Ordinary(sz) /\ F \subseteq DOMAIN sz /\ bp \in F
      /\ \A b \in F \ {bp} : b + sz[b] \in F => b + sz[b] = bp
  BY DEF Loose, Shape, Frame, Ordinary
<1>2. PICK p \in DOMAIN sz : p + sz[p] = bp
  BY <1>1 DEF Tiling, Ordinary
<1> DEFINE next == bp + sz[bp]
           fp == p \in F
           fn == next \in F
           start == IF fp THEN p ELSE bp
           size == sz[bp] + (IF fp THEN sz[p] ELSE 0) + (IF fn THEN sz[next] ELSE 0)
           left == IF fp THEN remove_from_free_list(h, p) ELSE h
           right == IF fn THEN remove_from_free_list(left, next) ELSE left
           joined == IF fp \/ fn THEN PutTags(right, start, size, 0) ELSE right
           K == {x \in F : x < start \/ x >= start + size}
           X == Allocated(sz, F) \ {Dummy}
<1>3. /\ next \in DOMAIN sz \cup {h.brk} /\ h.brk \notin F
      /\ \A x \in DOMAIN sz : /\ x \in Nat /\ sz[x] \in Nat /\ sz[x] > 0
                              /\ x + sz[x] \in DOMAIN sz \cup {h.brk}
  BY <1>1, Neighbours
<1>4. coalesce(h, bp) = Result(add_to_free_list(joined, start), start)
  <2>1. coalesce(h, bp) = Joins(h, sz, F, p, bp)
    BY <1>1, <1>2, CoalesceJoins
  <2> QED BY <2>1 DEF Joins
<1>5. /\ p < bp /\ bp < next /\ p \in Nat /\ bp \in Nat /\ next \in Nat
      /\ fn => next \in DOMAIN sz /\ sz[next] \in Nat /\ sz[next] > 0 /\ next + sz[next] \in DOMAIN sz \cup {h.brk}
      /\ sz[p] \in Nat /\ sz[bp] \in Nat /\ sz[bp] > 0 /\ sz[p] > 0
  BY <1>1, <1>2, <1>3
<1>6. /\ size \in Nat /\ start \in F /\ start \in DOMAIN sz
      /\ start + size = IF fn THEN next + sz[next] ELSE next
      /\ size >= sz[start] /\ size >= sz[bp]
  BY <1>1, <1>2, <1>5
<1>7. start + size \in DOMAIN sz \cup {h.brk} /\ start + size \notin F
  <2>1. CASE ~fn
    BY <2>1, <1>3, <1>6
  <2>2. CASE fn
    <3>1. next \in F \ {bp} /\ next + sz[next] # bp
      BY <2>2, <1>5
    <3> QED BY <2>2, <3>1, <1>1, <1>5, <1>6
  <2> QED BY <2>1, <2>2
<1>8. ASSUME NEW x \in DOMAIN sz, start <= x, x < start + size
      PROVE  x \in F /\ (x = bp \/ (fp /\ x = p) \/ (fn /\ x = next))
  <2>1. x \in Nat
    BY <1>3
  <2>2. CASE x < bp
    <3>1. fp /\ p <= x
      BY <2>1, <2>2, <1>5, <1>8
    <3>2. x = p
      BY <3>1, <2>2, <1>1, <1>2, OneBlock
    <3> QED BY <3>1, <3>2
  <2>3. CASE bp <= x /\ x < next
    BY <2>3, <1>1, OneBlock
  <2>4. CASE next <= x
    <3>1. fn /\ x < next + sz[next]
      BY <2>1, <2>4, <1>5, <1>6, <1>8
    <3> QED BY <2>4, <3>1, <1>1, OneBlock
  <2> QED BY <2>1, <2>2, <2>3, <2>4, <1>5
<1>9. /\ K = ((F \ {bp}) \ (IF fp THEN {p} ELSE {})) \ (IF fn THEN {next} ELSE {})
  <2>1. \A x \in F : x \in Nat
    BY <1>1, <1>3
  <2>2. ASSUME NEW x \in F
        PROVE  x < start \/ x >= start + size <=> ~(x = bp \/ (fp /\ x = p) \/ (fn /\ x = next))
    <3>1. x = bp \/ (fp /\ x = p) \/ (fn /\ x = next) => start <= x /\ x < start + size
      BY <1>2, <1>5, <1>6
    <3> QED BY <3>1, <2>1, <1>1, <1>6, <1>8, <1>5
  <2> HIDE DEF start, size, fp, fn, next
  <2> QED BY <2>2
<1>10. ASSUME NEW b \in K PROVE b + sz[b] \notin F
  <2>1. b \in F \ {bp} /\ b \in DOMAIN sz /\ (fp => b # p)
    BY <1>1, <1>9
  <2>2. b + sz[b] = bp => b = p
    BY <2>1, <1>1, <1>2, OneBlock
  <2> QED BY <2>1, <2>2, <1>1
<1>11. /\ Frame(right, sz, K) /\ SameTags(h, right, sz, DOMAIN sz)
       /\ Untouched(h, right, sz, X)
  <2> DEFINE L1 == IF fp THEN (F \ {bp}) \ {p} ELSE F \ {bp}
             L2 == IF fn THEN L1 \ {next} ELSE L1
  <2>1. fp \in BOOLEAN /\ fn \in BOOLEAN /\ (fp => p \in F \ {bp}) /\ (fn => next \in L1)
    BY <1>5
  <2>2. L2 = K /\ L1 \subseteq F /\ L2 \subseteq F
    BY <1>9
  <2> HIDE DEF fp, fn, K, L1, L2
  <2>3. Frame(left, sz, L1) /\ SameTags(h, left, sz, DOMAIN sz)
        /\ Untouched(h, left, sz, DOMAIN sz \ Ringed(F \ {bp}))
    BY <2>1, <1>1, RemoveIf DEF L1
  <2> HIDE DEF left
  <2>4. Frame(right, sz, L2) /\ SameTags(left, right, sz, DOMAIN sz)
        /\ Untouched(left, right, sz, DOMAIN sz \ Ringed(L1))
    BY <2>1, <2>3, RemoveIf DEF L2
  <2> HIDE DEF right
  <2>5. SameTags(h, right, sz, DOMAIN sz)
    BY <2>3, <2>4 DEF SameTags
  <2>6. X \subseteq DOMAIN sz \ Ringed(F \ {bp}) /\ X \subseteq DOMAIN sz \ Ringed(L1)
    BY <2>2 DEF Allocated, Ringed
  <2>7. Untouched(h, right, sz, X)
    BY <2>3, <2>4, <2>6 DEF Untouched
  <2> QED BY <2>2, <2>4, <2>5, <2>7
<1>12. Tagged(right.mem, right.brk, sz, F) /\ right.brk = h.brk
  BY <1>1, <1>11, TaggedStill DEF SameTags
<1> DEFINE g == add_to_free_list(joined, start)
<1>13. \E tz, G : /\ Good(g, tz, G) /\ g.brk = h.brk /\ start \in G /\ tz[start] >= sz[bp]
                  /\ G \subseteq (F \ {bp}) \cup {start} /\ DOMAIN tz \subseteq DOMAIN sz
                  /\ SameAllocated(h, g, sz, F, tz, G)
  <2>1. CASE fp \/ fn
    <3> DEFINE tz == Merged(sz, start, size)
               G == K \cup {start}
    <3>1. joined = PutTags(right, start, size, 0)
      BY <2>1
    <3> HIDE DEF right, joined, start, size
    <3>2. /\ Good(g, tz, G) /\ g.brk = right.brk /\ tz[start] = size
          /\ SameAllocated(right, g, sz, F, tz, G)
      <4>1. \A x \in DOMAIN sz : start <= x /\ x < start + size => x \in F
        BY <1>8
      <4>2. start + size \in DOMAIN sz \cup {right.brk}
        BY <1>7, <1>12
      <4>3. /\ Frame(right, sz, K) /\ Tagged(right.mem, right.brk, sz, F)
            /\ \A b \in K : b + sz[b] \notin F
        BY <1>10, <1>11, <1>12
      <4>4. K = {x \in F : x < start \/ x >= start + size}
        OBVIOUS
      <4> HIDE DEF K, fp, fn, next, X
      <4>6. /\ F \subseteq Ordinary(sz) /\ start \in F /\ size \in Nat /\ size >= sz[start]
            /\ start + size \notin F
        BY <1>1, <1>6, <1>7
      <4>5. /\ Good(add_to_free_list(PutTags(right, start, size, 0), start), tz, K \cup {start})
            /\ add_to_free_list(PutTags(right, start, size, 0), start).brk = right.brk
            /\ tz[start] = size
            /\ SameAllocated(right, add_to_free_list(PutTags(right, start, size, 0), start),
                             sz, F, tz, K \cup {start})
        BY <4>1, <4>2, <4>3, <4>4, <4>6, JoinShape
      <4> QED BY <4>5, <3>1
    <3>3. SameAllocated(h, g, sz, F, tz, G)
      BY <3>2, <1>11 DEF SameAllocated, Untouched
    <3>4. start \in G /\ G \subseteq (F \ {bp}) \cup {start}
      <4>1. K \subseteq F \ {bp}
        BY <1>9
      <4> HIDE DEF K
      <4> QED BY <4>1
    <3>5. DOMAIN tz \subseteq DOMAIN sz
      BY DEF Merged
    <3> HIDE DEF tz, G
    <3> QED BY <3>2, <3>3, <3>4, <3>5, <1>6, <1>12
  <2>2. CASE ~(fp \/ fn)
    <3>1. joined = right /\ start = bp /\ K = F \ {bp}
      BY <2>2, <1>9
    <3>2. size = sz[bp] /\ sz[start] = size
      BY <2>2, <1>5
    <3> HIDE DEF right, joined, start, size, K
    <3>3. bp \in Ordinary(sz) /\ bp \notin K /\ K \cup {bp} = F
      BY <3>1, <1>1
    <3>4. /\ Frame(g, sz, F) /\ SameTags(right, g, sz, DOMAIN sz)
          /\ Untouched(right, g, sz, DOMAIN sz \ Ringed(F))
      <4>1. g = add_to_free_list(right, bp)
        BY <3>1
      <4> HIDE DEF g
      <4>2. /\ Frame(add_to_free_list(right, bp), sz, K \cup {bp})
            /\ SameTags(right, add_to_free_list(right, bp), sz, DOMAIN sz)
            /\ Untouched(right, add_to_free_list(right, bp), sz, DOMAIN sz \ Ringed(K \cup {bp}))
        BY <3>3, <1>11, AddFrame
      <4> QED BY <4>1, <4>2, <3>3
    <3> HIDE DEF g
    <3>5. Shape(g, sz, F, F) /\ g.brk = h.brk
      BY <3>4, <1>1, <1>12, TaggedStill DEF Shape, SameTags
    <3>6. \A b \in F : b + sz[b] \notin F
      BY <3>1, <3>2, <3>3, <1>7, <1>10
    <3>7. SameAllocated(h, g, sz, F, sz, F)
      BY <3>4, <1>11 DEF SameAllocated, Untouched, Allocated, Ringed
    <3> QED BY <3>1, <3>2, <3>5, <3>6, <3>7, <1>6 DEF Good
  <2> QED BY <2>1, <2>2
<1>14. start \in F
  BY <1>6
<1> HIDE DEF g, start
<1> QED BY <1>4, <1>13, <1>14 DEF Result, g

-----------------------------------------------------------------------------
(* Splitting.                                                               *)

(* A block cut in two: the first part is allocated, and what remains is     *)
(* tagged free.                                                             *)
Cut(h, bp, asize, rest) ==
    PutTags(remove_from_free_list(PutTags(h, bp, asize, 1), bp), bp + asize, rest, 0)

Halves(h, sz, F, bp, asize) ==
    LET k == Cut(h, bp, asize, sz[bp] - asize)
        tz == Divided(sz, bp, asize)
        G == (F \ {bp}) \cup {bp + asize}
    IN /\ place(h, bp, asize) = coalesce(k, bp + asize).heap
       /\ NEXT_BLKP(remove_from_free_list(PutTags(h, bp, asize, 1), bp), bp) = bp + asize
       /\ Loose(k, tz, G, bp + asize) /\ k.brk = h.brk
       /\ DOMAIN tz = DOMAIN sz \cup {bp + asize} /\ tz[bp] = asize
       /\ tz[bp + asize] = sz[bp] - asize /\ bp + asize \notin DOMAIN sz
       /\ \A x \in DOMAIN sz : x # bp => tz[x] = sz[x]
       /\ Allocated(tz, G) = Allocated(sz, F) \cup {bp}
       /\ Untouched(h, k, sz, Allocated(sz, F) \ {Dummy})

LEMMA CutShape ==
    ASSUME NEW h, NEW sz, NEW F, Good(h, sz, F), NEW bp \in F,
           NEW asize \in Nat, asize % DSIZE = 0, asize >= 2 * DSIZE,
           sz[bp] - asize >= 2 * DSIZE
    PROVE  Halves(h, sz, F, bp, asize)
<1> DEFINE tz == Divided(sz, bp, asize)
           after == bp + asize
           rest == sz[bp] - asize
           k1 == PutTags(h, bp, asize, 1)
           k2 == remove_from_free_list(k1, bp)
           k3 == PutTags(k2, after, rest, 0)
           G == (F \ {bp}) \cup {after}
           X == Allocated(sz, F) \ {Dummy}
<1>21. /\ Frame(h, sz, F) /\ Tiling(sz, h.brk) /\ Tagged(h.mem, h.brk, sz, F)
       /\ F \subseteq Ordinary(sz) /\ F \subseteq DOMAIN sz
       /\ \A b \in F : b + sz[b] \notin F
  BY DEF Good, Shape, Frame, Ordinary
<1>22. /\ bp \in Nat /\ sz[bp] \in Nat /\ bp % DSIZE = 0 /\ bp \in Ordinary(sz) /\ sz[bp] % DSIZE = 0
       /\ GET_SIZE(h, HDRP(bp)) = sz[bp]
  <2>1. bp \in DOMAIN sz /\ bp \in Ordinary(sz)
    BY <1>21
  <2>2. BlockOK(sz, bp)
    BY <2>1, <1>21 DEF Tiling
  <2>3. GET_SIZE(h, HDRP(bp)) = sz[bp]
    BY <2>1, <1>21, ReadTags
  <2> QED BY <2>1, <2>2, <2>3 DEF BlockOK
<1>1. bp > Dummy
  <2>1. bp # Prologue /\ bp # Dummy /\ bp >= Prologue
    BY <1>21, <1>22, BlockWords DEF Ordinary
  <2> QED BY <2>1, <1>22 DEF Prologue, Dummy, WSIZE, DSIZE
<1>2. asize + 2 * DSIZE <= sz[bp] /\ bp \in DOMAIN sz
  BY <1>21, <1>22 DEF DSIZE
<1>3. Tiling(tz, h.brk) /\ after \notin DOMAIN sz
  BY <1>1, <1>2, <1>21, DividedTiling
<1>4. /\ DOMAIN tz = DOMAIN sz \cup {after} /\ tz[bp] = asize /\ tz[after] = rest
      /\ \A x \in DOMAIN sz : x # bp => tz[x] = sz[x]
  BY <1>2, <1>3 DEF Divided
<1>5. F \subseteq Ordinary(tz) /\ after \in Ordinary(tz) /\ after # bp
  BY <1>1, <1>2, <1>3, <1>4, <1>21, <1>22 DEF Ordinary, Dummy, Prologue, WSIZE
<1> HIDE DEF tz, after, rest, k1, k2, k3
<1>6. /\ Frame(k1, tz, F) /\ SameTags(h, k1, tz, DOMAIN tz \ {bp})
      /\ k1.mem[HDRP(bp)] = PACK(asize, 1) /\ k1.mem[Foot(bp, asize)] = PACK(asize, 1)
      /\ Untouched(h, k1, tz, DOMAIN tz)
  <2>1. k1 = PutTags(h, bp, asize, 1) /\ 1 \in {0, 1} /\ Frame(h, sz, F) /\ asize = tz[bp]
    BY <1>21, <1>4 DEF k1
  <2>2. bp \in Ordinary(tz)
    BY <1>5
  <2>3. Retagged(h, k1, tz, F, bp, 1)
    BY <2>1, <2>2, <1>3, <1>5, PutTagsFrame
  <2> QED BY <2>1, <2>3 DEF Retagged
<1>7. /\ Frame(k2, tz, F \ {bp}) /\ SameTags(k1, k2, tz, DOMAIN tz)
      /\ Untouched(k1, k2, tz, DOMAIN tz \ Ringed(F))
  BY <1>6, RemoveFrame DEF k2
<1>8. /\ Frame(k3, tz, F \ {bp}) /\ SameTags(k2, k3, tz, DOMAIN tz \ {after})
      /\ k3.mem[HDRP(after)] = PACK(rest, 0) /\ k3.mem[Foot(after, rest)] = PACK(rest, 0)
      /\ Untouched(k2, k3, tz, DOMAIN tz)
  <2>1. Tiling(tz, k2.brk) /\ F \ {bp} \subseteq Ordinary(tz)
    BY <1>5, <1>7 DEF Frame
  <2>2. k3 = PutTags(k2, after, rest, 0) /\ 0 \in {0, 1} /\ rest = tz[after]
    BY <1>4 DEF k3
  <2>3. Retagged(k2, k3, tz, F \ {bp}, after, 0)
    BY <2>1, <2>2, <1>5, <1>7, PutTagsFrame
  <2> QED BY <2>2, <2>3 DEF Retagged
<1>9. NEXT_BLKP(k2, bp) = after
  <2>1. k2.mem[HDRP(bp)] = PACK(asize, 1)
    BY <1>4, <1>6, <1>7, <1>2 DEF SameTags
  <2>2. k2.mem[bp - WSIZE] = PACK(asize, 1)
    BY <2>1 DEF HDRP
  <2>3. PACK(asize, 1) - (PACK(asize, 1) % 8) = asize
    BY TagWord
  <2> QED BY <2>2, <2>3 DEF NEXT_BLKP, GET_SIZE, after
<1>19. place(h, bp, asize) = coalesce(k3, after).heap
  BY <1>9, <1>22 DEF place, k1, k2, k3, rest
<1>10. /\ k3.brk = h.brk
       /\ \A b \in DOMAIN sz \ {bp} : /\ k3.mem[HDRP(b)] = h.mem[HDRP(b)]
                                      /\ k3.mem[b + sz[b] - DSIZE] = h.mem[b + sz[b] - DSIZE]
       /\ k3.mem[HDRP(bp)] = PACK(asize, 1) /\ k3.mem[Foot(bp, asize)] = PACK(asize, 1)
       /\ k3.mem[HDRP(h.brk)] = h.mem[HDRP(h.brk)]
  BY <1>2, <1>3, <1>4, <1>5, <1>6, <1>7, <1>8 DEF SameTags, Foot
<1>11. Tagged(k3.mem, k3.brk, tz, G)
  <2>1. ASSUME NEW b \in DOMAIN tz
        PROVE  k3.mem[HDRP(b)] = Tag(tz, G, b) /\ k3.mem[b + tz[b] - DSIZE] = Tag(tz, G, b)
    <3>1. CASE b = bp
      BY <3>1, <1>4, <1>5, <1>10 DEF Tag, Foot
    <3>2. CASE b = after
      BY <3>2, <1>4, <1>8 DEF Tag, Foot
    <3>3. CASE b # bp /\ b # after
      <4>1. b \in DOMAIN sz \ {bp} /\ tz[b] = sz[b] /\ Tag(tz, G, b) = Tag(sz, F, b)
        BY <3>3, <1>4 DEF Tag
      <4> QED BY <4>1, <1>10, <1>21 DEF Tagged
    <3> QED BY <3>1, <3>2, <3>3
  <2>2. k3.mem[HDRP(k3.brk)] = PACK(0, 1)
    BY <1>10, <1>21 DEF Tagged
  <2> QED BY <2>1, <2>2 DEF Tagged
<1>12. G \ {after} = F \ {bp} /\ after \in G /\ G \subseteq Ordinary(tz)
  BY <1>3, <1>5, <1>21
<1>13. Shape(k3, tz, G, G \ {after})
  BY <1>8, <1>11, <1>12 DEF Shape
<1>14. \A b \in G \ {after} : b + tz[b] \in G => b + tz[b] = after
  BY <1>4, <1>12, <1>21
<1>15. Allocated(tz, G) = Allocated(sz, F) \cup {bp}
  BY <1>2, <1>3, <1>4, <1>5 DEF Allocated
<1>16. Untouched(h, k3, sz, X)
  <2>1. X \subseteq DOMAIN tz \ Ringed(F) /\ \A x \in X : tz[x] = sz[x]
    BY <1>4 DEF Allocated, Ringed
  <2>2. Untouched(h, k3, tz, X)
    BY <2>1, <1>6, <1>7, <1>8 DEF Untouched
  <2> QED BY <2>1, <2>2 DEF Untouched, Payload
<1>17. Loose(k3, tz, G, after)
  BY <1>12, <1>13, <1>14 DEF Loose
<1>18. k3 = Cut(h, bp, asize, sz[bp] - asize)
  BY DEF Cut, k3, k2, k1, after, rest
<1> HIDE DEF G
<1> QED BY <1>3, <1>4, <1>9, <1>10, <1>15, <1>16, <1>17, <1>18, <1>19 DEF Halves, tz, after, rest, G, k1, k2

Fills(h, sz, F, bp, asize) ==
    LET g == remove_from_free_list(PutTags(h, bp, sz[bp], 1), bp)
    IN /\ place(h, bp, asize) = g /\ Good(g, sz, F \ {bp}) /\ g.brk = h.brk
       /\ Allocated(sz, F \ {bp}) = Allocated(sz, F) \cup {bp}
       /\ Untouched(h, g, sz, Allocated(sz, F) \ {Dummy})

LEMMA FillShape ==
    ASSUME NEW h, NEW sz, NEW F, Good(h, sz, F), NEW bp \in F,
           NEW asize \in Nat, ~(sz[bp] - asize >= 2 * DSIZE)
    PROVE  Fills(h, sz, F, bp, asize)
<1>21. /\ Frame(h, sz, F) /\ Tiling(sz, h.brk) /\ Tagged(h.mem, h.brk, sz, F)
      /\ F \subseteq Ordinary(sz) /\ F \subseteq DOMAIN sz
      /\ \A b \in F : b + sz[b] \notin F
  BY DEF Good, Shape, Frame, Ordinary
<1>22. /\ bp \in Nat /\ sz[bp] \in Nat /\ bp % DSIZE = 0 /\ bp \in Ordinary(sz) /\ sz[bp] % DSIZE = 0
      /\ GET_SIZE(h, HDRP(bp)) = sz[bp]
  <2>1. bp \in DOMAIN sz /\ bp \in Ordinary(sz)
    BY <1>21
  <2>2. BlockOK(sz, bp)
    BY <2>1, <1>21 DEF Tiling
  <2>3. GET_SIZE(h, HDRP(bp)) = sz[bp]
    BY <2>1, <1>21, ReadTags
  <2> QED BY <2>1, <2>2, <2>3 DEF BlockOK
<1> DEFINE k1 == PutTags(h, bp, sz[bp], 1)
           k2 == remove_from_free_list(k1, bp)
           G == F \ {bp}
           X == Allocated(sz, F) \ {Dummy}
<1>1. place(h, bp, asize) = k2
  BY <1>22 DEF place
<1> HIDE DEF k1, k2
<1>2. /\ Frame(k1, sz, F) /\ SameTags(h, k1, sz, DOMAIN sz \ {bp})
      /\ k1.mem[HDRP(bp)] = PACK(sz[bp], 1) /\ k1.mem[Foot(bp, sz[bp])] = PACK(sz[bp], 1)
      /\ Untouched(h, k1, sz, DOMAIN sz)
  <2>1. k1 = PutTags(h, bp, sz[bp], 1) /\ 1 \in {0, 1} /\ Frame(h, sz, F) /\ Tiling(sz, h.brk)
    BY <1>21 DEF k1
  <2>2. Retagged(h, k1, sz, F, bp, 1)
    BY <2>1, <1>21, <1>22, PutTagsFrame
  <2> QED BY <2>2 DEF Retagged
<1>3. /\ Frame(k2, sz, G) /\ SameTags(k1, k2, sz, DOMAIN sz)
      /\ Untouched(k1, k2, sz, DOMAIN sz \ Ringed(F))
  BY <1>2, RemoveFrame DEF k2
<1>4. Tagged(k1.mem, k1.brk, sz, G)
  <2>1. ASSUME NEW b \in DOMAIN sz
        PROVE  k1.mem[HDRP(b)] = Tag(sz, G, b) /\ k1.mem[b + sz[b] - DSIZE] = Tag(sz, G, b)
    <3>1. CASE b = bp
      BY <3>1, <1>2 DEF Tag, Foot
    <3>2. CASE b # bp
      <4>1. b \in F <=> b \in G
        BY <3>2
      <4> QED BY <3>2, <4>1, <1>2, <1>21 DEF Tagged, SameTags, Tag
    <3> QED BY <3>1, <3>2
  <2>2. k1.mem[HDRP(k1.brk)] = PACK(0, 1)
    BY <1>2, <1>21 DEF Tagged, SameTags
  <2> QED BY <2>1, <2>2 DEF Tagged
<1>5. Shape(k2, sz, G, G) /\ k2.brk = h.brk
  BY <1>2, <1>3, <1>4, <1>21, TaggedStill DEF Shape, SameTags
<1>6. Good(k2, sz, G)
  BY <1>5, <1>21 DEF Good
<1>7. Allocated(sz, G) = Allocated(sz, F) \cup {bp}
  BY <1>21 DEF Allocated
<1>8. Untouched(h, k2, sz, X)
  BY <1>2, <1>3 DEF Untouched, Allocated, Ringed
<1> QED BY <1>1, <1>5, <1>6, <1>7, <1>8 DEF Fills, k1, k2

(* place takes a free block that is large enough and leaves it allocated    *)
(* with at least the size asked for; what remains, if it is a block, is     *)
(* free again.                                                              *)
Placed(h, g, sz, F, bp, asize) ==
    \E tz, G : /\ Good(g, tz, G) /\ g.brk = h.brk
               /\ Allocated(tz, G) = Allocated(sz, F) \cup {bp} /\ tz[bp] >= asize
               /\ \A x \in Allocated(sz, F) : tz[x] = sz[x]
               /\ Untouched(h, g, sz, Allocated(sz, F) \ {Dummy})

LEMMA PlaceShape ==
    ASSUME NEW h, NEW sz, NEW F, Good(h, sz, F), NEW bp \in F,
           NEW asize \in Nat, asize % DSIZE = 0, asize >= 2 * DSIZE, asize <= sz[bp]
    PROVE  Placed(h, place(h, bp, asize), sz, F, bp, asize)
<1>1. /\ Frame(h, sz, F) /\ Tiling(sz, h.brk) /\ Tagged(h.mem, h.brk, sz, F)
      /\ F \subseteq Ordinary(sz) /\ F \subseteq DOMAIN sz
      /\ \A b \in F : b + sz[b] \notin F
  BY DEF Good, Shape, Frame, Ordinary
<1>2. /\ bp \in Nat /\ sz[bp] \in Nat /\ bp % DSIZE = 0 /\ bp \in Ordinary(sz) /\ sz[bp] % DSIZE = 0
      /\ GET_SIZE(h, HDRP(bp)) = sz[bp]
  <2>1. bp \in DOMAIN sz /\ bp \in Ordinary(sz)
    BY <1>1
  <2>2. BlockOK(sz, bp)
    BY <2>1, <1>1 DEF Tiling
  <2>3. GET_SIZE(h, HDRP(bp)) = sz[bp]
    BY <2>1, <1>1, ReadTags
  <2> QED BY <2>1, <2>2, <2>3 DEF BlockOK
<1>3. CASE sz[bp] - asize >= 2 * DSIZE
  <2> DEFINE tz == Divided(sz, bp, asize)
             after == bp + asize
             k == Cut(h, bp, asize, sz[bp] - asize)
             G == (F \ {bp}) \cup {after}
             X == Allocated(sz, F) \ {Dummy}
  <2>1. /\ place(h, bp, asize) = coalesce(k, after).heap
        /\ Loose(k, tz, G, after) /\ k.brk = h.brk
        /\ DOMAIN tz = DOMAIN sz \cup {after} /\ tz[bp] = asize /\ after \notin DOMAIN sz
        /\ \A x \in DOMAIN sz : x # bp => tz[x] = sz[x]
        /\ Allocated(tz, G) = Allocated(sz, F) \cup {bp}
        /\ Untouched(h, k, sz, X)
    <3>1. Halves(h, sz, F, bp, asize)
      BY <1>3, CutShape
    <3> QED BY <3>1 DEF Halves
  <2> HIDE DEF tz, k, G, after
  <2>2. PICK uz, H : /\ Good(coalesce(k, after).heap, uz, H) /\ coalesce(k, after).heap.brk = k.brk
                     /\ SameAllocated(k, coalesce(k, after).heap, tz, G, uz, H)
    BY <2>1, CoalesceShape
  <2> DEFINE g == coalesce(k, after).heap
  <2> HIDE DEF g
  <2>3. /\ Allocated(uz, H) = Allocated(sz, F) \cup {bp} /\ uz[bp] = asize
        /\ \A x \in Allocated(sz, F) : x # bp /\ uz[x] = sz[x]
    BY <2>1, <2>2 DEF SameAllocated, Allocated
  <2>4. Untouched(h, g, sz, X)
    <3>1. Untouched(k, g, tz, X)
      BY <2>1, <2>2 DEF SameAllocated, Untouched, g
    <3>2. \A x \in X : tz[x] = sz[x]
      BY <2>1 DEF Allocated
    <3> QED BY <3>1, <3>2, <2>1, UntouchedThrough
  <2> QED BY <2>1, <2>2, <2>3, <2>4 DEF Placed, g, after
<1>4. CASE ~(sz[bp] - asize >= 2 * DSIZE)
  <2>1. Fills(h, sz, F, bp, asize)
    BY <1>4, FillShape
  <2>2. sz[bp] >= asize /\ \A x \in Allocated(sz, F) : sz[x] = sz[x]
    BY <1>2
  <2> QED BY <2>1, <2>2 DEF Fills, Placed
<1> QED BY <1>3, <1>4

-----------------------------------------------------------------------------
(* Searching.                                                               *)

Most == MAX_HEAP \div (2 * DSIZE)

(* FreeList follows the successors from the dummy block until it is back:   *)
(* hop[k] is where it is after k of them, and it is back after j.           *)
Walks(h, L, hop, j) ==
    /\ hop \in [0 .. Most -> Ringed(L)] /\ j \in 0 .. Most + 1
    /\ hop[0] = h.mem[Dummy + WSIZE]
    /\ \A k \in 1 .. Most : hop[k - 1] # Dummy => hop[k] = h.mem[hop[k - 1] + WSIZE]
    /\ \A k \in 0 .. Most : hop[k] = Dummy <=> k >= j
    /\ FreeList(h) = [i \in 1 .. j |-> hop[i - 1]]

LEMMA FreeListWalks ==
    ASSUME NEW h, NEW sz, NEW L, Frame(h, sz, L)
    PROVE  \E hop, j : Walks(h, L, hop, j)
<1> DEFINE D == Ringed(L)
           step == [x \in D |-> IF x = Dummy THEN Dummy ELSE h.mem[x + WSIZE]]
           dummy == dummy_blockp(h)
           Follows(f) == f = [k \in 0 .. Most |->
                                IF k = 0 THEN GET_SUCC(h, dummy)
                                ELSE LET here == f[k - 1]
                                     IN IF here = dummy THEN dummy ELSE GET_SUCC(h, here)]
           hop == CHOOSE f : Follows(f)
           S == {k \in 0 .. Most : hop[k] # dummy}
<1>1. /\ dummy = Dummy /\ Dummy \in D /\ Most \in Nat
      /\ \A x \in D : h.mem[x + WSIZE] \in D
  <2>1. h.listp = Prologue /\ Ring(h.mem, L)
    BY DEF Frame
  <2>2. dummy = Dummy
    BY <2>1 DEF dummy_blockp, Prologue, Dummy, DSIZE, WSIZE
  <2>3. Most \in Nat
    BY HeapAssumption DEF Most, DSIZE
  <2> QED BY <2>1, <2>2, <2>3 DEF Ring, Linked, Ringed
<1>2. step \in [D -> D]
  BY <1>1
<1> HIDE DEF D
<1>3. \E f : Follows(f)
  <2>1. PICK f \in [0 .. Most -> D] :
          f[0] = h.mem[Dummy + WSIZE] /\ \A k \in 1 .. Most : f[k] = step[f[k - 1]]
    <3>1. h.mem[Dummy + WSIZE] \in D /\ Most \in Nat
      BY <1>1
    <3> DEFINE c == h.mem[Dummy + WSIZE]
    <3> HIDE DEF step, c
    <3>2. c \in D /\ Most \in Nat /\ step \in [D -> D]
      BY <3>1, <1>2 DEF c
    <3>3. \E f : Iterates(f, D, step, c, Most)
      BY <3>2, IteratesExist
    <3> QED BY <3>3 DEF Iterates, c
  <2>2. ASSUME NEW k \in 0 .. Most
        PROVE  f[k] = IF k = 0 THEN GET_SUCC(h, dummy)
                      ELSE IF f[k - 1] = dummy THEN dummy ELSE GET_SUCC(h, f[k - 1])
    <3>1. CASE k = 0
      BY <3>1, <2>1, <1>1 DEF GET_SUCC
    <3>2. CASE k # 0
      <4>1. k \in 1 .. Most /\ f[k - 1] \in D
        BY <3>2, <2>1, <1>1
      <4> QED BY <4>1, <2>1, <1>1, <3>2 DEF GET_SUCC
    <3> QED BY <3>1, <3>2
  <2>3. Follows(f)
    BY <2>1, <2>2
  <2> QED BY <2>3
<1>4. Follows(hop)
  <2> HIDE DEF Follows
  <2> QED BY <1>3
<1>5. FreeList(h) = [i \in 1 .. Cardinality(S) |-> hop[i - 1]]
  BY DEF FreeList, Most
<1> HIDE DEF hop, dummy
<1>6. /\ DOMAIN hop = 0 .. Most
      /\ hop[0] = h.mem[Dummy + WSIZE]
      /\ \A k \in 1 .. Most : hop[k] = IF hop[k - 1] = Dummy THEN Dummy
                                       ELSE h.mem[hop[k - 1] + WSIZE]
  BY <1>1, <1>4 DEF GET_SUCC
<1>7. \A k \in 0 .. Most : hop[k] \in D
  <2> DEFINE T == {k \in 0 .. Most : hop[k] \in D}
  <2>1. 0 \in T
    BY <1>1, <1>6
  <2>2. \A k \in 0 .. Most : k \in T /\ k < Most => k + 1 \in T
    <3> SUFFICES ASSUME NEW k \in 0 .. Most, hop[k] \in D, k < Most PROVE k + 1 \in T
      OBVIOUS
    <3>1. k + 1 \in 1 .. Most /\ (k + 1) - 1 = k
      BY <1>1
    <3>2. hop[k + 1] = IF hop[k] = Dummy THEN Dummy ELSE h.mem[hop[k] + WSIZE]
      BY <1>6, <3>1
    <3> QED BY <3>1, <3>2, <1>1
  <2> HIDE DEF T
  <2>3. 0 .. Most \subseteq T
    BY <2>1, <2>2, <1>1, BoundedInduct
  <2> QED BY <2>3 DEF T
<1>8. ASSUME NEW i \in 0 .. Most, hop[i] = Dummy, NEW k \in 0 .. Most, i <= k
      PROVE  hop[k] = Dummy
  <2> DEFINE T == {x \in 0 .. Most : i <= x => hop[x] = Dummy}
  <2>1. 0 \in T
    BY <1>8, <1>1
  <2>2. \A x \in 0 .. Most : x \in T /\ x < Most => x + 1 \in T
    <3> SUFFICES ASSUME NEW x \in 0 .. Most, i <= x => hop[x] = Dummy, x < Most
                 PROVE  i <= x + 1 => hop[x + 1] = Dummy
      BY <1>1
    <3>1. x + 1 \in 1 .. Most /\ (x + 1) - 1 = x
      BY <1>1
    <3>2. hop[x + 1] = IF hop[x] = Dummy THEN Dummy ELSE h.mem[hop[x] + WSIZE]
      BY <1>6, <3>1
    <3>3. i <= x \/ i = x + 1 \/ ~(i <= x + 1)
      BY <1>1
    <3> QED BY <3>2, <3>3, <1>8
  <2> HIDE DEF T
  <2>3. 0 .. Most \subseteq T
    BY <2>1, <2>2, <1>1, BoundedInduct
  <2> QED BY <2>3, <1>8 DEF T
<1>9. PICK j \in 0 .. Most + 1 : \A k \in 0 .. Most : hop[k] = Dummy <=> k >= j
  <2> DEFINE B == {k \in 0 .. Most : hop[k] = Dummy}
  <2>1. CASE B = {}
    <3>1. Most + 1 \in 0 .. Most + 1 /\ \A k \in 0 .. Most : ~(k >= Most + 1)
      BY <1>1
    <3> QED BY <2>1, <3>1
  <2>2. CASE B # {}
    <3>1. Min(B) \in B /\ \A x \in B : Min(B) <= x
      <4>1. B \in SUBSET Nat
        BY <1>1
      <4> QED BY <4>1, <2>2, NatMin
    <3> DEFINE j == Min(B)
    <3>2. \A k \in 0 .. Most : hop[k] = Dummy <=> k >= j
      BY <3>1, <1>1, <1>8
    <3> HIDE DEF j
    <3>3. j \in 0 .. Most + 1
      BY <3>1, <1>1 DEF j
    <3> QED BY <3>2, <3>3
  <2> QED BY <2>1, <2>2
<1>10. Cardinality(S) = j
  <2>1. S = 0 .. j - 1
    BY <1>1, <1>9
  <2>2. Cardinality(0 .. j - 1) = j
    <3>1. j \in Nat /\ 0 \in Int /\ j - 1 \in Int
      BY <1>1
    <3>2. Cardinality(0 .. j - 1) = IF 0 > j - 1 THEN 0 ELSE (j - 1) - 0 + 1
      BY <3>1, FS_Interval
    <3> QED BY <3>1, <3>2
  <2> QED BY <2>1, <2>2
<1>11. hop = [k \in 0 .. Most |-> hop[k]]
  BY <1>4, <1>6
<1> HIDE DEF S
<1>12. Walks(h, L, hop, j)
  <2>1. hop \in [0 .. Most -> Ringed(L)]
    BY <1>7, <1>11 DEF D
  <2>2. \A k \in 1 .. Most : hop[k - 1] # Dummy => hop[k] = h.mem[hop[k - 1] + WSIZE]
    BY <1>6
  <2>3. FreeList(h) = [i \in 1 .. j |-> hop[i - 1]]
    BY <1>5, <1>10
  <2> QED BY <2>1, <2>2, <2>3, <1>6, <1>9 DEF Walks
<1> QED BY <1>12

(* A fit is a listed block that is large enough.                            *)
LEMMA FindFit ==
    ASSUME NEW h, NEW sz, NEW F, NEW L, Shape(h, sz, F, L), NEW asize
    PROVE  LET fit == find_fit(h, asize)
           IN fit = NULL \/ (fit \in L /\ asize <= sz[fit] /\ fit # NULL)
<1>1. /\ Frame(h, sz, L) /\ Tiling(sz, h.brk) /\ Tagged(h.mem, h.brk, sz, F)
      /\ L \subseteq Ordinary(sz)
  BY DEF Shape, Frame
<1>2. PICK hop, j : Walks(h, L, hop, j)
  BY <1>1, FreeListWalks
<1> DEFINE list == FreeList(h)
           fits == {i \in DOMAIN list : asize <= GET_SIZE(h, HDRP(list[i]))}
<1>3. CASE fits # {}
  <2>1. j \in 0 .. Most + 1 /\ Most \in Nat
    BY <1>2, HeapAssumption DEF Walks, Most, DSIZE
  <2>2. DOMAIN list = 1 .. j /\ \A i \in 1 .. j : list[i] \in L
    <3> SUFFICES ASSUME NEW i \in 1 .. j PROVE list[i] \in L
      BY <1>2 DEF Walks
    <3>1. i - 1 \in 0 .. Most /\ ~(i - 1 >= j)
      BY <2>1
    <3>2. hop[i - 1] \in Ringed(L) /\ hop[i - 1] # Dummy /\ list[i] = hop[i - 1]
      BY <3>1, <1>2 DEF Walks
    <3> QED BY <3>2 DEF Ringed
  <2> HIDE DEF list
  <2>3. Min(fits) \in fits
    <3>1. fits \in SUBSET Nat
      BY <2>1, <2>2
    <3> QED BY <3>1, <1>3, NatMin
  <2> HIDE DEF fits
  <2>4. find_fit(h, asize) = list[Min(fits)]
    BY <1>3 DEF find_fit, list, fits
  <2> DEFINE fit == list[Min(fits)]
  <2>5. fit \in L /\ asize <= GET_SIZE(h, HDRP(fit))
    BY <2>2, <2>3 DEF fits
  <2>6. fit \in DOMAIN sz
    BY <2>5, <1>1 DEF Ordinary
  <2>7. GET_SIZE(h, HDRP(fit)) = sz[fit] /\ fit # NULL
    <3>1. fit \in Nat /\ fit >= Prologue
      BY <2>6, <1>1, BlockWords
    <3>2. GET_SIZE(h, HDRP(fit)) = sz[fit]
      BY <2>6, <1>1, ReadTags
    <3> QED BY <3>1, <3>2 DEF Prologue, WSIZE, NULL
  <2> QED BY <2>4, <2>5, <2>7
<1>4. CASE fits = {}
  BY <1>4 DEF find_fit
<1> QED BY <1>3, <1>4

-----------------------------------------------------------------------------
(* Getting memory.                                                          *)

(* The epilogue is no block's tag, pointer or data.                         *)
LEMMA EpilogueFrame ==
    ASSUME NEW h, NEW sz, NEW L, Frame(h, sz, L), NEW g, g = PUT(h, HDRP(h.brk), PACK(0, 1))
    PROVE  /\ Frame(g, sz, L) /\ g.brk = h.brk /\ g.mem[HDRP(h.brk)] = PACK(0, 1)
           /\ \A b \in DOMAIN sz : /\ g.mem[HDRP(b)] = h.mem[HDRP(b)]
                                   /\ g.mem[b + sz[b] - DSIZE] = h.mem[b + sz[b] - DSIZE]
           /\ Untouched(h, g, sz, DOMAIN sz)
<1> DEFINE e == HDRP(h.brk)
           m == [h.mem EXCEPT ![e] = PACK(0, 1)]
           k == [h EXCEPT !.mem = m]
<1>1. /\ h \in Heap /\ Ring(h.mem, L) /\ DOMAIN h.mem = Words /\ h.listp = Prologue
      /\ Tiling(sz, h.brk) /\ L \subseteq Ordinary(sz)
  BY HeapParts DEF Frame
<1>2. e \in Words /\ PACK(0, 1) \in Nat
  <2>1. Prologue \in DOMAIN sz
    BY <1>1 DEF Tiling
  <2> QED BY <2>1, <1>1, BlockWords DEF PACK
<1> HIDE DEF e
<1>3. g = k
  BY <1>1 DEF PUT, Heap, e
<1>4. g.mem = m /\ g.brk = h.brk /\ g.listp = Prologue /\ g \in Heap
  <2>1. m \in [Words -> Nat \cup Ids \cup {Junk}]
    BY <1>1, <1>2 DEF Heap
  <2> HIDE DEF m
  <2>2. k.mem = m /\ k.brk = h.brk /\ k.listp = h.listp /\ k \in Heap
    BY <1>1, <2>1, HeapParts
  <2> HIDE DEF k
  <2> QED BY <1>1, <1>3, <2>2
<1>5. m[e] = PACK(0, 1) /\ \A a \in Words : a # e => m[a] = h.mem[a]
  BY <1>1, <1>2
<1> HIDE DEF m, k
<1>6. Ring(m, L)
  <2>1. \A c \in Ringed(L) : c \in DOMAIN sz /\ c # Prologue
    BY <1>1 DEF Ringed, Ordinary, Tiling, Prologue, Dummy, WSIZE
  <2>2. \A c \in Ringed(L) : {c, c + WSIZE} \cap {HDRP(c), c + sz[c] - DSIZE, HDRP(h.brk)} = {}
    BY <1>1, <2>1, CellsApart
  <2>3. \A c \in Ringed(L) : c \in Words /\ c + WSIZE \in Words
    BY <1>1, <2>1, BlockWords
  <2>4. \A c \in Ringed(L) : m[c] = h.mem[c] /\ m[c + WSIZE] = h.mem[c + WSIZE]
    BY <1>5, <2>2, <2>3 DEF e
  <2> QED BY <1>1, <2>4, RingFrame
<1>7. ASSUME NEW b \in DOMAIN sz
      PROVE  m[HDRP(b)] = h.mem[HDRP(b)] /\ m[b + sz[b] - DSIZE] = h.mem[b + sz[b] - DSIZE]
  <2>1. HDRP(b) # e /\ b + sz[b] - DSIZE # e
    BY <1>1, CellsApart DEF e
  <2>2. HDRP(b) \in Words /\ b + sz[b] - DSIZE \in Words
    BY <1>1, BlockWords
  <2> QED BY <1>5, <2>1, <2>2
<1>8. Untouched(h, g, sz, DOMAIN sz)
  <2> SUFFICES ASSUME NEW x \in DOMAIN sz, NEW a \in Payload(sz, x) PROVE m[a] = h.mem[a]
    BY <1>4 DEF Untouched
  <2>1. a # e
    BY <1>1, DataApart DEF e
  <2> QED BY <2>1, <1>5 DEF Payload
<1>9. Frame(g, sz, L)
  BY <1>1, <1>4, <1>6 DEF Frame
<1> QED BY <1>4, <1>5, <1>7, <1>8, <1>9 DEF e

LEMMA Pages ==
    ASSUME NEW size \in Nat, size % DSIZE = 0, NEW w, w = size \div WSIZE
    PROVE  (w + (w % 2)) * WSIZE = size
<1>1. PICK q \in Nat : size = 8 * q
  <2>1. size = 8 * (size \div 8) /\ size \div 8 \in Nat
    BY DEF DSIZE
  <2> QED BY <2>1
<1>2. w = 2 * q
  BY <1>1 DEF WSIZE
<1>3. w % 2 = 0
  BY <1>1, <1>2
<1> QED BY <1>1, <1>2, <1>3 DEF WSIZE

(* A heap with a new block at its end, tagged free.                         *)
Grow(h, size) ==
    PUT(PutTags(mem_sbrk(h, size), h.brk, size, 0), HDRP(h.brk + size), PACK(0, 1))

Grows(h, sz, F, size) ==
    LET k == Grow(h, size)
        tz == Grown(sz, h.brk, size)
        G == F \cup {h.brk}
    IN /\ extend_heap(h, size \div WSIZE) = coalesce(k, h.brk)
       /\ NEXT_BLKP(PutTags(mem_sbrk(h, size), h.brk, size, 0), h.brk) = h.brk + size
       /\ Loose(k, tz, G, h.brk) /\ k.brk = h.brk + size
       /\ DOMAIN tz = DOMAIN sz \cup {h.brk} /\ tz[h.brk] = size
       /\ \A x \in DOMAIN sz : tz[x] = sz[x]
       /\ Allocated(tz, G) = Allocated(sz, F)
       /\ Untouched(h, k, sz, Allocated(sz, F) \ {Dummy})

LEMMA GrowShape ==
    ASSUME NEW h, NEW sz, NEW F, Good(h, sz, F),
           NEW size \in Nat, CanGrow(h, size), size % DSIZE = 0, size >= 2 * DSIZE
    PROVE  Grows(h, sz, F, size)
<1>21. /\ Frame(h, sz, F) /\ Tiling(sz, h.brk) /\ Tagged(h.mem, h.brk, sz, F)
       /\ F \subseteq Ordinary(sz) /\ F \subseteq DOMAIN sz
       /\ \A b \in F : b + sz[b] \notin F
       /\ h \in Heap /\ h.listp = Prologue /\ Ring(h.mem, F) /\ h.brk \in Nat
       /\ MAX_HEAP \in Nat
  BY HeapAssumption DEF Good, Shape, Frame, Ordinary, Tiling
<1> DEFINE bp == h.brk
           w == size \div WSIZE
           k0 == mem_sbrk(h, size)
           k1 == PutTags(k0, bp, size, 0)
           k2 == PUT(k1, HDRP(bp + size), PACK(0, 1))
           tz == Grown(sz, bp, size)
           G == F \cup {bp}
           X == Allocated(sz, F) \ {Dummy}
<1>22. (w + (w % 2)) * WSIZE = size
  BY Pages
<1>1. bp + size <= MAX_HEAP
  BY DEF CanGrow
<1>2. Tiling(tz, bp + size) /\ bp \notin DOMAIN sz
  BY <1>1, <1>21, GrownTiling
<1>3. /\ DOMAIN tz = DOMAIN sz \cup {bp} /\ tz[bp] = size
      /\ \A x \in DOMAIN sz : tz[x] = sz[x]
  BY <1>2 DEF Grown
<1>4. bp \in Ordinary(tz) /\ F \subseteq Ordinary(tz) /\ bp \notin F
  BY <1>2, <1>3, <1>21 DEF Ordinary, Tiling
<1>5. k0 \in Heap /\ k0.mem = h.mem /\ k0.brk = bp + size /\ k0.listp = Prologue
  BY <1>1, <1>21 DEF mem_sbrk, Heap
<1> HIDE DEF tz, k0, k1, k2
<1>6. Frame(k0, tz, F)
  BY <1>2, <1>4, <1>5, <1>21 DEF Frame
<1>7. Retagged(k0, k1, tz, F, bp, 0)
  <2>1. k1 = PutTags(k0, bp, tz[bp], 0) /\ 0 \in {0, 1} /\ Tiling(tz, k0.brk)
    BY <1>2, <1>3, <1>5 DEF k1
  <2> QED BY <2>1, <1>4, <1>6, PutTagsFrame
<1>8. Frame(k1, tz, F) /\ k1.brk = bp + size
  BY <1>5, <1>7 DEF Retagged, SameTags
<1>9. k2 = PUT(k1, HDRP(k1.brk), PACK(0, 1))
  BY <1>8 DEF k2
<1>10. /\ Frame(k2, tz, F) /\ k2.brk = bp + size /\ k2.mem[HDRP(bp + size)] = PACK(0, 1)
       /\ \A b \in DOMAIN tz : /\ k2.mem[HDRP(b)] = k1.mem[HDRP(b)]
                               /\ k2.mem[b + tz[b] - DSIZE] = k1.mem[b + tz[b] - DSIZE]
       /\ Untouched(k1, k2, tz, DOMAIN tz)
  BY <1>8, <1>9, EpilogueFrame
<1>11. Tagged(k2.mem, k2.brk, tz, G)
  <2>1. ASSUME NEW b \in DOMAIN tz
        PROVE  k1.mem[HDRP(b)] = Tag(tz, G, b) /\ k1.mem[b + tz[b] - DSIZE] = Tag(tz, G, b)
    <3>1. CASE b = bp
      BY <3>1, <1>7 DEF Retagged, Tag, Foot
    <3>2. CASE b # bp
      <4>1. b \in DOMAIN sz /\ tz[b] = sz[b] /\ Tag(tz, G, b) = Tag(sz, F, b)
        BY <3>2, <1>3 DEF Tag
      <4>2. k1.mem[HDRP(b)] = k0.mem[HDRP(b)] /\ k1.mem[b + tz[b] - DSIZE] = k0.mem[b + tz[b] - DSIZE]
        BY <3>2, <1>7 DEF Retagged, SameTags
      <4>3. h.mem[HDRP(b)] = Tag(sz, F, b) /\ h.mem[b + sz[b] - DSIZE] = Tag(sz, F, b)
        BY <4>1, <1>21 DEF Tagged
      <4> QED BY <4>1, <4>2, <4>3, <1>5
    <3> QED BY <3>1, <3>2
  <2> QED BY <2>1, <1>10 DEF Tagged
<1>12. Shape(k2, tz, G, G \ {bp}) /\ bp \in G
  <2>1. G \ {bp} = F /\ G \subseteq Ordinary(tz)
    BY <1>4
  <2> QED BY <2>1, <1>10, <1>11 DEF Shape
<1>13. Loose(k2, tz, G, bp)
  BY <1>3, <1>12, <1>21 DEF Loose
<1>18. NEXT_BLKP(k1, bp) = bp + size
  <2>1. k1.mem[bp - WSIZE] = PACK(size, 0)
    BY <1>3, <1>7 DEF Retagged, HDRP
  <2>2. PACK(size, 0) - (PACK(size, 0) % 8) = size
    BY TagWord
  <2> QED BY <2>1, <2>2 DEF NEXT_BLKP, GET_SIZE
<1>14. extend_heap(h, w) = coalesce(k2, bp)
  BY <1>18, <1>22 DEF extend_heap, k0, k1, k2
<1>15. Allocated(tz, G) = Allocated(sz, F)
  BY <1>2, <1>3 DEF Allocated
<1>16. Untouched(h, k2, sz, X)
  <2>1. X \subseteq DOMAIN tz /\ \A x \in X : tz[x] = sz[x]
    BY <1>3 DEF Allocated
  <2>2. Untouched(k0, k1, tz, X) /\ Untouched(k1, k2, tz, X)
    BY <2>1, <1>7, <1>10 DEF Retagged, Untouched
  <2> QED BY <2>1, <2>2, <1>5 DEF Untouched, Payload
<1>17. k2 = Grow(h, size)
  BY DEF Grow, k2, k1, k0
<1> HIDE DEF G
<1> QED BY <1>3, <1>10, <1>13, <1>14, <1>15, <1>16, <1>17, <1>18 DEF Grows, tz, G, k0, k1

(* A larger heap has a new free block, joined with the last one if that is  *)
(* free.                                                                    *)
LEMMA ExtendShape ==
    ASSUME NEW h, NEW sz, NEW F, Good(h, sz, F),
           NEW size \in Nat, size % DSIZE = 0, size >= 2 * DSIZE,
           NEW r, r = extend_heap(h, size \div WSIZE)
    PROVE  IF ~CanGrow(h, size) THEN r = Result(h, NULL)
           ELSE \E tz, G : /\ Good(r.heap, tz, G) /\ r.ptr \in G /\ tz[r.ptr] >= size
                           /\ SameAllocated(h, r.heap, sz, F, tz, G)
<1> DEFINE w == size \div WSIZE
           bp == h.brk
           k == Grow(h, size)
           tz == Grown(sz, bp, size)
           G == F \cup {bp}
           X == Allocated(sz, F) \ {Dummy}
<1>2. (w + (w % 2)) * WSIZE = size
  BY Pages
<1>3. CASE ~CanGrow(h, size)
  BY <1>2, <1>3 DEF extend_heap
<1>4. CASE CanGrow(h, size)
  <2>1. /\ r = coalesce(k, bp) /\ Loose(k, tz, G, bp) /\ k.brk = bp + size
        /\ DOMAIN tz = DOMAIN sz \cup {bp} /\ tz[bp] = size
        /\ \A x \in DOMAIN sz : tz[x] = sz[x]
        /\ Allocated(tz, G) = Allocated(sz, F)
        /\ Untouched(h, k, sz, X)
    <3>1. Grows(h, sz, F, size)
      BY <1>4, GrowShape
    <3> QED BY <3>1 DEF Grows
  <2> HIDE DEF tz, k, G, bp
  <2>2. PICK uz, H : /\ Good(r.heap, uz, H) /\ r.ptr \in H /\ uz[r.ptr] >= tz[bp]
                      /\ SameAllocated(k, r.heap, tz, G, uz, H)
    BY <2>1, CoalesceShape
  <2>3. /\ Allocated(uz, H) = Allocated(sz, F)
         /\ \A x \in Allocated(sz, F) : uz[x] = sz[x]
    BY <2>1, <2>2 DEF SameAllocated, Allocated
  <2>4. Untouched(h, r.heap, sz, X)
    <3>1. Untouched(k, r.heap, tz, X)
      BY <2>1, <2>2 DEF SameAllocated, Untouched
    <3>2. \A x \in X : tz[x] = sz[x]
      BY <2>1 DEF Allocated
    <3> QED BY <3>1, <3>2, <2>1, UntouchedThrough
  <2>5. SameAllocated(h, r.heap, sz, F, uz, H)
    BY <2>3, <2>4 DEF SameAllocated
  <2> QED BY <1>4, <2>1, <2>2, <2>5
<1> QED BY <1>3, <1>4

(* mm_init first writes the prologue, the dummy block and the epilogue.     *)
BaseSizes == [b \in {Prologue, Dummy} |-> IF b = Prologue THEN DSIZE ELSE 2 * DSIZE]
Base(h, k) ==
    /\ Good(k, BaseSizes, {}) /\ k.brk = 8 * WSIZE
    /\ k.mem[Dummy] = Dummy /\ k.mem[Dummy + WSIZE] = Dummy
    /\ mm_init(h) = extend_heap(k, CHUNKSIZE \div WSIZE)

LEMMA BaseShape ==
    ASSUME NEW h \in Heap, h.brk = 0
    PROVE  \E k : Base(h, k)
<1> DEFINE words == <<0, PACK(DSIZE, 1), PACK(DSIZE, 1), PACK(2 * DSIZE, 1), Dummy, Dummy,
                      PACK(2 * DSIZE, 1), PACK(0, 1)>>
           m == [a \in Words |-> IF a \in 0 .. 0 + 7 * WSIZE
                                 THEN words[(a - 0) \div WSIZE + 1] ELSE h.mem[a]]
           k == [mem_sbrk(h, 8 * WSIZE) EXCEPT !.listp = 0 + 2 * WSIZE, !.mem = m]
           sz == BaseSizes
<1>1. mm_init(h) = extend_heap(k, CHUNKSIZE \div WSIZE)
  <2>1. 0 + 4 * WSIZE = Dummy
    BY DEF Dummy, WSIZE
  <2> QED BY <2>1 DEF mm_init
<1>2. /\ CHUNKSIZE \in Nat /\ CHUNKSIZE % DSIZE = 0 /\ CHUNKSIZE >= 2 * DSIZE
      /\ MAX_HEAP \in Nat /\ MAX_HEAP >= 8 * WSIZE + CHUNKSIZE
      /\ SizeValues \in Nat /\ MAX_HEAP < SizeValues \div 2
  BY HeapAssumption
<1>3. {0, 4, 8, 12, 16, 20, 24, 28} \subseteq Words
  <2>1. \A a \in {0, 4, 8, 12, 16, 20, 24, 28} : a \in Nat /\ a % WSIZE = 0 /\ a < MAX_HEAP
    BY <1>2 DEF WSIZE, DSIZE
  <2> QED BY <2>1, InWords
<1>4. /\ m[4] = PACK(8, 1) /\ m[8] = PACK(8, 1) /\ m[12] = PACK(16, 1)
      /\ m[16] = 16 /\ m[20] = 16 /\ m[24] = PACK(16, 1) /\ m[28] = PACK(0, 1)
  <2> HIDE DEF words
  <2>1. /\ m[4] = words[2] /\ m[8] = words[3] /\ m[12] = words[4] /\ m[16] = words[5]
        /\ m[20] = words[6] /\ m[24] = words[7] /\ m[28] = words[8]
    BY <1>3 DEF WSIZE
  <2> HIDE DEF m
  <2> QED BY <2>1 DEF words, DSIZE, Dummy, WSIZE
<1>5. m \in [Words -> Nat \cup Ids \cup {Junk}]
  <2>1. \A i \in 1 .. 8 : words[i] \in Nat
    <3>1. Dummy \in Nat /\ PACK(DSIZE, 1) \in Nat /\ PACK(2 * DSIZE, 1) \in Nat /\ PACK(0, 1) \in Nat
      BY DEF Dummy, WSIZE, DSIZE, PACK
    <3>2. words \in Seq(Nat) /\ Len(words) = 8
      BY <3>1
    <3> QED BY <3>2
  <2> HIDE DEF words
  <2>2. ASSUME NEW a \in 0 .. 0 + 7 * WSIZE PROVE (a - 0) \div WSIZE + 1 \in 1 .. 8
    BY DEF WSIZE
  <2>3. \A a \in Words : h.mem[a] \in Nat \cup Ids \cup {Junk}
    BY DEF Heap
  <2> QED BY <2>1, <2>2, <2>3
<1> HIDE DEF m
<1>6. k \in Heap /\ k.mem = m /\ k.brk = 32 /\ k.listp = Prologue
  <2>1. h.brk + 8 * WSIZE = 32 /\ 32 \in 0 .. MAX_HEAP /\ 0 + 2 * WSIZE = Prologue
    BY <1>2 DEF Prologue, WSIZE, DSIZE
  <2>2. mem_sbrk(h, 8 * WSIZE) = [h EXCEPT !.brk = 32]
    BY <2>1 DEF mem_sbrk
  <2> DEFINE k0 == [h EXCEPT !.brk = 32]
  <2>3. k0 \in Heap
    BY <2>1 DEF Heap
  <2>4. k = [k0 EXCEPT !.listp = Prologue, !.mem = m]
    BY <2>1, <2>2
  <2>5. k0.brk = 32 /\ Prologue \in {NULL, 2 * WSIZE}
    BY DEF Prologue, Heap
  <2> HIDE DEF k0, k
  <2> QED BY <2>3, <2>4, <2>5, <1>5 DEF Heap
<1> HIDE DEF k
<1>7. DOMAIN sz = {8, 16} /\ sz[8] = 8 /\ sz[16] = 16 /\ Prologue = 8 /\ Dummy = 16
  BY DEF BaseSizes, Prologue, Dummy, WSIZE, DSIZE
<1> HIDE DEF sz
<1>8. Tiling(sz, 32)
  <2>1. \A b \in DOMAIN sz : BlockOK(sz, b)
    BY <1>7 DEF BlockOK, DSIZE
  <2>2. Apart(sz)
    BY <1>7 DEF Apart
  <2>3. \A b \in DOMAIN sz \cup {32} : b # Prologue => \E p \in DOMAIN sz : p + sz[p] = b
    BY <1>7
  <2>4. \A b \in DOMAIN sz : b + sz[b] <= 32 /\ b + sz[b] \in DOMAIN sz \cup {32}
    BY <1>7
  <2>5. 32 <= MAX_HEAP /\ 32 % DSIZE = 0
    BY <1>2 DEF WSIZE, DSIZE
  <2> QED BY <2>1, <2>2, <2>3, <2>4, <2>5, <1>7 DEF Tiling, DSIZE
<1>9. Ring(m, {})
  <2>1. Ringed({}) = {16}
    BY <1>7 DEF Ringed
  <2>2. Linked(m, {16}, 16)
    BY <1>4 DEF Linked, WSIZE
  <2> QED BY <2>1, <2>2, <1>7 DEF Ring
<1>10. Tagged(m, 32, sz, {})
  <2>1. m[HDRP(8)] = PACK(8, 1) /\ m[HDRP(16)] = PACK(16, 1) /\ m[HDRP(32)] = PACK(0, 1)
    BY <1>4 DEF HDRP, WSIZE
  <2>2. m[8 + 8 - DSIZE] = PACK(8, 1) /\ m[16 + 16 - DSIZE] = PACK(16, 1)
    BY <1>4 DEF DSIZE
  <2> QED BY <2>1, <2>2, <1>7 DEF Tagged, Tag
<1>11. Good(k, sz, {})
  BY <1>6, <1>7, <1>8, <1>9, <1>10 DEF Good, Shape, Frame
<1>12. m[Dummy] = Dummy /\ m[Dummy + WSIZE] = Dummy /\ 8 * WSIZE = 32
  BY <1>4, <1>7 DEF WSIZE
<1>13. Base(h, k)
  BY <1>1, <1>6, <1>11, <1>12 DEF Base, sz
<1> QED BY <1>13

(* mm_init on memory with no heap in it: it leaves the prologue, the dummy  *)
(* block and a free block.                                                  *)
LEMMA InitShape ==
    ASSUME NEW h \in Heap, h.brk = 0, NEW r, r = mm_init(h)
    PROVE  \E tz, G : /\ Good(r.heap, tz, G) /\ r.ptr # NULL
                      /\ Allocated(tz, G) = {Prologue, Dummy}
<1>1. PICK k : Base(h, k)
  BY BaseShape
<1> DEFINE sz == BaseSizes
<1>2. /\ Good(k, sz, {}) /\ k.brk = 8 * WSIZE /\ r = extend_heap(k, CHUNKSIZE \div WSIZE)
      /\ DOMAIN sz = {Prologue, Dummy}
  BY <1>1 DEF Base, BaseSizes
<1> HIDE DEF sz
<1>3. /\ CHUNKSIZE \in Nat /\ CHUNKSIZE % DSIZE = 0 /\ CHUNKSIZE >= 2 * DSIZE
      /\ CanGrow(k, CHUNKSIZE)
  BY <1>2, HeapAssumption DEF CanGrow, WSIZE, DSIZE
<1>4. PICK tz, G : Good(r.heap, tz, G) /\ r.ptr \in G /\ SameAllocated(k, r.heap, sz, {}, tz, G)
  BY <1>2, <1>3, ExtendShape
<1>5. Allocated(tz, G) = {Prologue, Dummy}
  BY <1>2, <1>4 DEF SameAllocated, Allocated
<1>6. r.ptr # NULL
  <2>1. r.ptr \in DOMAIN tz /\ Tiling(tz, r.heap.brk)
    BY <1>4 DEF Good, Shape, Frame, Ordinary
  <2> QED BY <2>1, BlockWords DEF Prologue, WSIZE, NULL
<1> QED BY <1>4, <1>5, <1>6

-----------------------------------------------------------------------------
(* The functions a client calls.                                            *)
Asked(size) == size \in Nat /\ size > 0 /\ size < SizeValues \div 2

LEMMA Adjusted ==
    ASSUME NEW size, Asked(size)
    PROVE  LET asize == AdjustedSize(size)
           IN /\ asize \in Nat /\ asize % DSIZE = 0 /\ asize >= 2 * DSIZE
              /\ asize >= size + DSIZE
<1>1. /\ size \in Nat /\ SizeValues \in Nat /\ size < SizeValues \div 2
      /\ MAX_HEAP < SizeValues \div 2 /\ MAX_HEAP \in Nat /\ MAX_HEAP >= 48
  BY HeapAssumption DEF Asked, WSIZE, DSIZE
<1>2. size + 15 < SizeValues
  BY <1>1
<1>3. (size + 15) % SizeValues = size + 15
  BY <1>1, <1>2
<1>4. CASE size <= DSIZE
  <2>1. AdjustedSize(size) = 16
    BY <1>4 DEF AdjustedSize, DSIZE
  <2> QED BY <2>1, <1>4, <1>1 DEF DSIZE
<1>5. CASE ~(size <= DSIZE)
  <2> DEFINE q == (size + 15) \div 8
  <2>1. size + DSIZE + (DSIZE - 1) = size + 15
    BY <1>1 DEF DSIZE
  <2>2. AdjustedSize(size) = 8 * q
    BY <1>3, <1>5, <2>1 DEF AdjustedSize, DSIZE
  <2>3. q \in Nat /\ 8 * q > size + 7
    BY <1>1
  <2> HIDE DEF q
  <2>4. 8 * q \in Nat /\ (8 * q) % 8 = 0
    BY <2>3
  <2>5. 8 * q >= size + 8 /\ size > 8
    BY <1>1, <1>5, <2>3 DEF DSIZE
  <2>6. 8 * q >= 16
    BY <1>1, <2>3, <2>5
  <2> QED BY <2>2, <2>4, <2>5, <2>6 DEF DSIZE
<1> QED BY <1>4, <1>5

(* The answer to a request for size bytes: NULL, or a block that was not    *)
(* allocated, with its size and its two tags.  The allocated blocks are     *)
(* where they were, with their data.                                        *)
Answers(h, r, sz, F, size) ==
    \E tz, G :
      /\ Good(r.heap, tz, G)
      /\ \A x \in Allocated(sz, F) : tz[x] = sz[x]
      /\ Untouched(h, r.heap, sz, Allocated(sz, F) \ {Dummy})
      /\ IF r.ptr = NULL THEN Allocated(tz, G) = Allocated(sz, F)
         ELSE /\ Allocated(tz, G) = Allocated(sz, F) \cup {r.ptr}
              /\ r.ptr \notin Allocated(sz, F) /\ tz[r.ptr] >= size

LEMMA PlacedAnswers ==
    ASSUME NEW h, NEW k, NEW sz, NEW F, NEW tz, NEW G, Good(k, tz, G), NEW bp \in G,
           SameAllocated(h, k, sz, F, tz, G),
           NEW asize \in Nat, asize % DSIZE = 0, asize >= 2 * DSIZE, asize <= tz[bp]
    PROVE  Answers(h, Result(place(k, bp, asize), bp), sz, F, asize)
<1> DEFINE g == place(k, bp, asize)
           X == Allocated(sz, F) \ {Dummy}
<1>1. Placed(k, g, tz, G, bp, asize)
  BY PlaceShape
<1> HIDE DEF g
<1>2. PICK uz, H : /\ Good(g, uz, H) /\ Allocated(uz, H) = Allocated(tz, G) \cup {bp}
                   /\ uz[bp] >= asize
                   /\ \A x \in Allocated(tz, G) : uz[x] = tz[x]
                   /\ Untouched(k, g, tz, Allocated(tz, G) \ {Dummy})
  BY <1>1 DEF Placed
<1>3. /\ Allocated(tz, G) = Allocated(sz, F) /\ \A x \in Allocated(sz, F) : tz[x] = sz[x]
      /\ Untouched(h, k, sz, X)
  BY DEF SameAllocated
<1>4. bp \notin Allocated(sz, F)
  BY <1>3 DEF Allocated
<1>5. bp # NULL
  <2>1. bp \in DOMAIN tz /\ Tiling(tz, k.brk)
    BY DEF Good, Shape, Frame, Ordinary
  <2> QED BY <2>1, BlockWords DEF Prologue, WSIZE, NULL
<1>6. Untouched(h, g, sz, X)
  BY <1>2, <1>3, UntouchedThrough
<1>7. \A x \in Allocated(sz, F) : uz[x] = sz[x]
  BY <1>2, <1>3
<1> DEFINE r == Result(g, bp)
<1>8. r.heap = g /\ r.ptr = bp
  BY DEF Result
<1> HIDE DEF r
<1> QED BY <1>2, <1>3, <1>4, <1>5, <1>6, <1>7, <1>8 DEF Answers, r, g

LEMMA AllocateAnswers ==
    ASSUME NEW h, NEW sz, NEW F, Good(h, sz, F),
           NEW asize \in Nat, asize % DSIZE = 0, asize >= 2 * DSIZE
    PROVE  Answers(h, Allocate(h, asize), sz, F, asize)
<1> DEFINE fit == find_fit(h, asize)
           extendsize == IF asize > CHUNKSIZE THEN asize ELSE CHUNKSIZE
           more == extend_heap(h, extendsize \div WSIZE)
<1>1. CASE fit # NULL
  <2>1. fit \in F /\ asize <= sz[fit]
    BY <1>1, FindFit DEF Good
  <2>2. SameAllocated(h, h, sz, F, sz, F)
    BY DEF SameAllocated, Untouched
  <2>3. Allocate(h, asize) = Result(place(h, fit, asize), fit)
    BY <1>1 DEF Allocate
  <2> HIDE DEF fit
  <2> QED BY <2>1, <2>2, <2>3, PlacedAnswers
<1>2. CASE fit = NULL
  <2>1. Allocate(h, asize) = PlaceNew(h, more, asize)
    BY <1>2 DEF Allocate
  <2>2. /\ extendsize \in Nat /\ extendsize % DSIZE = 0 /\ extendsize >= 2 * DSIZE
        /\ extendsize >= asize
    BY HeapAssumption DEF DSIZE
  <2> HIDE DEF extendsize
  <2>3. IF ~CanGrow(h, extendsize) THEN more = Result(h, NULL)
        ELSE \E tz, G : /\ Good(more.heap, tz, G) /\ more.ptr \in G /\ tz[more.ptr] >= extendsize
                        /\ SameAllocated(h, more.heap, sz, F, tz, G)
    BY <2>2, ExtendShape
  <2> HIDE DEF more
  <2>4. CASE ~CanGrow(h, extendsize)
    <3>1. Allocate(h, asize) = Result(h, NULL)
      BY <2>1, <2>3, <2>4 DEF PlaceNew, Result
    <3>2. Answers(h, Result(h, NULL), sz, F, asize)
      BY DEF Answers, Result, Untouched
    <3> QED BY <3>1, <3>2
  <2>5. CASE CanGrow(h, extendsize)
    <3>1. PICK tz, G : /\ Good(more.heap, tz, G) /\ more.ptr \in G /\ tz[more.ptr] >= extendsize
                       /\ SameAllocated(h, more.heap, sz, F, tz, G)
      BY <2>3, <2>5
    <3>2. more.ptr \in DOMAIN tz /\ Tiling(tz, more.heap.brk)
      BY <3>1 DEF Good, Shape, Frame, Ordinary
    <3>3. more.ptr # NULL /\ tz[more.ptr] \in Nat
      BY <3>2, BlockWords DEF Prologue, WSIZE, NULL
    <3>4. asize <= tz[more.ptr]
      BY <2>2, <3>1, <3>3
    <3>5. Allocate(h, asize) = Result(place(more.heap, more.ptr, asize), more.ptr)
      BY <2>1, <3>3 DEF PlaceNew
    <3> QED BY <3>1, <3>4, <3>5, PlacedAnswers
  <2> QED BY <2>4, <2>5
<1> QED BY <1>1, <1>2

LEMMA GoodListp ==
    ASSUME NEW h, NEW sz, NEW F, Good(h, sz, F)
    PROVE  h \in Heap /\ h.listp = Prologue /\ h.listp # NULL /\ Initialised(h) = h
BY DEF Good, Shape, Frame, Initialised, Prologue, WSIZE, NULL

LEMMA MallocAnswers ==
    ASSUME NEW h, NEW sz, NEW F, Good(h, sz, F), NEW size, Asked(size)
    PROVE  Answers(h, mm_malloc(h, size), sz, F, size + DSIZE)
<1> DEFINE asize == AdjustedSize(size)
<1>1. mm_malloc(h, size) = Allocate(h, asize)
  BY GoodListp DEF mm_malloc, Asked
<1>2. asize \in Nat /\ asize % DSIZE = 0 /\ asize >= 2 * DSIZE /\ asize >= size + DSIZE
  BY Adjusted
<1> HIDE DEF asize
<1> DEFINE r == Allocate(h, asize)
<1>3. Answers(h, r, sz, F, asize)
  BY <1>2, AllocateAnswers
<1> HIDE DEF r
<1>4. PICK tz, G :
      /\ Good(r.heap, tz, G)
      /\ \A x \in Allocated(sz, F) : tz[x] = sz[x]
      /\ Untouched(h, r.heap, sz, Allocated(sz, F) \ {Dummy})
      /\ IF r.ptr = NULL THEN Allocated(tz, G) = Allocated(sz, F)
         ELSE /\ Allocated(tz, G) = Allocated(sz, F) \cup {r.ptr}
              /\ r.ptr \notin Allocated(sz, F) /\ tz[r.ptr] >= asize
  BY <1>3 DEF Answers
<1>5. r.ptr # NULL => tz[r.ptr] >= size + DSIZE
  <2> SUFFICES ASSUME r.ptr # NULL PROVE tz[r.ptr] >= size + DSIZE
    OBVIOUS
  <2>1. r.ptr \in DOMAIN tz /\ Tiling(tz, r.heap.brk)
    BY <1>4 DEF Good, Shape, Frame, Allocated
  <2>2. tz[r.ptr] \in Nat
    BY <2>1, BlockWords
  <2> QED BY <2>2, <1>2, <1>4 DEF Asked, DSIZE
<1>6. Answers(h, r, sz, F, size + DSIZE)
  BY <1>4, <1>5 DEF Answers
<1> QED BY <1>1, <1>6 DEF r

LEMMA FreeShape ==
    ASSUME NEW h, NEW sz, NEW F, Good(h, sz, F), NEW bp \in Allocated(sz, F) \ {Prologue, Dummy},
           NEW k, k = PutTags(h, bp, sz[bp], 0)
    PROVE  /\ mm_free(h, bp) = coalesce(k, bp).heap
           /\ Loose(k, sz, F \cup {bp}, bp) /\ k.brk = h.brk /\ bp # NULL
           /\ Untouched(h, k, sz, DOMAIN sz)
<1>1. /\ Frame(h, sz, F) /\ Tiling(sz, h.brk) /\ Tagged(h.mem, h.brk, sz, F)
      /\ F \subseteq Ordinary(sz) /\ F \subseteq DOMAIN sz
      /\ \A b \in F : b + sz[b] \notin F
  BY DEF Good, Shape, Frame, Ordinary
<1>2. bp \in Ordinary(sz) /\ bp \in DOMAIN sz /\ bp \notin F /\ bp # NULL
  <2>1. bp \in Ordinary(sz) /\ bp \in DOMAIN sz /\ bp \notin F
    BY DEF Ordinary, Allocated
  <2> QED BY <2>1, <1>1, BlockWords DEF Prologue, WSIZE, NULL
<1> DEFINE G == F \cup {bp}
<1>3. mm_free(h, bp) = coalesce(k, bp).heap
  <2>1. GET_SIZE(h, HDRP(bp)) = sz[bp]
    BY <1>1, <1>2, ReadTags
  <2>2. Initialised(h) = h
    BY GoodListp
  <2>3. mm_free(h, bp) = coalesce(PutTags(Initialised(h), bp, GET_SIZE(h, HDRP(bp)), 0), bp).heap
    BY <1>2 DEF mm_free
  <2> QED BY <2>1, <2>2, <2>3
<1>4. Retagged(h, k, sz, F, bp, 0)
  <2>1. 0 \in {0, 1}
    OBVIOUS
  <2> QED BY <2>1, <1>1, <1>2, PutTagsFrame
<1>5. Tagged(k.mem, k.brk, sz, G)
  <2>1. ASSUME NEW b \in DOMAIN sz
        PROVE  k.mem[HDRP(b)] = Tag(sz, G, b) /\ k.mem[b + sz[b] - DSIZE] = Tag(sz, G, b)
    <3>1. CASE b = bp
      BY <3>1, <1>4 DEF Retagged, Tag, Foot
    <3>2. CASE b # bp
      <4>1. Tag(sz, G, b) = Tag(sz, F, b)
        BY <3>2 DEF Tag
      <4> QED BY <4>1, <3>2, <1>1, <1>4 DEF Retagged, SameTags, Tagged
    <3> QED BY <3>1, <3>2
  <2>2. k.mem[HDRP(k.brk)] = PACK(0, 1)
    BY <1>1, <1>4 DEF Retagged, SameTags, Tagged
  <2> QED BY <2>1, <2>2 DEF Tagged
<1>6. Shape(k, sz, G, G \ {bp}) /\ bp \in G
  <2>1. G \ {bp} = F /\ G \subseteq Ordinary(sz)
    BY <1>1, <1>2
  <2> QED BY <2>1, <1>4, <1>5 DEF Shape, Retagged
<1>7. Loose(k, sz, G, bp)
  BY <1>1, <1>6 DEF Loose
<1> QED BY <1>2, <1>3, <1>4, <1>7 DEF Retagged, SameTags

(* A block that is freed is not allocated any longer, and the others are.   *)
Frees(h, g, sz, F, bp) ==
    \E tz, G :
      /\ Good(g, tz, G) /\ Allocated(tz, G) = Allocated(sz, F) \ {bp}
      /\ \A x \in Allocated(sz, F) \ {bp} : tz[x] = sz[x]
      /\ Untouched(h, g, sz, Allocated(sz, F) \ {bp, Dummy})

LEMMA FreeFrees ==
    ASSUME NEW h, NEW sz, NEW F, Good(h, sz, F), NEW bp \in Allocated(sz, F) \ {Prologue, Dummy}
    PROVE  Frees(h, mm_free(h, bp), sz, F, bp)
<1> DEFINE k == PutTags(h, bp, sz[bp], 0)
           G == F \cup {bp}
           g == coalesce(k, bp).heap
           X == Allocated(sz, F) \ {bp, Dummy}
<1>1. mm_free(h, bp) = g /\ Loose(k, sz, G, bp) /\ Untouched(h, k, sz, DOMAIN sz)
  BY FreeShape
<1> HIDE DEF k
<1>2. Allocated(sz, G) = Allocated(sz, F) \ {bp}
  BY DEF Allocated
<1> HIDE DEF G
<1>3. PICK tz, H : Good(g, tz, H) /\ SameAllocated(k, g, sz, G, tz, H)
  BY <1>1, CoalesceShape
<1> HIDE DEF g
<1>4. /\ Allocated(tz, H) = Allocated(sz, F) \ {bp}
      /\ \A x \in Allocated(sz, F) \ {bp} : tz[x] = sz[x]
      /\ Untouched(k, g, sz, X)
  BY <1>2, <1>3 DEF SameAllocated, Untouched
<1>5. Untouched(h, g, sz, X)
  <2>1. X \subseteq DOMAIN sz
    BY DEF Allocated
  <2> QED BY <2>1, <1>1, <1>4 DEF Untouched
<1> QED BY <1>1, <1>3, <1>4, <1>5 DEF Frees

(* Writing data in an allocated block.                                      *)
LEMMA DataShape ==
    ASSUME NEW h, NEW sz, NEW F, Good(h, sz, F),
           NEW to \in Allocated(sz, F) \ {Prologue, Dummy},
           NEW m \in [Words -> Nat \cup Ids \cup {Junk}],
           \A a \in Words : a \notin Payload(sz, to) => m[a] = h.mem[a]
    PROVE  LET g == [h EXCEPT !.mem = m]
           IN Good(g, sz, F) /\ Untouched(h, g, sz, DOMAIN sz \ {to})
<1> DEFINE g == [h EXCEPT !.mem = m]
<1>1. /\ Tiling(sz, h.brk) /\ Tagged(h.mem, h.brk, sz, F) /\ Ring(h.mem, F)
      /\ F \subseteq Ordinary(sz) /\ h \in Heap /\ h.listp = Prologue
      /\ to \in DOMAIN sz /\ to \notin F
      /\ \A b \in F : b + sz[b] \notin F
  BY DEF Good, Shape, Frame, Allocated
<1>2. g \in Heap /\ g.mem = m /\ g.brk = h.brk /\ g.listp = Prologue
  BY <1>1, HeapParts
<1>3. \A b \in DOMAIN sz : /\ HDRP(b) \in Words /\ b + sz[b] - DSIZE \in Words
                           /\ HDRP(h.brk) \in Words
                           /\ b # Prologue => b \in Words /\ b + WSIZE \in Words
  BY <1>1, BlockWords
<1>4. ASSUME NEW b \in DOMAIN sz
      PROVE  /\ m[HDRP(b)] = h.mem[HDRP(b)] /\ m[b + sz[b] - DSIZE] = h.mem[b + sz[b] - DSIZE]
             /\ m[HDRP(h.brk)] = h.mem[HDRP(h.brk)]
  <2>1. \A a \in Payload(sz, to) : a # HDRP(b) /\ a # b + sz[b] - DSIZE /\ a # HDRP(h.brk)
    BY <1>1, DataApart
  <2> QED BY <2>1, <1>3
<1>5. ASSUME NEW b \in Ringed(F)
      PROVE  m[b] = h.mem[b] /\ m[b + WSIZE] = h.mem[b + WSIZE]
  <2>1. b \in DOMAIN sz /\ b # Prologue /\ b # to
    BY <1>1 DEF Ringed, Ordinary, Tiling, Prologue, Dummy, WSIZE
  <2>2. \A a \in Payload(sz, to) : a # b /\ a # b + WSIZE
    BY <2>1, <1>1, DataApart
  <2> QED BY <2>1, <2>2, <1>3
<1>6. Ring(m, F)
  BY <1>1, <1>5, RingFrame
<1>7. Tagged(m, h.brk, sz, F)
  <2>1. Dummy \in DOMAIN sz
    BY <1>1 DEF Tiling
  <2> QED BY <2>1, <1>1, <1>4 DEF Tagged
<1>8. ASSUME NEW x \in DOMAIN sz \ {to}, NEW a \in Payload(sz, x)
      PROVE  m[a] = h.mem[a]
  <2>1. a \notin Payload(sz, to)
    <3>1. \A c, d \in DOMAIN sz : c < d => c + sz[c] <= d
      BY <1>1 DEF Tiling, Apart
    <3>2. /\ x \in Nat /\ to \in Nat /\ sz[x] \in Nat /\ sz[to] \in Nat
      BY <1>1, BlockWords
    <3>3. \A i \in 0 .. MAX_HEAP \div WSIZE - 1 : WSIZE * i \in Nat
      BY HeapAssumption DEF WSIZE
    <3>4. a \in Nat
      BY <3>3 DEF Payload, Words
    <3> QED BY <3>1, <3>2, <3>4, <1>1 DEF Payload, DSIZE
  <2> QED BY <2>1 DEF Payload
<1> HIDE DEF g
<1>9. Good(g, sz, F)
  BY <1>1, <1>2, <1>6, <1>7 DEF Good, Shape, Frame
<1>10. Untouched(h, g, sz, DOMAIN sz \ {to})
  BY <1>2, <1>8 DEF Untouched
<1> QED BY <1>9, <1>10 DEF g


(* A word of one block and the one at its place in another.                 *)
LEMMA WordNat ==
    ASSUME NEW a \in Words
    PROVE  a \in Nat /\ a % 4 = 0
<1>1. PICK q \in 0 .. MAX_HEAP \div WSIZE - 1 : a = 4 * q
  BY DEF Words, WSIZE
<1>2. q \in Nat
  BY HeapAssumption DEF WSIZE
<1> QED BY <1>1, <1>2

LEMMA ShiftWord ==
    ASSUME NEW a \in Words, NEW to \in Nat, to % DSIZE = 0, to <= a,
           NEW from \in Nat, from % DSIZE = 0, from + (a - to) < MAX_HEAP
    PROVE  from + (a - to) \in Words
<1>1. a \in Nat /\ a % 4 = 0 /\ a - to \in Nat
  BY WordNat
<1>2. (a - to) % 4 = 0
  <2>1. a = 4 * (a \div 4) /\ to = 4 * (2 * (to \div 8)) /\ a \div 4 \in Nat /\ to \div 8 \in Nat
    BY <1>1 DEF DSIZE
  <2>2. PICK x \in Nat, y \in Nat : a = 4 * x /\ to = 8 * y
    BY <2>1
  <2>3. a - to = 4 * (x - 2 * y) /\ x - 2 * y \in Nat
    BY <1>1, <2>2
  <2> QED BY <2>3
<1>3. (from + (a - to)) % 4 = 0
  <2>1. a - to = 4 * ((a - to) \div 4) /\ (a - to) \div 4 \in Nat
    BY <1>1, <1>2
  <2>2. from = 8 * (from \div 8) /\ from \div 8 \in Nat
    BY DEF DSIZE
  <2>3. PICK x \in Nat, y \in Nat : a - to = 4 * x /\ from = 8 * y
    BY <2>1, <2>2
  <2>4. from + (a - to) = 4 * (x + 2 * y) /\ x + 2 * y \in Nat
    BY <2>3
  <2> QED BY <2>4
<1> QED BY <1>1, <1>3, InWords DEF WSIZE

(* memcpy from one block to an allocated one, at most what the first has    *)
(* and the second's data takes.                                             *)
Copied(k, g, tz, G, to, from, size) ==
    /\ Good(g, tz, G) /\ Untouched(k, g, tz, DOMAIN tz \ {to})
    /\ \A a \in Words : a \in to .. to + size - 1 => g.mem[a] = k.mem[from + (a - to)]

LEMMA CopyShape ==
    ASSUME NEW k, NEW tz, NEW G, Good(k, tz, G),
           NEW to \in Allocated(tz, G) \ {Prologue, Dummy}, NEW from \in DOMAIN tz,
           NEW size \in Nat, size + DSIZE <= tz[to], size <= tz[from]
    PROVE  Copied(k, memcpy(k, to, from, size), tz, G, to, from, size)
<1> DEFINE m == [a \in Words |-> IF a \in to .. to + size - 1
                                 THEN k.mem[from + (a - to)] ELSE k.mem[a]]
<1>1. k \in Heap /\ Tiling(tz, k.brk) /\ to \in DOMAIN tz
  BY DEF Good, Shape, Frame, Allocated
<1>2. /\ to \in Nat /\ to % DSIZE = 0 /\ tz[to] \in Nat
      /\ from \in Nat /\ from % DSIZE = 0 /\ tz[from] \in Nat /\ from + tz[from] <= k.brk
      /\ k.brk \in Nat /\ k.brk <= MAX_HEAP /\ MAX_HEAP \in Nat
  BY <1>1, BlockWords, HeapAssumption DEF Tiling
<1>3. k.mem \in [Words -> Nat \cup Ids \cup {Junk}]
  BY <1>1 DEF Heap
<1>4. \A a \in Words : a \in Nat
  BY WordNat
<1>5. ASSUME NEW a \in Words, a \in to .. to + size - 1
      PROVE  from + (a - to) \in Words
  <2>1. a \in Nat /\ a - to \in Nat /\ a - to < size
    BY <1>2, <1>4, <1>5
  <2>2. to <= a /\ from + (a - to) < MAX_HEAP
    BY <1>2, <1>5, <2>1
  <2> QED BY <1>2, <2>2, ShiftWord
<1>6. m \in [Words -> Nat \cup Ids \cup {Junk}]
  BY <1>3, <1>5
<1>7. \A a \in Words : a \notin Payload(tz, to) => m[a] = k.mem[a]
  <2> SUFFICES ASSUME NEW a \in Words, a \in to .. to + size - 1 PROVE a \in Payload(tz, to)
    OBVIOUS
  <2>1. a \in Nat /\ to <= a /\ a < to + size
    BY <1>2, <1>4
  <2>2. a < to + tz[to] - DSIZE
    BY <1>2, <2>1 DEF DSIZE
  <2> QED BY <2>1, <2>2 DEF Payload
<1>8. \A a \in Words : a \in to .. to + size - 1 => m[a] = k.mem[from + (a - to)]
  OBVIOUS
<1>9. memcpy(k, to, from, size) = [k EXCEPT !.mem = m]
  BY DEF memcpy
<1> HIDE DEF m
<1>10. [k EXCEPT !.mem = m].mem = m
  BY <1>1, HeapParts
<1>11. Good([k EXCEPT !.mem = m], tz, G) /\ Untouched(k, [k EXCEPT !.mem = m], tz, DOMAIN tz \ {to})
  BY <1>6, <1>7, DataShape
<1> QED BY <1>8, <1>9, <1>10, <1>11 DEF Copied

(* The answer to a request to move the block at ptr to one of size bytes:   *)
(* NULL, and nothing is moved, or a block that was not allocated, in place  *)
(* of the old one and with as much of its data as there is room for.        *)
Moves(h, r, sz, F, ptr, size) ==
    \E tz, G :
      /\ Good(r.heap, tz, G)
      /\ \A x \in Allocated(sz, F) \ {ptr} : tz[x] = sz[x]
      /\ Untouched(h, r.heap, sz, Allocated(sz, F) \ {ptr, Dummy})
      /\ IF r.ptr = NULL
         THEN /\ Allocated(tz, G) = Allocated(sz, F) /\ tz[ptr] = sz[ptr]
              /\ Untouched(h, r.heap, sz, {ptr})
         ELSE /\ Allocated(tz, G) = (Allocated(sz, F) \ {ptr}) \cup {r.ptr}
              /\ r.ptr \notin Allocated(sz, F) /\ tz[r.ptr] >= size + DSIZE
              /\ \A a \in Payload(tz, r.ptr) :
                    /\ a < r.ptr + size
                    /\ ptr + (a - r.ptr) \in Payload(sz, ptr)
                    => r.heap.mem[a] = h.mem[ptr + (a - r.ptr)]

LEMMA ReallocMoves ==
    ASSUME NEW h, NEW sz, NEW F, Good(h, sz, F), NEW size, Asked(size),
           NEW ptr \in Allocated(sz, F) \ {Prologue, Dummy}
    PROVE  Moves(h, mm_realloc(h, ptr, size), sz, F, ptr, size)
<1> DEFINE new == mm_malloc(h, size)
<1>1. Tiling(sz, h.brk) /\ ptr \in DOMAIN sz /\ ptr \in Nat /\ ptr # NULL /\ sz[ptr] \in Nat
  <2>1. Tiling(sz, h.brk) /\ ptr \in DOMAIN sz
    BY DEF Good, Shape, Frame, Allocated
  <2> QED BY <2>1, BlockWords DEF Prologue, NULL, WSIZE
<1>2. mm_realloc(h, ptr, size) = Move(new, ptr, size)
  BY <1>1 DEF mm_realloc, Asked
<1>3. Answers(h, new, sz, F, size + DSIZE)
  BY MallocAnswers
<1> HIDE DEF new
<1>4. PICK tz, G :
      /\ Good(new.heap, tz, G)
      /\ \A x \in Allocated(sz, F) : tz[x] = sz[x]
      /\ Untouched(h, new.heap, sz, Allocated(sz, F) \ {Dummy})
      /\ IF new.ptr = NULL THEN Allocated(tz, G) = Allocated(sz, F)
         ELSE /\ Allocated(tz, G) = Allocated(sz, F) \cup {new.ptr}
              /\ new.ptr \notin Allocated(sz, F) /\ tz[new.ptr] >= size + DSIZE
  BY <1>3 DEF Answers
<1>5. CASE new.ptr = NULL
  <2>1. Move(new, ptr, size) = new
    BY <1>5 DEF Move
  <2>2. Untouched(h, new.heap, sz, {ptr}) /\ Untouched(h, new.heap, sz, Allocated(sz, F) \ {ptr, Dummy})
    BY <1>4 DEF Untouched
  <2>3. Moves(h, new, sz, F, ptr, size)
    BY <1>4, <1>5, <2>2 DEF Moves
  <2> QED BY <1>2, <2>1, <2>3
<1>6. CASE new.ptr # NULL
  <2> DEFINE kept == Kept(new.heap, ptr, size)
             k == Copy(new, ptr, size)
             to == new.ptr
             g == mm_free(k, ptr)
  <2>1. Move(new, ptr, size) = Result(g, to)
    BY <1>6 DEF Move
  <2>2. /\ Tiling(tz, new.heap.brk) /\ Tagged(new.heap.mem, new.heap.brk, tz, G)
        /\ {Prologue, Dummy} \subseteq Allocated(sz, F)
        /\ to \in DOMAIN tz /\ ptr \in DOMAIN tz /\ to # ptr
        /\ to \in Allocated(tz, G) \ {Prologue, Dummy}
        /\ ptr \in Allocated(tz, G) \ {Prologue, Dummy} /\ tz[ptr] = sz[ptr]
    <3>1. {Prologue, Dummy} \subseteq Allocated(sz, F)
      BY DEF Good, Shape, Frame, Tiling, Ordinary, Allocated
    <3> QED BY <1>4, <1>6, <3>1 DEF Good, Shape, Frame, Allocated
  <2>3. GET_SIZE(new.heap, HDRP(ptr)) = sz[ptr]
    BY <2>2, ReadTags
  <2>4. kept = IF size < sz[ptr] THEN size ELSE sz[ptr]
    BY <2>3 DEF Kept
  <2>5. kept \in Nat /\ kept <= size /\ kept <= tz[ptr] /\ kept + DSIZE <= tz[to]
    <3>1. tz[to] \in Nat /\ size \in Nat
      BY <2>2, BlockWords DEF Asked
    <3> QED BY <1>1, <1>4, <1>6, <2>2, <2>4, <3>1 DEF DSIZE
  <2>6. k = memcpy(new.heap, to, ptr, kept)
    BY DEF Copy
  <2> HIDE DEF kept, k, to
  <2>7. Copied(new.heap, k, tz, G, to, ptr, kept)
    BY <1>4, <2>2, <2>5, <2>6, CopyShape
  <2>8. Good(k, tz, G)
    BY <2>7 DEF Copied
  <2>9. Frees(k, g, tz, G, ptr)
    BY <2>2, <2>8, FreeFrees
  <2> HIDE DEF g
  <2>10. PICK uz, H :
        /\ Good(g, uz, H) /\ Allocated(uz, H) = Allocated(tz, G) \ {ptr}
        /\ \A x \in Allocated(tz, G) \ {ptr} : uz[x] = tz[x]
        /\ Untouched(k, g, tz, Allocated(tz, G) \ {ptr, Dummy})
    BY <2>9 DEF Frees
  <2>11. /\ Allocated(uz, H) = (Allocated(sz, F) \ {ptr}) \cup {to}
         /\ to \notin Allocated(sz, F) /\ uz[to] = tz[to] /\ uz[to] >= size + DSIZE
         /\ \A x \in Allocated(sz, F) \ {ptr} : uz[x] = sz[x]
    BY <1>4, <1>6, <2>2, <2>10 DEF to
  <2>12. Untouched(h, g, sz, Allocated(sz, F) \ {ptr, Dummy})
    <3> SUFFICES ASSUME NEW x \in Allocated(sz, F) \ {ptr, Dummy}, NEW a \in Payload(sz, x)
                 PROVE  g.mem[a] = h.mem[a]
      BY DEF Untouched
    <3>1. x \in Allocated(tz, G) \ {ptr, Dummy} /\ tz[x] = sz[x] /\ x # to /\ x \in DOMAIN tz
      BY <1>4, <1>6, <2>11, <2>2 DEF Allocated, to
    <3>2. a \in Payload(tz, x)
      BY <3>1 DEF Payload
    <3>3. new.heap.mem[a] = h.mem[a]
      BY <1>4 DEF Untouched
    <3>4. k.mem[a] = new.heap.mem[a]
      BY <2>7, <3>1, <3>2 DEF Copied, Untouched
    <3>5. g.mem[a] = k.mem[a]
      BY <2>10, <3>1, <3>2 DEF Untouched
    <3> QED BY <3>3, <3>4, <3>5
  <2>13. ASSUME NEW a \in Payload(uz, to), a < to + size, ptr + (a - to) \in Payload(sz, ptr)
         PROVE  g.mem[a] = h.mem[ptr + (a - to)]
    <3>1. a \in Payload(tz, to) /\ a \in Words /\ a \in Nat /\ to <= a /\ to \in Nat
      <4>1. \A q \in 0 .. MAX_HEAP \div WSIZE - 1 : WSIZE * q \in Nat
        BY HeapAssumption DEF WSIZE
      <4>2. to \in Nat
        BY <2>2, BlockWords
      <4> QED BY <2>11, <2>13, <4>1, <4>2 DEF Payload, Words
    <3>2. a < to + kept
      BY <1>1, <2>13, <2>4, <3>1 DEF Payload, DSIZE, Asked
    <3>3. a \in to .. to + kept - 1
      BY <2>5, <3>1, <3>2
    <3>4. k.mem[a] = new.heap.mem[ptr + (a - to)]
      BY <2>7, <3>1, <3>3 DEF Copied
    <3>5. to \in Allocated(tz, G) \ {ptr, Dummy}
      BY <2>2
    <3>6. g.mem[a] = k.mem[a]
      BY <2>10, <3>1, <3>5 DEF Untouched
    <3>7. new.heap.mem[ptr + (a - to)] = h.mem[ptr + (a - to)]
      <4>1. ptr \in Allocated(sz, F) \ {Dummy}
        OBVIOUS
      <4> QED BY <1>4, <2>13, <4>1 DEF Untouched
    <3> QED BY <3>4, <3>6, <3>7
  <2>14. Result(g, to).heap = g /\ Result(g, to).ptr = to /\ to # NULL
    BY <1>6 DEF Result, to
  <2> DEFINE r == Result(g, to)
  <2>15. Moves(h, r, sz, F, ptr, size)
    <3>1. r.heap = g /\ r.ptr = to /\ to # NULL
      BY <2>14
    <3> HIDE DEF r
    <3>2. \A a \in Payload(uz, r.ptr) :
            /\ a < r.ptr + size
            /\ ptr + (a - r.ptr) \in Payload(sz, ptr)
            => r.heap.mem[a] = h.mem[ptr + (a - r.ptr)]
      BY <2>13, <3>1
    <3> QED BY <2>10, <2>11, <2>12, <3>1, <3>2 DEF Moves
  <2> QED BY <1>2, <2>1, <2>15 DEF r
<1> QED BY <1>5, <1>6

-----------------------------------------------------------------------------
(* Where the heap ends.  Only mem_sbrk moves brk, and only upwards.         *)

(* g is a heap like h but for its memory.                                   *)
SameEnds(h, g) == DOMAIN g = DOMAIN h /\ g.brk = h.brk /\ g.listp = h.listp
HasEnds(h) == {"brk", "listp"} \subseteq DOMAIN h /\ h.brk \in Nat
Reaches(h, g) == HasEnds(g) /\ h.brk <= g.brk /\ g.listp = h.listp

LEMMA SameThrough ==
    ASSUME NEW h, NEW k, NEW g, HasEnds(h), SameEnds(h, k), SameEnds(k, g)
    PROVE  SameEnds(h, g) /\ HasEnds(k) /\ HasEnds(g)
BY DEF SameEnds, HasEnds

LEMMA PutEnds ==
    ASSUME NEW h, HasEnds(h), NEW p, NEW val
    PROVE  SameEnds(h, PUT(h, p, val)) /\ HasEnds(PUT(h, p, val))
BY DEF SameEnds, HasEnds, PUT

LEMMA PutTagsEnds ==
    ASSUME NEW h, HasEnds(h), NEW bp, NEW size, NEW alloc
    PROVE  SameEnds(h, PutTags(h, bp, size, alloc)) /\ HasEnds(PutTags(h, bp, size, alloc))
<1> DEFINE headed == PUT(h, HDRP(bp), PACK(size, alloc))
<1>1. SameEnds(h, headed) /\ HasEnds(headed)
  BY PutEnds
<1>2. PutTags(h, bp, size, alloc) = PUT(headed, FTRP(headed, bp), PACK(size, alloc))
  BY DEF PutTags
<1> HIDE DEF headed
<1>3. SameEnds(headed, PutTags(h, bp, size, alloc)) /\ HasEnds(PutTags(h, bp, size, alloc))
  BY <1>1, <1>2, PutEnds
<1> QED BY <1>1, <1>3, SameThrough

LEMMA ListEnds ==
    ASSUME NEW h, HasEnds(h), NEW bp
    PROVE  /\ SameEnds(h, remove_from_free_list(h, bp)) /\ HasEnds(remove_from_free_list(h, bp))
           /\ SameEnds(h, add_to_free_list(h, bp)) /\ HasEnds(add_to_free_list(h, bp))
BY DEF SameEnds, HasEnds, remove_from_free_list, add_to_free_list

LEMMA CoalesceEnds ==
    ASSUME NEW h, HasEnds(h), NEW bp
    PROVE  SameEnds(h, coalesce(h, bp).heap) /\ HasEnds(coalesce(h, bp).heap)
<1> DEFINE prev == PREV_BLKP(h, bp)
           next == NEXT_BLKP(h, bp)
           joinsPrev == GET_ALLOC(h, FTRP(h, prev)) = 0
           joinsNext == GET_ALLOC(h, HDRP(next)) = 0
           size == GET_SIZE(h, HDRP(bp))
                     + (IF joinsPrev THEN GET_SIZE(h, HDRP(prev)) ELSE 0)
                     + (IF joinsNext THEN GET_SIZE(h, HDRP(next)) ELSE 0)
           start == IF joinsPrev THEN prev ELSE bp
           left == IF joinsPrev THEN remove_from_free_list(h, prev) ELSE h
           right == IF joinsNext THEN remove_from_free_list(left, next) ELSE left
           joined == IF joinsPrev \/ joinsNext THEN PutTags(right, start, size, 0) ELSE right
<1>1. coalesce(h, bp).heap = add_to_free_list(joined, start)
  BY DEF coalesce, Result
<1> HIDE DEF prev, next, joinsPrev, joinsNext, size, start
<1>2. SameEnds(h, h)
  BY DEF SameEnds
<1>3. SameEnds(h, left) /\ HasEnds(left)
  BY <1>2, ListEnds
<1> HIDE DEF left
<1>4. SameEnds(left, left)
  BY DEF SameEnds
<1>5. SameEnds(left, right) /\ HasEnds(right)
  BY <1>3, <1>4, ListEnds
<1> HIDE DEF right
<1>6. SameEnds(right, right)
  BY DEF SameEnds
<1>7. SameEnds(right, joined) /\ HasEnds(joined)
  BY <1>5, <1>6, PutTagsEnds
<1> HIDE DEF joined
<1>8. SameEnds(joined, add_to_free_list(joined, start)) /\ HasEnds(add_to_free_list(joined, start))
  BY <1>7, ListEnds
<1>9. SameEnds(h, right) /\ SameEnds(h, joined)
  BY <1>3, <1>5, <1>7, SameThrough
<1> QED BY <1>1, <1>8, <1>9, SameThrough

LEMMA PlaceEnds ==
    ASSUME NEW h, HasEnds(h), NEW bp, NEW asize
    PROVE  SameEnds(h, place(h, bp, asize)) /\ HasEnds(place(h, bp, asize))
<1> DEFINE csize == GET_SIZE(h, HDRP(bp))
           rest == csize - asize
<1>1. CASE rest >= 2 * DSIZE
  <2> DEFINE cut == PutTags(h, bp, asize, 1)
             used == remove_from_free_list(cut, bp)
             after == NEXT_BLKP(used, bp)
             freed == PutTags(used, after, rest, 0)
  <2>1. place(h, bp, asize) = coalesce(freed, after).heap
    BY <1>1 DEF place
  <2> HIDE DEF rest
  <2>2. SameEnds(h, cut) /\ HasEnds(cut)
    BY PutTagsEnds
  <2> HIDE DEF cut
  <2>3. SameEnds(cut, used) /\ HasEnds(used)
    BY <2>2, ListEnds
  <2> HIDE DEF used, after
  <2>4. SameEnds(used, freed) /\ HasEnds(freed)
    BY <2>3, PutTagsEnds
  <2> HIDE DEF freed
  <2>5. SameEnds(freed, coalesce(freed, after).heap) /\ HasEnds(coalesce(freed, after).heap)
    BY <2>4, CoalesceEnds
  <2>6. SameEnds(h, used) /\ SameEnds(h, freed)
    BY <2>2, <2>3, <2>4, SameThrough
  <2> QED BY <2>1, <2>5, <2>6, SameThrough
<1>2. CASE ~(rest >= 2 * DSIZE)
  <2> DEFINE cut == PutTags(h, bp, csize, 1)
  <2>1. place(h, bp, asize) = remove_from_free_list(cut, bp)
    BY <1>2 DEF place
  <2>2. SameEnds(h, cut) /\ HasEnds(cut)
    BY PutTagsEnds
  <2> HIDE DEF cut
  <2>3. SameEnds(cut, remove_from_free_list(cut, bp)) /\ HasEnds(remove_from_free_list(cut, bp))
    BY <2>2, ListEnds
  <2> QED BY <2>1, <2>2, <2>3, SameThrough
<1> QED BY <1>1, <1>2

LEMMA ExtendEnds ==
    ASSUME NEW h, HasEnds(h), NEW words \in Nat
    PROVE  Reaches(h, extend_heap(h, words).heap)
<1> DEFINE size == (words + (words % 2)) * WSIZE
           bp == h.brk
           more == mem_sbrk(h, size)
           tagged == PutTags(more, bp, size, 0)
           ended == PUT(tagged, HDRP(NEXT_BLKP(tagged, bp)), PACK(0, 1))
<1>1. size \in Nat
  BY DEF WSIZE
<1>2. extend_heap(h, words).heap = IF ~CanGrow(h, size) THEN h ELSE coalesce(ended, bp).heap
  BY DEF extend_heap, Result
<1> HIDE DEF size
<1>3. Reaches(h, more)
  BY <1>1 DEF mem_sbrk, HasEnds, Reaches
<1> HIDE DEF more, bp
<1>4. SameEnds(more, tagged) /\ HasEnds(tagged)
  BY <1>3, PutTagsEnds DEF Reaches
<1> HIDE DEF tagged
<1>5. SameEnds(tagged, ended) /\ HasEnds(ended)
  BY <1>4, PutEnds
<1> HIDE DEF ended
<1>6. SameEnds(ended, coalesce(ended, bp).heap) /\ HasEnds(coalesce(ended, bp).heap)
  BY <1>5, CoalesceEnds
<1>7. Reaches(h, coalesce(ended, bp).heap)
  BY <1>3, <1>4, <1>5, <1>6 DEF Reaches, SameEnds
<1>8. Reaches(h, h)
  BY DEF Reaches, HasEnds
<1> QED BY <1>2, <1>7, <1>8

LEMMA AllocateEnds ==
    ASSUME NEW h, HasEnds(h), NEW asize \in Nat
    PROVE  Reaches(h, Allocate(h, asize).heap)
<1> DEFINE fit == find_fit(h, asize)
           extendsize == IF asize > CHUNKSIZE THEN asize ELSE CHUNKSIZE
           more == extend_heap(h, extendsize \div WSIZE)
<1>1. Allocate(h, asize) = IF fit # NULL THEN Result(place(h, fit, asize), fit)
                           ELSE PlaceNew(h, more, asize)
  BY DEF Allocate
<1> HIDE DEF fit
<1>2. Reaches(h, h)
  BY DEF Reaches, HasEnds
<1>3. Reaches(h, place(h, fit, asize))
  <2>1. SameEnds(h, place(h, fit, asize)) /\ HasEnds(place(h, fit, asize))
    BY PlaceEnds
  <2> QED BY <2>1 DEF SameEnds, Reaches, HasEnds
<1>4. Reaches(h, more.heap)
  <2>1. extendsize \div WSIZE \in Nat
    BY HeapAssumption DEF WSIZE
  <2> HIDE DEF extendsize
  <2> QED BY <2>1, ExtendEnds
<1> HIDE DEF more
<1>5. Reaches(h, place(more.heap, more.ptr, asize))
  <2>1. HasEnds(more.heap)
    BY <1>4 DEF Reaches
  <2>2. /\ SameEnds(more.heap, place(more.heap, more.ptr, asize))
        /\ HasEnds(place(more.heap, more.ptr, asize))
    BY <2>1, PlaceEnds
  <2> QED BY <1>4, <2>2 DEF SameEnds, Reaches
<1>6. PlaceNew(h, more, asize).heap \in {h, place(more.heap, more.ptr, asize)}
  BY DEF PlaceNew, Result
<1>7. Allocate(h, asize).heap \in {place(h, fit, asize), PlaceNew(h, more, asize).heap}
  BY <1>1 DEF Result
<1> QED BY <1>2, <1>3, <1>5, <1>6, <1>7

LEMMA FreeEnds ==
    ASSUME NEW h, HasEnds(h), h.listp # NULL, NEW bp
    PROVE  SameEnds(h, mm_free(h, bp)) /\ HasEnds(mm_free(h, bp))
<1> DEFINE freed == PutTags(h, bp, GET_SIZE(h, HDRP(bp)), 0)
<1>1. mm_free(h, bp) = IF bp = NULL THEN h ELSE coalesce(freed, bp).heap
  BY DEF mm_free, Initialised
<1>2. SameEnds(h, freed) /\ HasEnds(freed)
  BY PutTagsEnds
<1> HIDE DEF freed
<1>3. SameEnds(freed, coalesce(freed, bp).heap) /\ HasEnds(coalesce(freed, bp).heap)
  BY <1>2, CoalesceEnds
<1>4. SameEnds(h, h)
  BY DEF SameEnds
<1> QED BY <1>1, <1>2, <1>3, <1>4, SameThrough

(* No request makes the heap smaller.                                       *)
LEMMA MallocEnds ==
    ASSUME NEW h, HasEnds(h), h.listp # NULL, NEW size, Asked(size)
    PROVE  Reaches(h, mm_malloc(h, size).heap)
<1>1. mm_malloc(h, size) = Allocate(h, AdjustedSize(size))
  BY DEF mm_malloc, Asked, Initialised
<1>2. AdjustedSize(size) \in Nat
  BY Adjusted
<1> QED BY <1>1, <1>2, AllocateEnds

LEMMA ReallocEnds ==
    ASSUME NEW h, HasEnds(h), h.listp # NULL, NEW size, Asked(size), NEW ptr, ptr # NULL
    PROVE  Reaches(h, mm_realloc(h, ptr, size).heap)
<1> DEFINE new == mm_malloc(h, size)
           copy == Copy(new, ptr, size)
<1>1. mm_realloc(h, ptr, size).heap = IF new.ptr = NULL THEN new.heap ELSE mm_free(copy, ptr)
  BY DEF mm_realloc, Asked, Move, Result
<1>2. Reaches(h, new.heap)
  BY MallocEnds
<1>3. SameEnds(new.heap, copy) /\ HasEnds(copy)
  BY <1>2 DEF Copy, memcpy, SameEnds, HasEnds, Reaches
<1> HIDE DEF new, copy
<1>4. SameEnds(copy, mm_free(copy, ptr)) /\ HasEnds(mm_free(copy, ptr))
  BY <1>2, <1>3, FreeEnds DEF Reaches, SameEnds
<1>5. Reaches(h, mm_free(copy, ptr))
  BY <1>2, <1>3, <1>4 DEF Reaches, SameEnds
<1> QED BY <1>1, <1>2, <1>5

-----------------------------------------------------------------------------
(* What answers depend on.  Two heaps with the same blocks and the same     *)
(* list of free ones answer alike, whatever else is in their memories.      *)

Fields(h) == {"mem", "brk", "listp"} \subseteq DOMAIN h /\ DOMAIN h.mem = Words

(* g has what h has, but for words that are not in X.                       *)
Like(h, g, X) ==
    /\ Fields(h) /\ Fields(g) /\ g.brk = h.brk /\ g.listp = h.listp
    /\ X \subseteq Words /\ \A a \in X : g.mem[a] = h.mem[a]

(* The tags of the blocks and the pointers of the list are in X.            *)
Covers(X, sz, brk, L) ==
    /\ \A b \in DOMAIN sz : HDRP(b) \in X /\ b + sz[b] - DSIZE \in X
    /\ HDRP(brk) \in X
    /\ \A b \in Ringed(L) : b \in X /\ b + WSIZE \in X

Alike(h, g, sz, L) == \E X : Like(h, g, X) /\ Covers(X, sz, h.brk, L)
Twin(h, g) == \A sz, F : Good(h, sz, F) => Alike(h, g, sz, F)
TwinResult(r, s) == s.ptr = r.ptr /\ Twin(r.heap, s.heap)

LEMMA HeapFields ==
    ASSUME NEW h \in Heap
    PROVE  Fields(h)
BY DEF Fields, Heap

LEMMA PutLike ==
    ASSUME NEW h, NEW g, NEW X, Like(h, g, X), NEW p \in Words, NEW v
    PROVE  Like(PUT(h, p, v), PUT(g, p, v), X \cup {p}) /\ PUT(h, p, v).brk = h.brk
BY DEF Like, Fields, PUT

LEMMA PutTagsLike ==
    ASSUME NEW h, NEW g, NEW X, Like(h, g, X), NEW b, NEW size \in Nat, size % DSIZE = 0,
           NEW alloc \in {0, 1}, HDRP(b) \in Words, Foot(b, size) \in Words
    PROVE  /\ Like(PutTags(h, b, size, alloc), PutTags(g, b, size, alloc),
                   X \cup {HDRP(b), Foot(b, size)})
           /\ PutTags(h, b, size, alloc).brk = h.brk
<1> DEFINE t == PACK(size, alloc)
           hd == HDRP(b)
           h1 == PUT(h, hd, t)
           g1 == PUT(g, hd, t)
           ft == Foot(b, size)
<1>1. Like(h1, g1, X \cup {hd}) /\ h1.brk = h.brk
  BY PutLike
<1>2. h1.mem[hd] = t /\ g1.mem[hd] = t
  BY DEF PUT, Like, Fields
<1>3. t - (t % 8) = size
  BY TagWord
<1>4. FTRP(h1, b) = ft /\ FTRP(g1, b) = ft
  BY <1>2, <1>3 DEF FTRP, GET_SIZE, Foot
<1>5. PutTags(h, b, size, alloc) = PUT(h1, ft, t) /\ PutTags(g, b, size, alloc) = PUT(g1, ft, t)
  BY <1>4 DEF PutTags
<1> HIDE DEF h1, g1, t, hd, ft
<1>6. Like(PUT(h1, ft, t), PUT(g1, ft, t), (X \cup {hd}) \cup {ft}) /\ PUT(h1, ft, t).brk = h1.brk
  <2>1. ft \in Words
    BY DEF ft
  <2> QED BY <2>1, <1>1, PutLike
<1>7. (X \cup {hd}) \cup {ft} = X \cup {hd, ft}
  OBVIOUS
<1> QED BY <1>1, <1>5, <1>6, <1>7 DEF hd, ft

LEMMA RemoveLike ==
    ASSUME NEW h, NEW g, NEW X, Like(h, g, X), NEW b, b \in X, b + WSIZE \in X
    PROVE  /\ Like(remove_from_free_list(h, b), remove_from_free_list(g, b), X)
           /\ remove_from_free_list(h, b).brk = h.brk
<1>1. GET_PRED(g, b) = GET_PRED(h, b) /\ GET_SUCC(g, b) = GET_SUCC(h, b)
  BY DEF Like, GET_PRED, GET_SUCC
<1> DEFINE p == GET_PRED(h, b)
           s == GET_SUCC(h, b)
           m(k) == [k.mem EXCEPT ![p + WSIZE] = s, ![s] = p]
<1>2. /\ remove_from_free_list(h, b) = [h EXCEPT !.mem = m(h)]
      /\ remove_from_free_list(g, b) = [g EXCEPT !.mem = m(g)]
  BY <1>1 DEF remove_from_free_list, Like, Fields
<1> HIDE DEF p, s
<1>3. DOMAIN m(h) = DOMAIN h.mem /\ DOMAIN m(g) = DOMAIN g.mem
  OBVIOUS
<1>4. \A a \in X : m(g)[a] = m(h)[a]
  BY DEF Like, Fields
<1> HIDE DEF m
<1> QED BY <1>2, <1>3, <1>4 DEF Like, Fields

LEMMA AddLike ==
    ASSUME NEW h, NEW g, NEW X, Like(h, g, X), h.listp = Prologue, Dummy + WSIZE \in X,
           NEW b, b \in Words, b + WSIZE \in Words
    PROVE  /\ Like(add_to_free_list(h, b), add_to_free_list(g, b), X \cup {b, b + WSIZE})
           /\ add_to_free_list(h, b).brk = h.brk
<1>1. dummy_blockp(h) = Dummy /\ dummy_blockp(g) = Dummy
  BY DEF Like, dummy_blockp, Prologue, Dummy, DSIZE, WSIZE
<1>2. GET_SUCC(g, Dummy) = GET_SUCC(h, Dummy)
  BY DEF Like, GET_SUCC
<1> DEFINE n == GET_SUCC(h, Dummy)
           m(k) == [k.mem EXCEPT ![b + WSIZE] = n, ![n] = b, ![b] = Dummy, ![Dummy + WSIZE] = b]
<1>3. /\ add_to_free_list(h, b) = [h EXCEPT !.mem = m(h)]
      /\ add_to_free_list(g, b) = [g EXCEPT !.mem = m(g)]
  BY <1>1, <1>2 DEF add_to_free_list, Like, Fields
<1> HIDE DEF n
<1>4. DOMAIN m(h) = DOMAIN h.mem /\ DOMAIN m(g) = DOMAIN g.mem
  OBVIOUS
<1>5. \A a \in X \cup {b, b + WSIZE} : m(g)[a] = m(h)[a]
  BY DEF Like, Fields
<1> HIDE DEF m
<1> QED BY <1>3, <1>4, <1>5 DEF Like, Fields

(* A heap has one tiling: a walk from the prologue reads where blocks are.  *)
LEMMA OneTiling ==
    ASSUME NEW h, NEW sz, NEW F, Good(h, sz, F), NEW tz, NEW G, Good(h, tz, G)
    PROVE  DOMAIN tz = DOMAIN sz /\ G = F /\ \A b \in DOMAIN sz : tz[b] = sz[b]
<1>1. /\ Tiling(sz, h.brk) /\ Tagged(h.mem, h.brk, sz, F) /\ F \subseteq DOMAIN sz
      /\ Tiling(tz, h.brk) /\ Tagged(h.mem, h.brk, tz, G) /\ G \subseteq DOMAIN tz
  BY DEF Good, Shape, Frame, Ordinary
<1>2. /\ h.brk \in Nat /\ Prologue \in DOMAIN sz /\ Prologue \in DOMAIN tz
      /\ \A b \in DOMAIN sz : b \in 0 .. h.brk /\ b # h.brk
      /\ \A b \in DOMAIN tz : b \in 0 .. h.brk /\ b # h.brk
  <2>1. h.brk \in Nat /\ Prologue \in DOMAIN sz /\ Prologue \in DOMAIN tz
    BY <1>1 DEF Tiling
  <2>2. ASSUME NEW uz, Tiling(uz, h.brk), NEW b \in DOMAIN uz PROVE b \in 0 .. h.brk /\ b # h.brk
    <3>1. b \in Nat /\ uz[b] \in Nat /\ uz[b] >= DSIZE /\ b + uz[b] <= h.brk
      BY <2>2, BlockWords
    <3> QED BY <3>1, <2>1 DEF DSIZE
  <2> QED BY <2>1, <2>2, <1>1
<1>3. ASSUME NEW b \in DOMAIN sz, b \in DOMAIN tz
      PROVE  tz[b] = sz[b] /\ (b \in G <=> b \in F)
  BY <1>1, <1>3, ReadTags
<1> DEFINE T == {n \in 0 .. h.brk : \A b \in 0 .. n : b \in DOMAIN sz <=> b \in DOMAIN tz}
<1>4. ASSUME NEW uz, NEW vz, Tiling(uz, h.brk), Tiling(vz, h.brk),
             NEW n \in 0 .. h.brk, \A b \in 0 .. n : b \in DOMAIN uz => b \in DOMAIN vz /\ vz[b] = uz[b],
             n + 1 \in DOMAIN uz, n + 1 # h.brk
      PROVE  n + 1 \in DOMAIN vz
  <2>1. CASE n + 1 = Prologue
    BY <2>1, <1>4 DEF Tiling
  <2>2. CASE n + 1 # Prologue
    <3>1. PICK p \in DOMAIN uz : p + uz[p] = n + 1
      BY <2>2, <1>4 DEF Tiling
    <3>2. p \in Nat /\ uz[p] \in Nat /\ uz[p] >= DSIZE
      BY <1>4, BlockWords
    <3>3. p \in 0 .. n
      BY <3>1, <3>2, <1>2 DEF DSIZE
    <3>4. p \in DOMAIN vz /\ p + vz[p] = n + 1
      BY <3>1, <3>3, <1>4
    <3> QED BY <3>4, <1>4 DEF Tiling
  <2> QED BY <2>1, <2>2
<1>5. 0 \in T
  <2>1. 0 \notin DOMAIN sz /\ 0 \notin DOMAIN tz
    BY <1>1, BlockWords DEF Prologue, WSIZE
  <2> QED BY <2>1, <1>2
<1>6. \A n \in 0 .. h.brk : n \in T /\ n < h.brk => n + 1 \in T
  <2> SUFFICES ASSUME NEW n \in 0 .. h.brk, n \in T, n < h.brk PROVE n + 1 \in T
    OBVIOUS
  <2>1. n + 1 \in 0 .. h.brk /\ \A b \in 0 .. n + 1 : b \in 0 .. n \/ b = n + 1
    BY <1>2
  <2>2. \A b \in 0 .. n : b \in DOMAIN sz => b \in DOMAIN tz /\ tz[b] = sz[b]
    BY <1>3
  <2>3. \A b \in 0 .. n : b \in DOMAIN tz => b \in DOMAIN sz /\ sz[b] = tz[b]
    BY <1>3
  <2>4. n + 1 \in DOMAIN sz => n + 1 \in DOMAIN tz
    BY <2>2, <1>1, <1>2, <1>4
  <2>5. n + 1 \in DOMAIN tz => n + 1 \in DOMAIN sz
    BY <2>3, <1>1, <1>2, <1>4
  <2> QED BY <2>1, <2>4, <2>5
<1> HIDE DEF T
<1>7. 0 .. h.brk \subseteq T
  BY <1>2, <1>5, <1>6, BoundedInduct
<1>8. DOMAIN tz = DOMAIN sz
  <2>1. h.brk \in T
    BY <1>2, <1>7
  <2> QED BY <2>1, <1>2 DEF T
<1> QED BY <1>1, <1>3, <1>8

LEMMA LikeParts ==
    ASSUME NEW h, NEW g, NEW X, Like(h, g, X)
    PROVE  /\ \A Y : Y \subseteq X => Like(h, g, Y)
           /\ \A b : HDRP(b) \in X => GET_SIZE(g, HDRP(b)) = GET_SIZE(h, HDRP(b))
BY DEF Like, GET_SIZE

(* Only where the header is matters.                                        *)
LEMMA RetagLike ==
    ASSUME NEW h, NEW g, NEW X, Like(h, g, X), NEW b, HDRP(b) \in Words, NEW size, NEW alloc
    PROVE  Like(PutTags(h, b, size, alloc), PutTags(g, b, size, alloc), X)
<1> DEFINE t == PACK(size, alloc)
           hd == HDRP(b)
           h1 == PUT(h, hd, t)
           g1 == PUT(g, hd, t)
<1>1. Like(h1, g1, X \cup {hd})
  BY PutLike
<1> HIDE DEF h1, g1, t
<1>2. FTRP(g1, b) = FTRP(h1, b)
  BY <1>1, LikeParts DEF FTRP
<1> DEFINE ft == FTRP(h1, b)
<1>3. PutTags(h, b, size, alloc) = PUT(h1, ft, t) /\ PutTags(g, b, size, alloc) = PUT(g1, ft, t)
  BY <1>2 DEF PutTags, h1, g1, t
<1> HIDE DEF ft, hd
<1>4. Like(PUT(h1, ft, t), PUT(g1, ft, t), X)
  BY <1>1 DEF Like, Fields, PUT
<1> QED BY <1>3, <1>4

LEMMA TwinOf ==
    ASSUME NEW h, NEW g, NEW sz, NEW F, Good(h, sz, F), Alike(h, g, sz, F)
    PROVE  Twin(h, g)
<1>1. PICK X : Like(h, g, X) /\ Covers(X, sz, h.brk, F)
  BY DEF Alike
<1>2. ASSUME NEW tz, NEW G, Good(h, tz, G)
      PROVE  Covers(X, tz, h.brk, G)
  BY <1>1, <1>2, OneTiling DEF Covers
<1> QED BY <1>1, <1>2 DEF Twin, Alike

(* Fewer blocks have no other tags.                                         *)
LEMMA FewerCovered ==
    ASSUME NEW sz, NEW tz, NEW brk, Tiling(sz, brk), Tiling(tz, brk), DOMAIN tz \subseteq DOMAIN sz,
           NEW X, NEW L, Covers(X, sz, brk, L), NEW Y, X \subseteq Y, NEW G,
           \A b \in Ringed(G) : b \in Y /\ b + WSIZE \in Y
    PROVE  Covers(Y, tz, brk, G)
<1>1. ASSUME NEW b \in DOMAIN tz PROVE b + tz[b] - DSIZE \in X
  <2>1. b + tz[b] \in DOMAIN sz \cup {brk} /\ b + tz[b] # Prologue
    <3>1. b \in Nat /\ tz[b] \in Nat /\ tz[b] >= DSIZE /\ b >= Prologue
      BY BlockWords
    <3> QED BY <3>1 DEF Tiling, DSIZE, Prologue, WSIZE
  <2>2. PICK q \in DOMAIN sz : q + sz[q] = b + tz[b]
    BY <2>1 DEF Tiling
  <2>3. q + sz[q] - DSIZE \in X
    BY DEF Covers
  <2>4. q + sz[q] - DSIZE = b + tz[b] - DSIZE
    <3>1. q \in Nat /\ sz[q] \in Nat /\ b \in Nat /\ tz[b] \in Nat
      BY BlockWords
    <3> QED BY <2>2, <3>1 DEF DSIZE
  <2> QED BY <2>3, <2>4
<1> QED BY <1>1 DEF Covers

LEMMA CoalesceTwin ==
    ASSUME NEW h, NEW sz, NEW F, NEW bp, Loose(h, sz, F, bp), NEW g, Alike(h, g, sz, F \ {bp})
    PROVE  TwinResult(coalesce(h, bp), coalesce(g, bp))
<1>1. /\ h \in Heap /\ h.listp = Prologue /\ Tiling(sz, h.brk) /\ Tagged(h.mem, h.brk, sz, F)
      /\ F \subseteq Ordinary(sz) /\ F \subseteq DOMAIN sz /\ bp \in F
  BY DEF Loose, Shape, Frame, Ordinary
<1>2. PICK X : Like(h, g, X) /\ Covers(X, sz, h.brk, F \ {bp})
  BY DEF Alike
<1>3. Tagged(g.mem, g.brk, sz, F) /\ Tiling(sz, g.brk)
  BY <1>1, <1>2 DEF Tagged, Like, Covers
<1>4. PICK p \in DOMAIN sz : p + sz[p] = bp
  BY <1>1 DEF Tiling, Ordinary
<1> DEFINE next == bp + sz[bp]
           fp == p \in F
           fn == next \in F
           start == IF fp THEN p ELSE bp
           size == sz[bp] + (IF fp THEN sz[p] ELSE 0) + (IF fn THEN sz[next] ELSE 0)
           left(k) == IF fp THEN remove_from_free_list(k, p) ELSE k
           right(k) == IF fn THEN remove_from_free_list(left(k), next) ELSE left(k)
           joined(k) == IF fp \/ fn THEN PutTags(right(k), start, size, 0) ELSE right(k)
           Y == X \cup {start, start + WSIZE}
<1>5. /\ coalesce(h, bp) = Result(add_to_free_list(joined(h), start), start)
      /\ coalesce(g, bp) = Result(add_to_free_list(joined(g), start), start)
  <2>1. coalesce(h, bp) = Joins(h, sz, F, p, bp) /\ coalesce(g, bp) = Joins(g, sz, F, p, bp)
    BY <1>1, <1>3, <1>4, CoalesceJoins
  <2> QED BY <2>1 DEF Joins
<1>6. start \in F /\ start \in DOMAIN sz /\ start # Prologue /\ (fp => p # bp) /\ (fn => next # bp)
  <2>1. p < bp /\ bp < next /\ bp \in Nat /\ p \in Nat /\ next \in Nat
    <3>1. \A x \in DOMAIN sz : x \in Nat /\ sz[x] \in Nat /\ sz[x] >= DSIZE
      BY <1>1, BlockWords
    <3> QED BY <3>1, <1>1, <1>4 DEF DSIZE
  <2> QED BY <2>1, <1>1 DEF Ordinary
<1> HIDE DEF start, size, fn, fp, next
<1>7. Like(left(h), left(g), X) /\ SameEnds(h, left(h)) /\ HasEnds(left(h))
  <2>1. HasEnds(h) /\ SameEnds(h, h)
    BY <1>1 DEF HasEnds, SameEnds, Heap, Tiling
  <2>2. CASE fp
    <3>1. p \in X /\ p + WSIZE \in X
      BY <2>2, <1>2, <1>6 DEF Covers, Ringed, fp
    <3>2. Like(remove_from_free_list(h, p), remove_from_free_list(g, p), X)
      BY <3>1, <1>2, RemoveLike
    <3> QED BY <2>1, <2>2, <3>2, ListEnds
  <2>3. CASE ~fp
    BY <2>1, <2>3, <1>2
  <2> QED BY <2>2, <2>3
<1> HIDE DEF left
<1>8. Like(right(h), right(g), X) /\ SameEnds(left(h), right(h)) /\ HasEnds(right(h))
  <2>1. CASE fn
    <3>1. next \in X /\ next + WSIZE \in X
      BY <2>1, <1>2, <1>6 DEF Covers, Ringed, fn
    <3>2. Like(remove_from_free_list(left(h), next), remove_from_free_list(left(g), next), X)
      BY <3>1, <1>7, RemoveLike
    <3> QED BY <2>1, <3>2, <1>7, ListEnds
  <2>2. CASE ~fn
    BY <2>2, <1>7 DEF SameEnds
  <2> QED BY <2>1, <2>2
<1> HIDE DEF right
<1>9. Like(joined(h), joined(g), X) /\ SameEnds(right(h), joined(h)) /\ HasEnds(joined(h))
  <2>1. HDRP(start) \in Words
    BY <1>1, <1>6, BlockWords
  <2>2. Like(PutTags(right(h), start, size, 0), PutTags(right(g), start, size, 0), X)
    BY <2>1, <1>8, RetagLike
  <2>3. SameEnds(right(h), right(h))
    BY DEF SameEnds
  <2> QED BY <2>2, <2>3, <1>8, PutTagsEnds
<1> HIDE DEF joined
<1>10. joined(h).listp = Prologue /\ joined(h).brk = h.brk
  BY <1>1, <1>7, <1>8, <1>9 DEF SameEnds
<1> DEFINE h2 == add_to_free_list(joined(h), start)
           g2 == add_to_free_list(joined(g), start)
<1>11. Like(h2, g2, Y) /\ h2.brk = h.brk
  <2>1. start \in Words /\ start + WSIZE \in Words /\ Dummy + WSIZE \in X
    BY <1>1, <1>2, <1>6, BlockWords DEF Covers, Ringed
  <2> QED BY <2>1, <1>9, <1>10, AddLike
<1>12. PICK tz, G : Good(h2, tz, G) /\ G \subseteq (F \ {bp}) \cup {start} /\ DOMAIN tz \subseteq DOMAIN sz
  <2>1. coalesce(h, bp).heap = h2 /\ coalesce(h, bp).ptr = start
    BY <1>5 DEF Result
  <2> HIDE DEF h2
  <2>2. \E tz, G : /\ Good(coalesce(h, bp).heap, tz, G)
                   /\ G \subseteq (F \ {bp}) \cup {coalesce(h, bp).ptr} /\ DOMAIN tz \subseteq DOMAIN sz
    BY CoalesceShape
  <2> QED BY <2>1, <2>2
<1> HIDE DEF h2, g2
<1>13. Covers(Y, tz, h.brk, G)
  <2>1. Tiling(tz, h.brk)
    BY <1>11, <1>12 DEF Good, Shape, Frame
  <2>2. \A b \in Ringed(G) : b \in Y /\ b + WSIZE \in Y
    BY <1>2, <1>12 DEF Covers, Ringed
  <2>3. X \subseteq Y
    OBVIOUS
  <2> HIDE DEF Y
  <2> QED BY <2>1, <2>2, <2>3, <1>1, <1>2, <1>12, FewerCovered
<1> HIDE DEF Y
<1>14. Twin(h2, g2)
  BY <1>11, <1>12, <1>13, TwinOf DEF Alike
<1> QED BY <1>5, <1>14 DEF TwinResult, Result, h2, g2

LEMMA PlaceTwin ==
    ASSUME NEW h, NEW sz, NEW F, Good(h, sz, F), NEW g, Twin(h, g), NEW bp \in F,
           NEW asize \in Nat, asize % DSIZE = 0, asize >= 2 * DSIZE, asize <= sz[bp]
    PROVE  Twin(place(h, bp, asize), place(g, bp, asize))
<1>1. /\ h \in Heap /\ h.listp = Prologue /\ Tiling(sz, h.brk) /\ Tagged(h.mem, h.brk, sz, F)
      /\ F \subseteq Ordinary(sz) /\ F \subseteq DOMAIN sz /\ bp \in DOMAIN sz
  BY DEF Good, Shape, Frame, Ordinary
<1>2. PICK X : Like(h, g, X) /\ Covers(X, sz, h.brk, F)
  BY DEF Twin, Alike
<1>3. GET_SIZE(h, HDRP(bp)) = sz[bp] /\ GET_SIZE(g, HDRP(bp)) = sz[bp]
  <2>1. HDRP(bp) \in X
    BY <1>1, <1>2 DEF Covers
  <2>2. GET_SIZE(h, HDRP(bp)) = sz[bp]
    BY <1>1, ReadTags
  <2> QED BY <2>1, <2>2, <1>2, LikeParts
<1>4. bp \in X /\ bp + WSIZE \in X
  BY <1>2 DEF Covers, Ringed
<1>5. sz[bp] \in Nat /\ sz[bp] % DSIZE = 0 /\ HDRP(bp) \in Words /\ Foot(bp, sz[bp]) \in Words
  <2>1. sz[bp] % DSIZE = 0
    BY <1>1 DEF Tiling, BlockOK
  <2> QED BY <2>1, <1>1, BlockWords DEF Foot
<1>6. CASE sz[bp] - asize >= 2 * DSIZE
  <2> DEFINE after == bp + asize
             rest == sz[bp] - asize
             tz == Divided(sz, bp, asize)
             G == (F \ {bp}) \cup {after}
             used(x) == remove_from_free_list(PutTags(x, bp, asize, 1), bp)
             k == Cut(h, bp, asize, rest)
             j == Cut(g, bp, asize, rest)
             X1 == X \cup {HDRP(bp), Foot(bp, asize)}
             X2 == X1 \cup {HDRP(after), Foot(after, rest)}
  <2>1. /\ place(h, bp, asize) = coalesce(k, after).heap /\ NEXT_BLKP(used(h), bp) = after
        /\ Loose(k, tz, G, after) /\ k.brk = h.brk
        /\ DOMAIN tz = DOMAIN sz \cup {after} /\ tz[bp] = asize /\ tz[after] = rest
        /\ after \notin DOMAIN sz /\ \A x \in DOMAIN sz : x # bp => tz[x] = sz[x]
    <3>1. Halves(h, sz, F, bp, asize)
      BY <1>6, CutShape
    <3> QED BY <3>1 DEF Halves
  <2>2. rest \in Nat /\ rest % DSIZE = 0
    BY <1>5, <1>6, Sums8 DEF DSIZE
  <2> HIDE DEF tz, k, j, after, rest
  <2>3. Tiling(tz, h.brk)
    BY <2>1 DEF Loose, Shape, Frame
  <2>4. Foot(bp, asize) \in Words /\ HDRP(after) \in Words /\ Foot(after, rest) \in Words
    <3>1. bp + tz[bp] - DSIZE \in Words
      BY <2>1, <2>3, <1>1, BlockWords
    <3>2. HDRP(after) \in Words /\ after + tz[after] - DSIZE \in Words
      BY <2>1, <2>3, BlockWords
    <3> QED BY <3>1, <3>2, <2>1 DEF Foot
  <2>5. Like(used(h), used(g), X1)
    <3>1. Like(PutTags(h, bp, asize, 1), PutTags(g, bp, asize, 1), X1)
      BY <1>2, <1>5, <2>4, PutTagsLike
    <3> HIDE DEF X1
    <3>2. bp \in X1 /\ bp + WSIZE \in X1
      BY <1>4 DEF X1
    <3> QED BY <3>1, <3>2, RemoveLike
  <2>6. NEXT_BLKP(used(g), bp) = after
    <3>1. HDRP(bp) \in X1
      OBVIOUS
    <3> HIDE DEF X1, used
    <3>2. GET_SIZE(used(g), HDRP(bp)) = GET_SIZE(used(h), HDRP(bp))
      BY <2>5, <3>1, LikeParts
    <3> QED BY <2>1, <3>2 DEF NEXT_BLKP, HDRP
  <2>7. place(g, bp, asize) = coalesce(j, after).heap
    BY <1>3, <1>6, <2>6 DEF place, j, Cut, after, rest
  <2>8. Like(k, j, X2)
    <3>1. k = PutTags(used(h), after, rest, 0) /\ j = PutTags(used(g), after, rest, 0)
      BY DEF k, j, Cut, after
    <3> HIDE DEF used, X1
    <3>2. Like(PutTags(used(h), after, rest, 0), PutTags(used(g), after, rest, 0), X2)
      BY <2>2, <2>4, <2>5, PutTagsLike
    <3> QED BY <3>1, <3>2
  <2>9. Covers(X2, tz, h.brk, F \ {bp})
    <3>1. ASSUME NEW b \in DOMAIN tz PROVE HDRP(b) \in X2 /\ b + tz[b] - DSIZE \in X2
      <4>1. CASE b = bp
        BY <4>1, <2>1 DEF Foot
      <4>2. CASE b = after
        BY <4>2, <2>1 DEF Foot
      <4>3. CASE b \in DOMAIN sz /\ b # bp
        BY <4>3, <2>1, <1>2 DEF Covers
      <4> QED BY <4>1, <4>2, <4>3, <2>1
    <3> QED BY <3>1, <1>2 DEF Covers, Ringed
  <2>10. Alike(k, j, tz, G \ {after})
    <3>1. G \ {after} = F \ {bp}
      BY <2>1, <1>1
    <3> QED BY <3>1, <2>1, <2>8, <2>9 DEF Alike
  <2> HIDE DEF G, X2
  <2>11. TwinResult(coalesce(k, after), coalesce(j, after))
    BY <2>1, <2>10, CoalesceTwin
  <2> QED BY <2>1, <2>7, <2>11 DEF TwinResult
<1>7. CASE ~(sz[bp] - asize >= 2 * DSIZE)
  <2> DEFINE k(x) == remove_from_free_list(PutTags(x, bp, sz[bp], 1), bp)
             Y == X \cup {HDRP(bp), Foot(bp, sz[bp])}
  <2>1. place(h, bp, asize) = k(h) /\ Good(k(h), sz, F \ {bp}) /\ k(h).brk = h.brk
    <3>1. Fills(h, sz, F, bp, asize)
      BY <1>7, FillShape
    <3> QED BY <3>1 DEF Fills
  <2>2. place(g, bp, asize) = k(g)
    BY <1>3, <1>7 DEF place
  <2>3. Like(k(h), k(g), Y)
    <3>1. Like(PutTags(h, bp, sz[bp], 1), PutTags(g, bp, sz[bp], 1), Y)
      BY <1>2, <1>5, PutTagsLike
    <3> HIDE DEF Y
    <3>2. bp \in Y /\ bp + WSIZE \in Y
      BY <1>4 DEF Y
    <3> QED BY <3>1, <3>2, RemoveLike
  <2>4. Covers(Y, sz, h.brk, F \ {bp})
    BY <1>2 DEF Covers, Ringed
  <2> HIDE DEF k, Y
  <2> QED BY <2>1, <2>2, <2>3, <2>4, TwinOf DEF Alike
<1> QED BY <1>6, <1>7

(* A twin has the same blocks and the same free ones.                       *)
LEMMA TwinGood ==
    ASSUME NEW h, NEW sz, NEW F, Good(h, sz, F), NEW g \in Heap, Twin(h, g)
    PROVE  Good(g, sz, F)
<1>1. /\ h.listp = Prologue /\ Tiling(sz, h.brk) /\ Tagged(h.mem, h.brk, sz, F)
      /\ F \subseteq Ordinary(sz) /\ Ring(h.mem, F) /\ \A b \in F : b + sz[b] \notin F
  BY DEF Good, Shape, Frame
<1>2. PICK X : Like(h, g, X) /\ Covers(X, sz, h.brk, F)
  BY DEF Twin, Alike
<1>3. Tagged(g.mem, g.brk, sz, F)
  BY <1>1, <1>2 DEF Tagged, Like, Covers
<1>4. Ring(g.mem, F)
  <2>1. \A b \in Ringed(F) : g.mem[b] = h.mem[b] /\ g.mem[b + WSIZE] = h.mem[b + WSIZE]
    BY <1>2 DEF Like, Covers
  <2> QED BY <2>1, <1>1, RingFrame
<1> QED BY <1>1, <1>2, <1>3, <1>4 DEF Good, Shape, Frame, Like

LEMMA SameList ==
    ASSUME NEW h, NEW g, NEW sz, NEW L, Frame(h, sz, L), Frame(g, sz, L),
           \A b \in Ringed(L) : g.mem[b + WSIZE] = h.mem[b + WSIZE]
    PROVE  FreeList(g) = FreeList(h)
<1>1. PICK hop, j : Walks(h, L, hop, j)
  BY FreeListWalks
<1>2. PICK jump, l : Walks(g, L, jump, l)
  BY FreeListWalks
<1>3. Most \in Nat
  BY HeapAssumption DEF Most, DSIZE
<1> DEFINE T == {k \in 0 .. Most : jump[k] = hop[k]}
<1>4. 0 \in T
  BY <1>1, <1>2, <1>3 DEF Walks, Ringed
<1>5. \A k \in 0 .. Most : k \in T /\ k < Most => k + 1 \in T
  <2> SUFFICES ASSUME NEW k \in 0 .. Most, jump[k] = hop[k], k < Most PROVE jump[k + 1] = hop[k + 1]
    BY <1>3
  <2>1. k + 1 \in 1 .. Most /\ (k + 1) - 1 = k /\ k + 1 \in 0 .. Most
    BY <1>3
  <2>2. CASE hop[k] = Dummy
    <3>1. k >= j /\ k >= l /\ j \in Nat /\ l \in Nat
      BY <2>2, <1>1, <1>2, <1>3 DEF Walks
    <3>2. k + 1 >= j /\ k + 1 >= l
      BY <3>1
    <3> QED BY <2>1, <3>2, <1>1, <1>2 DEF Walks
  <2>3. CASE hop[k] # Dummy
    <3>1. hop[k] \in Ringed(L)
      BY <1>1 DEF Walks
    <3>2. hop[k + 1] = h.mem[hop[k] + WSIZE]
      BY <2>1, <2>3, <1>1 DEF Walks
    <3>3. jump[k + 1] = g.mem[jump[k] + WSIZE]
      BY <2>1, <2>3, <1>2 DEF Walks
    <3> QED BY <3>1, <3>2, <3>3
  <2> QED BY <2>2, <2>3
<1> HIDE DEF T
<1>6. 0 .. Most \subseteq T
  BY <1>3, <1>4, <1>5, BoundedInduct
<1>7. \A k \in 0 .. Most : jump[k] = hop[k]
  BY <1>6 DEF T
<1>8. l = j /\ j \in 0 .. Most + 1
  <2>1. \A k \in 0 .. Most : k >= j <=> k >= l
    BY <1>1, <1>2, <1>7 DEF Walks
  <2>2. j \in 0 .. Most + 1 /\ l \in 0 .. Most + 1
    BY <1>1, <1>2 DEF Walks
  <2>3. CASE j < l
    BY <2>1, <2>2, <2>3, <1>3
  <2>4. CASE l < j
    BY <2>1, <2>2, <2>4, <1>3
  <2> QED BY <2>2, <2>3, <2>4, <1>3
<1>9. \A i \in 1 .. j : jump[i - 1] = hop[i - 1]
  <2>1. \A i \in 1 .. j : i - 1 \in 0 .. Most
    BY <1>3, <1>8
  <2> QED BY <2>1, <1>7
<1>10. FreeList(h) = [i \in 1 .. j |-> hop[i - 1]] /\ FreeList(g) = [i \in 1 .. l |-> jump[i - 1]]
  BY <1>1, <1>2 DEF Walks
<1> QED BY <1>8, <1>9, <1>10

LEMMA FitTwin ==
    ASSUME NEW h, NEW sz, NEW F, Good(h, sz, F), NEW g \in Heap, Twin(h, g), NEW asize
    PROVE  find_fit(g, asize) = find_fit(h, asize)
<1>1. Frame(h, sz, F) /\ Frame(g, sz, F) /\ F \subseteq DOMAIN sz
  BY TwinGood DEF Good, Shape, Frame, Ordinary
<1>2. PICK X : Like(h, g, X) /\ Covers(X, sz, h.brk, F)
  BY DEF Twin, Alike
<1>3. FreeList(g) = FreeList(h)
  <2>1. \A b \in Ringed(F) : g.mem[b + WSIZE] = h.mem[b + WSIZE]
    BY <1>2 DEF Like, Covers
  <2> QED BY <2>1, <1>1, SameList
<1> DEFINE list == FreeList(h)
<1>4. \A i \in DOMAIN list : list[i] \in F
  <2>1. PICK hop, j : Walks(h, F, hop, j)
    BY <1>1, FreeListWalks
  <2> SUFFICES ASSUME NEW i \in 1 .. j PROVE list[i] \in F
    BY <2>1 DEF Walks
  <2>2. j \in 0 .. Most + 1 /\ Most \in Nat
    BY <2>1, HeapAssumption DEF Walks, Most, DSIZE
  <2>3. i - 1 \in 0 .. Most /\ ~(i - 1 >= j)
    BY <2>2
  <2>4. hop[i - 1] \in Ringed(F) /\ hop[i - 1] # Dummy /\ list[i] = hop[i - 1]
    BY <2>1, <2>3 DEF Walks
  <2> QED BY <2>4 DEF Ringed
<1> HIDE DEF list
<1>5. \A i \in DOMAIN list : GET_SIZE(g, HDRP(list[i])) = GET_SIZE(h, HDRP(list[i]))
  <2>1. \A i \in DOMAIN list : HDRP(list[i]) \in X
    BY <1>1, <1>2, <1>4 DEF Covers
  <2> QED BY <2>1, <1>2, LikeParts
<1> DEFINE fits(k) == {i \in DOMAIN list : asize <= GET_SIZE(k, HDRP(list[i]))}
<1>6. fits(g) = fits(h)
  BY <1>5
<1>7. /\ find_fit(h, asize) = IF fits(h) = {} THEN NULL ELSE list[Min(fits(h))]
      /\ find_fit(g, asize) = IF fits(g) = {} THEN NULL ELSE list[Min(fits(g))]
  BY <1>3 DEF find_fit, list
<1> HIDE DEF fits
<1> QED BY <1>6, <1>7

LEMMA ExtendTwin ==
    ASSUME NEW h, NEW sz, NEW F, Good(h, sz, F), NEW g, Twin(h, g),
           NEW size \in Nat, size % DSIZE = 0, size >= 2 * DSIZE
    PROVE  TwinResult(extend_heap(h, size \div WSIZE), extend_heap(g, size \div WSIZE))
<1> DEFINE w == size \div WSIZE
           bp == h.brk
<1>1. /\ h \in Heap /\ h.listp = Prologue /\ Tiling(sz, h.brk) /\ F \subseteq DOMAIN sz
  BY DEF Good, Shape, Frame, Ordinary
<1>2. PICK X : Like(h, g, X) /\ Covers(X, sz, h.brk, F)
  BY DEF Twin, Alike
<1>3. (w + (w % 2)) * WSIZE = size
  BY Pages
<1>4. g.brk = bp /\ (CanGrow(g, size) <=> CanGrow(h, size))
  BY <1>2 DEF Like, CanGrow
<1>5. CASE ~CanGrow(h, size)
  <2>1. extend_heap(h, w) = Result(h, NULL) /\ extend_heap(g, w) = Result(g, NULL)
    BY <1>3, <1>4, <1>5 DEF extend_heap
  <2> QED BY <2>1 DEF TwinResult, Result
<1>6. CASE CanGrow(h, size)
  <2> DEFINE tz == Grown(sz, bp, size)
             G == F \cup {bp}
             k0(x) == mem_sbrk(x, size)
             k1(x) == PutTags(k0(x), bp, size, 0)
             k2(x) == PUT(k1(x), HDRP(bp + size), PACK(0, 1))
             X1 == X \cup {HDRP(bp), Foot(bp, size)}
             X2 == X1 \cup {HDRP(bp + size)}
  <2>1. /\ extend_heap(h, w) = coalesce(k2(h), bp) /\ NEXT_BLKP(k1(h), bp) = bp + size
        /\ Loose(k2(h), tz, G, bp) /\ k2(h).brk = bp + size
        /\ DOMAIN tz = DOMAIN sz \cup {bp} /\ tz[bp] = size
        /\ \A x \in DOMAIN sz : tz[x] = sz[x]
    <3>1. Grows(h, sz, F, size)
      BY <1>6, GrowShape
    <3> QED BY <3>1 DEF Grows, Grow
  <2> HIDE DEF tz
  <2>2. Tiling(tz, bp + size)
    BY <2>1 DEF Loose, Shape, Frame
  <2>3. HDRP(bp) \in Words /\ Foot(bp, size) \in Words /\ HDRP(bp + size) \in Words /\ bp \notin F
    <3>1. bp \in DOMAIN tz
      BY <2>1
    <3>2. HDRP(bp) \in Words /\ bp + tz[bp] - DSIZE \in Words /\ HDRP(bp + size) \in Words
      BY <2>2, <3>1, BlockWords
    <3>3. bp \notin F
      <4>1. \A b \in DOMAIN sz : b \in Nat /\ sz[b] \in Nat /\ sz[b] >= DSIZE /\ b + sz[b] <= bp
        BY <1>1, BlockWords
      <4>2. bp \in Nat
        BY <1>1 DEF Tiling
      <4> QED BY <4>1, <4>2, <1>1 DEF DSIZE
    <3> QED BY <3>2, <3>3, <2>1 DEF Foot
  <2>4. Like(k0(h), k0(g), X)
    BY <1>2 DEF mem_sbrk, Like, Fields
  <2> HIDE DEF k0
  <2>5. Like(k1(h), k1(g), X1)
    BY <2>3, <2>4, PutTagsLike
  <2> HIDE DEF k1
  <2>6. Like(k2(h), k2(g), X2)
    <3> HIDE DEF X1
    <3> QED BY <2>3, <2>5, PutLike
  <2>7. extend_heap(g, w) = coalesce(k2(g), bp)
    <3>1. NEXT_BLKP(k1(g), bp) = bp + size
      <4>1. HDRP(bp) \in X1
        OBVIOUS
      <4> HIDE DEF X1
      <4>2. GET_SIZE(k1(g), HDRP(bp)) = GET_SIZE(k1(h), HDRP(bp))
        BY <2>5, <4>1, LikeParts
      <4> QED BY <2>1, <4>2 DEF NEXT_BLKP, HDRP
    <3> QED BY <3>1, <1>3, <1>4, <1>6 DEF extend_heap, k0, k1
  <2> HIDE DEF k2
  <2>8. Covers(X2, tz, bp + size, F)
    <3>1. ASSUME NEW b \in DOMAIN tz PROVE HDRP(b) \in X2 /\ b + tz[b] - DSIZE \in X2
      <4>1. CASE b = bp
        BY <4>1, <2>1 DEF Foot
      <4>2. CASE b \in DOMAIN sz
        BY <4>2, <2>1, <1>2 DEF Covers
      <4> QED BY <4>1, <4>2, <2>1
    <3> QED BY <3>1, <1>2 DEF Covers
  <2>9. Alike(k2(h), k2(g), tz, G \ {bp})
    <3>1. G \ {bp} = F
      BY <2>3
    <3> QED BY <3>1, <2>1, <2>6, <2>8 DEF Alike
  <2> HIDE DEF G, X2, bp
  <2>10. TwinResult(coalesce(k2(h), bp), coalesce(k2(g), bp))
    BY <2>1, <2>9, CoalesceTwin
  <2> QED BY <2>1, <2>7, <2>10
<1> QED BY <1>5, <1>6

(* Whatever was in the memory before mm_init.                               *)
LEMMA InitTwin ==
    ASSUME NEW h \in Heap, h.brk = 0, NEW g \in Heap, g.brk = 0
    PROVE  TwinResult(mm_init(h), mm_init(g))
<1>1. PICK k : Base(h, k)
  BY BaseShape
<1>2. PICK j : Base(g, j)
  BY BaseShape
<1> DEFINE X == {a \in Words : j.mem[a] = k.mem[a]}
           sz == BaseSizes
<1>3. /\ Good(k, sz, {}) /\ k.brk = 8 * WSIZE /\ mm_init(h) = extend_heap(k, CHUNKSIZE \div WSIZE)
      /\ j.brk = 8 * WSIZE /\ mm_init(g) = extend_heap(j, CHUNKSIZE \div WSIZE)
      /\ k.mem[Dummy] = j.mem[Dummy] /\ k.mem[Dummy + WSIZE] = j.mem[Dummy + WSIZE]
  BY <1>1, <1>2 DEF Base
<1>4. /\ k \in Heap /\ k.listp = Prologue /\ Tiling(sz, k.brk) /\ Tagged(k.mem, k.brk, sz, {})
      /\ j \in Heap /\ j.listp = Prologue /\ Tagged(j.mem, j.brk, sz, {})
  BY <1>1, <1>2 DEF Base, Good, Shape, Frame
<1> HIDE DEF sz
<1>5. Like(k, j, X)
  BY <1>3, <1>4, HeapFields DEF Like
<1>6. Covers(X, sz, k.brk, {})
  <2>1. ASSUME NEW b \in DOMAIN sz PROVE HDRP(b) \in X /\ b + sz[b] - DSIZE \in X
    <3>1. HDRP(b) \in Words /\ b + sz[b] - DSIZE \in Words
      BY <1>4, BlockWords
    <3> QED BY <3>1, <1>4 DEF Tagged
  <2>2. Dummy \in DOMAIN sz /\ Dummy # Prologue
    BY <1>4 DEF Tiling, Dummy, Prologue, WSIZE
  <2>3. HDRP(k.brk) \in Words /\ Dummy \in Words /\ Dummy + WSIZE \in Words
    BY <2>2, <1>4, BlockWords
  <2>4. k.mem[HDRP(k.brk)] = j.mem[HDRP(k.brk)]
    BY <1>3, <1>4 DEF Tagged
  <2> QED BY <2>1, <2>3, <2>4, <1>3 DEF Covers, Ringed
<1>7. Twin(k, j)
  BY <1>3, <1>5, <1>6, TwinOf DEF Alike
<1>8. CHUNKSIZE \in Nat /\ CHUNKSIZE % DSIZE = 0 /\ CHUNKSIZE >= 2 * DSIZE
  BY HeapAssumption
<1> QED BY <1>3, <1>7, <1>8, ExtendTwin

LEMMA AllocateTwin ==
    ASSUME NEW h, NEW sz, NEW F, Good(h, sz, F), NEW g \in Heap, Twin(h, g),
           NEW asize \in Nat, asize % DSIZE = 0, asize >= 2 * DSIZE
    PROVE  TwinResult(Allocate(h, asize), Allocate(g, asize))
<1> DEFINE fit == find_fit(h, asize)
           extendsize == IF asize > CHUNKSIZE THEN asize ELSE CHUNKSIZE
           more(x) == extend_heap(x, extendsize \div WSIZE)
<1>1. find_fit(g, asize) = fit
  BY FitTwin
<1>2. CASE fit # NULL
  <2>1. fit \in F /\ asize <= sz[fit]
    BY <1>2, FindFit DEF Good
  <2>2. /\ Allocate(h, asize) = Result(place(h, fit, asize), fit)
        /\ Allocate(g, asize) = Result(place(g, fit, asize), fit)
    BY <1>1, <1>2 DEF Allocate
  <2> HIDE DEF fit
  <2>3. Twin(place(h, fit, asize), place(g, fit, asize))
    BY <2>1, PlaceTwin
  <2> QED BY <2>2, <2>3 DEF TwinResult, Result
<1>3. CASE fit = NULL
  <2>1. /\ Allocate(h, asize) = PlaceNew(h, more(h), asize)
        /\ Allocate(g, asize) = PlaceNew(g, more(g), asize)
    BY <1>1, <1>3 DEF Allocate
  <2>2. /\ extendsize \in Nat /\ extendsize % DSIZE = 0 /\ extendsize >= 2 * DSIZE
        /\ extendsize >= asize
    BY HeapAssumption DEF DSIZE
  <2> HIDE DEF extendsize
  <2>3. IF ~CanGrow(h, extendsize) THEN more(h) = Result(h, NULL)
        ELSE \E tz, G : /\ Good(more(h).heap, tz, G) /\ more(h).ptr \in G
                        /\ tz[more(h).ptr] >= extendsize
                        /\ SameAllocated(h, more(h).heap, sz, F, tz, G)
    BY <2>2, ExtendShape
  <2>4. TwinResult(more(h), more(g))
    BY <2>2, ExtendTwin
  <2> HIDE DEF more
  <2>5. CASE more(h).ptr = NULL
    <3>1. Allocate(h, asize) = Result(h, NULL) /\ Allocate(g, asize) = Result(g, NULL)
      BY <2>1, <2>4, <2>5 DEF PlaceNew, TwinResult
    <3> QED BY <3>1 DEF TwinResult, Result
  <2>6. CASE more(h).ptr # NULL
    <3>1. CanGrow(h, extendsize)
      BY <2>3, <2>6 DEF Result
    <3>2. PICK tz, G : Good(more(h).heap, tz, G) /\ more(h).ptr \in G /\ tz[more(h).ptr] >= extendsize
      BY <2>3, <3>1
    <3>3. asize <= tz[more(h).ptr]
      <4>1. more(h).ptr \in DOMAIN tz /\ Tiling(tz, more(h).heap.brk)
        BY <3>2 DEF Good, Shape, Frame, Ordinary
      <4>2. tz[more(h).ptr] \in Nat
        BY <4>1, BlockWords
      <4> QED BY <4>2, <2>2, <3>2
    <3>4. Twin(place(more(h).heap, more(h).ptr, asize), place(more(g).heap, more(h).ptr, asize))
      BY <2>4, <3>2, <3>3, PlaceTwin DEF TwinResult
    <3>5. /\ Allocate(h, asize) = Result(place(more(h).heap, more(h).ptr, asize), more(h).ptr)
          /\ Allocate(g, asize) = Result(place(more(g).heap, more(h).ptr, asize), more(h).ptr)
      BY <2>1, <2>4, <2>6 DEF PlaceNew, TwinResult
    <3> QED BY <3>4, <3>5 DEF TwinResult, Result
  <2> QED BY <2>5, <2>6
<1> QED BY <1>2, <1>3

LEMMA TwinListp ==
    ASSUME NEW h, NEW sz, NEW F, Good(h, sz, F), NEW g, Twin(h, g)
    PROVE  g.listp = Prologue /\ Initialised(g) = g /\ g.brk = h.brk
BY DEF Twin, Alike, Like, Good, Shape, Frame, Initialised, Prologue, WSIZE, NULL

LEMMA MallocTwin ==
    ASSUME NEW h, NEW sz, NEW F, Good(h, sz, F), NEW g \in Heap, Twin(h, g),
           NEW size, Asked(size)
    PROVE  TwinResult(mm_malloc(h, size), mm_malloc(g, size))
<1> DEFINE asize == AdjustedSize(size)
<1>1. mm_malloc(h, size) = Allocate(h, asize) /\ mm_malloc(g, size) = Allocate(g, asize)
  BY GoodListp, TwinListp DEF mm_malloc, Asked
<1>2. asize \in Nat /\ asize % DSIZE = 0 /\ asize >= 2 * DSIZE
  BY Adjusted
<1> HIDE DEF asize
<1> QED BY <1>1, <1>2, AllocateTwin

LEMMA FreeTwin ==
    ASSUME NEW h, NEW sz, NEW F, Good(h, sz, F), NEW g, Twin(h, g),
           NEW bp \in Allocated(sz, F) \ {Prologue, Dummy}
    PROVE  Twin(mm_free(h, bp), mm_free(g, bp))
<1> DEFINE k(x) == PutTags(x, bp, sz[bp], 0)
           G == F \cup {bp}
<1>1. Tiling(sz, h.brk) /\ Tagged(h.mem, h.brk, sz, F) /\ bp \in DOMAIN sz /\ bp \notin F
  BY DEF Good, Shape, Frame, Allocated
<1>2. PICK X : Like(h, g, X) /\ Covers(X, sz, h.brk, F)
  BY DEF Twin, Alike
<1>3. /\ mm_free(h, bp) = coalesce(k(h), bp).heap /\ Loose(k(h), sz, G, bp)
      /\ k(h).brk = h.brk /\ bp # NULL
  BY FreeShape
<1>4. mm_free(g, bp) = coalesce(k(g), bp).heap
  <2>1. HDRP(bp) \in X
    BY <1>1, <1>2 DEF Covers
  <2>2. GET_SIZE(g, HDRP(bp)) = sz[bp]
    BY <2>1, <1>1, <1>2, LikeParts, ReadTags
  <2> QED BY <2>2, <1>3, TwinListp DEF mm_free
<1>5. Like(k(h), k(g), X)
  <2>1. HDRP(bp) \in Words
    BY <1>1, BlockWords
  <2> QED BY <2>1, <1>2, RetagLike
<1>6. Alike(k(h), k(g), sz, G \ {bp})
  <2>1. G \ {bp} = F
    BY <1>1
  <2> QED BY <2>1, <1>2, <1>3, <1>5 DEF Alike
<1> HIDE DEF k, G
<1>7. TwinResult(coalesce(k(h), bp), coalesce(k(g), bp))
  BY <1>3, <1>6, CoalesceTwin
<1> QED BY <1>3, <1>4, <1>7 DEF TwinResult

(* No tag and no pointer is in the data of an allocated block.              *)
LEMMA CoversApart ==
    ASSUME NEW h, NEW sz, NEW F, Good(h, sz, F), NEW to \in Allocated(sz, F) \ {Prologue, Dummy},
           NEW X, Covers(X, sz, h.brk, F)
    PROVE  Covers(X \ Payload(sz, to), sz, h.brk, F)
<1>1. Tiling(sz, h.brk) /\ F \subseteq Ordinary(sz) /\ to \in DOMAIN sz /\ to \notin F
  BY DEF Good, Shape, Frame, Allocated
<1>2. ASSUME NEW b \in DOMAIN sz
      PROVE  HDRP(b) \notin Payload(sz, to) /\ b + sz[b] - DSIZE \notin Payload(sz, to)
  BY <1>1, DataApart
<1>3. HDRP(h.brk) \notin Payload(sz, to)
  BY <1>1, DataApart
<1>4. ASSUME NEW b \in Ringed(F)
      PROVE  b \notin Payload(sz, to) /\ b + WSIZE \notin Payload(sz, to)
  <2>1. b \in DOMAIN sz /\ b # Prologue /\ b # to
    BY <1>1 DEF Ringed, Ordinary, Tiling, Prologue, Dummy, WSIZE
  <2> QED BY <2>1, <1>1, DataApart
<1> QED BY <1>2, <1>3, <1>4 DEF Covers

(* The header of a block of the tiling holds its size.                      *)
LEMMA ReadSize ==
    ASSUME NEW h, NEW sz, NEW F, Tiling(sz, h.brk), Tagged(h.mem, h.brk, sz, F),
           NEW b \in DOMAIN sz
    PROVE  GET_SIZE(h, HDRP(b)) = sz[b]
  BY ReadTags

(* The words that a copy of at most size bytes writes.                      *)
LEMMA InPayload ==
    ASSUME NEW sz, NEW brk, Tiling(sz, brk), NEW to \in DOMAIN sz,
           NEW size \in Nat, size + DSIZE <= sz[to], NEW a \in Words, a \in to .. to + size - 1
    PROVE  a \in Payload(sz, to)
<1>1. a \in Nat /\ to \in Nat /\ sz[to] \in Nat
  BY WordNat, BlockWords
<1> QED BY <1>1 DEF Payload, DSIZE

LEMMA CopyTwin ==
    ASSUME NEW h, NEW sz, NEW F, Good(h, sz, F), NEW g, Twin(h, g),
           NEW to \in Allocated(sz, F) \ {Prologue, Dummy}, NEW from \in DOMAIN sz,
           NEW size \in Nat, size + DSIZE <= sz[to], size <= sz[from]
    PROVE  Twin(memcpy(h, to, from, size), memcpy(g, to, from, size))
<1> DEFINE k(x) == memcpy(x, to, from, size)
           Y(X) == X \ Payload(sz, to)
<1>1. Tiling(sz, h.brk) /\ to \in DOMAIN sz
  BY DEF Good, Shape, Frame, Allocated
<1>2. PICK X : Like(h, g, X) /\ Covers(X, sz, h.brk, F)
  BY DEF Twin, Alike
<1>3. Good(k(h), sz, F) /\ k(h).brk = h.brk
  <2>1. Copied(h, k(h), sz, F, to, from, size)
    BY CopyShape
  <2> QED BY <2>1, <1>2 DEF Copied, memcpy, Like, Fields
<1>4. Like(k(h), k(g), Y(X))
  <2>1. \A a \in Y(X) : a \in Words /\ a \notin to .. to + size - 1
    BY <1>1, <1>2, InPayload DEF Like
  <2>2. \A a \in Y(X) : k(g).mem[a] = g.mem[a] /\ k(h).mem[a] = h.mem[a]
    BY <2>1, <1>2 DEF memcpy, Like, Fields
  <2> QED BY <2>2, <1>2 DEF Like, Fields, memcpy
<1>5. Covers(Y(X), sz, h.brk, F)
  BY <1>2, CoversApart
<1> HIDE DEF k, Y
<1>6. Twin(k(h), k(g))
  BY <1>3, <1>4, <1>5, TwinOf DEF Alike
<1> QED BY <1>6 DEF k

LEMMA ReallocTwin ==
    ASSUME NEW h, NEW sz, NEW F, Good(h, sz, F), NEW g \in Heap, Twin(h, g),
           NEW size, Asked(size), NEW ptr \in Allocated(sz, F) \ {Prologue, Dummy}
    PROVE  TwinResult(mm_realloc(h, ptr, size), mm_realloc(g, ptr, size))
<1> DEFINE new(x) == mm_malloc(x, size)
<1>1. Tiling(sz, h.brk) /\ ptr \in DOMAIN sz /\ ptr \in Nat /\ ptr # NULL /\ sz[ptr] \in Nat
  <2>1. Tiling(sz, h.brk) /\ ptr \in DOMAIN sz
    BY DEF Good, Shape, Frame, Allocated
  <2> QED BY <2>1, BlockWords DEF Prologue, NULL, WSIZE
<1>2. \A x : mm_realloc(x, ptr, size) = Move(new(x), ptr, size)
  BY <1>1 DEF mm_realloc, Asked
<1>3. Answers(h, new(h), sz, F, size + DSIZE) /\ TwinResult(new(h), new(g))
  BY MallocAnswers, MallocTwin
<1> HIDE DEF new
<1>4. CASE new(h).ptr = NULL
  <2>1. Move(new(h), ptr, size) = new(h) /\ Move(new(g), ptr, size) = new(g)
    BY <1>3, <1>4 DEF Move, TwinResult
  <2> QED BY <1>2, <1>3, <2>1
<1>5. CASE new(h).ptr # NULL
  <2> DEFINE to == new(h).ptr
             kept == Kept(new(h).heap, ptr, size)
             k(x) == memcpy(new(x).heap, to, ptr, kept)
  <2>1. PICK tz, G :
        /\ Good(new(h).heap, tz, G)
        /\ \A x \in Allocated(sz, F) : tz[x] = sz[x]
        /\ Allocated(tz, G) = Allocated(sz, F) \cup {to}
        /\ to \notin Allocated(sz, F) /\ tz[to] >= size + DSIZE
    BY <1>3, <1>5 DEF Answers
  <2>2. /\ Tiling(tz, new(h).heap.brk) /\ Tagged(new(h).heap.mem, new(h).heap.brk, tz, G)
        /\ {Prologue, Dummy} \subseteq Allocated(sz, F)
        /\ to \in DOMAIN tz /\ ptr \in DOMAIN tz
        /\ to \in Allocated(tz, G) \ {Prologue, Dummy}
        /\ ptr \in Allocated(tz, G) \ {Prologue, Dummy} /\ tz[ptr] = sz[ptr]
    <3>1. {Prologue, Dummy} \subseteq Allocated(sz, F)
      BY DEF Good, Shape, Frame, Tiling, Ordinary, Allocated
    <3> QED BY <3>1, <2>1 DEF Good, Shape, Frame, Allocated
  <2>3. GET_SIZE(new(h).heap, HDRP(ptr)) = sz[ptr] /\ GET_SIZE(new(g).heap, HDRP(ptr)) = sz[ptr]
    <3>1. GET_SIZE(new(h).heap, HDRP(ptr)) = tz[ptr]
      <4> HIDE DEF kept, to, k
      <4> QED BY <2>2, ReadSize
    <3>2. PICK X : Like(new(h).heap, new(g).heap, X) /\ Covers(X, tz, new(h).heap.brk, G)
      BY <1>3, <2>1 DEF TwinResult, Twin, Alike
    <3>3. HDRP(ptr) \in X
      BY <2>2, <3>2 DEF Covers
    <3> QED BY <2>2, <3>1, <3>2, <3>3, LikeParts
  <2>4. kept = (IF size < sz[ptr] THEN size ELSE sz[ptr]) /\ Kept(new(g).heap, ptr, size) = kept
    BY <2>3 DEF Kept
  <2>5. kept \in Nat /\ kept <= tz[ptr] /\ kept + DSIZE <= tz[to]
    <3>1. tz[to] \in Nat /\ size \in Nat
      BY <2>2, BlockWords DEF Asked
    <3> QED BY <1>1, <2>1, <2>2, <2>4, <3>1 DEF DSIZE
  <2>6. /\ Move(new(h), ptr, size) = Result(mm_free(k(h), ptr), to)
        /\ Move(new(g), ptr, size) = Result(mm_free(k(g), ptr), to)
    BY <1>3, <1>5, <2>4 DEF Move, Copy, TwinResult
  <2> HIDE DEF kept, to
  <2>7. Twin(k(h), k(g))
    <3>1. Twin(new(h).heap, new(g).heap)
      BY <1>3 DEF TwinResult
    <3> QED BY <3>1, <2>1, <2>2, <2>5, CopyTwin
  <2>8. Good(k(h), tz, G)
    <3>1. Copied(new(h).heap, k(h), tz, G, to, ptr, kept)
      BY <2>1, <2>2, <2>5, CopyShape
    <3> QED BY <3>1 DEF Copied
  <2> HIDE DEF k
  <2>9. Twin(mm_free(k(h), ptr), mm_free(k(g), ptr))
    BY <2>2, <2>7, <2>8, FreeTwin
  <2> QED BY <1>2, <2>6, <2>9 DEF TwinResult, Result
<1> QED BY <1>4, <1>5
=============================================================================
