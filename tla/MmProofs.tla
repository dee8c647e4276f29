------------------------------ MODULE MmProofs ------------------------------
(***************************************************************************)
(* The allocator under its driver, for every trace: the heap is well formed *)
(* and its allocated blocks are the client's, with the client's data, after *)
(* each request of each pass.                                               *)
(***************************************************************************)
EXTENDS Mdriver, MmHeapProofs

None == [j \in Ids |-> NoBlock]
LiveOf(bl) == {j \in Ids : bl[j] # NoBlock}
Blocks == [Ids -> [ptr : Nat, size : Sizes \cup {0}]]

(* Each live block is an allocated block of its own with room for its data, *)
(* and there are no others but the prologue and the dummy.                  *)
Serves(h, bl, sz, F) ==
    /\ Good(h, sz, F) /\ bl \in Blocks
    /\ Allocated(sz, F) = {Prologue, Dummy} \cup {bl[j].ptr : j \in LiveOf(bl)}
    /\ \A j \in LiveOf(bl) : /\ bl[j].ptr \notin {Prologue, Dummy} /\ bl[j].size \in Sizes
                             /\ bl[j].size + DSIZE <= sz[bl[j].ptr]
    /\ \A j, k \in LiveOf(bl) : bl[j].ptr = bl[k].ptr => j = k
Serving(h, bl) == \E sz, F : Serves(h, bl, sz, F)

(* Before mm_init there is no block.                                        *)
Ready(h, bl) ==
    Serving(h, bl) \/ (h \in Heap /\ h.listp = NULL /\ h.brk = 0 /\ bl = None)

(* The block of j is full of the value that its client has written.         *)
Holds(h, b, j) == \A a \in Words \cap Extent(b) : h.mem[a] = j
Filled(h, bl) == \A j \in LiveOf(bl) : Holds(h, bl[j], j)

LEMMA SizesAsked ==
    ASSUME NEW s \in Sizes
    PROVE  Asked(s) /\ s \in Nat /\ s > 0 /\ s % WSIZE = 0
BY SizesAssumption DEF Asked

(* The data of a live block is in the payload of an allocated one.          *)
LEMMA LiveBlocks ==
    ASSUME NEW h, NEW bl, NEW sz, NEW F, Serves(h, bl, sz, F), NEW j \in LiveOf(bl)
    PROVE  /\ Good(h, sz, F) /\ bl[j].ptr \in Allocated(sz, F) \ {Prologue, Dummy}
           /\ bl[j].ptr \in Nat /\ bl[j].ptr # NULL /\ bl[j].ptr % DSIZE = 0
           /\ bl[j].size \in Nat /\ bl[j].size > 0
           /\ bl[j].ptr + bl[j].size <= h.brk /\ h.brk \in Nat /\ h.brk <= MAX_HEAP
           /\ Words \cap Extent(bl[j]) \subseteq Payload(sz, bl[j].ptr)
<1> DEFINE p == bl[j].ptr
           s == bl[j].size
<1>1. /\ p \in Allocated(sz, F) \ {Prologue, Dummy} /\ p \in DOMAIN sz /\ s \in Sizes
      /\ s + DSIZE <= sz[p] /\ Tiling(sz, h.brk)
  BY DEF Serves, Good, Shape, Frame, Allocated
<1>2. s \in Nat /\ s > 0
  BY <1>1, SizesAsked
<1>3. /\ p \in Nat /\ sz[p] \in Nat /\ p % DSIZE = 0 /\ p >= Prologue /\ p + sz[p] <= h.brk
      /\ h.brk \in Nat /\ h.brk <= MAX_HEAP
  BY <1>1, BlockWords DEF Tiling
<1> HIDE DEF p, s
<1>4. p + s <= h.brk /\ p # NULL
  BY <1>1, <1>2, <1>3, HeapAssumption DEF Prologue, NULL, WSIZE, DSIZE
<1>5. ASSUME NEW a \in Words, a \in p .. p + s - 1
      PROVE  a \in Payload(sz, p)
  <2>1. a \in Nat /\ p <= a /\ a < p + s
    BY <1>2, <1>3, <1>5, WordNat
  <2>2. a < p + sz[p] - DSIZE
    BY <1>1, <1>2, <1>3, <2>1 DEF DSIZE
  <2> QED BY <2>1, <2>2 DEF Payload
<1>6. Good(h, sz, F)
  BY DEF Serves
<1> QED BY <1>1, <1>2, <1>3, <1>4, <1>5, <1>6 DEF p, s, Extent

(* What is left alone in the payloads is left alone in the clients' data.   *)
LEMMA HoldsStill ==
    ASSUME NEW h, NEW g, NEW bl, NEW sz, NEW F, Serves(h, bl, sz, F), NEW j \in LiveOf(bl),
           Holds(h, bl[j], j), NEW X, bl[j].ptr \in X, Untouched(h, g, sz, X)
    PROVE  Holds(g, bl[j], j)
<1>1. Words \cap Extent(bl[j]) \subseteq Payload(sz, bl[j].ptr)
  BY LiveBlocks
<1> QED BY <1>1 DEF Holds, Untouched

(* What add_range looks for is never there: a live block is aligned, inside *)
(* the heap, and apart from the others.                                     *)
LEMMA LiveApart ==
    ASSUME NEW h, NEW bl, Serving(h, bl), NEW j \in LiveOf(bl)
    PROVE  /\ bl[j].ptr \in Nat /\ bl[j].ptr % DSIZE = 0 /\ bl[j].ptr # NULL
           /\ bl[j].size \in Nat /\ bl[j].size > 0
           /\ bl[j].ptr + bl[j].size <= h.brk /\ h.brk \in Nat /\ h.brk <= MAX_HEAP
           /\ \A k \in LiveOf(bl) \ {j} : Extent(bl[j]) \cap Extent(bl[k]) = {}
<1>1. PICK sz, F : Serves(h, bl, sz, F)
  BY DEF Serving
<1>2. ASSUME NEW k \in LiveOf(bl) \ {j}
      PROVE  Extent(bl[j]) \cap Extent(bl[k]) = {}
  <2> DEFINE p == bl[j].ptr
             q == bl[k].ptr
  <2>1. /\ p \in DOMAIN sz /\ q \in DOMAIN sz /\ p # q
        /\ bl[j].size + DSIZE <= sz[p] /\ bl[k].size + DSIZE <= sz[q]
        /\ \A x, y \in DOMAIN sz : x < y => x + sz[x] <= y
        /\ Tiling(sz, h.brk)
    BY <1>1 DEF Serves, Good, Shape, Frame, Allocated, Tiling, Apart
  <2>2. /\ p \in Nat /\ q \in Nat /\ sz[p] \in Nat /\ sz[q] \in Nat
        /\ bl[j].size \in Nat /\ bl[k].size \in Nat
    BY <1>1, <2>1, BlockWords, LiveBlocks
  <2> HIDE DEF p, q
  <2>3. p < q \/ q < p
    BY <2>1, <2>2
  <2>4. p + bl[j].size <= q \/ q + bl[k].size <= p
    BY <2>1, <2>2, <2>3 DEF DSIZE
  <2>5. (p .. p + bl[j].size - 1) \cap (q .. q + bl[k].size - 1) = {}
    BY <2>2, <2>4
  <2> QED BY <2>5 DEF p, q, Extent
<1> QED BY <1>1, <1>2, LiveBlocks

-----------------------------------------------------------------------------
(* What each function does to the clients' blocks.                          *)

Put(bl, j, p, s) == [bl EXCEPT ![j] = [ptr |-> p, size |-> s]]

(* Index j's block, if it had one, makes way for a new one.                 *)
Replaces(bl, j, sz, F, tz, G, p, s) ==
    /\ p # NULL /\ p \notin Allocated(sz, F) /\ tz[p] >= s + DSIZE
    /\ Allocated(tz, G) = (Allocated(sz, F) \ {bl[j].ptr}) \cup {p}
    /\ \A x \in Allocated(sz, F) \ {bl[j].ptr} : tz[x] = sz[x]
Newly(g, bl, j, p, s) ==
    Serving(g, Put(bl, j, p, s)) /\ LiveOf(Put(bl, j, p, s)) = LiveOf(bl) \cup {j}

LEMMA NewBlock ==
    ASSUME NEW h, NEW bl, NEW sz, NEW F, Serves(h, bl, sz, F), NEW j \in Ids, NEW s \in Sizes,
           NEW g, NEW p, NEW tz, NEW G, Good(g, tz, G), Replaces(bl, j, sz, F, tz, G, p, s)
    PROVE  Newly(g, bl, j, p, s)
<1> USE DEF Replaces
<1> DEFINE cl == Put(bl, j, p, s)
<1>1. p \in DOMAIN tz /\ Tiling(tz, g.brk) /\ s \in Nat /\ s > 0 /\ bl \in Blocks
  BY SizesAsked DEF Allocated, Good, Shape, Frame, Serves
<1>2. p \in Nat /\ tz[p] \in Nat
  BY <1>1, BlockWords
<1>3. /\ cl[j] = [ptr |-> p, size |-> s] /\ cl[j].ptr = p /\ cl[j].size = s
      /\ \A k \in Ids \ {j} : cl[k] = bl[k]
  BY <1>1 DEF Put, Blocks
<1>4. cl \in Blocks
  BY <1>1, <1>2 DEF Put, Blocks
<1> HIDE DEF cl
<1>5. cl[j] # NoBlock
  BY <1>1, <1>3 DEF NoBlock
<1>6. LiveOf(cl) = LiveOf(bl) \cup {j}
  BY <1>3, <1>5 DEF LiveOf
<1>7. /\ {Prologue, Dummy} \subseteq Allocated(sz, F)
      /\ \A k \in LiveOf(bl) : bl[k].ptr \in Allocated(sz, F) \ {Prologue, Dummy}
      /\ \A k, l \in LiveOf(bl) : bl[k].ptr = bl[l].ptr => k = l
      /\ \A k \in LiveOf(bl) : bl[k].size \in Sizes /\ bl[k].size + DSIZE <= sz[bl[k].ptr]
      /\ Allocated(sz, F) = {Prologue, Dummy} \cup {bl[k].ptr : k \in LiveOf(bl)}
  BY DEF Serves
<1>8. bl[j].ptr \notin {Prologue, Dummy}
  <2>1. CASE j \in LiveOf(bl)
    BY <2>1, <1>7
  <2>2. CASE j \notin LiveOf(bl)
    <3>1. bl[j].ptr = NULL
      BY <2>2 DEF LiveOf, NoBlock
    <3> QED BY <3>1 DEF Prologue, Dummy, WSIZE, NULL
  <2> QED BY <2>1, <2>2
<1>9. \A k \in LiveOf(bl) \ {j} : bl[k].ptr # bl[j].ptr
  <2> SUFFICES ASSUME NEW k \in LiveOf(bl) \ {j}, bl[k].ptr = bl[j].ptr PROVE FALSE
    OBVIOUS
  <2>1. j \notin LiveOf(bl)
    BY <1>7
  <2>2. bl[j].ptr = NULL
    BY <2>1 DEF LiveOf, NoBlock
  <2> QED BY <2>2, LiveBlocks
<1>10. /\ \A k \in LiveOf(bl) \ {j} : /\ cl[k] = bl[k] /\ bl[k].ptr \in Allocated(sz, F) \ {bl[j].ptr}
                                      /\ bl[k].ptr # p
       /\ LiveOf(bl) \subseteq Ids
  BY <1>3, <1>7, <1>9 DEF LiveOf
<1>11. Allocated(tz, G) = {Prologue, Dummy} \cup {cl[k].ptr : k \in LiveOf(cl)}
  <2>1. {cl[k].ptr : k \in LiveOf(cl)} = {bl[k].ptr : k \in LiveOf(bl) \ {j}} \cup {p}
    BY <1>3, <1>6, <1>10
  <2>2. {bl[k].ptr : k \in LiveOf(bl)} \ {bl[j].ptr} = {bl[k].ptr : k \in LiveOf(bl) \ {j}}
    BY <1>9
  <2> QED BY <2>1, <2>2, <1>7, <1>8
<1>12. \A k \in LiveOf(cl) : /\ cl[k].ptr \notin {Prologue, Dummy} /\ cl[k].size \in Sizes
                             /\ cl[k].size + DSIZE <= tz[cl[k].ptr]
  <2> SUFFICES ASSUME NEW k \in LiveOf(cl)
               PROVE  /\ cl[k].ptr \notin {Prologue, Dummy} /\ cl[k].size \in Sizes
                      /\ cl[k].size + DSIZE <= tz[cl[k].ptr]
    OBVIOUS
  <2>1. CASE k = j
    <3>1. s + DSIZE <= tz[p]
      BY <1>1, <1>2 DEF DSIZE
    <3> QED BY <2>1, <3>1, <1>3, <1>7
  <2>2. CASE k # j
    <3>1. k \in LiveOf(bl) \ {j}
      BY <2>2, <1>6
    <3> QED BY <3>1, <1>7, <1>10
  <2> QED BY <2>1, <2>2
<1>13. \A k, l \in LiveOf(cl) : cl[k].ptr = cl[l].ptr => k = l
  BY <1>3, <1>6, <1>7, <1>10
<1>14. Serves(g, cl, tz, G)
  BY <1>4, <1>11, <1>12, <1>13 DEF Serves
<1> QED BY <1>6, <1>14 DEF Serving, Newly, cl

(* The answer to a request of index j for s bytes: NULL, or a block of its  *)
(* own.  The other clients' data stays, and the beginning of j's own.       *)
Answering(h, r, bl, j, s) ==
    /\ Serving(r.heap, IF r.ptr = NULL THEN bl ELSE Put(bl, j, r.ptr, s))
    /\ r.ptr # NULL => LiveOf(Put(bl, j, r.ptr, s)) = LiveOf(bl) \cup {j}
    /\ \A k \in LiveOf(bl) \ {j} : Holds(h, bl[k], k) => Holds(r.heap, bl[k], k)
    /\ j \in LiveOf(bl) /\ Holds(h, bl[j], j) =>
         IF r.ptr = NULL THEN Holds(r.heap, bl[j], j)
         ELSE \A a \in Words : /\ a \in Nat /\ r.ptr <= a
                               /\ a < r.ptr + s /\ a < r.ptr + bl[j].size
                               => r.heap.mem[a] = j

LEMMA MallocAnswering ==
    ASSUME NEW h, NEW bl, Serving(h, bl), NEW j \in Ids \ LiveOf(bl), NEW s \in Sizes
    PROVE  Answering(h, mm_malloc(h, s), bl, j, s)
<1> DEFINE r == mm_malloc(h, s)
<1>1. PICK sz, F : Serves(h, bl, sz, F)
  BY DEF Serving
<1>2. Good(h, sz, F) /\ Asked(s)
  BY <1>1, SizesAsked DEF Serves
<1>3. Answers(h, r, sz, F, s + DSIZE)
  BY <1>2, MallocAnswers
<1> HIDE DEF r
<1>4. PICK tz, G :
      /\ Good(r.heap, tz, G)
      /\ \A x \in Allocated(sz, F) : tz[x] = sz[x]
      /\ Untouched(h, r.heap, sz, Allocated(sz, F) \ {Dummy})
      /\ IF r.ptr = NULL THEN Allocated(tz, G) = Allocated(sz, F)
         ELSE /\ Allocated(tz, G) = Allocated(sz, F) \cup {r.ptr}
              /\ r.ptr \notin Allocated(sz, F) /\ tz[r.ptr] >= s + DSIZE
  BY <1>3 DEF Answers
<1>5. bl[j].ptr = NULL /\ j \in Ids
  BY DEF LiveOf, NoBlock
<1>6. NULL \notin Allocated(sz, F)
  <2>1. Tiling(sz, h.brk) /\ Allocated(sz, F) \subseteq DOMAIN sz
    BY <1>2 DEF Good, Shape, Frame, Allocated
  <2> QED BY <2>1, BlockWords DEF NULL, Prologue, WSIZE
<1>7. ASSUME NEW k \in LiveOf(bl), Holds(h, bl[k], k) PROVE Holds(r.heap, bl[k], k)
  <2>1. bl[k].ptr \in Allocated(sz, F) \ {Dummy}
    BY <1>1 DEF Serves
  <2> QED BY <2>1, <1>1, <1>4, <1>7, HoldsStill
<1>8. CASE r.ptr = NULL
  <2>1. Serves(r.heap, bl, tz, G)
    <3>1. \A k \in LiveOf(bl) : bl[k].ptr \in Allocated(sz, F)
      BY <1>1 DEF Serves
    <3>2. \A k \in LiveOf(bl) : tz[bl[k].ptr] = sz[bl[k].ptr]
      BY <3>1, <1>4
    <3> QED BY <3>2, <1>1, <1>4, <1>8 DEF Serves
  <2>2. Serving(r.heap, bl)
    BY <2>1 DEF Serving
  <2>3. Answering(h, r, bl, j, s)
    BY <2>2, <1>7, <1>8 DEF Answering
  <2> QED BY <2>3 DEF r
<1>9. CASE r.ptr # NULL
  <2> DEFINE p == r.ptr
  <2>1. Replaces(bl, j, sz, F, tz, G, p, s)
    BY <1>4, <1>5, <1>6, <1>9 DEF Replaces
  <2> HIDE DEF p
  <2>2. Newly(r.heap, bl, j, p, s)
    BY <1>1, <1>4, <1>5, <2>1, NewBlock
  <2>4. Serving(r.heap, Put(bl, j, p, s)) /\ LiveOf(Put(bl, j, p, s)) = LiveOf(bl) \cup {j}
    BY <2>2 DEF Newly
  <2>5. Answering(h, r, bl, j, s)
    BY <2>4, <1>7, <1>9 DEF Answering, p
  <2> QED BY <2>5 DEF r
<1> QED BY <1>8, <1>9

(* Before mm_init, malloc calls it.                                         *)
LEMMA InitServes ==
    ASSUME NEW h \in Heap, h.brk = 0
    PROVE  Serving(mm_init(h).heap, None) /\ mm_init(h).ptr # NULL /\ LiveOf(None) = {}
<1> DEFINE r == mm_init(h)
<1>1. r = mm_init(h)
  OBVIOUS
<1> HIDE DEF r
<1>2. PICK tz, G : /\ Good(r.heap, tz, G) /\ r.ptr # NULL
                   /\ Allocated(tz, G) = {Prologue, Dummy}
  BY <1>1, InitShape
<1>3. LiveOf(None) = {} /\ None \in Blocks
  BY DEF LiveOf, None, NoBlock, Blocks, NULL
<1>4. Serves(r.heap, None, tz, G)
  BY <1>2, <1>3 DEF Serves
<1> QED BY <1>1, <1>2, <1>3, <1>4 DEF Serving

LEMMA MallocReady ==
    ASSUME NEW h, NEW bl, Ready(h, bl), NEW j \in Ids \ LiveOf(bl), NEW s \in Sizes
    PROVE  Answering(h, mm_malloc(h, s), bl, j, s)
<1>1. CASE Serving(h, bl)
  BY <1>1, MallocAnswering
<1>2. CASE h \in Heap /\ h.listp = NULL /\ h.brk = 0 /\ bl = None
  <2> DEFINE k == mm_init(h).heap
             r == mm_malloc(h, s)
  <2>1. Serving(k, bl) /\ LiveOf(bl) = {}
    BY <1>2, InitServes
  <2>2. PICK sz, F : Good(k, sz, F)
    BY <2>1 DEF Serving, Serves
  <2>3. Initialised(k) = k
    BY <2>2, GoodListp
  <2>4. mm_malloc(h, s) = mm_malloc(k, s)
    <3>1. Initialised(h) = k
      BY <1>2 DEF Initialised
    <3> HIDE DEF k
    <3> QED BY <3>1, <2>3 DEF mm_malloc
  <2> HIDE DEF k
  <2>5. Answering(k, r, bl, j, s)
    BY <2>1, <2>4, MallocAnswering
  <2> HIDE DEF r
  <2>6. Answering(h, r, bl, j, s)
    BY <2>1, <2>5 DEF Answering
  <2> QED BY <2>6 DEF r
<1> QED BY <1>1, <1>2 DEF Ready

LEMMA ReallocAnswering ==
    ASSUME NEW h, NEW bl, Serving(h, bl), NEW j \in LiveOf(bl), NEW s \in Sizes
    PROVE  Answering(h, mm_realloc(h, bl[j].ptr, s), bl, j, s)
<1> DEFINE ptr == bl[j].ptr
           r == mm_realloc(h, ptr, s)
<1>1. PICK sz, F : Serves(h, bl, sz, F)
  BY DEF Serving
<1>2. /\ Good(h, sz, F) /\ Asked(s) /\ ptr \in Allocated(sz, F) \ {Prologue, Dummy}
      /\ ptr \in Nat /\ ptr % DSIZE = 0 /\ bl[j].size \in Nat /\ s \in Nat
      /\ Words \cap Extent(bl[j]) \subseteq Payload(sz, ptr)
  BY <1>1, SizesAsked, LiveBlocks
<1>3. Moves(h, r, sz, F, ptr, s)
  BY <1>2, ReallocMoves
<1> HIDE DEF r
<1>4. PICK tz, G :
      /\ Good(r.heap, tz, G)
      /\ \A x \in Allocated(sz, F) \ {ptr} : tz[x] = sz[x]
      /\ Untouched(h, r.heap, sz, Allocated(sz, F) \ {ptr, Dummy})
      /\ IF r.ptr = NULL
         THEN /\ Allocated(tz, G) = Allocated(sz, F) /\ tz[ptr] = sz[ptr]
              /\ Untouched(h, r.heap, sz, {ptr})
         ELSE /\ Allocated(tz, G) = (Allocated(sz, F) \ {ptr}) \cup {r.ptr}
              /\ r.ptr \notin Allocated(sz, F) /\ tz[r.ptr] >= s + DSIZE
              /\ \A a \in Payload(tz, r.ptr) :
                    /\ a < r.ptr + s
                    /\ ptr + (a - r.ptr) \in Payload(sz, ptr)
                    => r.heap.mem[a] = h.mem[ptr + (a - r.ptr)]
  BY <1>3 DEF Moves
<1>5. ASSUME NEW k \in LiveOf(bl) \ {j}, Holds(h, bl[k], k) PROVE Holds(r.heap, bl[k], k)
  <2>1. bl[k].ptr \in Allocated(sz, F) \ {ptr, Dummy}
    BY <1>1 DEF Serves
  <2> QED BY <2>1, <1>1, <1>4, <1>5, HoldsStill
<1>6. CASE r.ptr = NULL
  <2>1. Serves(r.heap, bl, tz, G)
    <3>1. \A k \in LiveOf(bl) : bl[k].ptr \in Allocated(sz, F)
      BY <1>1 DEF Serves
    <3>2. \A k \in LiveOf(bl) : tz[bl[k].ptr] = sz[bl[k].ptr]
      BY <3>1, <1>4, <1>6
    <3> QED BY <3>2, <1>1, <1>4, <1>6 DEF Serves
  <2>2. Serving(r.heap, bl)
    BY <2>1 DEF Serving
  <2>3. Holds(h, bl[j], j) => Holds(r.heap, bl[j], j)
    BY <1>1, <1>4, <1>6, HoldsStill
  <2>4. Answering(h, r, bl, j, s)
    BY <2>2, <2>3, <1>5, <1>6 DEF Answering
  <2> QED BY <2>4 DEF r
<1>7. CASE r.ptr # NULL
  <2> DEFINE p == r.ptr
  <2>1. /\ p # NULL /\ p \notin Allocated(sz, F) /\ tz[p] >= s + DSIZE
        /\ Allocated(tz, G) = (Allocated(sz, F) \ {bl[j].ptr}) \cup {p} /\ j \in Ids
    BY <1>4, <1>7 DEF LiveOf
  <2>2. /\ p \in Nat /\ p % DSIZE = 0 /\ tz[p] \in Nat
    <3>1. p \in DOMAIN tz /\ Tiling(tz, r.heap.brk)
      BY <2>1, <1>4 DEF Allocated, Good, Shape, Frame
    <3> QED BY <3>1, BlockWords
  <2> HIDE DEF p
  <2>3. Serving(r.heap, Put(bl, j, p, s)) /\ LiveOf(Put(bl, j, p, s)) = LiveOf(bl) \cup {j}
    <3>1. Replaces(bl, j, sz, F, tz, G, p, s)
      BY <1>4, <2>1 DEF Replaces
    <3>2. Newly(r.heap, bl, j, p, s)
      BY <1>1, <1>4, <2>1, <3>1, NewBlock
    <3> QED BY <3>2 DEF Newly
  <2>4. ASSUME Holds(h, bl[j], j), NEW a \in Words, a \in Nat, p <= a, a < p + s,
               a < p + bl[j].size
        PROVE  r.heap.mem[a] = j
    <3> DEFINE c == ptr + (a - p)
    <3>1. c \in Nat /\ ptr <= c /\ c < ptr + bl[j].size
      BY <1>2, <2>2, <2>4
    <3>2. c < MAX_HEAP
      BY <3>1, <1>1, <1>2, LiveBlocks, HeapAssumption
    <3>3. c \in Words
      BY <1>2, <2>2, <2>4, <3>2, ShiftWord
    <3>4. c \in Extent(bl[j])
      BY <1>2, <3>1 DEF Extent
    <3>5. c \in Payload(sz, ptr)
      BY <1>2, <3>3, <3>4
    <3>6. a \in Payload(tz, p)
      <4>1. a < p + tz[p] - DSIZE
        BY <1>2, <2>1, <2>2, <2>4 DEF DSIZE
      <4> QED BY <2>4, <4>1 DEF Payload
    <3>7. r.heap.mem[a] = h.mem[c]
      BY <1>4, <1>7, <2>4, <3>5, <3>6 DEF p
    <3>8. h.mem[c] = j
      BY <2>4, <3>3, <3>4 DEF Holds
    <3> QED BY <3>7, <3>8
  <2>5. Answering(h, r, bl, j, s)
    BY <2>3, <2>4, <1>5, <1>7 DEF Answering, p
  <2> QED BY <2>5 DEF r
<1> QED BY <1>6, <1>7

LEMMA FreeServing ==
    ASSUME NEW h, NEW bl, Serving(h, bl), NEW j \in LiveOf(bl)
    PROVE  LET g == mm_free(h, bl[j].ptr)
               cl == [bl EXCEPT ![j] = NoBlock]
           IN /\ Serving(g, cl) /\ LiveOf(cl) = LiveOf(bl) \ {j}
              /\ \A k \in LiveOf(bl) \ {j} : Holds(h, bl[k], k) => Holds(g, bl[k], k)
<1> DEFINE ptr == bl[j].ptr
           g == mm_free(h, ptr)
           cl == [bl EXCEPT ![j] = NoBlock]
<1>1. PICK sz, F : Serves(h, bl, sz, F)
  BY DEF Serving
<1>2. Good(h, sz, F) /\ ptr \in Allocated(sz, F) \ {Prologue, Dummy}
  BY <1>1, LiveBlocks
<1>3. Frees(h, g, sz, F, ptr)
  BY <1>2, FreeFrees
<1> HIDE DEF g
<1>4. PICK tz, G :
      /\ Good(g, tz, G) /\ Allocated(tz, G) = Allocated(sz, F) \ {ptr}
      /\ \A x \in Allocated(sz, F) \ {ptr} : tz[x] = sz[x]
      /\ Untouched(h, g, sz, Allocated(sz, F) \ {ptr, Dummy})
  BY <1>3 DEF Frees
<1>5. /\ bl \in Blocks /\ j \in Ids
      /\ {Prologue, Dummy} \subseteq Allocated(sz, F)
      /\ \A k \in LiveOf(bl) : bl[k].ptr \in Allocated(sz, F) \ {Prologue, Dummy}
      /\ \A k, l \in LiveOf(bl) : bl[k].ptr = bl[l].ptr => k = l
      /\ \A k \in LiveOf(bl) : bl[k].size \in Sizes /\ bl[k].size + DSIZE <= sz[bl[k].ptr]
      /\ Allocated(sz, F) = {Prologue, Dummy} \cup {bl[k].ptr : k \in LiveOf(bl)}
  BY <1>1 DEF Serves, LiveOf
<1>6. cl \in Blocks /\ cl[j] = NoBlock /\ \A k \in Ids \ {j} : cl[k] = bl[k]
  BY <1>5 DEF Blocks, NoBlock, NULL
<1> HIDE DEF cl
<1>7. LiveOf(cl) = LiveOf(bl) \ {j} /\ \A k \in LiveOf(cl) : cl[k] = bl[k]
  BY <1>6 DEF LiveOf
<1>8. Allocated(tz, G) = {Prologue, Dummy} \cup {cl[k].ptr : k \in LiveOf(cl)}
  <2>1. {cl[k].ptr : k \in LiveOf(cl)} = {bl[k].ptr : k \in LiveOf(bl) \ {j}}
    BY <1>7
  <2>2. {bl[k].ptr : k \in LiveOf(bl)} \ {ptr} = {bl[k].ptr : k \in LiveOf(bl) \ {j}}
    BY <1>5
  <2> QED BY <2>1, <2>2, <1>2, <1>4, <1>5
<1>9. \A k \in LiveOf(cl) : /\ cl[k].ptr \notin {Prologue, Dummy} /\ cl[k].size \in Sizes
                            /\ cl[k].size + DSIZE <= tz[cl[k].ptr]
  <2> SUFFICES ASSUME NEW k \in LiveOf(cl)
               PROVE  /\ cl[k].ptr \notin {Prologue, Dummy} /\ cl[k].size \in Sizes
                      /\ cl[k].size + DSIZE <= tz[cl[k].ptr]
    OBVIOUS
  <2>1. k \in LiveOf(bl) \ {j} /\ bl[k].ptr \in Allocated(sz, F) \ {ptr} /\ cl[k] = bl[k]
    BY <1>5, <1>7
  <2>2. tz[bl[k].ptr] = sz[bl[k].ptr]
    BY <2>1, <1>4
  <2> QED BY <2>1, <2>2, <1>5
<1>10. \A k, l \in LiveOf(cl) : cl[k].ptr = cl[l].ptr => k = l
  BY <1>5, <1>7
<1>11. Serves(g, cl, tz, G)
  BY <1>4, <1>6, <1>8, <1>9, <1>10 DEF Serves
<1>12. ASSUME NEW k \in LiveOf(bl) \ {j}, Holds(h, bl[k], k) PROVE Holds(g, bl[k], k)
  <2>1. bl[k].ptr \in Allocated(sz, F) \ {ptr, Dummy}
    BY <1>5
  <2> QED BY <2>1, <1>1, <1>4, <1>12, HoldsStill
<1>13. Serving(g, cl)
  BY <1>11 DEF Serving
<1> QED BY <1>7, <1>12, <1>13 DEF g, cl

(* The driver fills a live block and nothing else.                          *)
LEMMA MemsetServing ==
    ASSUME NEW h, NEW bl, Serving(h, bl), NEW j \in LiveOf(bl)
    PROVE  LET g == memset(h, bl[j], j)
           IN /\ Serving(g, bl) /\ Holds(g, bl[j], j)
              /\ \A k \in LiveOf(bl) \ {j} : Holds(h, bl[k], k) => Holds(g, bl[k], k)
<1> DEFINE m == [a \in Words |-> IF a \in Extent(bl[j]) THEN j ELSE h.mem[a]]
           g == [h EXCEPT !.mem = m]
           to == bl[j].ptr
<1>1. PICK sz, F : Serves(h, bl, sz, F)
  BY DEF Serving
<1>2. /\ Good(h, sz, F) /\ to \in Allocated(sz, F) \ {Prologue, Dummy}
      /\ Words \cap Extent(bl[j]) \subseteq Payload(sz, to)
  BY <1>1, LiveBlocks
<1>3. h \in Heap /\ j \in Ids /\ h.mem \in [Words -> Nat \cup Ids \cup {Junk}]
  BY <1>2 DEF Good, Shape, Frame, Heap, LiveOf
<1>4. m \in [Words -> Nat \cup Ids \cup {Junk}]
  BY <1>3
<1>5. \A a \in Words : a \notin Payload(sz, to) => m[a] = h.mem[a]
  BY <1>2
<1>6. \A a \in Words \cap Extent(bl[j]) : m[a] = j
  OBVIOUS
<1>7. memset(h, bl[j], j) = g
  BY DEF memset
<1> HIDE DEF m, to
<1>8. Good(g, sz, F) /\ Untouched(h, g, sz, DOMAIN sz \ {to})
  BY <1>2, <1>4, <1>5, DataShape
<1>9. g.mem = m
  BY <1>3, HeapParts
<1> HIDE DEF g
<1>10. Serving(g, bl)
  BY <1>1, <1>8 DEF Serves, Serving
<1>11. Holds(g, bl[j], j)
  BY <1>6, <1>9 DEF Holds
<1>12. ASSUME NEW k \in LiveOf(bl) \ {j}, Holds(h, bl[k], k) PROVE Holds(g, bl[k], k)
  <2>1. bl[k].ptr \in DOMAIN sz \ {to}
    BY <1>1 DEF Serves, Allocated, to
  <2> QED BY <2>1, <1>1, <1>8, <1>12, HoldsStill
<1> QED BY <1>7, <1>10, <1>11, <1>12

(* The driver finds nothing to object to in a new block.                    *)
LEMMA NeverObjected ==
    ASSUME NEW h, NEW bl, NEW cl, NEW j \in LiveOf(cl), Serving(h, cl),
           LiveOf(bl) \ {j} \subseteq LiveOf(cl), \A k \in LiveOf(bl) \ {j} : cl[k] = bl[k]
    PROVE  /\ cl[j].ptr % DSIZE = 0
           /\ {cl[j].ptr, cl[j].ptr + cl[j].size - 1} \subseteq 0 .. h.brk - 1
           /\ \A k \in LiveOf(bl) \ {j} :
                 {cl[j].ptr, cl[j].ptr + cl[j].size - 1} \cap Extent(bl[k]) = {}
<1>1. /\ cl[j].ptr \in Nat /\ cl[j].ptr % DSIZE = 0
      /\ cl[j].size \in Nat /\ cl[j].size > 0
      /\ cl[j].ptr + cl[j].size <= h.brk /\ h.brk \in Nat
      /\ \A k \in LiveOf(cl) \ {j} : Extent(cl[j]) \cap Extent(cl[k]) = {}
  BY LiveApart
<1>2. {cl[j].ptr, cl[j].ptr + cl[j].size - 1} \subseteq Extent(cl[j])
  BY <1>1 DEF Extent
<1> QED BY <1>1, <1>2

-----------------------------------------------------------------------------
(* The invariant.  A trace that the later passes repeat is one that         *)
(* eval_mm_valid went through: they allocate and free the same indexes.     *)
Requests == [type : {"ALLOC", "REALLOC", "FREE"}, index : Ids, size : Sizes \cup {0}]

LiveAt(k) == IF k = 0 THEN {} ELSE LiveOf(answers[k])
Possible(r, L) ==
    \/ r.type = "ALLOC" /\ r.index \in Ids \ L /\ r.size \in Sizes
    \/ r.type = "REALLOC" /\ r.index \in L /\ r.size \in Sizes
    \/ r.type = "FREE" /\ r.index \in L /\ r.size = 0
After(r, L) == IF r.type = "FREE" THEN L \ {r.index} ELSE L \cup {r.index}
Consistent ==
    \A k \in 1 .. Len(trace) : /\ Possible(trace[k], LiveAt(k - 1))
                               /\ LiveAt(k) = After(trace[k], LiveAt(k - 1))

TraceInv ==
    /\ trace \in Seq(Requests) /\ answers \in Seq(Blocks) /\ Len(answers) = Len(trace)
    /\ verdict = "going" => Consistent
    /\ pass = "eval_mm_valid" /\ verdict = "going" /\ traced =>
           LiveOf(blocks) = LiveAt(Len(trace))
    /\ pass \in {"eval_mm_util", "eval_mm_speed"} =>
           verdict = "going" /\ i \in 0 .. Len(trace) /\ LiveOf(blocks) = LiveAt(i)

HeapInv ==
    /\ Ready(heap, blocks) /\ verdict \in {"going", "failed", "lost"} /\ pass \in Passes
    /\ pass = "eval_mm_valid" /\ verdict # "lost" => Filled(heap, blocks)

Inv == HeapInv /\ TraceInv

LEMMA ReadyBlocks ==
    ASSUME NEW h, NEW bl, Ready(h, bl)
    PROVE  /\ bl \in Blocks /\ h \in Heap
           /\ LiveOf(bl) # {} => Serving(h, bl)
BY DEF Ready, Serving, Serves, Good, Shape, Frame, None, NoBlock, Blocks, LiveOf, NULL

(* malloc or realloc in eval_mm_valid.                                      *)
LEMMA AnsweredStep ==
    ASSUME Ready(heap, blocks), Filled(heap, blocks), verdict = "going",
           NEW j \in Ids, NEW s \in Sizes, NEW r, Answering(heap, r, blocks, j, s),
           Answered(j, r, s)
    PROVE  /\ Serving(heap', blocks')
           /\ verdict' # "lost" => Filled(heap', blocks')
           /\ \/ r.ptr = NULL /\ blocks' = blocks /\ verdict' = "failed"
              \/ /\ r.ptr # NULL /\ blocks' = Put(blocks, j, r.ptr, s)
                 /\ verdict' \in {"going", "lost"}
                 /\ LiveOf(blocks') = LiveOf(blocks) \cup {j}
           /\ verdict' = "lost" => j \in LiveOf(blocks) /\ LowByte[j] > 127 /\ Carried(j)
<1> DEFINE block == [ptr |-> r.ptr, size |-> s]
           moved == Preserved(j, r.heap, block, blocks[j])
           cl == Put(blocks, j, r.ptr, s)
<1>1. Live = LiveOf(blocks) /\ blocks \in Blocks
  BY ReadyBlocks DEF Live, LiveOf
<1>2. IF r.ptr = NULL \/ ~add_range(r.heap, block, Live \ {j})
      THEN /\ verdict' = IF r.ptr = NULL THEN "failed" ELSE "bad"
           /\ heap' = r.heap
           /\ blocks' = blocks
      ELSE /\ blocks' = cl
           /\ IF moved THEN heap' = memset(r.heap, block, j) /\ verdict' = verdict
                       ELSE heap' = r.heap /\ verdict' = "lost"
  BY DEF Answered, Put
<1>3. CASE r.ptr = NULL
  <2>1. verdict' = "failed" /\ heap' = r.heap /\ blocks' = blocks
    BY <1>2, <1>3
  <2>2. Serving(r.heap, blocks)
    BY <1>3 DEF Answering
  <2>3. Filled(r.heap, blocks)
    BY <1>3 DEF Answering, Filled
  <2> QED BY <1>3, <2>1, <2>2, <2>3
<1>4. CASE r.ptr # NULL
  <2>1. /\ Serving(r.heap, cl) /\ LiveOf(cl) = LiveOf(blocks) \cup {j}
        /\ cl[j] = block /\ \A k \in Ids \ {j} : cl[k] = blocks[k]
    BY <1>1, <1>4 DEF Answering, Put, Blocks
  <2>2. /\ block.ptr = r.ptr /\ block.size = s
        /\ \A k \in LiveOf(blocks) \ {j} : k \in Ids \ {j}
    BY DEF LiveOf
  <2> HIDE DEF block, cl
  <2>3. add_range(r.heap, block, Live \ {j})
    <3>1. /\ cl[j].ptr % DSIZE = 0
          /\ {cl[j].ptr, cl[j].ptr + cl[j].size - 1} \subseteq 0 .. r.heap.brk - 1
          /\ \A k \in LiveOf(blocks) \ {j} :
                {cl[j].ptr, cl[j].ptr + cl[j].size - 1} \cap Extent(blocks[k]) = {}
      BY <2>1, <2>2, NeverObjected
    <3> QED BY <3>1, <1>1, <2>1 DEF add_range
  <2>4. \A a \in Words \cap Extent(Common(block, blocks[j])) : r.heap.mem[a] = j
    <3> DEFINE least == IF block.size < blocks[j].size THEN block.size ELSE blocks[j].size
               kept == [block EXCEPT !.size = least]
    <3> SUFFICES ASSUME NEW a \in Words \cap Extent(kept) PROVE r.heap.mem[a] = j
      BY DEF Common
    <3>1. /\ blocks[j].size \in Nat /\ block.size \in Nat /\ r.ptr \in Nat
          /\ kept.ptr = r.ptr /\ kept.size = least
      <4>1. r.ptr \in Nat /\ s \in Nat
        BY <2>1, <2>2, LiveApart
      <4>2. blocks[j].size \in Nat
        BY <1>1, SizesAsked DEF Blocks
      <4> QED BY <4>1, <4>2, <2>2 DEF block
    <3> HIDE DEF kept
    <3>2. a \in Nat /\ r.ptr <= a /\ a < r.ptr + s /\ a < r.ptr + blocks[j].size
      <4>1. a \in r.ptr .. r.ptr + least - 1
        BY <3>1 DEF Extent
      <4> QED BY <4>1, <3>1, <2>2
    <3>3. CASE j \in LiveOf(blocks)
      <4>1. Holds(heap, blocks[j], j)
        BY <3>3 DEF Filled
      <4> QED BY <4>1, <3>2, <3>3, <1>4 DEF Answering
    <3>4. CASE j \notin LiveOf(blocks)
      <4>1. blocks[j].size = 0
        BY <3>4 DEF LiveOf, NoBlock
      <4> QED BY <4>1, <3>1, <3>2
    <3> QED BY <3>3, <3>4
  <2>5. CASE moved
    <3>1. heap' = memset(r.heap, block, j) /\ blocks' = cl /\ verdict' = "going"
      BY <1>2, <1>4, <2>3, <2>5
    <3>2. /\ Serving(heap', cl) /\ Holds(heap', cl[j], j)
          /\ \A k \in LiveOf(cl) \ {j} : Holds(r.heap, cl[k], k) => Holds(heap', cl[k], k)
      BY <2>1, <3>1, MemsetServing
    <3>3. Filled(heap', cl)
      <4> SUFFICES ASSUME NEW k \in LiveOf(cl) \ {j} PROVE Holds(heap', cl[k], k)
        BY <3>2 DEF Filled
      <4>1. k \in LiveOf(blocks) \ {j} /\ cl[k] = blocks[k]
        BY <2>1, <2>2
      <4>2. Holds(r.heap, blocks[k], k)
        BY <4>1 DEF Answering, Filled
      <4> QED BY <3>2, <4>1, <4>2
    <3> QED BY <1>4, <2>1, <3>1, <3>2, <3>3 DEF cl
  <2>6. CASE ~moved
    <3>1. heap' = r.heap /\ blocks' = cl /\ verdict' = "lost"
      BY <1>2, <1>4, <2>3, <2>6
    <3>2. PICK a \in Words \cap Extent(Common(block, blocks[j])) :
             ~(r.heap.mem[a] \in Ids /\ SignedChar(LowByte[r.heap.mem[a]]) = LowByte[j])
      BY <2>6 DEF Preserved
    <3>3. LowByte[j] > 127
      <4>1. SignedChar(LowByte[j]) # LowByte[j] /\ LowByte[j] \in 0 .. 255
        BY <2>4, <3>2, LowByteAssumption
      <4> QED BY <4>1 DEF SignedChar
    <3>4. j \in LiveOf(blocks)
      <4> SUFFICES ASSUME blocks[j] = NoBlock PROVE FALSE
        BY DEF LiveOf
      <4>1. block.size \in Nat /\ r.ptr \in Nat /\ blocks[j].size = 0
        BY <2>1, <2>2, LiveApart DEF NoBlock
      <4>2. Common(block, blocks[j]) = [ptr |-> r.ptr, size |-> 0]
        <5>1. Common(block, blocks[j]) = [block EXCEPT !.size = 0]
          BY <4>1 DEF Common
        <5> QED BY <5>1 DEF block
      <4>3. a \in r.ptr .. r.ptr + 0 - 1
        BY <3>2, <4>2 DEF Extent
      <4> QED BY <4>1, <4>3
    <3>5. Carried(j)
      BY <2>1, <2>4, <3>1 DEF Carried
    <3> QED BY <1>4, <2>1, <3>1, <3>3, <3>4, <3>5 DEF cl
  <2> QED BY <2>5, <2>6
<1> QED BY <1>3, <1>4

(* No char is equal to a byte above 127, whatever realloc has moved.        *)
LEMMA Unconvinced ==
    ASSUME Ready(heap, blocks), NEW j \in LiveOf(blocks), NEW s \in Sizes, NEW r,
           Answering(heap, r, blocks, j, s), Answered(j, r, s), LowByte[j] > 127
    PROVE  verdict' # "going"
<1> DEFINE block == [ptr |-> r.ptr, size |-> s]
           common == Common(block, blocks[j])
<1> SUFFICES ASSUME r.ptr # NULL, add_range(r.heap, block, Live \ {j}), Preserved(j, r.heap, block, blocks[j])
             PROVE  FALSE
  BY DEF Answered
<1>1. Live = LiveOf(blocks) /\ blocks \in Blocks /\ Serving(heap, blocks) /\ blocks[j].size \in Sizes
  <2>1. blocks \in Blocks /\ Serving(heap, blocks)
    BY ReadyBlocks
  <2> QED BY <2>1 DEF Live, LiveOf, Serving, Serves
<1>2. /\ blocks[j].size \in Nat /\ blocks[j].size > 0 /\ s \in Nat /\ s > 0
  BY <1>1, SizesAssumption
<1>3. r.ptr \in Words
  <2>1. r.heap.brk \in 0 .. MAX_HEAP
    BY DEF Answering, Serving, Serves, Good, Shape, Frame, Heap
  <2>2. r.ptr \in Nat /\ r.ptr % DSIZE = 0 /\ r.ptr < MAX_HEAP
    BY <2>1, HeapAssumption DEF add_range
  <2> QED BY <2>2, Words8, InWords
<1>4. r.ptr \in Extent(common)
  <2>1. common.ptr = r.ptr /\ common.size \in Nat /\ common.size > 0
    BY <1>2 DEF Common
  <2>2. r.ptr \in Nat
    BY <1>3, WordNat
  <2> HIDE DEF common
  <2> QED BY <2>1, <2>2 DEF Extent
<1>5. r.heap.mem[r.ptr] \in Ids /\ SignedChar(LowByte[r.heap.mem[r.ptr]]) = LowByte[j]
  BY <1>3, <1>4 DEF Preserved
<1> DEFINE byte == LowByte[r.heap.mem[r.ptr]]
<1>6. byte \in 0 .. 255 /\ LowByte[j] \in 0 .. 255
  BY <1>5, LowByteAssumption DEF LiveOf
<1>7. SignedChar(byte) = LowByte[j]
  BY <1>5
<1> HIDE DEF byte
<1> QED BY <1>6, <1>7 DEF SignedChar

(* read_trace keeps what eval_mm_valid goes through.                        *)
LEMMA ReadTrace ==
    ASSUME TraceInv, pass = "eval_mm_valid", verdict = "going",
           NEW r \in Requests, read_trace(r), blocks' \in Blocks,
           verdict' = "going" =>
               /\ Possible(r, LiveOf(blocks))
               /\ LiveOf(blocks') = After(r, LiveOf(blocks))
    PROVE  TraceInv'
<1>1. /\ trace \in Seq(Requests) /\ answers \in Seq(Blocks) /\ Len(answers) = Len(trace)
      /\ Len(trace) \in Nat
      /\ Consistent
      /\ traced => LiveOf(blocks) = LiveAt(Len(trace))
      /\ pass' = "eval_mm_valid"
  BY DEF TraceInv, read_trace
<1>2. CASE traced /\ Len(trace) < TraceBound
  <2>0. PICK m \in Nat : m = Len(trace)
    BY <1>1
  <2>1. /\ trace' = Append(trace, r) /\ answers' = Append(answers, blocks')
        /\ LiveOf(blocks) = LiveAt(m) /\ m \in Nat /\ Len(answers) = m
    BY <1>1, <1>2, <2>0 DEF read_trace
  <2>2. /\ trace' \in Seq(Requests) /\ answers' \in Seq(Blocks)
        /\ Len(trace') = m + 1 /\ Len(answers') = m + 1
        /\ trace'[m + 1] = r /\ answers'[m + 1] = blocks'
        /\ \A k \in 1 .. m : trace'[k] = trace[k] /\ answers'[k] = answers[k]
    BY <1>1, <2>0, <2>1
  <2>3. ASSUME NEW k \in 0 .. m PROVE LiveAt(k)' = LiveAt(k)
    <3>1. k = 0 \/ k \in 1 .. m
      BY <2>1
    <3> QED BY <3>1, <2>2 DEF LiveAt, LiveOf
  <2>4. LiveAt(m + 1)' = LiveOf(blocks')
    <3>1. m + 1 # 0
      BY <2>1
    <3> QED BY <3>1, <2>2 DEF LiveAt, LiveOf
  <2>5. verdict' = "going" => Consistent'
    <3> SUFFICES ASSUME verdict' = "going", NEW k \in 1 .. m + 1
                 PROVE  /\ Possible(trace'[k], LiveAt(k - 1)')
                        /\ LiveAt(k)' = After(trace'[k], LiveAt(k - 1)')
      BY <2>2 DEF Consistent
    <3>1. k - 1 \in 0 .. m /\ LiveAt(k - 1)' = LiveAt(k - 1)
      <4>1. k - 1 \in 0 .. m
        BY <2>1
      <4> QED BY <4>1, <2>3
    <3>2. CASE k = m + 1
      <4>1. k - 1 = m /\ trace'[k] = r /\ LiveAt(k)' = LiveOf(blocks') /\ LiveAt(k - 1)' = LiveOf(blocks)
        BY <3>1, <3>2, <2>1, <2>2, <2>4
      <4> QED BY <4>1
    <3>3. CASE k # m + 1
      <4>1. k \in 1 .. m /\ k \in 0 .. m
        BY <3>3, <2>1
      <4>2. trace'[k] = trace[k] /\ LiveAt(k)' = LiveAt(k)
        BY <4>1, <2>2, <2>3
      <4>3. Possible(trace[k], LiveAt(k - 1)) /\ LiveAt(k) = After(trace[k], LiveAt(k - 1))
        BY <4>1, <1>1, <2>0 DEF Consistent
      <4> QED BY <4>2, <4>3, <3>1
    <3> QED BY <3>2, <3>3
  <2>6. LiveOf(blocks)' = LiveAt(Len(trace))'
    BY <2>2, <2>4 DEF LiveOf
  <2> QED BY <1>1, <2>2, <2>5, <2>6 DEF TraceInv
<1>3. CASE ~(traced /\ Len(trace) < TraceBound)
  <2>1. traced' = FALSE /\ trace' = <<>> /\ answers' = <<>>
    BY <1>3 DEF read_trace
  <2>2. Len(trace') = 0 /\ Len(answers') = 0
    BY <2>1
  <2>3. Consistent'
    BY <2>2 DEF Consistent
  <2> QED BY <1>1, <2>1, <2>2, <2>3 DEF TraceInv
<1> QED BY <1>2, <1>3

(* A later pass begins on a new heap with no blocks.                        *)
LEMMA BeginStep ==
    ASSUME Inv, verdict = "going", NEW next \in {"eval_mm_util", "eval_mm_speed"}, NEW k,
           Begin(next, k)
    PROVE  /\ Inv' /\ blocks' = None /\ pass' = next
           /\ Serving(heap', blocks') /\ LiveOf(blocks') = {}
<1> DEFINE h == mem_reset_brk(heap)
<1>1. heap \in Heap
  BY ReadyBlocks DEF Inv, HeapInv
<1>2. h \in Heap /\ h.brk = 0
  BY <1>1, HeapAssumption DEF mem_reset_brk, Heap
<1>3. Serving(mm_init(h).heap, None) /\ mm_init(h).ptr # NULL /\ LiveOf(None) = {}
  BY <1>2, InitServes
<1>4. /\ heap' = mm_init(h).heap /\ pass' = next /\ blocks' = None /\ i' = 0
      /\ verdict' = verdict /\ trace' = trace /\ traced' = traced /\ answers' = answers
  BY <1>3 DEF Begin, FromScratch, None
<1>5. HeapInv'
  BY <1>3, <1>4 DEF HeapInv, Ready, Passes, Inv
<1>6. TraceInv'
  <2>1. /\ trace \in Seq(Requests) /\ answers \in Seq(Blocks) /\ Len(answers) = Len(trace)
        /\ Consistent
    BY DEF Inv, TraceInv
  <2>2. Consistent' /\ LiveAt(0)' = {}
    BY <2>1, <1>4 DEF Consistent, LiveAt, LiveOf
  <2>3. i' \in 0 .. Len(trace') /\ LiveOf(blocks)' = LiveAt(i)'
    BY <1>3, <1>4, <2>1 DEF LiveOf, LiveAt
  <2> QED BY <1>4, <2>1, <2>2, <2>3 DEF TraceInv, Inv
<1> QED BY <1>3, <1>4, <1>5, <1>6 DEF Inv

LEMMA RestartStep ==
    ASSUME Inv, NextTrace
    PROVE  Inv' /\ blocks' = None /\ pass' = "eval_mm_valid" /\ Serving(heap', blocks')
           /\ LiveOf(blocks') = {}
<1> DEFINE h == mem_reset_brk(heap)
<1>1. heap \in Heap
  BY ReadyBlocks DEF Inv, HeapInv
<1>2. h \in Heap /\ h.brk = 0
  BY <1>1, HeapAssumption DEF mem_reset_brk, Heap
<1>3. Serving(mm_init(h).heap, None) /\ mm_init(h).ptr # NULL /\ LiveOf(None) = {}
  BY <1>2, InitServes
<1>4. /\ heap' = mm_init(h).heap /\ pass' = "eval_mm_valid" /\ blocks' = None
      /\ verdict' = "going" /\ trace' = <<>> /\ answers' = <<>>
  BY <1>3 DEF NextTrace, Restart, Started, None
<1>5. HeapInv'
  BY <1>3, <1>4 DEF HeapInv, Ready, Passes, Filled, LiveOf
<1>6. TraceInv'
  <2>1. Len(trace') = 0 /\ Len(answers') = 0
    BY <1>4
  <2>2. Consistent' /\ LiveOf(blocks)' = LiveAt(Len(trace))'
    BY <1>3, <1>4, <2>1 DEF Consistent, LiveAt, LiveOf
  <2> QED BY <1>4, <2>1, <2>2 DEF TraceInv
<1> QED BY <1>3, <1>4, <1>5, <1>6 DEF Inv

(* What a step does to the blocks: nothing, one more or in place of another *)
(* one, one less, or none left.                                             *)
BlockStep ==
    \/ blocks' = blocks
    \/ \E j \in Ids, s \in Sizes : \E p :
          /\ blocks' = Put(blocks, j, p, s) /\ LiveOf(blocks') = LiveOf(blocks) \cup {j}
          /\ Serving(heap', blocks')
    \/ \E j \in LiveOf(blocks) : /\ blocks' = [blocks EXCEPT ![j] = NoBlock]
                                 /\ LiveOf(blocks') = LiveOf(blocks) \ {j}
    \/ blocks' = None

LEMMA ValidStep ==
    ASSUME Inv, eval_mm_valid
    PROVE  Inv' /\ BlockStep
<1>1. pass = "eval_mm_valid" /\ Ready(heap, blocks) /\ Filled(heap, blocks) /\ TraceInv
  BY DEF eval_mm_valid, Malloc, Realloc, Free, Inv, HeapInv
<1>2. ASSUME NEW j \in Ids, NEW s \in Sizes, NEW r, Answering(heap, r, blocks, j, s),
             Answered(j, r, s), verdict = "going", NEW type \in {"ALLOC", "REALLOC"},
             type = "ALLOC" => j \notin LiveOf(blocks), type = "REALLOC" => j \in LiveOf(blocks),
             read_trace(Request(type, j, s))
      PROVE  Inv' /\ BlockStep
  <2> DEFINE q == Request(type, j, s)
  <2>1. /\ Serving(heap', blocks')
        /\ verdict' # "lost" => Filled(heap', blocks')
        /\ \/ r.ptr = NULL /\ blocks' = blocks /\ verdict' = "failed"
           \/ /\ r.ptr # NULL /\ blocks' = Put(blocks, j, r.ptr, s)
              /\ verdict' \in {"going", "lost"}
              /\ LiveOf(blocks') = LiveOf(blocks) \cup {j}
    BY <1>1, <1>2, AnsweredStep
  <2>2. BlockStep
    BY <2>1 DEF BlockStep
  <2>3. /\ q \in Requests /\ q.type = type /\ q.index = j /\ q.size = s
    BY DEF Requests, Request
  <2>4. verdict' = "going" => /\ Possible(q, LiveOf(blocks))
                              /\ LiveOf(blocks') = After(q, LiveOf(blocks))
    <3>1. Possible(q, LiveOf(blocks))
      BY <1>2, <2>3 DEF Possible
    <3>2. After(q, LiveOf(blocks)) = LiveOf(blocks) \cup {j}
      BY <1>2, <2>3 DEF After
    <3> QED BY <3>1, <3>2, <2>1
  <2>5. blocks' \in Blocks /\ pass' = "eval_mm_valid"
    BY <2>1, <1>1, <1>2 DEF Serving, Serves, read_trace
  <2> HIDE DEF q
  <2>6. read_trace(q)
    BY <1>2 DEF q
  <2>7. TraceInv'
    BY <1>1, <1>2, <2>3, <2>4, <2>5, <2>6, ReadTrace
  <2>8. HeapInv'
    BY <2>1, <2>5, <1>2 DEF HeapInv, Ready, Passes
  <2> QED BY <2>2, <2>7, <2>8 DEF Inv
<1>3. ASSUME NEW j \in Ids, NEW s \in Sizes, Malloc(j, s), read_trace(Request("ALLOC", j, s))
      PROVE  Inv' /\ BlockStep
  <2> DEFINE r == mm_malloc(heap, s)
  <2>1. j \in Ids \ LiveOf(blocks) /\ verdict = "going" /\ Answered(j, r, s)
    BY <1>3 DEF Malloc, Live, LiveOf
  <2>2. Answering(heap, r, blocks, j, s)
    BY <1>1, <2>1, MallocReady
  <2> HIDE DEF r
  <2> QED BY <1>2, <1>3, <2>1, <2>2
<1>4. ASSUME NEW j \in Ids, NEW s \in Sizes, Realloc(j, s), read_trace(Request("REALLOC", j, s))
      PROVE  Inv' /\ BlockStep
  <2> DEFINE r == mm_realloc(heap, blocks[j].ptr, s)
  <2>1. j \in LiveOf(blocks) /\ verdict = "going" /\ Answered(j, r, s)
    BY <1>4 DEF Realloc, Live, LiveOf
  <2>2. Serving(heap, blocks)
    BY <1>1, <2>1, ReadyBlocks
  <2>3. Answering(heap, r, blocks, j, s)
    BY <2>1, <2>2, ReallocAnswering
  <2> HIDE DEF r
  <2> QED BY <1>2, <1>4, <2>1, <2>3
<1>5. ASSUME NEW j \in Ids, Free(j), read_trace(Request("FREE", j, 0))
      PROVE  Inv' /\ BlockStep
  <2> DEFINE q == Request("FREE", j, 0)
  <2>1. /\ j \in LiveOf(blocks) /\ verdict = "going" /\ verdict' = "going"
        /\ heap' = mm_free(heap, blocks[j].ptr) /\ blocks' = [blocks EXCEPT ![j] = NoBlock]
    BY <1>5 DEF Free, Live, LiveOf
  <2>2. Serving(heap, blocks)
    BY <1>1, <2>1, ReadyBlocks
  <2>3. /\ Serving(heap', blocks') /\ LiveOf(blocks') = LiveOf(blocks) \ {j}
        /\ \A k \in LiveOf(blocks) \ {j} : Holds(heap, blocks[k], k) => Holds(heap', blocks[k], k)
    BY <2>1, <2>2, FreeServing
  <2>4. \A k \in LiveOf(blocks) \ {j} : blocks'[k] = blocks[k]
    <3>1. blocks \in Blocks /\ LiveOf(blocks) \subseteq Ids
      BY <1>1, ReadyBlocks DEF LiveOf
    <3> QED BY <2>1, <3>1 DEF Blocks
  <2>5. Filled(heap', blocks')
    BY <1>1, <2>3, <2>4 DEF Filled
  <2>6. BlockStep
    BY <2>1, <2>3 DEF BlockStep
  <2>7. q \in Requests /\ q.type = "FREE" /\ q.index = j /\ q.size = 0
    BY <2>1 DEF Requests, Request, LiveOf
  <2>8. Possible(q, LiveOf(blocks)) /\ LiveOf(blocks') = After(q, LiveOf(blocks))
    BY <2>1, <2>3, <2>7 DEF Possible, After
  <2>9. blocks' \in Blocks /\ pass' = "eval_mm_valid"
    BY <2>3, <1>1, <1>5 DEF Serving, Serves, read_trace
  <2> HIDE DEF q
  <2>10. read_trace(q)
    BY <1>5 DEF q
  <2>11. TraceInv'
    BY <1>1, <2>1, <2>7, <2>8, <2>9, <2>10, ReadTrace
  <2>12. HeapInv'
    BY <2>1, <2>3, <2>5, <2>9 DEF HeapInv, Ready, Passes
  <2> QED BY <2>6, <2>11, <2>12 DEF Inv
<1> QED BY <1>3, <1>4, <1>5 DEF eval_mm_valid

(* A later pass goes through the trace.                                     *)
LEMMA RepeatStep ==
    ASSUME Inv, Repeat
    PROVE  Inv' /\ BlockStep
<1> DEFINE r == trace[i + 1]
           got == Answer(r)
<1>1. /\ pass \in {"eval_mm_util", "eval_mm_speed"} /\ i < Len(trace)
      /\ Obeyed(r, got) /\ i' = i + 1
      /\ verdict' = verdict /\ trace' = trace /\ traced' = traced /\ answers' = answers
  BY DEF Repeat
<1>2. /\ Ready(heap, blocks) /\ verdict = "going" /\ Consistent
      /\ trace \in Seq(Requests) /\ answers \in Seq(Blocks) /\ Len(answers) = Len(trace)
      /\ Len(trace) \in Nat /\ i \in 0 .. Len(trace) /\ LiveOf(blocks) = LiveAt(i)
      /\ pass \in Passes
  BY <1>1 DEF Inv, HeapInv, TraceInv
<1>3. /\ i + 1 \in 1 .. Len(trace) /\ r \in Requests
      /\ Possible(r, LiveOf(blocks)) /\ LiveAt(i + 1) = After(r, LiveOf(blocks))
  <2>1. i + 1 \in 1 .. Len(trace) /\ (i + 1) - 1 = i
    BY <1>1, <1>2
  <2>2. Possible(r, LiveAt((i + 1) - 1)) /\ LiveAt(i + 1) = After(r, LiveAt((i + 1) - 1))
    BY <1>2, <2>1 DEF Consistent
  <2> QED BY <1>2, <2>1, <2>2
<1>4. Consistent' /\ LiveAt(i)' = LiveAt(i + 1)
  <2>1. Consistent'
    BY <1>1, <1>2 DEF Consistent, LiveAt
  <2>2. LiveAt(i)' = LiveAt(i + 1)
    BY <1>1, <1>2 DEF LiveAt
  <2> QED BY <2>1, <2>2
<1> HIDE DEF r, got
<1>5. ASSUME Ready(heap', blocks'), pass' \in Passes, pass' # "eval_mm_valid",
             pass' = pass => LiveOf(blocks') = After(r, LiveOf(blocks)),
             pass' # pass => pass' = "app_error"
      PROVE  Inv'
  <2>1. HeapInv'
    BY <1>1, <1>2, <1>5 DEF HeapInv
  <2>2. i' \in 0 .. Len(trace')
    BY <1>1, <1>2, <1>3
  <2>3. pass' = pass => LiveOf(blocks)' = LiveAt(i)'
    BY <1>3, <1>4, <1>5 DEF LiveOf
  <2>4. TraceInv'
    BY <1>1, <1>2, <1>4, <1>5, <2>2, <2>3 DEF TraceInv
  <2> QED BY <2>1, <2>4 DEF Inv
<1>6. ASSUME r.type # "FREE", NEW j \in Ids, j = r.index, NEW s \in Sizes, s = r.size,
             Answering(heap, got, blocks, j, s)
      PROVE  Inv' /\ BlockStep
  <2>1. CASE got.ptr = NULL
    <3>1. pass' = "app_error" /\ blocks' = blocks /\ heap' = got.heap
      BY <1>1, <1>6, <2>1 DEF Obeyed
    <3>2. Serving(heap', blocks')
      BY <1>6, <2>1, <3>1 DEF Answering
    <3>3. BlockStep
      BY <3>1 DEF BlockStep
    <3>4. Ready(heap', blocks') /\ pass' \in Passes /\ pass' # pass
      BY <1>1, <3>1, <3>2 DEF Ready, Passes
    <3>5. Inv'
      BY <1>5, <3>1, <3>4
    <3> QED BY <3>3, <3>5
  <2>2. CASE got.ptr # NULL
    <3>1. pass' = pass /\ blocks' = Put(blocks, j, got.ptr, s) /\ heap' = got.heap
      BY <1>1, <1>6, <2>2 DEF Obeyed, Put
    <3>2. Serving(heap', blocks') /\ LiveOf(blocks') = LiveOf(blocks) \cup {j}
      BY <1>6, <2>2, <3>1 DEF Answering
    <3>3. BlockStep
      BY <3>1, <3>2 DEF BlockStep
    <3>4. Ready(heap', blocks') /\ pass' \in Passes /\ pass' # "eval_mm_valid"
      BY <1>1, <1>2, <3>1, <3>2 DEF Ready
    <3>5. LiveOf(blocks') = After(r, LiveOf(blocks))
      BY <1>6, <3>2 DEF After
    <3>6. Inv'
      BY <1>5, <3>1, <3>4, <3>5
    <3> QED BY <3>3, <3>6
  <2> QED BY <2>1, <2>2
<1>7. CASE r.type = "ALLOC"
  <2>1. r.index \in Ids \ LiveOf(blocks) /\ r.size \in Sizes
    BY <1>3, <1>7 DEF Possible
  <2>2. got = mm_malloc(heap, r.size)
    BY <1>7 DEF got, Answer
  <2>3. Answering(heap, got, blocks, r.index, r.size)
    BY <1>2, <2>1, <2>2, MallocReady
  <2> QED BY <1>6, <1>7, <2>1, <2>3
<1>8. CASE r.type = "REALLOC"
  <2>1. r.index \in LiveOf(blocks) /\ r.index \in Ids /\ r.size \in Sizes
    BY <1>3, <1>8 DEF Possible, LiveOf
  <2>2. got = mm_realloc(heap, blocks[r.index].ptr, r.size)
    BY <1>8 DEF got, Answer
  <2>3. Serving(heap, blocks)
    BY <1>2, <2>1, ReadyBlocks
  <2>4. Answering(heap, got, blocks, r.index, r.size)
    BY <2>1, <2>2, <2>3, ReallocAnswering
  <2> QED BY <1>6, <1>8, <2>1, <2>4
<1>9. CASE r.type = "FREE"
  <2>1. r.index \in LiveOf(blocks) /\ r.size = 0
    BY <1>3, <1>9 DEF Possible
  <2>2. got = Result(mm_free(heap, blocks[r.index].ptr), NULL)
    BY <1>9 DEF got, Answer
  <2>3. Serving(heap, blocks)
    BY <1>2, <2>1, ReadyBlocks
  <2>4. /\ heap' = mm_free(heap, blocks[r.index].ptr) /\ pass' = pass
        /\ blocks' = [blocks EXCEPT ![r.index] = NoBlock]
    BY <1>1, <1>9, <2>1, <2>2 DEF Obeyed, Result, NoBlock
  <2>5. Serving(heap', blocks') /\ LiveOf(blocks') = LiveOf(blocks) \ {r.index}
    BY <2>1, <2>3, <2>4, FreeServing
  <2>6. LiveOf(blocks') = After(r, LiveOf(blocks))
    BY <1>9, <2>5 DEF After
  <2>7. Ready(heap', blocks') /\ pass' \in Passes /\ pass' # "eval_mm_valid"
    BY <1>1, <1>2, <2>4, <2>5 DEF Ready
  <2>8. Inv'
    BY <1>5, <2>4, <2>6, <2>7
  <2>9. BlockStep
    BY <2>1, <2>4, <2>5 DEF BlockStep
  <2> QED BY <2>8, <2>9
<1>10. r.type \in {"ALLOC", "REALLOC", "FREE"}
  BY <1>3 DEF Requests
<1> QED BY <1>7, <1>8, <1>9, <1>10

LEMMA InitInv ==
    ASSUME DriverInit
    PROVE  Inv
<1>1. /\ heap = mem_init /\ blocks = None /\ verdict = "going" /\ pass = "eval_mm_valid"
      /\ trace = <<>> /\ answers = <<>> /\ traced = FALSE
  BY DEF DriverInit, Init, None
<1>2. LiveOf(None) = {}
  BY DEF LiveOf, None
<1>3. mem_init \in Heap /\ mem_init.listp = NULL /\ mem_init.brk = 0
  BY HeapAssumption DEF mem_init, Heap, NULL, WSIZE, DSIZE
<1>4. HeapInv
  BY <1>1, <1>2, <1>3 DEF HeapInv, Ready, Filled, Passes
<1>5. Len(trace) = 0 /\ Len(answers) = 0
  BY <1>1
<1>6. TraceInv
  BY <1>1, <1>5 DEF TraceInv, Consistent
<1> QED BY <1>4, <1>6 DEF Inv

LEMMA StepInv ==
    ASSUME Inv, [Next]_vars
    PROVE  Inv' /\ BlockStep
<1>1. CASE eval_mm_valid
  BY <1>1, ValidStep
<1>2. CASE Repeat
  BY <1>2, RepeatStep
<1>3. CASE MeasureSpace
  <2>1. verdict = "going" /\ Begin("eval_mm_util", 0)
    BY <1>3 DEF MeasureSpace
  <2>2. Inv' /\ blocks' = None
    BY <2>1, BeginStep
  <2> QED BY <2>2 DEF BlockStep
<1>4. CASE ftimer_gettod
  <2>1. verdict = "going" /\ Begin("eval_mm_speed", round + 1)
    BY <1>4 DEF ftimer_gettod, Inv, TraceInv
  <2>2. Inv' /\ blocks' = None
    BY <2>1, BeginStep
  <2> QED BY <2>2 DEF BlockStep
<1>5. CASE NextTrace
  BY <1>5, RestartStep DEF BlockStep
<1>6. CASE UNCHANGED vars
  <2>1. /\ heap' = heap /\ blocks' = blocks /\ verdict' = verdict /\ pass' = pass
        /\ trace' = trace /\ traced' = traced /\ answers' = answers /\ i' = i
    BY <1>6 DEF vars, mmVars, stats
  <2>2. HeapInv'
    BY <2>1 DEF Inv, HeapInv
  <2>3. Consistent' = Consistent /\ \A k : LiveAt(k)' = LiveAt(k)
    BY <2>1 DEF Consistent, LiveAt
  <2>4. TraceInv'
    <3>1. LiveAt(i)' = LiveAt(i) /\ LiveAt(Len(trace))' = LiveAt(Len(trace))
      BY <2>1 DEF LiveAt
    <3> QED BY <2>1, <2>3, <3>1 DEF Inv, TraceInv
  <2> QED BY <2>1, <2>2, <2>4 DEF Inv, BlockStep
<1> QED BY <1>1, <1>2, <1>3, <1>4, <1>5, <1>6 DEF Next

(* After every request of every pass over every trace the heap is well      *)
(* formed and its allocated blocks are those of the clients, which hold in  *)
(* eval_mm_valid what their clients wrote.                                  *)
THEOREM Invariant == Spec => []Inv
<1>1. DriverInit => Inv
  BY InitInv
<1>2. Inv /\ [Next]_vars => Inv'
  BY StepInv
<1> QED BY <1>1, <1>2, PTL DEF Spec

(* The variables keep to their types.                                       *)
THEOREM TypeCorrect == Spec => []TypeOK
<1>1. Inv => TypeOK
  BY ReadyBlocks DEF Inv, HeapInv, TypeOK, Blocks
<1> QED BY <1>1, Invariant, PTL

(* eval_mm_valid finds no block misaligned, outside the heap or over        *)
(* another one, and says of no data but such as is there, and is marked by  *)
(* a byte of 128 or more, that a realloc has lost it; and no realloc of     *)
(* data so marked ever satisfies it.                                        *)
THEOREM DriverContent == Spec => NeverBad
<1> DEFINE Judged ==
        /\ verdict' # "bad"
        /\ verdict' = "lost" => \E j \in Live : LowByte[j] > 127 /\ Carried(j)
           Missed == \A j \in Live, s \in Sizes : Realloc(j, s) /\ LowByte[j] > 127 => verdict' # "going"
<1>1. Inv /\ [Next]_vars => [Judged]_mmVars
  <2> SUFFICES ASSUME Inv, [Next]_vars PROVE [Judged]_mmVars
    OBVIOUS
  <2>1. /\ TraceInv /\ verdict # "bad" /\ Ready(heap, blocks) /\ Live = LiveOf(blocks)
        /\ pass = "eval_mm_valid" /\ verdict # "lost" => Filled(heap, blocks)
    BY DEF Inv, HeapInv, Live, LiveOf
  <2>2. ASSUME NEW j \in Ids, NEW s \in Sizes, NEW r, Answering(heap, r, blocks, j, s),
               Answered(j, r, s), verdict = "going", pass = "eval_mm_valid"
        PROVE  Judged
    BY <2>1, <2>2, AnsweredStep
  <2>3. CASE eval_mm_valid
    <3>1. ASSUME NEW j \in Ids, NEW s \in Sizes, Malloc(j, s), pass = "eval_mm_valid"
          PROVE  Judged
      <4> DEFINE r == mm_malloc(heap, s)
      <4>1. j \in Ids \ LiveOf(blocks) /\ verdict = "going" /\ Answered(j, r, s)
        BY <2>1, <3>1 DEF Malloc
      <4>2. Answering(heap, r, blocks, j, s)
        BY <2>1, <4>1, MallocReady
      <4> HIDE DEF r, Judged
      <4> QED BY <2>2, <3>1, <4>1, <4>2
    <3>2. ASSUME NEW j \in Ids, NEW s \in Sizes, Realloc(j, s), pass = "eval_mm_valid"
          PROVE  Judged
      <4> DEFINE r == mm_realloc(heap, blocks[j].ptr, s)
      <4>1. j \in LiveOf(blocks) /\ verdict = "going" /\ Answered(j, r, s)
        BY <2>1, <3>2 DEF Realloc
      <4>2. Answering(heap, r, blocks, j, s)
        BY <2>1, <4>1, ReadyBlocks, ReallocAnswering
      <4> HIDE DEF r, Judged
      <4> QED BY <2>2, <3>2, <4>1, <4>2
    <3>3. ASSUME NEW j \in Ids, Free(j)
          PROVE  Judged
      BY <3>3 DEF Free
    <3> QED BY <2>3, <3>1, <3>2, <3>3 DEF eval_mm_valid
  <2>4. CASE MeasureSpace \/ Repeat \/ ftimer_gettod
    BY <2>1, <2>4 DEF MeasureSpace, Repeat, ftimer_gettod, Begin, TraceInv
  <2>5. CASE NextTrace
    BY <2>5 DEF NextTrace, Restart, Started
  <2>6. CASE UNCHANGED vars
    BY <2>6 DEF vars
  <2> QED BY <2>3, <2>4, <2>5, <2>6 DEF Next
<1>2. Inv => [Missed]_mmVars
  <2> SUFFICES ASSUME Inv, NEW j \in Live, NEW s \in Sizes, Realloc(j, s), LowByte[j] > 127
               PROVE  verdict' # "going"
    OBVIOUS
  <2> DEFINE r == mm_realloc(heap, blocks[j].ptr, s)
  <2>1. TraceInv /\ Ready(heap, blocks) /\ Live = LiveOf(blocks)
    BY DEF Inv, HeapInv, Live, LiveOf
  <2>2. j \in LiveOf(blocks) /\ j \in Ids /\ Answered(j, r, s)
    BY <2>1 DEF Realloc, LiveOf
  <2>3. Answering(heap, r, blocks, j, s)
    BY <2>1, <2>2, ReadyBlocks, ReallocAnswering
  <2> HIDE DEF r
  <2> QED BY <2>1, <2>2, <2>3, Unconvinced
<1>3. Inv /\ [Next]_vars =>
          [/\ verdict' # "bad"
           /\ verdict' = "lost" => \E j \in Live : LowByte[j] > 127 /\ Carried(j)
           /\ \A j \in Live, s \in Sizes :
                 LowByte[j] > 127 /\ Realloc(j, s) => verdict' # "going"]_mmVars
  BY <1>1, <1>2
<1> QED BY <1>3, Invariant, PTL DEF Spec, NeverBad

-----------------------------------------------------------------------------
(* The allocator keeps the promise of malloc, free and realloc.             *)

(* A live block is full of its index and nothing else is found.             *)
LEMMA FoundIs ==
    ASSUME Inv, NEW j \in Ids
    PROVE  Found(j) = IF j \in LiveOf(blocks) THEN {j} ELSE {}
<1>1. Ready(heap, blocks) /\ (pass = "eval_mm_valid" /\ verdict # "lost" => Filled(heap, blocks))
  BY DEF Inv, HeapInv
<1>2. CASE pass # "eval_mm_valid" \/ verdict = "lost"
  BY <1>2 DEF Found, Live, LiveOf
<1>3. CASE pass = "eval_mm_valid" /\ verdict # "lost" /\ j \notin LiveOf(blocks)
  <2>1. blocks[j] = NoBlock
    BY <1>3 DEF LiveOf
  <2>2. Extent(blocks[j]) = {}
    BY <2>1 DEF Extent, NoBlock, NULL
  <2> QED BY <1>3, <2>2 DEF Found
<1>4. CASE pass = "eval_mm_valid" /\ verdict # "lost" /\ j \in LiveOf(blocks)
  <2> DEFINE p == blocks[j].ptr
  <2>1. PICK sz, F : Serves(heap, blocks, sz, F)
    BY <1>1, <1>4, ReadyBlocks DEF Serving
  <2>2. /\ p \in DOMAIN sz /\ p # Prologue /\ Tiling(sz, heap.brk)
        /\ p \in Nat /\ blocks[j].size \in Nat /\ blocks[j].size > 0
    BY <2>1, <1>4, LiveBlocks DEF Allocated, Good, Shape, Frame
  <2>3. p \in Words
    BY <2>2, BlockWords
  <2>4. p \in Words \cap Extent(blocks[j])
    BY <2>2, <2>3 DEF Extent
  <2>5. \A a \in Words \cap Extent(blocks[j]) : heap.mem[a] = j
    BY <1>1, <1>4 DEF Filled, Holds
  <2> QED BY <1>4, <2>4, <2>5 DEF Found
<1> QED BY <1>2, <1>3, <1>4

FullOf(L) == [j \in Ids |-> IF j \in L THEN {j} ELSE {}]

LEMMA FullIs == Inv => [j \in Ids |-> Found(j)] = FullOf(LiveOf(blocks))
BY FoundIs DEF FullOf

LEMMA PromisedInit ==
    ASSUME DriverInit, Inv
    PROVE  Promise!Init
<1>1. blocks = None /\ LiveOf(None) = {}
  BY DEF DriverInit, Init, None, LiveOf
<1>2. [j \in Ids |-> Found(j)] = [j \in Ids |-> {}]
  BY <1>1, FullIs DEF FullOf
<1> QED BY <1>1, <1>2 DEF Promise!Init, Promise!Nowhere, None, NoBlock, NULL

LEMMA PromisedStep ==
    ASSUME Inv, Inv', BlockStep
    PROVE  [Promise!Next]_<<blocks, [j \in Ids |-> Found(j)]>>
<1> DEFINE D == [j \in Ids |-> Found(j)]
<1>1. D = FullOf(LiveOf(blocks)) /\ D' = FullOf(LiveOf(blocks'))
  <2>1. D = FullOf(LiveOf(blocks))
    BY FullIs
  <2>2. D' = FullOf(LiveOf(blocks))'
    <3>1. (Inv => [j \in Ids |-> Found(j)] = FullOf(LiveOf(blocks)))'
      BY FullIs, PTL
    <3> QED BY <3>1
  <2> QED BY <2>1, <2>2 DEF FullOf, LiveOf
<1>2. blocks \in Blocks
  BY ReadyBlocks DEF Inv, HeapInv
<1> HIDE DEF D
<1>3. CASE blocks' = blocks
  BY <1>1, <1>3 DEF D
<1>4. ASSUME NEW j \in Ids, NEW s \in Sizes, NEW p, blocks' = Put(blocks, j, p, s),
             LiveOf(blocks') = LiveOf(blocks) \cup {j}, Serving(heap', blocks')
      PROVE  Promise!Next
  <2>1. /\ blocks' = [blocks EXCEPT ![j] = [ptr |-> p, size |-> s]]
        /\ blocks'[j] = [ptr |-> p, size |-> s]
        /\ \A k \in Ids \ {j} : blocks'[k] = blocks[k]
        /\ LiveOf(blocks) \subseteq Ids /\ j \in LiveOf(blocks')
    BY <1>2, <1>4 DEF Put, Blocks, LiveOf
  <2>2. /\ p \in Nat /\ p % DSIZE = 0 /\ p # NULL /\ s \in Nat /\ s > 0
        /\ p + s <= heap'.brk /\ heap'.brk \in Nat /\ heap'.brk <= MAX_HEAP
        /\ \A k \in LiveOf(blocks') \ {j} : Extent(blocks'[j]) \cap Extent(blocks'[k]) = {}
    <3> DEFINE cl == blocks'
               h == heap'
    <3>1. Serving(h, cl) /\ j \in LiveOf(cl) /\ cl[j].ptr = p /\ cl[j].size = s
      BY <1>4, <2>1
    <3> HIDE DEF cl, h
    <3>2. /\ cl[j].ptr \in Nat /\ cl[j].ptr % DSIZE = 0 /\ cl[j].ptr # NULL
          /\ cl[j].size \in Nat /\ cl[j].size > 0
          /\ cl[j].ptr + cl[j].size <= h.brk /\ h.brk \in Nat /\ h.brk <= MAX_HEAP
          /\ \A k \in LiveOf(cl) \ {j} : Extent(cl[j]) \cap Extent(cl[k]) = {}
      BY <3>1, LiveApart
    <3>3. /\ p \in Nat /\ p % DSIZE = 0 /\ p # NULL /\ s \in Nat /\ s > 0
          /\ p + s <= h.brk /\ h.brk \in Nat /\ h.brk <= MAX_HEAP
      BY <3>1, <3>2
    <3> QED BY <3>2, <3>3 DEF cl, h
  <2>3. p \in {DSIZE * k : k \in 1 .. MAX_HEAP \div DSIZE} /\ p + s <= MAX_HEAP
    <3>1. MAX_HEAP \in Nat
      BY HeapAssumption
    <3>2. p = 8 * (p \div 8) /\ p \div 8 \in 1 .. MAX_HEAP \div 8 /\ p + s <= MAX_HEAP
      BY <2>2, <3>1 DEF DSIZE, NULL
    <3> QED BY <3>2 DEF DSIZE
  <2>4. ASSUME NEW k \in Ids \ {j}
        PROVE  Extent([ptr |-> p, size |-> s]) \cap Extent(blocks[k]) = {}
    <3>1. CASE k \in LiveOf(blocks)
      BY <3>1, <1>4, <2>1, <2>2
    <3>2. CASE k \notin LiveOf(blocks)
      BY <3>2 DEF LiveOf, NoBlock, Extent, NULL
    <3> QED BY <3>1, <3>2
  <2>5. D' = [D EXCEPT ![j] = {j}]
    BY <1>1, <1>4 DEF FullOf
  <2>6. Promise!Place(j, s)
    BY <2>1, <2>3, <2>4, <2>5 DEF Promise!Place, Promise!Bytes, Extent, D
  <2>7. Promise!Malloc(j, s) \/ Promise!Realloc(j, s)
    BY <2>6 DEF Promise!Malloc, Promise!Realloc
  <2> QED BY <2>7 DEF Promise!Next
<1>5. ASSUME NEW j \in LiveOf(blocks), blocks' = [blocks EXCEPT ![j] = NoBlock],
             LiveOf(blocks') = LiveOf(blocks) \ {j}
      PROVE  Promise!Next
  <2>1. j \in Ids /\ blocks[j] # Promise!Nowhere /\ NoBlock = Promise!Nowhere
    BY DEF LiveOf, NoBlock, Promise!Nowhere, NULL
  <2>2. D' = [D EXCEPT ![j] = {}]
    BY <1>1, <1>5 DEF FullOf
  <2>3. Promise!Free(j)
    BY <1>5, <2>1, <2>2 DEF Promise!Free, D
  <2> QED BY <2>1, <2>3 DEF Promise!Next
<1>6. CASE blocks' = None
  <2>1. LiveOf(blocks') = {} /\ NoBlock = Promise!Nowhere
    BY <1>6 DEF LiveOf, None, NoBlock, Promise!Nowhere, NULL
  <2>2. D' = [j \in Ids |-> {}]
    BY <1>1, <2>1 DEF FullOf
  <2>3. Promise!Restart
    BY <1>6, <2>1, <2>2 DEF Promise!Restart, None, D
  <2> QED BY <2>3 DEF Promise!Next
<1> QED BY <1>3, <1>4, <1>5, <1>6 DEF BlockStep

(* Every behaviour of the allocator under its driver is one that malloc,    *)
(* free and realloc allow: live blocks are apart and stay where they are,   *)
(* with the data of their clients (malloclab.md:75-79).                     *)
THEOREM Implements == Spec => ImplementsAllocator
<1>1. DriverInit => Inv /\ Promise!Init
  BY InitInv, PromisedInit
<1>2. Inv /\ [Next]_vars => [Promise!Next]_<<blocks, [j \in Ids |-> Found(j)]>>
  BY StepInv, PromisedStep
<1>3. Spec => []Inv
  BY Invariant
<1> QED BY <1>1, <1>2, <1>3, PTL DEF Spec, ImplementsAllocator, Promise!Spec

-----------------------------------------------------------------------------
(* What a walk over the blocks meets.                                       *)

(* What the tags of a block say of it.                                      *)
BlockRead(h, sz, F, b) ==
    /\ GET_SIZE(h, HDRP(b)) = sz[b] /\ GET_ALLOC(h, HDRP(b)) = IF b \in F THEN 0 ELSE 1
    /\ FTRP(h, b) = b + sz[b] - DSIZE /\ NEXT_BLKP(h, b) = b + sz[b]

LEMMA ReadBlock ==
    ASSUME NEW h, NEW sz, NEW F, Good(h, sz, F), NEW b \in DOMAIN sz
    PROVE  BlockRead(h, sz, F, b)
<1>1. Tiling(sz, h.brk) /\ Tagged(h.mem, h.brk, sz, F)
  BY DEF Good, Shape, Frame
<1> QED BY <1>1, ReadTags DEF BlockRead

LEMMA ServedOnceInitialised ==
    ASSUME Inv, heap.listp # NULL
    PROVE  \E sz, F : Serves(heap, blocks, sz, F)
BY DEF Inv, HeapInv, Ready, Serving

(* It meets every block: a step goes 8 bytes at least, and over no block.   *)
LEMMA StartsAre ==
    ASSUME NEW sz, NEW F, Good(heap, sz, F)
    PROVE  Starts = DOMAIN sz
<1> DEFINE most == MAX_HEAP \div DSIZE
           brk == heap.brk
           D == DOMAIN sz \cup {brk}
           step == [x \in D |-> IF x < brk THEN x + sz[x] ELSE x]
           Follows(f) == f = [k \in 0 .. most |->
                                IF k = 0 THEN heap.listp
                                ELSE LET here == f[k - 1]
                                     IN IF here < heap.brk THEN NEXT_BLKP(heap, here) ELSE here]
           walk == CHOOSE f : Follows(f)
           met == {walk[k] : k \in DOMAIN walk}
<1>1. /\ Tiling(sz, brk) /\ Tagged(heap.mem, brk, sz, F) /\ heap.listp = Prologue
      /\ Prologue \in D /\ most \in Nat
  <2>1. most \in Nat
    BY HeapAssumption DEF DSIZE
  <2> QED BY <2>1 DEF Good, Shape, Frame, Tiling
<1>2. /\ brk \in Nat /\ brk <= MAX_HEAP /\ MAX_HEAP \in Nat /\ MAX_HEAP = 8 * most
      /\ \A b \in DOMAIN sz : /\ b \in Nat /\ sz[b] \in Nat /\ sz[b] >= 8 /\ b >= 8
                              /\ b + sz[b] <= brk /\ b + sz[b] \in D
      /\ \A a, b \in DOMAIN sz : a < b => a + sz[a] <= b
      /\ brk \notin DOMAIN sz
  <2>1. \A b \in DOMAIN sz : /\ b \in Nat /\ sz[b] \in Nat /\ sz[b] >= 8 /\ b >= 8
                             /\ b + sz[b] <= brk
    BY <1>1, BlockWords DEF DSIZE, Prologue, WSIZE
  <2>2. MAX_HEAP = 8 * most /\ MAX_HEAP \in Nat
    BY HeapAssumption DEF DSIZE
  <2> QED BY <1>1, <2>1, <2>2 DEF Tiling, Apart
<1>3. ASSUME NEW b \in DOMAIN sz PROVE NEXT_BLKP(heap, b) = b + sz[b]
  <2>1. BlockRead(heap, sz, F, b)
    BY ReadBlock
  <2> QED BY <2>1 DEF BlockRead
<1>4. step \in [D -> D] /\ \A x \in D : x < brk => x \in DOMAIN sz
  BY <1>2
<1> HIDE DEF most, brk, D
<1>5. \E f : Follows(f)
  <2>1. PICK f : Iterates(f, D, step, Prologue, most)
    <3> HIDE DEF step
    <3> QED BY <1>1, <1>4, IteratesExist
  <2>2. /\ f \in [0 .. most -> D] /\ f[0] = Prologue
        /\ \A k \in 1 .. most : f[k] = step[f[k - 1]]
    BY <2>1 DEF Iterates
  <2>3. ASSUME NEW k \in 0 .. most
        PROVE  f[k] = IF k = 0 THEN heap.listp
                      ELSE IF f[k - 1] < heap.brk THEN NEXT_BLKP(heap, f[k - 1]) ELSE f[k - 1]
    <3>1. CASE k = 0
      BY <3>1, <2>2, <1>1
    <3>2. CASE k # 0
      <4>1. k \in 1 .. most /\ f[k - 1] \in D
        BY <3>2, <2>2, <1>1
      <4> QED BY <4>1, <2>2, <1>3, <1>4, <3>2 DEF brk
    <3> QED BY <3>1, <3>2
  <2>4. Follows(f)
    BY <2>2, <2>3
  <2> QED BY <2>4
<1>6. Follows(walk)
  <2> HIDE DEF Follows
  <2> QED BY <1>5
<1>7. Starts = met \ {brk}
  BY DEF Starts, most, brk
<1> HIDE DEF walk
<1>8. /\ DOMAIN walk = 0 .. most /\ walk[0] = Prologue
      /\ \A k \in 1 .. most : walk[k] = IF walk[k - 1] < brk THEN NEXT_BLKP(heap, walk[k - 1])
                                        ELSE walk[k - 1]
  BY <1>1, <1>6 DEF brk
<1> DEFINE T == {k \in 0 .. most :
                   /\ walk[k] \in D
                   /\ walk[k] = brk \/ walk[k] >= 8 * k + 8
                   /\ \A b \in DOMAIN sz : b < walk[k] => b \in met}
<1>9. 0 \in T
  <2>1. \A b \in DOMAIN sz : ~(b < Prologue)
    BY <1>2 DEF Prologue, WSIZE
  <2> QED BY <1>1, <1>8, <2>1 DEF Prologue, WSIZE
<1>10. \A k \in 0 .. most : k \in T /\ k < most => k + 1 \in T
  <2> SUFFICES ASSUME NEW k \in 0 .. most, k \in T, k < most PROVE k + 1 \in T
    OBVIOUS
  <2>1. k + 1 \in 1 .. most /\ k + 1 \in 0 .. most /\ (k + 1) - 1 = k /\ k \in Nat
    BY <1>1
  <2>2. walk[k + 1] = IF walk[k] < brk THEN NEXT_BLKP(heap, walk[k]) ELSE walk[k]
    BY <1>8, <2>1
  <2>3. CASE walk[k] < brk
    <3> DEFINE w == walk[k]
    <3>1. w \in DOMAIN sz /\ walk[k + 1] = w + sz[w] /\ w >= 8 * k + 8 /\ w \in met
      BY <1>2, <1>3, <1>4, <1>8, <2>2, <2>3
    <3>2. /\ w \in Nat /\ sz[w] \in Nat /\ sz[w] >= 8 /\ w + sz[w] \in D
          /\ \A b \in DOMAIN sz : b < w => b \in met
      BY <3>1, <1>2
    <3> HIDE DEF w, met
    <3>3. w + sz[w] >= 8 * (k + 1) + 8
      BY <2>1, <3>1, <3>2
    <3>4. ASSUME NEW b \in DOMAIN sz, b < w + sz[w] PROVE b \in met
      <4>1. b \in Nat /\ (w < b => w + sz[w] <= b)
        BY <1>2, <3>1
      <4>2. b < w \/ b = w
        BY <4>1, <3>2, <3>4
      <4> QED BY <4>2, <3>1, <3>2
    <3> QED BY <2>1, <3>1, <3>2, <3>3, <3>4
  <2>4. CASE ~(walk[k] < brk)
    <3>1. walk[k] = brk
      <4>1. \A b \in DOMAIN sz : b < brk
        BY <1>2
      <4> QED BY <2>4, <4>1 DEF D
    <3> QED BY <2>1, <2>2, <2>4, <3>1
  <2> QED BY <2>3, <2>4
<1> HIDE DEF T
<1>11. 0 .. most \subseteq T
  BY <1>1, <1>9, <1>10, BoundedInduct
<1>12. \A k \in 0 .. most : walk[k] \in D
  BY <1>11 DEF T
<1>13. walk[most] = brk
  <2>1. most \in T
    BY <1>1, <1>11
  <2>2. walk[most] \in D /\ (walk[most] = brk \/ walk[most] >= 8 * most + 8)
    BY <2>1 DEF T
  <2>3. walk[most] <= brk /\ walk[most] \in Nat
    BY <1>2, <2>2 DEF D
  <2> QED BY <1>1, <1>2, <2>2, <2>3
<1>14. DOMAIN sz \subseteq met
  <2>1. most \in T
    BY <1>1, <1>11
  <2>2. \A b \in DOMAIN sz : b < walk[most]
    BY <1>2, <1>13
  <2> QED BY <2>1, <2>2 DEF T
<1>15. met \subseteq D
  BY <1>8, <1>12
<1> QED BY <1>2, <1>7, <1>14, <1>15 DEF D

(* The blocks tile the heap: each has its size at both ends, the next one   *)
(* begins where it ends, and the last ends at brk, where the epilogue is.   *)
THEOREM Tiled == Spec => []TagsTile
<1>1. Inv => TagsTile
  <2> SUFFICES ASSUME Inv, heap.listp # NULL
               PROVE  /\ \A b \in Starts :
                            /\ b % DSIZE = 0 /\ b + GET_SIZE(heap, HDRP(b)) <= heap.brk
                            /\ heap.mem[HDRP(b)] = heap.mem[FTRP(heap, b)]
                      /\ heap.mem[HDRP(heap.brk)] = PACK(0, 1)
    BY DEF TagsTile
  <2>1. PICK sz, F : Serves(heap, blocks, sz, F)
    BY ServedOnceInitialised
  <2>2. /\ Good(heap, sz, F) /\ Tiling(sz, heap.brk) /\ Tagged(heap.mem, heap.brk, sz, F)
        /\ Starts = DOMAIN sz
    BY <2>1, StartsAre DEF Serves, Good, Shape, Frame
  <2>3. ASSUME NEW b \in Starts
        PROVE  /\ b % DSIZE = 0 /\ b + GET_SIZE(heap, HDRP(b)) <= heap.brk
               /\ heap.mem[HDRP(b)] = heap.mem[FTRP(heap, b)]
    <3>1. b \in DOMAIN sz
      BY <2>2
    <3>2. b % DSIZE = 0 /\ b + sz[b] <= heap.brk
      BY <2>2, <3>1, BlockWords
    <3>3. BlockRead(heap, sz, F, b)
      BY <2>2, <3>1, ReadBlock
    <3>4. heap.mem[HDRP(b)] = heap.mem[b + sz[b] - DSIZE]
      BY <2>2, <3>1 DEF Tagged
    <3> QED BY <3>2, <3>3, <3>4 DEF BlockRead
  <2> QED BY <2>2, <2>3 DEF Tagged
<1> QED BY <1>1, Invariant, PTL

(* The allocated blocks are the clients' live ones, with room for what they *)
(* asked for: no failure and no sequence of requests leaks a block.         *)
THEOREM NothingLeaked == Spec => []AllocatedAreLive
<1>1. Inv => AllocatedAreLive
  <2> SUFFICES ASSUME Inv, heap.listp # NULL
               PROVE  /\ {b \in Starts : ~IsFree(b)} \ Overhead = {blocks[j].ptr : j \in Live}
                      /\ \A j \in Live :
                           blocks[j].size + DSIZE <= GET_SIZE(heap, HDRP(blocks[j].ptr))
    BY DEF AllocatedAreLive
  <2>1. PICK sz, F : Serves(heap, blocks, sz, F)
    BY ServedOnceInitialised
  <2>2. /\ Good(heap, sz, F) /\ Tiling(sz, heap.brk) /\ Tagged(heap.mem, heap.brk, sz, F)
        /\ Starts = DOMAIN sz /\ heap.listp = Prologue /\ Live = LiveOf(blocks)
    BY <2>1, StartsAre DEF Serves, Good, Shape, Frame, Live, LiveOf
  <2>3. Overhead = {Prologue, Dummy}
    BY <2>2 DEF Overhead, dummy_blockp, Prologue, Dummy, WSIZE, DSIZE
  <2>4. \A b \in DOMAIN sz : IsFree(b) <=> b \in F
    <3>1. \A b \in DOMAIN sz : BlockRead(heap, sz, F, b)
      BY <2>2, ReadBlock
    <3> QED BY <3>1 DEF IsFree, BlockRead
  <2>5. {b \in Starts : ~IsFree(b)} = Allocated(sz, F)
    BY <2>2, <2>4 DEF Allocated
  <2>6. /\ Allocated(sz, F) = {Prologue, Dummy} \cup {blocks[j].ptr : j \in LiveOf(blocks)}
        /\ \A j \in LiveOf(blocks) : /\ blocks[j].ptr \notin {Prologue, Dummy}
                                     /\ blocks[j].size + DSIZE <= sz[blocks[j].ptr]
    BY <2>1 DEF Serves
  <2>7. ASSUME NEW j \in LiveOf(blocks)
        PROVE  GET_SIZE(heap, HDRP(blocks[j].ptr)) = sz[blocks[j].ptr]
    <3>1. blocks[j].ptr \in DOMAIN sz
      BY <2>6 DEF Allocated
    <3>2. BlockRead(heap, sz, F, blocks[j].ptr)
      BY <2>2, <3>1, ReadBlock
    <3> QED BY <3>2 DEF BlockRead
  <2> QED BY <2>2, <2>3, <2>5, <2>6, <2>7
<1> QED BY <1>1, Invariant, PTL

(* Blocks are 16 bytes apart.                                               *)
LEMMA SixteenApart ==
    ASSUME NEW sz, NEW brk, Tiling(sz, brk),
           NEW a \in Ordinary(sz), NEW b \in Ordinary(sz), a # b
    PROVE  a \div 16 # b \div 16 /\ a \div 16 \in 0 .. Most - 1
<1>1. /\ a \in Nat /\ b \in Nat /\ sz[a] \in Nat /\ sz[b] \in Nat /\ sz[a] >= 16 /\ sz[b] >= 16
      /\ a + sz[a] <= brk /\ brk \in Nat /\ brk <= MAX_HEAP
      /\ \A x, y \in DOMAIN sz : x < y => x + sz[x] <= y
      /\ a \in DOMAIN sz /\ b \in DOMAIN sz
  <2>1. /\ a \in DOMAIN sz /\ a # Prologue /\ b \in DOMAIN sz /\ b # Prologue
    BY DEF Ordinary
  <2>2. /\ a \in Nat /\ sz[a] \in Nat /\ sz[a] >= 2 * DSIZE /\ a + sz[a] <= brk
    BY <2>1, BlockWords
  <2>3. b \in Nat /\ sz[b] \in Nat /\ sz[b] >= 2 * DSIZE
    BY <2>1, BlockWords
  <2> QED BY <2>1, <2>2, <2>3 DEF DSIZE, Tiling, Apart
<1>2. a + 16 <= b \/ b + 16 <= a
  <2>1. a < b \/ b < a
    BY <1>1
  <2> QED BY <1>1, <2>1
<1>3. a \div 16 # b \div 16
  BY <1>1, <1>2
<1>4. a \div 16 \in 0 .. Most - 1
  <2>1. MAX_HEAP \in Nat /\ a + 16 <= MAX_HEAP /\ Most = MAX_HEAP \div 16
    BY <1>1, HeapAssumption DEF Most, DSIZE
  <2> QED BY <1>1, <2>1
<1> QED BY <1>3, <1>4

(* A search visits every free block, once, and nothing else: it does not    *)
(* come to a block again, as that block has one predecessor, and there are  *)
(* not more blocks than it has steps.                                       *)
Visits(h, F) ==
    /\ {FreeList(h)[k] : k \in DOMAIN FreeList(h)} = F
    /\ Cardinality(F) = Len(FreeList(h))

LEMMA FreeListVisits ==
    ASSUME NEW h, NEW sz, NEW F, Good(h, sz, F)
    PROVE  Visits(h, F)
<1>1. Frame(h, sz, F) /\ Tiling(sz, h.brk) /\ Ring(h.mem, F) /\ F \subseteq Ordinary(sz)
  BY DEF Good, Shape, Frame
<1>2. PICK hop, j : Walks(h, F, hop, j)
  BY <1>1, FreeListWalks
<1>3. /\ hop \in [0 .. Most -> Ringed(F)] /\ j \in 0 .. Most + 1
      /\ hop[0] = h.mem[Dummy + WSIZE]
      /\ \A k \in 1 .. Most : hop[k - 1] # Dummy => hop[k] = h.mem[hop[k - 1] + WSIZE]
      /\ \A k \in 0 .. Most : hop[k] = Dummy <=> k >= j
      /\ FreeList(h) = [k \in 1 .. j |-> hop[k - 1]]
  BY <1>2 DEF Walks
<1>4. Most \in Nat /\ j \in Nat /\ j <= Most + 1
  <2>1. Most \in Nat
    BY HeapAssumption DEF Most, DSIZE
  <2> QED BY <2>1, <1>3
<1>5. \A k \in 0 .. j - 1 : k \in 0 .. Most /\ hop[k] \in F /\ hop[k] # Dummy
  BY <1>3, <1>4 DEF Ringed
<1>6. /\ h.mem[hop[0]] = Dummy
      /\ \A k \in 1 .. j - 1 : h.mem[hop[k]] = hop[k - 1]
  <2>1. \A b \in Ringed(F) : h.mem[h.mem[b + WSIZE]] = b
    BY <1>1 DEF Ring, Linked
  <2>2. Dummy \in Ringed(F)
    BY DEF Ringed
  <2>3. ASSUME NEW k \in 1 .. j - 1 PROVE h.mem[hop[k]] = hop[k - 1]
    <3>1. k - 1 \in 0 .. j - 1 /\ k \in 1 .. Most
      BY <1>4
    <3>2. hop[k - 1] \in Ringed(F) /\ hop[k - 1] # Dummy
      BY <1>5, <3>1 DEF Ringed
    <3> QED BY <1>3, <2>1, <3>1, <3>2
  <2> QED BY <1>3, <2>1, <2>2, <2>3
<1> DEFINE T == {a \in 0 .. Most : \A b \in 0 .. j - 1 : a < b => hop[a] # hop[b]}
<1>7. 0 .. Most \subseteq T
  <2>1. 0 \in T
    <3> SUFFICES ASSUME NEW b \in 0 .. j - 1, 0 < b, hop[0] = hop[b] PROVE FALSE
      BY <1>4
    <3>1. b \in 1 .. j - 1 /\ b - 1 \in 0 .. j - 1
      BY <1>4
    <3>2. hop[b - 1] = Dummy
      BY <1>6, <3>1
    <3> QED BY <1>5, <3>1, <3>2
  <2>2. \A a \in 0 .. Most : a \in T /\ a < Most => a + 1 \in T
    <3> SUFFICES ASSUME NEW a \in T, a < Most, NEW b \in 0 .. j - 1, a + 1 < b,
                        hop[a + 1] = hop[b]
                 PROVE  FALSE
      BY <1>4
    <3>1. b \in 1 .. j - 1 /\ b - 1 \in 0 .. j - 1 /\ a < b - 1
          /\ a + 1 \in 1 .. j - 1 /\ (a + 1) - 1 = a
      BY <1>4
    <3>2. h.mem[hop[a + 1]] = hop[a] /\ h.mem[hop[b]] = hop[b - 1]
      BY <1>6, <3>1
    <3>3. hop[a] # hop[b - 1]
      BY <3>1
    <3> QED BY <3>2, <3>3
  <2> HIDE DEF T
  <2> QED BY <1>4, <2>1, <2>2, BoundedInduct
<1>8. \A a, b \in 0 .. j - 1 : a # b => hop[a] # hop[b]
  <2> SUFFICES ASSUME NEW a \in 0 .. j - 1, NEW b \in 0 .. j - 1, a < b PROVE hop[a] # hop[b]
    BY <1>4
  <2>1. a \in T
    BY <1>4, <1>7
  <2> QED BY <2>1
<1> HIDE DEF T
<1>9. j <= Most
  <2> SUFFICES ASSUME j = Most + 1 PROVE FALSE
    BY <1>4
  <2> DEFINE f == [k \in 0 .. Most |-> hop[k] \div 16]
             R == 0 .. Most - 1
  <2>1. /\ \A k \in 0 .. Most : f[k] = hop[k] \div 16 /\ k \in 0 .. j - 1
        /\ DOMAIN f = 0 .. Most
    BY <1>4
  <2>2. ASSUME NEW a \in 0 .. Most, NEW b \in 0 .. Most, a # b
        PROVE  f[a] # f[b] /\ f[a] \in R
    <3>1. hop[a] \in Ordinary(sz) /\ hop[b] \in Ordinary(sz) /\ hop[a] # hop[b]
      BY <1>1, <1>5, <1>8, <2>1, <2>2
    <3>2. hop[a] \div 16 # hop[b] \div 16 /\ hop[a] \div 16 \in 0 .. Most - 1
      BY <1>1, <3>1, SixteenApart
    <3> QED BY <2>1, <3>2
  <2>3. CASE Most = 0
    <3>1. 8 * WSIZE + CHUNKSIZE <= MAX_HEAP /\ MAX_HEAP \in Nat /\ CHUNKSIZE \in Nat
      BY HeapAssumption
    <3> QED BY <2>3, <3>1 DEF Most, WSIZE, DSIZE
  <2>4. CASE Most # 0
    <3>1. \A a \in 0 .. Most : f[a] \in R
      <4> SUFFICES ASSUME NEW a \in 0 .. Most PROVE f[a] \in R
        OBVIOUS
      <4>1. CASE a = 0
        <5>1. 1 \in 0 .. Most /\ a # 1
          BY <1>4, <2>4, <4>1
        <5> QED BY <2>2, <5>1
      <4>2. CASE a # 0
        <5>1. 0 \in 0 .. Most
          BY <1>4
        <5> QED BY <2>2, <4>2, <5>1
      <4> QED BY <4>1, <4>2
    <3>2. f \in [0 .. Most -> R]
      BY <2>1, <3>1
    <3>3. /\ IsFiniteSet(0 .. Most) /\ IsFiniteSet(R)
          /\ Cardinality(R) < Cardinality(0 .. Most)
      <4>1. /\ IsFiniteSet(0 .. Most) /\ Cardinality(0 .. Most) = Most + 1
        BY <1>4, FS_Interval
      <4>2. /\ IsFiniteSet(R) /\ Cardinality(R) = Most
        BY <1>4, <2>4, FS_Interval
      <4> QED BY <1>4, <4>1, <4>2
    <3> HIDE DEF f, R
    <3>4. \E x, y \in 0 .. Most : x # y /\ f[x] = f[y]
      BY <3>2, <3>3, FS_PigeonHole
    <3> QED BY <2>2, <3>4
  <2> QED BY <2>3, <2>4
<1> DEFINE V == {hop[k] : k \in 0 .. j - 1}
<1>10. V = F
  <2> DEFINE S == V \cup {Dummy}
  <2>1. S \subseteq Ringed(F) /\ Dummy \in S
    BY <1>5 DEF Ringed
  <2>2. ASSUME NEW b \in S PROVE h.mem[b + WSIZE] \in S
    <3>1. \A k \in 0 .. j : hop[k] \in S
      <4> SUFFICES ASSUME NEW k \in 0 .. j PROVE hop[k] \in S
        OBVIOUS
      <4>1. CASE k = j
        <5>1. j \in 0 .. Most
          BY <1>4, <1>9
        <5>2. hop[j] = Dummy
          BY <1>3, <1>4, <5>1
        <5> QED BY <4>1, <5>2
      <4>2. CASE k # j
        <5>1. k \in 0 .. j - 1
          BY <1>4, <4>2
        <5> QED BY <5>1
      <4> QED BY <4>1, <4>2
    <3>2. CASE b = Dummy
      <4>1. 0 \in 0 .. j
        BY <1>4
      <4> QED BY <3>1, <3>2, <4>1, <1>3
    <3>3. CASE b # Dummy
      <4>1. PICK k \in 0 .. j - 1 : b = hop[k]
        BY <3>3
      <4>2. k + 1 \in 1 .. Most /\ k + 1 \in 0 .. j /\ (k + 1) - 1 = k
        BY <1>4, <1>9
      <4>3. h.mem[b + WSIZE] = hop[k + 1]
        BY <1>3, <3>3, <4>1, <4>2
      <4> QED BY <3>1, <4>2, <4>3
    <3> QED BY <3>2, <3>3
  <2>3. S = Ringed(F)
    <3> HIDE DEF S
    <3>1. S \in SUBSET Ringed(F)
      BY <2>1
    <3> QED BY <1>1, <2>1, <2>2, <3>1 DEF Ring
  <2>4. Dummy \notin F /\ Dummy \notin V
    BY <1>1, <1>5 DEF Ordinary
  <2> QED BY <2>3, <2>4 DEF Ringed
<1>11. Cardinality(V) = j
  <2> DEFINE f == [k \in 0 .. j - 1 |-> hop[k]]
  <2>1. f \in Bijection(0 .. j - 1, V)
    <3>1. f \in [0 .. j - 1 -> V] /\ \A a, b \in 0 .. j - 1 : f[a] = f[b] => a = b
      BY <1>8
    <3>2. \A v \in V : \E k \in 0 .. j - 1 : f[k] = v
      OBVIOUS
    <3> QED BY <3>1, <3>2 DEF Bijection, Injection, Surjection, IsInjective
  <2>2. ExistsBijection(0 .. j - 1, V)
    BY <2>1 DEF ExistsBijection
  <2>3. IsFiniteSet(0 .. j - 1) /\ Cardinality(0 .. j - 1) = j
    <3>1. j - 1 \in Int /\ 0 \in Int
      BY <1>4
    <3>2. Cardinality(0 .. j - 1) = IF 0 > j - 1 THEN 0 ELSE (j - 1) - 0 + 1
      BY <3>1, FS_Interval
    <3>3. IsFiniteSet(0 .. j - 1)
      BY <3>1, FS_Interval
    <3> QED BY <1>4, <3>2, <3>3
  <2> HIDE DEF V
  <2>4. Cardinality(V) = Cardinality(0 .. j - 1)
    BY <2>2, <2>3, FS_Bijection
  <2> QED BY <2>3, <2>4
<1>12. Len(FreeList(h)) = j /\ DOMAIN FreeList(h) = 1 .. j
  BY <1>3, <1>4
<1>13. {FreeList(h)[k] : k \in DOMAIN FreeList(h)} = V
  <2>1. \A k \in 1 .. j : k - 1 \in 0 .. j - 1 /\ FreeList(h)[k] = hop[k - 1]
    BY <1>3, <1>4
  <2>2. \A k \in 0 .. j - 1 : k + 1 \in 1 .. j /\ FreeList(h)[k + 1] = hop[k]
    BY <1>3, <1>4
  <2> QED BY <1>12, <2>1, <2>2
<1> QED BY <1>10, <1>11, <1>12, <1>13 DEF Visits

(* The free list holds the free blocks, each once and linked both ways, and *)
(* no two neighbours in memory are both free (check_freelist of mm.c).      *)
THEOREM FreeListHeld == Spec => []FreeListExact
<1>1. Inv => FreeListExact
  <2> DEFINE list == FreeList(heap)
             listed == {list[k] : k \in DOMAIN list}
  <2> SUFFICES ASSUME Inv, heap.listp # NULL
               PROVE  /\ listed = {b \in Starts : IsFree(b)}
                      /\ Cardinality(listed) = Len(list)
                      /\ \A b \in listed \cup {dummy_blockp(heap)} :
                             GET_PRED(heap, GET_SUCC(heap, b)) = b
                      /\ \A b \in listed : NEXT_BLKP(heap, b) \notin listed
    BY DEF FreeListExact
  <2>1. PICK sz, F : Serves(heap, blocks, sz, F)
    BY ServedOnceInitialised
  <2>2. /\ Good(heap, sz, F) /\ Starts = DOMAIN sz /\ heap.listp = Prologue
        /\ Ring(heap.mem, F) /\ F \subseteq DOMAIN sz /\ \A b \in F : b + sz[b] \notin F
    BY <2>1, StartsAre DEF Serves, Good, Shape, Frame, Ordinary
  <2>3. \A b \in DOMAIN sz : BlockRead(heap, sz, F, b)
    BY <2>2, ReadBlock
  <2>4. listed = F /\ Cardinality(F) = Len(list)
    BY <2>2, FreeListVisits DEF Visits
  <2> HIDE DEF listed, list
  <2>5. {b \in Starts : IsFree(b)} = F
    BY <2>2, <2>3 DEF BlockRead, IsFree
  <2>6. \A b \in F \cup {dummy_blockp(heap)} : GET_PRED(heap, GET_SUCC(heap, b)) = b
    <3>1. dummy_blockp(heap) = Dummy
      BY <2>2 DEF dummy_blockp, Prologue, Dummy, WSIZE, DSIZE
    <3> QED BY <2>2, <3>1 DEF Ring, Linked, Ringed, GET_PRED, GET_SUCC
  <2>7. \A b \in F : NEXT_BLKP(heap, b) \notin F
    BY <2>2, <2>3 DEF BlockRead
  <2> QED BY <2>4, <2>5, <2>6, <2>7
<1> QED BY <1>1, Invariant, PTL

-----------------------------------------------------------------------------
(* The utilization.                                                         *)

(* What is apart and between lo and hi takes at most the room between them. *)
Inside(p, s, T, lo, hi) ==
    /\ lo <= hi
    /\ \A x \in T : lo <= p[x] /\ s[x] > 0 /\ p[x] + s[x] <= hi
    /\ \A x, y \in T : x # y => p[x] + s[x] <= p[y] \/ p[y] + s[y] <= p[x]

LEMMA LastOf ==
    ASSUME NEW T, T # {}, NEW p, NEW hi \in Nat, \A x \in T : p[x] \in Nat /\ p[x] <= hi
    PROVE  \E x \in T : \A y \in T : p[y] <= p[x]
<1> DEFINE Gaps == {hi - p[x] : x \in T}
<1>1. Gaps \in SUBSET Nat /\ Gaps # {}
  OBVIOUS
<1>2. Min(Gaps) \in Gaps /\ \A g \in Gaps : Min(Gaps) <= g
  BY <1>1, NatMin
<1>3. PICK x \in T : Min(Gaps) = hi - p[x]
  BY <1>2
<1>4. ASSUME NEW y \in T PROVE p[y] <= p[x]
  <2>1. hi - p[x] <= hi - p[y]
    BY <1>2, <1>3
  <2> QED BY <2>1
<1> QED BY <1>4

LEMMA InsideFits ==
    ASSUME NEW S, IsFiniteSet(S), NEW p, NEW s, \A x \in S : p[x] \in Nat /\ s[x] \in Nat,
           NEW lo \in Nat, NEW hi \in Nat, Inside(p, s, S, lo, hi)
    PROVE  lo + SumOf(s, S) <= hi
<1> DEFINE Fits(T) == \A top \in Nat : Inside(p, s, T, lo, top) => lo + SumOf(s, T) <= top
           N == {k \in Nat : \A T \in SUBSET S : Cardinality(T) = k => Fits(T)}
<1>1. 0 \in N
  <2>1. \A T \in SUBSET S : Cardinality(T) = 0 => T = {}
    BY SubsetSizes
  <2>2. Fits({})
    BY SumEmpty DEF Inside
  <2> HIDE DEF Fits
  <2> QED BY <2>1, <2>2
<1>2. ASSUME NEW k \in N PROVE k + 1 \in N
  <2>1. ASSUME NEW T \in SUBSET S, Cardinality(T) = k + 1, NEW top \in Nat,
               Inside(p, s, T, lo, top)
        PROVE  lo + SumOf(s, T) <= top
    <3>1. IsFiniteSet(T) /\ T # {} /\ \A x \in T : p[x] \in Nat /\ s[x] \in Nat /\ p[x] <= top
      <4>1. IsFiniteSet(T) /\ (Cardinality(T) = 0 <=> T = {})
        BY SubsetSizes
      <4> QED BY <4>1, <2>1 DEF Inside
    <3>2. PICK x \in T : \A y \in T : p[y] <= p[x]
      BY <3>1, LastOf
    <3>3. Cardinality(T \ {x}) = k /\ T \ {x} \in SUBSET S
      BY <2>1, SubsetSizes
    <3>4. Inside(p, s, T \ {x}, lo, p[x])
      <4>1. ASSUME NEW y \in T \ {x} PROVE p[y] + s[y] <= p[x]
        <5>1. p[y] <= p[x] /\ s[x] > 0 /\ (p[x] + s[x] <= p[y] \/ p[y] + s[y] <= p[x])
          BY <2>1, <3>2 DEF Inside
        <5> QED BY <5>1, <3>1
      <4> QED BY <2>1, <4>1 DEF Inside
    <3>5. lo + SumOf(s, T \ {x}) <= p[x]
      BY <3>1, <3>3, <3>4
    <3>6. SumOf(s, T) = s[x] + SumOf(s, T \ {x})
      BY <3>1, SumAdd
    <3>7. SumOf(s, T \ {x}) \in Nat
      BY <3>1, SumType, FS_Subset
    <3>8. p[x] + s[x] <= top
      BY <2>1 DEF Inside
    <3> QED BY <3>1, <3>5, <3>6, <3>7, <3>8
  <2> QED BY <2>1
<1> HIDE DEF N
<1>3. N = Nat
  BY <1>1, <1>2, NatInduct DEF N
<1>4. Cardinality(S) \in Nat
  BY FS_CardinalityType
<1> QED BY <1>3, <1>4 DEF N

SizesOf(bl) == [j \in Ids |-> bl[j].size]

LEMMA SumOfLive == MapThenSumSet(LAMBDA j : blocks[j].size, Live) = SumOf(SizesOf(blocks), Live)
<1> DEFINE f == SizesOf(blocks)
           Chosen(g) == g = [s \in SUBSET Live |->
                               IF s = {} THEN 0
                               ELSE LET x == CHOOSE x \in s : TRUE
                                    IN blocks[x].size + g[s \ {x}]]
<1>1. MapThenSumSet(LAMBDA j : blocks[j].size, Live) = (CHOOSE g : Chosen(g))[Live]
  BY Zenon DEF MapThenSumSet, MapThenFoldSet
<1>2. SumOf(f, Live) = (CHOOSE g : Sums(g, f, Live))[Live]
  BY SumIsChosen
<1>3. ASSUME NEW g PROVE Chosen(g) <=> Sums(g, f, Live)
  <2>1. ASSUME NEW s \in SUBSET Live, s # {}
        PROVE  f[CHOOSE x \in s : TRUE] = blocks[CHOOSE x \in s : TRUE].size
    <3>1. (CHOOSE x \in s : TRUE) \in s /\ s \subseteq Ids
      BY <2>1 DEF Live
    <3> QED BY <3>1 DEF SizesOf
  <2> HIDE DEF f
  <2> QED BY <2>1 DEF Sums
<1> HIDE DEF Chosen, f
<1>4. (CHOOSE g : Chosen(g)) = (CHOOSE g : Sums(g, f, Live))
  BY <1>3
<1> QED BY <1>1, <1>2, <1>4 DEF f

LEMMA BlockSizes ==
    ASSUME NEW bl \in Blocks, NEW j \in Ids
    PROVE  bl[j].size \in Nat /\ SizesOf(bl)[j] = bl[j].size /\ bl[j].size \in Sizes \cup {0}
           /\ (j \notin LiveOf(bl) => bl[j].size = 0)
BY SizesAssumption DEF Blocks, SizesOf, LiveOf, NoBlock

(* What is live fits into the heap, behind the first word.                  *)
LEMMA LiveFits ==
    ASSUME NEW h, NEW bl, Serving(h, bl), IsFiniteSet(LiveOf(bl))
    PROVE  /\ SumOf(SizesOf(bl), LiveOf(bl)) \in Nat
           /\ h.brk \in Nat /\ SumOf(SizesOf(bl), LiveOf(bl)) < h.brk
<1> DEFINE p == [j \in Ids |-> bl[j].ptr]
           s == SizesOf(bl)
           L == LiveOf(bl)
<1>1. bl \in Blocks /\ h.brk \in Nat /\ h.brk >= 1
  <2>1. PICK sz, F : Serves(h, bl, sz, F)
    BY DEF Serving
  <2>2. Tiling(sz, h.brk) /\ bl \in Blocks
    BY <2>1 DEF Serves, Good, Shape, Frame
  <2>3. Dummy + 2 * DSIZE <= h.brk /\ h.brk \in Nat
    BY <2>2 DEF Tiling
  <2> QED BY <2>2, <2>3 DEF Dummy, DSIZE, WSIZE
<1>2. \A j \in L : j \in Ids
  BY DEF LiveOf
<1>3. ASSUME NEW j \in L
      PROVE  /\ p[j] \in Nat /\ s[j] \in Nat /\ p[j] >= 1 /\ s[j] > 0 /\ p[j] + s[j] <= h.brk
             /\ Extent(bl[j]) = p[j] .. p[j] + s[j] - 1
             /\ \A k \in L \ {j} : Extent(bl[j]) \cap Extent(bl[k]) = {}
  <2>1. s[j] = bl[j].size /\ p[j] = bl[j].ptr
    BY <1>1, <1>2, BlockSizes
  <2> HIDE DEF s, p
  <2> QED BY <2>1, LiveApart DEF Extent, NULL
<1> HIDE DEF p, s, L
<1>4. ASSUME NEW j \in L, NEW k \in L, j # k
      PROVE  p[j] + s[j] <= p[k] \/ p[k] + s[k] <= p[j]
  <2>1. /\ p[j] \in Nat /\ s[j] \in Nat /\ s[j] > 0 /\ p[k] \in Nat /\ s[k] \in Nat /\ s[k] > 0
        /\ (p[j] .. p[j] + s[j] - 1) \cap (p[k] .. p[k] + s[k] - 1) = {}
    BY <1>3, <1>4
  <2>2. /\ p[j] \notin p[k] .. p[k] + s[k] - 1
        /\ p[k] \notin p[j] .. p[j] + s[j] - 1
    BY <2>1
  <2> QED BY <2>1, <2>2
<1>5. Inside(p, s, L, 1, h.brk)
  BY <1>1, <1>3, <1>4 DEF Inside
<1>6. IsFiniteSet(L) /\ \A j \in L : p[j] \in Nat /\ s[j] \in Nat
  BY <1>3 DEF L
<1>7. SumOf(s, L) \in Nat /\ 1 + SumOf(s, L) <= h.brk
  BY <1>1, <1>5, <1>6, InsideFits, SumType
<1> QED BY <1>1, <1>7 DEF s, L

(* What one index's block counts for.                                       *)
LEMMA SizeChanged ==
    ASSUME NEW bl \in Blocks, NEW j \in Ids, NEW cl \in Blocks,
           \A k \in Ids \ {j} : cl[k] = bl[k], IsFiniteSet(LiveOf(bl))
    PROVE  /\ IsFiniteSet(LiveOf(cl)) /\ SumOf(SizesOf(bl), LiveOf(bl)) \in Nat
           /\ SumOf(SizesOf(cl), LiveOf(cl))
                = SumOf(SizesOf(bl), LiveOf(bl)) + (cl[j].size - bl[j].size)
<1> DEFINE rest == LiveOf(bl) \ {j}
<1>1. \A k \in Ids \ {j} : cl[k] = bl[k]
  OBVIOUS
<1>2. LiveOf(cl) \ {j} = rest /\ rest \subseteq Ids
  BY <1>1 DEF LiveOf
<1>3. IsFiniteSet(rest)
  BY FS_Subset
<1>4. IsFiniteSet(LiveOf(cl))
  <2>1. LiveOf(cl) \subseteq rest \cup {j}
    BY <1>2
  <2>2. IsFiniteSet(rest \cup {j})
    BY <1>3, FS_AddElement
  <2> QED BY <2>1, <2>2, FS_Subset
<1>5. ASSUME NEW dl \in Blocks, IsFiniteSet(LiveOf(dl)), LiveOf(dl) \ {j} = rest
      PROVE  /\ SumOf(SizesOf(dl), LiveOf(dl)) = dl[j].size + SumOf(SizesOf(dl), rest)
             /\ SumOf(SizesOf(dl), rest) \in Nat /\ dl[j].size \in Nat
  <2>1. \A k \in LiveOf(dl) : k \in Ids /\ SizesOf(dl)[k] \in Nat
    BY BlockSizes DEF LiveOf
  <2>2. SizesOf(dl)[j] = dl[j].size /\ dl[j].size \in Nat /\ (j \notin LiveOf(dl) => dl[j].size = 0)
    BY BlockSizes
  <2>3. SumOf(SizesOf(dl), rest) \in Nat
    BY <1>3, <1>5, <2>1, SumType
  <2>4. CASE j \in LiveOf(dl)
    BY <1>5, <2>1, <2>2, <2>3, <2>4, SumAdd
  <2>5. CASE j \notin LiveOf(dl)
    <3>1. LiveOf(dl) = rest
      BY <1>5, <2>5
    <3> QED BY <2>2, <2>3, <2>5, <3>1
  <2> QED BY <2>2, <2>3, <2>4, <2>5
<1>6. SumOf(SizesOf(cl), rest) = SumOf(SizesOf(bl), rest)
  <2>1. \A k \in rest : SizesOf(bl)[k] \in Nat /\ SizesOf(cl)[k] = SizesOf(bl)[k]
    BY <1>1, <1>2, BlockSizes DEF SizesOf
  <2> QED BY <1>3, <2>1, SumSame
<1> HIDE DEF rest
<1>7. /\ SumOf(SizesOf(bl), LiveOf(bl)) = bl[j].size + SumOf(SizesOf(bl), rest)
      /\ SumOf(SizesOf(bl), rest) \in Nat /\ bl[j].size \in Nat
  BY <1>5 DEF rest
<1>8. /\ SumOf(SizesOf(cl), LiveOf(cl)) = cl[j].size + SumOf(SizesOf(cl), rest)
      /\ SumOf(SizesOf(cl), rest) \in Nat /\ cl[j].size \in Nat
  BY <1>2, <1>4, <1>5
<1> QED BY <1>4, <1>6, <1>7, <1>8

(* In eval_mm_util the totals are those of the live blocks, and the heap    *)
(* has had room for them: it does not become smaller during a pass.         *)
UtilInv ==
    pass = "eval_mm_util" =>
        /\ heap.listp # NULL /\ IsFiniteSet(Live)
        /\ total_size = SumOf(SizesOf(blocks), Live)
        /\ max_total_size \in Nat /\ total_size <= max_total_size /\ max_total_size < heap.brk

LEMMA UtilBegins ==
    ASSUME Inv, MeasureSpace
    PROVE  UtilInv'
<1>1. Serving(heap', blocks') /\ LiveOf(blocks') = {} /\ total_size' = 0 /\ max_total_size' = 0
  BY BeginStep DEF MeasureSpace, Begin
<1>2. IsFiniteSet({}) /\ Live' = {}
  BY <1>1, FS_EmptySet DEF Live, LiveOf
<1>3. heap'.brk \in Nat /\ 0 < heap'.brk
  BY <1>1, <1>2, LiveFits
<1>4. heap'.listp # NULL
  BY <1>1, GoodListp DEF Serving, Serves
<1> QED BY <1>1, <1>2, <1>3, <1>4, SumEmpty DEF UtilInv

LEMMA UtilRepeats ==
    ASSUME Inv, Inv', UtilInv, Repeat
    PROVE  UtilInv'
<1> SUFFICES ASSUME pass' = "eval_mm_util" PROVE UtilInv'
  BY DEF UtilInv
<1> DEFINE r == trace[i + 1]
           j == r.index
           got == Answer(r)
<1>1. /\ pass \in {"eval_mm_util", "eval_mm_speed"} /\ Obeyed(r, got) /\ i < Len(trace)
  BY DEF Repeat
<1>2. /\ pass = pass' /\ heap' = got.heap /\ (r.type # "FREE" => got.ptr # NULL)
      /\ blocks' = [blocks EXCEPT ![j] = [ptr |-> got.ptr, size |-> r.size]]
  BY <1>1 DEF Obeyed
<1>3. /\ total_size' = total_size + (r.size - blocks[j].size)
      /\ max_total_size' = IF total_size' > max_total_size THEN total_size' ELSE max_total_size
  BY <1>2 DEF Repeat, TotalAfter
<1>4. /\ blocks \in Blocks /\ blocks' \in Blocks /\ heap \in Heap /\ heap' \in Heap
      /\ Ready(heap, blocks) /\ Ready(heap', blocks')
  BY ReadyBlocks DEF Inv, HeapInv
<1>5. Possible(r, Live) /\ r \in Requests /\ j \in Ids
  <2>1. /\ Consistent /\ trace \in Seq(Requests) /\ i \in 0 .. Len(trace) /\ Len(trace) \in Nat
        /\ LiveOf(blocks) = LiveAt(i)
    BY <1>1 DEF Inv, TraceInv
  <2>2. i + 1 \in 1 .. Len(trace) /\ (i + 1) - 1 = i
    BY <1>1, <2>1
  <2>3. Possible(r, LiveAt(i)) /\ r \in Requests
    BY <2>1, <2>2 DEF Consistent
  <2> QED BY <2>1, <2>3 DEF Live, LiveOf, Requests
<1>6. /\ heap.listp # NULL /\ IsFiniteSet(Live)
      /\ total_size = SumOf(SizesOf(blocks), Live)
      /\ max_total_size \in Nat /\ total_size <= max_total_size /\ max_total_size < heap.brk
  BY <1>2 DEF UtilInv
<1>7. Serving(heap, blocks)
  BY <1>4, <1>6 DEF Ready
<1>8. HasEnds(heap)
  BY <1>4, HeapAssumption DEF Heap, HasEnds
<1> HIDE DEF r, got
<1>9. Reaches(heap, heap')
  <2>1. CASE r.type = "ALLOC"
    <3>1. got = mm_malloc(heap, r.size) /\ r.size \in Sizes
      BY <2>1, <1>5 DEF got, Answer, Possible
    <3> QED BY <1>2, <1>6, <1>8, <3>1, SizesAsked, MallocEnds
  <2>2. CASE r.type = "REALLOC"
    <3>1. got = mm_realloc(heap, blocks[j].ptr, r.size) /\ r.size \in Sizes /\ j \in LiveOf(blocks)
      BY <2>2, <1>5 DEF got, Answer, Possible, Live, LiveOf
    <3>2. blocks[j].ptr # NULL
      BY <1>7, <3>1, LiveApart
    <3> QED BY <1>2, <1>6, <1>8, <3>1, <3>2, SizesAsked, ReallocEnds
  <2>3. CASE r.type = "FREE"
    <3>1. got.heap = mm_free(heap, blocks[j].ptr)
      BY <2>3 DEF got, Answer, Result
    <3>2. SameEnds(heap, got.heap) /\ HasEnds(got.heap)
      BY <1>6, <1>8, <3>1, FreeEnds
    <3> QED BY <1>2, <1>8, <3>2 DEF SameEnds, HasEnds, Reaches
  <2> QED BY <1>5, <2>1, <2>2, <2>3 DEF Requests
<1>10. heap'.listp # NULL /\ heap.brk <= heap'.brk /\ Serving(heap', blocks')
  BY <1>4, <1>6, <1>9 DEF Reaches, Ready
<1>11. Live = LiveOf(blocks) /\ Live' = LiveOf(blocks') /\ blocks'[j].size = r.size
  BY <1>2, <1>4, <1>5 DEF Live, LiveOf, Blocks
<1>12. /\ IsFiniteSet(Live') /\ SumOf(SizesOf(blocks), Live) \in Nat
       /\ SumOf(SizesOf(blocks'), Live')
             = SumOf(SizesOf(blocks), Live) + (blocks'[j].size - blocks[j].size)
  <2>1. IsFiniteSet(LiveOf(blocks))
    BY <1>6, <1>11
  <2>2. \A k \in Ids \ {j} : blocks'[k] = blocks[k]
    BY <1>2, <1>4 DEF Blocks
  <2> HIDE DEF j
  <2>3. /\ IsFiniteSet(LiveOf(blocks')) /\ SumOf(SizesOf(blocks), LiveOf(blocks)) \in Nat
        /\ SumOf(SizesOf(blocks'), LiveOf(blocks'))
             = SumOf(SizesOf(blocks), LiveOf(blocks)) + (blocks'[j].size - blocks[j].size)
    BY <1>4, <1>5, <2>1, <2>2, SizeChanged
  <2> QED BY <1>11, <2>3 DEF j
<1>13. total_size' = SumOf(SizesOf(blocks'), Live')
  BY <1>3, <1>6, <1>11, <1>12
<1>14. total_size' \in Nat /\ total_size' < heap'.brk /\ heap'.brk \in Nat
  BY <1>10, <1>11, <1>12, <1>13, LiveFits
<1>15. heap.brk \in Nat
  BY <1>8 DEF HasEnds
<1>16. max_total_size' \in Nat /\ total_size' <= max_total_size' /\ max_total_size' < heap'.brk
  BY <1>3, <1>6, <1>10, <1>14, <1>15
<1> QED BY <1>10, <1>12, <1>13, <1>16 DEF UtilInv

LEMMA UtilStep ==
    ASSUME Inv, Inv', UtilInv, [Next]_vars
    PROVE  UtilInv'
<1>1. CASE eval_mm_valid
  BY <1>1 DEF eval_mm_valid, read_trace, UtilInv
<1>2. CASE Repeat
  BY <1>2, UtilRepeats
<1>3. CASE MeasureSpace
  BY <1>3, UtilBegins
<1>4. CASE ftimer_gettod
  <2>1. pass' # "eval_mm_util"
    BY <1>4 DEF ftimer_gettod, Begin
  <2> QED BY <2>1 DEF UtilInv
<1>5. CASE NextTrace
  BY <1>5 DEF NextTrace, UtilInv
<1>6. CASE UNCHANGED vars
  BY <1>6 DEF vars, mmVars, stats, UtilInv, Live
<1> QED BY <1>1, <1>2, <1>3, <1>4, <1>5, <1>6 DEF Next

(* The total of eval_mm_util is that of the live blocks after every request *)
(* of any trace, and at its highest below the size of the heap.             *)
THEOREM UtilizationRight == Spec => []UtilizationSound
<1>1. DriverInit => UtilInv
  BY DEF DriverInit, UtilInv
<1>2. DriverInit => Inv
  BY InitInv
<1>3. Inv /\ [Next]_vars => Inv'
  BY StepInv
<1>4. Inv /\ Inv' /\ UtilInv /\ [Next]_vars => UtilInv'
  BY UtilStep
<1>5. UtilInv => UtilizationSound
  BY SumOfLive DEF UtilInv, UtilizationSound
<1> QED BY <1>1, <1>2, <1>3, <1>4, <1>5, PTL DEF Spec

-----------------------------------------------------------------------------
(* The later passes answer like the first.  Each begins on memory full of   *)
(* the remains of others, and eval_mm_valid wrote data that they do not: so *)
(* their heaps are not those of the first pass, but twins of them.          *)

(* What fills a block of a heap leaves its twins its twins.                 *)
LEMMA MemsetTwin ==
    ASSUME NEW h, NEW bl, Serving(h, bl), NEW j \in LiveOf(bl), NEW g, Twin(h, g)
    PROVE  Twin(memset(h, bl[j], j), g)
<1> DEFINE m == [a \in Words |-> IF a \in Extent(bl[j]) THEN j ELSE h.mem[a]]
           k == [h EXCEPT !.mem = m]
           to == bl[j].ptr
<1>1. PICK sz, F : Serves(h, bl, sz, F)
  BY DEF Serving
<1>2. /\ Good(h, sz, F) /\ to \in Allocated(sz, F) \ {Prologue, Dummy}
      /\ Words \cap Extent(bl[j]) \subseteq Payload(sz, to)
  BY <1>1, LiveBlocks
<1>3. h \in Heap /\ j \in Ids /\ h.mem \in [Words -> Nat \cup Ids \cup {Junk}]
  BY <1>2 DEF Good, Shape, Frame, Heap, LiveOf
<1>4. m \in [Words -> Nat \cup Ids \cup {Junk}]
  BY <1>3
<1>5. \A a \in Words : a \notin Payload(sz, to) => m[a] = h.mem[a]
  BY <1>2
<1>6. memset(h, bl[j], j) = k
  BY DEF memset
<1> HIDE DEF m, to
<1>7. Good(k, sz, F)
  BY <1>2, <1>4, <1>5, DataShape
<1>8. k.mem = m /\ k.brk = h.brk /\ k.listp = h.listp /\ k \in Heap
  BY <1>3, <1>4, HeapParts
<1> HIDE DEF k
<1>9. PICK X : Like(h, g, X) /\ Covers(X, sz, h.brk, F)
  BY <1>2 DEF Twin, Alike
<1>10. Like(k, g, X \ Payload(sz, to))
  <2>1. Fields(k)
    BY <1>8, HeapFields
  <2> QED BY <1>5, <1>8, <1>9, <2>1 DEF Like
<1>11. Covers(X \ Payload(sz, to), sz, k.brk, F)
  BY <1>2, <1>8, <1>9, CoversApart
<1>12. Twin(k, g)
  BY <1>7, <1>10, <1>11, TwinOf DEF Alike
<1> QED BY <1>6, <1>12

(* What mdriver's later passes do with a request, on any heap.              *)
Reply(h, bl, r) ==
    CASE r.type = "ALLOC" -> mm_malloc(h, r.size)
      [] r.type = "REALLOC" -> mm_realloc(h, bl[r.index].ptr, r.size)
      [] r.type = "FREE" -> Result(mm_free(h, bl[r.index].ptr), NULL)

(* Request r takes heap h with blocks bl to heap k with blocks cl, and any  *)
(* twin of h to a twin of k with the same blocks.                           *)
Replays(h, bl, r, k, cl) ==
    \A g \in Heap :
        Twin(h, g) => /\ Twin(k, Reply(g, bl, r).heap)
                      /\ r.type # "FREE" => Reply(g, bl, r).ptr # NULL
                      /\ cl = Put(bl, r.index, Reply(g, bl, r).ptr, r.size)

(* A pass can begin on any memory with a twin of h.                         *)
Fresh(h) == \A g \in Heap : FromScratch(g).ptr # NULL /\ Twin(h, FromScratch(g).heap)

(* C[k] is the heap of eval_mm_valid after the first k requests of the      *)
(* trace.  The later passes have met twins of those before i + 1.           *)
AnswersAt(k) == IF k = 0 THEN None ELSE answers[k]
Chain(C) ==
    \A k \in 1 .. Len(trace) : Replays(C[k - 1], AnswersAt(k - 1), trace[k], C[k], answers[k])
Later == pass \in {"eval_mm_util", "eval_mm_speed"}
Recorded(C) ==
    /\ Fresh(C[0]) /\ Chain(C)
    /\ pass = "eval_mm_valid" =>
           /\ Serving(heap, blocks)
           /\ C[Len(trace)] = heap /\ AnswersAt(Len(trace)) = blocks
    /\ Later => Twin(C[i], heap) /\ AnswersAt(i) = blocks

History ==
    /\ pass # "app_error" /\ (Later => traced)
    /\ traced /\ verdict = "going" => \E C \in [0 .. Len(trace) -> Heap] : Recorded(C)

(* A block that malloc or realloc gave in eval_mm_valid.                    *)
LEMMA AnsweredReplays ==
    ASSUME NEW h, NEW bl \in Blocks, NEW r \in Requests, r.type # "FREE", NEW got,
           Answering(h, got, bl, r.index, r.size), got.ptr # NULL,
           \A g \in Heap : Twin(h, g) => TwinResult(got, Reply(g, bl, r))
    PROVE  LET cl == Put(bl, r.index, got.ptr, r.size)
           IN Replays(h, bl, r, memset(got.heap, cl[r.index], r.index), cl)
<1> DEFINE j == r.index
           cl == Put(bl, j, got.ptr, r.size)
           k == memset(got.heap, cl[j], j)
<1>1. Serving(got.heap, cl) /\ j \in LiveOf(cl)
  BY DEF Answering
<1>2. ASSUME NEW g \in Heap, Twin(h, g)
      PROVE  /\ Twin(k, Reply(g, bl, r).heap) /\ Reply(g, bl, r).ptr # NULL
             /\ cl = Put(bl, j, Reply(g, bl, r).ptr, r.size)
  <2> DEFINE s == Reply(g, bl, r)
  <2>1. s.ptr = got.ptr /\ Twin(got.heap, s.heap)
    BY <1>2 DEF TwinResult
  <2> HIDE DEF s, cl, j
  <2>2. Twin(k, s.heap)
    BY <1>1, <2>1, MemsetTwin
  <2> QED BY <2>1, <2>2 DEF s, cl
<1> QED BY <1>2 DEF Replays

(* A request of eval_mm_valid can be replayed.                              *)
LEMMA ValidReplays ==
    ASSUME Serving(heap, blocks), NEW r \in Requests, verdict = "going", verdict' = "going",
           \/ /\ r.type = "ALLOC" /\ r.index \in Ids \ LiveOf(blocks) /\ r.size \in Sizes
              /\ Answered(r.index, mm_malloc(heap, r.size), r.size)
           \/ /\ r.type = "REALLOC" /\ r.index \in LiveOf(blocks) /\ r.size \in Sizes
              /\ Answered(r.index, mm_realloc(heap, blocks[r.index].ptr, r.size), r.size)
           \/ /\ r.type = "FREE" /\ r.index \in LiveOf(blocks) /\ r.size = 0
              /\ heap' = mm_free(heap, blocks[r.index].ptr)
              /\ blocks' = [blocks EXCEPT ![r.index] = NoBlock]
    PROVE  Replays(heap, blocks, r, heap', blocks')
<1> DEFINE j == r.index
<1>1. PICK sz, F : Serves(heap, blocks, sz, F)
  BY DEF Serving
<1>2. Good(heap, sz, F) /\ blocks \in Blocks
  BY <1>1 DEF Serves
<1>3. ASSUME r.type # "FREE", r.size \in Sizes, NEW got, Answered(j, got, r.size),
             Answering(heap, got, blocks, j, r.size),
             \A g \in Heap : Twin(heap, g) => TwinResult(got, Reply(g, blocks, r))
      PROVE  Replays(heap, blocks, r, heap', blocks')
  <2> DEFINE cl == Put(blocks, j, got.ptr, r.size)
  <2>1. /\ got.ptr # NULL /\ blocks' = cl
        /\ heap' = memset(got.heap, [ptr |-> got.ptr, size |-> r.size], j)
    BY <1>3 DEF Answered, Put
  <2>2. cl[j] = [ptr |-> got.ptr, size |-> r.size]
    BY <1>2 DEF Put, Blocks, Requests
  <2>3. Replays(heap, blocks, r, memset(got.heap, cl[j], j), cl)
    BY <1>2, <1>3, <2>1, AnsweredReplays
  <2> QED BY <2>1, <2>2, <2>3
<1>4. CASE /\ r.type = "ALLOC" /\ j \in Ids \ LiveOf(blocks) /\ r.size \in Sizes
           /\ Answered(j, mm_malloc(heap, r.size), r.size)
  <2> DEFINE got == mm_malloc(heap, r.size)
  <2>1. Answering(heap, got, blocks, j, r.size)
    BY <1>4, MallocAnswering
  <2>2. \A g \in Heap : Twin(heap, g) => TwinResult(got, Reply(g, blocks, r))
    BY <1>2, <1>4, SizesAsked, MallocTwin DEF Reply
  <2> HIDE DEF got, j
  <2> QED BY <1>3, <1>4, <2>1, <2>2 DEF got
<1>5. CASE /\ r.type = "REALLOC" /\ j \in LiveOf(blocks) /\ r.size \in Sizes
           /\ Answered(j, mm_realloc(heap, blocks[j].ptr, r.size), r.size)
  <2> DEFINE p == blocks[j].ptr
             got == mm_realloc(heap, p, r.size)
  <2>1. Answering(heap, got, blocks, j, r.size)
    BY <1>5, ReallocAnswering
  <2>2. p \in Allocated(sz, F) \ {Prologue, Dummy}
    BY <1>1, <1>5, LiveBlocks
  <2>3. \A g \in Heap : Reply(g, blocks, r) = mm_realloc(g, p, r.size)
    BY <1>5 DEF Reply
  <2> HIDE DEF p
  <2>4. \A g \in Heap : Twin(heap, g) => TwinResult(got, Reply(g, blocks, r))
    BY <1>2, <1>5, <2>2, <2>3, SizesAsked, ReallocTwin
  <2> HIDE DEF got, j
  <2> QED BY <1>3, <1>5, <2>1, <2>4 DEF got, p
<1>6. CASE /\ r.type = "FREE" /\ j \in LiveOf(blocks) /\ r.size = 0
           /\ heap' = mm_free(heap, blocks[j].ptr)
           /\ blocks' = [blocks EXCEPT ![j] = NoBlock]
  <2> DEFINE p == blocks[j].ptr
  <2>1. p \in Allocated(sz, F) \ {Prologue, Dummy}
    BY <1>1, <1>6, LiveBlocks
  <2>2. \A g \in Heap : Reply(g, blocks, r) = Result(mm_free(g, p), NULL)
    BY <1>6 DEF Reply
  <2>3. blocks' = Put(blocks, j, NULL, r.size)
    BY <1>6 DEF Put, NoBlock
  <2> HIDE DEF p
  <2>4. ASSUME NEW g \in Heap, Twin(heap, g)
        PROVE  /\ Twin(heap', Reply(g, blocks, r).heap)
               /\ blocks' = Put(blocks, j, Reply(g, blocks, r).ptr, r.size)
    <3>1. Twin(mm_free(heap, p), mm_free(g, p))
      BY <1>2, <2>1, <2>4, FreeTwin
    <3>2. heap' = mm_free(heap, p)
      BY <1>6 DEF p
    <3> QED BY <2>2, <2>3, <3>1, <3>2 DEF Result
  <2> QED BY <1>6, <2>4 DEF Replays
<1> QED BY <1>4, <1>5, <1>6

(* eval_mm_valid records what it does.                                      *)
LEMMA ValidRecords ==
    ASSUME Inv, Inv', History, eval_mm_valid
    PROVE  History'
<1>1. /\ pass = "eval_mm_valid" /\ pass' = "eval_mm_valid" /\ verdict = "going"
      /\ Ready(heap, blocks) /\ Filled(heap, blocks)
      /\ trace \in Seq(Requests) /\ answers \in Seq(Blocks) /\ Len(answers) = Len(trace)
      /\ heap' \in Heap
  BY ReadyBlocks DEF eval_mm_valid, read_trace, Malloc, Realloc, Free, Inv, HeapInv, TraceInv
<1> SUFFICES ASSUME traced', verdict' = "going"
             PROVE  \E C \in [0 .. Len(trace') -> Heap] : Recorded(C)'
  BY <1>1 DEF History, Later
<1>2. PICK r \in Requests :
      /\ read_trace(r)
      /\ \/ /\ r.type = "ALLOC" /\ r.index \in Ids \ LiveOf(blocks) /\ r.size \in Sizes
            /\ Answered(r.index, mm_malloc(heap, r.size), r.size)
         \/ /\ r.type = "REALLOC" /\ r.index \in LiveOf(blocks) /\ r.size \in Sizes
            /\ Answered(r.index, mm_realloc(heap, blocks[r.index].ptr, r.size), r.size)
         \/ /\ r.type = "FREE" /\ r.index \in LiveOf(blocks) /\ r.size = 0
            /\ heap' = mm_free(heap, blocks[r.index].ptr)
            /\ blocks' = [blocks EXCEPT ![r.index] = NoBlock]
  <2>1. ASSUME NEW j \in Ids, NEW s \in Sizes \cup {0}, NEW t \in {"ALLOC", "REALLOC", "FREE"}
        PROVE  /\ Request(t, j, s) \in Requests /\ Request(t, j, s).type = t
               /\ Request(t, j, s).index = j /\ Request(t, j, s).size = s
    BY DEF Requests, Request
  <2>2. CASE \E j \in Ids, s \in Sizes : Malloc(j, s) /\ read_trace(Request("ALLOC", j, s))
    <3>1. PICK j \in Ids, s \in Sizes : Malloc(j, s) /\ read_trace(Request("ALLOC", j, s))
      BY <2>2
    <3> DEFINE q == Request("ALLOC", j, s)
    <3>2. /\ q \in Requests /\ q.type = "ALLOC" /\ q.index = j /\ q.size = s /\ read_trace(q)
          /\ j \in Ids \ LiveOf(blocks) /\ Answered(j, mm_malloc(heap, s), s)
      BY <2>1, <3>1 DEF Malloc, Live, LiveOf
    <3> HIDE DEF q
    <3> QED BY <3>2
  <2>3. CASE \E j \in Ids, s \in Sizes : Realloc(j, s) /\ read_trace(Request("REALLOC", j, s))
    <3>1. PICK j \in Ids, s \in Sizes : Realloc(j, s) /\ read_trace(Request("REALLOC", j, s))
      BY <2>3
    <3> DEFINE q == Request("REALLOC", j, s)
    <3>2. /\ q \in Requests /\ q.type = "REALLOC" /\ q.index = j /\ q.size = s /\ read_trace(q)
          /\ j \in LiveOf(blocks) /\ Answered(j, mm_realloc(heap, blocks[j].ptr, s), s)
      BY <2>1, <3>1 DEF Realloc, Live, LiveOf
    <3> HIDE DEF q
    <3> QED BY <3>2
  <2>4. CASE \E j \in Ids : Free(j) /\ read_trace(Request("FREE", j, 0))
    <3>1. PICK j \in Ids : Free(j) /\ read_trace(Request("FREE", j, 0))
      BY <2>4
    <3> DEFINE q == Request("FREE", j, 0)
    <3>2. /\ q \in Requests /\ q.type = "FREE" /\ q.index = j /\ q.size = 0 /\ read_trace(q)
          /\ j \in LiveOf(blocks) /\ heap' = mm_free(heap, blocks[j].ptr)
          /\ blocks' = [blocks EXCEPT ![j] = NoBlock]
      BY <2>1, <3>1 DEF Free, Live, LiveOf
    <3> HIDE DEF q
    <3> QED BY <3>2
  <2> QED BY <2>2, <2>3, <2>4 DEF eval_mm_valid
<1>3. /\ traced /\ trace' = Append(trace, r) /\ answers' = Append(answers, blocks')
  BY <1>2 DEF read_trace
<1>4. PICK C \in [0 .. Len(trace) -> Heap] : Recorded(C)
  BY <1>1, <1>3 DEF History
<1>5. PICK m \in Nat : m = Len(trace)
  BY <1>1
<1>6. /\ Serving(heap, blocks) /\ C[m] = heap /\ AnswersAt(m) = blocks
      /\ Fresh(C[0]) /\ Chain(C)
  BY <1>1, <1>4, <1>5 DEF Recorded
<1>7. Replays(heap, blocks, r, heap', blocks')
  BY <1>1, <1>2, <1>6, ValidReplays
<1>8. Serving(heap', blocks')
  <2>1. CASE r.type = "FREE"
    BY <1>2, <1>6, <2>1, FreeServing
  <2>2. CASE r.type = "ALLOC"
    <3>1. Answering(heap, mm_malloc(heap, r.size), blocks, r.index, r.size)
      BY <1>2, <1>6, <2>2, MallocAnswering
    <3> QED BY <1>1, <1>2, <2>2, <3>1, AnsweredStep
  <2>3. CASE r.type = "REALLOC"
    <3>1. Answering(heap, mm_realloc(heap, blocks[r.index].ptr, r.size), blocks, r.index, r.size)
      BY <1>2, <1>6, <2>3, ReallocAnswering
    <3> QED BY <1>1, <1>2, <2>3, <3>1, AnsweredStep DEF LiveOf
  <2> QED BY <1>2, <2>1, <2>2, <2>3
<1>9. /\ Len(trace') = m + 1 /\ trace'[m + 1] = r /\ answers'[m + 1] = blocks'
      /\ \A k \in 1 .. m : trace'[k] = trace[k] /\ answers'[k] = answers[k]
  BY <1>1, <1>3, <1>5
<1>10. PICK D \in [0 .. m + 1 -> Heap] : D[m + 1] = heap' /\ \A k \in 0 .. m : D[k] = C[k]
  <2> DEFINE E == [k \in 0 .. m + 1 |-> IF k = m + 1 THEN heap' ELSE C[k]]
  <2>1. \A k \in 0 .. m + 1 : k # m + 1 => k \in 0 .. m
    OBVIOUS
  <2>2. E \in [0 .. m + 1 -> Heap]
    BY <1>1, <1>5, <2>1
  <2>3. m + 1 \in 0 .. m + 1 /\ \A k \in 0 .. m : k \in 0 .. m + 1 /\ k # m + 1
    OBVIOUS
  <2>4. E[m + 1] = heap' /\ \A k \in 0 .. m : E[k] = C[k]
    BY <2>3
  <2> HIDE DEF E
  <2> QED BY <2>2, <2>4
<1>11. D \in [0 .. Len(trace') -> Heap]
  BY <1>9, <1>10
<1>12. AnswersAt(m + 1)' = blocks' /\ \A k \in 0 .. m : AnswersAt(k)' = AnswersAt(k)
  <2>1. m + 1 # 0 /\ \A k \in 0 .. m : k # 0 => k \in 1 .. m
    OBVIOUS
  <2> QED BY <1>9, <2>1 DEF AnswersAt
<1>13. Chain(D)'
  <2> SUFFICES ASSUME NEW k \in 1 .. m + 1
               PROVE  Replays(D[k - 1], AnswersAt(k - 1)', trace'[k], D[k], answers'[k])
    BY <1>9 DEF Chain
  <2>1. k - 1 \in 0 .. m /\ D[k - 1] = C[k - 1] /\ AnswersAt(k - 1)' = AnswersAt(k - 1)
    <3>1. k - 1 \in 0 .. m
      OBVIOUS
    <3> QED BY <3>1, <1>10, <1>12
  <2>2. CASE k = m + 1
    <3>1. k - 1 = m
      BY <2>2
    <3> QED BY <2>1, <2>2, <3>1, <1>6, <1>7, <1>9, <1>10
  <2>3. CASE k # m + 1
    <3>1. k \in 1 .. m /\ k \in 0 .. m
      BY <2>3
    <3>2. D[k] = C[k] /\ trace'[k] = trace[k] /\ answers'[k] = answers[k]
      BY <3>1, <1>9, <1>10
    <3>3. Replays(C[k - 1], AnswersAt(k - 1), trace[k], C[k], answers[k])
      BY <3>1, <1>5, <1>6 DEF Chain
    <3> QED BY <2>1, <3>2, <3>3
  <2> QED BY <2>2, <2>3
<1>14. D[0] = C[0]
  <2>1. 0 \in 0 .. m
    OBVIOUS
  <2> QED BY <2>1, <1>10
<1>15. Recorded(D)'
  BY <1>1, <1>6, <1>8, <1>9, <1>10, <1>12, <1>13, <1>14 DEF Recorded, Later
<1> QED BY <1>11, <1>15

(* A later pass begins with a twin of the heap that the first began with.   *)
LEMMA BeginRecorded ==
    ASSUME Inv, History, traced, verdict = "going",
           NEW next \in {"eval_mm_util", "eval_mm_speed"}, NEW k, Begin(next, k)
    PROVE  History'
<1>1. heap \in Heap
  BY ReadyBlocks DEF Inv, HeapInv
<1>2. PICK C \in [0 .. Len(trace) -> Heap] : Recorded(C)
  BY DEF History
<1>3. Fresh(C[0]) /\ Chain(C) /\ FromScratch(heap).ptr # NULL /\ Twin(C[0], FromScratch(heap).heap)
  BY <1>1, <1>2 DEF Recorded, Fresh
<1>4. /\ heap' = FromScratch(heap).heap /\ pass' = next /\ blocks' = None /\ i' = 0
      /\ verdict' = verdict /\ trace' = trace /\ traced' = traced /\ answers' = answers
  BY <1>3 DEF Begin, None
<1>5. Chain(C)' /\ AnswersAt(0)' = None
  BY <1>3, <1>4 DEF Chain, AnswersAt
<1>6. Recorded(C)'
  BY <1>3, <1>4, <1>5 DEF Recorded, AnswersAt
<1> QED BY <1>2, <1>4, <1>6 DEF History, Later

(* And meets twins of its heaps, to the same answers.                       *)
LEMMA RepeatRecorded ==
    ASSUME Inv, History, Repeat
    PROVE  History'
<1> DEFINE r == trace[i + 1]
           got == Reply(heap, blocks, r)
<1>1. /\ Later /\ i < Len(trace) /\ Obeyed(r, Answer(r)) /\ i' = i + 1
      /\ verdict' = verdict /\ trace' = trace /\ traced' = traced /\ answers' = answers
  BY DEF Repeat, Later
<1>2. /\ heap \in Heap /\ verdict = "going" /\ traced /\ i \in Nat /\ Len(trace) \in Nat
      /\ Len(answers) = Len(trace)
  BY <1>1, ReadyBlocks DEF Inv, HeapInv, TraceInv, History, Later
<1>3. PICK C \in [0 .. Len(trace) -> Heap] : Recorded(C)
  BY <1>2 DEF History
<1>4. Twin(C[i], heap) /\ AnswersAt(i) = blocks /\ Chain(C) /\ Fresh(C[0])
  BY <1>1, <1>3 DEF Recorded
<1>5. i + 1 \in 1 .. Len(trace) /\ (i + 1) - 1 = i /\ i + 1 # 0
  BY <1>1, <1>2
<1>6. Replays(C[i], blocks, r, C[i + 1], answers[i + 1])
  <2>1. Replays(C[(i + 1) - 1], AnswersAt((i + 1) - 1), trace[i + 1], C[i + 1], answers[i + 1])
    BY <1>4, <1>5 DEF Chain
  <2> QED BY <2>1, <1>4, <1>5
<1>7. Answer(r) = got
  BY Zenon DEF Answer, Reply
<1> HIDE DEF r, got
<1>8. /\ Twin(C[i + 1], got.heap) /\ (r.type # "FREE" => got.ptr # NULL)
      /\ answers[i + 1] = Put(blocks, r.index, got.ptr, r.size)
  BY <1>2, <1>4, <1>6 DEF Replays, got
<1>9. /\ heap' = got.heap /\ pass' = pass /\ blocks' = answers[i + 1]
  BY <1>1, <1>7, <1>8 DEF Obeyed, Put
<1>10. Chain(C)' /\ AnswersAt(i)' = blocks'
  BY <1>1, <1>4, <1>5, <1>9 DEF Chain, AnswersAt
<1>11. Recorded(C)'
  BY <1>1, <1>4, <1>8, <1>9, <1>10 DEF Recorded, Later
<1> QED BY <1>1, <1>2, <1>3, <1>9, <1>11 DEF History, Later

(* A trace begins with a heap that every pass can begin with a twin of.     *)
LEMMA RestartRecords ==
    ASSUME Inv, Inv', NextTrace
    PROVE  History'
<1> DEFINE h == mem_reset_brk(heap)
           k == mm_init(h).heap
<1>1. heap \in Heap /\ heap' \in Heap
  BY ReadyBlocks DEF Inv, HeapInv
<1>2. \A g \in Heap : mem_reset_brk(g) \in Heap /\ mem_reset_brk(g).brk = 0
  BY HeapAssumption DEF mem_reset_brk, Heap
<1>3. heap' = k /\ trace' = <<>> /\ pass' = "eval_mm_valid"
  BY DEF NextTrace, Restart, Started
<1>4. Fresh(k)
  <2> SUFFICES ASSUME NEW g \in Heap
               PROVE  FromScratch(g).ptr # NULL /\ Twin(k, FromScratch(g).heap)
    BY DEF Fresh
  <2>1. FromScratch(g) = mm_init(mem_reset_brk(g))
    BY DEF FromScratch
  <2>2. mm_init(mem_reset_brk(g)).ptr # NULL
    BY <1>2, InitServes
  <2>3. TwinResult(mm_init(h), mm_init(mem_reset_brk(g)))
    BY <1>1, <1>2, InitTwin
  <2> QED BY <2>1, <2>2, <2>3 DEF TwinResult
<1> HIDE DEF h, k
<1>5. Len(trace') = 0 /\ \E C \in [0 .. Len(trace') -> Heap] : C[0] = heap'
  <2> DEFINE D == [x \in 0 .. 0 |-> heap']
  <2>1. Len(trace') = 0 /\ D \in [0 .. Len(trace') -> Heap] /\ D[0] = heap'
    BY <1>1, <1>3
  <2> HIDE DEF D
  <2> QED BY <2>1
<1>6. PICK C \in [0 .. Len(trace') -> Heap] : C[0] = heap'
  BY <1>5
<1>7. Serving(heap', blocks') /\ blocks' = None
  BY RestartStep
<1>8. Chain(C)' /\ AnswersAt(0)' = None
  BY <1>5 DEF Chain, AnswersAt
<1>9. AnswersAt(Len(trace))' = blocks'
  BY <1>5, <1>7, <1>8 DEF AnswersAt
<1>10. Recorded(C)'
  BY <1>3, <1>4, <1>5, <1>7, <1>8, <1>9, <1>6 DEF Recorded, Later
<1> QED BY <1>3, <1>10 DEF History, Later

LEMMA HistoryStep ==
    ASSUME Inv, Inv', History, [Next]_vars
    PROVE  History'
<1>1. CASE eval_mm_valid
  BY <1>1, ValidRecords
<1>2. CASE MeasureSpace
  BY <1>2, BeginRecorded DEF MeasureSpace
<1>3. CASE Repeat
  BY <1>3, RepeatRecorded
<1>4. CASE ftimer_gettod
  <2>1. Begin("eval_mm_speed", round + 1) /\ traced /\ verdict = "going"
    BY <1>4 DEF ftimer_gettod, Inv, TraceInv, History, Later
  <2> QED BY <2>1, BeginRecorded
<1>5. CASE NextTrace
  BY <1>5, RestartRecords
<1>6. CASE UNCHANGED vars
  <2>1. /\ heap' = heap /\ blocks' = blocks /\ verdict' = verdict /\ pass' = pass
        /\ trace' = trace /\ traced' = traced /\ answers' = answers /\ i' = i
    BY <1>6 DEF vars, mmVars, stats
  <2>2. \A C : Recorded(C)' = Recorded(C)
    BY <2>1 DEF Recorded, Chain, AnswersAt, Later
  <2> QED BY <2>1, <2>2 DEF History, Later
<1> QED BY <1>1, <1>2, <1>3, <1>4, <1>5, <1>6 DEF Next

(* No request of a later pass fails, and each is answered with the block    *)
(* that eval_mm_valid was given for it, whatever was in the memory.         *)
THEOREM RunsRepeatRight == Spec => []RunsRepeat
<1>1. DriverInit => History
  BY DEF DriverInit, History, Later
<1>2. DriverInit => Inv
  BY InitInv
<1>3. Inv /\ [Next]_vars => Inv'
  BY StepInv
<1>4. Inv /\ Inv' /\ History /\ [Next]_vars => History'
  BY HistoryStep
<1>5. Inv /\ History => RunsRepeat
  <2> SUFFICES ASSUME Inv, History PROVE RunsRepeat
    OBVIOUS
  <2>1. Later /\ i > 0 => blocks = answers[i]
    <3> SUFFICES ASSUME Later, i > 0 PROVE blocks = answers[i]
      OBVIOUS
    <3>1. traced /\ verdict = "going" /\ i # 0
      BY DEF Inv, TraceInv, History, Later
    <3>2. PICK C \in [0 .. Len(trace) -> Heap] : Recorded(C)
      BY <3>1 DEF History
    <3> QED BY <3>1, <3>2 DEF Recorded, AnswersAt
  <2> QED BY <2>1 DEF RunsRepeat, History, Later
<1> QED BY <1>1, <1>2, <1>3, <1>4, <1>5, PTL DEF Spec
=============================================================================
