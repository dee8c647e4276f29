------------------------------- MODULE MmHeap -------------------------------
(***************************************************************************)
(* The allocator (src/Malloc/malloclab-handout/mm.c) and the memory it gets *)
(* from memlib.c, built for 32 bits: an operator for each function, from a  *)
(* heap to the heap it leaves.  Addresses count bytes from mem_start_brk    *)
(* and memory is read and written in words.  A block has a header and a     *)
(* footer with its size and its allocated bit; free blocks are in a list    *)
(* that starts and ends at a dummy block and whose pointers are in the      *)
(* payloads.                                                                *)
(***************************************************************************)
EXTENDS Integers, Sequences, FiniteSets, FiniteSetsExt

CONSTANTS CHUNKSIZE,   \* bytes by which the heap grows at least
          MAX_HEAP,    \* bytes the memory system has
          SizeValues,  \* how many values a size_t has: 2^32 as built
          Ids,         \* indexes of requests, with which payloads are filled
          Junk         \* what malloc leaves in the memory it returns

WSIZE == 4
DSIZE == 8
NULL == 0

ASSUME HeapAssumption ==
    /\ CHUNKSIZE \in Nat /\ CHUNKSIZE >= 2 * DSIZE /\ CHUNKSIZE % DSIZE = 0
    /\ MAX_HEAP \in Nat /\ MAX_HEAP >= 8 * WSIZE + CHUNKSIZE
    /\ MAX_HEAP % DSIZE = 0
    /\ SizeValues \in Nat /\ MAX_HEAP < SizeValues \div 2 /\ SizeValues % DSIZE = 0

Words == {WSIZE * i : i \in 0 .. MAX_HEAP \div WSIZE - 1}

(* listp is heap_listp; the dummy block is the next one.                    *)
Heap == [mem : [Words -> Nat \cup Ids \cup {Junk}], brk : 0 .. MAX_HEAP,
         listp : {NULL, 2 * WSIZE}]
mem_init == [mem |-> [a \in Words |-> Junk], brk |-> 0, listp |-> NULL]
dummy_blockp(h) == h.listp + DSIZE

(* The functions that return a pointer return a heap with it.  A result     *)
(* that is used more than once is an operator's parameter.                  *)
Result(h, p) == [heap |-> h, ptr |-> p]

-----------------------------------------------------------------------------
(* Reading and writing tags and pointers.                                   *)

PUT(h, p, val) == [h EXCEPT !.mem[p] = val]
PACK(size, alloc) == size + alloc
GET_SIZE(h, p) == h.mem[p] - (h.mem[p] % 8)
GET_ALLOC(h, p) == h.mem[p] % 2
HDRP(bp) == bp - WSIZE
FTRP(h, bp) == bp + GET_SIZE(h, HDRP(bp)) - DSIZE
NEXT_BLKP(h, bp) == bp + GET_SIZE(h, bp - WSIZE)
PREV_BLKP(h, bp) == bp - GET_SIZE(h, bp - DSIZE)
GET_PRED(h, bp) == h.mem[bp]
GET_SUCC(h, bp) == h.mem[bp + WSIZE]

(* Header first: it says where the footer is.                               *)
PutTags(h, bp, size, alloc) ==
    LET headed == PUT(h, HDRP(bp), PACK(size, alloc))
    IN PUT(headed, FTRP(headed, bp), PACK(size, alloc))

-----------------------------------------------------------------------------
(* The free list.                                                           *)

add_to_free_list(h, bp) ==
    LET dummy == dummy_blockp(h)
        next == GET_SUCC(h, dummy)
    IN [h EXCEPT !.mem[bp + WSIZE] = next, !.mem[next] = bp,
                 !.mem[bp] = dummy, !.mem[dummy + WSIZE] = bp]

remove_from_free_list(h, bp) ==
    [h EXCEPT !.mem[GET_PRED(h, bp) + WSIZE] = GET_SUCC(h, bp),
              !.mem[GET_SUCC(h, bp)] = GET_PRED(h, bp)]

(* The blocks that a search visits, in order.                               *)
FreeList(h) ==
    LET most == MAX_HEAP \div (2 * DSIZE)
        dummy == dummy_blockp(h)
        hop[k \in 0 .. most] ==
            IF k = 0 THEN GET_SUCC(h, dummy)
            ELSE LET here == hop[k - 1] IN IF here = dummy THEN dummy ELSE GET_SUCC(h, here)
        length == Cardinality({k \in 0 .. most : hop[k] # dummy})
    IN [i \in 1 .. length |-> hop[i - 1]]

(* First fit.                                                               *)
find_fit(h, asize) ==
    LET list == FreeList(h)
        fits == {i \in DOMAIN list : asize <= GET_SIZE(h, HDRP(list[i]))}
    IN IF fits = {} THEN NULL ELSE list[Min(fits)]

-----------------------------------------------------------------------------
(* Joining and splitting blocks.                                            *)

(* Mutant: a free successor stays in the list when it is joined.            *)
coalesceKeepsNext(h, bp) ==
    LET prev == PREV_BLKP(h, bp)
        next == NEXT_BLKP(h, bp)
        joinsPrev == GET_ALLOC(h, FTRP(h, prev)) = 0
        size == GET_SIZE(h, HDRP(bp))
                  + (IF joinsPrev THEN GET_SIZE(h, HDRP(prev)) ELSE 0)
                  + (IF GET_ALLOC(h, HDRP(next)) = 0 THEN GET_SIZE(h, HDRP(next)) ELSE 0)
        start == IF joinsPrev THEN prev ELSE bp
        left == IF joinsPrev THEN remove_from_free_list(h, prev) ELSE h
    IN Result(add_to_free_list(PutTags(left, start, size, 0), start), start)

coalesce(h, bp) ==
    LET prev == PREV_BLKP(h, bp)
        next == NEXT_BLKP(h, bp)
        joinsPrev == GET_ALLOC(h, FTRP(h, prev)) = 0
        joinsNext == GET_ALLOC(h, HDRP(next)) = 0
        size == GET_SIZE(h, HDRP(bp))
                  + (IF joinsPrev THEN GET_SIZE(h, HDRP(prev)) ELSE 0)
                  + (IF joinsNext THEN GET_SIZE(h, HDRP(next)) ELSE 0)
        start == IF joinsPrev THEN prev ELSE bp
        left == IF joinsPrev THEN remove_from_free_list(h, prev) ELSE h
        right == IF joinsNext THEN remove_from_free_list(left, next) ELSE left
        joined == IF joinsPrev \/ joinsNext THEN PutTags(right, start, size, 0) ELSE right
    IN Result(add_to_free_list(joined, start), start)

(* Mutant: the remainder may be too small for a block.                      *)
placeSplittingAlways(h, bp, asize) ==
    LET csize == GET_SIZE(h, HDRP(bp))
        rest == csize - asize
    IN IF rest >= DSIZE
       THEN LET used == remove_from_free_list(PutTags(h, bp, asize, 1), bp)
            IN coalesce(PutTags(used, bp + asize, rest, 0), bp + asize).heap
       ELSE remove_from_free_list(PutTags(h, bp, csize, 1), bp)

place(h, bp, asize) ==
    LET csize == GET_SIZE(h, HDRP(bp))
        rest == csize - asize
    IN IF rest >= 2 * DSIZE
       THEN LET used == remove_from_free_list(PutTags(h, bp, asize, 1), bp)
                after == NEXT_BLKP(used, bp)
            IN coalesce(PutTags(used, after, rest, 0), after).heap
       ELSE remove_from_free_list(PutTags(h, bp, csize, 1), bp)

-----------------------------------------------------------------------------
(* Getting memory.  mem_sbrk takes an int: a size in the upper half of      *)
(* size_t is below zero there.  (It adds to a pointer, and here the sum is  *)
(* that of numbers: an address beyond the last one, which would wrap around, *)
(* is taken for one beyond the memory.)                                     *)

CanGrow(h, incr) == incr < SizeValues \div 2 /\ h.brk + incr <= MAX_HEAP
mem_sbrk(h, incr) == [h EXCEPT !.brk = @ + incr]

extend_heap(h, words) ==
    LET size == (words + (words % 2)) * WSIZE
        bp == h.brk
        tagged == PutTags(mem_sbrk(h, size), bp, size, 0)
    IN IF ~CanGrow(h, size) THEN Result(h, NULL)
       ELSE coalesce(PUT(tagged, HDRP(NEXT_BLKP(tagged, bp)), PACK(0, 1)), bp)

(* The padding word, the prologue, the dummy block, the epilogue, and a     *)
(* first free block.  The memory may hold the remains of an earlier use.    *)
mm_init(h) ==
    LET base == h.brk
        dummy == base + 4 * WSIZE
        words == <<0, PACK(DSIZE, 1), PACK(DSIZE, 1), PACK(2 * DSIZE, 1), dummy, dummy,
                   PACK(2 * DSIZE, 1), PACK(0, 1)>>
        written == [a \in Words |-> IF a \in base .. base + 7 * WSIZE
                                    THEN words[(a - base) \div WSIZE + 1] ELSE h.mem[a]]
    IN extend_heap([mem_sbrk(h, 8 * WSIZE) EXCEPT !.listp = base + 2 * WSIZE, !.mem = written],
                   CHUNKSIZE \div WSIZE)

(* A client may call before mm_init; what mm_init returns is not looked at. *)
Initialised(h) == IF h.listp = NULL THEN mm_init(h).heap ELSE h

-----------------------------------------------------------------------------
(* The three functions a client calls.                                      *)

(* The addition is that of a size_t.                                        *)
AdjustedSize(size) ==
    IF size <= DSIZE THEN 2 * DSIZE
    ELSE DSIZE * (((size + DSIZE + (DSIZE - 1)) % SizeValues) \div DSIZE)

(* A block found, or made from the new memory that was (or was not) had.    *)
PlaceNew(h, more, asize) ==
    IF more.ptr = NULL THEN Result(h, NULL)
    ELSE Result(place(more.heap, more.ptr, asize), more.ptr)

Allocate(h, asize) ==
    LET fit == find_fit(h, asize)
        extendsize == IF asize > CHUNKSIZE THEN asize ELSE CHUNKSIZE
    IN IF fit # NULL THEN Result(place(h, fit, asize), fit)
       ELSE PlaceNew(h, extend_heap(h, extendsize \div WSIZE), asize)

mm_malloc(h, size) ==
    IF size = 0 THEN Result(Initialised(h), NULL)
    ELSE Allocate(Initialised(h), AdjustedSize(size))

mm_free(h, bp) ==
    IF bp = NULL THEN h
    ELSE coalesce(PutTags(Initialised(h), bp, GET_SIZE(h, HDRP(bp)), 0), bp).heap

memcpy(h, to, from, n) ==
    [h EXCEPT !.mem = [a \in Words |-> IF a \in to .. to + n - 1
                                       THEN h.mem[from + (a - to)] ELSE h.mem[a]]]

(* What realloc copies: as much of the old block as the new size allows,    *)
(* its footer included.                                                     *)
Kept(h, ptr, size) ==
    LET oldsize == GET_SIZE(h, HDRP(ptr)) IN IF size < oldsize THEN size ELSE oldsize

Copy(new, ptr, size) == memcpy(new.heap, new.ptr, ptr, Kept(new.heap, ptr, size))

(* Mutants: the old block is freed before its data is copied; not freed at  *)
(* all; freed though there is no new one.                                   *)
MoveFreeingFirst(new, ptr, size) ==
    IF new.ptr = NULL THEN new
    ELSE Result(memcpy(mm_free(new.heap, ptr), new.ptr, ptr, Kept(new.heap, ptr, size)),
                new.ptr)

MoveKeepingOld(new, ptr, size) ==
    IF new.ptr = NULL THEN new ELSE Result(Copy(new, ptr, size), new.ptr)

MoveFreeingAlways(new, ptr, size) ==
    IF new.ptr = NULL THEN Result(mm_free(new.heap, ptr), NULL)
    ELSE Result(mm_free(Copy(new, ptr, size), ptr), new.ptr)

(* From the old block to the new one, if there is one.                      *)
Move(new, ptr, size) ==
    IF new.ptr = NULL THEN new
    ELSE Result(mm_free(Copy(new, ptr, size), ptr), new.ptr)

mm_realloc(h, ptr, size) ==
    IF size = 0 THEN Result(mm_free(h, ptr), NULL)
    ELSE IF ptr = NULL THEN mm_malloc(h, size)
    ELSE Move(mm_malloc(h, size), ptr, size)
=============================================================================
