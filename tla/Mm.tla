--------------------------------- MODULE Mm ---------------------------------
(***************************************************************************)
(* The allocator under its driver, eval_mm_valid of                         *)
(* src/Malloc/malloclab-handout/mdriver.c: any trace of requests, each      *)
(* answered by MmHeap's functions and judged as the driver judges it.  A    *)
(* trace's next index is one no live block has.  Mdriver puts the other     *)
(* passes over a trace around it.                                           *)
(***************************************************************************)
EXTENDS MmHeap

CONSTANTS Sizes,     \* what requests ask for
          LowByte    \* index & 0xFF of every index

ASSUME SizesAssumption ==
    \A s \in Sizes : s \in Nat /\ s > 0 /\ s % WSIZE = 0 /\ s < SizeValues \div 2

ASSUME LowByteAssumption == LowByte \in [Ids -> 0 .. 255]

VARIABLES heap,
          blocks,    \* blocks and block_sizes of the trace, and so the ranges
          verdict
mmVars == <<heap, blocks, verdict>>

NoBlock == [ptr |-> NULL, size |-> 0]
Live == {i \in Ids : blocks[i] # NoBlock}
Extent(b) == b.ptr .. b.ptr + b.size - 1

Init ==
    /\ heap = mem_init
    /\ blocks = [i \in Ids |-> NoBlock]
    /\ verdict = "going"

-----------------------------------------------------------------------------
(* Is block b of index i good beside the ranges of others?  Two ranges      *)
(* overlap here if an end of the new one is in the old one.                 *)
add_range(h, b, others) ==
    LET hi == b.ptr + b.size - 1
    IN /\ b.ptr % DSIZE = 0
       /\ {b.ptr, hi} \subseteq 0 .. h.brk - 1
       /\ \A j \in others : {b.ptr, hi} \cap Extent(blocks[j]) = {}

memset(h, b, i) ==
    [h EXCEPT !.mem = [a \in Words |-> IF a \in Extent(b) THEN i ELSE h.mem[a]]]

(* mem_reset_brk and mm_init, on the memory as the last trace left it.      *)
brkLeftAlone(h) == h   \* mutant

mem_reset_brk(h) == [h EXCEPT !.brk = 0]

Started(got) ==
    /\ heap' = got.heap
    /\ blocks' = [i \in Ids |-> NoBlock]
    /\ verdict' = IF got.ptr = NULL THEN "failed" ELSE "going"

Restart == Started(mm_init(mem_reset_brk(heap)))

(* Is the data that a realloc should have moved in the new block?  memset   *)
(* fills a block with the low byte of its index, and a word here names that *)
(* index; read back it is a char, which is signed where the handout is      *)
(* built (x86), and is compared with the byte as an int.                    *)
SignedChar(byte) == IF byte > 127 THEN byte - 256 ELSE byte

Common(b, old) == [b EXCEPT !.size = IF b.size < old.size THEN b.size ELSE old.size]

Preserved(i, h, b, old) ==
    \A a \in Words \cap Extent(Common(b, old)) :
        h.mem[a] \in Ids /\ SignedChar(LowByte[h.mem[a]]) = LowByte[i]

(* The driver stops at a NULL, at a bad block and at lost data; otherwise   *)
(* it fills the block.  The old block's range is out of the list when the   *)
(* new one is judged, and the new one in it when its data is.               *)
Answered(i, got, s) ==
    LET block == [ptr |-> got.ptr, size |-> s]
    IN IF got.ptr = NULL \/ ~add_range(got.heap, block, Live \ {i})
       THEN /\ verdict' = IF got.ptr = NULL THEN "failed" ELSE "bad"
            /\ heap' = got.heap
            /\ UNCHANGED blocks
       ELSE /\ blocks' = [blocks EXCEPT ![i] = block]
            /\ IF Preserved(i, got.heap, block, blocks[i])
               THEN heap' = memset(got.heap, block, i) /\ UNCHANGED verdict
               ELSE heap' = got.heap /\ verdict' = "lost"

Malloc(i, s) ==
    /\ verdict = "going"
    /\ i \notin Live
    /\ Answered(i, mm_malloc(heap, s), s)

Realloc(i, s) ==
    /\ verdict = "going"
    /\ i \in Live
    /\ Answered(i, mm_realloc(heap, blocks[i].ptr, s), s)

Free(i) ==
    /\ verdict = "going"
    /\ i \in Live
    /\ heap' = mm_free(heap, blocks[i].ptr)
    /\ blocks' = [blocks EXCEPT ![i] = NoBlock]
    /\ UNCHANGED verdict

-----------------------------------------------------------------------------
(* Properties.  The blocks are those a walk from the prologue meets.        *)

Starts ==
    LET walk[k \in 0 .. MAX_HEAP \div DSIZE] ==
            IF k = 0 THEN heap.listp
            ELSE LET here == walk[k - 1]
                 IN IF here < heap.brk THEN NEXT_BLKP(heap, here) ELSE here
    IN {walk[k] : k \in DOMAIN walk} \ {heap.brk}

IsFree(b) == GET_ALLOC(heap, HDRP(b)) = 0
Overhead == {heap.listp, dummy_blockp(heap)}

(* The values the variables take.                                           *)
TypeOK ==
    /\ heap \in Heap
    /\ blocks \in [Ids -> [ptr : Nat, size : Sizes \cup {0}]]
    /\ verdict \in {"going", "failed", "bad", "lost"}

(* Has a step kept what index j had in its block?                           *)
Carried(j) ==
    \A a \in Words \cap Extent(Common(blocks'[j], blocks[j])) : heap'.mem[a] = j

(* The driver never finds a block misplaced (mdriver.c:612-618, 645), and   *)
(* where it says that a realloc has lost data (mdriver.c:655-660), the data *)
(* is in the new block all the same: the byte is one a char takes for a     *)
(* negative number.  No realloc of a block with such a byte is let pass,    *)
(* although the check is to "make sure that the new block contains the data *)
(* from the old block" (mdriver.c:649-650).                                 *)
NeverBad ==
    [][/\ verdict' # "bad"
       /\ verdict' = "lost" => \E j \in Live : LowByte[j] > 127 /\ Carried(j)
       /\ \A j \in Live, s \in Sizes :
             LowByte[j] > 127 /\ Realloc(j, s) => verdict' # "going"]_mmVars

(* The blocks tile the heap from the prologue to the epilogue, each with a  *)
(* footer like its header: what coalesce reads on both sides of a block.    *)
TagsTile ==
    heap.listp # NULL =>
        /\ \A b \in Starts :
             /\ b % DSIZE = 0 /\ b + GET_SIZE(heap, HDRP(b)) <= heap.brk
             /\ heap.mem[HDRP(b)] = heap.mem[FTRP(heap, b)]
        /\ heap.mem[HDRP(heap.brk)] = PACK(0, 1)

(* The free list holds exactly the free blocks, linked both ways, and no    *)
(* two neighbours are both free (mm.c's own check_freelist).                *)
FreeListExact ==
    heap.listp # NULL =>
        LET list == FreeList(heap)
            listed == {list[k] : k \in DOMAIN list}
        IN /\ listed = {b \in Starts : IsFree(b)}
           /\ Cardinality(listed) = Len(list)
           /\ \A b \in listed \cup {dummy_blockp(heap)} :
                  GET_PRED(heap, GET_SUCC(heap, b)) = b
           /\ \A b \in listed : NEXT_BLKP(heap, b) \notin listed

(* The allocator's allocated blocks are its client's live ones, each with   *)
(* room for what was asked: nothing is leaked, whatever fails.              *)
AllocatedAreLive ==
    heap.listp # NULL =>
        /\ {b \in Starts : ~IsFree(b)} \ Overhead = {blocks[i].ptr : i \in Live}
        /\ \A i \in Live :
             blocks[i].size + DSIZE <= GET_SIZE(heap, HDRP(blocks[i].ptr))
=============================================================================
