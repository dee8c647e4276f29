-------------------------------- MODULE MCMm --------------------------------
(***************************************************************************)
(* Symmetry and a view for checking Mdriver.  An index only fills its       *)
(* block, with a byte that a char can hold or cannot.  In two states with   *)
(* the same view memory differs where nothing is read before it is written: *)
(* above brk, in free blocks behind the two pointers, and in allocated      *)
(* blocks behind the data, or anywhere once eval_mm_valid is over.          *)
(***************************************************************************)
EXTENDS Mdriver, TLC

CONSTANT HighIds   \* indices whose low byte has its high bit set

MCLowByte == [j \in Ids |-> IF j \in HighIds THEN 128 ELSE 127]

Tags == UNION {{HDRP(b), FTRP(heap, b)} : b \in Starts}
Links == UNION {{b, b + WSIZE} : b \in {s \in Starts : IsFree(s)} \cup {dummy_blockp(heap)}}
Data == IF pass = "eval_mm_valid" THEN UNION {Extent(blocks[j]) : j \in Live} ELSE {}

View ==
    IF heap.listp = NULL THEN vars
    ELSE LET read == Tags \cup Links \cup Data
         IN <<[heap EXCEPT !.mem = [a \in read \cap Words |-> heap.mem[a]]], blocks, verdict,
              pass, trace, traced, answers, stats>>

Symmetry == Permutations(Ids \ HighIds)
=============================================================================
