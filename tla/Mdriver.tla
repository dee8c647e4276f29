------------------------------- MODULE Mdriver -------------------------------
(***************************************************************************)
(* The driver of the allocator (mdriver.c).  main evaluates one trace after *)
(* the other, each in several passes over the same memory: eval_mm_valid    *)
(* judges every answer (Mm), eval_mm_util adds up payloads, and             *)
(* eval_mm_speed is run n times by ftimer_gettod.  The later passes look at *)
(* no data and write none.  The libc passes, times and scores are left out. *)
(***************************************************************************)
EXTENDS Mm

CONSTANTS TraceBound,   \* bound: requests of a trace followed through all passes
          n             \* how often eval_mm_speed is run: 10 in fsecs

ASSUME MdriverAssumption == TraceBound \in Nat /\ n \in Nat \ {0}

VARIABLES pass,             \* the function that runs, or "app_error"
          trace,            \* the requests so far
          traced,           \* FALSE for a trace too long to be followed
          answers,          \* the blocks after each request of eval_mm_valid
          i,                \* how many requests a later pass has made
          round,            \* runs of eval_mm_speed
          total_size, max_total_size

stats == <<i, round, total_size, max_total_size>>
vars == <<mmVars, pass, trace, traced, answers, stats>>

Passes == {"eval_mm_valid", "eval_mm_util", "eval_mm_speed", "app_error"}
Request(type, index, size) == [type |-> type, index |-> index, size |-> size]

-----------------------------------------------------------------------------
(* Before the driver's first trace any client may use the allocator.        *)
DriverInit ==
    /\ Init
    /\ pass = "eval_mm_valid" /\ trace = <<>> /\ traced = FALSE /\ answers = <<>>
    /\ i = 0 /\ round = 0 /\ total_size = 0 /\ max_total_size = 0

(* read_trace, request by request, while eval_mm_valid answers.             *)
read_trace(request) ==
    /\ IF traced /\ Len(trace) < TraceBound
       THEN /\ trace' = Append(trace, request) /\ answers' = Append(answers, blocks')
            /\ UNCHANGED traced
       ELSE traced' = FALSE /\ trace' = <<>> /\ answers' = <<>>
    /\ UNCHANGED <<pass, stats>>

eval_mm_valid ==
    /\ pass = "eval_mm_valid"
    /\ \/ \E j \in Ids, s \in Sizes :
             \/ Malloc(j, s) /\ read_trace(Request("ALLOC", j, s))
             \/ Realloc(j, s) /\ read_trace(Request("REALLOC", j, s))
       \/ \E j \in Ids : Free(j) /\ read_trace(Request("FREE", j, 0))

(* A later pass begins like the first, on the memory that it leaves.        *)
(* Mutant: it goes on with the heap that it leaves.                         *)
NotFromScratch(h) == Result(h, h.listp)
FromScratch(h) == mm_init(mem_reset_brk(h))

Begin(next, k) ==
    LET got == FromScratch(heap)
    IN /\ heap' = got.heap
       /\ pass' = IF got.ptr = NULL THEN "app_error" ELSE next
       /\ blocks' = [j \in Ids |-> NoBlock]
       /\ i' = 0 /\ round' = k /\ total_size' = 0 /\ max_total_size' = 0
       /\ UNCHANGED <<verdict, trace, traced, answers>>

-----------------------------------------------------------------------------
(* What eval_mm_util and eval_mm_speed do with a request.                   *)
Answer(r) ==
    CASE r.type = "ALLOC" -> mm_malloc(heap, r.size)
      [] r.type = "REALLOC" -> mm_realloc(heap, blocks[r.index].ptr, r.size)
      [] r.type = "FREE" -> Result(mm_free(heap, blocks[r.index].ptr), NULL)

Obeyed(r, got) ==
    /\ heap' = got.heap
    /\ IF r.type # "FREE" /\ got.ptr = NULL
       THEN pass' = "app_error" /\ UNCHANGED blocks
       ELSE /\ blocks' = [blocks EXCEPT ![r.index] = [ptr |-> got.ptr, size |-> r.size]]
            /\ UNCHANGED pass

(* Mutant: a realloc counts as new.                                         *)
TotalForgettingOld(r) == total_size + (IF r.type = "FREE" THEN 0 - blocks[r.index].size ELSE r.size)
TotalAfter(r) == total_size + (r.size - blocks[r.index].size)

Repeat ==
    /\ pass \in {"eval_mm_util", "eval_mm_speed"} /\ i < Len(trace)
    /\ LET r == trace[i + 1]
       IN /\ Obeyed(r, Answer(r))
          /\ IF pass = "eval_mm_speed" THEN UNCHANGED <<total_size, max_total_size>>
             ELSE /\ total_size' = TotalAfter(r)
                  /\ max_total_size' = IF total_size' > max_total_size THEN total_size'
                                       ELSE max_total_size
    /\ i' = i + 1
    /\ UNCHANGED <<verdict, trace, traced, answers, round>>

-----------------------------------------------------------------------------
(* main's loop over the traces.                                             *)
Ended == i = Len(trace)

MeasureSpace ==
    /\ pass = "eval_mm_valid" /\ verdict = "going" /\ traced
    /\ Begin("eval_mm_util", 0)

ftimer_gettod ==
    /\ pass \in {"eval_mm_util", "eval_mm_speed"} /\ Ended /\ round < n
    /\ Begin("eval_mm_speed", round + 1)

NextTrace ==
    /\ \/ pass = "eval_mm_valid" /\ (verdict # "going" \/ ~traced)
       \/ pass = "eval_mm_speed" /\ Ended /\ round = n
    /\ Restart
    /\ pass' = "eval_mm_valid" /\ trace' = <<>> /\ traced' = TRUE /\ answers' = <<>>
    /\ i' = 0 /\ round' = 0 /\ total_size' = 0 /\ max_total_size' = 0

Next == eval_mm_valid \/ MeasureSpace \/ Repeat \/ ftimer_gettod \/ NextTrace

Spec == DriverInit /\ [][Next]_vars

-----------------------------------------------------------------------------
(* What eval_mm_valid has seen is what the later passes measure: on memory  *)
(* full of the remains of earlier passes every request is answered with the *)
(* same block, and none fails (their calls of app_error).                   *)
RunsRepeat ==
    /\ pass # "app_error"
    /\ pass \in {"eval_mm_util", "eval_mm_speed"} /\ i > 0 => blocks = answers[i]

(* The utilization that eval_mm_util returns is that of the live blocks at  *)
(* their highest and below one: no heap is smaller than what it holds.      *)
UtilizationSound ==
    pass = "eval_mm_util" =>
        /\ total_size = MapThenSumSet(LAMBDA j : blocks[j].size, Live)
        /\ total_size <= max_total_size /\ max_total_size < heap.brk

(* The allocator implements what malloc, free and realloc promise           *)
(* (malloclab.md:75-79): live blocks are apart, whatever the driver's test  *)
(* of ranges sees, and hold what their client wrote: no tag, no pointer of  *)
(* the free list and no other block's data is written over them.  Once      *)
(* eval_mm_valid has said that data is lost, it neither reads nor fills it. *)
Found(j) ==
    IF pass = "eval_mm_valid" /\ verdict # "lost"
    THEN {heap.mem[a] : a \in Words \cap Extent(blocks[j])}
    ELSE {k \in {j} : k \in Live}
Promise == INSTANCE Allocator
               WITH Limit <- MAX_HEAP, Alignment <- DSIZE,
                    live <- blocks, data <- [j \in Ids |-> Found(j)]
ImplementsAllocator == Promise!Spec
=============================================================================
