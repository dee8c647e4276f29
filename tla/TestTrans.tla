------------------------------ MODULE TestTrans ------------------------------
(***************************************************************************)
(* The grading of the cache lab: part A runs the simulator on a trace, part *)
(* B (test-trans.c) has tracegen run every registered transpose function    *)
(* and feeds the memory accesses it makes to the simulator.  The simulator  *)
(* reads the filtered trace while it is written; its result is looked at    *)
(* after validation, as in the code.  Accesses to locals are filtered out   *)
(* (they are on the stack), and a prefetch is no access.                    *)
(***************************************************************************)
EXTENDS Csim, Trans

CONSTANTS Sizes,    \* pairs <<M, N>> test-trans may be started with
          Reach     \* bound: ints of B that the functions get to

VARIABLES test,     \* where test-trans is
          M, N,     \* the globals of the same names
          func,     \* the function under test, an index of func_list
          it,       \* its next iteration
          B,        \* the array B of tracegen, flat
          func_list, results

ASSUME TransAssumption == Sizes \subseteq Nat \X Nat /\ Reach \in Nat

transVars == <<test, M, N, func, it, B, func_list, results>>
vars == <<csimVars, transVars>>

MAXN == 256

Untested == [correct |-> FALSE, hits |-> 0, misses |-> 0, evictions |-> 0]
NoResults == [funcid |-> -1, correct |-> FALSE, misses |-> 2147483647]

TypeOK ==
    /\ csim \in CsimPCs /\ <<s, E, b>> \in Nat \X Nat \X Nat /\ lines \in 0 .. MaxLines
    /\ {sim.hits, sim.misses, sim.evictions} \subseteq Nat
    /\ test \in {"off", "start", "generate", "call", "run", "over", "usage", "alarm"}
    /\ DOMAIN B \subseteq 0 .. Reach
    /\ func \in 1 .. Len(registerFunctions) + 1
    /\ test \notin {"start", "usage", "off"} => {M, N} \subseteq 1 .. MAXN
    /\ \A f \in DOMAIN func_list : func_list[f].correct \in BOOLEAN

-----------------------------------------------------------------------------
(* The contents of tracegen's arrays.  initMatrix gives each element a      *)
(* random value, here one of its own; beyond them the arrays hold zeros.    *)
InitialA(n) == IF n < N * M THEN n + 1 ELSE 0
InitialB == [n \in 0 .. Reach |-> IF n < N * M THEN -(n + 1) ELSE 0]

Value(array, cell) == IF cell.array = "A" THEN InitialA(cell.index) ELSE array[cell.index]

Execute(array, burst) ==
    LET after[k \in 0 .. Len(burst.stores)] ==
            IF k = 0 THEN array
            ELSE [after[k - 1] EXCEPT ![burst.stores[k].cell.index] =
                      Value(array, burst.loads[burst.stores[k].reg])]
    IN after[Len(burst.stores)]

ExecuteAll(array, bursts) ==
    LET after[k \in 0 .. Len(bursts)] ==
            IF k = 0 THEN array ELSE Execute(after[k - 1], bursts[k])
    IN after[Len(bursts)]

(* validate compares with correctTrans.                                     *)
Right(n) == B[n] = InitialA((n % N) * M + n \div N)
validate == \A n \in 0 .. M * N - 1 : Right(n)

(* Where the linker has put tracegen's variables (trace.f0).                *)
Address(array) == CASE array = "A" -> 1102176    \* 0x10d160
                    [] array = "B" -> 1364320    \* 0x14d160
MarkerStart == 1102144                           \* 0x10d140
MarkerEnd == 1102145
GlobalM == 1626464                               \* 0x18d160
GlobalN == 1626468
FuncPtr(f) == 1626496 + 32 * (f - 1)             \* 0x18d180

Line(op, address) == [op |-> op, address |-> address]
Access(op, cell) == Line(op, Address(cell.array) + 4 * cell.index)

Traced(burst) ==
    [k \in DOMAIN burst.loads |-> Access("L", burst.loads[k])]
        \o [k \in DOMAIN burst.stores |-> Access("S", burst.stores[k].cell)]

-----------------------------------------------------------------------------
InitA ==
    /\ CsimInit
    /\ test = "off" /\ M = 0 /\ N = 0 /\ func = 1 /\ it = 0 /\ B = <<>>
    /\ func_list = <<>> /\ results = NoResults

InitB ==
    /\ csim = "exit" /\ s = 0 /\ E = 0 /\ b = 0 /\ sim = Fresh(0, 0) /\ lines = 0
    /\ csim_results = <<>> /\ trace = <<>>
    /\ test = "start" /\ M = 0 /\ N = 0 /\ func = 1 /\ it = 0 /\ B = <<>>
    /\ func_list = <<>> /\ results = NoResults

Init == InitA \/ InitB

RefusedIfZero(m, n) == 0 \in {m, n}   \* mutant: too large a matrix is not refused
Refused(m, n) == 0 \in {m, n} \/ m > MAXN \/ n > MAXN

(* main's checks of its arguments, and registerFunctions.                   *)
Arguments(size) ==
    /\ test = "start"
    /\ M' = size[1] /\ N' = size[2]
    /\ test' = IF Refused(M', N') THEN "usage" ELSE "generate"
    /\ func_list' = [f \in DOMAIN registerFunctions |-> Untested]
    /\ UNCHANGED <<func, it, B, results, csimVars>>

(* eval_perf starts tracegen and the simulator for the next function.       *)
Generate ==
    /\ test = "generate" /\ func <= Len(func_list)
    /\ test' = "call"
    /\ it' = 0 /\ B' = InitialB
    /\ results' = IF registerFunctions[func] = "transpose_submit"
                  THEN [results EXCEPT !.funcid = func - 1] ELSE results
    /\ csim' = "read" /\ s' = 5 /\ E' = 1 /\ b' = 5
    /\ sim' = Fresh(5, 1) /\ trace' = <<>>
    /\ UNCHANGED <<M, N, func, func_list, csim_results, lines>>

Running == Called(registerFunctions[func], M, N)

(* The start marker, and what is loaded for the call.                       *)
Call ==
    /\ test = "call" /\ test' = "run"
    /\ Simulate(<<Line("S", MarkerStart), Line("L", FuncPtr(func)), Line("L", GlobalN),
                  Line("L", GlobalM)>>)
    /\ UNCHANGED <<M, N, func, it, B, func_list, results, csim_results, lines>>

Transpose ==
    /\ test = "run" /\ it < Iterations(Running, M, N)
    /\ LET bursts == Iteration(Running, M, N, it)
       IN /\ B' = ExecuteAll(B, bursts)
          /\ Simulate(FlattenSeq([k \in DOMAIN bursts |-> Traced(bursts[k])]))
    /\ it' = it + 1
    /\ UNCHANGED <<test, M, N, func, func_list, results, csim_results, lines>>

(* The end marker, validation, and the collection of the counters.          *)
Collect ==
    /\ test = "run" /\ it = Iterations(Running, M, N)
    /\ Simulate(<<Line("S", MarkerEnd)>>)
    /\ test' = "generate" /\ func' = func + 1
    /\ IF validate
       THEN /\ csim_results' = printSummary(sim')
            /\ func_list' = [func_list EXCEPT ![func] =
                   [correct |-> TRUE, hits |-> csim_results'[1], misses |-> csim_results'[2],
                    evictions |-> csim_results'[3]]]
            /\ results' = IF results.funcid = func - 1
                          THEN [results EXCEPT !.correct = TRUE, !.misses = csim_results'[2]]
                          ELSE results
       ELSE UNCHANGED <<func_list, results, csim_results>>
    /\ UNCHANGED <<M, N, it, B, lines>>

Summary ==
    /\ test = "generate" /\ func > Len(func_list)
    /\ test' = "over" /\ B' = <<>>
    /\ UNCHANGED <<M, N, func, it, func_list, results, csimVars>>

sigalrm_handler ==
    /\ test \in {"generate", "call", "run"}
    /\ test' = "alarm" /\ B' = <<>>
    /\ UNCHANGED <<M, N, func, it, func_list, results, csimVars>>

PartA == test = "off" /\ CsimNext /\ UNCHANGED transVars
PartB == (\E size \in Sizes : Arguments(size)) \/ Generate \/ Call \/ Transpose \/ Collect \/ Summary
             \/ sigalrm_handler

Next == PartA \/ PartB
Spec == Init /\ [][Next]_vars

-----------------------------------------------------------------------------
Graded == <<M, N>> \in {<<32, 32>>, <<64, 64>>, <<61, 67>>}

(* Whichever function the dispatcher falls through to, the submission       *)
(* produces the transpose.                                                  *)
SubmissionCorrect == func > 1 => results.correct

(* The submission misses as rarely as driver.py asks for full marks.        *)
FullMarks ==
    (func > 1 /\ Graded) =>
        results.misses <= CASE M = 32 -> 300 [] M = 64 -> 1300 [] M = 61 -> 2000

(* For the sizes they are made for, the functions stay inside the matrices. *)
InBounds ==
    (test = "run" /\ Graded /\ func = 1) =>
        \A k \in DOMAIN trace :
            \A array \in {"A", "B"} :
                LET offset == trace[k].address - Address(array)
                IN offset \in 0 .. 4 * MAXN * MAXN - 1 => offset < 4 * M * N

(* What trans_64x64 parks in B never displaces an element that is in place: *)
(* no function spoils what it has done.                                     *)
NothingUndone ==
    [][(test = "run" /\ Graded /\ func = 1 /\ test' = "run") =>
           \A n \in 0 .. M * N - 1 : Right(n) => B'[n] = B[n]]_vars

ImplementsLru == Promised!Spec
=============================================================================
