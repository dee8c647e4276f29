------------------------------- MODULE Btest -------------------------------
(***************************************************************************)
(* The test harness of the data lab, btest.c with the table of decl.c: the  *)
(* command line, the test values of each argument, the calls of every       *)
(* puzzle beside its reference, the time limit and the score.  The alarm    *)
(* that enforces the limit is set for each function and never cancelled.    *)
(***************************************************************************)
EXTENDS Bits, Sequences, Functions

CONSTANTS CommandLines,   \* command lines: sequences of options
          arg_test_range, \* TEST_RANGE, its square root and its cube root, at least 1 each
          RandomWords,    \* what random_val returns in turn: rand is never seeded
          MaxAlarms,      \* bound: alarms that go off
          LatePuzzles     \* bound: puzzles whose alarm may go off

VARIABLES pc,             \* where main and what it calls are
          argv,           \* options still to be read
          opt,            \* the globals set from the command line
          i,              \* index into test_set
          a1,             \* index of the value of the first argument
          terrors, by,    \* result of test_function, and what it came from
          alarm,          \* SIGALRM is due
          env,            \* the call of test_function that envbuf belongs to
          points, max_points,
          report,         \* what each call was scored
          alarms          \* how many alarms have gone off

vars == <<pc, argv, opt, i, a1, terrors, by, alarm, env, points, max_points, report, alarms>>

PCs == {"main", "loop", "generate", "test", "score", "done", "usage", "refused", "crashed"}

(* A numeral on the command line: bits of a float or of an integer, the     *)
(* upper bits of the integer, and whether nothing follows the numeral.      *)
Numerals == [float : BOOLEAN, word : Word, upper : Int, clean : BOOLEAN]
Options ==
    [c : {"f"}, v : STRING] \cup [c : {"r", "T"}, v : Int]
        \cup [c : {"1-3"}, arg : 1 .. 3, v : Numerals] \cup [c : {"h", "?"}]

ASSUME BtestAssumption ==
    /\ CommandLines \subseteq Seq(Options)
    /\ arg_test_range \in [1 .. 3 -> Nat \ {0}]
    /\ RandomWords \in Seq(Word) \ {<<>>}
    /\ MaxAlarms \in Nat

(* Arguments, rating, and the range of the arguments: all ints, or bits of  *)
(* a float, for which the table has the range {1, 1}.                       *)
Puzzle(name, args, rating, range) ==
    [name |-> name, args |-> args, rating |-> rating, range |-> range]
test_set ==
    << Puzzle("bitXor", 2, 1, "int"), Puzzle("tmin", 0, 1, "int"), Puzzle("isTmax", 1, 1, "int"),
       Puzzle("allOddBits", 1, 2, "int"), Puzzle("negate", 1, 2, "int"),
       Puzzle("isAsciiDigit", 1, 3, "int"), Puzzle("conditional", 3, 3, "int"),
       Puzzle("isLessOrEqual", 2, 3, "int"), Puzzle("logicalNeg", 1, 4, "int"),
       Puzzle("howManyBits", 1, 4, "int"), Puzzle("floatScale2", 1, 4, "float"),
       Puzzle("floatFloat2Int", 1, 4, "float"), Puzzle("floatPower2", 1, 4, "float") >>

(* A puzzle and its reference on the words x, y and z.                      *)
Agree(name, x, y, z) ==
    CASE name = "bitXor"         -> bitXor(x, y) = test_bitXor(x, y)
      [] name = "tmin"           -> tmin = test_tmin
      [] name = "isTmax"         -> isTmax(x) = test_isTmax(x)
      [] name = "allOddBits"     -> allOddBits(x) = test_allOddBits(x)
      [] name = "negate"         -> negate(x) = test_negate(x)
      [] name = "isAsciiDigit"   -> isAsciiDigit(x) = test_isAsciiDigit(x)
      [] name = "conditional"    -> conditional(x, y, z) = test_conditional(x, y, z)
      [] name = "isLessOrEqual"  -> isLessOrEqual(x, y) = test_isLessOrEqual(x, y)
      [] name = "logicalNeg"     -> logicalNeg(x) = test_logicalNeg(x)
      [] name = "howManyBits"    -> howManyBits(x) = test_howManyBits(x)
      [] name = "floatScale2"    -> floatScale2(x) = test_floatScale2(x)
      [] name = "floatFloat2Int" -> floatFloat2Int(x) = test_floatFloat2Int(x)
      [] name = "floatPower2"    -> floatPower2(x) = test_floatPower2(x)

-----------------------------------------------------------------------------
(* gen_vals.  A fixed argument is the only value; bits of a float lie       *)
(* around zero, the smallest normalized number and one, and below 2^127;    *)
(* an integer lies near the ends of its range or zero, or is random.  (The  *)
(* third case of the code, a short range, does not occur in the table.)     *)
FloatVals(test_range) ==
    LET range == IF test_range > 2^23 THEN 2^23 ELSE test_range
        smallest_norm == 2^23
        one == 127 * 2^23
        largest_norm == 254 * 2^23
        inf == 255 * 2^23
        nan == inf + 2^22
        minus(k) == WordOf(k) \cup Sign
        Around(k) == <<WordOf(k), minus(k),
                       WordOf(smallest_norm + k), WordOf(smallest_norm - k),
                       minus(smallest_norm + k), minus(smallest_norm - k),
                       WordOf(one + k), WordOf(one - k), minus(one + k), minus(one - k),
                       WordOf(largest_norm - k), minus(largest_norm - k)>>
        special == <<WordOf(inf), minus(inf), WordOf(nan), minus(nan)>>
    IN [n \in 1 .. 12 * range + 4 |->
            IF n <= 12 * range THEN Around((n - 1) \div 12)[((n - 1) % 12) + 1] ELSE special[n - 12 * range]]

IntVals(range, arg) ==
    LET random_val(k) == RandomWords[(((arg - 1) * range + k) % Len(RandomWords)) + 1]
    IN [n \in 1 .. 5 * range |->
            LET k == (n - 1) \div 5
            IN CASE n % 5 = 1 -> WordOf(TMin + k)
                 [] n % 5 = 2 -> WordOf(TMax - k)
                 [] n % 5 = 3 -> WordOf(k)
                 [] n % 5 = 4 -> WordOf(-k)
                 [] OTHER -> random_val(k)]

(* The values of each argument of a puzzle with so many arguments; an       *)
(* argument it does not have takes one value that is not looked at.         *)
Generated ==
    [float |-> FloatVals(arg_test_range[1]),
     int |-> [args \in 1 .. 3 |-> [arg \in 1 .. args |-> IntVals(arg_test_range[args], arg)]]]
gen_vals(fixed, puzzle, arg) ==
    IF arg > puzzle.args THEN <<{}>>
    ELSE IF fixed[arg].given THEN <<fixed[arg].val>>
    ELSE IF puzzle.range = "float" THEN Generated.float
    ELSE Generated.int[puzzle.args][arg]

Values(arg) == gen_vals(opt.fixed, test_set[i], arg)

-----------------------------------------------------------------------------
(* main: the options in turn.  Whether text follows a numeral matters for a *)
(* float alone: for an integer the code looks at the old value instead of   *)
(* the end pointer.                                                         *)
get_num_val(sval, old) ==
    IF sval.float THEN sval.clean ELSE old = {} /\ sval.upper \in {-1, 0, 1}

Defaults ==
    [fname |-> {}, rating |-> 0, limit |-> 10,
     fixed |-> [arg \in 1 .. 3 |-> [given |-> FALSE, val |-> {}]]]

Init ==
    /\ pc = "main" /\ argv \in CommandLines /\ opt = Defaults /\ i = 1 /\ a1 = 1
    /\ terrors = 0 /\ by = "tests" /\ alarm = FALSE /\ env = 0
    /\ points = 0 /\ max_points = 0 /\ report = <<>> /\ alarms = 0

Read(option) ==
    \/ /\ option.c = "f"
       /\ opt' = [opt EXCEPT !.fname = {option.v}] /\ UNCHANGED pc
    \/ /\ option.c = "T"
       /\ opt' = [opt EXCEPT !.limit = option.v] /\ UNCHANGED pc
    \/ /\ option.c = "r"
       /\ opt' = [opt EXCEPT !.rating = option.v]
       /\ pc' = IF option.v < 0 THEN "usage" ELSE pc
    \/ /\ option.c = "1-3" /\ get_num_val(option.v, opt.fixed[option.arg].val)
       /\ opt' = [opt EXCEPT !.fixed[option.arg] = [given |-> TRUE, val |-> option.v.word]]
       /\ UNCHANGED pc
    \/ /\ option.c = "1-3" /\ ~get_num_val(option.v, opt.fixed[option.arg].val)
       /\ pc' = "refused" /\ UNCHANGED opt
    \/ /\ option.c \in {"h", "?"}
       /\ pc' = "usage" /\ UNCHANGED opt

main ==
    /\ pc = "main"
    /\ \/ argv = <<>> /\ pc' = "loop" /\ UNCHANGED <<argv, opt>>
       \/ argv # <<>> /\ argv' = Tail(argv) /\ Read(Head(argv))
    /\ UNCHANGED <<i, a1, terrors, by, alarm, env, points, max_points, report, alarms>>

-----------------------------------------------------------------------------
(* run_tests and test_function.                                             *)
Selected(n) == opt.fname \in {{}, {test_set[n].name}}

Skip ==
    /\ pc = "loop" /\ i <= Len(test_set) /\ ~Selected(i)
    /\ i' = i + 1
    /\ UNCHANGED <<pc, argv, opt, a1, terrors, by, alarm, env, points, max_points, report, alarms>>

Enter ==
    /\ pc = "loop" /\ i <= Len(test_set) /\ Selected(i)
    /\ pc' = "generate"
    /\ UNCHANGED <<argv, opt, i, a1, terrors, by, alarm, env, points, max_points, report, alarms>>

Total ==
    /\ pc = "loop" /\ i > Len(test_set)
    /\ pc' = "done"
    /\ UNCHANGED <<argv, opt, i, a1, terrors, by, alarm, env, points, max_points, report, alarms>>

ArmInPlace ==   \* mutant: the loop goes on where the last function's ended
    /\ pc = "generate"
    /\ pc' = "test"
    /\ IF opt.limit > 0 THEN alarm' = TRUE /\ env' = i ELSE UNCHANGED <<alarm, env>>
    /\ UNCHANGED <<argv, opt, i, a1, terrors, by, points, max_points, report, alarms>>

(* The values are there: note where to come back to and set the alarm.      *)
Arm ==
    /\ pc = "generate"
    /\ pc' = "test" /\ a1' = 1
    /\ IF opt.limit > 0 THEN alarm' = TRUE /\ env' = i ELSE UNCHANGED <<alarm, env>>
    /\ UNCHANGED <<argv, opt, i, terrors, by, points, max_points, report, alarms>>

Return(errors, cause) == pc' = "score" /\ terrors' = errors /\ by' = cause

(* All tests with one value of the first argument, up to the first error.   *)
AgreeOn(name, x) ==
    \A y \in Range(Values(2)), z \in Range(Values(3)) : Agree(name, x, y, z)
TestButLast ==   \* mutant: the last value is left out
    /\ pc = "test"
    /\ IF a1 = Len(Values(1)) THEN Return(0, "tests") /\ UNCHANGED a1
       ELSE IF ~AgreeOn(test_set[i].name, Values(1)[a1]) THEN Return(1, "tests") /\ UNCHANGED a1
       ELSE a1' = a1 + 1 /\ UNCHANGED <<pc, terrors, by>>
    /\ UNCHANGED <<argv, opt, i, alarm, env, points, max_points, report, alarms>>

Test ==
    /\ pc = "test"
    /\ IF ~AgreeOn(test_set[i].name, Values(1)[a1]) THEN Return(1, "tests") /\ UNCHANGED a1
       ELSE IF a1 < Len(Values(1)) THEN a1' = a1 + 1 /\ UNCHANGED <<pc, terrors, by>>
       ELSE Return(0, "tests") /\ UNCHANGED a1
    /\ UNCHANGED <<argv, opt, i, alarm, env, points, max_points, report, alarms>>

Rating == IF opt.rating # 0 THEN opt.rating ELSE test_set[i].rating
Score ==
    /\ pc = "score"
    /\ points' = points + (IF terrors = 0 THEN Rating ELSE 0)
    /\ max_points' = max_points + Rating
    /\ report' = Append(report, [puzzle |-> i, errors |-> terrors, by |-> by])
    /\ i' = i + 1 /\ pc' = "loop"
    /\ UNCHANGED <<argv, opt, a1, terrors, by, alarm, env, alarms>>

-----------------------------------------------------------------------------
(* timeout_handler jumps to sigsetjmp's return in the call that set the     *)
(* alarm.                                                                   *)
AlarmKept == alarm   \* mutant: an interval timer, which goes off again
AlarmSpent == FALSE
GoesOff ==
    /\ alarm /\ env \in LatePuzzles /\ alarms < MaxAlarms
    /\ alarm' = AlarmSpent /\ alarms' = alarms + 1

timeout_handler ==
    /\ pc = "test" /\ GoesOff
    /\ Return(1, "timeout")
    /\ UNCHANGED <<argv, opt, i, a1, env, points, max_points, report>>

(* The call that set the alarm has returned.  The jump is undefined: while  *)
(* the next function's values are generated, in a frame at the same place,  *)
(* it ends that call with an error; in run_tests the returned call returns  *)
(* once more; or the program crashes.                                       *)
StaleAlarm ==
    /\ pc \in {"generate", "score", "loop"} /\ GoesOff
    /\ \/ pc = "generate" /\ Return(1, "unstarted") /\ UNCHANGED i
       \/ pc # "generate" /\ Return(1, "again") /\ i' = env
       \/ pc' = "crashed" /\ UNCHANGED <<i, terrors, by>>
    /\ UNCHANGED <<argv, opt, a1, env, points, max_points, report>>

Next == \/ main \/ Skip \/ Enter \/ Total \/ Arm \/ Test \/ Score
        \/ timeout_handler \/ StaleAlarm

Spec == Init /\ [][Next]_vars

-----------------------------------------------------------------------------
(* Type correctness of the state of btest.c.                                *)
TypeOK ==
    /\ pc \in PCs
    /\ argv \in Seq(Options)
    /\ opt \in [fname : SUBSET STRING, rating : Int, limit : Int,
                fixed : [1 .. 3 -> [given : BOOLEAN, val : Word]]]
    /\ pc = "usage" \/ opt.rating >= 0
    /\ i \in 1 .. Len(test_set) + 1
    /\ pc \in {"generate", "test", "score"} => i <= Len(test_set) /\ Selected(i)
    /\ pc = "test" => a1 \in DOMAIN Values(1)
    /\ terrors \in {0, 1} /\ by \in {"tests", "timeout", "unstarted", "again"}
    /\ alarm \in BOOLEAN /\ env \in 0 .. Len(test_set)
    /\ max_points \in Nat /\ points \in 0 .. max_points
    /\ report \in Seq([puzzle : 1 .. Len(test_set), errors : {0, 1},
                       by : {"tests", "timeout", "unstarted", "again"}])
    /\ alarms \in 0 .. MaxAlarms

(* A function that test_function returns without errors from agrees with    *)
(* its reference on every combination of its test values, whatever became   *)
(* of the alarms set for it and for the functions before it.                *)
PassedMeansAgrees ==
    pc = "score" /\ terrors = 0 =>
        \A x \in Range(Values(1)), y \in Range(Values(2)), z \in Range(Values(3)) :
            Agree(test_set[i].name, x, y, z)

(* The puzzles of bits.c are right on every value they are tested with,     *)
(* but for one: floatScale2 of a finite number whose double is too large    *)
(* keeps the fraction and so returns a NaN, unless the fraction is zero.    *)
DoubleTooLarge(uf) == uf \cap Exponent = 24 .. 30 /\ uf \cap Fraction # {}
ErrorsExplained ==
    pc = "score" /\ terrors = 1 /\ by = "tests" =>
        test_set[i].name = "floatScale2" /\ DoubleTooLarge(Values(1)[a1])

(* The values btest chooses do not show it: with no argument fixed and no   *)
(* alarm gone off, every function run_tests selects gets its full rating.   *)
FullScore ==
    pc = "done" /\ alarms = 0 /\ (\A arg \in 1 .. 3 : ~opt.fixed[arg].given) =>
        /\ points = max_points
        /\ {report[n].puzzle : n \in DOMAIN report} = {n \in DOMAIN test_set : Selected(n)}

(* An alarm that outlives its function may charge the next one with an      *)
(* error before its first test, or score its own function twice, but only   *)
(* if that one ended by its tests: an alarm that ended its own function is  *)
(* spent, so no second function pays for it.  All else is scored in order.  *)
ChargedOnce ==
    \A n \in DOMAIN report :
        \/ report[n].by = "unstarted" /\ n > 1 /\ report[n - 1].by = "tests"
               /\ report[n].puzzle = report[n - 1].puzzle + 1
        \/ report[n].by = "again" /\ n > 1 /\ report[n - 1].by = "tests"
               /\ report[n].puzzle = report[n - 1].puzzle
        \/ /\ report[n].by # "unstarted"
           /\ n > 1 => report[n].puzzle > report[n - 1].puzzle
=============================================================================
