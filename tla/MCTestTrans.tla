---------------------------- MODULE MCTestTrans ----------------------------
(***************************************************************************)
(* Command lines, traces and matrix sizes for checking TestTrans.           *)
(***************************************************************************)
EXTENDS TestTrans, TLC

Shape(ways) == [h |-> FALSE, s |-> 1, E |-> ways, b |-> 1, t |-> TRUE]

CsimCommands ==
    {Shape(2), Shape(3), Shape(0), [Shape(1) EXCEPT !.s = 0], [Shape(1) EXCEPT !.b = 0],
     [Shape(2) EXCEPT !.t = FALSE], [Shape(2) EXCEPT !.h = TRUE]}

(* Four blocks of the first set, one of them by two bytes, and two of the   *)
(* second; loads, and a few of the other operations.                        *)
Trace ==
    {Line("L", a) : a \in {0, 1, 4, 8, 12, 2, 6}} \cup {Line("M", 0), Line("M", 4), Line("I", 8)}

(* The graded sizes, those between which the dispatcher falls through, a    *)
(* small one, and two that are refused.                                     *)
MatrixSizes ==
    {<<32, 32>>, <<64, 64>>, <<61, 67>>, <<32, 67>>, <<61, 64>>, <<32, 64>>, <<17, 5>>,
     <<0, 8>>, <<300, 8>>}
=============================================================================
