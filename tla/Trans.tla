-------------------------------- MODULE Trans --------------------------------
(***************************************************************************)
(* The transpose functions of trans.c as straight-line code.  The body of   *)
(* an innermost loop is a sequence of bursts: loads into locals, then       *)
(* stores of those locals.  Iteration number it counts the rounds of the    *)
(* nested loops in the order in which they are made.  Indexing is that of   *)
(* C: A[i][j] is int i*M + j of A, whatever the bounds, and B[j][i] is int  *)
(* j*N + i of B.                                                            *)
(***************************************************************************)
EXTENDS Integers, SequencesExt

CONSTANT Chunk    \* columns of the simple scan that make one iteration

ASSUME ChunkAssumption == Chunk \in Nat \ {0}

Up(n, k) == (n + k - 1) \div k
Least(m, n) == IF m < n THEN m ELSE n

Cell(array, index) == [array |-> array, index |-> index]
Burst(loads, stores) == [loads |-> loads, stores |-> stores]
Put(cell, reg) == [cell |-> cell, reg |-> reg]

InA(M, i, j) == Cell("A", i * M + j)
InB(N, j, i) == Cell("B", j * N + i)

(* B[j][i] = A[i][j] for the columns j of a row i.                          *)
Copy(M, N, i, j) == Burst(<<InA(M, i, j)>>, <<Put(InB(N, j, i), 1)>>)
CopyRow(M, N, i, first, last) == [k \in 1 .. last - first + 1 |-> Copy(M, N, i, first + k - 1)]

-----------------------------------------------------------------------------
trans(M, N, it) ==
    LET parts == Up(M, Chunk)
        first == Chunk * (it % parts)
    IN CopyRow(M, N, it \div parts, first, Least(first + Chunk, M) - 1)

(* Blocks of 8 x 8; on the diagonal, the diagonal element of a row last.    *)
(* Mutant: it is copied in its turn.                                        *)
DiagonalInTurn(M, N, i, col) == CopyRow(M, N, i, col, col + 7)
DiagonalLast(M, N, i, col) ==
    CopyRow(M, N, i, col, i - 1) \o CopyRow(M, N, i, i + 1, col + 7) \o <<Copy(M, N, i, i)>>

trans_32x32(M, N, it) ==
    LET blocks == Up(M, 8)
        row == 8 * (it \div (8 * blocks))
        col == 8 * ((it \div 8) % blocks)
        i == row + (it % 8)
    IN IF row # col THEN CopyRow(M, N, i, col, col + 7)
       ELSE DiagonalLast(M, N, i, col)

(* Blocks of 8 x 8 in three passes: the upper half of the block, with its   *)
(* right part parked in B; the exchange of the parked part with the lower   *)
(* left; the lower right.                                                   *)
(* Mutant: nothing is parked.                                               *)
UpperUnparked(M, N, j, k) ==
    Burst([n \in 1 .. 8 |-> InA(M, k, j + n - 1)],
          [n \in 1 .. 8 |-> Put(InB(N, j + n - 1, k), n)])
UpperHalf(M, N, j, k) ==
    Burst([n \in 1 .. 8 |-> InA(M, k, j + n - 1)],
          [n \in 1 .. 8 |-> Put(InB(N, j + ((n - 1) % 4), IF n <= 4 THEN k ELSE k + 4), n)])

Exchange(M, N, i, k) ==
    Burst([n \in 1 .. 8 |-> IF n <= 4 THEN InB(N, k, i + 3 + n) ELSE InA(M, i + n - 1, k)],
          [n \in 1 .. 8 |-> IF n <= 4 THEN Put(InB(N, k, i + 3 + n), n + 4)
                            ELSE Put(InB(N, k + 4, i + n - 5), n - 4)])

LowerRight(M, N, j, k) ==
    Burst([n \in 1 .. 4 |-> InA(M, k, j + 3 + n)],
          [n \in 1 .. 4 |-> Put(InB(N, j + 3 + n, k), n)])

trans_64x64(M, N, it) ==
    LET i == 8 * (it \div 96)
        j == 8 * ((it \div 12) % 8)
        k == it % 12
    IN CASE k < 4 -> <<UpperHalf(M, N, j, i + k)>>
         [] k \in 4 .. 7 -> <<Exchange(M, N, i, j + k - 4)>>
         [] OTHER -> <<LowerRight(M, N, j, i + k - 4)>>

(* Blocks of 16 x 16, cut off at the edges.  Mutant: not at the right one.  *)
ColumnsUncut(M, col) == col + 16
Columns(M, col) == Least(col + 16, M)
trans_61x67(M, N, it) ==
    LET blocks == Up(M, 16)
        i == 16 * (it \div (16 * blocks)) + (it % 16)
        col == 16 * ((it \div 16) % blocks)
    IN IF i < N THEN CopyRow(M, N, i, col, Columns(M, col) - 1) ELSE <<>>

-----------------------------------------------------------------------------
(* The cases of the switch in transpose_submit fall through.                *)
(* Mutant: N is not looked at for M = 32.                                   *)
submitByColumns(M, N) == IF M = 32 THEN "trans_32x32" ELSE "trans"
transpose_submit(M, N) ==
    CASE M = 32 /\ N = 32 -> "trans_32x32"
      [] M \in {32, 61} /\ N = 67 -> "trans_61x67"
      [] M \in {32, 61, 64} /\ N = 64 -> "trans_64x64"
      [] OTHER -> "trans"

registerFunctions == <<"transpose_submit", "trans", "trans_61x67", "trans_64x64", "trans_32x32">>

Called(f, M, N) == IF f = "transpose_submit" THEN transpose_submit(M, N) ELSE f

Iterations(f, M, N) ==
    CASE f = "trans" -> N * Up(M, Chunk)
      [] f = "trans_32x32" -> 8 * Up(N, 8) * Up(M, 8)
      [] f = "trans_64x64" -> 768
      [] f = "trans_61x67" -> 16 * Up(N, 16) * Up(M, 16)

Iteration(f, M, N, it) ==
    CASE f = "trans" -> trans(M, N, it)
      [] f = "trans_32x32" -> trans_32x32(M, N, it)
      [] f = "trans_64x64" -> trans_64x64(M, N, it)
      [] f = "trans_61x67" -> trans_61x67(M, N, it)
=============================================================================
