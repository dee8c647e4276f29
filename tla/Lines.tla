------------------------------- MODULE Lines -------------------------------
(***************************************************************************)
(* What rio_readlineb promises its caller: the bytes of a connection, in    *)
(* order, each once, cut into lines.                                        *)
(***************************************************************************)
EXTENDS Naturals, Sequences

CONSTANTS Byte, LF, MAXLINE

VARIABLES rest,    \* bytes of the connection that no line has held yet
          lines,   \* the lines so far
          closed   \* whether nothing comes after rest

Init == rest = <<>> /\ lines = <<>> /\ closed = TRUE

Connect == rest' \in Seq(Byte) /\ lines' = <<>> /\ closed' \in BOOLEAN

(* A line ends with its line feed, or where the caller's buffer is full, or *)
(* with the last byte of the connection.                                    *)
IsLine(k) ==
    /\ k < MAXLINE
    /\ \A j \in 1 .. k - 1 : rest[j] # LF
    /\ rest[k] = LF \/ k = MAXLINE - 1 \/ (closed /\ k = Len(rest))

Deliver ==
    \E k \in 1 .. Len(rest) :
        /\ IsLine(k)
        /\ lines' = Append(lines, SubSeq(rest, 1, k))
        /\ rest' = SubSeq(rest, k + 1, Len(rest))
        /\ UNCHANGED closed

Next == Connect \/ Deliver

Spec == Init /\ [][Next]_<<rest, lines, closed>>
=============================================================================
