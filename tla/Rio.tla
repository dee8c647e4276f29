-------------------------------- MODULE Rio --------------------------------
(***************************************************************************)
(* The robust I/O package of csapp.c on a connection: lines are read        *)
(* through a buffer, whatever pieces read returns, and data is written      *)
(* whole, whatever pieces write takes.  A read or write that a signal       *)
(* interrupts is made again and changes nothing.                            *)
(***************************************************************************)
EXTENDS Naturals, Sequences

CONSTANTS Byte, LF, MAXLINE, RIO_BUFSIZE

ASSUME RioAssumption ==
    /\ LF \in Byte
    /\ MAXLINE \in Nat \ {0, 1}
    /\ RIO_BUFSIZE \in Nat \ {0}

VARIABLES unread,    \* what the client sends and read has not returned yet
          peer,      \* what the client does then: it waits, closes its side, or is gone
          rio_buf,   \* the unread bytes of the internal buffer
          taken,     \* what the present call has put into the caller's buffer
          lines,     \* the lines returned on this connection
          call,      \* the call in progress, or the result of the last one
          pending,   \* what the present call has still to write
          received   \* what has been written to the client

rioVars == <<unread, peer, rio_buf, taken, lines, call, pending, received>>

Peers == {"waits", "closes", "gone"}
Calls == {"idle", "reading", "writing", "line", "eof", "error"}

RioInit ==
    /\ unread = <<>> /\ peer = "closes" /\ rio_buf = <<>> /\ taken = <<>>
    /\ lines = <<>> /\ call = "idle" /\ pending = <<>> /\ received = <<>>

(* A new connection and rio_readinitb.                                      *)
rio_readinitb(message, ending) ==
    /\ unread' = message /\ peer' = ending
    /\ rio_buf' = <<>> /\ taken' = <<>> /\ lines' = <<>>
    /\ call' = "idle" /\ pending' = <<>> /\ received' = <<>>

-----------------------------------------------------------------------------
(* rio_readlineb, and in it rio_read for one byte at a time.                *)
rio_readlineb ==
    /\ call' = "reading"
    /\ UNCHANGED <<unread, peer, rio_buf, taken, lines, pending, received>>

(* The internal buffer is empty: any part of what has been sent comes in.   *)
(* Mutant: room for one byte more than the buffer has.                      *)
RoomForMore == RIO_BUFSIZE + 1
Room == RIO_BUFSIZE
Refill ==
    /\ call = "reading" /\ rio_buf = <<>> /\ unread # <<>>
    /\ \E k \in 1 .. Len(unread) :
          /\ k <= Room
          /\ rio_buf' = SubSeq(unread, 1, k)
          /\ unread' = SubSeq(unread, k + 1, Len(unread))
    /\ UNCHANGED <<peer, taken, lines, call, pending, received>>

Returned(line) == call' = "line" /\ lines' = Append(lines, line) /\ taken' = <<>>

(* Mutant: the terminating null byte is not counted.                        *)
FullAtMaxlen(line) == Len(line) = MAXLINE
Full(line) == Len(line) = MAXLINE - 1
TakeByte ==
    /\ call = "reading" /\ rio_buf # <<>>
    /\ rio_buf' = Tail(rio_buf)
    /\ LET line == Append(taken, Head(rio_buf))
       IN IF Head(rio_buf) = LF \/ Full(line) THEN Returned(line)
          ELSE taken' = line /\ UNCHANGED <<call, lines>>
    /\ UNCHANGED <<unread, peer, pending, received>>

(* At the end of the connection the last call returns what it has, and the  *)
(* next ones return 0 and leave the caller's buffer alone.                  *)
EndOfFile ==
    /\ call = "reading" /\ rio_buf = <<>> /\ unread = <<>> /\ peer = "closes"
    /\ IF taken = <<>> THEN call' = "eof" /\ UNCHANGED <<taken, lines>> ELSE Returned(taken)
    /\ UNCHANGED <<unread, peer, rio_buf, pending, received>>

ReadError ==
    /\ call = "reading" /\ rio_buf = <<>> /\ peer = "gone"
    /\ call' = "error"
    /\ UNCHANGED <<unread, peer, rio_buf, taken, lines, pending, received>>

-----------------------------------------------------------------------------
(* rio_writen: one call, or several that follow each other.                 *)
rio_writen(data) ==
    /\ call' = IF data = <<>> THEN "idle" ELSE "writing"
    /\ pending' = data
    /\ UNCHANGED <<unread, peer, rio_buf, taken, lines, received>>

(* Mutant: write is called once.                                            *)
AfterOneWrite(left) == "idle"
AfterWrite(left) == IF left = <<>> THEN "idle" ELSE "writing"
Write ==
    /\ call = "writing" /\ pending # <<>>
    /\ \E k \in 1 .. Len(pending) :
          /\ received' = received \o SubSeq(pending, 1, k)
          /\ pending' = SubSeq(pending, k + 1, Len(pending))
    /\ call' = AfterWrite(pending')
    /\ UNCHANGED <<unread, peer, rio_buf, taken, lines>>

WriteError ==
    /\ call = "writing" /\ peer = "gone"
    /\ call' = "error"
    /\ UNCHANGED <<unread, peer, rio_buf, taken, lines, pending, received>>

(* The caller has looked at the result.                                     *)
Taken ==
    /\ call' = "idle"
    /\ UNCHANGED <<unread, peer, rio_buf, taken, lines, pending, received>>

RioStep == Refill \/ TakeByte \/ EndOfFile \/ ReadError \/ Write \/ WriteError

-----------------------------------------------------------------------------
(* Lines come out whole and in order, as Lines promises, whatever pieces    *)
(* read returns and wherever they end.                                      *)
Reader == INSTANCE Lines WITH rest <- taken \o rio_buf \o unread, closed <- peer = "closes"
ImplementsLines == Reader!Spec
=============================================================================
