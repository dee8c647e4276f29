----------------------------- MODULE TinyProofs -----------------------------
(***************************************************************************)
(* Safety of the Tiny server and of its robust I/O for every size of the    *)
(* buffers, every client, every file and every number of connections.       *)
(***************************************************************************)
EXTENDS Tiny, NatProofs, SequenceTheorems

-----------------------------------------------------------------------------
(* Lines.                                                                   *)

(* What is between two calls of TakeByte: the bytes in the caller's buffer  *)
(* are fewer than a line may have and none of them ends one.                *)
ReaderOK ==
    /\ unread \in Seq(Byte) /\ rio_buf \in Seq(Byte) /\ taken \in Seq(Byte)
    /\ lines \in Seq(Seq(Byte))
    /\ Len(rio_buf) <= RIO_BUFSIZE
    /\ Len(taken) < MAXLINE - 1
    /\ \A j \in 1 .. Len(taken) : taken[j] # LF
    /\ peer \in Peers

Rest == taken \o rio_buf \o unread

LEMMA ReaderInit == Init => ReaderOK
<1>1. <<>> \in Seq(Byte) /\ <<>> \in Seq(Seq(Byte)) /\ Len(<<>>) = 0
  BY EmptySeq
<1>2. 0 < MAXLINE - 1 /\ 0 <= RIO_BUFSIZE
  BY RioAssumption
<1>3. 1 .. Len(<<>>) = {}
  BY <1>1
<1>4. ASSUME Init
      PROVE  unread = <<>> /\ rio_buf = <<>> /\ taken = <<>> /\ lines = <<>> /\ peer \in Peers
  BY <1>4 DEF Init, RioInit, Peers
<1> QED BY <1>1, <1>2, <1>3, <1>4 DEF ReaderOK

LEMMA ReaderConnect ==
    ASSUME ReaderOK, NEW c \in Clients, rio_readinitb(c.message, c.ending)
    PROVE  ReaderOK' /\ Reader!Connect
<1>1. c.message \in Seq(Byte) /\ c.ending \in Peers
  BY TinyAssumption
<1>2. ReaderOK'
  BY <1>1, RioAssumption DEF ReaderOK, rio_readinitb
<1>3. Rest' \in Seq(Byte)
  BY <1>1 DEF Rest, rio_readinitb
<1> QED BY <1>2, <1>3 DEF Reader!Connect, rio_readinitb, Rest

LEMMA ReaderRefill ==
    ASSUME ReaderOK, Refill
    PROVE  ReaderOK' /\ Rest' = Rest /\ lines' = lines /\ peer' = peer
<1>1. PICK k \in 1 .. Len(unread) :
          /\ k <= Room
          /\ rio_buf' = SubSeq(unread, 1, k)
          /\ unread' = SubSeq(unread, k + 1, Len(unread))
  BY DEF Refill
<1>2. unread \in Seq(Byte) /\ taken \in Seq(Byte) /\ rio_buf = <<>>
  BY DEF ReaderOK, Refill
<1>3. rio_buf' \in Seq(Byte) /\ Len(rio_buf') = k /\ unread' \in Seq(Byte)
  BY <1>1, <1>2
<1>4. rio_buf' \o unread' = unread
  BY <1>1, <1>2, <1>3
<1>5. Rest' = taken \o (rio_buf' \o unread')
  <2>1. Rest' = (taken \o rio_buf') \o unread'
    BY DEF Rest, Refill
  <2>2. taken \in Seq(Byte) /\ rio_buf' \in Seq(Byte) /\ unread' \in Seq(Byte)
    BY <1>2, <1>3
  <2>3. (taken \o rio_buf') \o unread' = taken \o (rio_buf' \o unread')
    BY <2>2, ConcatAssociative
  <2> QED BY <2>1, <2>3
<1>6. Rest = taken \o unread
  BY <1>2, ConcatEmptySeq DEF Rest
<1>7. ReaderOK'
  BY <1>1, <1>3 DEF ReaderOK, Refill, Room
<1> QED BY <1>4, <1>5, <1>6, <1>7 DEF Refill

(* One byte more in the caller's buffer and one less in the internal one.   *)
LEMMA OneByte ==
    ASSUME ReaderOK, rio_buf # <<>>
    PROVE  LET b == Head(rio_buf)
               line == Append(taken, b)
           IN /\ b \in Byte /\ line \in Seq(Byte) /\ Len(line) = Len(taken) + 1
              /\ \A j \in 1 .. Len(taken) : line[j] = taken[j]
              /\ line[Len(taken) + 1] = b
              /\ Tail(rio_buf) \in Seq(Byte) /\ Len(Tail(rio_buf)) <= RIO_BUFSIZE
              /\ line \o Tail(rio_buf) = taken \o rio_buf
<1> DEFINE b == Head(rio_buf)
           line == Append(taken, b)
<1>1. taken \in Seq(Byte) /\ rio_buf \in Seq(Byte) /\ rio_buf # <<>> /\ Len(rio_buf) <= RIO_BUFSIZE
  BY DEF ReaderOK
<1>2. b \in Byte /\ Tail(rio_buf) \in Seq(Byte) /\ Len(Tail(rio_buf)) = Len(rio_buf) - 1
  BY <1>1
<1>3. Len(Tail(rio_buf)) <= RIO_BUFSIZE
  BY <1>1, <1>2, RioAssumption
<1>4. /\ line \in Seq(Byte) /\ Len(line) = Len(taken) + 1
      /\ \A j \in 1 .. Len(taken) : line[j] = taken[j]
      /\ line[Len(taken) + 1] = b
  BY <1>1, <1>2
<1>5. line \o Tail(rio_buf) = taken \o rio_buf
  <2>1. line = taken \o <<b>> /\ <<b>> \in Seq(Byte)
    BY <1>1, <1>2, AppendIsConcat
  <2>2. <<b>> \o Tail(rio_buf) = rio_buf
    BY <1>1
  <2>3. line \o Tail(rio_buf) = taken \o (<<b>> \o Tail(rio_buf))
    BY <1>1, <1>2, <2>1, ConcatAssociative
  <2> QED BY <2>2, <2>3
<1> QED BY <1>2, <1>3, <1>4, <1>5

(* A step that takes one more byte without completing a line.               *)
LEMMA ReaderTakes ==
    ASSUME ReaderOK, TakeByte, ~(Head(rio_buf) = LF \/ Full(Append(taken, Head(rio_buf))))
    PROVE  ReaderOK' /\ Rest' = Rest /\ lines' = lines /\ peer' = peer
<1> DEFINE b == Head(rio_buf)
           line == Append(taken, b)
<1>1. rio_buf # <<>>
  BY DEF TakeByte
<1>2. taken' = line /\ rio_buf' = Tail(rio_buf) /\ UNCHANGED <<unread, peer, lines>>
  BY DEF TakeByte
<1>3. /\ b \in Byte /\ line \in Seq(Byte) /\ Len(line) = Len(taken) + 1
      /\ \A j \in 1 .. Len(taken) : line[j] = taken[j]
      /\ line[Len(taken) + 1] = b
      /\ Tail(rio_buf) \in Seq(Byte) /\ Len(Tail(rio_buf)) <= RIO_BUFSIZE
      /\ line \o Tail(rio_buf) = taken \o rio_buf
  BY <1>1, OneByte
<1>4. Len(line) < MAXLINE - 1
  <2>1. Len(line) # MAXLINE - 1
    BY DEF Full
  <2>2. Len(taken) \in Nat /\ Len(taken) < MAXLINE - 1
    BY DEF ReaderOK
  <2> QED BY <2>1, <2>2, <1>3, RioAssumption
<1>5. \A j \in 1 .. Len(line) : line[j] # LF
  <2>1. \A j \in 1 .. Len(taken) + 1 : j \in 1 .. Len(taken) \/ j = Len(taken) + 1
    BY DEF ReaderOK
  <2> QED BY <1>3, <2>1 DEF ReaderOK
<1> HIDE DEF b, line
<1>6. ReaderOK'
  BY <1>2, <1>3, <1>4, <1>5 DEF ReaderOK
<1> QED BY <1>2, <1>3, <1>6 DEF Rest

(* A finished line is the beginning of what was left, and a line of Lines.  *)
LEMMA DeliverLine ==
    ASSUME NEW line \in Seq(Byte), NEW more \in Seq(Byte), line # <<>>, Len(line) < MAXLINE,
           \A j \in 1 .. Len(line) - 1 : line[j] # LF,
           \/ line[Len(line)] = LF \/ Len(line) = MAXLINE - 1
           \/ peer = "closes" /\ more = <<>>,
           Rest = line \o more, Rest' = more,
           lines' = Append(lines, line), peer' = peer
    PROVE  Reader!Deliver
<1> DEFINE k == Len(line)
<1>1. /\ k \in Nat /\ k > 0 /\ Rest \in Seq(Byte) /\ Len(Rest) = k + Len(more)
      /\ \A j \in 1 .. k : Rest[j] = line[j]
  BY ConcatProperties
<1>2. SubSeq(Rest, 1, k) = line
  <2> DEFINE first == SubSeq(Rest, 1, k)
  <2>1. /\ first \in Seq(Byte) /\ Len(first) = k
        /\ \A j \in 1 .. k : first[j] = Rest[j]
    BY <1>1
  <2> HIDE DEF first
  <2>2. \A j \in 1 .. Len(first) : first[j] = line[j]
    BY <1>1, <2>1
  <2>3. first = line
    BY <2>1, <2>2, SeqEqual
  <2> QED BY <2>3 DEF first
<1>3. SubSeq(Rest, k + 1, Len(Rest)) = more
  <2> DEFINE last == SubSeq(Rest, k + 1, Len(Rest))
  <2>1. k \in Nat /\ Rest \in Seq(Byte) /\ Len(Rest) = k + Len(more) /\ Len(more) \in Nat
    BY <1>1
  <2> HIDE DEF k
  <2>2. /\ last \in Seq(Byte) /\ Len(last) = Len(more)
        /\ \A j \in 1 .. Len(more) : last[j] = Rest[k + j]
    BY <2>1
  <2>3. \A j \in 1 .. Len(more) : Rest[k + j] = more[j]
    BY <1>1, ConcatProperties DEF k
  <2> HIDE DEF last
  <2>4. last = more
    BY <2>2, <2>3, SeqEqual
  <2> QED BY <2>4 DEF last
<1>4. k \in 1 .. Len(Rest) /\ (more = <<>> => k = Len(Rest))
  BY <1>1
<1>5. /\ k < MAXLINE /\ \A j \in 1 .. k - 1 : Rest[j] # LF
      /\ Rest[k] = LF \/ k = MAXLINE - 1 \/ (peer = "closes" /\ k = Len(Rest))
  BY <1>1, <1>4
<1> HIDE DEF k
<1>6. \E n \in 1 .. Len(Rest) :
        /\ /\ n < MAXLINE /\ \A j \in 1 .. n - 1 : Rest[j] # LF
           /\ Rest[n] = LF \/ n = MAXLINE - 1 \/ (peer = "closes" /\ n = Len(Rest))
        /\ lines' = Append(lines, SubSeq(Rest, 1, n))
        /\ Rest' = SubSeq(Rest, n + 1, Len(Rest))
        /\ (peer = "closes")' = (peer = "closes")
  BY <1>2, <1>3, <1>4, <1>5
<1> QED BY <1>6 DEF Reader!Deliver, Reader!IsLine, Rest

(* A byte that ends a line, or fills the caller's buffer, delivers it.      *)
LEMMA ReaderReturns ==
    ASSUME ReaderOK, TakeByte, Head(rio_buf) = LF \/ Full(Append(taken, Head(rio_buf)))
    PROVE  ReaderOK' /\ Reader!Deliver
<1> DEFINE b == Head(rio_buf)
           line == Append(taken, b)
           more == Tail(rio_buf) \o unread
<1>1. rio_buf # <<>>
  BY DEF TakeByte
<1>2. /\ taken' = <<>> /\ lines' = Append(lines, line) /\ rio_buf' = Tail(rio_buf)
      /\ UNCHANGED <<unread, peer>>
  BY DEF TakeByte, Returned
<1>3. /\ b \in Byte /\ line \in Seq(Byte) /\ Len(line) = Len(taken) + 1
      /\ \A j \in 1 .. Len(taken) : line[j] = taken[j]
      /\ line[Len(taken) + 1] = b
      /\ Tail(rio_buf) \in Seq(Byte) /\ Len(Tail(rio_buf)) <= RIO_BUFSIZE
      /\ line \o Tail(rio_buf) = taken \o rio_buf
  BY <1>1, OneByte
<1>4. b = LF \/ Len(line) = MAXLINE - 1
  BY DEF Full
<1>5. /\ taken \in Seq(Byte) /\ Len(taken) \in Nat /\ Len(taken) < MAXLINE - 1
      /\ \A j \in 1 .. Len(taken) : taken[j] # LF
      /\ unread \in Seq(Byte) /\ lines \in Seq(Seq(Byte)) /\ peer \in Peers
  BY DEF ReaderOK
<1> HIDE DEF b, line
<1>6. Rest = line \o more /\ more \in Seq(Byte)
  <2>1. Rest = (line \o Tail(rio_buf)) \o unread
    BY <1>3 DEF Rest
  <2>2. line \in Seq(Byte) /\ Tail(rio_buf) \in Seq(Byte) /\ unread \in Seq(Byte)
    BY <1>3, <1>5
  <2>3. (line \o Tail(rio_buf)) \o unread = line \o more
    BY <2>2, ConcatAssociative
  <2>4. more \in Seq(Byte)
    BY <2>2
  <2> QED BY <2>1, <2>3, <2>4
<1>7. Rest' = more
  <2>1. Rest' = (<<>> \o Tail(rio_buf)) \o unread
    BY <1>2 DEF Rest
  <2> QED BY <2>1, <1>3, ConcatEmptySeq
<1>8. ReaderOK'
  <2>1. <<>> \in Seq(Byte) /\ Len(<<>>) = 0 /\ 1 .. Len(<<>>) = {}
    BY EmptySeq
  <2>2. Append(lines, line) \in Seq(Seq(Byte))
    BY <1>3, <1>5
  <2>3. 0 < MAXLINE - 1
    BY RioAssumption
  <2> QED BY <1>2, <1>3, <1>5, <2>1, <2>2, <2>3 DEF ReaderOK
<1>9. Len(line) < MAXLINE /\ line # <<>>
  BY <1>3, <1>5, RioAssumption
<1>10. \A j \in 1 .. Len(line) - 1 : line[j] # LF
  <2>1. 1 .. Len(line) - 1 = 1 .. Len(taken)
    BY <1>3, <1>5
  <2> QED BY <1>3, <1>5, <2>1
<1>11. line[Len(line)] = LF \/ Len(line) = MAXLINE - 1
  BY <1>3, <1>4
<1> HIDE DEF more
<1>12. Reader!Deliver
  BY <1>2, <1>3, <1>6, <1>7, <1>9, <1>10, <1>11, DeliverLine
<1> QED BY <1>8, <1>12

(* At the end of the connection what was taken is its last line.            *)
LEMMA ReaderEnds ==
    ASSUME ReaderOK, EndOfFile
    PROVE  ReaderOK' /\ (Reader!Deliver \/ (Rest' = Rest /\ lines' = lines /\ peer' = peer))
<1>1. CASE taken = <<>>
  <2>1. UNCHANGED <<unread, peer, rio_buf, taken, lines>>
    BY <1>1 DEF EndOfFile
  <2> QED BY <2>1 DEF ReaderOK, Rest
<1>2. CASE taken # <<>>
  <2>1. /\ rio_buf = <<>> /\ unread = <<>> /\ peer = "closes"
        /\ taken' = <<>> /\ lines' = Append(lines, taken) /\ UNCHANGED <<unread, peer, rio_buf>>
    BY <1>2 DEF EndOfFile, Returned
  <2>2. /\ taken \in Seq(Byte) /\ Len(taken) \in Nat /\ Len(taken) < MAXLINE - 1
        /\ \A j \in 1 .. Len(taken) : taken[j] # LF
        /\ lines \in Seq(Seq(Byte)) /\ peer \in Peers
    BY DEF ReaderOK
  <2>3. <<>> \in Seq(Byte) /\ Len(<<>>) = 0 /\ 1 .. Len(<<>>) = {}
    BY EmptySeq
  <2>4. Rest = taken \o <<>> /\ Rest' = <<>>
    BY <2>1, <2>2, <2>3, ConcatEmptySeq DEF Rest
  <2>5. 0 < MAXLINE - 1 /\ Len(taken) < MAXLINE /\ 0 <= RIO_BUFSIZE
    BY <2>2, RioAssumption
  <2>6. Append(lines, taken) \in Seq(Seq(Byte))
    BY <2>2
  <2>7. ReaderOK'
    BY <2>1, <2>2, <2>3, <2>5, <2>6 DEF ReaderOK
  <2>8. \A j \in 1 .. Len(taken) - 1 : taken[j] # LF
    BY <2>2
  <2>9. Reader!Deliver
    BY <1>2, <2>1, <2>2, <2>3, <2>4, <2>5, <2>8, DeliverLine
  <2> QED BY <2>7, <2>9
<1> QED BY <1>1, <1>2

(* No other step of the server touches what is between two lines.           *)
LEMMA ReaderLeft ==
    ASSUME ReaderOK, UNCHANGED <<unread, peer, rio_buf, taken, lines>>
    PROVE  ReaderOK' /\ Rest' = Rest /\ lines' = lines /\ peer' = peer
BY DEF ReaderOK, Rest

LEMMA ReaderStep ==
    ASSUME ReaderOK, [Next]_vars
    PROVE  ReaderOK' /\ [Reader!Next]_<<Rest, lines, peer = "closes">>
<1> DEFINE Same == UNCHANGED <<unread, peer, rio_buf, taken, lines>>
           Goal == ReaderOK' /\ [Reader!Next]_<<Rest, lines, peer = "closes">>
<1>1. ASSUME Same PROVE Goal
  BY <1>1, ReaderLeft
<1>2. CASE RioStep
  <2>1. CASE Refill
    BY <2>1, ReaderRefill
  <2>2. CASE TakeByte
    <3>1. CASE Head(rio_buf) = LF \/ Full(Append(taken, Head(rio_buf)))
      BY <2>2, <3>1, ReaderReturns DEF Reader!Next
    <3>2. CASE ~(Head(rio_buf) = LF \/ Full(Append(taken, Head(rio_buf))))
      BY <2>2, <3>2, ReaderTakes
    <3> QED BY <3>1, <3>2
  <2>3. CASE EndOfFile
    BY <2>3, ReaderEnds DEF Reader!Next
  <2>4. CASE ReadError \/ Write \/ WriteError
    <3>1. Same
      BY <2>4 DEF ReadError, Write, WriteError
    <3> QED BY <3>1, <1>1
  <2> QED BY <1>2, <2>1, <2>2, <2>3, <2>4 DEF RioStep
<1>3. CASE Accept
  <2>1. PICK c \in Clients : rio_readinitb(c.message, c.ending)
    BY <1>3 DEF Accept
  <2> QED BY <2>1, ReaderConnect DEF Reader!Next
<1>4. CASE \/ RioError \/ Open_listenfd \/ PastEnd \/ Munmap \/ Open \/ Fork \/ Wait \/ Overflown
           \/ Child \/ Failure \/ Change
  <2>1. Same
    BY <1>4 DEF RioError, Open_listenfd, PastEnd, Munmap, Open, Fork, Wait, Overflown, Child, Execve,
                Adder, Failure, SystemError, Change, rioVars
  <2> QED BY <2>1, <1>1
<1>5. CASE Rio_readlineb \/ NoRequest \/ RequestLine \/ Header \/ Stat \/ Body \/ Close
  <2>1. Same
    BY <1>5 DEF Rio_readlineb, NoRequest, RequestLine, Header, Stat, Body, Close, rio_readlineb,
                rio_writen, Taken, clienterror, rioVars
  <2> QED BY <2>1, <1>1
<1>6. CASE UNCHANGED vars
  <2>1. Same
    BY <1>6 DEF vars, rioVars
  <2> QED BY <2>1, <1>1
<1> HIDE DEF Goal
<1>7. Goal
  BY <1>2, <1>3, <1>4, <1>5, <1>6 DEF Next, Server, Rio, Goal
<1> QED BY <1>7 DEF Goal

(* rio_readlineb hands out the bytes of every connection in order, each     *)
(* once, in lines that end where its callers expect them to, whatever       *)
(* pieces read returns and whatever the size of the buffers.                *)
THEOREM Refinement == Spec => ImplementsLines
<1>1. Init => ReaderOK /\ Reader!Init
  <2>1. ASSUME Init PROVE Reader!Init
    <3>1. <<>> \o <<>> = <<>>
      BY EmptySeq, ConcatEmptySeq
    <3>2. taken = <<>> /\ rio_buf = <<>> /\ unread = <<>> /\ lines = <<>> /\ peer = "closes"
      BY <2>1 DEF Init, RioInit
    <3> QED BY <3>1, <3>2 DEF Reader!Init
  <2> QED BY <2>1, ReaderInit
<1>2. ReaderOK /\ [Next]_vars => ReaderOK' /\ [Reader!Next]_<<Rest, lines, peer = "closes">>
  BY ReaderStep
<1> QED BY <1>1, <1>2, PTL DEF Spec, ImplementsLines, Reader!Spec, Rest

-----------------------------------------------------------------------------
(* What stops the server.                                                   *)

(* serve_static is called for static URIs only.  As long as no file has     *)
(* changed, the one it opens is the one stat looked at, and what is mapped  *)
(* has the length that was promised.                                        *)
ServingOK ==
    /\ pc \in {"headers", "stat"} => method = GET
    /\ pc \in {"open", "body", "munmap"} => parse_uri(uri).static
    /\ (pc = "open" /\ changes = 0) =>
           /\ filename \in DOMAIN files /\ "r" \in files[filename].perms
           /\ promised = Len(files[filename].content)
    /\ (pc \in {"body", "munmap"} /\ changes = 0) => promised = Len(src)
    /\ pc = "overflown" => (IF method = GET THEN uri ELSE method) \in Long

(* Without ServingOK, StopsOnlyFor says nothing of the step to "down".      *)
Shortened == pc \in {"munmap", "down"} /\ parse_uri(uri).static /\ changes > 0
StopInv ==
    /\ changes \in Nat /\ promised \in Nat
    /\ \A f \in DOMAIN files : files[f] \in File
    /\ call = "error" => peer = "gone" \/ Shortened
    /\ ServingOK
    /\ StopsOnlyFor

LEMMA StopInit == Init => StopInv
<1> SUFFICES ASSUME Init PROVE StopInv
  OBVIOUS
<1>1. changes = 0 /\ promised = 0 /\ files = Files /\ call = "idle" /\ pc = "listen"
  BY DEF Init, RioInit
<1> QED BY <1>1, TinyAssumption DEF StopInv, ServingOK, StopsOnlyFor

(* The steps that leave what serve_static looks at alone.                   *)
LEMMA StopKept ==
    ASSUME StopInv, UNCHANGED <<method, uri, files, filename, promised, src, changes>>,
           call' = "error" => peer' = "gone" \/ (call = "error" /\ peer' = peer /\ pc' \in {pc, "down"}),
           pc' \in {"headers", "stat", "open", "body", "munmap", "overflown"} =>
               pc' = pc \/ (pc = "headers" /\ pc' = "stat"),
           pc' = "down" => \/ pc = "down" /\ peer' = peer /\ failed' = failed
                           \/ failed' \/ peer' = "gone" \/ Shortened
    PROVE  StopInv'
<1>1. parse_uri(uri)' = parse_uri(uri)
  BY DEF parse_uri
<1>2. call' = "error" => peer' = "gone" \/ Shortened'
  BY <1>1 DEF StopInv, Shortened
<1>3. ServingOK'
  BY <1>1 DEF StopInv, ServingOK
<1>4. StopsOnlyFor'
  BY <1>1 DEF StopInv, StopsOnlyFor, Shortened
<1> QED BY <1>2, <1>3, <1>4 DEF StopInv

LEMMA StopRio == ASSUME StopInv, Rio PROVE StopInv'
<1>1. UNCHANGED <<pc, method, uri, files, filename, promised, src, changes, failed, peer>>
  BY DEF Rio, RioStep, Refill, TakeByte, EndOfFile, ReadError, Write, WriteError, docs
<1>2. call' = "error" => peer = "gone"
  BY DEF Rio, RioStep, Refill, TakeByte, EndOfFile, Returned, ReadError, Write, AfterWrite, WriteError
<1> QED BY <1>1, <1>2, StopKept

LEMMA StopStat == ASSUME StopInv, Stat PROVE StopInv'
<1> DEFINE p == parse_uri(uri)
           f == p.filename
<1>1. /\ pc = "stat" /\ uri' = p.uri /\ filename' = f
      /\ UNCHANGED <<method, files, src, changes, failed>>
      /\ pc' \in {"close", "overflown", "open", "fork"} /\ (pc' = "overflown" => uri' \in Long)
  BY DEF Stat, At, clienterror
<1>2. call' # "error"
  BY DEF Stat, clienterror, rio_writen
<1>3. CASE pc' = "open"
  <2>1. /\ f \in DOMAIN files /\ p.static /\ Servable(f, "r") /\ promised' = Len(files[f].content)
    BY <1>3 DEF Stat, clienterror
  <2>2. uri' = uri
    BY <1>1, <2>1 DEF parse_uri
  <2>3. promised' \in Nat /\ "r" \in files[f].perms
    BY <2>1 DEF StopInv, File, Servable
  <2>4. parse_uri(uri)'.static
    BY <2>1, <2>2 DEF parse_uri
  <2> QED BY <1>1, <1>2, <1>3, <2>1, <2>3, <2>4 DEF StopInv, ServingOK, StopsOnlyFor
<1>4. CASE pc' # "open"
  <2>1. promised' = promised
    BY <1>4 DEF Stat
  <2>2. method = GET
    BY <1>1 DEF StopInv, ServingOK
  <2> QED BY <1>1, <1>2, <1>4, <2>1, <2>2 DEF StopInv, ServingOK, StopsOnlyFor
<1> QED BY <1>3, <1>4

LEMMA StopOpen == ASSUME StopInv, Open PROVE StopInv'
<1>1. /\ pc = "open" /\ call = "idle"
      /\ UNCHANGED <<call, peer, method, uri, files, filename, promised, changes, failed>>
  BY DEF Open, At, rioVars
<1>2. CASE CanMap
  <2>1. pc' = "body" /\ src' = files[filename].content
    BY <1>2 DEF Open
  <2> QED BY <1>1, <2>1 DEF StopInv, ServingOK, StopsOnlyFor, parse_uri
<1>3. CASE ~CanMap
  <2>1. pc' = "down"
    BY <1>3 DEF Open
  <2>2. parse_uri(uri).static /\ (promised = 0 \/ changes > 0)
    BY <1>1, <1>3 DEF CanMap, StopInv, ServingOK
  <2> QED BY <1>1, <2>1, <2>2 DEF StopInv, ServingOK, StopsOnlyFor, parse_uri
<1> QED BY <1>2, <1>3

LEMMA StopBody == ASSUME StopInv, Body PROVE StopInv'
<1>1. /\ pc = "body" /\ pc' = "munmap" /\ call' # "error"
      /\ UNCHANGED <<method, uri, files, filename, promised, src, changes, failed>>
  BY DEF Body, At, docs, rio_writen
<1>2. parse_uri(uri)' = parse_uri(uri)
  BY <1>1 DEF parse_uri
<1> QED BY <1>1, <1>2 DEF StopInv, ServingOK, StopsOnlyFor

(* Less is mapped than was promised only after a change.                    *)
LEMMA StopPastEnd == ASSUME StopInv, PastEnd PROVE StopInv'
<1>1. /\ pc = "munmap" /\ promised > Len(src)
      /\ UNCHANGED <<pc, peer, method, uri, files, filename, promised, src, changes, failed>>
  BY DEF PastEnd, docs
<1>2. parse_uri(uri)' = parse_uri(uri)
  BY <1>1 DEF parse_uri
<1>3. changes > 0
  <2>1. changes = 0 => promised = Len(src)
    BY <1>1 DEF StopInv, ServingOK
  <2>2. promised \in Nat /\ changes \in Nat
    BY DEF StopInv
  <2> QED BY <1>1, <2>1, <2>2
<1>4. Shortened'
  BY <1>1, <1>2, <1>3 DEF Shortened, StopInv, ServingOK
<1> QED BY <1>1, <1>2, <1>4 DEF StopInv, ServingOK, StopsOnlyFor

LEMMA StopChange == ASSUME StopInv, Change PROVE StopInv'
<1>1. changes \in Nat /\ changes' = changes + 1
  BY DEF Change, StopInv
<1>2. /\ UNCHANGED <<pc, call, peer, method, uri, filename, promised, failed>>
      /\ parse_uri(uri)' = parse_uri(uri)
  BY DEF Change, parse_uri
<1>3. \A f \in DOMAIN files' : files'[f] \in File
  <2>1. PICK f \in DOMAIN Versions :
            \/ files' = Restrict(files, DOMAIN files \ {f})
            \/ \E v \in Versions[f] :
                  files' = [g \in DOMAIN files \cup {f} |-> IF g = f THEN v ELSE files[g]]
    BY DEF Change
  <2>2. \A g \in DOMAIN files : files[g] \in File
    BY DEF StopInv
  <2>3. \A v \in Versions[f] : v \in File
    BY TinyAssumption
  <2>4. CASE files' = Restrict(files, DOMAIN files \ {f})
    BY <2>2, <2>4 DEF Restrict
  <2> QED BY <2>1, <2>2, <2>3, <2>4
<1>4. changes' > 0 /\ changes' # 0
  BY <1>1
<1>5. call' = "error" => peer' = "gone" \/ Shortened'
  BY <1>2, <1>4 DEF StopInv, Shortened
<1>6. ServingOK' /\ StopsOnlyFor'
  BY <1>2, <1>4 DEF StopInv, ServingOK, StopsOnlyFor
<1> QED BY <1>1, <1>2, <1>3, <1>5, <1>6 DEF StopInv

LEMMA StopStep == ASSUME StopInv, [Next]_vars PROVE StopInv'
<1>1. CASE Rio
  BY <1>1, StopRio
<1>2. CASE RioError
  <2>1. /\ call = "error" /\ pc # "down" /\ pc' = "down"
        /\ UNCHANGED <<call, peer, method, uri, files, filename, promised, src, changes>>
    BY <1>2 DEF RioError, rioVars, docs
  <2>2. peer = "gone" \/ Shortened
    BY <2>1 DEF StopInv
  <2> QED BY <2>1, <2>2, StopKept
<1>3. CASE Stat \/ Open \/ Body \/ PastEnd \/ Change
  BY <1>3, StopStat, StopOpen, StopBody, StopPastEnd, StopChange
<1>4. CASE Failure
  <2>1. PICK here \in {"listen", "accept", "fork"} : SystemError(here)
    BY <1>4 DEF Failure
  <2> QED BY <2>1, StopKept DEF SystemError, At, rioVars, docs
<1>5. CASE Accept
  <2>1. /\ pc' = "request" /\ call' = "idle"
        /\ UNCHANGED <<method, uri, files, filename, promised, src, changes>>
    BY <1>5 DEF Accept, rio_readinitb, docs
  <2> QED BY <2>1, StopKept
<1>6. CASE Rio_readlineb \/ NoRequest
  <2>1. /\ pc' \in {pc, "close"} /\ pc # "down" /\ call' # "error"
        /\ UNCHANGED <<method, uri, files, filename, promised, src, changes>>
    BY <1>6 DEF Rio_readlineb, NoRequest, At, rio_readlineb, Taken, docs
  <2> QED BY <2>1, StopKept
<1>7. CASE RequestLine
  <2>1. /\ call' # "error" /\ UNCHANGED <<files, filename, promised, src, changes>>
        /\ \/ method' # GET /\ (pc' = "close" \/ (pc' = "overflown" /\ method' \in Long))
           \/ method' = GET /\ pc' = "headers"
    BY <1>7 DEF RequestLine, clienterror, rio_writen, Taken, docs
  <2> QED BY <2>1 DEF StopInv, ServingOK, StopsOnlyFor
<1>8. CASE Header
  <2>1. /\ pc = "headers" /\ pc' \in {"headers", "stat"} /\ call' # "error"
        /\ UNCHANGED <<method, uri, files, filename, promised, src, changes>>
    BY <1>8 DEF Header, Taken, docs
  <2> QED BY <2>1, StopKept
<1>9. CASE Open_listenfd \/ Munmap \/ Fork \/ Wait
  <2>1. pc' \in {"accept", "close", "wait"} /\ call = "idle" /\ call' = call
        /\ UNCHANGED <<uri, files, filename, promised, changes>>
    BY <1>9 DEF Open_listenfd, Munmap, Fork, Wait, At, rioVars, docs
  <2> QED BY <2>1 DEF StopInv, ServingOK, StopsOnlyFor
<1>10. CASE Close
  <2>1. /\ pc' = "accept" /\ call' = "idle"
        /\ UNCHANGED <<method, uri, files, filename, promised, src, changes>>
    BY <1>10 DEF Close, At, docs
  <2> QED BY <2>1, StopKept
<1>11. CASE Overflown
  <2>1. /\ pc = "overflown" /\ pc' = "down" /\ call' # "error"
        /\ UNCHANGED <<method, uri, files, filename, promised, src, changes>>
    BY <1>11 DEF Overflown, At, rioVars, docs
  <2> QED BY <2>1 DEF StopInv, ServingOK, StopsOnlyFor
<1>12. CASE Child \/ UNCHANGED vars
  <2>1. UNCHANGED <<pc, call, peer, failed, method, uri, files, filename, promised, src, changes>>
    BY <1>12 DEF Child, Execve, Adder, vars, rioVars, docs
  <2> QED BY <2>1, StopKept
<1> QED BY <1>1, <1>2, <1>3, <1>4, <1>5, <1>6, <1>7, <1>8, <1>9, <1>10, <1>11, <1>12 DEF Next, Server

(* The only requests that stop the server are those of clients that are     *)
(* gone, for empty files, for files that change while they are served, and  *)
(* those that overflow a buffer, with a method or a URI near MAXLINE:       *)
(* serve_static never maps nothing, writes past what it has mapped, or      *)
(* fails to open what stat has found, for any other reason.                 *)
THEOREM StopsRight == Spec => []StopsOnlyFor
<1>1. StopInv => StopsOnlyFor
  BY DEF StopInv
<1> QED BY <1>1, StopInit, StopStep, PTL DEF Spec


-----------------------------------------------------------------------------
(* What a client is answered.                                               *)

(* The method and the URI that the first of some lines names.               *)
Named(ls) == ls # <<>> /\ Others(Words(ls[1])) # {}
MethodIn(ls) == ls[1][Min(Words(ls[1]))]
UriIn(ls) == ls[1][Min(Others(Words(ls[1])))]

(* IsAnswer, for that many bytes promised and that many changes.            *)
AnswerOf(answer, m, u, bytes, after) ==
    LET p == parse_uri(u)
    IN \/ m # GET /\ answer = <<"501", m>>
       \/ m = GET /\ answer \in {<<"404", p.uri>>, <<"403", p.uri>>}
       \/ m = GET /\ p.static /\ \E k \in 1 .. Len(answer) :
             /\ SubSeq(answer, 1, k) = Headers /\ Len(answer) - k = bytes
             /\ \A n \in k + 1 .. Len(answer) :
                   \/ \E c \in Contents(p.filename) : n - k \in DOMAIN c /\ answer[n] = c[n - k]
                   \/ after > 0 /\ answer[n] = "0"
       \/ m = GET /\ ~p.static /\ answer \in {<<"200", "server">>, <<"200", "server", "headers", p.cgiargs>>}

Answered(answer) == Named(lines) => AnswerOf(answer, MethodIn(lines), UriIn(lines), promised, changes)

(* The strings that tiny.c writes are listed: the provers do not see them   *)
(* in STRING.                                                               *)
Texts == {"501", "404", "403", "200", "server", "length", "type", "headers", "empty", "0"}
Chars == Byte \cup STRING \cup Texts
Sent == received \o pending

(* What is said of a file that does not change is said of it from the start.*)
FilesOK ==
    /\ \A f \in DOMAIN files : files[f] \in File /\ files[f].content \in Contents(f)
    /\ \A f \in DOMAIN files \ DOMAIN Versions : f \in DOMAIN Files
    /\ \A f \in DOMAIN Files \ DOMAIN Versions : f \in DOMAIN files /\ files[f] = Files[f]

(* What doit has in hand when it serves a static or a dynamic URI.          *)
Static(ls, name) ==
    Named(ls) => /\ MethodIn(ls) = GET /\ parse_uri(UriIn(ls)).static
                 /\ name = parse_uri(UriIn(ls)).filename
Dynamic(ls, name, args) ==
    Named(ls) => /\ MethodIn(ls) = GET /\ Uri[UriIn(ls)].dynamic
                 /\ name = parse_uri(UriIn(ls)).filename
                 /\ args = parse_uri(UriIn(ls)).cgiargs
(* The headers, and behind them as much as promised of what the file holds  *)
(* or has held, or zeros once it has changed.                               *)
Bodied(sent, name, bytes, after) ==
    /\ Len(sent) = 4 + bytes
    /\ \A n \in 1 .. 4 : sent[n] = Headers[n]
    /\ \A n \in 5 .. Len(sent) :
          \/ \E c \in Contents(name) : n - 4 \in DOMAIN c /\ sent[n] = c[n - 4]
          \/ after > 0 /\ sent[n] = "0"
Runs(f) == f \in DOMAIN Versions \/ (f \in DOMAIN Files /\ "x" \in Files[f].perms)
NoAdder(f) == f \in DOMAIN Versions \/ (f \in DOMAIN Files /\ Files[f].content # <<"adder">>)
Begun == <<"200", "server">>

AnswerTypes ==
    /\ received \in Seq(Chars) /\ pending \in Seq(Chars)
    /\ method \in Byte /\ uri \in Byte /\ promised \in Nat /\ changes \in Nat
    /\ src \in Seq(STRING) /\ cgiargs \in Chars

(* Calls are made where they are looked at, and what they have to write is  *)
(* written before the next.                                                 *)
CallsOK ==
    /\ call \in {"reading", "line", "eof"} => pc \in {"request", "headers"}
    /\ call \in {"idle", "reading", "line", "eof"} => pending = <<>>
    /\ pc \in {"request", "headers"} => call # "writing" /\ pending = <<>>
    /\ pc \in {"listen", "accept", "stat", "body", "wait"} => call = "idle"

(* Before a request line is there nothing is known of it, and before doit   *)
(* serves it nothing is written.                                            *)
RequestOK ==
    /\ pc = "request" => IF call = "line" THEN Len(lines) = 1 ELSE lines = <<>>
    /\ pc \in {"headers", "stat"} => /\ lines # <<>> /\ method = GET
                                     /\ Named(lines) => MethodIn(lines) = GET /\ uri = UriIn(lines)
    /\ pc \in {"request", "headers", "stat"} => received = <<>>
    /\ pc \notin {"wait", "close", "accept", "down"} => shown = {}
    /\ pc = "listen" => lines = <<>>
    /\ pc # "wait" => child = "none"

ServedOK ==
    /\ pc \in {"open", "body"} => Sent = Headers /\ Static(lines, filename)
    /\ pc = "body" => src \in Contents(filename)
    /\ pc = "munmap" => /\ Bodied(Sent, filename, promised, changes) /\ Static(lines, filename)
                        /\ Len(pending) <= promised
    /\ pc = "close" => Answered(Sent)
    /\ pc = "accept" /\ unread = <<>> => Answered(received)
    /\ pc \in {"fork", "wait"} => Dynamic(lines, filename, cgiargs) /\ Runs(filename)
    /\ pc = "fork" => Sent = Begun
    /\ pc = "wait" => /\ child # "none"
                      /\ \/ received = Begun
                         \/ child = "exited" /\ received = Begun \o <<"headers", cgiargs>>

(* The child writes the lines it has a copy of only if it cannot run adder. *)
ShownOK ==
    shown # {} /\ Named(lines) /\ pc # "down" =>
        /\ MethodIn(lines) = GET /\ Uri[UriIn(lines)].dynamic
        /\ NoAdder(parse_uri(UriIn(lines)).filename)
        /\ pc = "wait" => child = "exited"

AnswerInv ==
    AnswerTypes /\ FilesOK /\ CallsOK /\ RequestOK /\ ServedOK /\ ShownOK

LEMMA AnswerInit == Init => AnswerInv
<1> SUFFICES ASSUME Init PROVE AnswerInv
  OBVIOUS
<1>1. /\ pc = "listen" /\ call = "idle" /\ child = "none" /\ shown = {} /\ method = Garbage
      /\ uri = Garbage /\ promised = 0 /\ src = <<>> /\ cgiargs = "empty" /\ changes = 0 /\ files = Files
      /\ lines = <<>> /\ received = <<>> /\ pending = <<>>
  BY DEF Init, RioInit
<1>2. AnswerTypes
  <2>1. <<>> \in Seq(Chars) /\ <<>> \in Seq(STRING)
    BY EmptySeq
  <2>2. "empty" \in Chars
    BY DEF Chars, Texts
  <2>3. Garbage \in Byte
    BY TinyAssumption
  <2> QED BY <1>1, <2>1, <2>2, <2>3 DEF AnswerTypes
<1>3. FilesOK
  BY <1>1, TinyAssumption DEF FilesOK, Contents
<1>4. CallsOK /\ RequestOK
  BY <1>1 DEF CallsOK, RequestOK
<1>5. ServedOK /\ ShownOK
  BY <1>1 DEF ServedOK, ShownOK
<1> QED BY <1>2, <1>3, <1>4, <1>5 DEF AnswerInv

(* A line that follows another leaves the first where it is.                *)
LEMMA FirstLine ==
    ASSUME NEW ls \in Seq(Seq(Byte)), ls # <<>>, NEW line \in Seq(Byte)
    PROVE  LET more == Append(ls, line)
           IN /\ more # <<>> /\ (Named(more) <=> Named(ls))
              /\ MethodIn(more) = MethodIn(ls) /\ UriIn(more) = UriIn(ls)
<1>1. Append(ls, line)[1] = ls[1] /\ Append(ls, line) # <<>>
  OBVIOUS
<1> QED BY <1>1 DEF Named, MethodIn, UriIn

(* Reading leaves what is written alone, and the first line.                *)
LEMMA AnswerReads ==
    ASSUME AnswerInv, ReaderOK, Rio, Refill \/ TakeByte \/ EndOfFile \/ ReadError
    PROVE  AnswerInv'
<1>1. call = "reading" /\ UNCHANGED <<received, pending>>
  BY DEF Refill, TakeByte, EndOfFile, ReadError
<1>2. pc \in {"request", "headers"} /\ pending = <<>>
  BY <1>1 DEF AnswerInv, CallsOK
<1>3. UNCHANGED <<pc, method, uri, files, filename, promised, src, child, cgiargs, shown, changes>>
  BY DEF Rio, docs, kid
<1>4. \/ call' \in {"reading", "eof", "error"} /\ lines' = lines
      \/ call' = "line" /\ \E line \in Seq(Byte) : lines' = Append(lines, line)
  <2>1. CASE TakeByte
    <3>1. rio_buf # <<>>
      BY <2>1 DEF TakeByte
    <3>2. Append(taken, Head(rio_buf)) \in Seq(Byte)
      BY <3>1, OneByte
    <3> QED BY <1>1, <2>1, <3>2 DEF TakeByte, Returned
  <2>2. CASE EndOfFile
    <3>1. taken \in Seq(Byte)
      BY DEF ReaderOK
    <3> QED BY <1>1, <2>2, <3>1 DEF EndOfFile, Returned
  <2>3. CASE Refill \/ ReadError
    BY <1>1, <2>3 DEF Refill, ReadError
  <2> QED BY <2>1, <2>2, <2>3
<1>5. lines \in Seq(Seq(Byte)) /\ <<>> \in Seq(Seq(Byte)) /\ Len(<<>>) = 0
  BY EmptySeq DEF ReaderOK
<1>6. AnswerTypes' /\ FilesOK'
  BY <1>1, <1>3 DEF AnswerInv, AnswerTypes, FilesOK
<1>7. CallsOK'
  BY <1>1, <1>2, <1>3, <1>4 DEF CallsOK
<1>8. RequestOK'
  <2>1. CASE pc = "request"
    <3>1. lines = <<>>
      BY <1>1, <2>1 DEF AnswerInv, RequestOK
    <3>2. IF call' = "line" THEN Len(lines') = 1 ELSE lines' = <<>>
      BY <1>4, <1>5, <3>1
    <3> QED BY <1>1, <1>3, <2>1, <3>2 DEF AnswerInv, RequestOK
  <2>2. CASE pc = "headers"
    <3>1. lines # <<>> /\ method = GET /\ (Named(lines) => MethodIn(lines) = GET /\ uri = UriIn(lines))
      BY <2>2 DEF AnswerInv, RequestOK
    <3>2. lines' # <<>> /\ (Named(lines') => MethodIn(lines') = GET /\ uri = UriIn(lines'))
      <4>1. CASE lines' = lines
        BY <3>1, <4>1
      <4>2. ASSUME NEW line \in Seq(Byte), lines' = Append(lines, line)
            PROVE  lines' # <<>> /\ (Named(lines') => MethodIn(lines') = GET /\ uri = UriIn(lines'))
        BY <1>5, <3>1, <4>2, FirstLine
      <4> QED BY <1>4, <4>1, <4>2
    <3> QED BY <1>1, <1>3, <2>2, <3>1, <3>2 DEF AnswerInv, RequestOK
  <2> QED BY <1>2, <2>1, <2>2
<1>9. ServedOK'
  BY <1>2, <1>3 DEF ServedOK
<1>10. ShownOK'
  BY <1>2, <1>3 DEF AnswerInv, RequestOK, ShownOK
<1> QED BY <1>6, <1>7, <1>8, <1>9, <1>10 DEF AnswerInv

(* What is written and what is left to write stay together the same.        *)
LEMMA AnswerWrites ==
    ASSUME AnswerInv, Rio, Write \/ WriteError
    PROVE  AnswerInv'
<1>1. call = "writing" /\ UNCHANGED lines
  BY DEF Write, WriteError
<1>2. pc \notin {"request", "headers", "listen", "accept", "stat", "body", "wait"}
  BY <1>1 DEF AnswerInv, CallsOK
<1>3. UNCHANGED <<pc, method, uri, files, filename, promised, src, child, cgiargs, shown, changes>>
  BY DEF Rio, docs, kid
<1>4. /\ Sent' = Sent /\ received' \in Seq(Chars) /\ pending' \in Seq(Chars)
      /\ call' \in {"idle", "writing", "error"} /\ (call' = "idle" => pending' = <<>>)
      /\ \A most \in Nat : Len(pending) <= most => Len(pending') <= most
  <2>1. received \in Seq(Chars) /\ pending \in Seq(Chars)
    BY DEF AnswerInv, AnswerTypes
  <2>2. CASE Write
    <3>1. PICK k \in 1 .. Len(pending) :
              /\ received' = received \o SubSeq(pending, 1, k)
              /\ pending' = SubSeq(pending, k + 1, Len(pending))
      BY <2>2 DEF Write
    <3> DEFINE first == SubSeq(pending, 1, k)
               rest == SubSeq(pending, k + 1, Len(pending))
    <3>2. /\ first \in Seq(Chars) /\ rest \in Seq(Chars) /\ first \o rest = pending
          /\ Len(rest) \in Nat /\ Len(rest) <= Len(pending) /\ Len(pending) \in Nat
      BY <2>1
    <3> HIDE DEF first, rest
    <3>3. received' = received \o first /\ pending' = rest
      BY <3>1 DEF first, rest
    <3>4. (received \o first) \o rest = received \o (first \o rest)
      <4>1. received \in Seq(Chars) /\ first \in Seq(Chars) /\ rest \in Seq(Chars)
        BY <2>1, <3>2
      <4> QED BY <4>1, ConcatAssociative
    <3>5. Sent' = Sent
      BY <3>2, <3>3, <3>4 DEF Sent
    <3>6. received \o first \in Seq(Chars)
      BY <2>1, <3>2
    <3>7. \A most \in Nat : Len(pending) <= most => Len(pending') <= most
      <4>1. Len(pending') = Len(rest)
        BY <3>3
      <4> QED BY <3>2, <4>1
    <3>8. call' \in {"idle", "writing", "error"} /\ (call' = "idle" => pending' = <<>>)
      BY <2>2 DEF Write, AfterWrite
    <3> QED BY <3>2, <3>3, <3>5, <3>6, <3>7, <3>8
  <2>3. CASE WriteError
    BY <2>1, <2>3 DEF WriteError, Sent
  <2> QED BY <2>2, <2>3
<1>5. AnswerTypes' /\ FilesOK'
  BY <1>3, <1>4 DEF AnswerInv, AnswerTypes, FilesOK
<1>6. CallsOK' /\ RequestOK'
  BY <1>1, <1>2, <1>3, <1>4 DEF AnswerInv, CallsOK, RequestOK
<1>7. ServedOK'
  BY <1>1, <1>2, <1>3, <1>4 DEF AnswerInv, AnswerTypes, ServedOK, Answered, Static, Dynamic
<1>8. ShownOK'
  BY <1>1, <1>2, <1>3 DEF AnswerInv, ShownOK
<1> QED BY <1>5, <1>6, <1>7, <1>8 DEF AnswerInv

LEMMA AnswerRequest ==
    ASSUME AnswerInv, Accept \/ Rio_readlineb \/ NoRequest \/ Header
    PROVE  AnswerInv'
<1>1. UNCHANGED <<method, uri, files, filename, promised, src, child, cgiargs, changes>>
  BY DEF Accept, Rio_readlineb, NoRequest, Header, docs, kid
<1>2. AnswerTypes' /\ FilesOK' /\ pending' = <<>>
  <2>1. \/ UNCHANGED <<received, pending>>
        \/ received' = <<>> /\ pending' = <<>>
    BY DEF Accept, Rio_readlineb, NoRequest, Header, Taken, rio_readlineb, rio_readinitb
  <2>2. <<>> \in Seq(Chars)
    BY EmptySeq
  <2>3. pending = <<>> \/ Accept
    BY DEF AnswerInv, CallsOK, At, Rio_readlineb, NoRequest, Header
  <2>4. Accept => pending' = <<>>
    BY DEF Accept, rio_readinitb
  <2>5. pending' = <<>>
    BY <2>1, <2>3, <2>4
  <2> QED BY <1>1, <2>1, <2>2, <2>5 DEF AnswerInv, AnswerTypes, FilesOK
<1>3. CASE Accept
  <2>1. /\ pc = "accept" /\ pc' = "request" /\ call' = "idle" /\ lines' = <<>> /\ received' = <<>>
        /\ shown' = {}
    BY <1>3 DEF Accept, At, rio_readinitb
  <2>2. child' = "none"
    BY <1>1, <2>1 DEF AnswerInv, RequestOK
  <2> QED BY <1>2, <2>1, <2>2 DEF AnswerInv, CallsOK, RequestOK, ServedOK, ShownOK
<1>4. CASE Rio_readlineb
  <2>1. /\ pc \in {"request", "headers"} /\ pc' = pc /\ call = "idle" /\ call' = "reading"
        /\ UNCHANGED <<lines, received, shown>>
    BY <1>4 DEF Rio_readlineb, At, rio_readlineb, kid
  <2> QED BY <1>1, <1>2, <2>1 DEF AnswerInv, CallsOK, RequestOK, ServedOK, ShownOK
<1>5. CASE NoRequest
  <2>1. /\ pc = "request" /\ call = "eof" /\ pc' = "close" /\ call' = "idle"
        /\ UNCHANGED <<lines, received, shown>>
    BY <1>5 DEF NoRequest, Taken, kid
  <2>2. lines = <<>> /\ received = <<>> /\ shown = {} /\ child = "none"
    BY <2>1 DEF AnswerInv, RequestOK
  <2>3. ~Named(lines')
    BY <2>1, <2>2 DEF Named
  <2> QED BY <1>1, <1>2, <2>1, <2>2, <2>3
          DEF AnswerInv, CallsOK, RequestOK, ServedOK, ShownOK, Answered
<1>6. CASE Header
  <2>1. /\ pc = "headers" /\ call' = "idle" /\ pc' \in {"headers", "stat"}
        /\ UNCHANGED <<lines, received, shown>>
    BY <1>6 DEF Header, Taken, kid
  <2> QED BY <1>1, <1>2, <2>1 DEF AnswerInv, CallsOK, RequestOK, ServedOK, ShownOK
<1> QED BY <1>3, <1>4, <1>5, <1>6

(* The words of a line are bytes of it.                                     *)
LEMMA WordsOfLine ==
    ASSUME NEW line \in Seq(Byte)
    PROVE  /\ Words(line) # {} => line[Min(Words(line))] \in Byte
           /\ Others(Words(line)) # {} => /\ Words(line) # {}
                                          /\ line[Min(Others(Words(line)))] \in Byte
<1>1. Words(line) \in SUBSET DOMAIN line /\ Others(Words(line)) \in SUBSET DOMAIN line
  BY DEF Words, Others
<1>2. DOMAIN line \subseteq Nat /\ \A k \in DOMAIN line : line[k] \in Byte
  OBVIOUS
<1>3. Words(line) # {} => Min(Words(line)) \in Words(line)
  BY <1>1, <1>2, NatMin
<1>4. Others(Words(line)) # {} => Min(Others(Words(line))) \in Others(Words(line))
  BY <1>1, <1>2, NatMin
<1>5. Others(Words(line)) # {} => Words(line) # {}
  BY DEF Others
<1> QED BY <1>1, <1>2, <1>3, <1>4, <1>5

(* A client that names a method and a URI has them in doit's variables.     *)
LEMMA AnswerRequestLine == ASSUME AnswerInv, ReaderOK, RequestLine PROVE AnswerInv'
<1>1. pc = "request" /\ call = "line"
  BY DEF RequestLine
<1>2. /\ Len(lines) = 1 /\ pending = <<>> /\ received = <<>> /\ shown = {} /\ child = "none"
      /\ method \in Byte /\ uri \in Byte
  BY <1>1 DEF AnswerInv, RequestOK, CallsOK, AnswerTypes
<1>3. lines \in Seq(Seq(Byte)) /\ lines # <<>> /\ lines[1] \in Seq(Byte) /\ Last(lines) = lines[1]
  BY <1>2, EmptySeq DEF ReaderOK, Last
<1> DEFINE words == Words(lines[1])
           others == Others(words)
<1>4. /\ method' \in IF words # {} THEN {lines[1][Min(words)]} ELSE {method, Garbage}
      /\ uri' \in IF others # {} THEN {lines[1][Min(others)]} ELSE {uri, Garbage}
  <2> DEFINE line == Last(lines)
  <2>1. /\ method' \in IF Words(line) # {} THEN {line[Min(Words(line))]} ELSE {method, Garbage}
        /\ uri' \in IF Others(Words(line)) # {} THEN {line[Min(Others(Words(line)))]} ELSE {uri, Garbage}
    BY Zenon DEF RequestLine
  <2>2. line = lines[1]
    BY <1>3
  <2> HIDE DEF line
  <2> QED BY <2>1, <2>2
<1>5. /\ words # {} => lines[1][Min(words)] \in Byte
      /\ others # {} => words # {} /\ lines[1][Min(others)] \in Byte
  BY <1>3, WordsOfLine
<1> HIDE DEF words, others
<1>6. method' \in Byte /\ uri' \in Byte
  BY <1>2, <1>4, <1>5, TinyAssumption
<1>7. Named(lines) => method' = MethodIn(lines) /\ uri' = UriIn(lines)
  BY <1>4, <1>5 DEF Named, MethodIn, UriIn, words, others
<1>8. UNCHANGED <<lines, received, files, filename, promised, src, child, cgiargs, shown, changes>>
  BY DEF RequestLine, clienterror, rio_writen, Taken, docs, kid
<1>9. FilesOK'
  BY <1>8 DEF AnswerInv, FilesOK
<1>10. CASE method' = GET
  <2>1. pc' = "headers" /\ call' = "idle" /\ pending' = pending
    BY <1>10 DEF RequestLine, Taken
  <2>2. AnswerTypes'
    BY <1>6, <1>8, <2>1 DEF AnswerInv, AnswerTypes
  <2>3. CallsOK' /\ RequestOK'
    BY <1>2, <1>3, <1>7, <1>8, <1>10, <2>1 DEF CallsOK, RequestOK
  <2>4. ServedOK' /\ ShownOK'
    BY <1>2, <1>8, <2>1 DEF ServedOK, ShownOK
  <2> QED BY <1>9, <2>2, <2>3, <2>4 DEF AnswerInv
<1>11. CASE method' # GET
  <2>1. pc' \in {"close", "overflown"} /\ pending' = <<"501", method'>> /\ call' \in {"idle", "writing"}
        /\ (call' = "idle" => pending' = <<>>)
    BY <1>11 DEF RequestLine, clienterror, rio_writen
  <2>2. pending' \in Seq(Chars)
    <3>1. "501" \in Chars /\ method' \in Chars
      BY <1>6 DEF Chars, Texts
    <3> QED BY <2>1, <3>1
  <2>3. AnswerTypes'
    BY <1>6, <1>8, <2>2 DEF AnswerInv, AnswerTypes
  <2>4. CallsOK' /\ RequestOK'
    BY <1>2, <1>8, <2>1 DEF CallsOK, RequestOK
  <2>5. Sent' = pending'
    BY <1>2, <1>8, <2>2, ConcatEmptySeq DEF Sent
  <2>6. Answered(Sent)'
    BY <1>7, <1>8, <1>11, <2>1, <2>5 DEF Answered, AnswerOf
  <2>7. ServedOK' /\ ShownOK'
    BY <1>2, <1>8, <2>1, <2>6 DEF ServedOK, ShownOK
  <2> QED BY <1>9, <2>3, <2>4, <2>7 DEF AnswerInv
<1> QED BY <1>10, <1>11

(* doit answers what the variables say, and a client that named a method    *)
(* and a URI has them there.                                                *)
LEMMA AnswerStat == ASSUME AnswerInv, Stat PROVE AnswerInv'
<1> DEFINE p == parse_uri(uri)
           f == p.filename
<1>1. /\ pc = "stat" /\ call = "idle" /\ uri' = p.uri /\ filename' = f
      /\ UNCHANGED <<method, files, src, child, shown, changes>>
  BY DEF Stat, At
<1>2. UNCHANGED <<lines, received>>
  BY DEF Stat, clienterror, rio_writen
<1>3. /\ method = GET /\ (Named(lines) => MethodIn(lines) = GET /\ uri = UriIn(lines))
      /\ pending = <<>> /\ received = <<>> /\ shown = {} /\ child = "none" /\ uri \in Byte
  BY <1>1 DEF AnswerInv, AnswerTypes, CallsOK, RequestOK
<1>4. p.uri \in Byte /\ p.cgiargs \in Chars /\ p.static = ~Uri[uri].dynamic
  <2>1. Uri[uri].path \in Byte /\ Uri[uri].args \in STRING /\ Uri[uri].dynamic \in BOOLEAN
    BY <1>3, TinyAssumption
  <2>2. "empty" \in Chars /\ Uri[uri].args \in Chars
    BY <2>1 DEF Chars, Texts
  <2> QED BY <1>3, <2>1, <2>2 DEF parse_uri
<1>5. /\ pending' \in Seq(Chars) /\ call' \in {"idle", "writing"} /\ (call' = "idle" => pending' = <<>>)
      /\ promised' \in Nat /\ cgiargs' \in Chars
  <2>1. promised \in Nat /\ cgiargs \in Chars
    BY DEF AnswerInv, AnswerTypes
  <2>2. Len(files[f].content) \in Nat \/ f \notin DOMAIN files
    BY DEF AnswerInv, FilesOK, File
  <2>3. p.uri \in Chars /\ {"404", "403", "200", "server", "length", "type"} \subseteq Chars
    BY <1>4 DEF Chars, Texts
  <2>4. /\ <<"404", p.uri>> \in Seq(Chars) /\ <<"403", p.uri>> \in Seq(Chars)
        /\ Headers \in Seq(Chars) /\ Begun \in Seq(Chars)
    BY <2>3 DEF Headers, Begun
  <2>5. pending' \in {<<"404", p.uri>>, <<"403", p.uri>>, Headers, Begun}
    BY <1>1 DEF Stat, clienterror, rio_writen, Begun
  <2>6. call' \in {"idle", "writing"} /\ (call' = "idle" => pending' = <<>>)
    BY DEF Stat, clienterror, rio_writen
  <2>7. promised' \in Nat /\ cgiargs' \in Chars
    BY <1>4, <2>1, <2>2 DEF Stat
  <2> QED BY <2>4, <2>5, <2>6, <2>7
<1>6. AnswerTypes' /\ FilesOK'
  BY <1>1, <1>2, <1>4, <1>5 DEF AnswerInv, AnswerTypes, FilesOK
<1>7. Sent' = pending'
  BY <1>2, <1>3, <1>5, ConcatEmptySeq DEF Sent
<1>8. pc' \in {"close", "overflown", "open", "fork"}
  BY DEF Stat, clienterror
<1>9. CallsOK' /\ RequestOK' /\ ShownOK'
  BY <1>1, <1>2, <1>3, <1>5, <1>8 DEF CallsOK, RequestOK, ShownOK
<1>10. CASE pc' \in {"close", "overflown"}
  <2>1. pending' \in {<<"404", p.uri>>, <<"403", p.uri>>}
    BY <1>1, <1>10 DEF Stat, clienterror, rio_writen
  <2>2. Answered(Sent)'
    BY <1>2, <1>3, <1>7, <2>1 DEF Answered, AnswerOf
  <2>3. ServedOK'
    BY <1>10, <2>2 DEF ServedOK
  <2> QED BY <1>6, <1>9, <2>3 DEF AnswerInv
<1>11. CASE pc' = "open"
  <2>1. pending' = Headers /\ p.static
    BY <1>11 DEF Stat, clienterror, rio_writen
  <2>2. Static(lines', filename')
    BY <1>1, <1>2, <1>3, <2>1 DEF Static
  <2>3. ServedOK'
    BY <1>7, <1>11, <2>1, <2>2 DEF ServedOK
  <2> QED BY <1>6, <1>9, <2>3 DEF AnswerInv
<1>12. CASE pc' = "fork"
  <2>1. /\ pending' = Begun /\ ~p.static /\ f \in DOMAIN files /\ "x" \in files[f].perms
        /\ cgiargs' = p.cgiargs
    BY <1>12 DEF Stat, clienterror, rio_writen, Begun, Servable
  <2>2. Dynamic(lines', filename', cgiargs')
    BY <1>1, <1>2, <1>3, <1>4, <2>1 DEF Dynamic
  <2>3. Runs(filename')
    BY <1>1, <2>1 DEF AnswerInv, FilesOK, Runs
  <2>4. ServedOK'
    BY <1>7, <1>12, <2>1, <2>2, <2>3 DEF ServedOK
  <2> QED BY <1>6, <1>9, <2>4 DEF AnswerInv
<1> QED BY <1>8, <1>10, <1>11, <1>12

LEMMA AnswerOpen == ASSUME AnswerInv, Open PROVE AnswerInv'
<1>1. /\ pc = "open" /\ call = "idle" /\ pc' \in {"body", "down"}
      /\ UNCHANGED <<call, pending, received, lines, method, uri, files, filename, promised, child,
                     cgiargs, shown, changes>>
      /\ pc' = "body" => CanMap /\ src' = files[filename].content
      /\ pc' = "down" => src' = src
  BY DEF Open, At, rioVars, kid
<1>2. pending = <<>> /\ shown = {} /\ child = "none"
  BY <1>1 DEF AnswerInv, CallsOK, RequestOK
<1>3. pc' = "body" => src' \in Seq(STRING) /\ src' \in Contents(filename)
  BY <1>1 DEF AnswerInv, FilesOK, File, CanMap
<1>4. AnswerTypes' /\ FilesOK'
  BY <1>1, <1>3 DEF AnswerInv, AnswerTypes, FilesOK
<1>5. CallsOK' /\ RequestOK' /\ ShownOK'
  BY <1>1, <1>2 DEF CallsOK, RequestOK, ShownOK
<1>6. Sent = Headers /\ Static(lines, filename) /\ Sent' = Sent
  BY <1>1 DEF AnswerInv, ServedOK, Sent
<1>7. ServedOK'
  BY <1>1, <1>3, <1>6 DEF ServedOK, Static
<1> QED BY <1>4, <1>5, <1>7 DEF AnswerInv

(* The headers and then as many bytes as promised.                          *)
LEMMA HeadersThen ==
    ASSUME NEW body \in Seq(Chars)
    PROVE  LET answer == Headers \o body
           IN /\ answer \in Seq(Chars) /\ Len(answer) = 4 + Len(body)
              /\ \A n \in 1 .. 4 : answer[n] = Headers[n]
              /\ \A n \in 5 .. Len(answer) : n - 4 \in 1 .. Len(body) /\ answer[n] = body[n - 4]
<1>1. Headers \in Seq(Chars) /\ Len(Headers) = 4
  <2>1. {"200", "server", "length", "type"} \subseteq Chars
    BY DEF Chars, Texts
  <2> QED BY <2>1 DEF Headers
<1> DEFINE answer == Headers \o body
<1>2. /\ answer \in Seq(Chars) /\ Len(answer) = 4 + Len(body)
      /\ \A j \in 1 .. 4 : answer[j] = Headers[j]
      /\ \A j \in 1 .. Len(body) : answer[4 + j] = body[j]
  <2>1. body \in Seq(Chars) /\ Headers \in Seq(Chars)
    BY <1>1
  <2>2. /\ answer \in Seq(Chars) /\ Len(answer) = Len(Headers) + Len(body)
        /\ \A j \in 1 .. Len(Headers) : answer[j] = Headers[j]
        /\ \A j \in 1 .. Len(body) : answer[Len(Headers) + j] = body[j]
    BY <2>1, ConcatProperties
  <2> HIDE DEF answer
  <2> QED BY <1>1, <2>2
<1>3. \A n \in 5 .. Len(answer) : n - 4 \in 1 .. Len(body) /\ n = 4 + (n - 4)
  BY <1>2
<1> HIDE DEF answer
<1>4. \A n \in 5 .. Len(answer) : answer[n] = body[n - 4]
  BY <1>2, <1>3
<1> QED BY <1>1, <1>2, <1>3, <1>4 DEF answer

LEMMA BodiedAnswers ==
    ASSUME NEW sent \in Seq(Chars), NEW name, NEW bytes \in Nat, NEW after,
           Bodied(sent, name, bytes, after), Static(lines, name), Named(lines)
    PROVE  AnswerOf(sent, MethodIn(lines), UriIn(lines), bytes, after)
<1>1. Headers \in Seq(Chars) /\ Len(Headers) = 4
  <2>1. {"200", "server", "length", "type"} \subseteq Chars
    BY DEF Chars, Texts
  <2> QED BY <2>1 DEF Headers
<1>2. Len(sent) = 4 + bytes /\ 4 \in 1 .. Len(sent) /\ Len(sent) - 4 = bytes
  BY DEF Bodied
<1>3. SubSeq(sent, 1, 4) = Headers
  <2>1. /\ SubSeq(sent, 1, 4) \in Seq(Chars) /\ Len(SubSeq(sent, 1, 4)) = 4
        /\ \A j \in 1 .. 4 : SubSeq(sent, 1, 4)[j] = sent[j]
    BY <1>2
  <2> QED BY <1>1, <2>1, SeqEqual DEF Bodied
<1>4. \E k \in 1 .. Len(sent) :
          /\ SubSeq(sent, 1, k) = Headers /\ Len(sent) - k = bytes
          /\ \A n \in k + 1 .. Len(sent) :
                \/ \E c \in Contents(name) : n - k \in DOMAIN c /\ sent[n] = c[n - k]
                \/ after > 0 /\ sent[n] = "0"
  BY <1>2, <1>3 DEF Bodied
<1> QED BY <1>4 DEF Static, AnswerOf

(* A file that has the promised length is served as it is; after a change   *)
(* there may be zeros after the end of what is mapped.                      *)
LEMMA AnswerBody == ASSUME AnswerInv, StopInv, Body PROVE AnswerInv'
<1> DEFINE data == Mapped(src, 0)
<1>1. /\ pc = "body" /\ call = "idle" /\ pc' = "munmap" /\ pending' = data
      /\ call' \in {"idle", "writing"} /\ (call' = "idle" => pending' = <<>>)
      /\ UNCHANGED <<received, lines, method, uri, files, filename, promised, src, child, cgiargs, shown,
                     changes>>
  BY DEF Body, At, docs, kid, rio_writen
<1>2. /\ pending = <<>> /\ shown = {} /\ child = "none" /\ promised \in Nat /\ src \in Seq(STRING)
      /\ Sent = Headers /\ Static(lines, filename) /\ src \in Contents(filename)
      /\ received \in Seq(Chars) /\ changes \in Nat
  BY <1>1 DEF AnswerInv, AnswerTypes, CallsOK, RequestOK, ServedOK
<1>3. received = Headers
  BY <1>2, ConcatEmptySeq DEF Sent
<1>4. /\ data \in Seq(Chars) /\ Len(data) = promised
      /\ \A j \in 1 .. promised :
             \/ j \in DOMAIN src /\ data[j] = src[j]
             \/ promised > Len(src) /\ data[j] = "0"
  <2> DEFINE d == [k \in 1 .. promised |-> IF k <= Len(src) THEN src[k] ELSE "0"]
  <2>1. data = d
    BY <1>2 DEF Mapped
  <2>2. \A k \in 1 .. promised : d[k] \in Chars
    <3>1. \A k \in 1 .. promised : k <= Len(src) => src[k] \in STRING
      BY <1>2
    <3> QED BY <3>1 DEF Chars, Texts
  <2>3. d \in Seq(Chars) /\ Len(d) = promised
    BY <1>2, <2>2
  <2>4. \A j \in 1 .. promised :
            \/ j \in DOMAIN src /\ d[j] = src[j]
            \/ promised > Len(src) /\ d[j] = "0"
    BY <1>2
  <2> HIDE DEF d, data
  <2> QED BY <2>1, <2>3, <2>4
<1> HIDE DEF data
<1>5. promised > Len(src) => changes > 0
  <2>1. changes = 0 => promised = Len(src)
    BY <1>1 DEF StopInv, ServingOK
  <2>2. Len(src) \in Nat
    BY <1>2
  <2> QED BY <1>2, <2>1, <2>2
<1> DEFINE answer == Headers \o data
<1>6. /\ answer \in Seq(Chars) /\ Len(answer) = 4 + promised
      /\ \A n \in 1 .. 4 : answer[n] = Headers[n]
      /\ \A n \in 5 .. Len(answer) : n - 4 \in 1 .. promised /\ answer[n] = data[n - 4]
  BY <1>4, HeadersThen
<1>7. Sent' = answer
  BY <1>1, <1>3 DEF Sent
<1> HIDE DEF answer
<1>8. Bodied(answer, filename, promised, changes)
  BY <1>2, <1>4, <1>5, <1>6 DEF Bodied
<1>9. AnswerTypes' /\ FilesOK'
  BY <1>1, <1>4 DEF AnswerInv, AnswerTypes, FilesOK
<1>10. CallsOK' /\ RequestOK' /\ ShownOK'
  BY <1>1, <1>2 DEF CallsOK, RequestOK, ShownOK
<1>11. ServedOK'
  <2>1. Len(pending') <= promised
    BY <1>1, <1>2, <1>4
  <2>2. Bodied(Sent', filename', promised', changes') /\ Static(lines', filename')
    BY <1>1, <1>2, <1>7, <1>8
  <2> QED BY <1>1, <2>1, <2>2 DEF ServedOK
<1> QED BY <1>9, <1>10, <1>11 DEF AnswerInv

LEMMA AnswerMunmap == ASSUME AnswerInv, Munmap PROVE AnswerInv'
<1>1. /\ pc = "munmap" /\ call = "idle" /\ pc' = "close" /\ src' = <<>>
      /\ UNCHANGED <<call, pending, received, lines, method, uri, files, filename, promised, child,
                     cgiargs, shown, changes>>
  BY DEF Munmap, At, rioVars, kid
<1>2. /\ pending = <<>> /\ shown = {} /\ child = "none" /\ promised \in Nat /\ received \in Seq(Chars)
      /\ Bodied(Sent, filename, promised, changes) /\ Static(lines, filename)
  BY <1>1 DEF AnswerInv, AnswerTypes, CallsOK, RequestOK, ServedOK
<1>3. <<>> \in Seq(STRING)
  BY EmptySeq
<1>4. AnswerTypes' /\ FilesOK'
  BY <1>1, <1>3 DEF AnswerInv, AnswerTypes, FilesOK
<1>5. Sent' = Sent /\ Sent \in Seq(Chars)
  BY <1>1, <1>2, ConcatEmptySeq DEF Sent
<1>6. Answered(Sent)
  BY <1>2, <1>5, BodiedAnswers DEF Answered
<1>7. CallsOK' /\ RequestOK' /\ ServedOK' /\ ShownOK'
  BY <1>1, <1>2, <1>5, <1>6 DEF CallsOK, RequestOK, ServedOK, ShownOK, Answered
<1> QED BY <1>4, <1>7 DEF AnswerInv

(* The write that fails at the end of what is mapped.                       *)
LEMMA AnswerPastEnd == ASSUME AnswerInv, PastEnd PROVE AnswerInv'
<1>1. /\ pc = "munmap" /\ call' = "error"
      /\ UNCHANGED <<pc, pending, received, unread, lines, method, uri, files, filename, promised, src,
                     child, cgiargs, shown, changes>>
  BY DEF PastEnd, docs, kid
<1>2. AnswerTypes' /\ FilesOK' /\ CallsOK' /\ RequestOK' /\ ShownOK'
  BY <1>1 DEF AnswerInv, AnswerTypes, FilesOK, CallsOK, RequestOK, ShownOK
<1>3. ServedOK'
  BY <1>1 DEF AnswerInv, ServedOK, Sent
<1> QED BY <1>2, <1>3 DEF AnswerInv

LEMMA AnswerFork == ASSUME AnswerInv, Fork PROVE AnswerInv'
<1>1. /\ pc = "fork" /\ call = "idle" /\ pc' = "wait" /\ child' = "forked"
      /\ UNCHANGED <<call, pending, received, lines, method, uri, files, filename, promised, src,
                     cgiargs, shown, changes>>
  BY DEF Fork, At, rioVars, docs
<1>2. /\ pending = <<>> /\ shown = {} /\ Sent = Begun /\ Dynamic(lines, filename, cgiargs)
      /\ Runs(filename) /\ received \in Seq(Chars)
  BY <1>1 DEF AnswerInv, AnswerTypes, CallsOK, RequestOK, ServedOK
<1>3. received = Begun
  BY <1>2, ConcatEmptySeq DEF Sent
<1>4. AnswerTypes' /\ FilesOK'
  BY <1>1 DEF AnswerInv, AnswerTypes, FilesOK
<1>5. Dynamic(lines', filename', cgiargs')
  BY <1>1, <1>2
<1>6. CallsOK' /\ RequestOK' /\ ServedOK' /\ ShownOK'
  BY <1>1, <1>2, <1>3, <1>5 DEF CallsOK, RequestOK, ServedOK, ShownOK
<1> QED BY <1>4, <1>6 DEF AnswerInv

(* A child that cannot run adder shows the client its copy of the log.      *)
LEMMA AnswerExecve == ASSUME AnswerInv, Execve PROVE AnswerInv'
<1>1. /\ child = "forked" /\ child' \in {"adder", "exited"}
      /\ child' = "adder" => shown' = shown
      /\ child' = "exited" => ~IsProgram(filename)
      /\ UNCHANGED <<pc, call, pending, received, lines, method, uri, files, filename, promised, src,
                     cgiargs, changes>>
  BY DEF Execve, rioVars, docs
<1>2. pc = "wait"
  BY <1>1 DEF AnswerInv, RequestOK
<1>3. /\ pending = <<>> /\ call = "idle" /\ Dynamic(lines, filename, cgiargs) /\ Runs(filename)
      /\ received = Begun
  BY <1>1, <1>2 DEF AnswerInv, CallsOK, ServedOK
<1>4. AnswerTypes' /\ FilesOK'
  BY <1>1 DEF AnswerInv, AnswerTypes, FilesOK
<1>5. Dynamic(lines', filename', cgiargs')
  BY <1>1, <1>3
<1>6. CallsOK' /\ RequestOK' /\ ServedOK'
  BY <1>1, <1>2, <1>3, <1>5 DEF CallsOK, RequestOK, ServedOK
<1>7. shown # {} => ~Named(lines)
  BY <1>1, <1>2 DEF AnswerInv, ShownOK
<1>8. child' = "exited" => NoAdder(filename)
  BY <1>1, <1>3 DEF AnswerInv, FilesOK, Runs, NoAdder, IsProgram
<1>9. ShownOK'
  BY <1>1, <1>2, <1>3, <1>7, <1>8 DEF ShownOK, Dynamic
<1> QED BY <1>4, <1>6, <1>9 DEF AnswerInv

LEMMA AnswerAdder == ASSUME AnswerInv, Adder PROVE AnswerInv'
<1>1. /\ child = "adder" /\ child' = "exited"
      /\ received' = received \/ received' = received \o <<"headers", cgiargs>>
      /\ UNCHANGED <<pc, call, pending, lines, method, uri, files, filename, promised, src,
                     cgiargs, shown, changes>>
  BY DEF Adder, docs
<1>2. pc = "wait"
  BY <1>1 DEF AnswerInv, RequestOK
<1>3. /\ pending = <<>> /\ call = "idle" /\ Dynamic(lines, filename, cgiargs) /\ Runs(filename)
      /\ received = Begun /\ received \in Seq(Chars) /\ cgiargs \in Chars
  BY <1>1, <1>2 DEF AnswerInv, AnswerTypes, CallsOK, ServedOK
<1>4. received' \in Seq(Chars)
  <2>1. "headers" \in Chars
    BY DEF Chars, Texts
  <2>2. <<"headers", cgiargs>> \in Seq(Chars)
    BY <1>3, <2>1
  <2>3. received \o <<"headers", cgiargs>> \in Seq(Chars)
    BY <1>3, <2>2
  <2> QED BY <1>1, <1>3, <2>3
<1>5. AnswerTypes' /\ FilesOK'
  BY <1>1, <1>4 DEF AnswerInv, AnswerTypes, FilesOK
<1>6. Dynamic(lines', filename', cgiargs')
  BY <1>1, <1>3
<1>7. received' = Begun \/ received' = Begun \o <<"headers", cgiargs'>>
  BY <1>1, <1>3
<1>8. CallsOK' /\ RequestOK' /\ ServedOK'
  BY <1>1, <1>2, <1>3, <1>6, <1>7 DEF CallsOK, RequestOK, ServedOK
<1>9. ShownOK'
  BY <1>1, <1>2 DEF AnswerInv, ShownOK
<1> QED BY <1>5, <1>8, <1>9 DEF AnswerInv

LEMMA BegunThen == ASSUME NEW args \in Chars
                   PROVE  Begun \o <<"headers", args>> = <<"200", "server", "headers", args>>
<1>1. {"200", "server", "headers"} \subseteq Chars
  BY DEF Chars, Texts
<1>2. <<"headers", args>> \in Seq(Chars) /\ Len(<<"headers", args>>) = 2
  BY <1>1
<1>3. Begun \in Seq(Chars) /\ Len(Begun) = 2 /\ Begun[1] = "200" /\ Begun[2] = "server"
  BY <1>1 DEF Begun
<1>4. <<"200", "server", "headers", args>> \in Seq(Chars)
  BY <1>1
<1> DEFINE whole == Begun \o <<"headers", args>>
<1>5. /\ whole \in Seq(Chars) /\ Len(whole) = 4
      /\ whole[1] = "200" /\ whole[2] = "server" /\ whole[3] = "headers" /\ whole[4] = args
  <2>1. /\ whole \in Seq(Chars) /\ Len(whole) = 4
        /\ \A j \in 1 .. 2 : whole[j] = Begun[j]
        /\ \A j \in 1 .. 2 : whole[2 + j] = <<"headers", args>>[j]
    BY <1>2, <1>3, ConcatProperties
  <2>2. 2 + 1 = 3 /\ 2 + 2 = 4 /\ 1 \in 1 .. 2 /\ 2 \in 1 .. 2
    OBVIOUS
  <2>3. whole[3] = "headers" /\ whole[4] = args
    <3>1. whole[2 + 1] = "headers" /\ whole[2 + 2] = args
      BY <2>1, <2>2
    <3> QED BY <2>2, <3>1
  <2>4. whole[1] = "200" /\ whole[2] = "server"
    BY <1>3, <2>1, <2>2
  <2> QED BY <2>1, <2>3, <2>4
<1> HIDE DEF whole
<1>6. whole = <<"200", "server", "headers", args>>
  <2> DEFINE t == <<"200", "server", "headers", args>>
  <2>1. t \in Seq(Chars) /\ Len(t) = 4 /\ t[1] = "200" /\ t[2] = "server" /\ t[3] = "headers" /\ t[4] = args
    BY <1>4
  <2> HIDE DEF t
  <2>2. \A j \in 1 .. 4 : whole[j] = t[j]
    <3>1. \A j \in 1 .. 4 : j = 1 \/ j = 2 \/ j = 3 \/ j = 4
      OBVIOUS
    <3> QED BY <1>5, <2>1, <3>1
  <2>3. whole = t
    BY <1>5, <2>1, <2>2, SeqEqual
  <2> QED BY <2>3 DEF t
<1> QED BY <1>6 DEF whole

LEMMA AnswerWait == ASSUME AnswerInv, Wait PROVE AnswerInv'
<1>1. /\ pc = "wait" /\ pc' = "close" /\ child = "exited" /\ child' = "none" /\ call = "idle"
      /\ UNCHANGED <<call, received, pending, lines, method, uri, files, filename, promised, src,
                     cgiargs, shown, changes>>
  BY DEF Wait, At, rioVars, docs
<1>2. /\ pending = <<>> /\ Dynamic(lines, filename, cgiargs)
      /\ received = Begun \/ received = Begun \o <<"headers", cgiargs>>
      /\ received \in Seq(Chars) /\ cgiargs \in Chars
  BY <1>1 DEF AnswerInv, AnswerTypes, CallsOK, ServedOK
<1>3. received \in {<<"200", "server">>, <<"200", "server", "headers", cgiargs>>}
  BY <1>2, BegunThen DEF Begun
<1>4. Sent' = received
  BY <1>1, <1>2, ConcatEmptySeq DEF Sent
<1>5. Named(lines) => ~parse_uri(UriIn(lines)).static
  BY <1>2 DEF Dynamic, parse_uri
<1>6. Answered(Sent)'
  BY <1>1, <1>2, <1>3, <1>4, <1>5 DEF Answered, AnswerOf, Dynamic
<1>7. AnswerTypes' /\ FilesOK'
  BY <1>1 DEF AnswerInv, AnswerTypes, FilesOK
<1>8. CallsOK' /\ RequestOK' /\ ServedOK'
  BY <1>1, <1>2, <1>6 DEF AnswerInv, CallsOK, RequestOK, ServedOK
<1>9. ShownOK'
  BY <1>1 DEF AnswerInv, ShownOK
<1> QED BY <1>7, <1>8, <1>9 DEF AnswerInv

(* Nothing of an answer is lost when all of the request has been read.      *)
LEMMA AnswerClose == ASSUME AnswerInv, Close PROVE AnswerInv'
<1>1. /\ pc = "close" /\ pc' = "accept" /\ call = "idle"
      /\ UNCHANGED <<call, unread, pending, lines, method, uri, files, filename, promised, src, child,
                     cgiargs, shown, changes>>
  BY DEF Close, At, docs, kid
<1>2. pending = <<>> /\ Answered(Sent) /\ child = "none" /\ received \in Seq(Chars)
  <2>1. pending = <<>>
    BY <1>1 DEF AnswerInv, CallsOK
  <2>2. Answered(Sent)
    BY <1>1 DEF AnswerInv, ServedOK
  <2>3. child = "none"
    BY <1>1 DEF AnswerInv, RequestOK
  <2> QED BY <2>1, <2>2, <2>3 DEF AnswerInv, AnswerTypes
<1>3. received' \in Seq(Chars) /\ (unread = <<>> => received' = received)
  <2>1. PICK k \in 0 .. Len(received) :
            (unread = <<>> => k = Len(received)) /\ received' = SubSeq(received, 1, k)
    BY DEF Close
  <2>2. SubSeq(received, 1, Len(received)) = received
    BY <1>2
  <2>3. SubSeq(received, 1, k) \in Seq(Chars)
    BY <1>2
  <2> QED BY <2>1, <2>2, <2>3
<1>4. Sent = received
  BY <1>2, ConcatEmptySeq DEF Sent
<1>5. AnswerTypes' /\ FilesOK'
  BY <1>1, <1>3 DEF AnswerInv, AnswerTypes, FilesOK
<1>6. unread = <<>> => Answered(received)'
  BY <1>1, <1>2, <1>3, <1>4 DEF Answered
<1>7. CallsOK' /\ RequestOK' /\ ServedOK'
  BY <1>1, <1>2, <1>6 DEF CallsOK, RequestOK, ServedOK
<1>8. ShownOK'
  BY <1>1 DEF AnswerInv, ShownOK
<1> QED BY <1>5, <1>7, <1>8 DEF AnswerInv

(* What the zeros of a file that has changed excuse is excused from then on.*)
LEMMA AnswerLater ==
    ASSUME NEW answer, NEW m, NEW u, NEW bytes, NEW n \in Nat, AnswerOf(answer, m, u, bytes, n)
    PROVE  AnswerOf(answer, m, u, bytes, n + 1)
<1>1. n > 0 => n + 1 > 0
  OBVIOUS
<1> QED BY <1>1 DEF AnswerOf

(* Where the elements of two joined sequences come from.                    *)
LEMMA Joined ==
    ASSUME NEW S, NEW a \in Seq(S), NEW b \in Seq(S)
    PROVE  /\ a \o b \in Seq(S) /\ Len(a \o b) = Len(a) + Len(b)
           /\ \A n \in 1 .. Len(a) : (a \o b)[n] = a[n]
           /\ \A n \in 1 .. Len(b) : (a \o b)[Len(a) + n] = b[n]
<1>1. Len(a) \in Nat /\ Len(b) \in Nat
  OBVIOUS
<1>2. /\ a \o b \in Seq(S) /\ Len(a \o b) = Len(a) + Len(b)
      /\ \A i \in 1 .. Len(a) + Len(b) : (a \o b)[i] = IF i <= Len(a) THEN a[i] ELSE b[i - Len(a)]
  BY ConcatProperties
<1>3. ASSUME NEW n \in 1 .. Len(a) PROVE (a \o b)[n] = a[n]
  <2>1. n \in 1 .. Len(a) + Len(b) /\ n <= Len(a)
    BY <1>1
  <2> QED BY <1>2, <2>1
<1>4. ASSUME NEW n \in 1 .. Len(b) PROVE (a \o b)[Len(a) + n] = b[n]
  <2>1. Len(a) + n \in 1 .. Len(a) + Len(b) /\ ~ Len(a) + n <= Len(a) /\ (Len(a) + n) - Len(a) = n
    BY <1>1
  <2>2. (a \o b)[Len(a) + n] = b[(Len(a) + n) - Len(a)]
    BY <1>2, <2>1
  <2> QED BY <2>1, <2>2
<1> QED BY <1>2, <1>3, <1>4

(* What is left of another version behind what has been written.            *)
LEMMA BodiedAnew ==
    ASSUME NEW sent \in Seq(Chars), NEW left \in Seq(Chars), NEW name, NEW bytes \in Nat, NEW after,
           Len(left) <= bytes, Bodied(sent \o left, name, bytes, after), promised = bytes,
           NEW content \in Contents(name), content \in Seq(STRING), NEW more, more > 0
    PROVE  LET anew == Mapped(content, bytes - Len(left))
           IN anew \in Seq(Chars) /\ Len(anew) = Len(left) /\ Bodied(sent \o anew, name, bytes, more)
<1> DEFINE from == bytes - Len(left)
           anew == Mapped(content, from)
<1>1. Len(left) \in Nat /\ Len(sent) \in Nat /\ from \in Nat /\ Len(content) \in Nat
  OBVIOUS
<1>2. /\ anew \in Seq(Chars) /\ Len(anew) = Len(left)
      /\ \A j \in 1 .. Len(left) : \/ from + j \in DOMAIN content /\ anew[j] = content[from + j]
                                  \/ anew[j] = "0"
  <2> DEFINE d == [k \in 1 .. Len(left) |-> IF from + k <= Len(content) THEN content[from + k] ELSE "0"]
  <2>1. anew = d
    <3>1. promised - from = Len(left)
      BY <1>1
    <3> QED BY <3>1 DEF Mapped
  <2>2. \A k \in 1 .. Len(left) : from + k <= Len(content) => from + k \in 1 .. Len(content)
    BY <1>1
  <2>3. \A k \in 1 .. Len(left) : d[k] \in Chars
    <3>1. \A k \in 1 .. Len(left) : from + k <= Len(content) => content[from + k] \in STRING
      BY <2>2
    <3> QED BY <3>1 DEF Chars, Texts
  <2>4. d \in Seq(Chars) /\ Len(d) = Len(left)
    BY <1>1, <2>3
  <2>5. \A k \in 1 .. Len(left) : \/ from + k \in DOMAIN content /\ d[k] = content[from + k]
                                 \/ d[k] = "0"
    BY <2>2
  <2> HIDE DEF d, anew, from
  <2> QED BY <2>1, <2>4, <2>5
<1> HIDE DEF anew
<1> DEFINE old == sent \o left
           new == sent \o anew
<1>3. /\ old \in Seq(Chars) /\ Len(old) = Len(sent) + Len(left)
      /\ \A n \in 1 .. Len(sent) : old[n] = sent[n]
  BY ConcatProperties
<1>4. /\ new \in Seq(Chars) /\ Len(new) = Len(sent) + Len(left)
      /\ \A n \in 1 .. Len(sent) : new[n] = sent[n]
      /\ \A n \in 1 .. Len(left) : new[Len(sent) + n] = anew[n]
  <2>1. anew \in Seq(Chars) /\ Len(anew) = Len(left)
    BY <1>2
  <2>2. /\ new \in Seq(Chars) /\ Len(new) = Len(sent) + Len(anew)
        /\ \A n \in 1 .. Len(sent) : new[n] = sent[n]
        /\ \A n \in 1 .. Len(anew) : new[Len(sent) + n] = anew[n]
    <3> HIDE DEF old
    <3>1. ASSUME NEW a, a = anew, a \in Seq(Chars)
          PROVE  /\ sent \o a \in Seq(Chars) /\ Len(sent \o a) = Len(sent) + Len(a)
                 /\ \A n \in 1 .. Len(sent) : (sent \o a)[n] = sent[n]
                 /\ \A n \in 1 .. Len(a) : (sent \o a)[Len(sent) + n] = a[n]
      BY <3>1, Joined
    <3> QED BY <2>1, <3>1, Zenon
  <2> HIDE DEF new
  <2> QED BY <2>1, <2>2
<1>5. Bodied(old, name, bytes, after)
  OBVIOUS
<1> HIDE DEF old, new
<1>6. Len(new) = 4 + bytes /\ Len(sent) = 4 + from
  BY <1>1, <1>3, <1>4, <1>5 DEF Bodied
<1>7. \A n \in 1 .. 4 : new[n] = Headers[n]
  <2>1. \A n \in 1 .. 4 : n \in 1 .. Len(sent)
    BY <1>1, <1>6
  <2> QED BY <1>3, <1>4, <1>5, <2>1 DEF Bodied
<1>8. ASSUME NEW n \in 5 .. Len(new)
      PROVE  \/ \E c \in Contents(name) : n - 4 \in DOMAIN c /\ new[n] = c[n - 4]
             \/ more > 0 /\ new[n] = "0"
  <2>1. CASE n <= Len(sent)
    <3>1. n \in 1 .. Len(sent) /\ n \in 5 .. Len(old)
      BY <1>1, <1>3, <1>4, <2>1
    <3> QED BY <1>3, <1>4, <1>5, <3>1 DEF Bodied
  <2>2. CASE n > Len(sent)
    <3>1. PICK k \in 1 .. Len(left) : n = Len(sent) + k
      <4>1. n - Len(sent) \in 1 .. Len(left) /\ n = Len(sent) + (n - Len(sent))
        BY <1>1, <1>4, <2>2
      <4> QED BY <4>1
    <3>2. from + k = n - 4 /\ new[n] = anew[k]
      BY <1>1, <1>4, <1>6, <3>1
    <3> QED BY <1>2, <3>2
  <2> QED BY <1>1, <1>4, <2>1, <2>2
<1> QED BY <1>2, <1>6, <1>7, <1>8 DEF Bodied, new, anew

LEMMA AnswerChange == ASSUME AnswerInv, Change PROVE AnswerInv'
<1>1. /\ changes' = changes + 1 /\ changes \in Nat /\ changes' > 0
      /\ UNCHANGED <<pc, call, received, unread, lines, method, uri, filename, promised,
                     child, cgiargs, shown>>
  BY DEF Change, kid, AnswerInv, AnswerTypes
<1>2. PICK f \in DOMAIN Versions :
          \/ files' = Restrict(files, DOMAIN files \ {f}) /\ UNCHANGED <<src, pending>>
          \/ \E v \in Versions[f] :
                /\ files' = [g \in DOMAIN files \cup {f} |-> IF g = f THEN v ELSE files[g]]
                /\ \/ UNCHANGED <<src, pending>>
                   \/ /\ pc \in {"body", "munmap"} /\ f = filename
                      /\ src' = v.content /\ pending' = Mapped(v.content, promised - Len(pending))
  BY DEF Change
<1>3. \A v \in Versions[f] : v \in File /\ v.content \in Contents(f) /\ v.content \in Seq(STRING)
  BY TinyAssumption DEF File, Contents
<1>4. FilesOK'
  <2>1. FilesOK
    BY DEF AnswerInv
  <2>2. CASE files' = Restrict(files, DOMAIN files \ {f})
    <3>1. DOMAIN files' = DOMAIN files \ {f} /\ \A g \in DOMAIN files' : files'[g] = files[g]
      BY <2>2 DEF Restrict
    <3> QED BY <2>1, <3>1 DEF FilesOK
  <2>3. CASE \E v \in Versions[f] :
                files' = [g \in DOMAIN files \cup {f} |-> IF g = f THEN v ELSE files[g]]
    <3>1. PICK v \in Versions[f] :
              files' = [g \in DOMAIN files \cup {f} |-> IF g = f THEN v ELSE files[g]]
      BY <2>3
    <3>2. /\ DOMAIN files' = DOMAIN files \cup {f} /\ files'[f] = v
          /\ \A g \in DOMAIN files : g # f => files'[g] = files[g]
      BY <3>1
    <3>3. v \in File /\ v.content \in Contents(f)
      BY <1>3
    <3> QED BY <2>1, <3>2, <3>3 DEF FilesOK
  <2> QED BY <1>2, <2>2, <2>3
<1>5. src' \in Seq(STRING) /\ (pc = "body" => src' \in Contents(filename))
  <2>1. src \in Seq(STRING) /\ (pc = "body" => src \in Contents(filename))
    BY DEF AnswerInv, AnswerTypes, ServedOK
  <2> QED BY <1>2, <1>3, <2>1
<1>6. /\ received \in Seq(Chars) /\ pending \in Seq(Chars) /\ promised \in Nat
      /\ Len(pending) \in Nat /\ pc = "body" => pending = <<>>
  BY DEF AnswerInv, AnswerTypes, CallsOK
<1>7. CASE UNCHANGED pending
  <2>1. AnswerTypes'
    BY <1>1, <1>5, <1>7 DEF AnswerInv, AnswerTypes
  <2>2. CallsOK' /\ RequestOK' /\ ShownOK'
    BY <1>1, <1>7 DEF AnswerInv, CallsOK, RequestOK, ShownOK
  <2>3. Sent' = Sent
    BY <1>1, <1>7 DEF Sent
  <2>4. Answered(Sent) => Answered(Sent)'
    BY <1>1, <2>3, AnswerLater DEF Answered
  <2>5. Answered(received) => Answered(received)'
    BY <1>1, AnswerLater DEF Answered
  <2>6. Dynamic(lines, filename, cgiargs) => Dynamic(lines', filename', cgiargs')
    BY <1>1
  <2>7. Static(lines, filename) => Static(lines', filename')
    BY <1>1
  <2>8. Bodied(Sent, filename, promised, changes) => Bodied(Sent', filename', promised', changes')
    BY <1>1, <2>3 DEF Bodied
  <2>9. ServedOK'
    BY <1>1, <1>5, <1>7, <2>3, <2>4, <2>5, <2>6, <2>7, <2>8 DEF AnswerInv, ServedOK
  <2> QED BY <1>4, <2>1, <2>2, <2>9 DEF AnswerInv
<1>8. CASE pc = "munmap" /\ pending' # pending
  <2>1. PICK v \in Versions[f] : f = filename /\ pending' = Mapped(v.content, promised - Len(pending))
    BY <1>2, <1>8
  <2>2. v.content \in Contents(filename) /\ v.content \in Seq(STRING)
    BY <1>3, <2>1
  <2>3. /\ Bodied(received \o pending, filename, promised, changes) /\ Len(pending) <= promised
        /\ Static(lines, filename) /\ child = "none" /\ shown = {}
    BY <1>8 DEF AnswerInv, ServedOK, RequestOK, Sent
  <2>4. /\ pending' \in Seq(Chars) /\ Len(pending') = Len(pending)
        /\ Bodied(received \o pending', filename, promised, changes')
    <3>1. changes' > 0
      BY <1>1
    <3> DEFINE anew == Mapped(v.content, promised - Len(pending))
    <3>2. /\ anew \in Seq(Chars) /\ Len(anew) = Len(pending)
          /\ Bodied(received \o anew, filename, promised, changes')
      BY <1>6, <2>2, <2>3, <3>1, BodiedAnew
    <3> HIDE DEF anew
    <3>3. pending' = anew
      BY <2>1 DEF anew
    <3> QED BY <3>2, <3>3
  <2>5. AnswerTypes'
    BY <1>1, <1>5, <2>4 DEF AnswerInv, AnswerTypes
  <2>6. pending # <<>>
    <3>1. ASSUME pending = <<>> PROVE FALSE
      <4>1. pending' = <<>>
        BY <2>4, <3>1, EmptySeq
      <4> QED BY <1>8, <3>1, <4>1
    <3> QED BY <3>1
  <2>7. CallsOK' /\ RequestOK' /\ ShownOK'
    BY <1>1, <1>8, <2>3, <2>6 DEF AnswerInv, CallsOK, RequestOK, ShownOK
  <2>8. ServedOK'
    BY <1>1, <1>8, <2>3, <2>4 DEF ServedOK, Sent
  <2> QED BY <1>4, <2>5, <2>7, <2>8 DEF AnswerInv
<1>9. CASE pc = "body" /\ pending' # pending
  <2>1. PICK v \in Versions[f] : pending' = Mapped(v.content, promised - Len(pending))
    BY <1>2, <1>9
  <2>2. Mapped(v.content, promised - 0) = <<>>
    <3>1. promised - (promised - 0) = 0
      BY <1>6
    <3> QED BY <3>1 DEF Mapped
  <2>3. pending = <<>> /\ Len(pending) = 0
    BY <1>6, <1>9
  <2> QED BY <1>9, <2>1, <2>2, <2>3
<1> QED BY <1>2, <1>7, <1>8, <1>9

(* main before the first connection, and where the program ends.            *)
LEMMA AnswerMain ==
    ASSUME AnswerInv, RioError \/ Open_listenfd \/ Overflown \/ Failure
    PROVE  AnswerInv'
<1>1. UNCHANGED <<call, pending, received, lines, method, uri, files, filename, promised, src, child,
                  cgiargs, shown, changes>>
  BY DEF RioError, Open_listenfd, Overflown, Failure, SystemError, rioVars, docs, kid
<1>2. \/ pc' = "down" /\ pc # "wait" /\ call \notin {"reading", "line", "eof"}
      \/ pc = "listen" /\ pc' = "accept"
  <2>1. CASE RioError
    <3>1. call = "error" /\ pc' = "down"
      BY <2>1 DEF RioError
    <3> QED BY <3>1 DEF AnswerInv, CallsOK
  <2>2. CASE Open_listenfd
    BY <2>2 DEF Open_listenfd, At
  <2>3. CASE Overflown \/ Failure
    BY <2>3 DEF Overflown, Failure, SystemError, At
  <2> QED BY <2>1, <2>2, <2>3
<1>3. child = "none"
  BY <1>2 DEF AnswerInv, RequestOK
<1>4. AnswerTypes' /\ FilesOK'
  BY <1>1 DEF AnswerInv, AnswerTypes, FilesOK
<1>5. CASE pc' = "down" /\ pc # "wait" /\ call \notin {"reading", "line", "eof"}
  <2>1. CallsOK'
    BY <1>1, <1>5 DEF AnswerInv, CallsOK
  <2>2. RequestOK' /\ ServedOK' /\ ShownOK'
    BY <1>1, <1>3, <1>5 DEF RequestOK, ServedOK, ShownOK
  <2> QED BY <1>4, <2>1, <2>2 DEF AnswerInv
<1>6. CASE pc = "listen" /\ pc' = "accept"
  <2>1. call = "idle" /\ pending = <<>> /\ lines = <<>> /\ shown = {}
    BY <1>6 DEF AnswerInv, CallsOK, RequestOK
  <2>2. ~Named(lines')
    BY <1>1, <2>1 DEF Named
  <2>3. CallsOK' /\ RequestOK' /\ ServedOK' /\ ShownOK'
    BY <1>1, <1>3, <1>6, <2>1, <2>2 DEF CallsOK, RequestOK, ServedOK, ShownOK, Answered
  <2> QED BY <1>4, <2>3 DEF AnswerInv
<1> QED BY <1>2, <1>5, <1>6

LEMMA AnswerStays == ASSUME AnswerInv, UNCHANGED vars PROVE AnswerInv'
<1>1. UNCHANGED <<pc, call, pending, received, unread, lines, method, uri, files, filename, promised,
                  src, child, cgiargs, shown, changes>>
  BY DEF vars, rioVars, docs, kid
<1>2. AnswerTypes' /\ FilesOK' /\ CallsOK' /\ RequestOK' /\ ShownOK'
  BY <1>1 DEF AnswerInv, AnswerTypes, FilesOK, CallsOK, RequestOK, ShownOK
<1>3. ServedOK'
  BY <1>1 DEF AnswerInv, ServedOK, Answered, Static, Dynamic, Sent
<1> QED BY <1>2, <1>3 DEF AnswerInv

LEMMA AnswerStep == ASSUME ReaderOK, StopInv, AnswerInv, [Next]_vars PROVE AnswerInv'
<1>1. CASE Rio
  BY <1>1, AnswerReads, AnswerWrites DEF Rio, RioStep
<1>2. CASE Accept \/ Rio_readlineb \/ NoRequest \/ Header
  BY <1>2, AnswerRequest
<1>3. CASE RequestLine
  BY <1>3, AnswerRequestLine
<1>4. CASE Stat \/ Open \/ Body \/ PastEnd \/ Munmap
  BY <1>4, AnswerStat, AnswerOpen, AnswerBody, AnswerPastEnd, AnswerMunmap
<1>5. CASE Fork \/ Child \/ Wait
  BY <1>5, AnswerFork, AnswerExecve, AnswerAdder, AnswerWait DEF Child
<1>6. CASE Close \/ Change
  BY <1>6, AnswerClose, AnswerChange
<1>7. CASE RioError \/ Open_listenfd \/ Overflown \/ Failure
  BY <1>7, AnswerMain
<1>8. CASE UNCHANGED vars
  BY <1>8, AnswerStays
<1> QED BY <1>1, <1>2, <1>3, <1>4, <1>5, <1>6, <1>7, <1>8 DEF Next, Server

(* Every client that names a method and a URI is answered about them, and   *)
(* about no earlier request, with as many bytes as it was promised, each of *)
(* the file it asked for, in whatever pieces it is read and written and     *)
(* whatever the files become meanwhile; and it is shown the server's log    *)
(* only when the program it asked for cannot be run.                        *)
THEOREM OwnAnswers == Spec => []OwnAnswer
<1>1. AnswerInv => OwnAnswer
  <2> SUFFICES ASSUME AnswerInv, pc = "accept", Named(lines)
               PROVE  LET m == MethodIn(lines)
                          u == UriIn(lines)
                          f == parse_uri(u).filename
                      IN /\ unread = <<>> => IsAnswer(received, m, u)
                         /\ shown # {} => /\ m = GET /\ Uri[u].dynamic
                                          /\ f \in DOMAIN Versions \/ files[f].content # <<"adder">>
    BY DEF OwnAnswer, Named, MethodIn, UriIn
  <2>1. unread = <<>> => AnswerOf(received, MethodIn(lines), UriIn(lines), promised, changes)
    BY DEF AnswerInv, ServedOK, Answered
  <2>2. unread = <<>> => IsAnswer(received, MethodIn(lines), UriIn(lines))
    BY <2>1 DEF AnswerOf, IsAnswer
  <2>3. shown # {} => /\ MethodIn(lines) = GET /\ Uri[UriIn(lines)].dynamic
                      /\ NoAdder(parse_uri(UriIn(lines)).filename)
    BY DEF AnswerInv, ShownOK
  <2>4. \A f : NoAdder(f) => f \in DOMAIN Versions \/ files[f].content # <<"adder">>
    BY DEF AnswerInv, FilesOK, NoAdder
  <2> QED BY <2>2, <2>3, <2>4
<1>2. ReaderOK /\ [Next]_vars => ReaderOK'
  BY ReaderStep
<1> QED BY <1>1, <1>2, ReaderInit, StopInit, StopStep, AnswerInit, AnswerStep, PTL DEF Spec

-----------------------------------------------------------------------------
(* Types.                                                                   *)

(* What the other invariants do not type: where main is, and whose lines    *)
(* are in which buffer.                                                     *)
LogInv ==
    /\ pc \in PCs /\ call \in Calls
    /\ child \in {"none", "forked", "adder", "exited"}
    /\ conn \in 0 .. Connections /\ failed \in BOOLEAN /\ changes \in 0 .. Changes
    /\ log \subseteq 1 .. conn /\ childlog \subseteq 1 .. conn /\ shown \subseteq 1 .. conn
    /\ pc \in {"request", "headers"} => conn > 0

LEMMA LogInit == Init => LogInv
<1> SUFFICES ASSUME Init PROVE LogInv
  OBVIOUS
<1>1. /\ pc = "listen" /\ call = "idle" /\ child = "none" /\ log = {} /\ childlog = {} /\ shown = {}
      /\ conn = 0 /\ failed = FALSE /\ changes = 0
  BY DEF Init, RioInit
<1>2. 0 \in 0 .. Connections /\ 0 \in 0 .. Changes
  BY TinyAssumption
<1> QED BY <1>1, <1>2 DEF LogInv, PCs, Calls

(* Lines of the connection that is served are added, and no others.         *)
LEMMA LogStep == ASSUME LogInv, CallsOK, [Next]_vars PROVE LogInv'
<1>1. CASE Accept
  <2>1. /\ conn' = conn + 1 /\ conn < Connections /\ pc' = "request" /\ call' = "idle" /\ shown' = {}
        /\ log' \in {log \cup {conn + 1}, {conn + 1}, {}}
        /\ UNCHANGED <<child, childlog, failed, changes>>
    BY <1>1 DEF Accept, printf, rio_readinitb
  <2>2. /\ conn \in Nat /\ Connections \in Nat /\ conn' \in 0 .. Connections /\ conn' > 0
        /\ 1 .. conn \subseteq 1 .. conn' /\ conn + 1 \in 1 .. conn'
    BY <2>1, TinyAssumption DEF LogInv
  <2> QED BY <2>1, <2>2 DEF LogInv, PCs, Calls
<1>2. CASE RequestLine \/ Header
  <2>1. /\ pc' \in PCs /\ pc' # "request" /\ call' \in Calls
        /\ pc \in {"request", "headers"}
        /\ log' \in {log \cup {conn}, {conn}, {}}
        /\ UNCHANGED <<child, childlog, shown, conn, failed, changes>>
    BY <1>2 DEF RequestLine, Header, printf, kid, Taken, clienterror, rio_writen, PCs, Calls
  <2>2. conn \in 1 .. conn
    BY <2>1 DEF LogInv
  <2> QED BY <2>1, <2>2 DEF LogInv
<1>3. CASE Change
  <2>1. changes < Changes /\ changes' = changes + 1
        /\ UNCHANGED <<pc, call, child, childlog, shown, log, conn, failed>>
    BY <1>3 DEF Change, kid
  <2>2. changes' \in 0 .. Changes
    BY <2>1, TinyAssumption DEF LogInv
  <2> QED BY <2>1, <2>2 DEF LogInv
<1>4. CASE Rio
  <2>1. call' \in Calls /\ UNCHANGED <<pc, child, childlog, shown, log, conn, failed, changes>>
    BY <1>4 DEF Rio, RioStep, Refill, TakeByte, EndOfFile, ReadError, Write, AfterWrite, WriteError,
                Returned, kid, LogInv, Calls
  <2> QED BY <2>1 DEF LogInv
<1>5. CASE Fork \/ Child \/ Wait
  <2>1. /\ pc' \in PCs /\ child' \in {"none", "forked", "adder", "exited"}
        /\ pc' \in {"request", "headers"} => pc' = pc
        /\ childlog' \subseteq childlog \cup log /\ shown' \subseteq shown \cup childlog
        /\ UNCHANGED <<call, log, conn, failed, changes>>
    BY <1>5 DEF Fork, Child, Execve, Adder, Wait, rioVars, PCs, LogInv
  <2> QED BY <2>1 DEF LogInv
<1>6. CASE Failure \/ RioError \/ Open_listenfd \/ Munmap \/ Open \/ Overflown
  <2>1. /\ pc' \in PCs /\ pc' \notin {"request", "headers"} /\ failed' \in BOOLEAN
        /\ UNCHANGED <<call, child, childlog, shown, log, conn, changes>>
    BY <1>6 DEF Failure, SystemError, RioError, Open_listenfd, Munmap, Open, Overflown, rioVars, kid, PCs, LogInv
  <2> QED BY <2>1 DEF LogInv
<1>7. CASE Rio_readlineb \/ NoRequest \/ Stat \/ Body \/ PastEnd \/ Close
  <2>1. /\ pc' \in PCs /\ (pc' \in {"request", "headers"} => pc' = pc) /\ call' \in Calls
        /\ UNCHANGED <<child, childlog, shown, log, conn, failed, changes>>
    BY <1>7 DEF Rio_readlineb, NoRequest, Stat, Body, PastEnd, Close, rio_readlineb, rio_writen, Taken, clienterror,
                rioVars, kid, PCs, Calls, LogInv
  <2> QED BY <2>1 DEF LogInv
<1>8. CASE UNCHANGED vars
  BY <1>8 DEF vars, rioVars, kid, LogInv
<1> QED BY <1>1, <1>2, <1>3, <1>4, <1>5, <1>6, <1>7, <1>8 DEF Next, Server

(* Type correctness for every buffer size and every set of clients.         *)
THEOREM TypeCorrect == Spec => []TypeOK
<1>1. LogInv /\ ReaderOK /\ AnswerInv => TypeOK
  <2> SUFFICES ASSUME LogInv, ReaderOK, AnswerInv PROVE TypeOK
    OBVIOUS
  <2>1. /\ unread \in Seq(Byte) /\ peer \in Peers /\ rio_buf \in Seq(Byte)
        /\ Len(rio_buf) <= RIO_BUFSIZE /\ taken \in Seq(Byte) /\ lines \in Seq(Seq(Byte))
    BY DEF ReaderOK
  <2>2. Len(taken) < MAXLINE
    <3>1. Len(taken) < MAXLINE - 1 /\ Len(taken) \in Nat
      BY DEF ReaderOK
    <3> QED BY <3>1, RioAssumption
  <2>3. /\ method \in Byte /\ uri \in Byte /\ promised \in Nat /\ src \in Seq(STRING)
        /\ \A f \in DOMAIN files : files[f] \in File
        /\ child # "none" => pc = "wait"
    BY DEF AnswerInv, AnswerTypes, FilesOK, RequestOK
  <2> QED BY <2>1, <2>2, <2>3 DEF TypeOK, LogInv
<1>2. ReaderOK /\ [Next]_vars => ReaderOK'
  BY ReaderStep
<1>3. AnswerInv => CallsOK
  BY DEF AnswerInv
<1> QED BY <1>1, <1>2, <1>3, ReaderInit, StopInit, StopStep, AnswerInit, AnswerStep, LogInit, LogStep,
           PTL DEF Spec
=============================================================================
