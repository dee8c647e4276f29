-------------------------------- MODULE Tiny --------------------------------
(***************************************************************************)
(* The Tiny web server, tiny.c, on the robust I/O package: one connection   *)
(* after the other, files that may change while they are served, and CGI    *)
(* programs in child processes (cgi-bin/adder.c).  What printf has put into *)
(* the buffer of stdout is there still when a child is forked.              *)
(***************************************************************************)
EXTENDS Rio, Functions, FiniteSetsExt

CONSTANTS CR, GET,
          Garbage,    \* a word that a local variable may hold before it is set
          Uri,        \* what every word stands for as a URI
          Long,       \* words that buf of clienterror has no room for
          Ampersand,  \* the arguments of adder that have an ampersand
          Clients,    \* what a client sends, and what it does then
          Files,      \* the files at first
          Versions,   \* for the files that may change: what they may be changed to
          Changes,    \* bound: changes of files
          Connections \* bound: connections

File == [regular : BOOLEAN, perms : SUBSET {"r", "x"}, content : Seq(STRING)]

ASSUME TinyAssumption ==
    /\ \A f \in DOMAIN Files : Files[f] \in File
    /\ \A f \in DOMAIN Versions : Versions[f] \subseteq File
    /\ {CR, LF, GET, Garbage} \cup Long \subseteq Byte /\ GET # Garbage
    /\ Uri \in [Byte -> [dynamic : BOOLEAN, slash : BOOLEAN, path : Byte, args : STRING]]
    /\ Clients \subseteq [message : Seq(Byte), ending : Peers]
    /\ Changes \in Nat /\ Connections \in Nat

VARIABLES
    pc,                  \* where main and what it calls are
    method, uri,         \* locals of doit, which keep their place on the stack
    files,               \* by name
    filename,            \* the name, in one piece or two
    promised, src,       \* Content-length; what is mapped
    child, cgiargs,      \* the child, and the environment it gets
    log,                 \* connections whose lines are in the buffer of stdout
    childlog, shown,     \* those in the child's copy; those a client has been sent
    conn, failed, changes

docs == <<filename, promised, src>>
kid == <<child, cgiargs, childlog, shown>>
vars == <<rioVars, pc, method, uri, files, docs, kid, log, conn, failed, changes>>

PCs == {"listen", "accept", "request", "headers", "stat", "open", "body", "munmap",
        "fork", "wait", "close", "overflown", "down"}

Init ==
    /\ RioInit
    /\ pc = "listen" /\ method = Garbage /\ uri = Garbage /\ files = Files
    /\ filename = <<>> /\ promised = 0 /\ src = <<>> /\ child = "none" /\ cgiargs = "empty" /\ log = {}
    /\ childlog = {} /\ shown = {} /\ conn = 0 /\ failed = FALSE /\ changes = 0

At(here) == pc = here /\ call = "idle"

(* The wrappers end the program when what they wrap fails.                  *)
SystemError(here) ==
    /\ At(here) /\ pc' = "down" /\ failed' = TRUE
    /\ UNCHANGED <<rioVars, method, uri, files, docs, kid, log, conn, changes>>

RioError ==
    /\ call = "error" /\ pc # "down" /\ pc' = "down"
    /\ UNCHANGED <<rioVars, method, uri, files, docs, kid, log, conn, failed, changes>>

(* printf: the buffer may be written out, with the new line or before it.   *)
printf(n) == log' \in {log \cup {n}, {n}, {}}

-----------------------------------------------------------------------------
(* main.  Any of the addresses getaddrinfo lists may do.                    *)
Open_listenfd ==
    /\ At("listen") /\ pc' = "accept"
    /\ UNCHANGED <<rioVars, method, uri, files, docs, kid, log, conn, failed, changes>>

Accept ==
    /\ At("accept") /\ conn < Connections /\ pc' = "request" /\ conn' = conn + 1
    /\ \E c \in Clients : rio_readinitb(c.message, c.ending)
    /\ shown' = {} /\ printf(conn + 1)
    /\ UNCHANGED <<method, uri, files, docs, child, cgiargs, childlog, failed, changes>>

Rio_readlineb ==
    /\ At("request") \/ At("headers")
    /\ rio_readlineb
    /\ UNCHANGED <<pc, method, uri, files, docs, kid, log, conn, failed, changes>>

-----------------------------------------------------------------------------
(* doit.                                                                    *)

(* The places of the words of a line, and of those after the first.         *)
Words(line) == {k \in DOMAIN line : line[k] \notin {CR, LF}}
Others(places) == {k \in places : \E j \in places : j < k}
Last(s) == s[Len(s)]

(* sprintf puts the cause, a word nearly as long as a line may be, into buf  *)
(* of MAXLINE bytes with a text before it.  What lies behind buf may matter *)
(* when clienterror or doit returns.  (So it is with filename of doit: the  *)
(* static URI with which it overflows is no file's, and too long for buf.)  *)
clienterror(cause, errnum) ==
    /\ rio_writen(<<errnum, cause>>)
    /\ pc' = "close" \/ (cause \in Long /\ pc' = "overflown")

Overflown ==
    /\ At("overflown") /\ pc' = "down"
    /\ UNCHANGED <<rioVars, method, uri, files, docs, kid, log, conn, failed, changes>>

NoRequest ==
    /\ pc = "request" /\ call = "eof"
    /\ Taken /\ pc' = "close"
    /\ UNCHANGED <<method, uri, files, docs, kid, log, conn, failed, changes>>

(* sscanf sets what the line has words for.  The rest is as the last        *)
(* request left it, unless other calls have used the place since.           *)
RequestLine ==
    /\ pc = "request" /\ call = "line"
    /\ LET line == Last(lines)
           words == Words(line)
           others == Others(words)
       IN /\ method' \in IF words # {} THEN {line[Min(words)]} ELSE {method, Garbage}
          /\ uri' \in IF others # {} THEN {line[Min(others)]} ELSE {uri, Garbage}
    /\ IF method' # GET THEN clienterror(method', "501") ELSE Taken /\ pc' = "headers"
    /\ printf(conn)
    /\ UNCHANGED <<files, docs, kid, conn, failed, changes>>

(* read_requesthdrs.  A call that returns 0 leaves buf alone: before the    *)
(* first header it may hold anything, the end of another request's headers  *)
(* too, and after that it is no end.  Mutant: the end is taken for a header.*)
EndsAfterNext(line) == Len(lines) > 2 /\ lines[Len(lines) - 1] = <<CR, LF>>
EndsHeaders(line) == line = <<CR, LF>>
Header ==
    /\ pc = "headers" /\ call \in {"line", "eof"}
    /\ Taken /\ printf(conn)
    /\ \/ call = "line" /\ pc' = IF EndsHeaders(Last(lines)) THEN "stat" ELSE "headers"
       \/ call = "eof" /\ Len(lines) = 1 /\ pc' = "stat"
       \/ call = "eof" /\ pc' = "headers"
    /\ UNCHANGED <<method, uri, files, docs, kid, conn, failed, changes>>

(* parse_uri cuts the arguments off a dynamic URI, in place, and leaves an  *)
(* empty string of them for a static one.                                   *)
parse_uri(u) ==
    IF Uri[u].dynamic
    THEN [static |-> FALSE, filename |-> <<Uri[u].path>>, cgiargs |-> Uri[u].args, uri |-> Uri[u].path]
    ELSE [static |-> TRUE, filename |-> IF Uri[u].slash THEN <<u, "home.html">> ELSE <<u>>,
          cgiargs |-> "empty", uri |-> u]

(* Mutant: permission is not looked at.                                     *)
IsRegular(f, perm) == files[f].regular
Servable(f, perm) == files[f].regular /\ perm \in files[f].perms
Headers == <<"200", "server", "length", "type">>
Stat ==
    /\ At("stat")
    /\ LET p == parse_uri(uri)
           f == p.filename
       IN /\ uri' = p.uri /\ filename' = f
          /\ \/ /\ f \notin DOMAIN files
                /\ clienterror(uri', "404") /\ UNCHANGED <<promised, cgiargs>>
             \/ /\ f \in DOMAIN files /\ ~Servable(f, IF p.static THEN "r" ELSE "x")
                /\ clienterror(uri', "403") /\ UNCHANGED <<promised, cgiargs>>
             \/ /\ f \in DOMAIN files /\ p.static /\ Servable(f, "r")
                /\ rio_writen(Headers) /\ pc' = "open"
                /\ promised' = Len(files[f].content) /\ UNCHANGED cgiargs
             \/ /\ f \in DOMAIN files /\ ~p.static /\ Servable(f, "x")
                /\ rio_writen(<<"200", "server">>) /\ pc' = "fork"
                /\ cgiargs' = p.cgiargs /\ UNCHANGED promised
    /\ UNCHANGED <<method, files, src, child, childlog, shown, log, conn, failed, changes>>

-----------------------------------------------------------------------------
(* serve_static, once the headers are written.  Nothing can be mapped of an *)
(* empty file, and nothing be opened that is not there any more.            *)
CanMap == filename \in DOMAIN files /\ "r" \in files[filename].perms /\ promised > 0

Open ==
    /\ At("open")
    /\ IF CanMap THEN pc' = "body" /\ src' = files[filename].content
       ELSE pc' = "down" /\ UNCHANGED src
    /\ UNCHANGED <<rioVars, method, uri, files, filename, promised, kid, log, conn, failed, changes>>

(* As many bytes as stat promised, of what the file holds by now.  Past its *)
(* end there are zeros up to the end of a page, and write fails after that. *)
Mapped(content, from) ==
    [k \in 1 .. promised - from |-> IF from + k <= Len(content) THEN content[from + k] ELSE "0"]

Body ==
    /\ At("body") /\ rio_writen(Mapped(src, 0)) /\ pc' = "munmap"
    /\ UNCHANGED <<method, uri, files, docs, kid, log, conn, failed, changes>>

PastEnd ==
    /\ pc = "munmap" /\ call = "writing" /\ promised > Len(src) /\ call' = "error"
    /\ UNCHANGED <<unread, peer, rio_buf, taken, lines, pending, received, pc, method, uri, files, docs,
                   kid, log, conn, failed, changes>>

Munmap ==
    /\ At("munmap") /\ pc' = "close" /\ src' = <<>>
    /\ UNCHANGED <<rioVars, method, uri, files, filename, promised, kid, log, conn, failed, changes>>

-----------------------------------------------------------------------------
(* serve_dynamic, once the first two headers are written.                   *)
Fork ==
    /\ At("fork") /\ pc' = "wait"
    /\ child' = "forked" /\ childlog' = log
    /\ UNCHANGED <<rioVars, method, uri, files, docs, cgiargs, shown, log, conn, failed, changes>>

(* The child has the connection as its stdout.  exit writes out the lines   *)
(* it has a copy of; the program that execve puts in its place has none.    *)
IsProgram(f) == f \in DOMAIN files /\ "x" \in files[f].perms /\ files[f].content = <<"adder">>
Execve ==
    /\ child = "forked"
    /\ IF IsProgram(filename) THEN child' = "adder" /\ UNCHANGED shown
       ELSE child' = "exited" /\ shown' = childlog
    /\ childlog' = {}
    /\ UNCHANGED <<rioVars, pc, method, uri, files, docs, cgiargs, log, conn, failed, changes>>

(* adder: without an ampersand it follows a null pointer, and to a client   *)
(* that is gone it writes nothing.                                          *)
Adder ==
    /\ child = "adder" /\ child' = "exited"
    /\ \/ cgiargs \in Ampersand /\ received' = received \o <<"headers", cgiargs>>
       \/ (cgiargs \notin Ampersand \/ peer = "gone") /\ UNCHANGED received
    /\ UNCHANGED <<unread, peer, rio_buf, taken, lines, call, pending, pc, method, uri, files, docs,
                   cgiargs, childlog, shown, log, conn, failed, changes>>

Wait ==
    /\ At("wait") /\ child = "exited"
    /\ child' = "none" /\ pc' = "close"
    /\ UNCHANGED <<rioVars, method, uri, files, docs, cgiargs, childlog, shown, log, conn, failed, changes>>

(* A connection that is closed before everything is read is reset: what the *)
(* client has not looked at by then is lost.                                *)
Close ==
    /\ At("close") /\ pc' = "accept"
    /\ \E k \in 0 .. Len(received) :
          /\ unread = <<>> => k = Len(received)
          /\ received' = SubSeq(received, 1, k)
    /\ UNCHANGED <<unread, peer, rio_buf, taken, lines, call, pending, method, uri, files, docs, kid,
                   log, conn, failed, changes>>

-----------------------------------------------------------------------------
(* Someone removes a file, replaces it, or writes it anew, and with it what *)
(* is mapped of it and not yet written to the client.                       *)
Change ==
    /\ changes < Changes /\ changes' = changes + 1
    /\ \E f \in DOMAIN Versions :
          \/ files' = Restrict(files, DOMAIN files \ {f}) /\ UNCHANGED <<src, pending>>
          \/ \E v \in Versions[f] :
                /\ files' = [g \in DOMAIN files \cup {f} |-> IF g = f THEN v ELSE files[g]]
                /\ \/ UNCHANGED <<src, pending>>
                   \/ /\ pc \in {"body", "munmap"} /\ f = filename /\ f \in DOMAIN files
                      /\ src' = v.content /\ pending' = Mapped(v.content, promised - Len(pending))
    /\ UNCHANGED <<unread, peer, rio_buf, taken, lines, call, received, pc, method, uri, filename, promised,
                   kid, log, conn, failed>>

Rio ==
    /\ RioStep
    /\ UNCHANGED <<pc, method, uri, files, docs, kid, log, conn, failed, changes>>
Server ==
    \/ Rio \/ RioError \/ Open_listenfd \/ Rio_readlineb \/ NoRequest \/ RequestLine \/ Header
    \/ Stat \/ Open \/ Body \/ PastEnd \/ Munmap \/ Fork \/ Wait \/ Close \/ Overflown
Child == Execve \/ Adder
Failure == \E here \in {"listen", "accept", "fork"} : SystemError(here)

Next == Server \/ Child \/ Accept \/ Failure \/ Change

Spec == Init /\ [][Next]_vars
FairSpec == Spec /\ WF_vars(Server) /\ WF_vars(Child)

-----------------------------------------------------------------------------
(* Type correctness of the state of tiny.c and of its rio_t.                *)
TypeOK ==
    /\ unread \in Seq(Byte) /\ peer \in Peers /\ call \in Calls
    /\ rio_buf \in Seq(Byte) /\ Len(rio_buf) <= RIO_BUFSIZE
    /\ taken \in Seq(Byte) /\ Len(taken) < MAXLINE /\ lines \in Seq(Seq(Byte))
    /\ pc \in PCs /\ method \in Byte /\ uri \in Byte
    /\ \A f \in DOMAIN files : files[f] \in File
    /\ promised \in Nat /\ src \in Seq(STRING)
    /\ child \in {"none", "forked", "adder", "exited"} /\ (child # "none" => pc = "wait")
    /\ log \cup childlog \cup shown \subseteq 1 .. conn
    /\ conn \in 0 .. Connections /\ failed \in BOOLEAN /\ changes \in 0 .. Changes

(* What doit may answer to a request line that has a method and a URI.      *)
Contents(f) ==
    (IF f \in DOMAIN Files THEN {Files[f].content} ELSE {})
        \cup (IF f \in DOMAIN Versions THEN {v.content : v \in Versions[f]} ELSE {})
IsAnswer(answer, m, u) ==
    LET p == parse_uri(u)
    IN \/ m # GET /\ answer = <<"501", m>>
       \/ m = GET /\ answer \in {<<"404", p.uri>>, <<"403", p.uri>>}
       \/ m = GET /\ p.static /\ \E k \in 1 .. Len(answer) :
             /\ SubSeq(answer, 1, k) = Headers /\ Len(answer) - k = promised
             /\ \A n \in k + 1 .. Len(answer) :
                   \/ \E c \in Contents(p.filename) : n - k \in DOMAIN c /\ answer[n] = c[n - k]
                   \/ changes > 0 /\ answer[n] = "0"
       \/ m = GET /\ ~p.static /\ answer \in {<<"200", "server">>, <<"200", "server", "headers", p.cgiargs>>}

(* A client that names a method and a URI gets a whole answer to its own    *)
(* request: not one to what an earlier client left in doit's variables, no  *)
(* more and no fewer bytes than promised, and no one's log, unless the      *)
(* file it names cannot be run.  Only what it sent in excess can cost it    *)
(* the end of the answer.                                                   *)
OwnAnswer ==
    (pc = "accept" /\ lines # <<>> /\ Others(Words(lines[1])) # {}) =>
        LET m == lines[1][Min(Words(lines[1]))]
            u == lines[1][Min(Others(Words(lines[1])))]
            f == parse_uri(u).filename
        IN /\ unread = <<>> => IsAnswer(received, m, u)
           /\ shown # {} => /\ m = GET /\ Uri[u].dynamic
                            /\ f \in DOMAIN Versions \/ files[f].content # <<"adder">>

(* No client and no file stop the server but a client that is gone, a file  *)
(* that is empty, one that changes between stat and the last write, and a   *)
(* method or a URI that is nearly as long as a line may be.                 *)
StopsOnlyFor ==
    pc = "down" =>
        \/ failed \/ peer = "gone"
        \/ parse_uri(uri).static /\ (promised = 0 \/ changes > 0)
        \/ (IF method = GET THEN uri ELSE method) \in Long

(* The only clients that hold the server up are those that neither send the *)
(* empty line nor leave: after any other, whatever was sent before, main    *)
(* accepts the next one, or the server has stopped.  (A client that closes  *)
(* its side after a part of its request leaves read_requesthdrs in a loop.) *)
Complete == \E k \in 1 .. Len(unread) - 2 : SubSeq(unread, k, k + 2) = <<LF, CR, LF>>
Leaves == peer = "gone" \/ (peer = "closes" /\ unread = <<>>)
Served ==
    (pc = "request" /\ call = "idle" /\ (Complete \/ Leaves)) ~> pc \in {"accept", "down"}
=============================================================================
