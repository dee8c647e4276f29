------------------------------- MODULE MCTiny -------------------------------
(***************************************************************************)
(* Clients and files for checking Tiny.                                     *)
(***************************************************************************)
EXTENDS Tiny, TLC

Uris == {"/", "/a", "/empty", "/secret", "/none", "/dir", "/cgi-bin/adder", "/cgi-bin/adder?1&2",
         "/cgi-bin/data", "/cgi-bin/plain", "/long", "/long/", "/cgi-bin/adder?long", "?"}
Bytes == Uris \cup {"CR", "LF", "GET", "POST", "LONG", "h"}
LongWords == {"LONG", "/long", "/long/", "?"}
UriOf == [w \in Bytes |->
    [dynamic |-> w \in {"/cgi-bin/adder", "/cgi-bin/adder?1&2", "/cgi-bin/adder?long", "/cgi-bin/data",
                         "/cgi-bin/plain"},
     slash   |-> w \in {"/", "/long/"},
     path    |-> IF w \in {"/cgi-bin/adder?1&2", "/cgi-bin/adder?long"} THEN "/cgi-bin/adder" ELSE w,
     args    |-> CASE w = "/cgi-bin/adder?1&2" -> "1&2" [] w = "/cgi-bin/adder?long" -> "long"
                   [] OTHER -> "empty"]]

F(perms, content) == [regular |-> TRUE, perms |-> perms, content |-> content]
FilesAtFirst ==
    <<"/", "home.html">> :> F({"r"}, <<"i", "j">>) @@ <<"/a">> :> F({"r"}, <<"a", "b">>)
    @@ <<"/empty">> :> F({"r"}, <<>>) @@ <<"/secret">> :> F({}, <<"s">>)
    @@ <<"/dir">> :> [F({"r", "x"}, <<>>) EXCEPT !.regular = FALSE]
    @@ <<"/cgi-bin/adder">> :> F({"r", "x"}, <<"adder">>)
    @@ <<"/cgi-bin/data">> :> F({"r", "x"}, <<"d">>) @@ <<"/cgi-bin/plain">> :> F({"r"}, <<"p">>)
NewVersions == <<"/a">> :> {F({"r"}, <<"c">>), F({"r"}, <<"d", "e", "f">>), F({"r"}, <<>>), F({}, <<"c">>)}

Line(words) == words \o <<"CR", "LF">>
Get(u, headers) == Line(<<"GET", u>>) \o headers
Blank == Line(<<>>)
Plain == {Get(u, Blank) : u \in Uris}
Messages ==
    {<<>>, <<"h">>, Line(<<"GET">>), Line(<<>>) \o Blank, Line(<<"GET">>) \o Blank,
     Line(<<"POST", "/a">>) \o Blank, Line(<<"LONG">>) \o Blank, Get("/a", <<"h">>), Get("/cgi-bin/adder?1&2", <<>>),
     Get("/a", Line(<<"h">>) \o Blank),
     Get("/a", Line(<<"h", "h", "h", "h">>) \o Line(<<"h">>) \o Blank),    \* cut before CR LF
     Get("/cgi-bin/adder?1&2", Line(<<"h", "h", "h">>) \o Blank)}            \* cut between them
Who == {[message |-> m, ending |-> "waits"] : m \in Plain \cup Messages}
       \cup {[message |-> m, ending |-> "closes"] : m \in Messages}
       \cup {[message |-> m, ending |-> "gone"] : m \in {Get("/a", <<"h">>), Get("/cgi-bin/adder?1&2", Blank)}}
=============================================================================
