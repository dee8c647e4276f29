-------------------------------- MODULE Csim --------------------------------
(***************************************************************************)
(* The cache simulator, csim.c.  Each set is a ring of a dummy node and E   *)
(* lines, threaded through next and prev, most recently used line first.    *)
(* Verbose output is left out.  A trace line whose text sscanf cannot read  *)
(* leaves op and address uninitialised, so that it acts as some line of     *)
(* TraceLines.                                                              *)
(***************************************************************************)
EXTENDS Integers, SequencesExt, FiniteSetsExt

CONSTANTS CommandLines,   \* command lines main may be started with
          TraceLines,     \* lines a trace file may hold
          MaxLines        \* bound: trace lines read in a run

VARIABLES csim,           \* where main is
          s, E, b,        \* the globals of the same names
          sim,            \* the cache and the three counters
          csim_results,   \* the file of that name: what printSummary wrote last
          trace,          \* the lines read by the last step
          lines           \* how many lines have been read

csimVars == <<csim, s, E, b, sim, csim_results, trace, lines>>

(* getopt's result: FALSE for an unknown option, otherwise what was set.    *)
Options == [h : BOOLEAN, s : Nat, E : Nat, b : Nat, t : BOOLEAN]
ASSUME CsimAssumption ==
    /\ CommandLines \subseteq Options /\ MaxLines \in Nat
    /\ \A line \in TraceLines : line.address \in Nat

CsimPCs == {"start", "read", "usage", "help", "missing", "exit"}

-----------------------------------------------------------------------------
(* The ring of a set.                                                       *)
Dummy == 0
Nodes(set) == DOMAIN set.next
Lines(set) == Nodes(set) \ {Dummy}

UnlinkForward(set, c) == [set EXCEPT !.next[set.prev[c]] = set.next[c]]   \* mutant
Unlink(set, c) ==
    [set EXCEPT !.next[set.prev[c]] = set.next[c],
                !.prev[set.next[c]] = set.prev[c]]

InsertFirst(set, c) ==
    [set EXCEPT !.next[c] = set.next[Dummy], !.prev[c] = Dummy,
                !.prev[set.next[Dummy]] = c, !.next[Dummy] = c]

MoveFirst(set, c) == InsertFirst(Unlink(set, c), c)

(* The nodes after c, up to the dummy.                                      *)
After(set, c) ==
    LET walk[n \in Nodes(set)] == IF n = Dummy THEN <<>>
                                  ELSE <<n>> \o walk[set.next[n]]
    IN walk[set.next[c]]

createCacheSet(ways) ==
    LET added[n \in 0 .. ways] ==
            IF n = 0
            THEN [next |-> [m \in 0 .. ways |-> Dummy], prev |-> [m \in 0 .. ways |-> Dummy],
                  valid |-> [m \in 1 .. ways |-> FALSE], tag |-> [m \in 1 .. ways |-> 0]]
            ELSE InsertFirst(added[n - 1], n)
    IN added[ways]

createCache(setBits, ways) == [i \in 0 .. 2^setBits - 1 |-> createCacheSet(ways)]

Fresh(setBits, ways) ==
    [cache |-> createCache(setBits, ways), hits |-> 0, misses |-> 0, evictions |-> 0]

-----------------------------------------------------------------------------
(* One access.  checkAndUpdateSet stops at the first line that matches.     *)
SetIndex(address) == (address \div 2^b) % 2^s
Tag(address) == address \div 2^(s + b)

Found(set, tag) ==
    LET order == After(set, Dummy)
        k == SelectInSeq(order, LAMBDA n : set.valid[n] /\ set.tag[n] = tag)
    IN IF k = 0 THEN Dummy ELSE order[k]

addOrReplaceLine(set, tag) ==
    LET last == set.prev[Dummy]
    IN MoveFirst([set EXCEPT !.valid[last] = TRUE, !.tag[last] = tag], last)

UseInPlace(set, tag, found) ==   \* mutant: a hit does not reorder the lines
    IF found = Dummy THEN addOrReplaceLine(set, tag) ELSE set
Use(set, tag, found) ==
    IF found = Dummy THEN addOrReplaceLine(set, tag) ELSE MoveFirst(set, found)

isMiss(set, tag) == Found(set, tag) = Dummy
isEviction(set, tag) == isMiss(set, tag) /\ set.valid[set.prev[Dummy]]

One(happens) == IF happens THEN 1 ELSE 0

accessSet(m, i, tag) ==
    [m EXCEPT !.cache[i] = Use(@, tag, Found(@, tag)),
              !.hits = @ + One(~isMiss(m.cache[i], tag)),
              !.misses = @ + One(isMiss(m.cache[i], tag)),
              !.evictions = @ + One(isEviction(m.cache[i], tag))]

accessCache(m, address) == accessSet(m, SetIndex(address), Tag(address))

parseLine(m, line) ==
    CASE line.op = "I" -> m
      [] line.op = "M" -> accessCache(accessCache(m, line.address), line.address)
      [] OTHER -> accessCache(m, line.address)

parseLines(m, batch) ==
    LET after[k \in 0 .. Len(batch)] == IF k = 0 THEN m ELSE parseLine(after[k - 1], batch[k])
    IN after[Len(batch)]

freeCache(m) == [m EXCEPT !.cache = <<>>]

printSummary(m) == <<m.hits, m.misses, m.evictions>>

-----------------------------------------------------------------------------
CsimInit ==
    /\ csim = "start"
    /\ s = 0 /\ E = 0 /\ b = 0
    /\ sim = Fresh(0, 0)
    /\ csim_results = <<>> /\ trace = <<>> /\ lines = 0

(* parseArgs, then createCache and fopen.                                   *)
parseArgs(opt) ==
    /\ csim = "start"
    /\ s' = opt.s /\ E' = opt.E /\ b' = opt.b
    /\ \/ /\ opt.h
          /\ csim' = "help" /\ UNCHANGED sim
       \/ /\ ~opt.h
          /\ opt.s = 0 \/ opt.E = 0 \/ opt.b = 0 \/ ~opt.t
          /\ csim' = "usage" /\ UNCHANGED sim
       \/ /\ ~opt.h /\ opt.t
          /\ opt.s # 0 /\ opt.E # 0 /\ opt.b # 0
          /\ csim' \in {"read", "missing"}
          /\ sim' = Fresh(opt.s, opt.E)
    /\ UNCHANGED <<csim_results, trace, lines>>

UnknownOption ==
    /\ csim = "start" /\ csim' = "usage"
    /\ UNCHANGED <<s, E, b, sim, csim_results, trace, lines>>

(* fgets returns lines; read some of them.                                  *)
Simulate(batch) ==
    /\ csim = "read"
    /\ trace' = batch
    /\ sim' = parseLines(sim, batch)
    /\ UNCHANGED <<csim, s, E, b>>

ReadLine ==
    /\ UNCHANGED csim_results
    /\ lines < MaxLines /\ lines' = lines + 1
    /\ \E line \in TraceLines : Simulate(<<line>>)

(* The summary is written and every ring is walked once more and freed.     *)
EndOfFile ==
    /\ csim = "read" /\ csim' = "exit"
    /\ csim_results' = printSummary(sim)
    /\ sim' = freeCache(sim)
    /\ UNCHANGED <<s, E, b, trace, lines>>

Start == (\E opt \in CommandLines : parseArgs(opt)) \/ UnknownOption

CsimNext == Start \/ ReadLine \/ EndOfFile

-----------------------------------------------------------------------------
(* What the ring must be, whichever way it is walked.                       *)
RingOK(set) ==
    /\ ToSet(After(set, Dummy)) = Lines(set)
    /\ Len(After(set, Dummy)) = Cardinality(Lines(set))
    /\ \A n \in Nodes(set) : set.prev[set.next[n]] = n

(* No tag is in a set twice, and a set is filled before anything is         *)
(* replaced in it: unused lines are the last of the ring.                   *)
FilledInOrder(set) ==
    LET order == After(set, Dummy)
    IN \A i, j \in 1 .. Len(order) : i < j =>
           /\ set.valid[order[j]] => set.valid[order[i]]
           /\ set.valid[order[j]] => set.tag[order[i]] # set.tag[order[j]]

(* The replacement of lines and the moves to the front of the list          *)
(* (checkAndUpdateSet, addOrReplaceLine) lose no line and duplicate no tag. *)
RingsIntact ==
    \A i \in DOMAIN sim.cache : RingOK(sim.cache[i]) /\ FilledInOrder(sim.cache[i])

(* The tags of a set, most recently used first: a sequence, as unused lines *)
(* come last.                                                               *)
Recent(set) ==
    LET order == After(set, Dummy)
    IN [k \in {j \in DOMAIN order : set.valid[order[j]]} |-> set.tag[order[k]]]

(* The accesses that the trace asks for, a modification being two.          *)
Times(op) == CASE op = "I" -> 0 [] op = "M" -> 2 [] OTHER -> 1
Accesses ==
    FlattenSeq([k \in DOMAIN trace |->
        [n \in 1 .. Times(trace[k].op) |->
            [set |-> SetIndex(trace[k].address), tag |-> Tag(trace[k].address)]]])

Promised ==
    INSTANCE SetLru
        WITH ways <- E, accesses <- Accesses,
             recent <- [i \in DOMAIN sim.cache |-> Recent(sim.cache[i])],
             counts <- [hits |-> sim.hits, misses |-> sim.misses, evictions |-> sim.evictions]
=============================================================================
