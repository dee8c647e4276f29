------------------------------- MODULE SetLru -------------------------------
(***************************************************************************)
(* What a cache simulator promises: each set holds the tags used last, at   *)
(* most one for each way, and every access is counted as a hit if its tag   *)
(* is among them, as a miss otherwise, and as an eviction if the set is     *)
(* full besides.                                                            *)
(***************************************************************************)
EXTENDS Integers, SequencesExt

VARIABLES ways,      \* tags a set can hold
          accesses,  \* what the last step was asked to access
          recent,    \* for every set its tags, last used first
          counts     \* hits, misses and evictions

lruVars == <<ways, accesses, recent, counts>>

Zero == [hits |-> 0, misses |-> 0, evictions |-> 0]

Truncate(tags) == SubSeq(tags, 1, IF Len(tags) > ways THEN ways ELSE Len(tags))

Use(memory, access) ==
    [memory EXCEPT ![access.set] =
        Truncate(<<access.tag>> \o RemoveFirst(@, access.tag))]

Kind(tags, tag) ==
    IF Contains(tags, tag) THEN {"hits"}
    ELSE IF Len(tags) < ways THEN {"misses"}
    ELSE {"misses", "evictions"}

Count(c, kinds) == [k \in DOMAIN c |-> c[k] + (IF k \in kinds THEN 1 ELSE 0)]

Touch(state, access) ==
    [state EXCEPT !.memory = Use(@, access),
                  !.counts = Count(@, Kind(state.memory[access.set], access.tag))]

TouchAll(state, asked) ==
    LET after[k \in 0 .. Len(asked)] == IF k = 0 THEN state ELSE Touch(after[k - 1], asked[k])
    IN after[Len(asked)]

Empty == counts = Zero /\ \A i \in DOMAIN recent : recent[i] = <<>>

Access ==
    /\ UNCHANGED ways
    /\ [memory |-> recent', counts |-> counts'] =
           TouchAll([memory |-> recent, counts |-> counts], accesses')

(* A cache of any shape is created empty; a discarded one leaves its counts.*)
Create == Empty'
Discard == UNCHANGED counts /\ recent' = <<>>

Spec == Empty /\ [][Access \/ Create \/ Discard]_lruVars
=============================================================================
