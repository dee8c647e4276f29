----------------------------- MODULE Allocator -----------------------------
(***************************************************************************)
(* What malloc, free and realloc promise: a block is aligned, inside the    *)
(* heap and apart from every other live block, and it stays where it is     *)
(* until its own client frees or reallocates it, with the data the client   *)
(* filled it with.                                                          *)
(***************************************************************************)
EXTENDS Integers

CONSTANTS Ids, Sizes, Limit, Alignment
VARIABLES live,   \* the block of each index
          data    \* what is found in it

Nowhere == [ptr |-> 0, size |-> 0]
Bytes(b) == b.ptr .. b.ptr + b.size - 1

Init ==
    /\ live = [i \in Ids |-> Nowhere]
    /\ data = [i \in Ids |-> {}]

Place(i, s) ==
    \E p \in {Alignment * k : k \in 1 .. Limit \div Alignment} :
        LET block == [ptr |-> p, size |-> s]
        IN /\ p + s <= Limit
           /\ \A j \in Ids \ {i} : Bytes(block) \cap Bytes(live[j]) = {}
           /\ live' = [live EXCEPT ![i] = block]
           /\ data' = [data EXCEPT ![i] = {i}]

Malloc(i, s) == live[i] = Nowhere /\ Place(i, s)
Realloc(i, s) == live[i] # Nowhere /\ Place(i, s)

Free(i) ==
    /\ live[i] # Nowhere
    /\ live' = [live EXCEPT ![i] = Nowhere]
    /\ data' = [data EXCEPT ![i] = {}]

Restart ==
    /\ live' = [i \in Ids |-> Nowhere]
    /\ data' = [i \in Ids |-> {}]

Next ==
    \/ \E i \in Ids, s \in Sizes : Malloc(i, s) \/ Realloc(i, s)
    \/ \E i \in Ids : Free(i)
    \/ Restart

Spec == Init /\ [][Next]_<<live, data>>
=============================================================================
