------------------------------ MODULE MCProxy ------------------------------
(***************************************************************************)
(* Clients for checking Proxy.                                              *)
(***************************************************************************)
EXTENDS Proxy, TLC

(* Any client may ask for any key, or each for a key of its own.            *)
AnyKey == [t \in Threads |-> Urls]
OwnKey ==
    LET own == CHOOSE f \in [Threads -> Urls] :
                   \A s, t \in Threads : f[s] = f[t] => s = t
    IN [t \in Threads |-> {own[t]}]

Symmetry == Permutations(Threads) \cup Permutations(Urls) \cup Permutations(Nodes)
=============================================================================
