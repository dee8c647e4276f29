-------------------------------- MODULE Lru --------------------------------
(***************************************************************************)
(* What the proxy's cache promises, without pointers, locks or threads: the *)
(* objects in the order of their last use, most recent first.  A hit moves  *)
(* the most recent object of its key to the front, an object that is added  *)
(* goes to the front, and only the least recently used object is dropped,   *)
(* when the next object might not fit.                                      *)
(***************************************************************************)
EXTENDS Integers, Sequences, SequencesExt

CONSTANTS Urls, MAX_CACHE_SIZE, MAX_OBJECT_SIZE
VARIABLE order

Total(s) == SumFunction([i \in DOMAIN s |-> s[i].size])

Init == order = <<>>

Hit(u) ==
    \E i \in DOMAIN order :
        /\ order[i].url = u
        /\ \A j \in 1 .. i - 1 : order[j].url # u
        /\ order' = <<order[i]>> \o RemoveAt(order, i)

Drop ==
    /\ Total(order) + MAX_OBJECT_SIZE > MAX_CACHE_SIZE
    /\ order # <<>>
    /\ order' = Front(order)

Add(u) ==
    \E s \in 0 .. MAX_OBJECT_SIZE :
        /\ Total(order) + s <= MAX_CACHE_SIZE
        /\ order' = <<[url |-> u, size |-> s]>> \o order

Next == Drop \/ \E u \in Urls : Hit(u) \/ Add(u)

Spec == Init /\ [][Next]_order
=============================================================================
