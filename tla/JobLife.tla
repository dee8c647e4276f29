------------------------------ MODULE JobLife ------------------------------
(***************************************************************************)
(* What the shell's bookkeeping promises, without signals, masks or slots:  *)
(* a process is started, listed, ends, is collected by the shell, and only  *)
(* then leaves the list; its pid is used again only after that.  Being      *)
(* listed may come after the end, but never after the collection.           *)
(***************************************************************************)
CONSTANT Pids
VARIABLES life, listed

Lives == {"none", "live", "dead", "collected"}

Init ==
    /\ life = [p \in Pids |-> "none"]
    /\ listed = {}

Start(p) ==
    /\ life[p] = "none"
    /\ p \notin listed
    /\ life' = [life EXCEPT ![p] = "live"]
    /\ UNCHANGED listed

List(p) ==
    /\ life[p] \in {"live", "dead"}
    /\ p \notin listed
    /\ listed' = listed \cup {p}
    /\ UNCHANGED life

End(p) ==
    /\ life[p] = "live"
    /\ life' = [life EXCEPT ![p] = "dead"]
    /\ UNCHANGED listed

Collect(p) ==
    /\ life[p] = "dead"
    /\ p \in listed
    /\ life' = [life EXCEPT ![p] = "collected"]
    /\ UNCHANGED listed

Unlist(p) ==
    /\ life[p] = "collected"
    /\ life' = [life EXCEPT ![p] = "none"]
    /\ listed' = listed \ {p}

Next == \E p \in Pids : Start(p) \/ List(p) \/ End(p) \/ Collect(p) \/ Unlist(p)

Spec == Init /\ [][Next]_<<life, listed>>
=============================================================================
