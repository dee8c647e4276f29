------------------------------ MODULE JobList ------------------------------
(***************************************************************************)
(* The job list of the tiny shell (src/Shell/shlab-handout/tsh.c, "Helper   *)
(* routines that manipulate the job list"): the fixed array of MAXJOBS      *)
(* job_t slots as a function from slot numbers to records, and each helper  *)
(* routine as an operator.  A routine that scans the array from slot 0      *)
(* returns the least matching slot.  The pid 0 marks a free slot; the       *)
(* command text of a job decides nothing and is left out.                   *)
(***************************************************************************)
EXTENDS Integers, FiniteSets, FiniteSetsExt

CONSTANTS MAXJOBS,   \* number of slots
          Pids       \* process ids the kernel may hand out

ASSUME MAXJOBSAssumption == MAXJOBS \in Nat \ {0}
ASSUME PidsAssumption == IsFiniteSet(Pids) /\ 0 \notin Pids

States == {"UNDEF", "FG", "BG", "ST"}
Slots == 0 .. MAXJOBS - 1
Job == [pid : Pids \cup {0}, jid : Nat, state : States]
JobTable == [Slots -> Job]

clearjob == [pid |-> 0, jid |-> 0, state |-> "UNDEF"]
initjobs == [i \in Slots |-> clearjob]

SlotsWithPid(tbl, p) == {i \in Slots : tbl[i].pid = p}
SlotsWithJid(tbl, j) == {i \in Slots : tbl[i].jid = j}
SlotsInFG(tbl) == {i \in Slots : tbl[i].state = "FG"}
Tracked(tbl) == {tbl[i].pid : i \in Slots} \ {0}
DistinctPids(tbl) ==
    \A i, j \in Slots : tbl[i].pid = tbl[j].pid /\ tbl[i].pid # 0 => i = j

maxjid(tbl) == Max({0} \cup {tbl[i].jid : i \in Slots})

(* addjob and deletejob change the table and the static counter nextjid;    *)
(* each has one operator for each of the two.                               *)
addjob(tbl, next, p, st) ==
    LET free == SlotsWithPid(tbl, 0) IN
    IF free = {} THEN tbl
    ELSE [tbl EXCEPT ![Min(free)] = [pid |-> p, jid |-> next, state |-> st]]

addjobNext(tbl, next) ==
    IF SlotsWithPid(tbl, 0) = {} THEN next
    ELSE IF next + 1 > MAXJOBS THEN 1 ELSE next + 1

deletejob(tbl, p) ==
    LET found == SlotsWithPid(tbl, p) IN
    IF found = {} THEN tbl ELSE [tbl EXCEPT ![Min(found)] = clearjob]


deletejobNext(tbl, next, p) ==
    IF SlotsWithPid(tbl, p) = {} THEN next ELSE maxjid(deletejob(tbl, p)) + 1

(* The pid of the first slot in state FG, whatever that pid is: a slot that *)
(* is in state FG with pid 0 answers "no foreground job".                   *)
fgpid(tbl) ==
    LET fg == SlotsInFG(tbl) IN IF fg = {} THEN 0 ELSE tbl[Min(fg)].pid

(* The slot a lookup by process id or by job id returns a pointer to; None  *)
(* stands for the NULL pointer.                                             *)
None == -1
getjobpid(tbl, p) ==
    LET found == SlotsWithPid(tbl, p) IN
    IF p = 0 \/ found = {} THEN None ELSE Min(found)

getjobjid(tbl, j) ==
    LET found == SlotsWithJid(tbl, j) IN
    IF j < 1 \/ found = {} THEN None ELSE Min(found)
=============================================================================
