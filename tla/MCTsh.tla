------------------------------- MODULE MCTsh -------------------------------
(***************************************************************************)
(* Command lines and keyboard signals for checking Tsh.                     *)
(***************************************************************************)
EXTENDS Tsh, TLC

NoArg == [by |-> "nothing"]
Jid(j) == [by |-> "jid", jid |-> j]
Pid(p) == [by |-> "pid", pid |-> p]
Typed(c, a) == [cmd |-> c, arg |-> a, amp |-> TRUE]

Launch == Typed("program", NoArg)
ForegroundLaunch == [Launch EXCEPT !.amp = FALSE]
MoveJob(j) == {Typed("fg", Jid(j)), Typed("bg", Jid(j))}

(* Lines that start jobs and move them, by job id and by process id.        *)
JobLines == {Launch} \cup MoveJob(1) \cup MoveJob(2)
PidLines == {Typed("fg", Pid(p)) : p \in Pids}
FgLines == {Launch} \cup PidLines
(* Lines that should leave the jobs alone: a blank one, built-in commands,  *)
(* unusable arguments, and a command without '&'.                           *)
OtherLines == {NoLine, ForegroundLaunch, Typed("quit", NoArg), Typed("jobs", NoArg),
               Typed("fg", NoArg), Typed("bg", [by |-> "word"]),
               Typed("bg", [by |-> "percent word"])}
AllLines == JobLines \cup PidLines \cup OtherLines
(* Jobs in plenty, and one of them moved to the foreground.                  *)
FewLines == {Launch, Typed("fg", Jid(1))}

Symmetry == Permutations(Pids)
=============================================================================
