-------------------------------- MODULE Tsh --------------------------------
(***************************************************************************)
(* The tiny shell (src/Shell/shlab-handout/tsh.c): its read/eval loop, its  *)
(* signal handlers, and as much of the kernel as they can observe.          *)
(*                                                                          *)
(* The shell is one process.  Its main program runs in context "main"; a    *)
(* signal handler is a frame pushed on top of whatever runs, so only the    *)
(* top context takes a step.  A step ends where another context could see   *)
(* or change what it has read: a region that runs with every signal blocked *)
(* is one step.                                                             *)
(***************************************************************************)
EXTENDS JobList

CONSTANTS JidBound,     \* bound on the job ids handed out
          Lines,        \* command lines the user may type
          Keyboard,     \* signals other than SIGCHLD that may arrive
          ForkMayFail,  \* whether fork may return -1
          StopsSelf     \* whether a job may be stopped by someone else

Handled == {"CHLD", "INT", "TSTP"}
AllSignals == Handled \cup {"QUIT"}

(* A command line as parseline leaves it: the first word, the argument of   *)
(* fg and bg, and whether the last word began with '&'.  A blank line and a *)
(* lone '&' have no first word.                                             *)
Commands == {"none", "quit", "&", "jobs", "fg", "bg", "program"}
Arg == [by : {"nothing", "word", "percent word"}]
          \cup [by : {"jid"}, jid : Nat] \cup [by : {"pid"}, pid : Pids]
Line == [cmd : Commands, arg : Arg, amp : BOOLEAN]

ASSUME TshAssumption ==
    /\ JidBound \in Nat
    /\ Lines \subseteq Line
    /\ Keyboard \subseteq AllSignals \ {"CHLD"}
    /\ ForkMayFail \in BOOLEAN
    /\ StopsSelf \in BOOLEAN

VARIABLES
    jobs, nextjid,   \* the job list and the next job id
    main,            \* where the main program is
    line,            \* the command line being evaluated
    slot,            \* the job pointer of do_bgfg
    pid,             \* the pid held by eval or loaded by do_bgfg
    prev,            \* the mask saved by eval or by waitfg
    ctx,             \* the running context: "main" or a handler
    frame,           \* the stack frame of each handler
    mask,            \* the blocked signals
    chld,            \* SIGCHLD is pending
    proc,            \* state of each process id
    stopreq          \* processes with an undelivered stop signal

program == <<main, line, slot, pid, prev>>
kernel == <<proc, stopreq>>
table == <<jobs, nextjid>>
vars == <<jobs, nextjid, main, line, slot, pid, prev, ctx, frame, mask, chld,
          proc, stopreq>>

Halts == {"exited", "unix_error", "crashed"}
MainPCs == Halts \cup
    {"read", "eval", "block", "fork", "addjob", "bgfg", "loadpid", "kill",
     "setstate", "waitblock", "waittest", "suspend", "suspended"}
Contexts == {"main"} \cup Handled

(* A child is "forked" until it is in a process group of its own; "stopped" *)
(* turns to "parked" once waitpid has reported the stop.                    *)
ProcStates == {"none", "forked", "running", "stopped", "parked", "zombie"}
GroupExists(p) == proc[p] \notin {"none", "forked"}
Reportable(p) == proc[p] \in {"zombie", "stopped"}

Frame == [pc : {"idle", "wait", "update", "find", "send"},
          pid : Pids \cup {0}, status : {"none", "dead", "stopped"},
          under : Contexts, restore : SUBSET AllSignals]
Idle == [pc |-> "idle", pid |-> 0, status |-> "none",
         under |-> "main", restore |-> {}]

NoLine == [cmd |-> "none", arg |-> [by |-> "nothing"], amp |-> FALSE]

TypeOK ==
    /\ jobs \in JobTable
    /\ nextjid \in Nat
    /\ main \in MainPCs
    /\ line \in Line
    /\ slot \in Slots
    /\ pid \in Pids \cup {0}
    /\ prev \in SUBSET AllSignals
    /\ ctx \in Contexts
    /\ frame \in [Handled -> Frame]
    /\ mask \in SUBSET AllSignals
    /\ chld \in BOOLEAN
    /\ proc \in [Pids -> ProcStates]
    /\ stopreq \in SUBSET Pids

Init ==
    /\ jobs = initjobs
    /\ nextjid = 1
    /\ main = "read"
    /\ line = NoLine
    /\ slot = 0
    /\ pid = 0
    /\ prev = {}
    /\ ctx = "main"
    /\ frame = [s \in Handled |-> Idle]
    /\ mask = {}
    /\ chld = FALSE
    /\ proc = [p \in Pids |-> "none"]
    /\ stopreq = {}

Running == main \notin Halts
At(pc) == ctx = "main" /\ main = pc
InHandler(s, pc) == Running /\ ctx = s /\ frame[s].pc = pc

-----------------------------------------------------------------------------
(* The read/eval loop.                                                      *)

Read(l) ==
    /\ At("read")
    /\ l.cmd = "program" => /\ nextjid <= JidBound /\ maxjid(jobs) < JidBound
                             /\ \E p \in Pids : proc[p] = "none"
    /\ line' = l
    /\ main' = "eval"
    /\ UNCHANGED <<table, slot, pid, prev, ctx, frame, mask, chld, kernel>>

EndOfFile ==
    /\ At("read")
    /\ main' = "exited"
    /\ UNCHANGED <<table, line, slot, pid, prev, ctx, frame, mask, chld, kernel>>

(* True for a background line, and for a line without words.                *)
parseline(l) == l.cmd = "none" \/ l.amp

(* Where eval goes once parseline has returned true: strcmp on a NULL       *)
(* argv[0] crashes.                                                         *)
builtin_cmd(l) ==
    CASE l.cmd = "none" -> "crashed"
      [] l.cmd = "quit" -> "exited"
      [] l.cmd \in {"&", "jobs"} -> "read"
      [] l.cmd \in {"fg", "bg"} -> "bgfg"
      [] l.cmd = "program" -> "block"

Eval ==
    /\ At("eval")
    /\ main' = IF parseline(line) THEN builtin_cmd(line) ELSE "read"
    /\ UNCHANGED <<table, line, slot, pid, prev, ctx, frame, mask, chld, kernel>>

(* Mutant: SIGCHLD is not blocked around fork and addjob.                   *)
BlockNothing ==
    /\ At("block")
    /\ prev' = mask
    /\ main' = "fork"
    /\ UNCHANGED <<table, line, slot, pid, ctx, frame, mask, chld, kernel>>

BlockChld ==
    /\ At("block")
    /\ prev' = mask
    /\ mask' = mask \cup {"CHLD"}
    /\ main' = "fork"
    /\ UNCHANGED <<table, line, slot, pid, ctx, frame, chld, kernel>>

Fork(p) ==
    /\ At("fork")
    /\ proc[p] = "none"
    /\ proc' = [proc EXCEPT ![p] = "forked"]
    /\ pid' = p
    /\ main' = "addjob"
    /\ UNCHANGED <<table, line, slot, prev, ctx, frame, mask, chld, stopreq>>

(* eval returns at once: the mask keeps SIGCHLD.                            *)
ForkFails ==
    /\ At("fork")
    /\ ForkMayFail
    /\ main' = "read"
    /\ UNCHANGED <<table, line, slot, pid, prev, ctx, frame, mask, chld, kernel>>

(* addjob under a full mask, the old mask restored, and waitfg only for a   *)
(* job that is not in the background.                                       *)
AddJob ==
    /\ At("addjob")
    /\ jobs' = addjob(jobs, nextjid, pid, IF parseline(line) THEN "BG" ELSE "FG")
    /\ nextjid' = addjobNext(jobs, nextjid)
    /\ mask' = prev
    /\ main' = IF parseline(line) THEN "read" ELSE "waitblock"
    /\ UNCHANGED <<line, slot, pid, prev, ctx, frame, chld, kernel>>

-----------------------------------------------------------------------------
(* do_bgfg and waitfg.  No signal is blocked in do_bgfg, so each access to  *)
(* the job it points to is a step of its own.                               *)

Found(l) == IF l.arg.by = "jid" THEN getjobjid(jobs, l.arg.jid)
                                ELSE getjobpid(jobs, l.arg.pid)

(* No usable argument, or no such job.  A '%' that no number follows leaves *)
(* the job pointer NULL, and the next statement reads through it.           *)
RefuseArgument ==
    /\ At("bgfg")
    /\ \/ line.arg.by \in {"nothing", "word"} /\ main' = "read"
       \/ line.arg.by = "percent word" /\ main' = "crashed"
       \/ line.arg.by \in {"jid", "pid"} /\ Found(line) = None /\ main' = "read"
    /\ UNCHANGED <<table, line, slot, pid, prev, ctx, frame, mask, chld, kernel>>

(* Mutant: the NULL result of a lookup is not tested.                       *)
LookupUnchecked ==
    /\ At("bgfg")
    /\ line.arg.by \in {"jid", "pid"}
    /\ slot' = Found(line)
    /\ main' = "loadpid"
    /\ UNCHANGED <<table, line, pid, prev, ctx, frame, mask, chld, kernel>>

LookupJob ==
    /\ At("bgfg")
    /\ line.arg.by \in {"jid", "pid"}
    /\ Found(line) # None
    /\ slot' = Found(line)
    /\ main' = "loadpid"
    /\ UNCHANGED <<table, line, pid, prev, ctx, frame, mask, chld, kernel>>

LoadPid ==
    /\ At("loadpid")
    /\ pid' = jobs[slot].pid
    /\ main' = "kill"
    /\ UNCHANGED <<table, line, slot, prev, ctx, frame, mask, chld, kernel>>

(* SIGCONT resumes a stopped process, discards its pending stop signals and *)
(* raises SIGCHLD in the shell if it was stopped.  kill(-0) signals the     *)
(* shell's own group and succeeds.                                          *)
KillCont ==
    /\ At("kill")
    /\ pid \in Pids => GroupExists(pid)
    /\ IF pid \in Pids
       THEN LET wasStopped == proc[pid] \in {"stopped", "parked"} IN
            /\ proc' = IF wasStopped THEN [proc EXCEPT ![pid] = "running"] ELSE proc
            /\ chld' = (chld \/ wasStopped)
            /\ stopreq' = stopreq \ {pid}
       ELSE UNCHANGED <<proc, chld, stopreq>>
    /\ main' = "setstate"
    /\ UNCHANGED <<table, line, slot, pid, prev, ctx, frame, mask>>

KillFails ==
    /\ At("kill")
    /\ pid \in Pids /\ ~GroupExists(pid)
    /\ main' = "read"
    /\ UNCHANGED <<table, line, slot, pid, prev, ctx, frame, mask, chld, kernel>>

SetState ==
    /\ At("setstate")
    /\ jobs' = [jobs EXCEPT ![slot].state = IF line.cmd = "bg" THEN "BG" ELSE "FG"]
    /\ main' = IF line.cmd = "bg" THEN "read" ELSE "waitblock"
    /\ UNCHANGED <<nextjid, line, slot, pid, prev, ctx, frame, mask, chld, kernel>>

(* Mutant: waitfg tests for a foreground job with the signals unblocked.    *)
WaitUnblocked ==
    /\ At("waitblock")
    /\ prev' = mask
    /\ main' = "waittest"
    /\ UNCHANGED <<table, line, slot, pid, ctx, frame, mask, chld, kernel>>

WaitBlock ==
    /\ At("waitblock")
    /\ prev' = mask
    /\ mask' = AllSignals
    /\ main' = "waittest"
    /\ UNCHANGED <<table, line, slot, pid, ctx, frame, chld, kernel>>

WaitTest ==
    /\ At("waittest")
    /\ IF fgpid(jobs) # 0
       THEN main' = "suspend" /\ mask' = mask
       ELSE main' = "read" /\ mask' = prev
    /\ UNCHANGED <<table, line, slot, pid, prev, ctx, frame, chld, kernel>>

(* sigsuspend installs the saved mask and sleeps in one atomic step.        *)
Suspend ==
    /\ At("suspend")
    /\ mask' = prev
    /\ main' = "suspended"
    /\ UNCHANGED <<table, line, slot, pid, prev, ctx, frame, chld, kernel>>

-----------------------------------------------------------------------------
(* Signal delivery and the handlers.  Signal() installs every handler with  *)
(* an empty sa_mask, so a handler runs with its own signal blocked and may  *)
(* be interrupted by the others.  A keyboard signal that arrives while it   *)
(* is blocked is one that arrives when it is unblocked.                     *)

Deliver(s) ==
    /\ Running
    /\ s \notin mask
    /\ IF s = "CHLD" THEN chld ELSE s \in Keyboard
    /\ chld' = (chld /\ s # "CHLD")
    /\ frame' = [frame EXCEPT ![s] =
          [pc |-> IF s = "CHLD" THEN "wait" ELSE "find", pid |-> 0,
           status |-> "none", under |-> ctx,
           restore |-> IF At("suspended") THEN AllSignals ELSE mask]]
    /\ mask' = mask \cup {s}
    /\ ctx' = s
    /\ main' = IF At("suspended") THEN "waittest" ELSE main
    /\ UNCHANGED <<table, line, slot, pid, prev, kernel>>

Return(s) ==
    /\ frame' = [frame EXCEPT ![s] = Idle]
    /\ mask' = frame[s].restore
    /\ ctx' = frame[s].under

(* sigchld_handler: waitpid reports any child that is dead or newly stopped *)
WaitPid(p) ==
    /\ InHandler("CHLD", "wait")
    /\ Reportable(p)
    /\ frame' = [frame EXCEPT !["CHLD"] = [@ EXCEPT !.pc = "update", !.pid = p,
          !.status = IF proc[p] = "zombie" THEN "dead" ELSE "stopped"]]
    /\ proc' = [proc EXCEPT ![p] = IF @ = "zombie" THEN "none" ELSE "parked"]
    /\ stopreq' = IF proc[p] = "zombie" THEN stopreq \ {p} ELSE stopreq
    /\ UNCHANGED <<table, program, ctx, mask, chld>>

(* Mutant: "if" for the "while" of the handler, one child per signal.       *)
UpdateOnce ==
    /\ InHandler("CHLD", "update")
    /\ LET p == frame["CHLD"].pid
           i == getjobpid(jobs, p)
       IN IF frame["CHLD"].status = "dead"
          THEN /\ jobs' = deletejob(jobs, p)
               /\ nextjid' = deletejobNext(jobs, nextjid, p)
          ELSE /\ jobs' = IF i = None THEN jobs ELSE [jobs EXCEPT ![i].state = "ST"]
               /\ nextjid' = nextjid
    /\ Return("CHLD")
    /\ UNCHANGED <<program, chld, kernel>>

(* Mutant: a stopped job is deleted like a dead one.                        *)
UpdateDeletes ==
    /\ InHandler("CHLD", "update")
    /\ jobs' = deletejob(jobs, frame["CHLD"].pid)
    /\ nextjid' = deletejobNext(jobs, nextjid, frame["CHLD"].pid)
    /\ frame' = [frame EXCEPT !["CHLD"] =
                     [@ EXCEPT !.pc = "wait", !.pid = 0, !.status = "none"]]
    /\ UNCHANGED <<program, ctx, mask, chld, kernel>>

UpdateJob ==
    /\ InHandler("CHLD", "update")
    /\ LET p == frame["CHLD"].pid
           i == getjobpid(jobs, p)
       IN IF frame["CHLD"].status = "dead"
          THEN /\ jobs' = deletejob(jobs, p)
               /\ nextjid' = deletejobNext(jobs, nextjid, p)
          ELSE /\ jobs' = IF i = None THEN jobs ELSE [jobs EXCEPT ![i].state = "ST"]
               /\ nextjid' = nextjid
    /\ frame' = [frame EXCEPT !["CHLD"] =
                     [@ EXCEPT !.pc = "wait", !.pid = 0, !.status = "none"]]
    /\ UNCHANGED <<program, ctx, mask, chld, kernel>>

WaitPidNone ==
    /\ InHandler("CHLD", "wait")
    /\ \A p \in Pids : ~Reportable(p)
    /\ Return("CHLD")
    /\ UNCHANGED <<table, program, chld, kernel>>

(* sigint_handler and sigtstp_handler: the foreground pid is read under a   *)
(* full mask, and the mask is restored before the signal is sent.           *)
FindForeground(s) ==
    /\ InHandler(s, "find")
    /\ IF fgpid(jobs) = 0
       THEN Return(s)
       ELSE /\ frame' = [frame EXCEPT ![s] = [@ EXCEPT !.pc = "send", !.pid = fgpid(jobs)]]
            /\ UNCHANGED <<mask, ctx>>
    /\ UNCHANGED <<table, program, chld, kernel>>

(* SIGINT may end the job, which Exit covers; SIGSTOP certainly stops it.   *)
Forward(s) ==
    /\ InHandler(s, "send")
    /\ GroupExists(frame[s].pid)
    /\ stopreq' = IF s = "TSTP" /\ proc[frame[s].pid] = "running"
                  THEN stopreq \cup {frame[s].pid} ELSE stopreq
    /\ Return(s)
    /\ UNCHANGED <<table, program, chld, proc>>

ForwardFails(s) ==
    /\ InHandler(s, "send")
    /\ ~GroupExists(frame[s].pid)
    /\ main' = "unix_error"
    /\ UNCHANGED <<table, line, slot, pid, prev, ctx, frame, mask, chld, kernel>>

Quit ==
    /\ Running
    /\ "QUIT" \in Keyboard \ mask
    /\ main' = "exited"
    /\ UNCHANGED <<table, line, slot, pid, prev, ctx, frame, mask, chld, kernel>>

-----------------------------------------------------------------------------
(* The children.  A child puts itself in its own process group and runs the *)
(* program; it may end at any time, even before that.                       *)

JoinGroup(p) ==
    /\ Running
    /\ proc[p] = "forked"
    /\ proc' = [proc EXCEPT ![p] = "running"]
    /\ UNCHANGED <<table, program, ctx, frame, mask, chld, stopreq>>

Exit(p) ==
    /\ Running
    /\ proc[p] \notin {"none", "zombie"}
    /\ proc' = [proc EXCEPT ![p] = "zombie"]
    /\ stopreq' = stopreq \ {p}
    /\ chld' = TRUE
    /\ UNCHANGED <<table, program, ctx, frame, mask>>

Stop(p) ==
    /\ Running
    /\ proc[p] = "running"
    /\ p \in stopreq \/ StopsSelf
    /\ proc' = [proc EXCEPT ![p] = "stopped"]
    /\ stopreq' = stopreq \ {p}
    /\ chld' = TRUE
    /\ UNCHANGED <<table, program, ctx, frame, mask>>

Halted == ~Running /\ UNCHANGED vars

-----------------------------------------------------------------------------
MainStep ==
    \/ Eval \/ BlockChld \/ ForkFails \/ AddJob
    \/ (\E p \in Pids : Fork(p))
    \/ RefuseArgument \/ LookupJob \/ LoadPid \/ KillCont \/ KillFails \/ SetState
    \/ WaitBlock \/ WaitTest \/ Suspend

HandlerStep(s) ==
    \/ s = "CHLD" /\ (WaitPidNone \/ UpdateJob \/ \E p \in Pids : WaitPid(p))
    \/ s # "CHLD" /\ (FindForeground(s) \/ Forward(s) \/ ForwardFails(s))

Next ==
    \/ (\E l \in Lines : Read(l))
    \/ EndOfFile
    \/ MainStep
    \/ (\E s \in Handled : Deliver(s) \/ HandlerStep(s))
    \/ Quit
    \/ (\E p \in Pids : JoinGroup(p) \/ Exit(p) \/ Stop(p))
    \/ Halted

Spec == Init /\ [][Next]_vars

(* The kernel runs every process and delivers every pending signal that is  *)
(* unblocked again and again, signals arrive at a finite rate, and a job    *)
(* that is not stopped ends.                                                *)
Fairness ==
    /\ SF_vars(MainStep)
    /\ \A s \in Handled : SF_vars(HandlerStep(s))
    /\ SF_vars(Deliver("CHLD"))
    /\ \A p \in Pids :
          /\ WF_vars(JoinGroup(p))
          /\ WF_vars(p \in stopreq /\ Stop(p))
          /\ WF_vars(proc[p] = "running" /\ Exit(p))

FairSpec == Spec /\ Fairness

-----------------------------------------------------------------------------
(* Properties that hold.                                                    *)

(* No wake-up is lost: while a child is dead or newly stopped, a SIGCHLD is *)
(* pending or sigchld_handler has yet to see waitpid report nothing.  The   *)
(* kernel merges the signals of several children, so one run of the handler *)
(* must reap them all (the while loop at the head of sigchld_handler).      *)
NoLostSigchld ==
    Running => \A p \in Pids : Reportable(p) => chld \/ frame["CHLD"].pc # "idle"

(* The list and the kernel agree: a listed pid is a child of the shell, or  *)
(* the one sigchld_handler has just reaped, and a child is listed unless    *)
(* eval is between fork and addjob or the list has no room for everyone.    *)
Reaped(p) == frame["CHLD"].status = "dead" /\ frame["CHLD"].pid = p
TableMatchesChildren ==
    /\ \A p \in Tracked(jobs) : proc[p] # "none" \/ Reaped(p)
    /\ Cardinality(Pids) <= MAXJOBS =>
          \A p \in Pids : proc[p] # "none" =>
              p \in Tracked(jobs) \/ (main \in {"addjob"} \cup Halts /\ pid = p)

(* addjob lists the child that eval has forked and drops no other, or it    *)
(* refuses the child, and then because every slot holds a different child   *)
(* that the shell has yet to reap: no slot is lost to a job that is gone,   *)
(* or to one that is listed twice.                                          *)
RefusedOnlyWhenFull ==
    [][AddJob => \/ Tracked(jobs') = Tracked(jobs) \cup {pid}
                 \/ /\ jobs' = jobs /\ Cardinality(Tracked(jobs)) = MAXJOBS
                    /\ \A p \in Tracked(jobs) : proc[p] # "none"]_vars

(* No two slots hold the same process: addjob never finds the pid it is     *)
(* given already listed, although the kernel reuses pids.                   *)
PidsUnique == DistinctPids(jobs)

(* waitfg never sleeps on nothing: a shell inside sigsuspend has a          *)
(* foreground job, because the test and the sleep exclude every handler.    *)
NoIdleWait == main = "suspended" => fgpid(jobs) # 0

(* The shell implements the life cycle of JobLife: a job leaves the list    *)
(* only after it was reaped, is reaped only when it is listed, and its pid  *)
(* is listed again only after that.                                         *)
lifeOf(p) ==
    IF Reaped(p) THEN "collected"
    ELSE IF proc[p] = "none" THEN "none"
    ELSE IF proc[p] = "zombie" THEN "dead" ELSE "live"
Life == INSTANCE JobLife WITH
    life <- [p \in Pids |-> lifeOf(p)], listed <- Tracked(jobs)
ImplementsJobLife == Life!Spec

(* waitfg returns: the shell that sleeps for a foreground job prompts again *)
(* (or ends).                                                               *)
WaitfgReturns == main = "suspended" ~> main = "read" \/ ~Running

(* Every dead child is reaped.                                              *)
ZombiesReaped == \A p \in Pids : proc[p] = "zombie" ~> proc[p] # "zombie" \/ ~Running

-----------------------------------------------------------------------------
(* The inductive invariant behind the first five properties.                *)

Active(s) == frame[s].pc # "idle"

FramesOK ==
    /\ frame["CHLD"].pc \in {"idle", "wait", "update"}
    /\ frame["CHLD"].status # "none" => frame["CHLD"].pc = "update"
    /\ frame["CHLD"].pc = "update" =>
          frame["CHLD"].pid \in Pids /\ frame["CHLD"].status # "none"
    /\ \A s \in {"INT", "TSTP"} :
          /\ frame[s].pc \in {"idle", "find", "send"}
          /\ frame[s].pc = "send" => frame[s].pid \in Pids

(* The active frames are a stack with ctx on top and the main program at    *)
(* the bottom; each has its signal blocked, and gives control back with the *)
(* signals of the frames below it blocked.                                  *)
On(s, u) == Active(s) /\ s \in mask /\ frame[s].under = u
OnlyActive(A) == \A s \in Handled \ A : ~Active(s)
StackOK ==
    \/ ctx = "main" /\ OnlyActive({})
    \/ \E a \in Handled : ctx = a /\ On(a, "main") /\ OnlyActive({a})
    \/ \E a, b \in Handled :
          /\ a # b /\ ctx = b /\ On(a, "main") /\ On(b, a) /\ OnlyActive({a, b})
          /\ a \in frame[b].restore
    \/ \E a, b, c \in Handled :
          /\ a # b /\ a # c /\ b # c /\ ctx = c
          /\ On(a, "main") /\ On(b, a) /\ On(c, b)
          /\ a \in frame[b].restore /\ {a, b} \subseteq frame[c].restore

(* SIGCHLD stays blocked from before fork until the child is listed, also   *)
(* across the handlers that interrupt eval there.                           *)
SigchldBlocked ==
    main \in {"fork", "addjob"} =>
        /\ "CHLD" \in mask
        /\ ~Active("CHLD")
        /\ \A s \in Handled : Active(s) => "CHLD" \in frame[s].restore

(* waitfg tests and falls asleep with every signal blocked; a handler that  *)
(* interrupts sigsuspend gives control back in that state.                  *)
WaitBlocked ==
    /\ main \in {"waittest", "suspend"} =>
          IF ctx = "main" THEN mask = AllSignals
          ELSE /\ main = "waittest"
               /\ \A s \in Handled : On(s, "main") => frame[s].restore = AllSignals
    /\ main = "suspended" => ctx = "main"
    /\ main \in {"suspend", "suspended"} => fgpid(jobs) # 0

(* The table, with the child that eval is about to list and the one that    *)
(* sigchld_handler is about to delete.                                      *)
TableOK ==
    /\ PidsUnique
    /\ TableMatchesChildren
    /\ main = "addjob" => pid \in Pids /\ pid \notin Tracked(jobs) /\ proc[pid] # "none"
    /\ \A p \in Pids : Reaped(p) => proc[p] = "none"

Inv == TypeOK /\ FramesOK /\ StackOK /\ SigchldBlocked /\ WaitBlocked /\ TableOK

-----------------------------------------------------------------------------
(* A property that a comment states and the code does not have.             *)

(* At most one job is in the FG state (comment on the job states).          *)
ForegroundJob(i) == jobs[i].pid # 0 /\ jobs[i].state = "FG"
OneForegroundJob == \A i, j \in Slots : ForegroundJob(i) /\ ForegroundJob(j) => i = j
=============================================================================
