----------------------------- MODULE TshProofs -----------------------------
(***************************************************************************)
(* Safety of the tiny shell, for every number of slots, every set of        *)
(* process ids, every set of command lines and every choice of the signals  *)
(* that arrive.  Each conjunct of Inv is preserved given the ones before    *)
(* it.                                                                      *)
(***************************************************************************)
EXTENDS Tsh, NatProofs

-----------------------------------------------------------------------------
(* The job list: what its helper routines return.                          *)

(* The job ids of a table have an upper bound: take the least n such that   *)
(* the slots below n have none.                                             *)
LEMMA JidBounded ==
    ASSUME NEW tbl \in JobTable
    PROVE  \E b \in Nat : \A i \in Slots : tbl[i].jid <= b
<1> DEFINE Bounded(n) == \E b \in Nat : \A i \in 0 .. n - 1 : tbl[i].jid <= b
           Bad == {n \in 0 .. MAXJOBS : ~Bounded(n)}
<1>1. SUFFICES ASSUME Bad # {} PROVE FALSE
  <2>1. MAXJOBS \in 0 .. MAXJOBS
    BY MAXJOBSAssumption
  <2>2. Bad = {} => Bounded(MAXJOBS)
    BY <2>1
  <2> QED
    BY <2>2 DEF Slots
<1>2. PICK n \in Bad : \A m \in Bad : n <= m
  <2>1. Bad \in SUBSET Nat
    BY MAXJOBSAssumption
  <2> HIDE DEF Bad
  <2> QED
    BY <1>1, <2>1, NatMin
<1>3. n # 0
  BY DEF Slots
<1>4. n \in 1 .. MAXJOBS /\ n - 1 \in 0 .. MAXJOBS /\ n - 1 \notin Bad
  <2>1. n \in 0 .. MAXJOBS
    OBVIOUS
  <2>2. n \in 1 .. MAXJOBS /\ n - 1 \in 0 .. MAXJOBS /\ ~(n <= n - 1)
    BY <2>1, <1>3, MAXJOBSAssumption
  <2> HIDE DEF Bad
  <2> QED
    BY <1>2, <2>2
<1>5. PICK b \in Nat : \A i \in 0 .. n - 2 : tbl[i].jid <= b
  BY <1>4, MAXJOBSAssumption
<1>6. tbl[n - 1].jid \in Nat
  BY <1>3, MAXJOBSAssumption DEF JobTable, Slots, Job
<1> DEFINE c == IF b >= tbl[n - 1].jid THEN b ELSE tbl[n - 1].jid
<1>7. \A i \in 0 .. n - 1 : tbl[i].jid <= c
  <2> SUFFICES ASSUME NEW i \in 0 .. n - 1 PROVE tbl[i].jid <= c
    OBVIOUS
  <2>1. i \in Slots /\ tbl[i].jid \in Nat
    BY MAXJOBSAssumption DEF JobTable, Slots, Job
  <2>2. CASE i = n - 1
    BY <1>6, <2>2
  <2>3. CASE i # n - 1
    <3>1. i \in 0 .. n - 2
      BY <2>3, <1>3
    <3> QED
      BY <1>5, <1>6, <2>1, <3>1
  <2> QED
    BY <2>2, <2>3
<1> QED
  BY <1>2, <1>6, <1>7

(* maxjid returns the largest job id of the table, 0 if there is none.      *)
LEMMA MaxjidBounds ==
    ASSUME NEW tbl \in JobTable
    PROVE  maxjid(tbl) \in Nat /\ \A i \in Slots : tbl[i].jid <= maxjid(tbl)
<1> DEFINE S == {0} \cup {tbl[i].jid : i \in Slots}
           Upper == {b \in Nat : \A x \in S : x <= b}
<1>1. S \subseteq Nat /\ 0 \in S
  BY DEF JobTable, Job
<1>2. Upper \in SUBSET Nat /\ Upper # {}
  BY JidBounded
<1>3. PICK m \in Upper : \A b \in Upper : m <= b
  <2> HIDE DEF Upper
  <2> QED
    BY <1>2, NatMin
<1>4. m \in S
  <2> SUFFICES ASSUME m \notin S PROVE FALSE
    OBVIOUS
  <2>1. m \in Nat /\ m # 0 /\ \A x \in S : x <= m /\ x # m
    BY <1>1
  <2>2. m - 1 \in Nat /\ \A x \in S : x <= m - 1
    BY <2>1, <1>1
  <2> QED
    BY <1>3, <2>1, <2>2
<1>5. maxjid(tbl) \in S /\ \A x \in S : x <= maxjid(tbl)
  <2>1. \E x \in S : \A y \in S : x >= y
    BY <1>1, <1>4
  <2>2. maxjid(tbl) = CHOOSE x \in S : \A y \in S : x >= y
    BY DEF maxjid, Max
  <2> HIDE DEF S
  <2>3. maxjid(tbl) \in S /\ \A y \in S : maxjid(tbl) >= y
    BY <2>1, <2>2
  <2> QED
    BY <1>1, <2>3
<1> QED
  BY <1>1, <1>5

(* The first slot with a given pid, or in a given state, is such a slot.    *)
LEMMA FirstSlot ==
    ASSUME NEW S \in SUBSET Slots, S # {}
    PROVE  Min(S) \in S /\ Min(S) \in Slots
<1>1. S \in SUBSET Nat
  BY DEF Slots
<1> QED
  BY <1>1, NatMin

(* addjob keeps the table well formed; it adds p and nothing else, and it   *)
(* does add p if there is a free slot.                                      *)
LEMMA AddjobEffect ==
    ASSUME NEW tbl \in JobTable, NEW next \in Nat, NEW p \in Pids,
           NEW st \in States
    PROVE  /\ addjob(tbl, next, p, st) \in JobTable
           /\ addjobNext(tbl, next) \in Nat
           /\ Tracked(tbl) \subseteq Tracked(addjob(tbl, next, p, st))
           /\ Tracked(addjob(tbl, next, p, st)) \subseteq Tracked(tbl) \cup {p}
           /\ SlotsWithPid(tbl, 0) # {} => p \in Tracked(addjob(tbl, next, p, st))
           /\ DistinctPids(tbl) /\ p \notin Tracked(tbl)
                => DistinctPids(addjob(tbl, next, p, st))
<1> DEFINE free == SlotsWithPid(tbl, 0)
           new == addjob(tbl, next, p, st)
<1>1. addjobNext(tbl, next) \in Nat
  BY DEF addjobNext
<1>2. CASE free = {}
  BY <1>1, <1>2 DEF addjob
<1>3. CASE free # {}
  <2> DEFINE k == Min(free)
  <2>1. k \in Slots /\ tbl[k].pid = 0
    BY <1>3, FirstSlot DEF SlotsWithPid
  <2>2. new = [tbl EXCEPT ![k] = [pid |-> p, jid |-> next, state |-> st]]
    BY <1>3 DEF addjob
  <2>3. new \in JobTable
    BY <2>1, <2>2 DEF JobTable, Job
  <2>4. \A i \in Slots : new[i].pid = IF i = k THEN p ELSE tbl[i].pid
    BY <2>1, <2>2 DEF JobTable, Job
  <2>5. p # 0
    BY PidsAssumption
  <2> HIDE DEF k, new
  <2>6. Tracked(tbl) \subseteq Tracked(new) /\ Tracked(new) \subseteq Tracked(tbl) \cup {p}
    BY <2>1, <2>4 DEF Tracked
  <2>7. p \in Tracked(new)
    BY <2>1, <2>4, <2>5 DEF Tracked
  <2>8. DistinctPids(tbl) /\ p \notin Tracked(tbl) => DistinctPids(new)
    BY <2>4, <2>5 DEF DistinctPids, Tracked
  <2> QED
    BY <1>1, <2>3, <2>6, <2>7, <2>8 DEF new
<1> QED
  BY <1>2, <1>3

(* deletejob keeps the table well formed and removes p and nothing else.    *)
LEMMA DeletejobEffect ==
    ASSUME NEW tbl \in JobTable, NEW next \in Nat, NEW p \in Pids
    PROVE  /\ deletejob(tbl, p) \in JobTable
           /\ deletejobNext(tbl, next, p) \in Nat
           /\ DistinctPids(tbl) =>
                 /\ Tracked(deletejob(tbl, p)) = Tracked(tbl) \ {p}
                 /\ DistinctPids(deletejob(tbl, p))
<1> DEFINE found == SlotsWithPid(tbl, p)
           new == deletejob(tbl, p)
<1>1. CASE found = {}
  <2>1. new = tbl /\ deletejobNext(tbl, next, p) = next
    BY <1>1 DEF deletejob, deletejobNext
  <2>2. p \notin Tracked(tbl)
    BY <1>1 DEF Tracked, SlotsWithPid
  <2> QED
    BY <2>1, <2>2
<1>2. CASE found # {}
  <2> DEFINE k == Min(found)
  <2>1. k \in Slots /\ tbl[k].pid = p
    BY <1>2, FirstSlot DEF SlotsWithPid
  <2>2. new = [tbl EXCEPT ![k] = clearjob]
    BY <1>2 DEF deletejob
  <2>3. new \in JobTable
    BY <2>1, <2>2 DEF JobTable, Job, clearjob, States
  <2>4. \A i \in Slots : new[i].pid = IF i = k THEN 0 ELSE tbl[i].pid
    BY <2>1, <2>2 DEF JobTable, Job, clearjob
  <2>5. deletejobNext(tbl, next, p) \in Nat
    BY <1>2, <2>3, MaxjidBounds DEF deletejobNext
  <2>6. p # 0
    BY PidsAssumption
  <2> HIDE DEF k, new
  <2>7. DistinctPids(tbl) => Tracked(new) = Tracked(tbl) \ {p}
    BY <2>1, <2>4, <2>6 DEF Tracked, DistinctPids
  <2>8. DistinctPids(tbl) => DistinctPids(new)
    BY <2>4 DEF DistinctPids
  <2> QED
    BY <2>3, <2>5, <2>7, <2>8 DEF new
<1> QED
  BY <1>1, <1>2

(* Writing the state of a slot changes no pid.                              *)
LEMMA SetStateEffect ==
    ASSUME NEW tbl \in JobTable, NEW i \in Slots, NEW st \in States
    PROVE  LET new == [tbl EXCEPT ![i].state = st] IN
           /\ new \in JobTable
           /\ Tracked(new) = Tracked(tbl)
           /\ DistinctPids(tbl) => DistinctPids(new)
<1> DEFINE new == [tbl EXCEPT ![i].state = st]
<1>1. new \in JobTable /\ \A j \in Slots : new[j].pid = tbl[j].pid
  BY DEF JobTable, Job
<1> HIDE DEF new
<1>2. Tracked(new) = Tracked(tbl) /\ (DistinctPids(tbl) => DistinctPids(new))
  BY <1>1 DEF Tracked, DistinctPids
<1> QED
  BY <1>1, <1>2 DEF new

(* The lookups return a slot or None, and fgpid a pid or 0.                 *)
LEMMA LookupType ==
    ASSUME NEW tbl \in JobTable
    PROVE  /\ fgpid(tbl) \in Pids \cup {0}
           /\ \A p \in Pids : getjobpid(tbl, p) \in Slots \cup {None}
           /\ \A j \in Nat : getjobjid(tbl, j) \in Slots \cup {None}
<1>1. fgpid(tbl) \in Pids \cup {0}
  <2>1. SlotsInFG(tbl) # {} => Min(SlotsInFG(tbl)) \in Slots
    BY FirstSlot DEF SlotsInFG
  <2> QED
    BY <2>1 DEF fgpid, JobTable, Job
<1>2. ASSUME NEW p \in Pids PROVE getjobpid(tbl, p) \in Slots \cup {None}
  BY FirstSlot DEF getjobpid, SlotsWithPid
<1>3. ASSUME NEW j \in Nat PROVE getjobjid(tbl, j) \in Slots \cup {None}
  BY FirstSlot DEF getjobjid, SlotsWithJid
<1> QED
  BY <1>1, <1>2, <1>3

(* With a slot for every process id, a process that is not listed finds a   *)
(* free slot: otherwise MAXJOBS slots would hold MAXJOBS distinct pids that *)
(* all differ from p.                                                       *)
LEMMA RoomForOneMore ==
    ASSUME Cardinality(Pids) <= MAXJOBS,
           NEW tbl \in JobTable, DistinctPids(tbl),
           NEW p \in Pids, p \notin Tracked(tbl)
    PROVE  SlotsWithPid(tbl, 0) # {}
<1> SUFFICES ASSUME SlotsWithPid(tbl, 0) = {} PROVE FALSE
  OBVIOUS
<1> DEFINE f == [i \in Slots |-> tbl[i].pid]
           Others == Pids \ {p}
<1>1. f \in [Slots -> Others]
  BY DEF SlotsWithPid, Tracked, JobTable, Job
<1>2. IsFiniteSet(Slots) /\ Cardinality(Slots) = MAXJOBS
  BY FS_Interval, MAXJOBSAssumption DEF Slots
<1>3. IsFiniteSet(Others) /\ Cardinality(Others) = Cardinality(Pids) - 1
  BY FS_RemoveElement, PidsAssumption
<1>4. Cardinality(Pids) \in Nat
  BY FS_CardinalityType, PidsAssumption
<1>5. Cardinality(Others) < Cardinality(Slots)
  BY <1>2, <1>3, <1>4, MAXJOBSAssumption
<1>6. PICK i, j \in Slots : i # j /\ f[i] = f[j]
  <2> HIDE DEF f, Others
  <2> QED
    BY <1>1, <1>2, <1>3, <1>5, FS_PigeonHole
<1> QED
  BY <1>6 DEF DistinctPids, SlotsWithPid

(* A table without a free slot lists MAXJOBS processes.                     *)
LEMMA FullTable ==
    ASSUME NEW tbl \in JobTable, DistinctPids(tbl), SlotsWithPid(tbl, 0) = {}
    PROVE  Cardinality(Tracked(tbl)) = MAXJOBS
<1> DEFINE f == [i \in Slots |-> tbl[i].pid]
           listed == Tracked(tbl)
<1>1. IsFiniteSet(Slots) /\ Cardinality(Slots) = MAXJOBS
  BY FS_Interval, MAXJOBSAssumption DEF Slots
<1>2. /\ f \in [Slots -> listed]
      /\ \A i, j \in Slots : f[i] = f[j] => i = j
      /\ \A p \in listed : \E i \in Slots : f[i] = p
  BY DEF SlotsWithPid, Tracked, DistinctPids
<1> HIDE DEF f, listed
<1>3. f \in Bijection(Slots, listed)
  BY <1>2 DEF Bijection, Injection, Surjection, IsInjective
<1>4. ExistsBijection(Slots, listed)
  BY <1>3 DEF ExistsBijection
<1> QED BY <1>1, <1>4, FS_Bijection DEF listed

-----------------------------------------------------------------------------
(* Types.                                                                   *)

LEMMA TypeInit == Init => TypeOK /\ FramesOK
<1> SUFFICES ASSUME Init PROVE TypeOK /\ FramesOK
  OBVIOUS
<1>1. jobs \in JobTable /\ slot \in Slots
  BY MAXJOBSAssumption
     DEF Init, initjobs, clearjob, JobTable, Job, States, Slots
<1>2. line \in Line
  BY DEF Init, NoLine, Line, Commands, Arg
<1>3. frame \in [Handled -> Frame] /\ FramesOK
  BY DEF Init, Idle, Frame, FramesOK, Handled, Contexts
<1> QED
  BY <1>1, <1>2, <1>3 DEF Init, TypeOK, MainPCs, Contexts, ProcStates

LEMMA TypeMain ==
    ASSUME Inv,
           (\E l \in Lines : Read(l)) \/ EndOfFile \/ MainStep
    PROVE  TypeOK' /\ FramesOK'
<1> USE DEF Inv, TypeOK, table, program, kernel
<1>1. FramesOK'
  BY DEF FramesOK, Read, EndOfFile, MainStep, Eval, BlockChld, Fork, ForkFails,
         AddJob, RefuseArgument, LookupJob, LoadPid, KillCont, KillFails,
         SetState, WaitBlock, WaitTest, Suspend
<1> SUFFICES TypeOK'
  BY <1>1
<1>2. ASSUME NEW l \in Lines, Read(l) PROVE TypeOK'
  BY <1>2, TshAssumption DEF Read, MainPCs
<1>3. CASE EndOfFile
  BY <1>3 DEF EndOfFile, MainPCs, Halts
<1>4. CASE Eval
  BY <1>4 DEF Eval, builtin_cmd, MainPCs, Halts, Line, Commands
<1>5. CASE BlockChld
  BY <1>5 DEF BlockChld, MainPCs, AllSignals, Handled
<1>6. ASSUME NEW p \in Pids, Fork(p) PROVE TypeOK'
  BY <1>6 DEF Fork, MainPCs, ProcStates
<1>7. CASE ForkFails
  BY <1>7 DEF ForkFails, MainPCs
<1>8. CASE AddJob
  <2>1. jobs' \in JobTable /\ nextjid' \in Nat
    BY <1>8, AddjobEffect DEF AddJob, States, At, TableOK
  <2> QED
    BY <1>8, <2>1 DEF AddJob, MainPCs
<1>9. CASE RefuseArgument
  BY <1>9 DEF RefuseArgument, MainPCs, Halts
<1>10. CASE LookupJob
  BY <1>10, LookupType DEF LookupJob, MainPCs, Found, Line, Arg
<1>11. CASE LoadPid
  BY <1>11 DEF LoadPid, MainPCs, JobTable, Job
<1>12. CASE KillCont
  BY <1>12 DEF KillCont, MainPCs, ProcStates
<1>13. CASE KillFails
  BY <1>13 DEF KillFails, MainPCs
<1>14. CASE SetState
  BY <1>14, SetStateEffect DEF SetState, MainPCs, States
<1>15. CASE WaitBlock
  BY <1>15 DEF WaitBlock, MainPCs
<1>16. CASE WaitTest
  BY <1>16 DEF WaitTest, MainPCs
<1>17. CASE Suspend
  BY <1>17 DEF Suspend, MainPCs
<1> QED
  BY <1>1, <1>2, <1>3, <1>4, <1>5, <1>6, <1>7, <1>8, <1>9, <1>10, <1>11, <1>12,
     <1>13, <1>14, <1>15, <1>16, <1>17 DEF MainStep

LEMMA TypeSignals ==
    ASSUME Inv,
           \/ \E s \in Handled : Deliver(s) \/ HandlerStep(s)
           \/ Quit
    PROVE  TypeOK' /\ FramesOK'
<1> USE DEF Inv, TypeOK, table, program, kernel
<1>1. ASSUME NEW s \in Handled, Deliver(s) PROVE TypeOK' /\ FramesOK'
  <2> DEFINE f == [pc |-> IF s = "CHLD" THEN "wait" ELSE "find", pid |-> 0,
                   status |-> "none", under |-> ctx,
                   restore |-> IF At("suspended") THEN AllSignals ELSE mask]
  <2>1. f \in Frame
    BY DEF Frame
  <2>2. frame' = [frame EXCEPT ![s] = f] /\ frame' \in [Handled -> Frame]
    BY <1>1, <2>1 DEF Deliver
  <2>3. FramesOK'
    BY <2>2 DEF FramesOK, Handled
  <2>4. mask' \in SUBSET AllSignals /\ ctx' \in Contexts
    BY <1>1 DEF Deliver, AllSignals, Contexts
  <2>5. main' \in MainPCs /\ chld' \in BOOLEAN
    BY <1>1 DEF Deliver, MainPCs
  <2> QED
    BY <1>1, <2>2, <2>3, <2>4, <2>5 DEF Deliver
<1>2. ASSUME NEW s \in Handled, Return(s)
      PROVE  frame' \in [Handled -> Frame] /\ mask' \in SUBSET AllSignals
               /\ ctx' \in Contexts /\ FramesOK'
  <2>1. Idle \in Frame
    BY DEF Idle, Frame, Contexts
  <2>2. frame[s] \in Frame
    OBVIOUS
  <2> QED
    BY <1>2, <2>1, <2>2 DEF Return, Frame, FramesOK, Idle, Handled
<1>3. ASSUME NEW p \in Pids, WaitPid(p) PROVE TypeOK' /\ FramesOK'
  <2> DEFINE f == [frame["CHLD"] EXCEPT !.pc = "update", !.pid = p,
                     !.status = IF proc[p] = "zombie" THEN "dead" ELSE "stopped"]
  <2>0. frame' = [frame EXCEPT !["CHLD"] = f] /\ f \in Frame
    BY <1>3 DEF WaitPid, Frame, Handled
  <2>1. frame' \in [Handled -> Frame] /\ FramesOK'
    BY <2>0 DEF FramesOK, Handled, Frame
  <2> QED
    BY <1>3, <2>1 DEF WaitPid, ProcStates
<1>4. CASE UpdateJob
  <2>1. frame["CHLD"].pid \in Pids
    BY <1>4 DEF UpdateJob, InHandler, FramesOK
  <2>2. jobs' \in JobTable /\ nextjid' \in Nat
    <3>1. CASE frame["CHLD"].status = "dead"
      BY <1>4, <2>1, <3>1, DeletejobEffect DEF UpdateJob
    <3>2. CASE frame["CHLD"].status # "dead"
      BY <1>4, <2>1, <3>2, SetStateEffect, LookupType DEF UpdateJob, States
    <3> QED
      BY <3>1, <3>2
  <2> DEFINE f == [frame["CHLD"] EXCEPT !.pc = "wait", !.pid = 0, !.status = "none"]
  <2>0. frame' = [frame EXCEPT !["CHLD"] = f] /\ f \in Frame
    BY <1>4 DEF UpdateJob, Frame, Handled
  <2>3. frame' \in [Handled -> Frame] /\ FramesOK'
    BY <2>0 DEF FramesOK, Handled, Frame
  <2> QED
    BY <1>4, <2>2, <2>3 DEF UpdateJob
<1>5. CASE WaitPidNone
  BY <1>2, <1>5 DEF WaitPidNone, Handled
<1>6. ASSUME NEW s \in {"INT", "TSTP"}, FindForeground(s) PROVE TypeOK' /\ FramesOK'
  <2>1. CASE fgpid(jobs) = 0
    BY <1>2, <1>6, <2>1 DEF FindForeground, Handled
  <2>2. CASE fgpid(jobs) # 0
    <3>1. fgpid(jobs) \in Pids
      BY <2>2, LookupType
    <3> DEFINE f == [frame[s] EXCEPT !.pc = "send", !.pid = fgpid(jobs)]
    <3>2. frame' = [frame EXCEPT ![s] = f] /\ f \in Frame
      BY <1>6, <2>2, <3>1 DEF FindForeground, Frame, Handled
    <3>3. frame' \in [Handled -> Frame] /\ FramesOK'
      BY <3>1, <3>2 DEF FramesOK, Handled, Frame
    <3> QED
      BY <1>6, <2>2, <3>3 DEF FindForeground
  <2> QED
    BY <2>1, <2>2
<1>7. ASSUME NEW s \in {"INT", "TSTP"}, Forward(s) PROVE TypeOK' /\ FramesOK'
  <2>1. stopreq' \in SUBSET Pids
    BY <1>7 DEF Forward, InHandler, FramesOK
  <2> QED
    BY <1>2, <1>7, <2>1 DEF Forward, Handled
<1>8. ASSUME NEW s \in {"INT", "TSTP"}, ForwardFails(s) PROVE TypeOK' /\ FramesOK'
  BY <1>8 DEF ForwardFails, MainPCs, Halts, FramesOK
<1>9. CASE Quit
  BY <1>9 DEF Quit, MainPCs, Halts, FramesOK
<1> QED
  BY <1>1, <1>3, <1>4, <1>5, <1>6, <1>7, <1>8, <1>9 DEF HandlerStep, Handled

LEMMA TypeChildren ==
    ASSUME Inv, \E p \in Pids : JoinGroup(p) \/ Exit(p) \/ Stop(p)
    PROVE  TypeOK' /\ FramesOK'
BY DEF Inv, TypeOK, FramesOK, table, program, kernel, JoinGroup, Exit, Stop, ProcStates

LEMMA TypeStep == ASSUME Inv, [Next]_vars PROVE TypeOK' /\ FramesOK'
<1>1. CASE UNCHANGED vars
  BY <1>1 DEF Inv, TypeOK, FramesOK, vars
<1> QED
  BY <1>1, TypeMain, TypeSignals, TypeChildren DEF Next, Halted

-----------------------------------------------------------------------------
(* The stack of handler frames.                                             *)

(* What StackOK says when the main program runs, and when it does not.      *)
LEMMA StackTop ==
    ASSUME Inv
    PROVE  /\ ctx = "main" <=> OnlyActive({})
           /\ ctx # "main" => ctx \in Handled /\ Active(ctx)
           /\ \A s \in Handled : Active(s) => s \in mask
BY DEF Inv, StackOK, On, OnlyActive, Handled

(* The main program and the children leave the frames alone.                *)
LEMMA StackKept ==
    ASSUME Inv, ctx' = ctx, frame' = frame, mask' = mask \/ ctx = "main"
    PROVE  StackOK'
<1>1. CASE ctx = "main"
  BY <1>1, StackTop DEF Inv, StackOK, OnlyActive, Active
<1>2. CASE ctx # "main"
  BY <1>2 DEF Inv, StackOK, On, OnlyActive, Active
<1> QED
  BY <1>1, <1>2

(* A handler moves on in its own frame.                                     *)
LEMMA StackMoves ==
    ASSUME Inv, NEW s \in Handled, Active(s), Active(s)',
           ctx' = ctx, mask' = mask,
           \A t \in Handled \ {s} : frame'[t] = frame[t],
           frame'[s].under = frame[s].under, frame'[s].restore = frame[s].restore
    PROVE  StackOK'
<1>1. \A t \in Handled : /\ Active(t)' <=> Active(t)
                         /\ frame'[t].under = frame[t].under
                         /\ frame'[t].restore = frame[t].restore
  BY DEF Active
<1> HIDE DEF Active
<1> QED
  BY <1>1 DEF Inv, StackOK, On, OnlyActive

LEMMA StackDeliver ==
    ASSUME Inv, NEW s \in Handled, Deliver(s)
    PROVE  StackOK'
<1> DEFINE r == IF At("suspended") THEN AllSignals ELSE mask
<1>1. /\ ~Active(s) /\ Active(s)'
      /\ frame'[s].under = ctx /\ frame'[s].restore = r
      /\ \A t \in Handled \ {s} : frame'[t] = frame[t]
      /\ mask' = mask \cup {s} /\ ctx' = s
  BY StackTop DEF Deliver, Active, Inv, TypeOK
<1>2. \A t \in Handled : Active(t) => t \in r
  BY StackTop DEF AllSignals
<1>3. \A t \in Handled \ {s} : /\ Active(t)' <=> Active(t)
                               /\ \A u : On(t, u) => On(t, u)'
  BY <1>1 DEF Active, On
<1>4. \A u : u = ctx => On(s, u)'
  BY <1>1 DEF On
<1> HIDE DEF r
<1>5. CASE ctx = "main"
  <2>1. OnlyActive({s})'
    BY <1>3, <1>5, StackTop DEF OnlyActive
  <2> QED
    BY <1>1, <1>4, <1>5, <2>1 DEF StackOK, On
<1>6. ASSUME NEW a \in Handled, ctx = a, On(a, "main"), OnlyActive({a})
      PROVE  StackOK'
  <2>1. a # s /\ OnlyActive({a, s})' /\ a \in frame'[s].restore
    BY <1>1, <1>2, <1>3, <1>6 DEF OnlyActive, On
  <2> QED
    BY <1>1, <1>3, <1>6, <2>1 DEF StackOK, On
<1>7. ASSUME NEW a \in Handled, NEW b \in Handled,
             a # b, ctx = b, On(a, "main"), On(b, a), OnlyActive({a, b}),
             a \in frame[b].restore
      PROVE  StackOK'
  <2>1. a # s /\ b # s /\ {a, b} \subseteq frame'[s].restore
    BY <1>1, <1>2, <1>7 DEF On
  <2>2. frame'[b].restore = frame[b].restore
    BY <1>1, <2>1
  <2> QED
    BY <1>1, <1>3, <1>7, <2>1, <2>2 DEF StackOK, On
<1>8. ASSUME NEW a \in Handled, NEW b \in Handled, NEW c \in Handled,
             a # b, a # c, b # c, On(a, "main"), On(b, a), On(c, b)
      PROVE  FALSE
  BY <1>1, <1>8 DEF Handled, On
<1> QED
  BY <1>5, <1>6, <1>7, <1>8 DEF Inv, StackOK

LEMMA StackReturn ==
    ASSUME Inv, NEW s \in Handled, ctx = s, Active(s), Return(s)
    PROVE  StackOK'
<1>1. /\ ~Active(s)'
      /\ \A t \in Handled \ {s} : frame'[t] = frame[t] /\ (Active(t)' <=> Active(t))
      /\ mask' = frame[s].restore /\ ctx' = frame[s].under
  BY DEF Return, Active, Idle, Inv, TypeOK
<1>2. ctx # "main"
  BY DEF Handled
<1>3. ASSUME NEW a \in Handled, ctx = a, On(a, "main"), OnlyActive({a})
      PROVE  StackOK'
  BY <1>1, <1>3 DEF StackOK, On, OnlyActive
<1>4. ASSUME NEW a \in Handled, NEW b \in Handled,
             a # b, ctx = b, On(a, "main"), On(b, a), OnlyActive({a, b}),
             a \in frame[b].restore
      PROVE  StackOK'
  <2>1. ctx' = a /\ On(a, "main")'
    BY <1>1, <1>4 DEF On
  <2>2. OnlyActive({a})'
    BY <1>1, <1>4 DEF OnlyActive
  <2> QED
    BY <2>1, <2>2 DEF StackOK
<1>5. ASSUME NEW a \in Handled, NEW b \in Handled, NEW c \in Handled,
             a # b, a # c, b # c, ctx = c,
             On(a, "main"), On(b, a), On(c, b),
             a \in frame[b].restore, {a, b} \subseteq frame[c].restore
      PROVE  StackOK'
  <2>1. ctx' = b /\ On(a, "main")' /\ On(b, a)'
    BY <1>1, <1>5 DEF On
  <2>2. OnlyActive({a, b})'
    BY <1>1, <1>5 DEF OnlyActive, Handled
  <2>3. a \in frame'[b].restore
    BY <1>1, <1>5
  <2> QED
    BY <1>5, <2>1, <2>2, <2>3 DEF StackOK
<1> QED
  BY <1>2, <1>3, <1>4, <1>5 DEF Inv, StackOK

(* Every handler step is a step of the top frame: it stays in the frame or  *)
(* returns from it, or the shell dies.                                      *)
Moves(s) ==
    /\ Active(s)' /\ ctx' = ctx /\ mask' = mask
    /\ \A t \in Handled \ {s} : frame'[t] = frame[t]
    /\ frame'[s].under = frame[s].under /\ frame'[s].restore = frame[s].restore

LEMMA HandlerShape ==
    ASSUME Inv, NEW s \in Handled, HandlerStep(s)
    PROVE  /\ ctx = s /\ ctx # "main" /\ Active(s)
           /\ \/ main' = main /\ (Return(s) \/ Moves(s))
              \/ main' = "unix_error" /\ UNCHANGED <<jobs, ctx, frame, mask>>
<1> USE DEF Inv, TypeOK, program, table, kernel
<1>1. ctx # "main" <=> ctx \in Handled
  BY DEF Contexts, Handled
<1>2. ASSUME NEW p \in Pids, s = "CHLD", WaitPid(p)
      PROVE  ctx = s /\ Active(s) /\ main' = main /\ Moves(s)
  <2> DEFINE f == [frame["CHLD"] EXCEPT !.pc = "update", !.pid = p,
                     !.status = IF proc[p] = "zombie" THEN "dead" ELSE "stopped"]
  <2>1. /\ f.pc = "update" /\ f.under = frame["CHLD"].under
        /\ f.restore = frame["CHLD"].restore
    BY DEF Frame, Handled
  <2> HIDE DEF f
  <2>2. frame' = [frame EXCEPT !["CHLD"] = f]
    BY <1>2 DEF WaitPid, f
  <2> QED
    BY <1>2, <2>1, <2>2 DEF WaitPid, InHandler, Active, Moves
<1>3. ASSUME s = "CHLD", UpdateJob
      PROVE  ctx = s /\ Active(s) /\ main' = main /\ Moves(s)
  <2> DEFINE f == [frame["CHLD"] EXCEPT !.pc = "wait", !.pid = 0, !.status = "none"]
  <2>1. /\ f.pc = "wait" /\ f.under = frame["CHLD"].under
        /\ f.restore = frame["CHLD"].restore
    BY DEF Frame, Handled
  <2> HIDE DEF f
  <2>2. frame' = [frame EXCEPT !["CHLD"] = f]
    BY <1>3 DEF UpdateJob, f
  <2> QED
    BY <1>3, <2>1, <2>2 DEF UpdateJob, InHandler, Active, Moves
<1>4. ASSUME s = "CHLD", WaitPidNone
      PROVE  ctx = s /\ Active(s) /\ main' = main /\ Return(s)
  BY <1>4 DEF WaitPidNone, InHandler, Active
<1>5. ASSUME FindForeground(s)
      PROVE  ctx = s /\ Active(s) /\ main' = main /\ (Return(s) \/ Moves(s))
  <2>1. CASE fgpid(jobs) = 0
    BY <1>5, <2>1 DEF FindForeground, InHandler, Active
  <2>2. CASE fgpid(jobs) # 0
    <3> DEFINE f == [frame[s] EXCEPT !.pc = "send", !.pid = fgpid(jobs)]
    <3>1. /\ f.pc = "send" /\ f.under = frame[s].under
          /\ f.restore = frame[s].restore
      BY DEF Frame
    <3> HIDE DEF f
    <3>2. frame' = [frame EXCEPT ![s] = f]
      BY <1>5, <2>2 DEF FindForeground, f
    <3> QED
      BY <1>5, <2>2, <3>1, <3>2 DEF FindForeground, InHandler, Active, Moves
  <2> QED
    BY <2>1, <2>2
<1>6. ASSUME Forward(s)
      PROVE  ctx = s /\ Active(s) /\ main' = main /\ Return(s)
  BY <1>6 DEF Forward, InHandler, Active
<1>7. ASSUME ForwardFails(s)
      PROVE  /\ ctx = s /\ Active(s)
             /\ main' = "unix_error" /\ UNCHANGED <<jobs, ctx, frame, mask>>
  BY <1>7 DEF ForwardFails, InHandler, Active
<1> QED
  BY <1>1, <1>2, <1>3, <1>4, <1>5, <1>6, <1>7 DEF HandlerStep

LEMMA StackStep == ASSUME Inv, [Next]_vars PROVE StackOK'
<1> USE DEF vars, table, program, kernel
<1>1. CASE UNCHANGED vars
  BY <1>1, StackKept
<1>2. CASE (\E l \in Lines : Read(l)) \/ EndOfFile \/ MainStep \/ Quit
  BY <1>2, StackKept
     DEF Read, EndOfFile, MainStep, Eval, BlockChld, Fork, ForkFails, AddJob,
         RefuseArgument, LookupJob, LoadPid, KillCont, KillFails, SetState,
         WaitBlock, WaitTest, Suspend, Quit, At
<1>3. CASE \E p \in Pids : JoinGroup(p) \/ Exit(p) \/ Stop(p)
  BY <1>3, StackKept DEF JoinGroup, Exit, Stop
<1>4. ASSUME NEW s \in Handled, Deliver(s) PROVE StackOK'
  BY <1>4, StackDeliver
<1>5. ASSUME NEW s \in Handled, HandlerStep(s) PROVE StackOK'
  <2>1. CASE Return(s)
    BY <1>5, <2>1, HandlerShape, StackReturn
  <2>2. CASE Moves(s)
    BY <1>5, <2>2, HandlerShape, StackMoves DEF Moves
  <2>3. CASE UNCHANGED <<ctx, frame, mask>>
    BY <2>3, StackKept
  <2> QED
    BY <1>5, <2>1, <2>2, <2>3, HandlerShape
<1> QED
  BY <1>1, <1>2, <1>3, <1>4, <1>5 DEF Next, Halted

-----------------------------------------------------------------------------
(* Signals blocked around fork and addjob, and in waitfg.                   *)

LEMMA SigchldBlockedStep == ASSUME Inv, [Next]_vars PROVE SigchldBlocked'
<1> USE DEF vars, table, program, kernel
<1> SUFFICES ASSUME main' \in {"fork", "addjob"}
             PROVE  /\ "CHLD" \in mask' /\ ~Active("CHLD")'
                    /\ \A s \in Handled : Active(s)' => "CHLD" \in frame'[s].restore
  BY DEF SigchldBlocked
<1>1. CASE main' = main /\ frame' = frame /\ mask' = mask
  BY <1>1 DEF Inv, SigchldBlocked, Active
<1>2. CASE BlockChld
  BY <1>2, StackTop DEF BlockChld, At, OnlyActive, Active, Handled
<1>3. CASE \E p \in Pids : Fork(p)
  BY <1>3 DEF Fork, At, Inv, SigchldBlocked, Active
<1>4. CASE (\E l \in Lines : Read(l)) \/ EndOfFile \/ Quit
  BY <1>4 DEF Read, EndOfFile, Quit
<1>5. CASE MainStep /\ ~BlockChld /\ ~\E p \in Pids : Fork(p)
  BY <1>5 DEF MainStep, Eval, builtin_cmd, Inv, TypeOK, Line, Commands, ForkFails,
         AddJob, RefuseArgument, LookupJob, LoadPid, KillCont, KillFails,
         SetState, WaitBlock, WaitTest, Suspend
<1>6. CASE \E p \in Pids : JoinGroup(p) \/ Exit(p) \/ Stop(p)
  BY <1>1, <1>6 DEF JoinGroup, Exit, Stop
<1>7. ASSUME NEW s \in Handled, Deliver(s)
      PROVE  /\ "CHLD" \in mask' /\ ~Active("CHLD")'
             /\ \A t \in Handled : Active(t)' => "CHLD" \in frame'[t].restore
  <2>1. main' = main /\ ~At("suspended")
    BY <1>7 DEF Deliver
  <2>2. "CHLD" \in mask /\ s # "CHLD" /\ ~Active("CHLD")
    BY <1>7, <2>1 DEF Deliver, Inv, SigchldBlocked
  <2>3. /\ frame'[s].restore = mask /\ mask' = mask \cup {s}
        /\ \A t \in Handled \ {s} : frame'[t] = frame[t]
    BY <1>7, <2>1 DEF Deliver, Inv, TypeOK
  <2> QED
    BY <2>1, <2>2, <2>3 DEF Inv, SigchldBlocked, Active, Handled
<1>8. ASSUME NEW s \in Handled, HandlerStep(s)
      PROVE  /\ "CHLD" \in mask' /\ ~Active("CHLD")'
             /\ \A t \in Handled : Active(t)' => "CHLD" \in frame'[t].restore
  <2>1. main' = main /\ s # "CHLD" /\ "CHLD" \in frame[s].restore
    BY <1>8, HandlerShape DEF Inv, SigchldBlocked
  <2>2. CASE Return(s)
    BY <2>1, <2>2 DEF Return, Idle, Inv, SigchldBlocked, Active, TypeOK, Handled
  <2>3. CASE Moves(s)
    BY <2>1, <2>3 DEF Moves, Inv, SigchldBlocked, Active, Handled
  <2> QED
    BY <1>8, <2>1, <2>2, <2>3, HandlerShape
<1> QED
  BY <1>1, <1>2, <1>3, <1>4, <1>5, <1>6, <1>7, <1>8 DEF Next, Halted

LEMMA WaitBlockedStep == ASSUME Inv, [Next]_vars PROVE WaitBlocked'
<1> USE DEF vars, table, program, kernel
<1>1. CASE UNCHANGED <<main, jobs, ctx, frame, mask>>
  BY <1>1 DEF Inv, WaitBlocked, On, Active
<1>2. CASE WaitBlock
  BY <1>2 DEF WaitBlock, At, WaitBlocked
<1>3. CASE WaitTest
  BY <1>3 DEF WaitTest, At, Inv, WaitBlocked
<1>4. CASE Suspend
  BY <1>4 DEF Suspend, At, Inv, WaitBlocked
<1>5. CASE (\E l \in Lines : Read(l)) \/ EndOfFile \/ Quit
  BY <1>5 DEF Read, EndOfFile, Quit, WaitBlocked
<1>6. CASE MainStep /\ ~WaitBlock /\ ~WaitTest /\ ~Suspend
  BY <1>6 DEF MainStep, Eval, builtin_cmd, Inv, TypeOK, Line, Commands, BlockChld,
         Fork, ForkFails, AddJob, RefuseArgument, LookupJob, LoadPid, KillCont,
         KillFails, SetState, WaitBlocked
<1>7. CASE \E p \in Pids : JoinGroup(p) \/ Exit(p) \/ Stop(p)
  BY <1>1, <1>7 DEF JoinGroup, Exit, Stop
<1>8. ASSUME NEW s \in Handled, Deliver(s) PROVE WaitBlocked'
  <2>1. /\ frame'[s].under = ctx /\ s \notin mask /\ ctx' = s /\ s # "main"
        /\ \A t \in Handled \ {s} : frame'[t] = frame[t]
        /\ jobs' = jobs
    BY <1>8 DEF Deliver, Inv, TypeOK, Handled
  <2>2. \A t \in Handled \ {s} : On(t, "main")' => On(t, "main")
    BY <2>1, StackTop DEF On, Active
  <2>3. CASE At("suspended")
    <3>1. main' = "waittest" /\ frame'[s].restore = AllSignals
      BY <1>8, <2>3 DEF Deliver, Inv, TypeOK
    <3>2. \A t \in Handled \ {s} : ~On(t, "main")
      BY <2>3, StackTop DEF At, On, OnlyActive
    <3> QED
      BY <2>1, <2>2, <3>1, <3>2 DEF WaitBlocked
  <2>4. CASE ~At("suspended")
    <3>1. main' = main /\ main # "suspended"
      BY <1>8, <2>4 DEF Deliver, Inv, WaitBlocked, At
    <3>2. main \in {"waittest", "suspend"} => ctx # "main" /\ main = "waittest"
      BY <2>1 DEF Inv, WaitBlocked, AllSignals
    <3>3. main \in {"waittest", "suspend"} => ~On(s, "main")'
      BY <2>1, <3>2 DEF On
    <3> QED
      BY <2>1, <2>2, <3>1, <3>2, <3>3 DEF Inv, WaitBlocked
  <2> QED
    BY <2>3, <2>4
<1>9. ASSUME NEW s \in Handled, HandlerStep(s) PROVE WaitBlocked'
  <2>1. ctx = s /\ ctx # "main" /\ Active(s) /\ main # "suspended" /\ main # "suspend"
    BY <1>9, HandlerShape DEF Inv, WaitBlocked
  <2>2. CASE main' = main /\ Return(s)
    <3>1. \A t \in Handled : On(t, "main")' => On(t, "main") /\ frame'[t] = frame[t]
      BY <2>2, StackTop DEF Return, On, Active, Idle, Inv, TypeOK
    <3>2. main = "waittest" /\ ctx' = "main" => mask' = AllSignals
      BY <2>1, <2>2, StackTop DEF Return, On, Inv, WaitBlocked
    <3> QED
      BY <2>1, <2>2, <3>1, <3>2 DEF Inv, WaitBlocked
  <2>3. CASE main' = main /\ Moves(s)
    <3>1. \A t \in Handled : On(t, "main")' => On(t, "main") /\ frame'[t].restore = frame[t].restore
      BY <2>1, <2>3, StackTop DEF Moves, On, Active
    <3> QED
      BY <2>1, <2>3, <3>1 DEF Moves, Inv, WaitBlocked
  <2>4. CASE main' = "unix_error"
    BY <2>4 DEF WaitBlocked
  <2> QED
    BY <1>9, <2>2, <2>3, <2>4, HandlerShape
<1> QED
  BY <1>1, <1>2, <1>3, <1>4, <1>5, <1>6, <1>7, <1>8, <1>9 DEF Next, Halted

-----------------------------------------------------------------------------
(* The job table and the children.                                          *)

(* Steps that list nobody, delete nobody, start nobody and reap nobody.     *)
LEMMA TableKept ==
    ASSUME Inv,
           DistinctPids(jobs)', Tracked(jobs)' = Tracked(jobs),
           \A p \in Pids : /\ proc'[p] = "none" <=> proc[p] = "none"
                           /\ Reaped(p)' <=> Reaped(p),
           main' = "addjob" => main = "addjob",
           main \in {"addjob"} \cup Halts => main' \in {"addjob"} \cup Halts /\ pid' = pid
    PROVE  TableOK'
<1>1. Tracked(jobs) \subseteq Pids
  BY DEF Inv, TypeOK, Tracked, JobTable, Job
<1>2. TableMatchesChildren'
  BY <1>1 DEF Inv, TableOK, TableMatchesChildren
<1> QED
  BY <1>2 DEF Inv, TableOK, PidsUnique, Halts

(* While the main program runs, nobody is between reaped and deleted.       *)
LEMMA NobodyReaped ==
    ASSUME Inv, ~Active("CHLD") PROVE \A p : ~Reaped(p)
BY DEF Inv, FramesOK, Reaped, Active

LEMMA TableMain ==
    ASSUME Inv,
           (\E l \in Lines : Read(l)) \/ EndOfFile \/ Quit \/ MainStep
    PROVE  TableOK'
<1> USE DEF table, program, kernel
<1>1. frame' = frame /\ DistinctPids(jobs)
  BY DEF Read, EndOfFile, Quit, MainStep, Eval, BlockChld, Fork, ForkFails,
         AddJob, RefuseArgument, LookupJob, LoadPid, KillCont, KillFails, SetState,
         WaitBlock, WaitTest, Suspend, Inv, TableOK, PidsUnique
<1>2. \A p : Reaped(p)' <=> Reaped(p)
  BY <1>1 DEF Reaped
<1>3. ASSUME NEW p \in Pids, Fork(p) PROVE TableOK'
  <2>1. \A q \in Pids : ~Reaped(q)
    BY <1>3, StackTop, NobodyReaped DEF Fork, At, OnlyActive, Handled
  <2>2. p \notin Tracked(jobs)
    BY <1>3, <2>1 DEF Fork, Inv, TableOK, TableMatchesChildren
  <2>3. Tracked(jobs) \subseteq Pids
    BY DEF Inv, TypeOK, Tracked, JobTable, Job
  <2>4. /\ jobs' = jobs /\ main' = "addjob" /\ pid' = p
        /\ \A q \in Pids : proc'[q] = IF q = p THEN "forked" ELSE proc[q]
        /\ main = "fork"
    BY <1>3 DEF Fork, At, Inv, TypeOK
  <2>5. TableMatchesChildren'
    BY <1>2, <2>2, <2>3, <2>4 DEF Inv, TableOK, TableMatchesChildren, Halts
  <2> QED
    BY <1>2, <2>1, <2>2, <2>4, <2>5 DEF Inv, TableOK, PidsUnique
<1>4. CASE AddJob
  <2> DEFINE st == IF parseline(line) THEN "BG" ELSE "FG"
             new == addjob(jobs, nextjid, pid, st)
  <2>1. /\ main = "addjob" /\ jobs' = new /\ proc' = proc
        /\ main' \in {"read", "waitblock"}
    BY <1>4 DEF AddJob, At
  <2>2. pid \in Pids /\ pid \notin Tracked(jobs) /\ proc[pid] # "none"
    BY <2>1 DEF Inv, TableOK
  <2>3. /\ Tracked(jobs) \subseteq Tracked(new)
        /\ Tracked(new) \subseteq Tracked(jobs) \cup {pid}
        /\ SlotsWithPid(jobs, 0) # {} => pid \in Tracked(new)
        /\ DistinctPids(new)
    BY <1>1, <2>2, AddjobEffect DEF Inv, TypeOK, States
  <2>4. Cardinality(Pids) <= MAXJOBS => pid \in Tracked(new)
    BY <1>1, <2>2, <2>3, RoomForOneMore DEF Inv, TypeOK
  <2> HIDE DEF new
  <2>5. TableMatchesChildren'
    BY <1>2, <2>1, <2>2, <2>3, <2>4 DEF Inv, TableOK, TableMatchesChildren, Halts
  <2>6. \A q \in Pids : Reaped(q)' => proc'[q] = "none"
    BY <1>2, <2>1 DEF Inv, TableOK
  <2> QED
    BY <2>1, <2>3, <2>5, <2>6 DEF TableOK, PidsUnique
<1>5. CASE SetState
  <2>1. Tracked(jobs)' = Tracked(jobs) /\ DistinctPids(jobs)'
    BY <1>1, <1>5, SetStateEffect DEF SetState, Inv, TypeOK, States
  <2> QED
    BY <1>2, <1>5, <2>1, TableKept DEF SetState, At, Halts
<1>6. CASE KillCont
  <2>1. \A p \in Pids : proc'[p] = "none" <=> proc[p] = "none"
    BY <1>6 DEF KillCont, Inv, TypeOK
  <2> QED
    BY <1>1, <1>2, <1>6, <2>1, TableKept DEF KillCont, At, Halts
<1>7. CASE Quit \/ EndOfFile
  BY <1>1, <1>2, <1>7, TableKept DEF Quit, EndOfFile, At, Running, Halts
<1>8. CASE (\E l \in Lines : Read(l)) \/ Eval \/ BlockChld \/ ForkFails
           \/ RefuseArgument \/ LookupJob \/ LoadPid \/ KillFails \/ WaitBlock
           \/ WaitTest \/ Suspend
  <2>1. /\ jobs' = jobs /\ proc' = proc
        /\ main \notin {"addjob"} \cup Halts /\ main' # "addjob"
    BY <1>8 DEF Read, Eval, builtin_cmd, Inv, TypeOK, Line, Commands, BlockChld,
           ForkFails, RefuseArgument, LookupJob, LoadPid, KillFails, WaitBlock,
           WaitTest, Suspend, At, Halts
  <2> QED
    BY <1>1, <1>2, <2>1, TableKept
<1> QED
  BY <1>3, <1>4, <1>5, <1>6, <1>7, <1>8 DEF MainStep

LEMMA TableReap ==
    ASSUME Inv, NEW p \in Pids, WaitPid(p) PROVE TableOK'
<1> USE DEF table, program, kernel
<1>1. /\ Running /\ main' = main /\ pid' = pid /\ jobs' = jobs
      /\ Active("CHLD") /\ frame["CHLD"].pc = "wait"
      /\ proc[p] \in {"zombie", "stopped"}
      /\ \A q \in Pids : proc'[q] = IF q # p THEN proc[q]
                                    ELSE IF proc[p] = "zombie" THEN "none" ELSE "parked"
  BY DEF WaitPid, InHandler, Active, Reportable, Inv, TypeOK
<1>2. /\ frame'["CHLD"].pid = p
      /\ frame'["CHLD"].status = IF proc[p] = "zombie" THEN "dead" ELSE "stopped"
  BY DEF WaitPid, Inv, TypeOK, Frame, Handled
<1>3. \A q : ~Reaped(q)
  BY <1>1 DEF Inv, FramesOK, Reaped
<1>4. main \notin {"addjob"} \cup Halts
  BY <1>1 DEF Inv, SigchldBlocked, Running
<1>5. \A q : Reaped(q)' <=> q = p /\ proc[p] = "zombie"
  BY <1>2 DEF Reaped
<1>6. Tracked(jobs) \subseteq Pids
  BY DEF Inv, TypeOK, Tracked, JobTable, Job
<1>7. TableMatchesChildren'
  BY <1>1, <1>3, <1>4, <1>5, <1>6 DEF Inv, TableOK, TableMatchesChildren
<1> QED
  BY <1>1, <1>4, <1>5, <1>7 DEF Inv, TableOK, PidsUnique

LEMMA TableUpdate ==
    ASSUME Inv, UpdateJob PROVE TableOK'
<1> USE DEF table, program, kernel
<1> DEFINE p == frame["CHLD"].pid
<1>1. /\ Running /\ main' = main /\ pid' = pid /\ proc' = proc
      /\ Active("CHLD") /\ p \in Pids
  BY DEF UpdateJob, InHandler, Active, Inv, FramesOK
<1>2. \A q : ~Reaped(q)'
  BY DEF UpdateJob, Reaped, Inv, TypeOK, Frame, Handled
<1>3. main \notin {"addjob"} \cup Halts
  BY <1>1 DEF Inv, SigchldBlocked, Running
<1>4. Tracked(jobs) \subseteq Pids /\ DistinctPids(jobs)
  BY DEF Inv, TypeOK, Tracked, JobTable, Job, TableOK, PidsUnique
<1>5. CASE frame["CHLD"].status = "dead"
  <2>1. \A q : Reaped(q) <=> q = p
    BY <1>5 DEF Reaped
  <2>2. Tracked(jobs)' = Tracked(jobs) \ {p} /\ DistinctPids(jobs)'
    BY <1>1, <1>4, <1>5, DeletejobEffect DEF UpdateJob, Inv, TypeOK
  <2>3. proc[p] = "none"
    BY <1>1, <2>1 DEF Inv, TableOK
  <2> HIDE DEF p
  <2>4. TableMatchesChildren'
    BY <1>1, <1>2, <1>3, <1>4, <2>1, <2>2, <2>3 DEF Inv, TableOK, TableMatchesChildren
  <2> QED
    BY <1>1, <1>2, <1>3, <2>2, <2>4 DEF TableOK, PidsUnique
<1>6. CASE frame["CHLD"].status # "dead"
  <2>1. \A q : ~Reaped(q)
    BY <1>6 DEF Reaped
  <2> DEFINE i == getjobpid(jobs, p)
  <2>2. Tracked(jobs)' = Tracked(jobs) /\ DistinctPids(jobs)'
    <3>1. CASE i = None
      BY <1>4, <1>6, <3>1 DEF UpdateJob
    <3>2. CASE i # None
      <4>1. i \in Slots
        BY <1>1, <3>2, LookupType DEF Inv, TypeOK
      <4>2. jobs' = [jobs EXCEPT ![i].state = "ST"]
        BY <1>6, <3>2 DEF UpdateJob
      <4> QED
        BY <1>4, <4>1, <4>2, SetStateEffect DEF Inv, TypeOK, States
    <3> QED
      BY <3>1, <3>2
  <2> QED
    BY <1>1, <1>2, <1>3, <2>1, <2>2, TableKept
<1> QED
  BY <1>5, <1>6

LEMMA TableStep == ASSUME Inv, [Next]_vars PROVE TableOK'
<1> USE DEF table, program, kernel
<1>1. DistinctPids(jobs)
  BY DEF Inv, TableOK, PidsUnique
<1>2. CASE UNCHANGED vars
  BY <1>1, <1>2, TableKept DEF vars, Reaped
<1>3. CASE (\E l \in Lines : Read(l)) \/ EndOfFile \/ Quit \/ MainStep
  BY <1>3, TableMain
<1>4. ASSUME NEW s \in Handled, Deliver(s) PROVE TableOK'
  <2>1. \A p : Reaped(p)' <=> Reaped(p)
    <3>1. \/ frame'["CHLD"] = frame["CHLD"]
          \/ ~Active("CHLD") /\ frame'["CHLD"].status = "none"
      BY <1>4, StackTop DEF Deliver, Inv, TypeOK, Handled
    <3> QED
      BY <3>1, NobodyReaped DEF Reaped
  <2>2. /\ jobs' = jobs /\ proc' = proc /\ pid' = pid /\ Running
        /\ main' = main \/ (main = "suspended" /\ main' = "waittest")
    BY <1>4 DEF Deliver, At
  <2> QED
    BY <1>1, <2>1, <2>2, TableKept DEF Running, Halts
<1>5. ASSUME NEW s \in Handled, HandlerStep(s) PROVE TableOK'
  <2>1. ASSUME NEW p \in Pids, WaitPid(p) PROVE TableOK'
    BY <2>1, TableReap
  <2>2. CASE UpdateJob
    BY <2>2, TableUpdate
  <2>3. CASE WaitPidNone
    <3>1. \A p : Reaped(p)' <=> Reaped(p)
      BY <2>3 DEF WaitPidNone, InHandler, Return, Idle, Reaped, Inv, TypeOK,
                  FramesOK, Handled
    <3> QED
      BY <1>1, <2>3, <3>1, TableKept DEF WaitPidNone
  <2>4. CASE s # "CHLD" /\ (FindForeground(s) \/ Forward(s) \/ ForwardFails(s))
    <3>1. frame'["CHLD"] = frame["CHLD"]
      BY <2>4 DEF FindForeground, Forward, ForwardFails, Return, Inv, TypeOK, Handled
    <3>2. \A p : Reaped(p)' <=> Reaped(p)
      BY <3>1 DEF Reaped
    <3>3. /\ jobs' = jobs /\ proc' = proc /\ pid' = pid
          /\ main' = main \/ main' = "unix_error"
      BY <2>4 DEF FindForeground, Forward, ForwardFails
    <3> QED
      BY <1>1, <3>2, <3>3, TableKept DEF Halts
  <2> QED
    BY <1>5, <2>1, <2>2, <2>3, <2>4 DEF HandlerStep
<1>6. CASE \E p \in Pids : JoinGroup(p) \/ Exit(p) \/ Stop(p)
  <2>1. \A q \in Pids : proc'[q] = "none" <=> proc[q] = "none"
    BY <1>6 DEF JoinGroup, Exit, Stop, Inv, TypeOK
  <2> QED
    BY <1>1, <1>6, <2>1, TableKept DEF JoinGroup, Exit, Stop, Reaped
<1> QED
  BY <1>2, <1>3, <1>4, <1>5, <1>6 DEF Next, Halted, vars

-----------------------------------------------------------------------------
(* No SIGCHLD is lost.                                                      *)

LEMMA NoLostStep ==
    ASSUME Inv, NoLostSigchld, [Next]_vars PROVE NoLostSigchld'
<1> USE DEF vars, table, program, kernel
<1> SUFFICES ASSUME Running', NEW p \in Pids, Reportable(p)', ~chld'
             PROVE  Active("CHLD")'
  BY DEF NoLostSigchld, Active
<1>1. ASSUME chld' = chld, Reportable(p), frame'["CHLD"] = frame["CHLD"], Running
      PROVE  Active("CHLD")'
  BY <1>1 DEF NoLostSigchld, Active
<1>2. CASE UNCHANGED vars
  BY <1>1, <1>2 DEF Reportable, Running
<1>3. CASE (\E l \in Lines : Read(l)) \/ EndOfFile \/ Quit \/ MainStep
  <2>1. Running
    BY <1>3 DEF Read, EndOfFile, Quit, MainStep, Eval, BlockChld, Fork, ForkFails,
           AddJob, RefuseArgument, LookupJob, LoadPid, KillCont, KillFails, SetState,
           WaitBlock, WaitTest, Suspend, At, Running, Halts
  <2>2. CASE \E q \in Pids : Fork(q)
    BY <1>1, <2>1, <2>2 DEF Fork, Reportable, Inv, TypeOK
  <2>3. CASE KillCont
    BY <1>1, <2>1, <2>3 DEF KillCont, Reportable, Inv, TypeOK
  <2>4. CASE ~KillCont /\ ~\E q \in Pids : Fork(q)
    BY <1>1, <1>3, <2>1, <2>4
       DEF Read, EndOfFile, Quit, MainStep, Eval, BlockChld, ForkFails, AddJob,
           RefuseArgument, LookupJob, LoadPid, KillFails, SetState, WaitBlock,
           WaitTest, Suspend, Reportable
  <2> QED
    BY <2>2, <2>3, <2>4
<1>4. ASSUME NEW s \in Handled, Deliver(s) PROVE Active("CHLD")'
  <2>1. s = "CHLD" => frame'["CHLD"].pc = "wait"
    BY <1>4 DEF Deliver, Inv, TypeOK
  <2>2. s # "CHLD" => frame'["CHLD"] = frame["CHLD"] /\ chld' = chld
    BY <1>4 DEF Deliver, Inv, TypeOK
  <2> QED
    BY <1>1, <1>4, <2>1, <2>2 DEF Deliver, Active, Reportable
<1>5. ASSUME NEW s \in Handled, HandlerStep(s) PROVE Active("CHLD")'
  <2>1. CASE s = "CHLD" /\ ~WaitPidNone
    <3>1. ASSUME NEW q \in Pids, WaitPid(q) PROVE frame'["CHLD"].pc = "update"
      BY <3>1 DEF WaitPid, Inv, TypeOK, Frame, Handled
    <3>2. ASSUME UpdateJob PROVE frame'["CHLD"].pc = "wait"
      BY <3>2 DEF UpdateJob, Inv, TypeOK, Frame, Handled
    <3> QED
      BY <1>5, <2>1, <3>1, <3>2 DEF HandlerStep, Active
  <2>2. CASE WaitPidNone
    BY <2>2 DEF WaitPidNone, Reportable
  <2>3. CASE s # "CHLD" /\ (FindForeground(s) \/ Forward(s) \/ ForwardFails(s))
    <3>1. /\ frame'["CHLD"] = frame["CHLD"] /\ chld' = chld /\ proc' = proc
          /\ Running
      BY <1>5, <2>3 DEF FindForeground, Forward, ForwardFails, InHandler, Return,
             Inv, TypeOK, Handled
    <3> QED
      BY <1>1, <3>1 DEF Reportable
  <2> QED
    BY <1>5, <2>1, <2>2, <2>3 DEF HandlerStep
<1>6. CASE \E q \in Pids : JoinGroup(q) \/ Exit(q) \/ Stop(q)
  BY <1>1, <1>6 DEF JoinGroup, Exit, Stop, Reportable, Inv, TypeOK
<1> QED
  BY <1>2, <1>3, <1>4, <1>5, <1>6 DEF Next, Halted, vars

-----------------------------------------------------------------------------
(* The theorems.                                                            *)

(* The inductive invariant holds of every behaviour of the shell.           *)
THEOREM Invariance == Spec => [](Inv /\ NoLostSigchld)
<1>1. Init => Inv /\ NoLostSigchld
  <2> SUFFICES ASSUME Init PROVE Inv /\ NoLostSigchld
    OBVIOUS
  <2>1. TypeOK /\ FramesOK
    BY TypeInit
  <2>2. \A s \in Handled : ~Active(s)
    BY DEF Init, Active, Idle
  <2>3. StackOK
    BY <2>2 DEF Init, StackOK, OnlyActive
  <2>4. SigchldBlocked /\ WaitBlocked
    BY DEF Init, SigchldBlocked, WaitBlocked
  <2>5. Tracked(jobs) = {} /\ DistinctPids(jobs)
    BY DEF Init, initjobs, clearjob, Tracked, DistinctPids
  <2>6. TableOK
    BY <2>5 DEF Init, TableOK, PidsUnique, TableMatchesChildren
  <2>7. NoLostSigchld
    BY DEF Init, NoLostSigchld, Reportable
  <2> QED
    BY <2>1, <2>3, <2>4, <2>6, <2>7 DEF Inv
<1>2. Inv /\ NoLostSigchld /\ [Next]_vars => Inv' /\ NoLostSigchld'
  BY TypeStep, StackStep, SigchldBlockedStep, WaitBlockedStep, TableStep, NoLostStep
     DEF Inv
<1> QED
  BY <1>1, <1>2, PTL DEF Spec

(* Every variable of the shell keeps its type: in particular do_bgfg        *)
(* never leaves getjobjid or getjobpid with a pointer outside the table.    *)
THEOREM TypeCorrect == Spec => []TypeOK
<1>1. Inv => TypeOK
  BY DEF Inv
<1> QED
  BY <1>1, Invariance, PTL

(* While a child is dead or newly stopped and unreported, a SIGCHLD is      *)
(* pending or its handler is running.                                       *)
THEOREM NoSigchldIsLost == Spec => []NoLostSigchld
<1> QED
  BY Invariance, PTL

(* The job list and the kernel agree about the children of the shell.       *)
THEOREM ListIsChildren == Spec => []TableMatchesChildren
<1>1. Inv => TableMatchesChildren
  BY DEF Inv, TableOK
<1> QED
  BY <1>1, Invariance, PTL

(* No process occupies two slots of the job list.                           *)
THEOREM ListIsInjective == Spec => []PidsUnique
<1>1. Inv => PidsUnique
  BY DEF Inv, TableOK
<1> QED
  BY <1>1, Invariance, PTL

(* addjob refuses a child only when every slot holds another child that is  *)
(* not yet reaped, and otherwise lists it and drops no other, whatever the  *)
(* numbers of slots and of processes: SIGCHLD is blocked, so that no handler *)
(* is between waitpid and deletejob.                                        *)
THEOREM RefusalRight == Spec => RefusedOnlyWhenFull
<1> DEFINE Refusal == \/ Tracked(jobs') = Tracked(jobs) \cup {pid}
                      \/ /\ jobs' = jobs /\ Cardinality(Tracked(jobs)) = MAXJOBS
                         /\ \A p \in Tracked(jobs) : proc[p] # "none"
<1>1. ASSUME Inv, AddJob PROVE Refusal
  <2> DEFINE st == IF parseline(line) THEN "BG" ELSE "FG"
             new == addjob(jobs, nextjid, pid, st)
  <2>1. main = "addjob" /\ jobs' = new
    BY <1>1 DEF AddJob, At
  <2>2. pid \in Pids /\ jobs \in JobTable /\ nextjid \in Nat /\ DistinctPids(jobs)
    BY <1>1, <2>1 DEF Inv, TypeOK, TableOK, PidsUnique
  <2>3. CASE SlotsWithPid(jobs, 0) # {}
    <3>1. /\ Tracked(jobs) \subseteq Tracked(new) /\ Tracked(new) \subseteq Tracked(jobs) \cup {pid}
          /\ pid \in Tracked(new)
      BY <2>2, <2>3, AddjobEffect DEF States
    <3> HIDE DEF new
    <3> QED BY <2>1, <3>1
  <2>4. CASE SlotsWithPid(jobs, 0) = {}
    <3>1. jobs' = jobs
      BY <2>1, <2>4 DEF addjob
    <3>2. Cardinality(Tracked(jobs)) = MAXJOBS
      BY <2>2, <2>4, FullTable
    <3>3. frame["CHLD"].status = "none"
      BY <1>1, <2>1 DEF Inv, FramesOK, SigchldBlocked, Active
    <3>4. Tracked(jobs) \subseteq Pids /\ \A p \in Tracked(jobs) : proc[p] # "none"
      BY <1>1, <3>3 DEF Inv, TypeOK, TableOK, TableMatchesChildren, Reaped, Tracked, JobTable, Job
    <3> QED BY <3>1, <3>2, <3>4
  <2> QED BY <2>3, <2>4
<1>2. Inv => [AddJob => Refusal]_vars
  BY <1>1
<1> QED
  BY <1>2, Invariance, PTL DEF RefusedOnlyWhenFull

(* The shell sleeps in waitfg only while there is a foreground job.         *)
THEOREM WaitfgHasJob == Spec => []NoIdleWait
<1>1. Inv => NoIdleWait
  BY DEF Inv, WaitBlocked, NoIdleWait
<1> QED
  BY <1>1, Invariance, PTL

-----------------------------------------------------------------------------
(* The shell implements JobLife.                                            *)

(* A step that changes neither the life of a process nor the list.          *)
LEMMA LifeKept ==
    ASSUME Tracked(jobs)' = Tracked(jobs),
           \A p \in Pids : lifeOf(p)' = lifeOf(p)
    PROVE  UNCHANGED <<[p \in Pids |-> lifeOf(p)], Tracked(jobs)>>
OBVIOUS

LEMMA LifeStep ==
    ASSUME Cardinality(Pids) <= MAXJOBS, Inv, [Next]_vars
    PROVE  [Life!Next]_<<[p \in Pids |-> lifeOf(p)], Tracked(jobs)>>
<1> USE DEF table, program, kernel
<1> DEFINE Stutter == UNCHANGED <<[p \in Pids |-> lifeOf(p)], Tracked(jobs)>>
<1>1. DistinctPids(jobs) /\ Tracked(jobs) \subseteq Pids
  BY DEF Inv, TableOK, PidsUnique, TypeOK, Tracked, JobTable, Job
<1>2. ASSUME Tracked(jobs)' = Tracked(jobs), proc' = proc,
             \A p \in Pids : Reaped(p)' <=> Reaped(p)
      PROVE  Stutter
  BY <1>2, LifeKept DEF lifeOf
<1>3. CASE UNCHANGED vars
  BY <1>2, <1>3 DEF vars, Reaped
<1>4. ASSUME NEW p \in Pids, Fork(p) PROVE Life!Start(p)
  <2>1. \A q : ~Reaped(q) /\ ~Reaped(q)'
    BY <1>4, StackTop, NobodyReaped DEF Fork, At, OnlyActive, Handled, Reaped
  <2>2. p \notin Tracked(jobs)
    BY <1>4, <2>1 DEF Fork, Inv, TableOK, TableMatchesChildren
  <2>3. jobs' = jobs /\ proc[p] = "none" /\ proc' = [proc EXCEPT ![p] = "forked"]
    BY <1>4 DEF Fork
  <2>4. \A q \in Pids : lifeOf(q)' = IF q = p THEN "live" ELSE lifeOf(q)
    BY <2>1, <2>3 DEF lifeOf, Inv, TypeOK
  <2>5. lifeOf(p) = "none"
    BY <2>1, <2>3 DEF lifeOf
  <2> QED
    BY <2>2, <2>3, <2>4, <2>5 DEF Life!Start
<1>5. CASE AddJob
  <2> DEFINE st == IF parseline(line) THEN "BG" ELSE "FG"
             new == addjob(jobs, nextjid, pid, st)
  <2>1. main = "addjob" /\ ctx = "main" /\ jobs' = new /\ proc' = proc /\ frame' = frame
    BY <1>5 DEF AddJob, At
  <2>2. pid \in Pids /\ pid \notin Tracked(jobs) /\ proc[pid] # "none"
    BY <2>1 DEF Inv, TableOK
  <2>3. Tracked(new) = Tracked(jobs) \cup {pid}
    <3>1. SlotsWithPid(jobs, 0) # {}
      BY <1>1, <2>2, RoomForOneMore DEF Inv, TypeOK
    <3>2. /\ Tracked(jobs) \subseteq Tracked(new)
          /\ Tracked(new) \subseteq Tracked(jobs) \cup {pid}
          /\ pid \in Tracked(new)
      BY <2>2, <3>1, AddjobEffect DEF Inv, TypeOK, States
    <3> HIDE DEF new
    <3> QED
      BY <3>2
  <2> HIDE DEF new
  <2>4. \A q \in Pids : lifeOf(q)' = lifeOf(q)
    BY <2>1 DEF lifeOf, Reaped
  <2>5. lifeOf(pid) \in {"live", "dead"}
    BY <2>1, <2>2, StackTop, NobodyReaped DEF lifeOf, OnlyActive, Handled
  <2>6. Life!List(pid)
    BY <2>1, <2>2, <2>3, <2>4, <2>5 DEF Life!List
  <2> QED
    BY <2>2, <2>6 DEF Life!Next
<1>6. CASE SetState
  <2>1. Tracked(jobs)' = Tracked(jobs)
    BY <1>6, SetStateEffect DEF SetState, Inv, TypeOK, States
  <2> QED
    BY <1>2, <1>6, <2>1 DEF SetState, Reaped
<1>7. CASE KillCont
  <2>1. \A p \in Pids : lifeOf(p)' = lifeOf(p)
    BY <1>7 DEF KillCont, lifeOf, Reaped, Inv, TypeOK
  <2> QED
    BY <1>7, <2>1, LifeKept DEF KillCont
<1>8. CASE (\E l \in Lines : Read(l)) \/ EndOfFile \/ Quit \/ Eval \/ BlockChld
           \/ ForkFails \/ RefuseArgument \/ LookupJob \/ LoadPid \/ KillFails
           \/ WaitBlock \/ WaitTest \/ Suspend
  BY <1>2, <1>8 DEF Read, EndOfFile, Quit, Eval, BlockChld, ForkFails,
         RefuseArgument, LookupJob, LoadPid, KillFails, WaitBlock, WaitTest,
         Suspend, Reaped
<1>9. ASSUME NEW s \in Handled, Deliver(s) PROVE Stutter
  <2>1. \/ frame'["CHLD"] = frame["CHLD"]
        \/ ~Active("CHLD") /\ frame'["CHLD"].status = "none"
    BY <1>9, StackTop DEF Deliver, Inv, TypeOK, Handled
  <2>2. \A p : Reaped(p)' <=> Reaped(p)
    BY <2>1, NobodyReaped DEF Reaped
  <2> QED
    BY <1>2, <1>9, <2>2 DEF Deliver
<1>10. ASSUME NEW p \in Pids, WaitPid(p) PROVE Life!Collect(p) \/ Stutter
  <2>1. /\ Running /\ Active("CHLD") /\ frame["CHLD"].pc = "wait" /\ jobs' = jobs
        /\ proc[p] \in {"zombie", "stopped"}
        /\ \A q \in Pids : proc'[q] = IF q # p THEN proc[q]
                                      ELSE IF proc[p] = "zombie" THEN "none" ELSE "parked"
    BY <1>10 DEF WaitPid, InHandler, Active, Reportable, Inv, TypeOK
  <2>2. \A q : Reaped(q)' <=> q = p /\ proc[p] = "zombie"
    <3>1. /\ frame'["CHLD"].pid = p
          /\ frame'["CHLD"].status = IF proc[p] = "zombie" THEN "dead" ELSE "stopped"
      BY <1>10 DEF WaitPid, Inv, TypeOK, Frame, Handled
    <3> QED
      BY <3>1 DEF Reaped
  <2>3. \A q : ~Reaped(q)
    BY <2>1 DEF Inv, FramesOK, Reaped
  <2>4. CASE proc[p] = "zombie"
    <3>1. p \in Tracked(jobs)
      BY <2>1, <2>4 DEF Inv, SigchldBlocked, TableOK, TableMatchesChildren, Running
    <3>2. \A q \in Pids : lifeOf(q)' = IF q = p THEN "collected" ELSE lifeOf(q)
      BY <2>1, <2>2, <2>3, <2>4 DEF lifeOf
    <3>3. lifeOf(p) = "dead"
      BY <2>3, <2>4 DEF lifeOf
    <3> QED
      BY <2>1, <3>1, <3>2, <3>3 DEF Life!Collect
  <2>5. CASE proc[p] = "stopped"
    <3>1. \A q \in Pids : lifeOf(q)' = lifeOf(q)
      BY <2>1, <2>2, <2>3, <2>5 DEF lifeOf
    <3> QED
      BY <2>1, <3>1, LifeKept
  <2> QED
    BY <2>1, <2>4, <2>5
<1>11. CASE UpdateJob
  <2> DEFINE p == frame["CHLD"].pid
             i == getjobpid(jobs, p)
  <2>1. p \in Pids /\ proc' = proc
    BY <1>11 DEF UpdateJob, InHandler, Inv, FramesOK
  <2>2. \A q : ~Reaped(q)'
    BY <1>11 DEF UpdateJob, Reaped, Inv, TypeOK, Frame, Handled
  <2>3. CASE frame["CHLD"].status = "dead"
    <3>1. \A q : Reaped(q) <=> q = p
      BY <2>3 DEF Reaped
    <3>2. Tracked(jobs)' = Tracked(jobs) \ {p}
      BY <1>1, <1>11, <2>1, <2>3, DeletejobEffect DEF UpdateJob, Inv, TypeOK
    <3>3. proc[p] = "none"
      BY <2>1, <3>1 DEF Inv, TableOK
    <3> HIDE DEF p
    <3>4. \A q \in Pids : lifeOf(q)' = IF q = p THEN "none" ELSE lifeOf(q)
      BY <2>1, <2>2, <3>1, <3>3 DEF lifeOf
    <3>5. lifeOf(p) = "collected"
      BY <3>1 DEF lifeOf
    <3>6. Life!Unlist(p)
      BY <2>1, <3>2, <3>4, <3>5 DEF Life!Unlist
    <3> QED
      BY <2>1, <3>6 DEF Life!Next
  <2>4. CASE frame["CHLD"].status # "dead"
    <3>1. \A q : ~Reaped(q)
      BY <2>4 DEF Reaped
    <3>2. Tracked(jobs)' = Tracked(jobs)
      <4>1. CASE i = None
        BY <1>11, <2>4, <4>1 DEF UpdateJob
      <4>2. CASE i # None
        <5>1. i \in Slots
          BY <2>1, <4>2, LookupType DEF Inv, TypeOK
        <5>2. jobs' = [jobs EXCEPT ![i].state = "ST"]
          BY <1>11, <2>4, <4>2 DEF UpdateJob
        <5> QED
          BY <5>1, <5>2, SetStateEffect DEF Inv, TypeOK, States
      <4> QED
        BY <4>1, <4>2
    <3> QED
      BY <1>2, <2>1, <2>2, <3>1, <3>2
  <2> QED
    BY <2>3, <2>4
<1>12. CASE WaitPidNone
  <2>1. \A p : Reaped(p)' <=> Reaped(p)
    BY <1>12 DEF WaitPidNone, InHandler, Return, Idle, Reaped, Inv, TypeOK,
                 FramesOK, Handled
  <2> QED
    BY <1>2, <1>12, <2>1 DEF WaitPidNone
<1>13. ASSUME NEW s \in Handled, s # "CHLD",
              FindForeground(s) \/ Forward(s) \/ ForwardFails(s)
       PROVE  Stutter
  <2>1. frame'["CHLD"] = frame["CHLD"]
    BY <1>13 DEF FindForeground, Forward, ForwardFails, Return, Inv, TypeOK, Handled
  <2>2. \A p : Reaped(p)' <=> Reaped(p)
    BY <2>1 DEF Reaped
  <2> QED
    BY <1>2, <1>13, <2>2 DEF FindForeground, Forward, ForwardFails
<1>14. ASSUME NEW p \in Pids, JoinGroup(p) \/ Stop(p) PROVE Stutter
  <2>1. \A q \in Pids : lifeOf(q)' = lifeOf(q)
    BY <1>14 DEF JoinGroup, Stop, lifeOf, Reaped, Inv, TypeOK
  <2> QED
    BY <1>14, <2>1, LifeKept DEF JoinGroup, Stop
<1>15. ASSUME NEW p \in Pids, Exit(p) PROVE Life!End(p)
  <2>1. jobs' = jobs /\ \A q \in Pids : Reaped(q)' <=> Reaped(q)
    BY <1>15 DEF Exit, Reaped
  <2>2. ~Reaped(p) /\ lifeOf(p) = "live"
    BY <1>15 DEF Exit, Inv, TableOK, lifeOf
  <2>3. \A q \in Pids : lifeOf(q)' = IF q = p THEN "dead" ELSE lifeOf(q)
    BY <1>15, <2>1, <2>2 DEF Exit, lifeOf, Inv, TypeOK
  <2> QED
    BY <2>1, <2>2, <2>3 DEF Life!End
<1> HIDE DEF Stutter
<1>16. CASE Next
  BY <1>3, <1>4, <1>5, <1>6, <1>7, <1>8, <1>9, <1>10, <1>11, <1>12, <1>13,
     <1>14, <1>15, <1>16 DEF Next, MainStep, HandlerStep, Halted, Life!Next, Stutter
<1> QED
  BY <1>3, <1>16 DEF Stutter

(* With a slot for every process id, the shell keeps the promise of         *)
(* JobLife: a job leaves the list only after the shell has reaped it, is    *)
(* reaped only when listed, and its pid is started again only after that.   *)
THEOREM Refinement ==
    ASSUME Cardinality(Pids) <= MAXJOBS
    PROVE  Spec => ImplementsJobLife
<1>1. Init => Life!Init
  <2> SUFFICES ASSUME Init PROVE Life!Init
    OBVIOUS
  <2>1. Tracked(jobs) = {}
    BY DEF Init, initjobs, clearjob, Tracked
  <2>2. \A p \in Pids : lifeOf(p) = "none"
    BY DEF Init, lifeOf, Reaped, Idle, Handled
  <2> QED
    BY <2>1, <2>2 DEF Life!Init
<1>2. Inv /\ [Next]_vars => [Life!Next]_<<[p \in Pids |-> lifeOf(p)], Tracked(jobs)>>
  BY LifeStep
<1> QED
  BY <1>1, <1>2, Invariance, PTL DEF Spec, ImplementsJobLife, Life!Spec
=============================================================================
