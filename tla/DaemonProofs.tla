---------------------------- MODULE DaemonProofs ----------------------------
(***************************************************************************)
(* Safety of the scheduler for any number of tasks, agents, daemons,       *)
(* goroutines and slots, whatever SQL calls fail and however often         *)
(* processes crash.                                                        *)
(*                                                                         *)
(* Typing and the shape of the goroutine table (Inv1) hold always.  The    *)
(* rest (Inv2) holds in the safe regimes: with one daemon, because the     *)
(* only recovery is at boot, when none of its goroutines exists; with      *)
(* several, when heartbeats are timely, because a row that a goroutine     *)
(* holds is then never old enough to be recovered.                         *)
(*                                                                         *)
(* It follows that the scheduler implements the abstract lease: in the     *)
(* safe regimes every step of the daemons, of the API and of the table is  *)
(* a step of TaskLease or leaves the statuses and the holders as they are. *)
(***************************************************************************)
EXTENDS DaemonSafety, TLAPS

(* No claim is left for an agent whose turn is over, and at least one for  *)
(* the agent whose turn it is.                                             *)
Quota == \A d \in Worker : turn[d] # NoAgent => free[d] > 0

(* An idle goroutine belongs to nobody, a live one to a process and a task.*)
Shape ==
    \A g \in Goroutine :
        /\ pc[g] = "idle" => home[g] = NoWorker /\ job[g] = NoTask
        /\ pc[g] # "idle" => home[g] \in Worker /\ job[g] \in Task
        /\ beating[g] => pc[g] = "run"

Inv1 == TypeOK /\ Quota /\ Shape

-----------------------------------------------------------------------------
(* The initial state is well typed and every goroutine is idle. *)
LEMMA InitInv1 == Init => Inv1
  BY NoWorkerAssumption, NoAgentAssumption, NullAssumption
     DEF Init, QueueInit, Inv1, TypeOK, QueueTypeOK, Quota, Shape, Status, PC

(* The statements of the queue keep the columns well typed. *)
LEMMA StatementTypes ==
  ASSUME QueueTypeOK
  PROVE  /\ \A t \in Task, a \in Agent, p \in Int : Enqueue(t, a, p) => QueueTypeOK'
         /\ \A w \in Worker, a \in Agent, t \in Task :
               \A held : Claim(w, a, held, t) => QueueTypeOK'
         /\ \A t \in Task : MarkRunning(t) => QueueTypeOK'
         /\ \A w \in Worker, t \in Task : Heartbeat(w, t) => QueueTypeOK'
         /\ \A t \in Task, s \in Terminal : Finish(t, s) => QueueTypeOK'
         /\ \A t \in Task : RequestCancelLock(t) => QueueTypeOK'
         /\ \A t \in Task, c \in BOOLEAN : RequestCancelEnd(t, c) => QueueTypeOK'
         /\ RecoverOrphanedTasks => QueueTypeOK'
         /\ \A t \in Task : Expire(t) => QueueTypeOK'
         /\ UNCHANGED queueVars => QueueTypeOK'
<1> USE DEF QueueTypeOK, Status, Active, Terminal
<1>1. \A t \in Task, a \in Agent, p \in Int : Enqueue(t, a, p) => QueueTypeOK'
  BY DEF Enqueue
<1>2. \A w \in Worker, a \in Agent, t \in Task :
        \A held : Claim(w, a, held, t) => QueueTypeOK'
  BY DEF Claim
<1>3. \A t \in Task : MarkRunning(t) => QueueTypeOK'
  BY DEF MarkRunning
<1>4. \A w \in Worker, t \in Task : Heartbeat(w, t) => QueueTypeOK'
  BY DEF Heartbeat
<1>5. \A t \in Task, s \in Terminal : Finish(t, s) => QueueTypeOK'
  BY DEF Finish
<1>6. \A t \in Task : RequestCancelLock(t) => QueueTypeOK'
  BY DEF RequestCancelLock
<1>7. \A t \in Task, c \in BOOLEAN : RequestCancelEnd(t, c) => QueueTypeOK'
  BY DEF RequestCancelEnd
<1>8. RecoverOrphanedTasks => QueueTypeOK'
  BY DEF RecoverOrphanedTasks, Orphaned
<1>9. \A t \in Task : Expire(t) => QueueTypeOK'
  BY DEF Expire
<1>10. UNCHANGED queueVars => QueueTypeOK'
  BY DEF queueVars
<1> QED BY <1>1, <1>2, <1>3, <1>4, <1>5, <1>6, <1>7, <1>8, <1>9, <1>10

-----------------------------------------------------------------------------
(* A step of the API keeps Inv1. *)
LEMMA ApiInv1 ==
  ASSUME Inv1, NEW t \in Task, Api(t)
  PROVE  Inv1'
<1> USE DEF Inv1, TypeOK, Quota, Shape, daemonVars, goVars
<1>1. ASSUME NEW a \in Agent, NEW p \in PriorityInput, CreateTask(t, a, p)
      PROVE  Inv1'
  <2>1. QueueTypeOK'
    BY <1>1, StatementTypes, PriorityAssumption DEF CreateTask
  <2> QED BY <1>1, <2>1 DEF CreateTask
<1>2. ASSUME NEW d \in Worker, CancelTask(d, t)
      PROVE  Inv1'
  <2>1. QueueTypeOK'
    BY <1>2, StatementTypes DEF CancelTask
  <2> QED BY <1>2, <2>1 DEF CancelTask
<1>3. CASE CancelTaskLock(t)
  <2>1. QueueTypeOK'
    BY <1>3, StatementTypes DEF CancelTaskLock
  <2> QED BY <1>3, <2>1 DEF CancelTaskLock
<1>4. CASE CancelTaskEnd(t)
  <2>1. QueueTypeOK'
    BY <1>4, StatementTypes DEF CancelTaskEnd
  <2> QED BY <1>4, <2>1 DEF CancelTaskEnd
<1>5. CASE CancelTaskFail(t)
  <2>1. QueueTypeOK'
    BY <1>5, StatementTypes DEF CancelTaskFail
  <2> QED BY <1>5, <2>1 DEF CancelTaskFail
<1> QED BY <1>1, <1>2, <1>3, <1>4, <1>5 DEF Api

(* A boot, a recovery, a crash or a shutdown keeps Inv1. *)
LEMMA ProcessInv1 ==
  ASSUME Inv1, NEW d \in Worker, Process(d)
  PROVE  Inv1'
<1> USE DEF Inv1, TypeOK, Quota, Shape, daemonVars, goVars
<1>1. CASE Boot(d)
  <2>1. QueueTypeOK'
    BY <1>1, StatementTypes DEF Boot
  <2> QED BY <1>1, <2>1 DEF Boot
<1>2. CASE RunRecovers(d)
  <2>1. QueueTypeOK'
    BY <1>2, StatementTypes DEF RunRecovers
  <2> QED BY <1>2, <2>1 DEF RunRecovers
<1>3. CASE Crash(d)
  <2>1. QueueTypeOK'
    BY <1>3, StatementTypes DEF Crash
  <2>2. TypeOK'
    BY <1>3, <2>1, NoAgentAssumption DEF Crash, PC
  <2>3. Quota' /\ Shape'
    BY <1>3, NoWorkerAssumption DEF Crash
  <2> QED BY <2>2, <2>3
<1>4. CASE Stop(d)
  <2>1. QueueTypeOK'
    BY <1>4, StatementTypes DEF Stop
  <2>2. \A g \in Goroutine : home[g] = d => job[g] \in Task
    BY NoWorkerAssumption DEF PC
  <2> QED BY <1>4, <2>1, <2>2 DEF Stop
<1>5. CASE RunReturns(d)
  <2>1. QueueTypeOK'
    BY <1>5, StatementTypes DEF RunReturns
  <2> QED BY <1>5, <2>1 DEF RunReturns
<1> QED BY <1>1, <1>2, <1>3, <1>4, <1>5 DEF Process

(* A step of the scheduler keeps Inv1; Quota is what keeps free a natural. *)
LEMMA SchedulerInv1 ==
  ASSUME Inv1, NEW d \in Worker, Scheduler(d)
  PROVE  Inv1'
<1> USE DEF Inv1, TypeOK, Quota, Shape, daemonVars, goVars
<1>1. ASSUME NEW a \in Agent, TickAgent(d, a)
      PROVE  Inv1'
  <2>1. QueueTypeOK'
    BY <1>1, StatementTypes DEF TickAgent
  <2>2. MaxConcurrent[a] \in Nat /\ inflight[d][a] \in Nat
    BY ConcurrencyAssumption
  <2> QED BY <1>1, <2>1, <2>2 DEF TickAgent
<1>2. ASSUME NEW t \in Task, NEW g \in Goroutine, TickClaims(d, t, g)
      PROVE  Inv1'
  <2>1. QueueTypeOK'
    BY <1>2, StatementTypes DEF TickClaims
  <2>2. turn[d] \in Agent /\ free[d] \in Nat /\ free[d] > 0
    BY <1>2, NoAgentAssumption DEF TickClaims
  <2>3. TypeOK'
    BY <1>2, <2>1, <2>2 DEF TickClaims, PC
  <2>4. Quota' /\ Shape'
    BY <1>2, <2>2 DEF TickClaims
  <2> QED BY <2>3, <2>4
<1>3. CASE TickFindsNothing(d)
  <2>1. QueueTypeOK'
    BY <1>3, StatementTypes DEF TickFindsNothing
  <2> QED BY <1>3, <2>1 DEF TickFindsNothing
<1>4. CASE TickFails(d)
  <2>1. QueueTypeOK'
    BY <1>4, StatementTypes DEF TickFails
  <2> QED BY <1>4, <2>1 DEF TickFails
<1> QED BY <1>1, <1>2, <1>3, <1>4 DEF Scheduler

(* A step of a goroutine keeps Inv1. *)
LEMMA ExecuteInv1 ==
  ASSUME Inv1, NEW g \in Goroutine, Execute(g)
  PROVE  Inv1'
<1> USE DEF Inv1, TypeOK, Quota, Shape, daemonVars, goVars
<1>1. CASE Start(g)
  <2>1. QueueTypeOK'
    BY <1>1, StatementTypes DEF Start
  <2> QED BY <1>1, <2>1 DEF Start, PC
<1>2. CASE ExecuteMarks(g)
  <2>1. QueueTypeOK'
    BY <1>2, StatementTypes DEF ExecuteMarks
  <2> QED BY <1>2, <2>1 DEF ExecuteMarks, PC
<1>3. CASE HeartbeatTick(g)
  <2>1. home[g] \in Worker /\ job[g] \in Task
    BY <1>3 DEF HeartbeatTick
  <2>2. QueueTypeOK'
    BY <1>3, <2>1, StatementTypes DEF HeartbeatTick
  <2>3. kills' \subseteq Worker \X Task
    BY <1>3, <2>1 DEF HeartbeatTick
  <2>4. beating' \in [Goroutine -> BOOLEAN] /\ \A h \in Goroutine : beating'[h] => beating[h]
    BY <1>3 DEF HeartbeatTick
  <2>5. UNCHANGED <<daemonVars, pc, home, job, canceled, outcome, api>>
    BY <1>3 DEF HeartbeatTick
  <2> QED BY <2>2, <2>3, <2>4, <2>5
<1>4. ASSUME NEW r \in Ending, RunnerReturns(g, r)
      PROVE  Inv1'
  <2>1. QueueTypeOK'
    BY <1>4, StatementTypes DEF RunnerReturns
  <2> QED BY <1>4, <2>1 DEF RunnerReturns, PC, Ending
<1>5. CASE WriteTerminal(g)
  <2>1. job[g] \in Task
    BY <1>5 DEF WriteTerminal
  <2>2. QueueTypeOK'
    BY <1>5, <2>1, StatementTypes DEF WriteTerminal, Complete, Fail, Canceled, Terminal
  <2> QED BY <1>5, <2>2 DEF WriteTerminal, PC
<1>6. CASE Done(g)
  <2>1. QueueTypeOK'
    BY <1>6, StatementTypes DEF Done
  <2> QED BY <1>6, <2>1 DEF Done, PC
<1>7. CASE Release(g)
  <2>1. QueueTypeOK'
    BY <1>7, StatementTypes DEF Release
  <2>2. TypeOK'
    <3> DEFINE d == home[g]
               a == agent[job[g]]
               n == IF inflight[d][a] > 0 THEN inflight[d][a] - 1 ELSE inflight[d][a]
    <3>1. d \in Worker /\ (a \in Agent => n \in Nat)
      BY <1>7 DEF Release
    <3>2. inflight' = [inflight EXCEPT ![d][a] = n]
      BY <1>7 DEF Release
    <3>3. inflight' \in [Worker -> [Agent -> Nat]]
      <4> HIDE DEF n, a, d
      <4> QED BY <3>1, <3>2
    <3> QED BY <1>7, <2>1, <3>3 DEF Release, PC
  <2>3. Quota'
    BY <1>7 DEF Release
  <2>4. Shape'
    <3>1. /\ pc[g] = "release"
          /\ pc' = [pc EXCEPT ![g] = "idle"]
          /\ home' = [home EXCEPT ![g] = NoWorker]
          /\ job' = [job EXCEPT ![g] = NoTask]
          /\ beating' = beating
      BY <1>7 DEF Release
    <3> QED BY <3>1
  <2> QED BY <2>2, <2>3, <2>4
<1> QED BY <1>1, <1>2, <1>3, <1>4, <1>5, <1>6, <1>7 DEF Execute

(* So does the passage of time and the heartbeat's cancel. *)
LEMMA OtherInv1 ==
  ASSUME Inv1
  PROVE  /\ \A t \in Task : HeartbeatExpires(t) => Inv1'
         /\ \A d \in Worker, t \in Task : HeartbeatKills(d, t) => Inv1'
         /\ UNCHANGED vars => Inv1'
<1> USE DEF Inv1, TypeOK, Quota, Shape, daemonVars, goVars
<1>1. ASSUME NEW t \in Task, HeartbeatExpires(t)
      PROVE  Inv1'
  <2>1. QueueTypeOK'
    BY <1>1, StatementTypes DEF HeartbeatExpires
  <2> QED BY <1>1, <2>1 DEF HeartbeatExpires
<1>2. ASSUME NEW d \in Worker, NEW t \in Task, HeartbeatKills(d, t)
      PROVE  Inv1'
  <2>1. QueueTypeOK'
    BY <1>2, StatementTypes DEF HeartbeatKills
  <2> QED BY <1>2, <2>1 DEF HeartbeatKills
<1>3. ASSUME UNCHANGED vars
      PROVE  Inv1'
  <2>1. QueueTypeOK'
    BY <1>3, StatementTypes DEF vars
  <2> QED BY <1>3, <2>1 DEF vars
<1> QED BY <1>1, <1>2, <1>3

(* No step breaks Inv1. *)
LEMMA NextInv1 == Inv1 /\ [Next]_vars => Inv1'
  BY ApiInv1, ProcessInv1, SchedulerInv1, ExecuteInv1, OtherInv1 DEF Next

(* The daemon's variables always have their types, in every regime. *)
THEOREM TypeCorrect == Spec => []TypeOK
<1>1. Spec => []Inv1
  BY InitInv1, NextInv1, PTL DEF Spec
<1>2. Inv1 => TypeOK
  BY DEF Inv1
<1> QED BY <1>1, <1>2, PTL

-----------------------------------------------------------------------------
(*                          The lease of a task                            *)

(* One daemon, or heartbeats that never expire under a live execution. *)
SafeRegime == TimelyHeartbeats \/ \A d, e \in Worker : d = e

(* A live goroutine is in a process past its recovery, and its row was     *)
(* claimed and never went back to pending.                                 *)
LiveRow ==
    \A g \in Goroutine : Live(g) =>
        /\ mode[home[g]] \in {"up", "stopping"}
        /\ status[job[g]] \in Active \cup Terminal

(* Stronger than OneExecutionPerTask: it covers the goroutines that wrote  *)
(* their terminal status and are about to leave.                           *)
OneLive ==
    \A g, h \in Goroutine : Live(g) /\ Live(h) /\ job[g] = job[h] => g = h

FreshRow ==
    TimelyHeartbeats => \A g \in Goroutine :
        Live(g) /\ status[job[g]] \in Active => heartbeat[job[g]] = "fresh"

Inv2 == LiveRow /\ HolderOwnsRow /\ OneLive /\ FreshRow

(* A goroutine that holds its row is live. *)
LEMMA HoldingIsLive ==
  /\ \A g : Holding(g) => Live(g)
  /\ (\A g : Holding(g) => Live(g))'
  BY DEF Holding, Live

(* Before the first boot nobody executes anything. *)
LEMMA InitInv2 == Init => Inv2
  BY DEF Init, Inv2, LiveRow, HolderOwnsRow, OneLive, FreshRow, Live, Holding

(* The heart of the matter: recovery at boot takes no row from a live      *)
(* goroutine.  With one daemon there is none; with timely heartbeats the   *)
(* rows of the others are fresh.                                           *)
LEMMA RecoverySparesLive ==
  ASSUME SafeRegime, Inv1, Inv2, NEW d \in Worker, mode[d] = "starting",
         NEW g \in Goroutine, Live(g)
  PROVE  job[g] \notin Orphaned
<1>1. home[g] \in Worker /\ home[g] # d
  BY DEF Inv1, Shape, Inv2, LiveRow, Live
<1>2. TimelyHeartbeats
  BY <1>1 DEF SafeRegime
<1> QED BY <1>2 DEF Inv2, FreshRow, Orphaned

(* A step of the API keeps Inv2. *)
LEMMA ApiInv2 ==
  ASSUME Inv1, Inv2, NEW t \in Task, Api(t)
  PROVE  Inv2'
<1> USE DEF Inv2, LiveRow, HolderOwnsRow, OneLive, FreshRow, Live, Holding, Owns,
            Inv1, Shape, TypeOK, QueueTypeOK, Active, Terminal, daemonVars, goVars
<1>1. ASSUME NEW a \in Agent, NEW p \in PriorityInput, CreateTask(t, a, p)
      PROVE  Inv2'
  <2>1. \A g \in Goroutine : Live(g) => job[g] # t
    BY <1>1 DEF CreateTask, Enqueue
  <2> QED BY <1>1, <2>1 DEF CreateTask, Enqueue
<1>2. ASSUME NEW d \in Worker, CancelTask(d, t)
      PROVE  Inv2'
  BY <1>2 DEF CancelTask, queueVars
<1>3. CASE CancelTaskLock(t)
  BY <1>3 DEF CancelTaskLock, RequestCancelLock
<1>4. CASE CancelTaskEnd(t)
  BY <1>4 DEF CancelTaskEnd, RequestCancelEnd
<1>5. CASE CancelTaskFail(t)
  BY <1>5 DEF CancelTaskFail, queueVars
<1> QED BY <1>1, <1>2, <1>3, <1>4, <1>5 DEF Api

(* A boot, a recovery, a crash or a shutdown keeps Inv2. *)
LEMMA ProcessInv2 ==
  ASSUME SafeRegime, Inv1, Inv2, NEW d \in Worker, Process(d)
  PROVE  Inv2'
<1> USE DEF Inv2, LiveRow, HolderOwnsRow, OneLive, FreshRow, Live, Holding, Owns,
            Inv1, Shape, TypeOK, QueueTypeOK, Active, Terminal, daemonVars, goVars
<1>1. CASE Boot(d)
  BY <1>1 DEF Boot, queueVars
<1>2. CASE RunRecovers(d)
  <2>1. \A g \in Goroutine : Live(g) => home[g] # d /\ job[g] \notin Orphaned
    BY <1>2, RecoverySparesLive DEF RunRecovers
  <2>2. UNCHANGED queueVars \/ RecoverOrphanedTasks
    BY <1>2 DEF RunRecovers
  <2>3. \A g \in Goroutine : Live(g) => /\ status'[job[g]] = status[job[g]]
                                        /\ worker'[job[g]] = worker[job[g]]
                                        /\ heartbeat'[job[g]] = heartbeat[job[g]]
    BY <2>1, <2>2 DEF RecoverOrphanedTasks, queueVars
  <2>4. \A g \in Goroutine : Live(g) => mode'[home[g]] = mode[home[g]]
    BY <1>2, <2>1 DEF RunRecovers
  <2>5. UNCHANGED <<pc, home, job>>
    BY <1>2 DEF RunRecovers
  <2>6. \A g \in Goroutine : job'[g] = job[g] /\ home'[g] = home[g] /\ pc'[g] = pc[g]
    BY <2>5
  <2>7. LiveRow'
    BY <2>3, <2>4, <2>6
  <2>8. HolderOwnsRow'
    BY <2>3, <2>6
  <2>9. OneLive' /\ FreshRow'
    BY <2>3, <2>6
  <2> QED BY <2>7, <2>8, <2>9
<1>3. CASE Crash(d)
  <2>1. \A g \in Goroutine : Live(g)' => /\ Live(g) /\ home[g] # d
                                         /\ home'[g] = home[g] /\ job'[g] = job[g]
                                         /\ pc'[g] = pc[g]
    BY <1>3 DEF Crash
  <2>2. UNCHANGED <<status, worker, heartbeat>>
    BY <1>3 DEF Crash, queueVars
  <2>3. \A e \in Worker : e # d => mode'[e] = mode[e]
    BY <1>3 DEF Crash
  <2> QED BY <2>1, <2>2, <2>3
<1>4. CASE Stop(d)
  BY <1>4 DEF Stop, queueVars
<1>5. CASE RunReturns(d)
  BY <1>5 DEF RunReturns, queueVars
<1> QED BY <1>1, <1>2, <1>3, <1>4, <1>5 DEF Process

(* A claim takes a pending row, which no goroutine has, and gives it to    *)
(* one goroutine at most.                                                  *)
LEMMA SchedulerInv2 ==
  ASSUME Inv1, Inv2, NEW d \in Worker, Scheduler(d)
  PROVE  Inv2'
<1> USE DEF Inv2, LiveRow, HolderOwnsRow, OneLive, FreshRow, Live, Holding, Owns,
            Inv1, Shape, TypeOK, QueueTypeOK, Active, Terminal, daemonVars, goVars
<1>1. ASSUME NEW a \in Agent, TickAgent(d, a)
      PROVE  Inv2'
  BY <1>1 DEF TickAgent, queueVars
<1>2. ASSUME NEW t \in Task, NEW g \in Goroutine, TickClaims(d, t, g)
      PROVE  Inv2'
  <2>1. status[t] = "pending" /\ \A h \in Goroutine : Live(h) => job[h] # t
    BY <1>2 DEF TickClaims, Claim, Claimable
  <2>2. /\ mode[d] = "up" /\ UNCHANGED mode
        /\ status' = [status EXCEPT ![t] = "claimed"]
        /\ worker' = [worker EXCEPT ![t] = d]
        /\ heartbeat' = [heartbeat EXCEPT ![t] = "fresh"]
        /\ pc' = [pc EXCEPT ![g] = "spawned"]
        /\ home' = [home EXCEPT ![g] = d]
        /\ job' = [job EXCEPT ![g] = t]
    BY <1>2 DEF TickClaims, Claim
  <2> QED BY <2>1, <2>2
<1>3. CASE TickFindsNothing(d)
  BY <1>3 DEF TickFindsNothing, queueVars
<1>4. CASE TickFails(d)
  <2>1. UNCHANGED <<mode, pc, home, job>>
    BY <1>4 DEF TickFails
  <2>2. CASE UNCHANGED queueVars
    BY <2>1, <2>2 DEF queueVars
  <2>3. ASSUME NEW t \in Task, NEW held, Claim(d, turn[d], held, t)
        PROVE  Inv2'
    <3>1. \A h \in Goroutine : Live(h) => job[h] # t
      BY <2>3 DEF Claim, Claimable
    <3> QED BY <2>1, <2>3, <3>1 DEF Claim
  <2> QED BY <1>4, <2>2, <2>3 DEF TickFails
<1> QED BY <1>1, <1>2, <1>3, <1>4 DEF Scheduler

(* A goroutine writes only the row it holds, which nobody else has; the    *)
(* row stays active until its terminal write, and is terminal or still     *)
(* active after it.                                                        *)
LEMMA ExecuteInv2 ==
  ASSUME Inv1, Inv2, NEW g \in Goroutine, Execute(g)
  PROVE  Inv2'
<1> USE DEF Inv2, LiveRow, HolderOwnsRow, OneLive, FreshRow, Live, Holding, Owns,
            Inv1, Shape, TypeOK, QueueTypeOK, Active, Terminal, daemonVars, goVars
<1>1. CASE Start(g)
  BY <1>1 DEF Start, queueVars
<1>2. CASE ExecuteMarks(g)
  <2>1. /\ UNCHANGED <<mode, home, job, worker>>
        /\ pc' = [pc EXCEPT ![g] = "run"]
    BY <1>2 DEF ExecuteMarks, MarkRunning, queueVars
  <2>2. CASE UNCHANGED queueVars
    BY <1>2, <2>1, <2>2 DEF ExecuteMarks, queueVars
  <2>3. CASE MarkRunning(job[g])
    BY <1>2, <2>1, <2>3 DEF ExecuteMarks, MarkRunning
  <2> QED BY <1>2, <2>2, <2>3 DEF ExecuteMarks
<1>3. CASE HeartbeatTick(g)
  BY <1>3 DEF HeartbeatTick, Heartbeat
<1>4. ASSUME NEW r \in Ending, RunnerReturns(g, r)
      PROVE  Inv2'
  BY <1>4 DEF RunnerReturns, queueVars
<1>5. CASE WriteTerminal(g)
  <2>1. /\ pc[g] = "write"
        /\ UNCHANGED <<mode, home, job, worker, heartbeat>>
        /\ pc' = [pc EXCEPT ![g] = "done"]
    BY <1>5 DEF WriteTerminal, Complete, Fail, Canceled, Finish, queueVars
  <2>2. status' = status \/ \E s \in Terminal : status' = [status EXCEPT ![job[g]] = s]
    BY <1>5 DEF WriteTerminal, Complete, Fail, Canceled, Finish, queueVars
  <2>3. ASSUME NEW h \in Goroutine, Holding(h)'
        PROVE  h # g /\ Holding(h) /\ job[h] # job[g]
    <3>1. h # g
      BY <2>1, <2>3
    <3>2. pc'[h] = pc[h]
      BY <2>1, <3>1
    <3> QED BY <2>1, <2>3, <3>1, <3>2
  <2>4. LiveRow'
    BY <2>1, <2>2
  <2>5. HolderOwnsRow'
    BY <2>1, <2>2, <2>3
  <2>6. OneLive' /\ FreshRow'
    BY <2>1, <2>2
  <2> QED BY <2>4, <2>5, <2>6
<1>6. CASE Done(g)
  BY <1>6 DEF Done, queueVars
<1>7. CASE Release(g)
  <2>1. /\ UNCHANGED <<queueVars, mode>>
        /\ pc' = [pc EXCEPT ![g] = "idle"]
        /\ home' = [home EXCEPT ![g] = NoWorker]
        /\ job' = [job EXCEPT ![g] = NoTask]
    BY <1>7 DEF Release
  <2> QED BY <2>1 DEF queueVars
<1> QED BY <1>1, <1>2, <1>3, <1>4, <1>5, <1>6, <1>7 DEF Execute

(* The passage of time and the heartbeat's cancel keep Inv2. *)
LEMMA OtherInv2 ==
  ASSUME Inv1, Inv2
  PROVE  /\ \A t \in Task : HeartbeatExpires(t) => Inv2'
         /\ \A d \in Worker, t \in Task : HeartbeatKills(d, t) => Inv2'
         /\ UNCHANGED vars => Inv2'
<1> USE DEF Inv2, LiveRow, HolderOwnsRow, OneLive, FreshRow, Live, Holding, Owns,
            Inv1, Shape, TypeOK, QueueTypeOK, Active, Terminal, daemonVars, goVars
<1>1. ASSUME NEW t \in Task, HeartbeatExpires(t)
      PROVE  Inv2'
  BY <1>1 DEF HeartbeatExpires, Expire
<1>2. ASSUME NEW d \in Worker, NEW t \in Task, HeartbeatKills(d, t)
      PROVE  Inv2'
  BY <1>2 DEF HeartbeatKills, queueVars
<1>3. ASSUME UNCHANGED vars
      PROVE  Inv2'
  BY <1>3 DEF vars, queueVars
<1> QED BY <1>1, <1>2, <1>3

(* In the safe regimes no step breaks Inv2. *)
LEMMA NextInv2 == SafeRegime /\ Inv1 /\ Inv2 /\ [Next]_vars => Inv2'
  BY ApiInv2, ProcessInv2, SchedulerInv2, ExecuteInv2, OtherInv2 DEF Next

(* Both invariants hold of every state of the safe regimes. *)
LEMMA SpecInv ==
  ASSUME SafeRegime
  PROVE  Spec => [](Inv1 /\ Inv2)
<1>1. Init => Inv1 /\ Inv2
  BY InitInv1, InitInv2
<1>2. (Inv1 /\ Inv2) /\ [Next]_vars => (Inv1 /\ Inv2)'
  BY NextInv1, NextInv2
<1> QED BY <1>1, <1>2, PTL DEF Spec

(* In the safe regimes no task is ever run by two executions at once,      *)
(* whatever SQL calls fail and however often processes crash.              *)
THEOREM MutualExclusion ==
  ASSUME SafeRegime
  PROVE  Spec => []OneExecutionPerTask
<1>1. Inv2 => OneExecutionPerTask
  BY HoldingIsLive DEF Inv2, OneLive, OneExecutionPerTask
<1> QED BY <1>1, SpecInv, PTL

(* In the safe regimes the row of a running task names its daemon and is   *)
(* active, so the unguarded writes of queue.go hit the right row.          *)
THEOREM WritersOwnTheirRow ==
  ASSUME SafeRegime
  PROVE  Spec => []HolderOwnsRow
<1>1. Inv2 => HolderOwnsRow
  BY DEF Inv2
<1> QED BY <1>1, SpecInv, PTL

(* No step leaves a terminal status. *)
LEMMA StepTerminal ==
  ASSUME Inv1, Inv2, [Next]_vars, NEW u \in Task, status[u] \in Terminal
  PROVE  status'[u] = status[u]
<1> USE DEF Inv1, TypeOK, QueueTypeOK, Active, Terminal
<1>1. CASE \E t \in Task : Api(t)
  BY <1>1 DEF Api, CreateTask, Enqueue, CancelTask, CancelTaskLock, RequestCancelLock,
              CancelTaskEnd, RequestCancelEnd, CancelTaskFail, queueVars
<1>2. CASE \E t \in Task : HeartbeatExpires(t)
  BY <1>2 DEF HeartbeatExpires, Expire
<1>3. ASSUME NEW d \in Worker, Process(d)
      PROVE  status'[u] = status[u]
  <2>1. CASE RunRecovers(d)
    BY <2>1 DEF RunRecovers, RecoverOrphanedTasks, Orphaned, queueVars
  <2>2. CASE Boot(d) \/ Crash(d) \/ Stop(d) \/ RunReturns(d)
    BY <2>2 DEF Boot, Crash, Stop, RunReturns, queueVars
  <2> QED BY <1>3, <2>1, <2>2 DEF Process
<1>4. CASE \E d \in Worker : Scheduler(d)
  BY <1>4 DEF Scheduler, TickAgent, TickClaims, TickFindsNothing, TickFails, Claim,
              Claimable, queueVars
<1>5. ASSUME NEW g \in Goroutine, Execute(g)
      PROVE  status'[u] = status[u]
  <2>1. Holding(g) => job[g] # u
    BY DEF Inv2, HolderOwnsRow, Owns
  <2>2. CASE Start(g) \/ Done(g) \/ Release(g) \/ \E r \in Ending : RunnerReturns(g, r)
    BY <2>2 DEF Start, Done, Release, RunnerReturns, queueVars
  <2>3. CASE ExecuteMarks(g)
    BY <2>1, <2>3 DEF ExecuteMarks, MarkRunning, queueVars, Holding
  <2>4. CASE HeartbeatTick(g)
    BY <2>4 DEF HeartbeatTick, Heartbeat
  <2>5. CASE WriteTerminal(g)
    BY <2>1, <2>5 DEF WriteTerminal, Complete, Fail, Canceled, Finish, queueVars, Holding
  <2> QED BY <1>5, <2>2, <2>3, <2>4, <2>5 DEF Execute
<1>6. CASE \E d \in Worker, t \in Task : HeartbeatKills(d, t)
  BY <1>6 DEF HeartbeatKills, queueVars
<1>7. CASE UNCHANGED vars
  BY <1>7 DEF vars, queueVars
<1> QED BY <1>1, <1>2, <1>3, <1>4, <1>5, <1>6, <1>7 DEF Next

(* In the safe regimes completed, failed and canceled are final. *)
THEOREM TerminalFinality ==
  ASSUME SafeRegime
  PROVE  Spec => TerminalIsFinal
<1>1. Inv1 /\ Inv2 /\ [Next]_vars
        => [\A t \in Task : status[t] \in Terminal => status'[t] = status[t]]_vars
  BY StepTerminal
<1> QED BY <1>1, SpecInv, PTL DEF Spec, TerminalIsFinal

-----------------------------------------------------------------------------
(*                        The lease of a task                              *)

Held == [t \in Task |-> Holders(t)]

LeaseStep == [Lease!Next]_<<status, Held>>

-----------------------------------------------------------------------------
(* A pending or orphaned row has no holder, an execution has its row alone.*)
LEMMA HoldersOfRow ==
  ASSUME Inv1, Inv2
  PROVE  /\ \A t \in Task : status[t] \notin Active => Holders(t) = {}
         /\ \A g \in Goroutine : Holding(g) =>
              job[g] \in Task /\ status[job[g]] \in Active /\ Holders(job[g]) = {g}
<1>1. \A g \in Goroutine : Holding(g) => Live(g) /\ job[g] \in Task /\ status[job[g]] \in Active
  BY HoldingIsLive DEF Inv1, Shape, Inv2, HolderOwnsRow, Owns, Live
<1>2. \A g, h \in Goroutine : Holding(g) /\ Holding(h) /\ job[g] = job[h] => g = h
  BY <1>1 DEF Inv2, OneLive
<1> QED BY <1>1, <1>2 DEF Holders

(* Steps that nobody begins or ends an execution in. *)
LEMMA HoldersFrame ==
  ASSUME \A g \in Goroutine : Holding(g)' = Holding(g) /\ (Holding(g) => job'[g] = job[g])
  PROVE  Held' = Held
  BY DEF Held, Holders

(* Steps that the lease does not see. *)
LEMMA Stutter ==
  ASSUME UNCHANGED status,
         \A g \in Goroutine : Holding(g)' = Holding(g) /\ (Holding(g) => job'[g] = job[g])
  PROVE  LeaseStep
  BY HoldersFrame DEF LeaseStep

(* Of the API the lease sees the insertion only. *)
LEMMA ApiLease ==
  ASSUME Inv1, Inv2, NEW t \in Task, Api(t)
  PROVE  LeaseStep
<1>1. \A g \in Goroutine : Holding(g)' = Holding(g) /\ job'[g] = job[g]
  BY DEF Api, CreateTask, CancelTask, CancelTaskLock, CancelTaskEnd, CancelTaskFail,
         goVars, Holding
<1>2. ASSUME NEW a \in Agent, NEW p \in PriorityInput, CreateTask(t, a, p)
      PROVE  LeaseStep
  <2>1. status[t] = "absent" /\ status' = [status EXCEPT ![t] = "pending"]
    BY <1>2 DEF CreateTask, Enqueue
  <2>2. Held' = Held
    BY <1>1, HoldersFrame
  <2>3. Lease!Submit(t)
    BY <2>1, <2>2 DEF Lease!Submit, Held
  <2> QED BY <2>3 DEF LeaseStep, Lease!Next
<1>3. CASE \/ CancelTaskLock(t) \/ CancelTaskEnd(t) \/ CancelTaskFail(t)
           \/ \E d \in Worker : CancelTask(d, t)
  BY <1>1, <1>3, Stutter DEF CancelTaskLock, CancelTaskEnd, CancelTaskFail, CancelTask,
     RequestCancelLock, RequestCancelEnd, queueVars
<1> QED BY <1>2, <1>3 DEF Api

(* A recovery takes back rows without a holder; in a crash holders vanish. *)
LEMMA ProcessLease ==
  ASSUME SafeRegime, Inv1, Inv2, NEW d \in Worker, Process(d)
  PROVE  LeaseStep
<1>1. CASE Boot(d) \/ Stop(d) \/ RunReturns(d)
  BY <1>1, Stutter DEF Boot, Stop, RunReturns, goVars, queueVars, Holding
<1>2. CASE RunRecovers(d)
  <2>1. \A g \in Goroutine : Holding(g)' = Holding(g) /\ job'[g] = job[g]
    BY <1>2 DEF RunRecovers, goVars, Holding
  <2>2. CASE UNCHANGED queueVars
    BY <2>1, <2>2, Stutter DEF queueVars
  <2>3. CASE RecoverOrphanedTasks
    <3>1. \A g \in Goroutine : Holding(g) => job[g] \notin Orphaned
      BY <1>2, RecoverySparesLive, HoldingIsLive DEF RunRecovers
    <3>2. \A t \in Orphaned : status[t] \in Active /\ Held[t] = {}
      BY <3>1 DEF Orphaned, Held, Holders
    <3>3. Held' = Held
      BY <2>1, HoldersFrame
    <3>4. Lease!Recover(Orphaned)
      BY <2>3, <3>2, <3>3 DEF Lease!Recover, RecoverOrphanedTasks, Held, Lease!Active, Active
    <3>5. Orphaned \in SUBSET Task
      BY DEF Orphaned
    <3> QED BY <3>4, <3>5 DEF LeaseStep, Lease!Next
  <2> QED BY <1>2, <2>2, <2>3 DEF RunRecovers
<1>3. CASE Crash(d)
  <2> DEFINE gs == {g \in Goroutine : home[g] = d}
  <2>1. UNCHANGED status
    BY <1>3 DEF Crash, queueVars
  <2>2. \A g \in Goroutine : Holding(g)' <=> Holding(g) /\ home[g] # d
    BY <1>3 DEF Crash, Holding
  <2>3. \A g \in Goroutine : home[g] # d => job'[g] = job[g]
    BY <1>3 DEF Crash
  <2>4. \A t \in Task : Holders(t)' = Holders(t) \ gs
    BY <2>2, <2>3 DEF Holders
  <2>5. Lease!Vanish(gs)
    BY <2>1, <2>4 DEF Lease!Vanish, Held
  <2> QED BY <2>5 DEF LeaseStep, Lease!Next
<1> QED BY <1>1, <1>2, <1>3 DEF Process

(* A claim hands a free task to one execution, or to none. *)
LEMMA SchedulerLease ==
  ASSUME Inv1, Inv2, NEW d \in Worker, Scheduler(d)
  PROVE  LeaseStep
<1>1. CASE TickFindsNothing(d) \/ \E a \in Agent : TickAgent(d, a)
  BY <1>1, Stutter DEF TickFindsNothing, TickAgent, goVars, queueVars, Holding
<1>2. ASSUME NEW t \in Task, NEW g \in Goroutine, TickClaims(d, t, g)
      PROVE  LeaseStep
  <2>1. status[t] = "pending" /\ status' = [status EXCEPT ![t] = "claimed"]
    BY <1>2 DEF TickClaims, Claim, Claimable
  <2>2. /\ ~Holding(g) /\ Holding(g)' /\ job'[g] = t
        /\ \A h \in Goroutine : h # g => Holding(h)' = Holding(h) /\ job'[h] = job[h]
    BY <1>2 DEF TickClaims, Holding, Inv1, TypeOK
  <2>3. Holders(t) = {}
    BY <2>1, HoldersOfRow DEF Active
  <2>4. Holders(t)' = {g} /\ \A u \in Task : u # t => Holders(u)' = Holders(u)
    BY <2>2, <2>3 DEF Holders
  <2>5. Lease!Take(t, {g})
    BY <2>1, <2>3, <2>4 DEF Lease!Take, Held
  <2> QED BY <2>5 DEF LeaseStep, Lease!Next
<1>3. CASE TickFails(d)
  <2>1. \A g \in Goroutine : Holding(g)' = Holding(g) /\ job'[g] = job[g]
    BY <1>3 DEF TickFails, goVars, Holding
  <2>2. CASE UNCHANGED queueVars
    BY <2>1, <2>2, Stutter DEF queueVars
  <2>3. ASSUME NEW t \in Task, NEW held, Claim(d, turn[d], held, t)
        PROVE  LeaseStep
    <3>1. status[t] = "pending" /\ status' = [status EXCEPT ![t] = "claimed"]
      BY <2>3 DEF Claim, Claimable
    <3>2. Held' = Held /\ Held[t] = {}
      BY <2>1, <3>1, HoldersFrame, HoldersOfRow DEF Held, Active
    <3>3. Lease!Take(t, {})
      BY <3>1, <3>2 DEF Lease!Take, Held
    <3> QED BY <3>3 DEF LeaseStep, Lease!Next
  <2> QED BY <1>3, <2>2, <2>3 DEF TickFails
<1> QED BY <1>1, <1>2, <1>3 DEF Scheduler

(* A goroutine starts and ends the task it holds, or vanishes with its     *)
(* terminal write lost.                                                    *)
LEMMA ExecuteLease ==
  ASSUME Inv1, Inv2, NEW g \in Goroutine, Execute(g)
  PROVE  LeaseStep
<1>1. CASE Start(g) \/ Done(g) \/ \E r \in Ending : RunnerReturns(g, r)
  <2>1. UNCHANGED <<status, job>>
    BY <1>1 DEF Start, Done, RunnerReturns, queueVars
  <2>2. \A h \in Goroutine : Holding(h)' = Holding(h)
    BY <1>1 DEF Start, Done, RunnerReturns, Holding, Inv1, TypeOK
  <2> QED BY <2>1, <2>2, Stutter
<1>2. CASE HeartbeatTick(g)
  BY <1>2, Stutter DEF HeartbeatTick, Heartbeat, Holding
<1>3. CASE Release(g)
  <2>1. UNCHANGED status
    BY <1>3 DEF Release, queueVars
  <2>2. \A h \in Goroutine : Holding(h)' = Holding(h) /\ (Holding(h) => job'[h] = job[h])
    BY <1>3 DEF Release, Holding, Inv1, TypeOK
  <2> QED BY <2>1, <2>2, Stutter
<1>4. CASE ExecuteMarks(g)
  <2>1. /\ pc[g] = "marking" /\ pc' = [pc EXCEPT ![g] = "run"] /\ UNCHANGED job
        /\ status' = status \/ status' = [status EXCEPT ![job[g]] = "running"]
    BY <1>4 DEF ExecuteMarks, MarkRunning, queueVars
  <2>2. \A h \in Goroutine : Holding(h)' = Holding(h) /\ job'[h] = job[h]
    BY <2>1 DEF Holding, Inv1, TypeOK
  <2>3. job[g] \in Task /\ status[job[g]] \in Active /\ Holders(job[g]) = {g}
    BY <2>1, HoldersOfRow DEF Holding
  <2>4. CASE status' = status
    BY <2>2, <2>4, Stutter
  <2>5. CASE status[job[g]] = "claimed" /\ status' = [status EXCEPT ![job[g]] = "running"]
    <3>1. Held' = Held /\ Held[job[g]] # {}
      BY <2>2, <2>3, HoldersFrame DEF Held
    <3>2. Lease!StartRunning(job[g])
      BY <2>5, <3>1 DEF Lease!StartRunning, Held
    <3> QED BY <2>3, <3>2 DEF LeaseStep, Lease!Next
  <2>6. status[job[g]] = "running" /\ status' = [status EXCEPT ![job[g]] = "running"] => status' = status
    BY DEF Inv1, TypeOK, QueueTypeOK
  <2> QED BY <2>1, <2>3, <2>4, <2>5, <2>6 DEF Active
<1>5. CASE WriteTerminal(g)
  <2>1. /\ pc[g] = "write" /\ pc' = [pc EXCEPT ![g] = "done"] /\ UNCHANGED job
        /\ status' = status \/ \E s \in Terminal : status' = [status EXCEPT ![job[g]] = s]
    BY <1>5 DEF WriteTerminal, Complete, Fail, Canceled, Finish, queueVars, Terminal
  <2>2. \A h \in Goroutine : Holding(h)' <=> Holding(h) /\ h # g
    BY <2>1 DEF Holding, Inv1, TypeOK
  <2>3. job[g] \in Task /\ status[job[g]] \in Active /\ Holders(job[g]) = {g}
    BY <2>1, HoldersOfRow DEF Holding
  <2>4. \A t \in Task : Holders(t)' = Holders(t) \ {g}
    BY <2>1, <2>2 DEF Holders
  <2>5. CASE status' = status
    <3>1. Lease!Vanish({g})
      BY <2>4, <2>5 DEF Lease!Vanish, Held
    <3> QED BY <3>1 DEF LeaseStep, Lease!Next
  <2>6. ASSUME NEW s \in Terminal, status' = [status EXCEPT ![job[g]] = s]
        PROVE  LeaseStep
    <3>1. \A t \in Task : t # job[g] => g \notin Holders(t)
      BY DEF Holders
    <3>2. Held' = [Held EXCEPT ![job[g]] = {}]
      <4>1. \A t \in Task : t = job[g] => Holders(t)' = {}
        BY <2>3, <2>4
      <4>2. \A t \in Task : t # job[g] => Holders(t)' = Holders(t)
        BY <2>4, <3>1
      <4>3. \A t \in Task : Holders(t)' = IF t = job[g] THEN {} ELSE Holders(t)
        BY <4>1, <4>2
      <4> QED BY <4>3 DEF Held
    <3>3. Lease!End(job[g], s)
      BY <2>3, <2>6, <3>2 DEF Lease!End, Held, Lease!Active, Active
    <3> QED BY <2>3, <3>3 DEF LeaseStep, Lease!Next, Lease!Terminal, Terminal
  <2> QED BY <2>1, <2>5, <2>6
<1> QED BY <1>1, <1>2, <1>3, <1>4, <1>5 DEF Execute

(* Every step is a step of the lease or a stutter. *)
LEMMA NextLease == SafeRegime /\ Inv1 /\ Inv2 /\ [Next]_vars => LeaseStep
<1> SUFFICES ASSUME SafeRegime, Inv1, Inv2, [Next]_vars PROVE LeaseStep
  OBVIOUS
<1>1. CASE \E t \in Task : HeartbeatExpires(t)
  BY <1>1, Stutter DEF HeartbeatExpires, Expire, goVars, Holding
<1>2. CASE \E d \in Worker, t \in Task : HeartbeatKills(d, t)
  BY <1>2, Stutter DEF HeartbeatKills, queueVars, Holding
<1>3. CASE UNCHANGED vars
  BY <1>3, Stutter DEF vars, queueVars, goVars, Holding
<1> QED BY <1>1, <1>2, <1>3, ApiLease, ProcessLease, SchedulerLease, ExecuteLease DEF Next

(* In the safe regimes queue and daemons implement the lease: a task has   *)
(* at most one holder, only its holder moves it on, and a task is taken    *)
(* back only when it has lost its holder.                                  *)
THEOREM DaemonImplementsLease ==
  ASSUME SafeRegime
  PROVE  Spec => ImplementsLease
<1>1. Init => Lease!Init
  <2>1. Init => \A t \in Task : Holders(t) = {}
    BY DEF Init, Holders, Holding
  <2> QED BY <2>1 DEF Init, QueueInit, Lease!Init
<1>2. Inv1 /\ Inv2 /\ [Next]_vars
        => [Lease!Next]_<<status, [t \in Task |-> Holders(t)]>>
  BY NextLease DEF LeaseStep, Held
<1> QED BY <1>1, <1>2, SpecInv, PTL DEF Spec, ImplementsLease, Lease!Spec
=============================================================================
