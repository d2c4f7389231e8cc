------------------------- MODULE DaemonCauseProofs -------------------------
(***************************************************************************)
(* What becomes of cancels, and in which order tasks start, for any number *)
(* of tasks, agents, daemons and goroutines.                               *)
(*                                                                         *)
(* The registry of cancel functions is keyed by task: it agrees with the   *)
(* goroutines because no two live ones have the same task (Inv2).  A       *)
(* context is then cancelled only for its own task, and the status         *)
(* "canceled" can be traced back to a request or a shutdown (CauseInv).    *)
(* The order of the claims needs no regime (OrderInv).                     *)
(***************************************************************************)
EXTENDS DaemonProofs

-----------------------------------------------------------------------------
(*                      The registry of cancel functions                   *)

(* Steps that register nobody and take nobody out. *)
LEMMA RegistryFrame ==
  ASSUME Inv1, ManagerAgrees, UNCHANGED <<cancels, home, job>>,
         \A g \in Goroutine : Registered(g)' = Registered(g)
  PROVE  ManagerAgrees'
  BY DEF ManagerAgrees, Inv1, TypeOK

(* Registered goroutines are live, and those of one task are one. *)
LEMMA RegisteredIsLive ==
  ASSUME Inv1, Inv2
  PROVE  /\ \A g \in Goroutine : Registered(g) =>
              Live(g) /\ home[g] \in Worker /\ job[g] \in Task
         /\ \A g, h \in Goroutine : Live(g) /\ Live(h) /\ job[g] = job[h] => g = h
  BY DEF Inv1, Shape, Inv2, OneLive, Registered, Live

(* An entry of the registry is a registered goroutine of its process. *)
LEMMA EntryIsRegistered ==
  ASSUME Inv1, ManagerAgrees, NEW d \in Worker, NEW t \in Task, cancels[d][t] # NoGoroutine
  PROVE  /\ cancels[d][t] \in Goroutine /\ Registered(cancels[d][t])
         /\ home[cancels[d][t]] = d /\ job[cancels[d][t]] = t
<1>1. cancels[d][t] \in Goroutine \cup {NoGoroutine}
  BY DEF Inv1, TypeOK
<1>2. Registered(cancels[d][t]) /\ home[cancels[d][t]] = d /\ job[cancels[d][t]] = t
  BY DEF ManagerAgrees
<1> QED BY <1>1, <1>2

(* Start registers its goroutine and replaces no other. *)
LEMMA StartRegisters ==
  ASSUME Inv1, Inv2, ManagerAgrees, NEW g \in Goroutine, Start(g)
  PROVE  ManagerAgrees'
<1>1. /\ cancels' = [cancels EXCEPT ![home[g]][job[g]] = g]
      /\ pc[g] = "spawned" /\ pc' = [pc EXCEPT ![g] = "marking"]
      /\ UNCHANGED <<home, job>>
  BY DEF Start
<1>2. pc \in [Goroutine -> PC]
  BY DEF Inv1, TypeOK
<1>3. Live(g) /\ home[g] \in Worker /\ job[g] \in Task
  BY <1>1 DEF Inv1, Shape, Live
<1>4. \A d \in Worker, t \in Task : cancels'[d][t] =
        IF d = home[g] /\ t = job[g] THEN g ELSE cancels[d][t]
  BY <1>1, <1>3 DEF Inv1, TypeOK
<1>5. Registered(g)' /\ \A h \in Goroutine : h # g => Registered(h)' = Registered(h)
  BY <1>1, <1>2 DEF Registered
<1>6. ASSUME NEW h \in Goroutine, Registered(h)'
      PROVE  cancels'[home'[h]][job'[h]] = h
  <2>1. CASE h = g
    BY <1>1, <1>3, <1>4, <2>1
  <2>2. CASE h # g
    <3>1. Registered(h) /\ job[h] # job[g] /\ home[h] \in Worker /\ job[h] \in Task
      BY <1>3, <1>5, <1>6, <2>2, RegisteredIsLive
    <3>2. cancels[home[h]][job[h]] = h
      BY <3>1 DEF ManagerAgrees
    <3> QED BY <1>1, <1>3, <1>4, <3>1, <3>2
  <2> QED BY <2>1, <2>2
<1>7. ASSUME NEW d \in Worker, NEW t \in Task, NEW x, x = cancels'[d][t], x # NoGoroutine
      PROVE  Registered(x)' /\ home'[x] = d /\ job'[x] = t
  <2>1. CASE d = home[g] /\ t = job[g]
    BY <1>1, <1>3, <1>4, <1>5, <1>7, <2>1
  <2>2. CASE ~(d = home[g] /\ t = job[g])
    <3>1. cancels'[d][t] = cancels[d][t]
      BY <1>1, <1>3, <1>4, <2>2
    <3>2. /\ cancels[d][t] \in Goroutine /\ Registered(cancels[d][t])
          /\ home[cancels[d][t]] = d /\ job[cancels[d][t]] = t
      BY <1>7, <3>1, EntryIsRegistered
    <3> QED BY <1>1, <1>5, <1>7, <3>1, <3>2
  <2> QED BY <2>1, <2>2
<1> QED BY <1>6, <1>7 DEF ManagerAgrees

(* done() takes out the entry of its own goroutine. *)
LEMMA DoneUnregisters ==
  ASSUME Inv1, Inv2, ManagerAgrees, NEW g \in Goroutine, Done(g)
  PROVE  ManagerAgrees'
<1>1. /\ cancels' = [cancels EXCEPT ![home[g]][job[g]] = NoGoroutine]
      /\ pc[g] = "done" /\ pc' = [pc EXCEPT ![g] = "release"]
      /\ UNCHANGED <<home, job>>
  BY DEF Done
<1>2. pc \in [Goroutine -> PC]
  BY DEF Inv1, TypeOK
<1>3. Registered(g) /\ Live(g) /\ home[g] \in Worker /\ job[g] \in Task
  BY <1>1, RegisteredIsLive DEF Registered
<1>4. \A d \in Worker, t \in Task : cancels'[d][t] =
        IF d = home[g] /\ t = job[g] THEN NoGoroutine ELSE cancels[d][t]
  BY <1>1, <1>3 DEF Inv1, TypeOK
<1>5. ~Registered(g)' /\ \A h \in Goroutine : h # g => Registered(h)' = Registered(h)
  BY <1>1, <1>2 DEF Registered
<1>6. ASSUME NEW h \in Goroutine, Registered(h)'
      PROVE  cancels'[home'[h]][job'[h]] = h
  <2>1. h # g /\ Registered(h) /\ home[h] \in Worker /\ job[h] \in Task /\ job[h] # job[g]
    BY <1>3, <1>5, <1>6, RegisteredIsLive
  <2>2. cancels[home[h]][job[h]] = h
    BY <2>1 DEF ManagerAgrees
  <2> QED BY <1>1, <1>3, <1>4, <2>1, <2>2
<1>7. ASSUME NEW d \in Worker, NEW t \in Task, NEW x, x = cancels'[d][t], x # NoGoroutine
      PROVE  Registered(x)' /\ home'[x] = d /\ job'[x] = t
  <2>1. ~(d = home[g] /\ t = job[g])
    BY <1>3, <1>4, <1>7
  <2>2. cancels'[d][t] = cancels[d][t]
    BY <1>1, <1>3, <1>4, <2>1
  <2>3. /\ cancels[d][t] \in Goroutine /\ Registered(cancels[d][t])
        /\ home[cancels[d][t]] = d /\ job[cancels[d][t]] = t
    BY <1>7, <2>2, EntryIsRegistered
  <2>4. cancels[d][t] # g
    BY <2>1, <2>3
  <2> QED BY <1>1, <1>5, <1>7, <2>2, <2>3, <2>4
<1> QED BY <1>6, <1>7 DEF ManagerAgrees

(* A process takes its registry with it. *)
LEMMA CrashUnregisters ==
  ASSUME Inv1, ManagerAgrees, NEW d \in Worker, Crash(d)
  PROVE  ManagerAgrees'
<1>1. cancels' = [cancels EXCEPT ![d] = [t \in Task |-> NoGoroutine]]
  BY DEF Crash
<1>2. cancels \in [Worker -> [Task -> Goroutine \cup {NoGoroutine}]]
  BY DEF Inv1, TypeOK
<1>3. \A g \in Goroutine : home[g] # d =>
        home'[g] = home[g] /\ job'[g] = job[g] /\ Registered(g)' = Registered(g)
  BY DEF Crash, Registered
<1>4. \A g \in Goroutine : home[g] = d => ~Registered(g)'
  BY DEF Crash, Registered
<1>5. \A e \in Worker : e # d => cancels'[e] = cancels[e]
  BY <1>1, <1>2
<1>6. ASSUME NEW g \in Goroutine, Registered(g)'
      PROVE  cancels'[home'[g]][job'[g]] = g
  <2>1. home[g] # d /\ Registered(g)
    BY <1>3, <1>4, <1>6
  <2>2. home[g] \in Worker
    BY <2>1 DEF Inv1, Shape, Registered
  <2> QED BY <1>3, <1>5, <2>1, <2>2 DEF ManagerAgrees
<1>7. ASSUME NEW e \in Worker, NEW t \in Task, NEW x, x = cancels'[e][t], x # NoGoroutine
      PROVE  Registered(x)' /\ home'[x] = e /\ job'[x] = t
  <2>1. e # d
    BY <1>1, <1>2, <1>7
  <2>2. /\ cancels[e][t] \in Goroutine /\ Registered(cancels[e][t])
        /\ home[cancels[e][t]] = e /\ job[cancels[e][t]] = t
    BY <1>5, <1>7, <2>1, EntryIsRegistered
  <2> QED BY <1>3, <1>5, <1>7, <2>1, <2>2
<1> QED BY <1>6, <1>7 DEF ManagerAgrees

(* Goroutines are born and released outside the registry. *)
LEMMA LifeRegistry ==
  ASSUME Inv1, ManagerAgrees, NEW g \in Goroutine,
         Release(g) \/ \E d \in Worker, t \in Task : TickClaims(d, t, g)
  PROVE  ManagerAgrees'
<1>1. ~Registered(g) /\ ~Registered(g)' /\ UNCHANGED cancels
  BY DEF Release, TickClaims, Registered, Inv1, TypeOK
<1>2. \A h \in Goroutine : h # g =>
        home'[h] = home[h] /\ job'[h] = job[h] /\ Registered(h)' = Registered(h)
  BY DEF Release, TickClaims, Registered, Inv1, TypeOK
<1>3. \A h \in Goroutine : Registered(h)' => cancels'[home'[h]][job'[h]] = h
  BY <1>1, <1>2 DEF ManagerAgrees
<1>4. ASSUME NEW e \in Worker, NEW t \in Task, NEW x, x = cancels'[e][t], x # NoGoroutine
      PROVE  Registered(x)' /\ home'[x] = e /\ job'[x] = t
  <2>1. /\ cancels[e][t] \in Goroutine /\ Registered(cancels[e][t])
        /\ home[cancels[e][t]] = e /\ job[cancels[e][t]] = t
    BY <1>1, <1>4, EntryIsRegistered
  <2> QED BY <1>1, <1>2, <1>4, <2>1
<1> QED BY <1>3, <1>4 DEF ManagerAgrees

(* No step breaks the agreement. *)
LEMMA NextRegistry == Inv1 /\ Inv2 /\ ManagerAgrees /\ [Next]_vars => ManagerAgrees'
<1> SUFFICES ASSUME Inv1, Inv2, ManagerAgrees, [Next]_vars PROVE ManagerAgrees'
  OBVIOUS
<1>1. CASE \E t \in Task : Api(t) \/ HeartbeatExpires(t)
  BY <1>1, RegistryFrame DEF Api, HeartbeatExpires, CreateTask, CancelTask, CancelTaskLock,
     CancelTaskEnd, CancelTaskFail, daemonVars, goVars, Registered
<1>2. ASSUME NEW d \in Worker, Process(d)
      PROVE  ManagerAgrees'
  BY <1>2, RegistryFrame, CrashUnregisters
     DEF Process, Boot, RunRecovers, Stop, RunReturns, goVars, Registered
<1>3. ASSUME NEW d \in Worker, Scheduler(d)
      PROVE  ManagerAgrees'
  <2>1. CASE \E a \in Agent : TickAgent(d, a)
    BY <2>1, RegistryFrame DEF TickAgent, goVars, Registered
  <2>2. CASE \E t \in Task, g \in Goroutine : TickClaims(d, t, g)
    BY <2>2, LifeRegistry
  <2>3. CASE TickFindsNothing(d) \/ TickFails(d)
    BY <2>3, RegistryFrame DEF TickFindsNothing, TickFails, goVars, Registered
  <2> QED BY <1>3, <2>1, <2>2, <2>3 DEF Scheduler
<1>4. ASSUME NEW g \in Goroutine, Execute(g)
      PROVE  ManagerAgrees'
  <2>1. CASE ExecuteMarks(g) \/ HeartbeatTick(g) \/ WriteTerminal(g)
             \/ \E r \in Ending : RunnerReturns(g, r)
    <3>1. UNCHANGED <<cancels, home, job>>
      BY <2>1 DEF ExecuteMarks, HeartbeatTick, WriteTerminal, RunnerReturns, daemonVars
    <3>2. \/ pc' = pc
          \/ Registered(g) /\ \E x \in {"run", "write", "done"} : pc' = [pc EXCEPT ![g] = x]
      BY <2>1 DEF ExecuteMarks, HeartbeatTick, WriteTerminal, RunnerReturns, Registered
    <3>3. \A h \in Goroutine : Registered(h)' = Registered(h)
      BY <3>2 DEF Registered, Inv1, TypeOK
    <3> QED BY <3>1, <3>3, RegistryFrame
  <2> QED BY <1>4, <2>1, StartRegisters, DoneUnregisters, LifeRegistry DEF Execute
<1>5. CASE \E d \in Worker, t \in Task : HeartbeatKills(d, t)
  BY <1>5, RegistryFrame DEF HeartbeatKills, daemonVars, Registered
<1>6. CASE UNCHANGED vars
  BY <1>6, RegistryFrame DEF vars, daemonVars, goVars, Registered
<1> QED BY <1>1, <1>2, <1>3, <1>4, <1>5, <1>6 DEF Next

(* In the safe regimes a cancel by task id (context.go:38-46) reaches the  *)
(* execution it is meant for and no other: the registry holds exactly the  *)
(* goroutines between Start and done().                                    *)
THEOREM RegistryAgrees ==
  ASSUME SafeRegime
  PROVE  Spec => []ManagerAgrees
<1>1. Init => ManagerAgrees
  BY DEF Init, ManagerAgrees, Registered
<1>2. Inv1 /\ Inv2 /\ ManagerAgrees /\ [Next]_vars => ManagerAgrees'
  BY NextRegistry
<1> QED BY <1>1, <1>2, SpecInv, PTL DEF Spec

-----------------------------------------------------------------------------
(*                        The causes of a canceled row                     *)

Asked(t) == api[t] # "never"
Cause(t) == Asked(t) \/ t \in stopped

(* Flags, locks and pending calls of Manager.Cancel come from requests.    *)
AskedFirst ==
    /\ \A t \in Task : cancelRequested[t] \/ t \in locked => Asked(t)
    /\ \A d \in Worker, t \in Task : <<d, t>> \in kills => Asked(t)

(* A context is cancelled for its own task only; a goroutine in a process  *)
(* that shuts down is in the history; the branch and the row follow.       *)
Reasons ==
    /\ \A g \in Goroutine : canceled[g] => Live(g) /\ Asked(job[g])
    /\ \A g \in Goroutine : Live(g) /\ mode[home[g]] = "stopping" => job[g] \in stopped
    /\ \A g \in Goroutine : pc[g] = "write" /\ outcome[g] = "canceled" => Cause(job[g])
    /\ CancelHasCause

CauseInv == AskedFirst /\ Reasons

(* Requests and shutdowns are never forgotten. *)
LEMMA CausesStay ==
  ASSUME Inv1, [Next]_vars, NEW t \in Task
  PROVE  (Asked(t) => Asked(t)') /\ (t \in stopped => t \in stopped')
<1> USE DEF Asked, Inv1, TypeOK
<1>1. CASE \E u \in Task : Api(u)
  BY <1>1 DEF Api, CreateTask, CancelTask, CancelTaskLock, CancelTaskEnd, CancelTaskFail, daemonVars
<1>2. CASE \E u \in Task : HeartbeatExpires(u)
  BY <1>2 DEF HeartbeatExpires, daemonVars
<1>3. CASE \E d \in Worker : Process(d)
  BY <1>3 DEF Process, Boot, RunRecovers, Crash, Stop, RunReturns
<1>4. CASE \E d \in Worker : Scheduler(d)
  BY <1>4 DEF Scheduler, TickAgent, TickClaims, TickFindsNothing, TickFails
<1>5. CASE \E g \in Goroutine : Execute(g)
  BY <1>5 DEF Execute, Start, ExecuteMarks, HeartbeatTick, RunnerReturns, WriteTerminal, Done,
              Release, daemonVars
<1>6. CASE \E d \in Worker, u \in Task : HeartbeatKills(d, u)
  BY <1>6 DEF HeartbeatKills, daemonVars
<1>7. CASE UNCHANGED vars
  BY <1>7 DEF vars, daemonVars
<1> QED BY <1>1, <1>2, <1>3, <1>4, <1>5, <1>6, <1>7 DEF Next

(* Only CancelTask's statement sets the flag or takes the lock; only a     *)
(* heartbeat that saw the flag, its row being its own, calls Cancel.       *)
LEMMA NextAskedFirst ==
  ASSUME Inv1, Inv2, AskedFirst, [Next]_vars
  PROVE  AskedFirst'
<1>1. \A t \in Task : Asked(t) => Asked(t)'
  BY CausesStay
<1>2. ASSUME UNCHANGED <<cancelRequested, locked>>, kills' \subseteq kills
      PROVE  AskedFirst'
  BY <1>1, <1>2 DEF AskedFirst
<1>3. CASE \E t \in Task : Api(t)
  <2>1. PICK t \in Task : Api(t)
    BY <1>3
  <2>2. CASE CancelTaskLock(t)
    <3>1. Asked(t) /\ locked' = locked \cup {t} /\ UNCHANGED <<cancelRequested, kills>>
      BY <2>2 DEF CancelTaskLock, RequestCancelLock, goVars, Asked
    <3> QED BY <1>1, <3>1 DEF AskedFirst
  <2>3. CASE CancelTaskEnd(t)
    <3>1. /\ Asked(t) /\ locked' = locked \ {t} /\ UNCHANGED kills
          /\ \E c \in BOOLEAN : cancelRequested' = [cancelRequested EXCEPT ![t] = @ \/ c]
      BY <2>3 DEF CancelTaskEnd, RequestCancelEnd, goVars, Asked
    <3>2. \A u \in Task : u # t => cancelRequested'[u] = cancelRequested[u]
      BY <3>1 DEF Inv1, TypeOK, QueueTypeOK
    <3> QED BY <1>1, <3>1, <3>2 DEF AskedFirst
  <2>4. CASE CancelTaskFail(t) \/ \E d \in Worker : CancelTask(d, t)
    BY <1>2, <2>4 DEF CancelTaskFail, CancelTask, queueVars, goVars
  <2>5. CASE \E a \in Agent, p \in PriorityInput : CreateTask(t, a, p)
    BY <1>2, <2>5 DEF CreateTask, Enqueue, goVars
  <2> QED BY <2>1, <2>2, <2>3, <2>4, <2>5 DEF Api
<1>4. CASE \E t \in Task : HeartbeatExpires(t)
  BY <1>2, <1>4 DEF HeartbeatExpires, Expire, goVars
<1>5. CASE \E d \in Worker : Process(d)
  <2>1. UNCHANGED <<cancelRequested, locked>>
    BY <1>5 DEF Process, Boot, RunRecovers, Crash, Stop, RunReturns, RecoverOrphanedTasks, queueVars
  <2>2. kills' \subseteq kills
    BY <1>5 DEF Process, Boot, RunRecovers, Crash, Stop, RunReturns, goVars
  <2> QED BY <1>2, <2>1, <2>2
<1>6. CASE \E d \in Worker : Scheduler(d)
  BY <1>2, <1>6 DEF Scheduler, TickAgent, TickClaims, TickFindsNothing, TickFails, Claim,
                       queueVars, goVars
<1>7. ASSUME NEW g \in Goroutine, Execute(g)
      PROVE  AskedFirst'
  <2>1. CASE HeartbeatTick(g)
    <3>1. UNCHANGED <<cancelRequested, locked>> /\ beating[g]
      BY <2>1 DEF HeartbeatTick, Heartbeat
    <3>2. Owns(home[g], job[g]) /\ job[g] \in Task
      BY <3>1 DEF Inv1, Shape, Inv2, HolderOwnsRow, Holding
    <3>3. \/ kills' = kills
          \/ kills' = kills \cup {<<home[g], job[g]>>} /\ cancelRequested[job[g]]
      BY <2>1, <3>2 DEF HeartbeatTick, CancelSeen
    <3> QED BY <1>1, <3>1, <3>2, <3>3 DEF AskedFirst
  <2>2. CASE ~HeartbeatTick(g)
    <3>1. UNCHANGED <<cancelRequested, locked>>
      BY <1>7, <2>2 DEF Execute, Start, ExecuteMarks, RunnerReturns, WriteTerminal, Done, Release,
         MarkRunning, Complete, Fail, Canceled, Finish, queueVars
    <3>2. kills' = kills
      BY <1>7, <2>2 DEF Execute, Start, ExecuteMarks, RunnerReturns, WriteTerminal, Done, Release
    <3> QED BY <1>2, <3>1, <3>2
  <2> QED BY <2>1, <2>2
<1>8. CASE \E d \in Worker, t \in Task : HeartbeatKills(d, t)
  BY <1>2, <1>8 DEF HeartbeatKills, queueVars
<1>9. CASE UNCHANGED vars
  BY <1>2, <1>9 DEF vars, queueVars, goVars
<1> QED BY <1>3, <1>4, <1>5, <1>6, <1>7, <1>8, <1>9 DEF Next

(* Steps that move no goroutine, begin no shutdown and cancel no row. *)
LEMMA ReasonsFrame ==
  ASSUME Inv1, Reasons, [Next]_vars, UNCHANGED <<pc, home, job, canceled, outcome>>,
         \A d \in Worker : mode'[d] = "stopping" => mode[d] = "stopping",
         \A t \in Task : status'[t] = "canceled" => status[t] = "canceled"
  PROVE  Reasons'
<1>1. \A t \in Task : (Asked(t) => Asked(t)') /\ (t \in stopped => t \in stopped')
  BY CausesStay
<1>2. \A g \in Goroutine : Live(g) => home[g] \in Worker /\ job[g] \in Task
  BY DEF Inv1, Shape, Live
<1>3. \A g \in Goroutine : pc[g] = "write" => Live(g)
  BY DEF Live
<1> QED BY <1>1, <1>2, <1>3 DEF Reasons, CancelHasCause, Cause, Asked, Live

(* Manager.Cancel, whoever calls it, cancels the context of that task. *)
LEMMA CancelReasons ==
  ASSUME Inv1, ManagerAgrees, Reasons, [Next]_vars,
         NEW d \in Worker, NEW t \in Task, Asked(t)',
         canceled' = IF cancels[d][t] = NoGoroutine THEN canceled
                     ELSE [canceled EXCEPT ![cancels[d][t]] = TRUE],
         UNCHANGED <<pc, home, job, outcome, mode, status>>
  PROVE  Reasons'
<1>1. \A u \in Task : (Asked(u) => Asked(u)') /\ (u \in stopped => u \in stopped')
  BY CausesStay
<1>2. \A g \in Goroutine : Live(g) => home[g] \in Worker /\ job[g] \in Task
  BY DEF Inv1, Shape, Live
<1>3. \A g \in Goroutine : canceled'[g] => Live(g)' /\ Asked(job[g])'
  <2>1. CASE cancels[d][t] = NoGoroutine
    BY <1>1, <1>2, <2>1 DEF Reasons, Live
  <2>2. CASE cancels[d][t] # NoGoroutine
    <3>1. /\ cancels[d][t] \in Goroutine /\ Registered(cancels[d][t])
          /\ job[cancels[d][t]] = t
      BY <2>2, EntryIsRegistered
    <3>2. \A g \in Goroutine : g # cancels[d][t] => canceled'[g] = canceled[g]
      BY <2>2 DEF Inv1, TypeOK
    <3> QED BY <1>1, <1>2, <3>1, <3>2 DEF Reasons, Live, Registered
  <2> QED BY <2>1, <2>2
<1>4. \A g \in Goroutine : pc[g] = "write" => Live(g)
  BY DEF Live
<1> QED BY <1>1, <1>2, <1>3, <1>4 DEF Reasons, CancelHasCause, Cause, Asked, Live

(* The shutdown puts the tasks of its process into the history; a crash    *)
(* takes its goroutines away.                                              *)
LEMMA ProcessReasons ==
  ASSUME Inv1, Reasons, [Next]_vars, NEW d \in Worker, Process(d)
  PROVE  Reasons'
<1> DEFINE Kept == \A t \in Task : (Asked(t) => Asked(t)') /\ (t \in stopped => t \in stopped')
<1>1. Kept
  BY CausesStay
<1>2. \A g \in Goroutine : Live(g) => home[g] \in Worker /\ job[g] \in Task
  BY DEF Inv1, Shape, Live
<1>3. CASE Boot(d) \/ RunRecovers(d) \/ RunReturns(d)
  <2>1. UNCHANGED <<pc, home, job, canceled, outcome>>
    BY <1>3 DEF Boot, RunRecovers, RunReturns, goVars
  <2>2. \A e \in Worker : mode'[e] = "stopping" => mode[e] = "stopping"
    BY <1>3 DEF Boot, RunRecovers, RunReturns, Inv1, TypeOK
  <2>3. \A t \in Task : status'[t] = "canceled" => status[t] = "canceled"
    BY <1>3 DEF Boot, RunRecovers, RunReturns, RecoverOrphanedTasks, queueVars
  <2> QED BY <2>1, <2>2, <2>3, ReasonsFrame
<1>4. CASE Stop(d)
  <2>1. /\ UNCHANGED <<pc, home, job, canceled, outcome, status, api>>
        /\ mode' = [mode EXCEPT ![d] = "stopping"]
        /\ \A g \in Goroutine : home[g] = d => job[g] \in stopped'
    BY <1>4 DEF Stop, goVars, queueVars
  <2>2. \A e \in Worker : e # d => mode'[e] = mode[e]
    BY <2>1 DEF Inv1, TypeOK
  <2>3. \A g \in Goroutine : pc[g] = "write" => Live(g)
    BY DEF Live
  <2>4. \A g \in Goroutine : Live(g)' /\ mode'[home'[g]] = "stopping" => job'[g] \in stopped'
    BY <1>1, <1>2, <2>1, <2>2 DEF Reasons, Live
  <2> QED BY <1>1, <1>2, <2>1, <2>3, <2>4 DEF Reasons, CancelHasCause, Cause, Asked, Live
<1>5. CASE Crash(d)
  <2>1. /\ UNCHANGED <<status, api, stopped>>
        /\ \A g \in Goroutine : home[g] = d => ~Live(g)' /\ ~canceled'[g] /\ pc'[g] = "idle"
        /\ \A g \in Goroutine : home[g] # d =>
             /\ pc'[g] = pc[g] /\ home'[g] = home[g] /\ job'[g] = job[g]
             /\ canceled'[g] = canceled[g] /\ outcome'[g] = outcome[g]
    BY <1>5 DEF Crash, Live, queueVars
  <2>2. \A e \in Worker : e # d => mode'[e] = mode[e]
    BY <1>5 DEF Crash, Inv1, TypeOK
  <2>3. CancelHasCause'
    BY <2>1 DEF Reasons, CancelHasCause
  <2>4. \A g \in Goroutine : canceled'[g] => Live(g)' /\ Asked(job[g])'
    BY <2>1 DEF Reasons, Asked, Live
  <2>5. \A g \in Goroutine : Live(g)' /\ mode'[home'[g]] = "stopping" => job'[g] \in stopped'
    BY <1>2, <2>1, <2>2 DEF Reasons, Live
  <2>6. \A g \in Goroutine : pc'[g] = "write" /\ outcome'[g] = "canceled" => Cause(job[g])'
    BY <2>1 DEF Reasons, Cause, Asked
  <2> QED BY <2>3, <2>4, <2>5, <2>6 DEF Reasons, Asked
<1> QED BY <1>3, <1>4, <1>5 DEF Process

(* A new goroutine has a context nobody has cancelled, in a process that   *)
(* does not shut down.                                                     *)
LEMMA SchedulerReasons ==
  ASSUME Inv1, Reasons, [Next]_vars, NEW d \in Worker, Scheduler(d)
  PROVE  Reasons'
<1>1. CASE TickFindsNothing(d) \/ TickFails(d) \/ \E a \in Agent : TickAgent(d, a)
  <2>1. UNCHANGED <<pc, home, job, canceled, outcome, mode>>
    BY <1>1 DEF TickFindsNothing, TickFails, TickAgent, goVars
  <2>2. \/ status' = status
        \/ \E t \in Task : status' = [status EXCEPT ![t] = "claimed"]
    BY <1>1 DEF TickFindsNothing, TickFails, TickAgent, Claim, queueVars
  <2>3. \A t \in Task : status'[t] = "canceled" => status[t] = "canceled"
    BY <2>2 DEF Inv1, TypeOK, QueueTypeOK
  <2> QED BY <2>1, <2>3, ReasonsFrame
<1>2. ASSUME NEW t \in Task, NEW g \in Goroutine, TickClaims(d, t, g)
      PROVE  Reasons'
  <2>1. /\ mode[d] = "up" /\ pc[g] = "idle"
        /\ pc' = [pc EXCEPT ![g] = "spawned"]
        /\ home' = [home EXCEPT ![g] = d]
        /\ job' = [job EXCEPT ![g] = t]
        /\ UNCHANGED <<mode, stopped, canceled, outcome, api>>
    BY <1>2 DEF TickClaims
  <2>2. \A u \in Task : status'[u] = "canceled" => status[u] = "canceled"
    BY <1>2 DEF TickClaims, Claim, Inv1, TypeOK, QueueTypeOK
  <2>3. ~canceled[g]
    BY <2>1 DEF Reasons, Live
  <2>4. /\ \A h \in Goroutine : h # g => pc'[h] = pc[h]
        /\ \A h \in Goroutine : h # g => home'[h] = home[h] /\ job'[h] = job[h]
        /\ pc'[g] = "spawned" /\ home'[g] = d
    BY <2>1 DEF Inv1, TypeOK
  <2>5. CancelHasCause'
    BY <2>1, <2>2 DEF Reasons, CancelHasCause
  <2>6. \A h \in Goroutine : canceled'[h] => Live(h)' /\ Asked(job[h])'
    BY <2>1, <2>3, <2>4 DEF Reasons, Asked, Live
  <2>7. \A h \in Goroutine : Live(h)' /\ mode'[home'[h]] = "stopping" => job'[h] \in stopped'
    BY <2>1, <2>4 DEF Reasons, Live
  <2>8. \A h \in Goroutine : pc'[h] = "write" /\ outcome'[h] = "canceled" => Cause(job[h])'
    BY <2>1, <2>4 DEF Reasons, Cause, Asked
  <2> QED BY <2>5, <2>6, <2>7, <2>8 DEF Reasons, Asked
<1> QED BY <1>1, <1>2 DEF Scheduler

(* The branch of the switch follows the context, the row the branch. *)
LEMMA ExecuteReasons ==
  ASSUME Inv1, Reasons, [Next]_vars, NEW g \in Goroutine, Execute(g)
  PROVE  Reasons'
<1>1. \A t \in Task : (Asked(t) => Asked(t)') /\ (t \in stopped => t \in stopped')
  BY CausesStay
<1>2. \A h \in Goroutine : Live(h) => home[h] \in Worker /\ job[h] \in Task
  BY DEF Inv1, Shape, Live
<1>3. CASE Start(g) \/ ExecuteMarks(g) \/ Done(g)
  <2>1. /\ UNCHANGED <<home, job, canceled, outcome, mode, stopped, api>>
        /\ Live(g) /\ \E x \in {"marking", "run", "release"} : pc' = [pc EXCEPT ![g] = x]
    BY <1>3 DEF Start, ExecuteMarks, Done, daemonVars, Live
  <2>2. \A t \in Task : status'[t] = "canceled" => status[t] = "canceled"
    BY <1>3 DEF Start, ExecuteMarks, Done, MarkRunning, queueVars, Inv1, TypeOK, QueueTypeOK
  <2>3. \A h \in Goroutine : Live(h)' = Live(h) /\ (pc'[h] = "write" => pc[h] = "write")
    BY <2>1 DEF Live, Inv1, TypeOK
  <2> QED BY <2>1, <2>2, <2>3 DEF Reasons, CancelHasCause, Cause, Asked
<1>4. CASE HeartbeatTick(g)
  BY <1>4, ReasonsFrame DEF HeartbeatTick, Heartbeat, daemonVars
<1>5. ASSUME NEW r \in Ending, RunnerReturns(g, r)
      PROVE  Reasons'
  <2>1. /\ UNCHANGED <<home, job, canceled, status, mode, stopped, api>>
        /\ Live(g) /\ pc' = [pc EXCEPT ![g] = "write"]
        /\ outcome' = [outcome EXCEPT ![g] = r]
        /\ r = "canceled" => CtxDone(g)
    BY <1>5 DEF RunnerReturns, daemonVars, queueVars, Live
  <2>2. r = "canceled" => Cause(job[g])
    BY <2>1 DEF CtxDone, Reasons, Cause
  <2>3. \A h \in Goroutine : Live(h)' = Live(h)
    BY <2>1 DEF Live, Inv1, TypeOK
  <2>4. \A h \in Goroutine : h # g => pc'[h] = pc[h] /\ outcome'[h] = outcome[h]
    BY <2>1 DEF Inv1, TypeOK
  <2>5. outcome'[g] = r
    BY <2>1 DEF Inv1, TypeOK
  <2> QED BY <2>1, <2>2, <2>3, <2>4, <2>5 DEF Reasons, CancelHasCause, Cause, Asked
<1>6. CASE WriteTerminal(g)
  <2>1. /\ UNCHANGED <<home, job, canceled, outcome, mode, stopped, api>>
        /\ pc[g] = "write" /\ pc' = [pc EXCEPT ![g] = "done"]
    BY <1>6 DEF WriteTerminal, daemonVars
  <2>2. \/ status' = status
        \/ \E s \in {"completed", "failed"} : status' = [status EXCEPT ![job[g]] = s]
        \/ outcome[g] = "canceled" /\ status' = [status EXCEPT ![job[g]] = "canceled"]
    BY <1>6 DEF WriteTerminal, Complete, Fail, Canceled, Finish, queueVars
  <2>3. \A t \in Task : status'[t] = "canceled" => Cause(t)
    BY <2>1, <2>2 DEF Reasons, CancelHasCause, Cause, Asked, Inv1, TypeOK, QueueTypeOK
  <2>4. \A h \in Goroutine : Live(h)' = Live(h) /\ (pc'[h] = "write" => pc[h] = "write")
    BY <2>1 DEF Live, Inv1, TypeOK
  <2> QED BY <2>1, <2>3, <2>4 DEF Reasons, CancelHasCause, Cause, Asked
<1>7. CASE Release(g)
  <2>1. /\ UNCHANGED <<status, mode, stopped, api>>
        /\ pc' = [pc EXCEPT ![g] = "idle"] /\ home' = [home EXCEPT ![g] = NoWorker]
        /\ job' = [job EXCEPT ![g] = NoTask] /\ canceled' = [canceled EXCEPT ![g] = FALSE]
        /\ outcome' = [outcome EXCEPT ![g] = "none"]
    BY <1>7 DEF Release, queueVars
  <2>2. pc'[g] = "idle" /\ ~canceled'[g]
    BY <2>1 DEF Inv1, TypeOK
  <2>3. \A h \in Goroutine : h # g =>
          /\ pc'[h] = pc[h] /\ home'[h] = home[h] /\ job'[h] = job[h]
          /\ canceled'[h] = canceled[h] /\ outcome'[h] = outcome[h]
    BY <2>1 DEF Inv1, TypeOK
  <2> QED BY <2>1, <2>2, <2>3 DEF Reasons, CancelHasCause, Cause, Asked, Live
<1> QED BY <1>3, <1>4, <1>5, <1>6, <1>7 DEF Execute

(* No step breaks the reasons. *)
LEMMA NextReasons ==
  ASSUME Inv1, ManagerAgrees, AskedFirst, Reasons, [Next]_vars
  PROVE  Reasons'
<1>1. ASSUME NEW t \in Task, NEW d \in Worker, CancelTask(d, t)
      PROVE  Reasons'
  <2>1. Asked(t)' /\ UNCHANGED <<pc, home, job, outcome, mode, status>>
    BY <1>1 DEF CancelTask, Asked, Inv1, TypeOK, daemonVars, queueVars
  <2> QED BY <1>1, <2>1, CancelReasons DEF CancelTask
<1>2. ASSUME NEW t \in Task, NEW d \in Worker, HeartbeatKills(d, t)
      PROVE  Reasons'
  <2>1. Asked(t)' /\ UNCHANGED <<pc, home, job, outcome, mode, status>>
    BY <1>2 DEF HeartbeatKills, AskedFirst, Asked, daemonVars, queueVars
  <2> QED BY <1>2, <2>1, CancelReasons DEF HeartbeatKills
<1>3. CASE \E t \in Task : HeartbeatExpires(t)
  BY <1>3, ReasonsFrame DEF HeartbeatExpires, Expire, goVars, daemonVars
<1>4. ASSUME NEW t \in Task, \/ \E a \in Agent, p \in PriorityInput : CreateTask(t, a, p)
                             \/ CancelTaskLock(t) \/ CancelTaskEnd(t) \/ CancelTaskFail(t)
      PROVE  Reasons'
  <2>1. UNCHANGED <<pc, home, job, canceled, outcome, mode>>
    BY <1>4 DEF CreateTask, CancelTaskLock, CancelTaskEnd, CancelTaskFail, goVars, daemonVars
  <2>2. \A u \in Task : status'[u] = "canceled" => status[u] = "canceled"
    BY <1>4 DEF CreateTask, CancelTaskLock, CancelTaskEnd, CancelTaskFail, Enqueue,
       RequestCancelLock, RequestCancelEnd, queueVars, Inv1, TypeOK, QueueTypeOK
  <2> QED BY <2>1, <2>2, ReasonsFrame
<1>5. CASE UNCHANGED vars
  BY <1>5, ReasonsFrame DEF vars, goVars, daemonVars, queueVars
<1> QED BY <1>1, <1>2, <1>3, <1>4, <1>5, ProcessReasons, SchedulerReasons, ExecuteReasons
        DEF Next, Api

(* In the safe regimes a row ends as canceled only after a request to the  *)
(* API or a shutdown during its execution: the answer "no row" of          *)
(* Heartbeat (queue.go:102-105) never cancels a task by itself.            *)
THEOREM CancelsHaveCauses ==
  ASSUME SafeRegime
  PROVE  Spec => []CancelHasCause
<1>1. Init => CauseInv
  BY DEF Init, QueueInit, CauseInv, AskedFirst, Reasons, CancelHasCause, Live
<1>2. Inv1 /\ Inv2 /\ ManagerAgrees /\ CauseInv /\ [Next]_vars => CauseInv'
  BY NextAskedFirst, NextReasons DEF CauseInv
<1>3. CauseInv => CancelHasCause
  BY DEF CauseInv, Reasons
<1> QED BY <1>1, <1>2, <1>3, SpecInv, RegistryAgrees, PTL DEF Spec

-----------------------------------------------------------------------------
(*                          The order of the claims                        *)

OneDaemon == \A d, e \in Worker : d = e

(* A row that was never claimed is absent or pending and nobody runs it;   *)
(* rows are younger than those before them; a lock comes from a request.   *)
Unclaimed ==
    /\ \A t \in Task : status[t] \notin {"absent", "pending"} => attempts[t] > 0
    /\ \A t \in Task : status[t] = "absent" => attempts[t] = 0
    /\ \A g \in Goroutine : Live(g) => attempts[job[g]] > 0

Ages == \A t \in Task : status[t] # "absent" => created[t] <= clock

LocksAsked == \A t \in Task : t \in locked => Asked(t)

OrderInv == NeverOvertaken /\ Unclaimed /\ Ages /\ LocksAsked

(* Steps that insert and claim nothing. *)
LEMMA OrderFrame ==
  ASSUME Inv1, OrderInv, [Next]_vars,
         UNCHANGED <<agent, priority, created, clock, attempts>>,
         \A t \in Task : (status'[t] = "absent") <=> (status[t] = "absent"),
         \A t \in Task : status'[t] \notin {"absent", "pending"} => attempts[t] > 0,
         \A g \in Goroutine : Live(g)' => Live(g) /\ job'[g] = job[g],
         \A t \in Task : t \in locked' => Asked(t)'
  PROVE  OrderInv'
<1>1. \A t \in Task : Asked(t) => Asked(t)'
  BY CausesStay
<1>2. NeverOvertaken'
  BY <1>1 DEF OrderInv, NeverOvertaken, Asked
<1>3. Unclaimed'
  BY DEF OrderInv, Unclaimed
<1>4. Ages' /\ LocksAsked'
  BY DEF OrderInv, Ages, LocksAsked
<1> QED BY <1>2, <1>3, <1>4 DEF OrderInv

(* A row that is inserted is the youngest. *)
LEMMA CreateOrder ==
  ASSUME Inv1, OrderInv, [Next]_vars, NEW t \in Task, NEW a \in Agent, NEW p \in PriorityInput,
         CreateTask(t, a, p)
  PROVE  OrderInv'
<1> USE DEF Inv1, TypeOK, QueueTypeOK
<1>1. /\ status[t] = "absent" /\ status' = [status EXCEPT ![t] = "pending"]
      /\ agent' = [agent EXCEPT ![t] = a]
      /\ clock' = clock + 1 /\ created' = [created EXCEPT ![t] = clock + 1]
      /\ UNCHANGED <<attempts, locked, pc, job, api>>
  BY DEF CreateTask, Enqueue, goVars
<1>2. \A u \in Task : u # t => /\ status'[u] = status[u] /\ agent'[u] = agent[u]
                               /\ created'[u] = created[u] /\ priority'[u] = priority[u]
  BY DEF CreateTask, Enqueue
<1>3. status'[t] = "pending" /\ created'[t] = clock + 1 /\ attempts[t] = 0
  BY <1>1 DEF OrderInv, Unclaimed
<1>4. \A u \in Task : attempts[u] > 0 => u # t /\ created[u] <= clock
  BY <1>3 DEF OrderInv, Unclaimed, Ages
<1>5. clock \in Nat /\ \A u \in Task : created[u] \in Nat /\ attempts[u] \in Nat
  OBVIOUS
<1>6. NeverOvertaken'
  <2> SUFFICES ASSUME NEW x \in Task, NEW y \in Task,
                      status'[y] # "absent", attempts[y] = 0, attempts[x] > 0,
                      agent'[x] = agent'[y], priority'[y] <= priority'[x],
                      created'[y] < created'[x]
               PROVE  api[y] # "never"
    BY <1>1 DEF NeverOvertaken
  <2>1. x # t /\ created'[x] = created[x] /\ created[x] <= clock
    BY <1>2, <1>4
  <2>2. y # t
    BY <1>3, <1>5, <2>1
  <2> QED BY <1>2, <2>1, <2>2 DEF OrderInv, NeverOvertaken
<1>7. Unclaimed'
  BY <1>1, <1>2, <1>3 DEF OrderInv, Unclaimed, Live
<1>8. Ages'
  BY <1>1, <1>2, <1>3, <1>5 DEF OrderInv, Ages
<1>9. LocksAsked'
  BY <1>1 DEF OrderInv, LocksAsked, Asked
<1> QED BY <1>6, <1>7, <1>8, <1>9 DEF OrderInv

(* Nobody else's claim locks a row when there is one daemon.               *)
LEMMA AloneHoldsAll ==
  ASSUME OneDaemon, NEW d \in Worker
  PROVE  \A held \in HeldElsewhere(d) : held = {}
<1>1. Rivals(d) = {}
  BY DEF Rivals, OneDaemon
<1> QED BY <1>1 DEF HeldElsewhere

(* A claim takes the first of the rows it can see: an older one, at least  *)
(* as urgent, that waits is locked.                                        *)
LEMMA ClaimOrder ==
  ASSUME Inv1, OrderInv, [Next]_vars, NEW w \in Worker, NEW a \in Agent, NEW t \in Task,
         Claim(w, a, {}, t), UNCHANGED api,
         \A g \in Goroutine : Live(g)' => job'[g] = t \/ (Live(g) /\ job'[g] = job[g])
  PROVE  OrderInv'
<1> USE DEF Inv1, TypeOK, QueueTypeOK
<1>1. /\ t \in Claimable(a) /\ \A u \in Claimable(a) : Precedes(t, u)
      /\ status' = [status EXCEPT ![t] = "claimed"]
      /\ attempts' = [attempts EXCEPT ![t] = @ + 1]
      /\ UNCHANGED <<agent, priority, created, locked, clock>>
  BY DEF Claim
<1>2. \A u \in Task : u # t => status'[u] = status[u] /\ attempts'[u] = attempts[u]
  BY <1>1
<1>3. status[t] = "pending" /\ agent[t] = a /\ status'[t] = "claimed" /\ attempts'[t] > 0
  BY <1>1 DEF Claimable
<1>4. NeverOvertaken'
  <2> SUFFICES ASSUME NEW x \in Task, NEW y \in Task,
                      status'[y] # "absent", attempts'[y] = 0, attempts'[x] > 0,
                      agent[x] = agent[y], priority[y] <= priority[x], created[y] < created[x]
               PROVE  api[y] # "never"
    BY <1>1 DEF NeverOvertaken
  <2>1. y # t /\ status[y] # "absent" /\ attempts[y] = 0
    BY <1>2, <1>3
  <2>2. CASE x # t
    BY <1>2, <2>1, <2>2 DEF OrderInv, NeverOvertaken
  <2>3. CASE x = t
    <3>1. status[y] = "pending" /\ agent[y] = a
      BY <1>3, <2>1, <2>3 DEF OrderInv, Unclaimed
    <3>2. ~Precedes(t, y)
      <4>1. priority[t] \in Int /\ priority[y] \in Int /\ created[t] \in Int /\ created[y] \in Int
        OBVIOUS
      <4> QED BY <2>3, <4>1 DEF Precedes
    <3>3. y \in locked
      BY <1>1, <3>1, <3>2 DEF Claimable
    <3> QED BY <3>3 DEF OrderInv, LocksAsked, Asked
  <2> QED BY <2>2, <2>3
<1>5. Unclaimed'
  <2>1. \A g \in Goroutine : Live(g) => job[g] \in Task /\ attempts[job[g]] > 0
    BY DEF OrderInv, Unclaimed, Shape, Live
  <2>2. \A g \in Goroutine : Live(g)' => attempts'[job'[g]] > 0
    BY <1>2, <1>3, <2>1
  <2> QED BY <1>2, <1>3, <2>2 DEF OrderInv, Unclaimed
<1>6. Ages' /\ LocksAsked'
  BY <1>1, <1>2, <1>3 DEF OrderInv, Ages, LocksAsked, Asked
<1> QED BY <1>4, <1>5, <1>6 DEF OrderInv

(* No step breaks the order. *)
LEMMA NextOrder ==
  ASSUME OneDaemon, Inv1, OrderInv, [Next]_vars
  PROVE  OrderInv'
<1>1. \A t \in Task : Asked(t) => Asked(t)'
  BY CausesStay
<1>2. ASSUME UNCHANGED <<agent, priority, created, clock, attempts, status, pc, job>>,
             \A t \in Task : t \in locked' => Asked(t)'
      PROVE  OrderInv'
  BY <1>2, OrderFrame DEF OrderInv, Unclaimed, Live
<1>3. \A t \in Task : t \in locked => Asked(t)'
  BY <1>1 DEF OrderInv, LocksAsked
<1>4. ASSUME NEW t \in Task, Api(t)
      PROVE  OrderInv'
  <2>1. CASE CancelTaskLock(t)
    BY <1>1, <1>2, <1>3, <2>1 DEF CancelTaskLock, RequestCancelLock, Asked, goVars
  <2>2. CASE CancelTaskEnd(t) \/ CancelTaskFail(t) \/ \E d \in Worker : CancelTask(d, t)
    BY <1>2, <1>3, <2>2 DEF CancelTaskEnd, CancelTaskFail, CancelTask, RequestCancelEnd,
       queueVars, goVars
  <2> QED BY <1>4, <2>1, <2>2, CreateOrder DEF Api
<1>5. CASE \E t \in Task : HeartbeatExpires(t)
  BY <1>2, <1>3, <1>5 DEF HeartbeatExpires, Expire, goVars
<1>6. ASSUME NEW d \in Worker, Process(d)
      PROVE  OrderInv'
  <2>1. UNCHANGED <<agent, priority, created, clock, attempts, locked>>
    BY <1>6 DEF Process, Boot, RunRecovers, Crash, Stop, RunReturns, RecoverOrphanedTasks, queueVars
  <2>2. \A t \in Task : status'[t] = status[t] \/ (status[t] \in Active /\ status'[t] = "pending")
    BY <1>6 DEF Process, Boot, RunRecovers, Crash, Stop, RunReturns, RecoverOrphanedTasks,
       Orphaned, queueVars
  <2>3. \A g \in Goroutine : Live(g)' => Live(g) /\ job'[g] = job[g]
    BY <1>6 DEF Process, Boot, RunRecovers, Crash, Stop, RunReturns, goVars, Live
  <2> QED BY <1>3, <2>1, <2>2, <2>3, OrderFrame DEF OrderInv, Unclaimed, Active
<1>7. ASSUME NEW d \in Worker, Scheduler(d)
      PROVE  OrderInv'
  <2>1. ASSUME NEW t \in Task, NEW g \in Goroutine, TickClaims(d, t, g)
        PROVE  OrderInv'
    <3>1. turn[d] \in Agent /\ Claim(d, turn[d], {}, t) /\ UNCHANGED api
      BY <2>1, AloneHoldsAll DEF TickClaims
    <3>2. \A h \in Goroutine : Live(h)' => job'[h] = t \/ (Live(h) /\ job'[h] = job[h])
      BY <2>1 DEF TickClaims, Live, Inv1, TypeOK
    <3> QED BY <3>1, <3>2, ClaimOrder
  <2>2. CASE TickFails(d)
    <3>1. turn[d] \in Agent /\ UNCHANGED <<pc, job, api>>
          /\ (UNCHANGED queueVars \/ \E t \in Task : Claim(d, turn[d], {}, t))
      BY <2>2, AloneHoldsAll DEF TickFails, goVars
    <3>2. \A h \in Goroutine : Live(h)' => Live(h) /\ job'[h] = job[h]
      BY <3>1 DEF Live
    <3>3. CASE UNCHANGED queueVars
      BY <1>2, <1>3, <3>1, <3>3 DEF queueVars
    <3> QED BY <3>1, <3>2, <3>3, ClaimOrder
  <2>3. CASE TickFindsNothing(d) \/ \E a \in Agent : TickAgent(d, a)
    BY <1>2, <1>3, <2>3 DEF TickFindsNothing, TickAgent, queueVars, goVars
  <2> QED BY <1>7, <2>1, <2>2, <2>3 DEF Scheduler
<1>8. ASSUME NEW g \in Goroutine, Execute(g)
      PROVE  OrderInv'
  <2>1. UNCHANGED <<agent, priority, created, clock, attempts, locked>>
    BY <1>8 DEF Execute, Start, ExecuteMarks, HeartbeatTick, Heartbeat, RunnerReturns,
       WriteTerminal, Done, Release, MarkRunning, Complete, Fail, Canceled, Finish, queueVars
  <2>2. \/ status' = status
        \/ Live(g) /\ \E s \in {"running"} \cup Terminal : status' = [status EXCEPT ![job[g]] = s]
    BY <1>8 DEF Execute, Start, ExecuteMarks, HeartbeatTick, Heartbeat, RunnerReturns,
       WriteTerminal, Done, Release, MarkRunning, Complete, Fail, Canceled, Finish, queueVars,
       Live, Terminal
  <2>3. \A h \in Goroutine : Live(h)' => Live(h) /\ job'[h] = job[h]
    <3>1. CASE Release(g)
      BY <3>1 DEF Release, Live, Inv1, TypeOK
    <3>2. CASE ~Release(g)
      <4>1. job' = job /\ (pc' = pc \/ (Live(g) /\ \E x : pc' = [pc EXCEPT ![g] = x]))
        BY <1>8, <3>2 DEF Execute, Start, ExecuteMarks, HeartbeatTick, RunnerReturns,
           WriteTerminal, Done, Live
      <4> QED BY <4>1 DEF Live, Inv1, TypeOK
    <3> QED BY <3>1, <3>2
  <2>4. Live(g) => attempts[job[g]] > 0 /\ status[job[g]] # "absent" /\ job[g] \in Task
    BY DEF OrderInv, Unclaimed, Inv1, Shape, Live
  <2>5. \A t \in Task : (status'[t] = "absent") <=> (status[t] = "absent")
    BY <2>2, <2>4 DEF Inv1, TypeOK, QueueTypeOK, Terminal
  <2>6. \A t \in Task : status'[t] \notin {"absent", "pending"} => attempts[t] > 0
    BY <2>2, <2>4 DEF OrderInv, Unclaimed, Inv1, TypeOK, QueueTypeOK
  <2> QED BY <1>3, <2>1, <2>3, <2>5, <2>6, OrderFrame
<1>9. CASE \E d \in Worker, t \in Task : HeartbeatKills(d, t)
  BY <1>2, <1>3, <1>9 DEF HeartbeatKills, queueVars
<1>10. CASE UNCHANGED vars
  BY <1>2, <1>3, <1>10 DEF vars, queueVars, goVars
<1> QED BY <1>4, <1>5, <1>6, <1>7, <1>8, <1>9, <1>10 DEF Next

(* With one daemon, whatever fails, crashes or expires, no task starts     *)
(* before an older one of its agent that is at least as urgent and still   *)
(* waits for its first claim, unless a cancel of that one was requested    *)
(* (queue.go:70-76).  In a fleet it may: SKIP LOCKED passes over a row     *)
(* that another daemon's claim has locked, and that claim may roll back.   *)
THEOREM ClaimsInOrder ==
  ASSUME OneDaemon
  PROVE  Spec => []NeverOvertaken
<1>1. Init => OrderInv
  BY DEF Init, QueueInit, OrderInv, NeverOvertaken, Unclaimed, Ages, LocksAsked, Live
<1>2. Init => Inv1
  BY InitInv1
<1>3. (Inv1 /\ OrderInv) /\ [Next]_vars => (Inv1 /\ OrderInv)'
  BY NextInv1, NextOrder
<1>4. OrderInv => NeverOvertaken
  BY DEF OrderInv
<1> QED BY <1>1, <1>2, <1>3, <1>4, PTL DEF Spec
=============================================================================
