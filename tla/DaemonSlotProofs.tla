-------------------------- MODULE DaemonSlotProofs --------------------------
(***************************************************************************)
(* The slot accounting of the scheduler, in every regime: the counter of   *)
(* an agent is the number of its goroutines and stays within               *)
(* max_concurrent_tasks.  The free slots tick computed once are an         *)
(* underestimate for the rest of the agent's turn, because goroutines      *)
(* only give slots back meanwhile (SlotsLeft).                             *)
(***************************************************************************)
EXTENDS DaemonProofs, FiniteSetTheorems

SlotsLeft ==
    \A d \in Worker : turn[d] # NoAgent =>
        inflight[d][turn[d]] + free[d] <= MaxConcurrent[turn[d]]

(* The agent of a live goroutine's row can no longer change. *)
Inserted == \A g \in Goroutine : Live(g) => status[job[g]] # "absent"

SlotInv == SlotAccounting /\ SlotsLeft /\ Inserted

(* The goroutines of an agent can be counted. *)
LEMMA BusyFinite == \A d, a : IsFiniteSet(Busy(d, a)) /\ Cardinality(Busy(d, a)) \in Nat
  BY GoroutineAssumption, FS_Subset, FS_CardinalityType DEF Busy

(* No slot is taken before the first boot. *)
LEMMA InitSlot == Init => SlotInv
<1> SUFFICES ASSUME Init PROVE SlotInv
  OBVIOUS
<1>1. \A d \in Worker, a \in Agent : Busy(d, a) = {}
  BY DEF Init, Busy, Live
<1>2. ASSUME NEW d \in Worker, NEW a \in Agent
      PROVE  inflight[d][a] = Cardinality(Busy(d, a)) /\ inflight[d][a] <= MaxConcurrent[a]
  <2>1. inflight[d][a] = 0 /\ Cardinality(Busy(d, a)) = 0
    BY <1>1, FS_EmptySet DEF Init
  <2>2. MaxConcurrent[a] \in Nat
    BY ConcurrencyAssumption
  <2> QED BY <2>1, <2>2
<1> QED BY <1>2 DEF Init, SlotInv, SlotAccounting, SlotsLeft, Inserted, Live

(* A step that starts and ends no goroutine, and at most ends a turn,      *)
(* leaves the accounts alone.                                              *)
LEMMA SlotFrame ==
  ASSUME Inv1, SlotInv, UNCHANGED <<inflight, home, job>>,
         \A g \in Goroutine : Live(g)' = Live(g),
         \A t \in Task : status[t] # "absent" => status'[t] # "absent" /\ agent'[t] = agent[t],
         \A d \in Worker : turn'[d] # NoAgent => turn'[d] = turn[d] /\ free'[d] = free[d]
  PROVE  SlotInv'
<1>1. \A g \in Goroutine : Live(g) => job[g] \in Task /\ status[job[g]] # "absent"
  BY DEF Inv1, Shape, SlotInv, Inserted, Live
<1>2. \A d \in Worker, a \in Agent : Busy(d, a)' = Busy(d, a)
  BY <1>1 DEF Busy
<1>3. SlotAccounting'
  BY <1>2 DEF SlotInv, SlotAccounting
<1>4. SlotsLeft'
  BY DEF SlotInv, SlotsLeft
<1>5. Inserted'
  BY <1>1 DEF Inserted
<1> QED BY <1>3, <1>4, <1>5 DEF SlotInv

(* No statement takes a row back or moves it to another agent. *)
LEMMA StatementKeepsRows ==
  ASSUME Inv1,
         \/ \E t \in Task, a \in Agent, p \in Int : Enqueue(t, a, p)
         \/ \E w \in Worker, a \in Agent, t \in Task : \E held : Claim(w, a, held, t)
         \/ \E t \in Task : MarkRunning(t)
         \/ \E w \in Worker, t \in Task : Heartbeat(w, t)
         \/ \E t \in Task, s \in Terminal : Finish(t, s)
         \/ \E t \in Task : RequestCancelLock(t)
         \/ \E t \in Task, c \in BOOLEAN : RequestCancelEnd(t, c)
         \/ RecoverOrphanedTasks
         \/ \E t \in Task : Expire(t)
         \/ UNCHANGED queueVars
  PROVE  \A u \in Task : status[u] # "absent" => status'[u] # "absent" /\ agent'[u] = agent[u]
<1> USE DEF Inv1, TypeOK, QueueTypeOK, Terminal
<1>1. CASE \E t \in Task, a \in Agent, p \in Int : Enqueue(t, a, p)
  BY <1>1 DEF Enqueue
<1>2. CASE \E w \in Worker, a \in Agent, t \in Task : \E held : Claim(w, a, held, t)
  BY <1>2 DEF Claim
<1>3. CASE \E t \in Task, s \in Terminal : Finish(t, s)
  BY <1>3 DEF Finish
<1>4. CASE RecoverOrphanedTasks
  BY <1>4 DEF RecoverOrphanedTasks
<1>5. CASE \E t \in Task : MarkRunning(t)
  BY <1>5 DEF MarkRunning
<1> QED BY <1>1, <1>2, <1>3, <1>4, <1>5
        DEF Heartbeat, RequestCancelLock, RequestCancelEnd, Expire, queueVars

(* A request of a client leaves the accounts alone. *)
LEMMA ApiSlot ==
  ASSUME Inv1, SlotInv, NEW t \in Task, Api(t)
  PROVE  SlotInv'
<1>1. UNCHANGED <<inflight, home, job, pc, turn, free>>
  BY DEF Api, CreateTask, CancelTask, CancelTaskLock, CancelTaskEnd, CancelTaskFail,
         daemonVars, goVars
<1>2. \A u \in Task : status[u] # "absent" => status'[u] # "absent" /\ agent'[u] = agent[u]
  BY StatementKeepsRows, PriorityAssumption
     DEF Api, CreateTask, CancelTask, CancelTaskLock, CancelTaskEnd, CancelTaskFail
<1> QED BY <1>1, <1>2, SlotFrame DEF Live

(* A crash empties the counters together with the goroutines. *)
LEMMA ProcessSlot ==
  ASSUME Inv1, SlotInv, NEW d \in Worker, Process(d)
  PROVE  SlotInv'
<1>1. CASE Boot(d) \/ RunRecovers(d) \/ Stop(d) \/ RunReturns(d)
  <2>1. UNCHANGED <<inflight, home, job, pc, turn, free>>
    BY <1>1 DEF Boot, RunRecovers, Stop, RunReturns, goVars
  <2>2. \A u \in Task : status[u] # "absent" => status'[u] # "absent" /\ agent'[u] = agent[u]
    BY <1>1, StatementKeepsRows DEF Boot, RunRecovers, Stop, RunReturns
  <2> QED BY <2>1, <2>2, SlotFrame DEF Live
<1>2. CASE Crash(d)
  <2> USE DEF Inv1, TypeOK, Shape
  <2>1. UNCHANGED <<status, agent>>
    BY <1>2 DEF Crash, queueVars
  <2>2. \A g \in Goroutine : Live(g)' <=> Live(g) /\ home[g] # d
    BY <1>2 DEF Crash, Live
  <2>3. \A g \in Goroutine : Live(g)' => home'[g] = home[g] /\ job'[g] = job[g]
    BY <1>2, <2>2 DEF Crash
  <2>4. \A a \in Agent : Busy(d, a)' = {}
    BY <2>2, <2>3 DEF Busy
  <2>5. \A e \in Worker, a \in Agent : e # d => Busy(e, a)' = Busy(e, a)
    BY <2>1, <2>2, <2>3 DEF Busy
  <2>6. /\ \A a \in Agent : inflight'[d][a] = 0
        /\ \A e \in Worker : e # d => inflight'[e] = inflight[e] /\ turn'[e] = turn[e]
                                      /\ free'[e] = free[e]
        /\ turn'[d] = NoAgent
    BY <1>2 DEF Crash
  <2>7. SlotAccounting'
    <3> SUFFICES ASSUME NEW e \in Worker, NEW a \in Agent
                 PROVE  /\ inflight'[e][a] = Cardinality(Busy(e, a)')
                        /\ inflight'[e][a] <= MaxConcurrent[a]
      BY DEF SlotAccounting
    <3>1. CASE e = d
      <4>1. inflight'[e][a] = 0 /\ Cardinality(Busy(e, a)') = 0
        BY <2>4, <2>6, <3>1, FS_EmptySet
      <4>2. MaxConcurrent[a] \in Nat
        BY ConcurrencyAssumption
      <4> QED BY <4>1, <4>2
    <3>2. CASE e # d
      BY <2>5, <2>6, <3>2 DEF SlotInv, SlotAccounting
    <3> QED BY <3>1, <3>2
  <2>8. SlotsLeft'
    BY <2>6 DEF SlotInv, SlotsLeft
  <2>9. Inserted'
    BY <2>1, <2>2, <2>3 DEF SlotInv, Inserted
  <2> QED BY <2>7, <2>8, <2>9 DEF SlotInv
<1> QED BY <1>1, <1>2 DEF Process

(* The scheduler takes a slot with every goroutine it starts. *)
LEMMA SchedulerSlot ==
  ASSUME Inv1, SlotInv, NEW d \in Worker, Scheduler(d)
  PROVE  SlotInv'
<1> USE DEF Inv1, TypeOK, QueueTypeOK
<1>1. ASSUME NEW a \in Agent, TickAgent(d, a)
      PROVE  SlotInv'
  <2>1. UNCHANGED <<inflight, home, job, pc, status, agent>>
    BY <1>1 DEF TickAgent, queueVars, goVars
  <2>2. SlotAccounting' /\ Inserted'
    <3>1. \A e, b : Busy(e, b)' = Busy(e, b)
      BY <2>1 DEF Busy, Live
    <3> QED BY <2>1, <3>1 DEF SlotInv, SlotAccounting, Inserted, Live
  <2>3. SlotsLeft'
    BY <1>1, <2>1, ConcurrencyAssumption DEF TickAgent, SlotInv, SlotsLeft
  <2> QED BY <2>2, <2>3 DEF SlotInv
<1>2. ASSUME NEW t \in Task, NEW g \in Goroutine, TickClaims(d, t, g)
      PROVE  SlotInv'
  <2> PICK a \in Agent : a = turn[d]
    BY <1>2 DEF TickClaims
  <2>1. /\ turn[d] = a /\ agent[t] = a /\ status[t] = "pending" /\ UNCHANGED agent
        /\ status' = [status EXCEPT ![t] = "claimed"]
        /\ pc[g] = "idle" /\ pc' = [pc EXCEPT ![g] = "spawned"]
        /\ home' = [home EXCEPT ![g] = d]
        /\ job' = [job EXCEPT ![g] = t]
        /\ inflight' = [inflight EXCEPT ![d][a] = @ + 1]
        /\ free' = [free EXCEPT ![d] = @ - 1]
        /\ turn' = [turn EXCEPT ![d] = IF free[d] = 1 THEN NoAgent ELSE @]
    BY <1>2 DEF TickClaims, Claim, Claimable
  <2>2. free[d] > 0 /\ inflight[d][a] + free[d] <= MaxConcurrent[a]
    BY <2>1, NoAgentAssumption DEF Quota, SlotInv, SlotsLeft
  <2>3. /\ g \notin Busy(d, a) /\ Busy(d, a)' = Busy(d, a) \cup {g}
        /\ \A e \in Worker, b \in Agent : (e # d \/ b # a) => Busy(e, b)' = Busy(e, b)
    <3>1. \A h \in Goroutine : h # g => pc'[h] = pc[h] /\ home'[h] = home[h] /\ job'[h] = job[h]
      BY <2>1
    <3>2. pc'[g] = "spawned" /\ home'[g] = d /\ agent'[job'[g]] = a
      BY <2>1
    <3>3. \A h \in Goroutine : h # g => agent'[job'[h]] = agent[job[h]]
      BY <2>1, <3>1
    <3>4. \A e \in Worker, b \in Agent, h \in Goroutine :
             h \in Busy(e, b)' <=> (h \in Busy(e, b) \/ (h = g /\ e = d /\ b = a))
      BY <2>1, <3>1, <3>2, <3>3 DEF Busy, Live
    <3>5. \A e \in Worker, b \in Agent : Busy(e, b) \subseteq Goroutine /\ Busy(e, b)' \subseteq Goroutine
      BY DEF Busy
    <3>6. g \notin Busy(d, a)
      BY <2>1 DEF Busy, Live
    <3>7. Busy(d, a)' = Busy(d, a) \cup {g}
      <4>1. \A h : h \in Busy(d, a)' <=> (h \in Busy(d, a) \/ h = g)
        BY <3>4, <3>5
      <4> QED BY <4>1, Zenon
    <3>8. \A e \in Worker, b \in Agent : (e # d \/ b # a) => Busy(e, b)' = Busy(e, b)
      BY <3>4, <3>5, Zenon
    <3> QED BY <3>6, <3>7, <3>8
  <2>4. IsFiniteSet(Busy(d, a))
    BY BusyFinite
  <2>5. Cardinality(Busy(d, a)') = Cardinality(Busy(d, a)) + 1
    <3>1. Cardinality(Busy(d, a) \cup {g}) = Cardinality(Busy(d, a)) + 1
      BY <2>3, <2>4, FS_AddElement
    <3> QED BY <2>3, <3>1
  <2>6. /\ inflight'[d][a] = inflight[d][a] + 1
        /\ \A e \in Worker, b \in Agent : (e # d \/ b # a) => inflight'[e][b] = inflight[e][b]
    BY <2>1
  <2>7. MaxConcurrent[a] \in Nat /\ free[d] \in Nat /\ inflight[d][a] \in Nat
    BY <2>1, ConcurrencyAssumption
  <2>8. SlotAccounting'
    <3> SUFFICES ASSUME NEW e \in Worker, NEW b \in Agent
                 PROVE  /\ inflight'[e][b] = Cardinality(Busy(e, b)')
                        /\ inflight'[e][b] <= MaxConcurrent[b]
      BY DEF SlotAccounting
    <3>1. CASE e = d /\ b = a
      BY <2>2, <2>5, <2>6, <2>7, <3>1 DEF SlotInv, SlotAccounting
    <3>2. CASE e # d \/ b # a
      BY <2>3, <2>6, <3>2 DEF SlotInv, SlotAccounting
    <3> QED BY <3>1, <3>2
  <2>9. SlotsLeft'
    <3> SUFFICES ASSUME NEW e \in Worker, turn'[e] # NoAgent
                 PROVE  inflight'[e][turn'[e]] + free'[e] <= MaxConcurrent[turn'[e]]
      BY DEF SlotsLeft
    <3>1. turn'[e] = turn[e]
      BY <2>1
    <3>2. CASE e = d
      BY <2>1, <2>2, <2>6, <2>7, <3>1, <3>2
    <3>3. CASE e # d
      BY <2>1, <2>6, <3>1, <3>3 DEF SlotInv, SlotsLeft
    <3> QED BY <3>2, <3>3
  <2>10. Inserted'
    BY <2>1 DEF SlotInv, Inserted, Live
  <2> QED BY <2>8, <2>9, <2>10 DEF SlotInv
<1>3. CASE TickFindsNothing(d) \/ TickFails(d)
  <2>1. UNCHANGED <<inflight, home, job, pc>>
    BY <1>3 DEF TickFindsNothing, TickFails, goVars
  <2>2. \A e \in Worker : turn'[e] # NoAgent => turn'[e] = turn[e] /\ free'[e] = free[e]
    BY <1>3 DEF TickFindsNothing, TickFails
  <2>3. \A u \in Task : status[u] # "absent" => status'[u] # "absent" /\ agent'[u] = agent[u]
    BY <1>3, StatementKeepsRows DEF TickFindsNothing, TickFails
  <2> QED BY <2>1, <2>2, <2>3, SlotFrame DEF Live
<1> QED BY <1>1, <1>2, <1>3 DEF Scheduler

(* A goroutine gives its slot back exactly once, with its last step. *)
LEMMA ExecuteSlot ==
  ASSUME Inv1, SlotInv, NEW g \in Goroutine, Execute(g)
  PROVE  SlotInv'
<1>1. CASE Release(g)
  <2> USE DEF Inv1, TypeOK, QueueTypeOK, Shape
  <2> PICK d, a : d = home[g] /\ a = agent[job[g]]
    OBVIOUS
  <2>1. /\ pc[g] = "release" /\ pc' = [pc EXCEPT ![g] = "idle"]
        /\ home' = [home EXCEPT ![g] = NoWorker]
        /\ job' = [job EXCEPT ![g] = NoTask]
        /\ UNCHANGED <<status, agent, turn, free>>
    BY <1>1 DEF Release, queueVars
  <2>2. inflight' = [inflight EXCEPT ![d][a] = IF @ > 0 THEN @ - 1 ELSE @]
    BY <1>1 DEF Release
  <2>3. d \in Worker /\ Live(g)
    BY <2>1 DEF Live
  <2>4. \A e \in Worker, b \in Agent : Busy(e, b)' = IF e = d /\ b = a THEN Busy(d, a) \ {g}
                                                     ELSE Busy(e, b)
    BY <2>1, NoWorkerAssumption DEF Busy, Live
  <2>5. ASSUME a \in Agent
        PROVE  /\ Cardinality(Busy(d, a) \ {g}) = Cardinality(Busy(d, a)) - 1
               /\ inflight[d][a] > 0
    <3>1. g \in Busy(d, a)
      BY <2>3 DEF Busy
    <3>2. Busy(d, a) # {}
      BY <3>1
    <3>3. Cardinality(Busy(d, a)) # 0
      BY <3>2, BusyFinite, FS_EmptySet
    <3>4. Cardinality(Busy(d, a)) \in Nat /\ Cardinality(Busy(d, a)) = inflight[d][a]
      BY <2>3, <2>5, BusyFinite DEF SlotInv, SlotAccounting
    <3>5. IsFiniteSet(Busy(d, a))
      BY BusyFinite
    <3>6. Cardinality(Busy(d, a) \ {g}) = Cardinality(Busy(d, a)) - 1
      BY <3>1, <3>5, FS_RemoveElement
    <3> QED BY <3>3, <3>4, <3>6
  <2>6. /\ \A e \in Worker, b \in Agent :
               (e # d \/ b # a) => inflight'[e][b] = inflight[e][b]
        /\ a \in Agent => inflight'[d][a] = inflight[d][a] - 1
    BY <2>2, <2>3, <2>5
  <2>7. \A b \in Agent : inflight[d][b] \in Nat /\ MaxConcurrent[b] \in Nat
    BY <2>3, ConcurrencyAssumption
  <2>8. SlotAccounting'
    <3> SUFFICES ASSUME NEW e \in Worker, NEW b \in Agent
                 PROVE  /\ inflight'[e][b] = Cardinality(Busy(e, b)')
                        /\ inflight'[e][b] <= MaxConcurrent[b]
      BY DEF SlotAccounting
    <3>1. CASE e = d /\ b = a
      <4>1. Busy(e, b)' = Busy(d, a) \ {g}
        BY <2>4, <3>1
      <4>2. inflight'[e][b] = inflight[d][a] - 1
        BY <2>6, <3>1
      <4>3. inflight[d][a] = Cardinality(Busy(d, a)) /\ inflight[d][a] <= MaxConcurrent[a]
        BY <2>3, <3>1 DEF SlotInv, SlotAccounting
      <4>4. Cardinality(Busy(d, a) \ {g}) = Cardinality(Busy(d, a)) - 1
        BY <2>5, <3>1
      <4>5. inflight[d][a] \in Nat /\ MaxConcurrent[a] \in Nat
        BY <2>7, <3>1
      <4> QED BY <3>1, <4>1, <4>2, <4>3, <4>4, <4>5
    <3>2. CASE e # d \/ b # a
      BY <2>4, <2>6, <3>2 DEF SlotInv, SlotAccounting
    <3> QED BY <3>1, <3>2
  <2>9. SlotsLeft'
    <3> SUFFICES ASSUME NEW e \in Worker, turn'[e] # NoAgent
                 PROVE  inflight'[e][turn'[e]] + free'[e] <= MaxConcurrent[turn'[e]]
      BY DEF SlotsLeft
    <3>1. turn[e] \in Agent /\ free[e] \in Nat /\ inflight[e][turn[e]] \in Nat
      BY <2>1
    <3>2. inflight'[e][turn[e]] <= inflight[e][turn[e]]
      <4>1. CASE e = d /\ turn[e] = a
        BY <2>6, <3>1, <4>1
      <4>2. CASE e # d \/ turn[e] # a
        BY <2>6, <3>1, <4>2
      <4> QED BY <4>1, <4>2
    <3>3. inflight[e][turn[e]] + free[e] <= MaxConcurrent[turn[e]]
      BY <2>1 DEF SlotInv, SlotsLeft
    <3>4. inflight'[e][turn[e]] \in Int /\ MaxConcurrent[turn[e]] \in Nat
      BY <2>6, <3>1, ConcurrencyAssumption
    <3> QED BY <2>1, <3>1, <3>2, <3>3, <3>4
  <2>10. Inserted'
    BY <2>1 DEF SlotInv, Inserted, Live
  <2> QED BY <2>8, <2>9, <2>10 DEF SlotInv
<1>2. CASE ~Release(g)
  <2>1. UNCHANGED <<inflight, home, job, turn, free>>
    BY <1>2 DEF Execute, Start, ExecuteMarks, HeartbeatTick, RunnerReturns, WriteTerminal,
                Done, daemonVars
  <2>2. \A h \in Goroutine : Live(h)' = Live(h)
    BY <1>2 DEF Execute, Start, ExecuteMarks, HeartbeatTick, RunnerReturns, WriteTerminal,
                Done, Live, Inv1, TypeOK
  <2>3. \A u \in Task : status[u] # "absent" => status'[u] # "absent" /\ agent'[u] = agent[u]
    <3>1. pc[g] # "idle" => home[g] \in Worker /\ job[g] \in Task
      BY DEF Inv1, Shape
    <3>2. CASE ExecuteMarks(g)
      BY <3>1, <3>2, StatementKeepsRows DEF ExecuteMarks
    <3>3. CASE HeartbeatTick(g)
      BY <3>1, <3>3, StatementKeepsRows DEF HeartbeatTick, Inv1, Shape
    <3>4. CASE WriteTerminal(g)
      BY <3>1, <3>4, StatementKeepsRows DEF WriteTerminal, Complete, Fail, Canceled, Terminal
    <3>5. CASE Start(g) \/ Done(g) \/ \E r \in Ending : RunnerReturns(g, r)
      BY <3>5 DEF Start, Done, RunnerReturns, queueVars
    <3> QED BY <1>2, <3>2, <3>3, <3>4, <3>5 DEF Execute
  <2> QED BY <2>1, <2>2, <2>3, SlotFrame
<1> QED BY <1>1, <1>2

(* Expiring heartbeats and a kill by a heartbeat move no slot. *)
LEMMA OtherSlot ==
  ASSUME Inv1, SlotInv
  PROVE  /\ \A t \in Task : HeartbeatExpires(t) => SlotInv'
         /\ \A d \in Worker, t \in Task : HeartbeatKills(d, t) => SlotInv'
         /\ UNCHANGED vars => SlotInv'
<1>1. ASSUME NEW t \in Task, HeartbeatExpires(t)
      PROVE  SlotInv'
  BY <1>1, SlotFrame DEF HeartbeatExpires, Expire, daemonVars, goVars, Live
<1>2. ASSUME NEW d \in Worker, NEW t \in Task, HeartbeatKills(d, t)
      PROVE  SlotInv'
  BY <1>2, SlotFrame DEF HeartbeatKills, queueVars, daemonVars, Live
<1>3. ASSUME UNCHANGED vars
      PROVE  SlotInv'
  BY <1>3, SlotFrame DEF vars, queueVars, daemonVars, goVars, Live
<1> QED BY <1>1, <1>2, <1>3

(* No step breaks the accounts. *)
LEMMA NextSlot == Inv1 /\ SlotInv /\ [Next]_vars => SlotInv'
  BY ApiSlot, ProcessSlot, SchedulerSlot, ExecuteSlot, OtherSlot DEF Next

(* The counter of each agent is the number of its goroutines and never     *)
(* exceeds max_concurrent_tasks.                                           *)
THEOREM SlotsAccounted == Spec => []SlotAccounting
<1>1. Init => Inv1 /\ SlotInv
  BY InitInv1, InitSlot
<1>2. (Inv1 /\ SlotInv) /\ [Next]_vars => (Inv1 /\ SlotInv)'
  BY NextInv1, NextSlot
<1>3. SlotInv => SlotAccounting
  BY DEF SlotInv
<1> QED BY <1>1, <1>2, <1>3, PTL DEF Spec
=============================================================================
