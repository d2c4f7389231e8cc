------------------------------- MODULE Daemon -------------------------------
(***************************************************************************)
(* The scheduler of server/daemon.go: daemons that recover orphans when    *)
(* they boot, claim rows up to each agent's free slots, run every claimed  *)
(* row in a goroutine of its own, keep its heartbeat and write its         *)
(* terminal status, while the HTTP API enqueues and cancels tasks and      *)
(* processes crash, are stopped and are started again.                     *)
(*                                                                         *)
(* Each action is one critical section or one SQL statement of the code;   *)
(* everything between two of them can interleave with the other            *)
(* goroutines, the other daemons and the API.                              *)
(***************************************************************************)
EXTENDS TaskQueue

CONSTANTS
    Goroutine,         \* names for the goroutines that run execute()
    NoGoroutine,       \* no cancel function registered
    NoTask,            \* the task of an idle goroutine
    MaxConcurrent,     \* max_concurrent_tasks of each agent
    PriorityInput,     \* priorities the API is called with
    Faults,            \* how an SQL call may go wrong (see Outcomes)
    TimelyHeartbeats,  \* TRUE: a live execution never lets its heartbeat expire
    PatientRestart,    \* TRUE: a daemon boots after its rows have expired
    MaxBoots           \* bound: processes started in a behaviour

ASSUME ConcurrencyAssumption == MaxConcurrent \in [Agent -> Nat \ {0}]
ASSUME NullAssumption        == NoGoroutine \notin Goroutine /\ NoTask \notin Task
ASSUME GoroutineAssumption   == IsFiniteSet(Goroutine)
ASSUME PriorityAssumption    == PriorityInput \subseteq Int
ASSUME FaultsAssumption      == Faults \subseteq {"lost", "applied"}
ASSUME RegimeAssumption      == TimelyHeartbeats \in BOOLEAN /\ PatientRestart \in BOOLEAN
ASSUME BootsAssumption       == MaxBoots \in Nat

VARIABLES
    mode,        \* of each process: down, starting, up, stopping
    turn,        \* tick: the agent whose slots are being filled
    free,        \* tick: claims left for that agent
    inflight,    \* Daemon.inflight, per process and agent
    cancels,     \* Manager.cancels, per process and task
    pc,          \* of each goroutine, the next thing execute() does
    home,        \* its process
    job,         \* its task
    canceled,    \* its context was cancelled through the Manager
    beating,     \* its heartbeat goroutine is in its loop
    outcome,     \* the branch of the switch on what Runner.Run returned
    kills,       \* heartbeat goroutines about to call Manager.Cancel
    api,         \* the cancel request of each task
    boots,       \* processes started so far
    stopped      \* history: tasks in flight when a shutdown signal came

daemonVars == <<mode, turn, free, inflight, cancels, boots, stopped>>
goVars     == <<pc, home, job, canceled, beating, outcome, kills>>
vars       == <<queueVars, daemonVars, goVars, api>>

-----------------------------------------------------------------------------
Ending == {"ok", "error", "canceled"}

PC == {"idle", "spawned", "marking", "run", "write", "done", "release"}

TypeOK ==
    /\ QueueTypeOK
    /\ mode \in [Worker -> {"down", "starting", "up", "stopping"}]
    /\ turn \in [Worker -> Agent \cup {NoAgent}]
    /\ free \in [Worker -> Nat]
    /\ inflight \in [Worker -> [Agent -> Nat]]
    /\ cancels \in [Worker -> [Task -> Goroutine \cup {NoGoroutine}]]
    /\ pc \in [Goroutine -> PC]
    /\ home \in [Goroutine -> Worker \cup {NoWorker}]
    /\ job \in [Goroutine -> Task \cup {NoTask}]
    /\ canceled \in [Goroutine -> BOOLEAN]
    /\ beating \in [Goroutine -> BOOLEAN]
    /\ outcome \in [Goroutine -> {"none"} \cup Ending]
    /\ kills \subseteq Worker \X Task
    /\ api \in [Task -> {"never", "sent", "locking", "answered"}]
    /\ boots \in Nat
    /\ stopped \subseteq Task

Init ==
    /\ QueueInit
    /\ mode = [d \in Worker |-> "down"]
    /\ turn = [d \in Worker |-> NoAgent]
    /\ free = [d \in Worker |-> 0]
    /\ inflight = [d \in Worker |-> [a \in Agent |-> 0]]
    /\ cancels = [d \in Worker |-> [t \in Task |-> NoGoroutine]]
    /\ pc = [g \in Goroutine |-> "idle"]
    /\ home = [g \in Goroutine |-> NoWorker]
    /\ job = [g \in Goroutine |-> NoTask]
    /\ canceled = [g \in Goroutine |-> FALSE]
    /\ beating = [g \in Goroutine |-> FALSE]
    /\ outcome = [g \in Goroutine |-> "none"]
    /\ kills = {}
    /\ api = [t \in Task |-> "never"]
    /\ boots = 0
    /\ stopped = {}

-----------------------------------------------------------------------------
(* The goroutines of a process; those between the claim of their row and   *)
(* their terminal write hold the row.                                      *)
Live(g)     == pc[g] # "idle"
Holding(g)  == pc[g] \in {"spawned", "marking", "run", "write"}
Busy(d, a)  == {g \in Goroutine : Live(g) /\ home[g] = d /\ agent[job[g]] = a}
Holders(t)  == {g \in Goroutine : Holding(g) /\ job[g] = t}

\* Mutant: executions do not inherit the root context.
CtxDoneDetached(g) == canceled[g]

(* ctx.Err() # nil in execute: cancelled through the Manager, or with the  *)
(* root context of the process.                                            *)
CtxDone(g) == canceled[g] \/ mode[home[g]] = "stopping"

(* An SQL call takes effect and returns ("ok"); or it fails before taking  *)
(* effect ("lost"), or after ("applied").  A call whose context is         *)
(* cancelled fails either way, whatever Faults says.                       *)
Outcomes(interrupted) == IF interrupted THEN {"lost", "applied"} ELSE {"ok"} \cup Faults

Up(d) == mode[d] # "down"

-----------------------------------------------------------------------------
(*                         The HTTP API of any daemon                      *)

CreateTask(t, a, p) ==
    /\ \E d \in Worker : Up(d)
    /\ Enqueue(t, a, p)
    /\ UNCHANGED <<daemonVars, goVars, api>>

(* CancelTask: cancel the context registered on this daemon, if any, and   *)
(* go on to RequestCancel in both cases.                                   *)
CancelTask(d, t) ==
    /\ Up(d)
    /\ status[t] # "absent"
    /\ api[t] \in {"never", "answered"}
    /\ api' = [api EXCEPT ![t] = "sent"]
    /\ canceled' = IF cancels[d][t] = NoGoroutine THEN canceled
                   ELSE [canceled EXCEPT ![cancels[d][t]] = TRUE]
    /\ UNCHANGED <<queueVars, daemonVars, pc, home, job, beating, outcome, kills>>

CancelTaskLock(t) ==
    /\ api[t] = "sent"
    /\ RequestCancelLock(t)
    /\ api' = [api EXCEPT ![t] = "locking"]
    /\ UNCHANGED <<daemonVars, goVars>>

CancelTaskEnd(t) ==
    /\ api[t] = "locking"
    /\ \E commit \in BOOLEAN : RequestCancelEnd(t, commit)
    /\ api' = [api EXCEPT ![t] = "answered"]
    /\ UNCHANGED <<daemonVars, goVars>>

(* "task not cancelable", or the client went away first. *)
CancelTaskFail(t) ==
    /\ api[t] = "sent"
    /\ api' = [api EXCEPT ![t] = "answered"]
    /\ UNCHANGED <<queueVars, daemonVars, goVars>>

-----------------------------------------------------------------------------
(*                      Processes: boot, crash, shutdown                   *)

Boot(d) ==
    /\ mode[d] = "down"
    /\ boots < MaxBoots
    /\ PatientRestart =>
         \A t \in Task : worker[t] = d /\ status[t] \in Active => heartbeat[t] # "fresh"
    /\ mode' = [mode EXCEPT ![d] = "starting"]
    /\ boots' = boots + 1
    /\ UNCHANGED <<queueVars, turn, free, inflight, cancels, stopped, goVars, api>>

(* The only place that recovers orphans; its error ends the process. *)
RunRecovers(d) ==
    /\ mode[d] = "starting"
    /\ \E o \in Outcomes(FALSE) :
         /\ IF o = "lost" THEN UNCHANGED queueVars ELSE RecoverOrphanedTasks
         /\ mode' = [mode EXCEPT ![d] = IF o = "ok" THEN "up" ELSE "down"]
    /\ UNCHANGED <<turn, free, inflight, cancels, boots, stopped, goVars, api>>

(* kill -9, a lost machine, or an exit of main that does not drain: every  *)
(* goroutine of the process is gone.                                       *)
Crash(d) ==
    /\ Up(d)
    /\ mode' = [mode EXCEPT ![d] = "down"]
    /\ turn' = [turn EXCEPT ![d] = NoAgent]
    /\ free' = [free EXCEPT ![d] = 0]
    /\ inflight' = [inflight EXCEPT ![d] = [a \in Agent |-> 0]]
    /\ cancels' = [cancels EXCEPT ![d] = [t \in Task |-> NoGoroutine]]
    /\ pc' = [g \in Goroutine |-> IF home[g] = d THEN "idle" ELSE pc[g]]
    /\ home' = [g \in Goroutine |-> IF home[g] = d THEN NoWorker ELSE home[g]]
    /\ job' = [g \in Goroutine |-> IF home[g] = d THEN NoTask ELSE job[g]]
    /\ canceled' = [g \in Goroutine |-> IF home[g] = d THEN FALSE ELSE canceled[g]]
    /\ beating' = [g \in Goroutine |-> IF home[g] = d THEN FALSE ELSE beating[g]]
    /\ outcome' = [g \in Goroutine |-> IF home[g] = d THEN "none" ELSE outcome[g]]
    /\ kills' = {k \in kills : k[1] # d}
    /\ UNCHANGED <<queueVars, boots, stopped, api>>

(* SIGINT or SIGTERM cancels the root context. *)
Stop(d) ==
    /\ mode[d] = "up"
    /\ mode' = [mode EXCEPT ![d] = "stopping"]
    /\ stopped' = stopped \cup {job[g] : g \in {h \in Goroutine : home[h] = d}}
    /\ UNCHANGED <<queueVars, turn, free, inflight, cancels, boots, goVars, api>>

(* Run returns once the tick is over and wg.Wait() is satisfied. *)
RunReturns(d) ==
    /\ mode[d] = "stopping"
    /\ turn[d] = NoAgent
    /\ \A g \in Goroutine : home[g] # d
    /\ mode' = [mode EXCEPT ![d] = "down"]
    /\ kills' = {k \in kills : k[1] # d}
    /\ UNCHANGED <<queueVars, turn, free, inflight, cancels, boots, stopped,
                   pc, home, job, canceled, beating, outcome, api>>

-----------------------------------------------------------------------------
(*                              The scheduler                              *)

\* Mutant: the executions in flight are not subtracted.
TickAgentAllSlots(d, a) ==
    /\ mode[d] = "up"
    /\ turn[d] = NoAgent
    /\ MaxConcurrent[a] > 0
    /\ turn' = [turn EXCEPT ![d] = a]
    /\ free' = [free EXCEPT ![d] = MaxConcurrent[a]]
    /\ UNCHANGED <<queueVars, mode, inflight, cancels, boots, stopped, goVars, api>>

(* The tick comes to agent a and reads its free slots, once. *)
TickAgent(d, a) ==
    /\ mode[d] = "up"
    /\ turn[d] = NoAgent
    /\ inflight[d][a] < MaxConcurrent[a]
    /\ turn' = [turn EXCEPT ![d] = a]
    /\ free' = [free EXCEPT ![d] = MaxConcurrent[a] - inflight[d][a]]
    /\ UNCHANGED <<queueVars, mode, inflight, cancels, boots, stopped, goVars, api>>

(* Rows locked by the Claim statements of other daemons whose tick is at   *)
(* the same agent: at most one each, and any, as which of them will commit *)
(* is open.                                                                *)
Rivals(d) == {e \in Worker \ {d} : turn[e] = turn[d]}

HeldElsewhere(d) ==
    {{row[e] : e \in Rivals(d)} \ {NoTask} :
        row \in [Rivals(d) -> Claimable(turn[d]) \cup {NoTask}]}

(* Claim returned a row: count it and start its goroutine. *)
TickClaims(d, t, g) ==
    /\ mode[d] = "up"
    /\ turn[d] \in Agent
    /\ \E held \in HeldElsewhere(d) : Claim(d, turn[d], held, t)
    /\ pc[g] = "idle"
    /\ inflight' = [inflight EXCEPT ![d][turn[d]] = @ + 1]
    /\ free' = [free EXCEPT ![d] = @ - 1]
    /\ turn' = [turn EXCEPT ![d] = IF free[d] = 1 THEN NoAgent ELSE @]
    /\ pc' = [pc EXCEPT ![g] = "spawned"]
    /\ home' = [home EXCEPT ![g] = d]
    /\ job' = [job EXCEPT ![g] = t]
    /\ UNCHANGED <<mode, cancels, boots, stopped, canceled, beating, outcome, kills, api>>

(* ErrNoTask. *)
TickFindsNothing(d) ==
    /\ mode[d] = "up"
    /\ turn[d] \in Agent
    /\ \E held \in HeldElsewhere(d) : Claimable(turn[d]) \subseteq held
    /\ turn' = [turn EXCEPT ![d] = NoAgent]
    /\ free' = [free EXCEPT ![d] = 0]
    /\ UNCHANGED <<queueVars, mode, inflight, cancels, boots, stopped, goVars, api>>

(* Claim returned another error: a row may have been claimed all the same. *)
TickFails(d) ==
    /\ turn[d] \in Agent
    /\ \E o \in Outcomes(mode[d] = "stopping") \ {"ok"} :
         IF o = "lost" THEN UNCHANGED queueVars
         ELSE \E t \in Task, held \in HeldElsewhere(d) : Claim(d, turn[d], held, t)
    /\ turn' = [turn EXCEPT ![d] = NoAgent]
    /\ free' = [free EXCEPT ![d] = 0]
    /\ UNCHANGED <<mode, inflight, cancels, boots, stopped, goVars, api>>

-----------------------------------------------------------------------------
(*                        execute(), one goroutine                         *)

(* Manager.Start *)
Start(g) ==
    /\ pc[g] = "spawned"
    /\ cancels' = [cancels EXCEPT ![home[g]][job[g]] = g]
    /\ pc' = [pc EXCEPT ![g] = "marking"]
    /\ UNCHANGED <<queueVars, mode, turn, free, inflight, boots, stopped,
                   home, job, canceled, beating, outcome, kills, api>>

(* The error of MarkRunning is logged; the child is launched regardless,   *)
(* and its heartbeat with it.                                              *)
ExecuteMarks(g) ==
    /\ pc[g] = "marking"
    /\ \E o \in Outcomes(CtxDone(g)) :
         IF o = "lost" THEN UNCHANGED queueVars ELSE MarkRunning(job[g])
    /\ pc' = [pc EXCEPT ![g] = "run"]
    /\ beating' = [beating EXCEPT ![g] = TRUE]
    /\ UNCHANGED <<daemonVars, home, job, canceled, outcome, kills, api>>

(* The heartbeat goroutine; a lost call changes nothing and is retried at  *)
(* the next tick.                                                          *)
HeartbeatTick(g) ==
    /\ beating[g]
    /\ ~CtxDone(g)
    /\ Heartbeat(home[g], job[g])
    /\ \E o \in Outcomes(FALSE) \ {"lost"} :
         IF o = "ok" /\ CancelSeen(home[g], job[g])
         THEN /\ beating' = [beating EXCEPT ![g] = FALSE]
              /\ kills' = kills \cup {<<home[g], job[g]>>}
         ELSE UNCHANGED <<beating, kills>>
    /\ UNCHANGED <<daemonVars, pc, home, job, canceled, outcome, api>>

(* Its call of Manager.Cancel, which finds whatever is registered under    *)
(* the task id by then.                                                    *)
HeartbeatKills(d, t) ==
    /\ <<d, t>> \in kills
    /\ kills' = kills \ {<<d, t>>}
    /\ canceled' = IF cancels[d][t] = NoGoroutine THEN canceled
                   ELSE [canceled EXCEPT ![cancels[d][t]] = TRUE]
    /\ UNCHANGED <<queueVars, daemonVars, pc, home, job, beating, outcome, api>>

\* Mutant: a failing child counts as cancelled.
RunnerReturnsFailingAsCanceled(g, ending) ==
    /\ pc[g] = "run"
    /\ CtxDone(g) => ending = "canceled"
    /\ outcome' = [outcome EXCEPT ![g] = ending]
    /\ beating' = [beating EXCEPT ![g] = FALSE]
    /\ pc' = [pc EXCEPT ![g] = "write"]
    /\ UNCHANGED <<queueVars, daemonVars, home, job, canceled, kills, api>>

(* The child exits, Runner.Run returns and execute() takes a branch of its *)
(* switch.  Once its context is cancelled a child ends in an error, be its *)
(* exit status 0: exec.Cmd.Wait returns ctx.Err() then.                    *)
RunnerReturns(g, ending) ==
    /\ pc[g] = "run"
    /\ CtxDone(g) <=> ending = "canceled"
    /\ outcome' = [outcome EXCEPT ![g] = ending]
    /\ beating' = [beating EXCEPT ![g] = FALSE]
    /\ pc' = [pc EXCEPT ![g] = "write"]
    /\ UNCHANGED <<queueVars, daemonVars, home, job, canceled, kills, api>>

(* The terminal write, in a context that nobody cancels; its error is      *)
(* ignored.                                                                *)
WriteTerminal(g) ==
    LET t == job[g] IN
    /\ pc[g] = "write"
    /\ \E o \in Outcomes(FALSE) :
         \/ o = "lost" /\ UNCHANGED queueVars
         \/ o # "lost" /\ outcome[g] = "ok" /\ Complete(t)
         \/ o # "lost" /\ outcome[g] = "canceled" /\ Canceled(t)
         \/ o # "lost" /\ outcome[g] = "error" /\ Fail(t)
    /\ pc' = [pc EXCEPT ![g] = "done"]
    /\ UNCHANGED <<daemonVars, home, job, canceled, beating, outcome, kills, api>>

\* Mutant: manager.Done is not called.
DoneForgotten(g) ==
    /\ pc[g] = "done"
    /\ pc' = [pc EXCEPT ![g] = "release"]
    /\ UNCHANGED <<queueVars, daemonVars, home, job, canceled, beating, outcome, kills, api>>

(* The deferred done() of Manager.Start. *)
Done(g) ==
    /\ pc[g] = "done"
    /\ cancels' = [cancels EXCEPT ![home[g]][job[g]] = NoGoroutine]
    /\ pc' = [pc EXCEPT ![g] = "release"]
    /\ UNCHANGED <<queueVars, mode, turn, free, inflight, boots, stopped,
                   home, job, canceled, beating, outcome, kills, api>>

(* The deferred removeInflight and wg.Done. *)
Release(g) ==
    LET d == home[g]  a == agent[job[g]] IN
    /\ pc[g] = "release"
    /\ inflight' = [inflight EXCEPT ![d][a] = IF @ > 0 THEN @ - 1 ELSE @]
    /\ pc' = [pc EXCEPT ![g] = "idle"]
    /\ home' = [home EXCEPT ![g] = NoWorker]
    /\ job' = [job EXCEPT ![g] = NoTask]
    /\ canceled' = [canceled EXCEPT ![g] = FALSE]
    /\ outcome' = [outcome EXCEPT ![g] = "none"]
    /\ UNCHANGED <<queueVars, mode, turn, free, cancels, boots, stopped,
                   beating, kills, api>>

(* Time passes.  Under TimelyHeartbeats the timeout is long enough for a   *)
(* live execution never to let its heartbeat expire.                       *)
HeartbeatExpires(t) ==
    /\ TimelyHeartbeats => \A g \in Goroutine : job[g] # t
    /\ Expire(t)
    /\ UNCHANGED <<daemonVars, goVars, api>>

-----------------------------------------------------------------------------
Api(t) ==
    \/ \E a \in Agent, p \in PriorityInput : CreateTask(t, a, p)
    \/ \E d \in Worker : CancelTask(d, t)
    \/ CancelTaskLock(t)
    \/ CancelTaskEnd(t)
    \/ CancelTaskFail(t)

Process(d) == Boot(d) \/ RunRecovers(d) \/ Crash(d) \/ Stop(d) \/ RunReturns(d)

Scheduler(d) ==
    \/ \E a \in Agent : TickAgent(d, a)
    \/ \E t \in Task, g \in Goroutine : TickClaims(d, t, g)
    \/ TickFindsNothing(d)
    \/ TickFails(d)

Execute(g) ==
    \/ Start(g)
    \/ ExecuteMarks(g)
    \/ HeartbeatTick(g)
    \/ \E r \in Ending : RunnerReturns(g, r)
    \/ WriteTerminal(g)
    \/ Done(g)
    \/ Release(g)

Next ==
    \/ \E t \in Task : Api(t) \/ HeartbeatExpires(t)
    \/ \E d \in Worker : Process(d) \/ Scheduler(d)
    \/ \E g \in Goroutine : Execute(g)
    \/ \E d \in Worker, t \in Task : HeartbeatKills(d, t)

Spec == Init /\ [][Next]_vars
=============================================================================
