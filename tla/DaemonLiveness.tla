--------------------------- MODULE DaemonLiveness ---------------------------
(***************************************************************************)
(* What the scheduler must eventually do, and the fairness it may count    *)
(* on.  Users, crashes, shutdown signals and children get no fairness.     *)
(***************************************************************************)
EXTENDS Daemon

VARIABLE
    forsaken    \* history: <<d, t>> when the running process d lost track of row t

fairVars == <<vars, forsaken>>

-----------------------------------------------------------------------------
(* Statements whose failure leaves a row active with nobody to end it: a   *)
(* terminal write that did not take effect, its error being ignored        *)
(* (daemon.go:138-147), and a claim that did, its answer being lost        *)
(* (daemon.go:81-84).                                                      *)
LosesTrack(d, t) ==
    \/ \E g \in Goroutine :
         /\ pc[g] = "write" /\ pc'[g] = "done"
         /\ home[g] = d /\ job[g] = t /\ status'[t] \notin Terminal
    \/ /\ attempts'[t] # attempts[t] /\ worker'[t] = d
       /\ \A g \in Goroutine : job'[g] # t

(* The next process of the daemon may find the row by its heartbeat.       *)
LiveNext ==
    /\ Next
    /\ forsaken' = {k \in forsaken \cup {p \in Worker \X Task : LosesTrack(p[1], p[2])} :
                       mode'[k[1]] # "down"}

(* The goroutines of a process are scheduled, its tickers fire, and a      *)
(* statement that waits for a row lock, or fails and is tried at the next  *)
(* tick again, gets through in the end: strong fairness of the claim that  *)
(* returns a row and of the heartbeat that reports a cancel.  A tick       *)
(* visits every agent of the registry, hence that of TickAgent.            *)
ProcessFairness ==
    /\ \A d \in Worker :
         /\ SF_vars(RunRecovers(d))
         /\ WF_vars(RunReturns(d))
         /\ \A a \in Agent : SF_vars(TickAgent(d, a))
         /\ WF_vars(TickFindsNothing(d) \/ TickFails(d))
         /\ SF_vars(\E t \in Task, g \in Goroutine : TickClaims(d, t, g))
         /\ \A t \in Task : WF_vars(HeartbeatKills(d, t))
    /\ \A g \in Goroutine :
         /\ WF_vars(Start(g))
         /\ SF_vars(ExecuteMarks(g))
         /\ SF_vars(HeartbeatTick(g) /\ ~beating'[g])
         /\ SF_vars(WriteTerminal(g))
         /\ WF_vars(Done(g))
         /\ WF_vars(Release(g))
    /\ \A t \in Task : WF_vars(CancelTaskEnd(t)) /\ WF_vars(HeartbeatExpires(t))

(* A supervisor starts the daemon again when it is down. *)
Restarted == \A d \in Worker : WF_vars(Boot(d))

FairSpec ==
    Init /\ forsaken = {} /\ [][LiveNext]_fairVars /\ ProcessFairness /\ Restarted

-----------------------------------------------------------------------------
(*           The conditions, each a premise of what depends on it          *)

(* From some point on a daemon runs without crash or shutdown. *)
StaysUp == \E d \in Worker : <>[](mode[d] = "up")

(* That daemon loses track of no row.  What earlier processes lost may     *)
(* stand.                                                                  *)
KeepsTrack == <>[](forsaken = {})

(* No child runs forever; the code sets no limit on its run time. *)
ChildrenExit == \A g \in Goroutine : []<>(pc[g] # "run")

(* A run whose context is cancelled returns: CancelReturns of the runner's *)
(* model, which asks that no helper of the child keeps a pipe open for     *)
(* ever (runner.go:115 waits for both scanners, before the grace period).  *)
CancelledRunsReturn ==
    \A g \in Goroutine : (pc[g] = "run" /\ CtxDone(g)) ~> pc[g] # "run"

-----------------------------------------------------------------------------
(* "On boot it recovers tasks that were mid-flight when a previous         *)
(* instance died" (DESIGN.md:16-18): every task nobody cancels ends, if    *)
(* the children end, the crashes do, and the daemon that stays up loses    *)
(* neither a terminal write (daemon.go:138-147) nor the answer of a claim  *)
(* that took effect (daemon.go:77).  Without the last condition the row    *)
(* stays claimed or running for as long as that daemon is up; whatever is  *)
(* lost before a crash is made good by the recovery.                       *)
EveryTaskEnds ==
    StaysUp /\ KeepsTrack /\ ChildrenExit => \A t \in Task :
        status[t] = "pending" ~> (status[t] \in Terminal \/ api[t] # "never")

(* A cancel of a task that is being executed ends it, through the Manager  *)
(* or through the next heartbeat, even if its child would run forever,     *)
(* provided that a cancelled run returns.                                  *)
CancelEndsExecution ==
    StaysUp /\ CancelledRunsReturn => \A g \in Goroutine, t \in Task :
        (job[g] = t /\ Holding(g) /\ cancelRequested[t]) ~> ~(job[g] = t /\ Holding(g))

(* "The daemon reacts either via the in-process Manager or on the next     *)
(* heartbeat" (queue.go:134-135): a cancel request has an effect.          *)
EveryCancelEndsTask ==
    StaysUp /\ CancelledRunsReturn =>
        \A t \in Task : cancelRequested[t] ~> status[t] \in Terminal

(* A shutdown drains: Run returns once the in-flight tasks were cancelled  *)
(* (daemon.go:62-65), provided that a cancelled run returns; a helper of   *)
(* one child that keeps a pipe open holds up wg.Wait, and so the daemon.   *)
ShutdownCompletes ==
    CancelledRunsReturn => \A d \in Worker : mode[d] = "stopping" ~> mode[d] = "down"
=============================================================================
