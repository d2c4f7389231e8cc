---------------------------- MODULE DaemonSafety ----------------------------
(***************************************************************************)
(* What the scheduler promises, as long as no row is recovered under a     *)
(* live execution: there is one daemon, or heartbeats are timely.          *)
(***************************************************************************)
EXTENDS Daemon

(* A task never runs twice at the same time: of the goroutines between the *)
(* claim (daemon.go:77) and the terminal write (daemon.go:136-151), no two *)
(* have the same task, whatever was recovered, claimed again or crashed.   *)
OneExecutionPerTask ==
    \A g, h \in Goroutine : Holding(g) /\ Holding(h) /\ job[g] = job[h] => g = h

(* While a goroutine runs a task, the row says so and names its daemon.    *)
(* MarkRunning, Complete, Fail and Canceled (queue.go:86-132) write WHERE  *)
(* id = $1 without looking at status or worker_id: this is why they may.   *)
HolderOwnsRow ==
    \A g \in Goroutine : Holding(g) => Owns(home[g], job[g])

(* Completed, failed and canceled are final: no late MarkRunning, terminal *)
(* write, recovery or claim moves a row out of them (DESIGN.md section 2). *)
TerminalIsFinal ==
    [][\A t \in Task : status[t] \in Terminal => status'[t] = status[t]]_vars

(* The process-local counter (daemon.go:26-29) is the number of goroutines *)
(* of the agent in that process, and never exceeds max_concurrent_tasks,   *)
(* although tick computes the free slots once and goroutines end meanwhile.*)
SlotAccounting ==
    \A d \in Worker, a \in Agent :
        /\ inflight[d][a] = Cardinality(Busy(d, a))
        /\ inflight[d][a] <= MaxConcurrent[a]

(* A task ends as canceled only if somebody asked the API to cancel it or  *)
(* its daemon was shut down while it ran: the "no row" answer of Heartbeat *)
(* (queue.go:102-105) never cancels a task by itself.                      *)
CancelHasCause ==
    \A t \in Task : status[t] = "canceled" => api[t] # "never" \/ t \in stopped

(* A task never starts before an older one of its agent that is at least   *)
(* as urgent, even across recoveries; SKIP LOCKED lets it pass only while  *)
(* a cancel of the older one is being processed (queue.go:70-76).          *)
NeverOvertaken ==
    \A t, u \in Task :
        /\ status[u] # "absent" /\ attempts[u] = 0 /\ attempts[t] > 0
        /\ agent[t] = agent[u] /\ priority[u] <= priority[t]
        /\ created[u] < created[t]
        => api[u] # "never"

(* The registry of cancel functions (context.go) holds exactly the         *)
(* goroutines between Start and done(), each under its own task: a cancel  *)
(* reaches the execution it is meant for and no other.                     *)
Registered(g) == pc[g] \in {"marking", "run", "write", "done"}

ManagerAgrees ==
    /\ \A g \in Goroutine : Registered(g) => cancels[home[g]][job[g]] = g
    /\ \A d \in Worker, t \in Task :
         LET g == cancels[d][t] IN
         g # NoGoroutine => Registered(g) /\ home[g] = d /\ job[g] = t

(* The daemons and the table implement the abstract lease: its holders are *)
(* the goroutines between claim and terminal write.                        *)
Lease == INSTANCE TaskLease WITH holders <- [t \in Task |-> Holders(t)]

ImplementsLease == Lease!Spec
=============================================================================
