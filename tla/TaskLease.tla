------------------------------ MODULE TaskLease ------------------------------
(***************************************************************************)
(* What the queue and its daemons promise together (DESIGN.md, sections 2  *)
(* and 3): a task is held by at most one execution at a time; only its     *)
(* holder moves it forward; a task that lost its holder goes back to       *)
(* pending and is run again; a terminal status is never left.              *)
(***************************************************************************)
CONSTANTS Task, Goroutine

VARIABLES
    status,   \* of each task
    holders   \* the executions that hold it

Active   == {"claimed", "running"}
Terminal == {"completed", "failed", "canceled"}

Init ==
    /\ status = [t \in Task |-> "absent"]
    /\ holders = [t \in Task |-> {}]

Submit(t) ==
    /\ status[t] = "absent"
    /\ status' = [status EXCEPT ![t] = "pending"]
    /\ UNCHANGED holders

(* A claim hands a free task to one execution, or, when its answer is      *)
(* lost, to none.                                                          *)
Take(t, hs) ==
    /\ status[t] = "pending"
    /\ holders[t] = {}
    /\ status' = [status EXCEPT ![t] = "claimed"]
    /\ holders' = [holders EXCEPT ![t] = hs]

StartRunning(t) ==
    /\ holders[t] # {}
    /\ status[t] = "claimed"
    /\ status' = [status EXCEPT ![t] = "running"]
    /\ UNCHANGED holders

End(t, s) ==
    /\ holders[t] # {}
    /\ status[t] \in Active
    /\ status' = [status EXCEPT ![t] = s]
    /\ holders' = [holders EXCEPT ![t] = {}]

(* Executions vanish without a word: a crash, or a terminal write lost.    *)
Vanish(gs) ==
    /\ holders' = [t \in Task |-> holders[t] \ gs]
    /\ UNCHANGED status

Recover(ts) ==
    /\ \A t \in ts : status[t] \in Active /\ holders[t] = {}
    /\ status' = [t \in Task |-> IF t \in ts THEN "pending" ELSE status[t]]
    /\ UNCHANGED holders

Next ==
    \/ \E t \in Task :
         \/ Submit(t)
         \/ Take(t, {})
         \/ \E g \in Goroutine : Take(t, {g})
         \/ StartRunning(t)
         \/ \E s \in Terminal : End(t, s)
    \/ \E gs \in SUBSET Goroutine : Vanish(gs)
    \/ \E ts \in SUBSET Task : Recover(ts)

Spec == Init /\ [][Next]_<<status, holders>>
=============================================================================
