------------------------------ MODULE TaskQueue ------------------------------
(***************************************************************************)
(* The table agent_task_queue (server/db/migrations/0001_init.sql) and the *)
(* SQL statements of server/task/queue.go.                                 *)
(*                                                                         *)
(* One variable per column that some statement reads; prompt, result,      *)
(* error and the timestamps that are only displayed are left out.  A       *)
(* statement is one autocommitted transaction, hence one atomic change of  *)
(* the columns, with two exceptions, because Claim skips rows that are     *)
(* locked (FOR UPDATE SKIP LOCKED) while every other statement waits:      *)
(* RequestCancel takes the row lock in one step and commits in another,    *)
(* and Claim is told which rows other Claims hold locked.                  *)
(*                                                                         *)
(* A definition commented as a mutant, whose name extends that of a later  *)
(* one (PrecedesByPriorityOnly and Precedes), is a plausible bug that TLC  *)
(* must be able to tell from the code.                                     *)
(***************************************************************************)
EXTENDS Integers, FiniteSets

CONSTANTS
    Task,      \* the rows that may ever be inserted
    Agent,     \* the rows of table agents
    Worker,    \* worker ids (SHRIMP_WORKER_ID), one per daemon
    NoAgent,   \* the agent of a row not inserted yet
    NoWorker   \* worker_id IS NULL

ASSUME NoWorkerAssumption == NoWorker \notin Worker
ASSUME NoAgentAssumption  == NoAgent \notin Agent

VARIABLES
    status,           \* "absent" until the row is inserted
    agent,            \* agent_id
    priority,         \* 1 high .. 3 low
    created,          \* created_at, as the position of the insertion
    worker,           \* worker_id
    attempts,
    cancelRequested,  \* cancel_requested
    heartbeat,        \* heartbeat_at: NULL, younger or older than the timeout
    locked,           \* rows whose lock a RequestCancel statement holds
    clock             \* insertions so far

queueVars == <<status, agent, priority, created, worker, attempts,
               cancelRequested, heartbeat, locked, clock>>

-----------------------------------------------------------------------------
Active   == {"claimed", "running"}
Terminal == {"completed", "failed", "canceled"}
Status   == {"absent", "pending"} \cup Active \cup Terminal

QueueTypeOK ==
    /\ status \in [Task -> Status]
    /\ agent \in [Task -> Agent \cup {NoAgent}]
    /\ priority \in [Task -> 1..3]
    /\ created \in [Task -> Nat]
    /\ worker \in [Task -> Worker \cup {NoWorker}]
    /\ attempts \in [Task -> Nat]
    /\ cancelRequested \in [Task -> BOOLEAN]
    /\ heartbeat \in [Task -> {"null", "fresh", "stale"}]
    /\ locked \subseteq Task
    /\ clock \in Nat

QueueInit ==
    /\ status = [t \in Task |-> "absent"]
    /\ agent = [t \in Task |-> NoAgent]
    /\ priority = [t \in Task |-> 2]
    /\ created = [t \in Task |-> 0]
    /\ worker = [t \in Task |-> NoWorker]
    /\ attempts = [t \in Task |-> 0]
    /\ cancelRequested = [t \in Task |-> FALSE]
    /\ heartbeat = [t \in Task |-> "null"]
    /\ locked = {}
    /\ clock = 0

-----------------------------------------------------------------------------
\* Mutant: the priority is not bounded.
EnqueueUnchecked(t, a, p) ==
    /\ status[t] = "absent"
    /\ status' = [status EXCEPT ![t] = "pending"]
    /\ agent' = [agent EXCEPT ![t] = a]
    /\ priority' = [priority EXCEPT ![t] = p]
    /\ clock' = clock + 1
    /\ created' = [created EXCEPT ![t] = clock + 1]
    /\ UNCHANGED <<worker, attempts, cancelRequested, heartbeat, locked>>

(* A priority out of range is stored as PriorityMedium. *)
Enqueue(t, a, p) ==
    /\ status[t] = "absent"
    /\ status' = [status EXCEPT ![t] = "pending"]
    /\ agent' = [agent EXCEPT ![t] = a]
    /\ priority' = [priority EXCEPT ![t] = IF p \in 1..3 THEN p ELSE 2]
    /\ clock' = clock + 1
    /\ created' = [created EXCEPT ![t] = clock + 1]
    /\ UNCHANGED <<worker, attempts, cancelRequested, heartbeat, locked>>

\* Mutant: the subquery forgets status = pending.
ClaimableAnyStatus(a) == {t \in Task : status[t] # "absent" /\ agent[t] = a /\ t \notin locked}

\* Mutant: ORDER BY without the creation time.
PrecedesByPriorityOnly(t, u) == priority[t] <= priority[u]

(* The rows the subquery of Claim can see, and its ORDER BY. *)
Claimable(a) == {t \in Task : status[t] = "pending" /\ agent[t] = a /\ t \notin locked}

Precedes(t, u) ==
    priority[t] < priority[u] \/ (priority[t] = priority[u] /\ created[t] <= created[u])

(* held: the rows that other Claim statements, which may yet roll back,    *)
(* have locked (FOR UPDATE); SKIP LOCKED passes over them.                 *)
Claim(w, a, held, t) ==
    /\ t \in Claimable(a) \ held
    /\ \A u \in Claimable(a) \ held : Precedes(t, u)
    /\ status' = [status EXCEPT ![t] = "claimed"]
    /\ worker' = [worker EXCEPT ![t] = w]
    /\ attempts' = [attempts EXCEPT ![t] = @ + 1]
    /\ heartbeat' = [heartbeat EXCEPT ![t] = "fresh"]
    /\ UNCHANGED <<agent, priority, created, cancelRequested, locked, clock>>

(* WHERE id = $1 and nothing else: neither the status nor the owner of the *)
(* row is looked at.                                                       *)
MarkRunning(t) ==
    /\ t \notin locked
    /\ status' = [status EXCEPT ![t] = "running"]
    /\ heartbeat' = [heartbeat EXCEPT ![t] = "fresh"]
    /\ UNCHANGED <<agent, priority, created, worker, attempts, cancelRequested, locked, clock>>

(* The row the WHERE clause of Heartbeat finds.                            *)
Owns(w, t) == worker[t] = w /\ status[t] \in Active

\* Mutant: the flag is not read.
CancelSeenIgnoringFlag(w, t) == ~Owns(w, t)

(* What Heartbeat returns: no row counts as a cancel.                      *)
CancelSeen(w, t) == Owns(w, t) => cancelRequested[t]

Heartbeat(w, t) ==
    /\ t \notin locked
    /\ heartbeat' = IF Owns(w, t) THEN [heartbeat EXCEPT ![t] = "fresh"] ELSE heartbeat
    /\ UNCHANGED <<status, agent, priority, created, worker, attempts, cancelRequested,
                   locked, clock>>

(* Complete, Fail and Canceled differ in the status they write. *)
Finish(t, s) ==
    /\ t \notin locked
    /\ status' = [status EXCEPT ![t] = s]
    /\ UNCHANGED <<agent, priority, created, worker, attempts, cancelRequested, heartbeat,
                   locked, clock>>

Complete(t) == Finish(t, "completed")
Fail(t)     == Finish(t, "failed")
Canceled(t) == Finish(t, "canceled")

(* RequestCancel: the row lock, then the commit or the rollback. *)
Cancelable(t) == status[t] \in {"pending"} \cup Active

RequestCancelLock(t) ==
    /\ t \notin locked
    /\ Cancelable(t)
    /\ locked' = locked \cup {t}
    /\ UNCHANGED <<status, agent, priority, created, worker, attempts,
                   cancelRequested, heartbeat, clock>>

\* Mutant: the UPDATE ends the row itself.
RequestCancelEndWritingStatus(t, commit) ==
    /\ t \in locked
    /\ locked' = locked \ {t}
    /\ cancelRequested' = [cancelRequested EXCEPT ![t] = @ \/ commit]
    /\ status' = IF commit THEN [status EXCEPT ![t] = "canceled"] ELSE status
    /\ UNCHANGED <<agent, priority, created, worker, attempts, heartbeat, clock>>

RequestCancelEnd(t, commit) ==
    /\ t \in locked
    /\ locked' = locked \ {t}
    /\ cancelRequested' = [cancelRequested EXCEPT ![t] = @ \/ commit]
    /\ UNCHANGED <<status, agent, priority, created, worker, attempts, heartbeat, clock>>

\* Mutant: recovery without the heartbeat condition.
OrphanedAnyHeartbeat == {t \in Task : status[t] \in Active}
\* Mutant: recovery forgets the claimed rows.
OrphanedRunningOnly  == {t \in Task : status[t] = "running" /\ heartbeat[t] # "fresh"}

Orphaned == {t \in Task : status[t] \in Active /\ heartbeat[t] # "fresh"}

(* cancel_requested and attempts survive the recovery. *)
RecoverOrphanedTasks ==
    /\ Orphaned \cap locked = {}
    /\ status' = [t \in Task |-> IF t \in Orphaned THEN "pending" ELSE status[t]]
    /\ worker' = [t \in Task |-> IF t \in Orphaned THEN NoWorker ELSE worker[t]]
    /\ heartbeat' = [t \in Task |-> IF t \in Orphaned THEN "null" ELSE heartbeat[t]]
    /\ UNCHANGED <<agent, priority, created, attempts, cancelRequested, locked, clock>>

(* Time passes: heartbeat_at < now() - orphan_timeout becomes true.  Only  *)
(* RecoverOrphanedTasks reads it, and only in active rows.                 *)
Expire(t) ==
    /\ status[t] \in Active
    /\ heartbeat[t] = "fresh"
    /\ heartbeat' = [heartbeat EXCEPT ![t] = "stale"]
    /\ UNCHANGED <<status, agent, priority, created, worker, attempts,
                   cancelRequested, locked, clock>>
=============================================================================
