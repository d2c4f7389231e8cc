---------------------------- MODULE Orchestrator ----------------------------
(***************************************************************************)
(* The workflow graph of orchestrator/scripts/graph.py: thirteen nodes     *)
(* over one checkpointed state.  A dispatch node interrupts for the result *)
(* of a subagent, a gate node for the answer of the user; the checkpoint   *)
(* changes only when the node returns, so an action is one whole node      *)
(* handler with the conditional edge that follows it.  A handler that      *)
(* raises, or a process that dies, leaves the checkpoint as it was.        *)
(*                                                                         *)
(* Of the state kept are the fields that decide a branch or are shown at   *)
(* a gate.  Logs, warnings, artifacts, messages, hint and consultation     *)
(* records, and rollback_counts are written and never read by a branch.    *)
(***************************************************************************)
EXTENDS Integers, Sequences, FiniteSets, Functions

CONSTANTS
    SubtaskId,                   \* task_ids the planner can choose from
    NoSubtask,                   \* subagents that do not work on a subtask
    MAX_PLANNING_CONSULTATIONS,
    GUARD_RETRY_LIMIT,
    MaxGuardRetries,             \* bound: guard retries in a behaviour
    MaxRollbacks                 \* bound: rollbacks in a behaviour

ASSUME OrchestratorAssumption ==
    /\ IsFiniteSet(SubtaskId)
    /\ NoSubtask \notin SubtaskId
    /\ MAX_PLANNING_CONSULTATIONS \in Nat
    /\ GUARD_RETRY_LIMIT \in Nat
    /\ MaxGuardRetries \in Nat
    /\ MaxRollbacks \in Nat

VARIABLES
    node,          \* the node that runs next
    stage,
    retryCount,    \* retry_count: rollbacks so far
    guardRetries,  \* guard_retries, 0 for an absent key
    pending,       \* pending_guard_retry
    round,         \* planning_consultation_round
    subtasks,      \* subtasks, as their task_ids
    index,         \* current_subtask_index, from 0, -1 outside the loop
    results,       \* subtask_results: how far each subtask is
    gate2,         \* passed in the synthetic gate_results["Gate 2"]
    claims,        \* keys of gate_results written for the work under way
    decision       \* who made decisions[-1]

vars == <<node, stage, retryCount, guardRetries, pending, round, subtasks,
          index, results, gate2, claims, decision>>

-----------------------------------------------------------------------------
Pm         == <<"pm_agent", NoSubtask>>
Planner    == <<"planner", NoSubtask>>
Consultant == <<"dev_agent[consult]", NoSubtask>>
Rev        == <<"rev_agent", NoSubtask>>
CodexFinal == <<"codex_final", NoSubtask>>
Dev(t)     == <<"dev_agent", t>>
Codex(t)   == <<"codex_reviewer", t>>

Subagent == {Pm, Planner, Consultant, Rev, CodexFinal}
                \cup {Dev(t) : t \in SubtaskId} \cup {Codex(t) : t \in SubtaskId}

NoRetry == [subagent |-> <<"none", NoSubtask>>, attempt |-> 0]

Gate     == {"gate_1", "gate_1_5", "gate_2", "gate_3"}
Dispatch == {"pm_phase", "planning_phase", "planning_dev_consult",
             "dev_subtask_dispatch", "dev_codex_review", "rev_dispatch",
             "rev_codex_final"}
Node     == Gate \cup Dispatch \cup {"init", "dev_loop_router", "END"}
Stage    == {"INIT", "PM_PHASE", "GATE_1", "PLANNING_PHASE", "GATE_1_5", "DEV_PHASE",
             "GATE_2", "REV_PHASE", "GATE_3", "DONE", "BLOCKED"}

\* The gates whose claims describe a phase; a phase sent back outdates its
\* own and all later ones.
Claim == {"Gate 1", "Gate 1.5", "Gate 2", "Gate 3 - rev_agent", "Gate 3"}
ClaimsFrom(phase) ==
    CASE phase = "PM_PHASE"       -> Claim
      [] phase = "PLANNING_PHASE" -> Claim \ {"Gate 1"}
      [] phase = "DEV_PHASE"      -> Claim \ {"Gate 1", "Gate 1.5"}

\* _parse_subtask_plan: any list, without blank or repeated task_ids.
Plans == {plan \in UNION {[1..n -> SubtaskId] : n \in 0..Cardinality(SubtaskId)} :
             \A i, j \in DOMAIN plan : plan[i] = plan[j] => i = j}

\* subtask_results: no entry, the partial one of dev_agent (whose
\* review_passed is still False), or a reviewed one.
Progress  == {"none", "dev", "passed", "failed"}
NoResults == [t \in SubtaskId |-> "none"]

CurrentSubtask == subtasks[index + 1]

TypeOK ==
    /\ node \in Node
    /\ stage \in Stage
    /\ retryCount \in 0..MaxRollbacks
    /\ guardRetries \in [Subagent \X (0..MaxRollbacks) -> 0..GUARD_RETRY_LIMIT]
    /\ pending \in [subagent : Subagent, attempt : 1..GUARD_RETRY_LIMIT] \cup {NoRetry}
    /\ round \in 0..MAX_PLANNING_CONSULTATIONS
    /\ subtasks \in Plans
    /\ index \in -1..(Len(subtasks) - 1)
    /\ results \in [SubtaskId -> Progress]
    /\ gate2 \in BOOLEAN
    /\ claims \subseteq Claim
    /\ decision \in {"none", "user"} \cup {s[1] : s \in Subagent}

Init ==
    /\ node = "init"
    /\ stage = "INIT"
    /\ retryCount = 0
    /\ guardRetries = [key \in Subagent \X (0..MaxRollbacks) |-> 0]
    /\ pending = NoRetry
    /\ round = 0
    /\ subtasks = <<>>
    /\ index = -1
    /\ results = NoResults
    /\ gate2 = FALSE
    /\ claims = {}
    /\ decision = "none"

-----------------------------------------------------------------------------
(* The Anti-Drop Guard and the conditional edges.                          *)

\* _guard_retry_key; the stage in it follows from the subagent.
GuardKey(sub) == <<sub, retryCount>>
Attempts(sub) == guardRetries[GuardKey(sub)]

\* A severe finding with budget left: the stage stays, the edge comes back.
GuardRetry(sub) ==
    /\ Attempts(sub) < GUARD_RETRY_LIMIT
    /\ SumFunction(guardRetries) < MaxGuardRetries
    /\ guardRetries' = [guardRetries EXCEPT ![GuardKey(sub)] = @ + 1]
    /\ pending' = [subagent |-> sub, attempt |-> Attempts(sub) + 1]
    /\ UNCHANGED stage

GuardBlock(sub) ==
    /\ Attempts(sub) >= GUARD_RETRY_LIMIT
    /\ stage' = "BLOCKED"
    /\ pending' = NoRetry
    /\ UNCHANGED guardRetries

\* The result of sub has a severe finding: nothing else of it is kept.
Severe(sub) ==
    /\ GuardRetry(sub) \/ GuardBlock(sub)
    /\ UNCHANGED <<retryCount, round, subtasks, index, results, gate2, claims, decision>>

\* It has none: the node consumes a retry that was meant for sub and the
\* audit decision is appended.
Accepted(sub) ==
    /\ pending' = IF pending.subagent = sub THEN NoRetry ELSE pending
    /\ decision' = sub[1]
    /\ UNCHANGED <<guardRetries, retryCount>>

\* Mutant: no short cut to END for a blocked workflow.
RouteDispatchOutcomeBlind(next) == node' = IF pending' # NoRetry THEN node ELSE next

RouteDispatchOutcome(next) ==
    node' = IF pending' # NoRetry THEN node
            ELSE IF stage' = "BLOCKED" THEN "END"
            ELSE next

\* Mutant: the stage is looked at before the pending retry.
RouteAfterPlanningStageFirst ==
    node' = IF stage' = "PLANNING_PHASE" THEN "planning_dev_consult"
            ELSE IF stage' = "GATE_1_5" THEN "gate_1_5"
            ELSE "END"

RouteAfterPlanning ==
    node' = IF pending' # NoRetry THEN "planning_phase"
            ELSE IF stage' = "PLANNING_PHASE" THEN "planning_dev_consult"
            ELSE IF stage' = "GATE_1_5" THEN "gate_1_5"
            ELSE "END"

RouteAfterDevLoop ==
    node' = IF stage' = "GATE_2" THEN "gate_2" ELSE "dev_subtask_dispatch"

\* Mutant: REV is entered at its second half.
FirstNodeSkippingRev == [PM_PHASE       |-> "pm_phase",
                         PLANNING_PHASE |-> "planning_phase",
                         DEV_PHASE      |-> "dev_loop_router",
                         REV_PHASE      |-> "rev_codex_final"]

\* The edges after a gate: the first node of the stage the answer chose, if
\* that gate may choose it.
FirstNode == [PM_PHASE       |-> "pm_phase",
              PLANNING_PHASE |-> "planning_phase",
              DEV_PHASE      |-> "dev_loop_router",
              REV_PHASE      |-> "rev_dispatch"]
RouteTo(phases)  == node' = IF stage' \in phases THEN FirstNode[stage'] ELSE "END"
RouteAfterGate1  == RouteTo({"PLANNING_PHASE", "PM_PHASE"})
RouteAfterGate15 == RouteTo({"DEV_PHASE", "PM_PHASE", "PLANNING_PHASE"})
RouteAfterGate2  == RouteTo({"REV_PHASE", "PLANNING_PHASE", "PM_PHASE"})
RouteAfterGate3  == RouteTo({"DEV_PHASE", "PLANNING_PHASE", "PM_PHASE"})

-----------------------------------------------------------------------------
(* What a user answers at a gate.                                          *)

Approve(next) ==
    /\ stage' = next
    /\ UNCHANGED <<retryCount, claims>>

Rollback(phase) ==
    /\ retryCount < MaxRollbacks
    /\ stage' = phase
    /\ retryCount' = retryCount + 1
    /\ claims' = claims \ ClaimsFrom(phase)

\* reject, an answer that is not among the options, a hint file that is
\* missing, unreadable, too large or not UTF-8.
Refuse ==
    /\ stage' = "BLOCKED"
    /\ UNCHANGED <<retryCount, claims>>

\* Every gate handler appends the user's decision.
Answered == decision' = "user" /\ UNCHANGED <<guardRetries, pending, subtasks, gate2>>

-----------------------------------------------------------------------------
(* The nodes.                                                              *)

InitNode ==
    /\ node = "init"
    /\ stage' = "PM_PHASE"
    /\ node' = "pm_phase"
    /\ UNCHANGED <<retryCount, guardRetries, pending, round, subtasks, index, results,
                   gate2, claims, decision>>

PmPhase ==
    /\ node = "pm_phase"
    /\ \/ Severe(Pm)
       \/ /\ Accepted(Pm)
          /\ stage' = "GATE_1"
          /\ claims' = claims \cup {"Gate 1"}
          /\ UNCHANGED <<round, subtasks, index, results, gate2>>
    /\ RouteDispatchOutcome("gate_1")

Gate1 ==
    /\ node = "gate_1"
    /\ Approve("PLANNING_PHASE") \/ Rollback("PM_PHASE") \/ Refuse
    /\ Answered
    /\ RouteAfterGate1
    /\ UNCHANGED <<round, index, results>>

\* status = blocked
PlannerGivesUp ==
    /\ stage' = "BLOCKED"
    /\ UNCHANGED <<subtasks, index, results>>

\* Mutant: off by one in exhausted.
PlannerAsksOnceMore ==
    /\ round <= MAX_PLANNING_CONSULTATIONS
    /\ stage' = "PLANNING_PHASE"
    /\ UNCHANGED <<subtasks, index, results>>

\* status = needs_input with a question for dev_agent, quota left
PlannerAsks ==
    /\ round < MAX_PLANNING_CONSULTATIONS
    /\ stage' = "PLANNING_PHASE"
    /\ UNCHANGED <<subtasks, index, results>>

\* Mutant: a new plan keeps the results of the old one.
PlannerPlansKeepingResults ==
    /\ stage' = "GATE_1_5"
    /\ subtasks' \in Plans
    /\ index' = -1
    /\ UNCHANGED results

\* done, or needs_input without a question or without quota
PlannerPlans ==
    /\ stage' = "GATE_1_5"
    /\ subtasks' \in Plans
    /\ index' = -1
    /\ results' = NoResults

PlanningPhase ==
    /\ node = "planning_phase"
    /\ \/ Severe(Planner)
       \/ /\ Accepted(Planner)
          /\ PlannerGivesUp \/ PlannerAsks \/ PlannerPlans
          /\ claims' = claims \cup {"Gate 1.5"}
          /\ UNCHANGED <<round, gate2>>
    /\ RouteAfterPlanning

\* Mutant: the round is not counted.
PlanningDevConsultUncounted ==
    /\ node = "planning_dev_consult"
    /\ \/ Severe(Consultant)
       \/ /\ Accepted(Consultant)
          /\ stage' = "PLANNING_PHASE"
          /\ UNCHANGED <<round, subtasks, index, results, gate2, claims>>
    /\ RouteDispatchOutcome("planning_phase")

PlanningDevConsult ==
    /\ node = "planning_dev_consult"
    /\ \/ Severe(Consultant)
       \/ /\ Accepted(Consultant)
          /\ stage' = "PLANNING_PHASE"
          /\ round' = round + 1
          /\ UNCHANGED <<subtasks, index, results, gate2, claims>>
    /\ RouteDispatchOutcome("planning_phase")

\* continue_planning with a hint that can be read
ContinuePlanning ==
    /\ stage' = "PLANNING_PHASE"
    /\ round' = 0
    /\ claims' = claims \ ClaimsFrom("PLANNING_PHASE")
    /\ UNCHANGED retryCount

Gate15 ==
    /\ node = "gate_1_5"
    /\ \/ ContinuePlanning
       \/ (Approve("DEV_PHASE") \/ Rollback("PM_PHASE") \/ Refuse) /\ UNCHANGED round
    /\ Answered
    /\ RouteAfterGate15
    /\ UNCHANGED <<index, results>>

\* Mutant: off by one at the end of the queue.
EnterSubtaskPastTheEnd ==
    /\ index + 1 <= Len(subtasks)
    /\ index' = index + 1
    /\ UNCHANGED <<stage, gate2, claims>>

EnterSubtask ==
    /\ index + 1 < Len(subtasks)
    /\ index' = index + 1
    /\ UNCHANGED <<stage, gate2, claims>>

\* The queue is exhausted: all(r.review_passed for r in subtask_results).
AggregateReviews ==
    /\ index + 1 >= Len(subtasks)
    /\ stage' = "GATE_2"
    /\ gate2' = (\A t \in SubtaskId : results[t] \in {"none", "passed"})
    /\ claims' = claims \cup {"Gate 2"}
    /\ index' = -1

DevLoopRouter ==
    /\ node = "dev_loop_router"
    /\ EnterSubtask \/ AggregateReviews
    /\ RouteAfterDevLoop
    /\ UNCHANGED <<retryCount, guardRetries, pending, round, subtasks, results, decision>>

DevSubtaskDispatch ==
    /\ node = "dev_subtask_dispatch"
    /\ \/ Severe(Dev(CurrentSubtask))
       \/ /\ Accepted(Dev(CurrentSubtask))
          /\ results' = [results EXCEPT ![CurrentSubtask] = "dev"]
          /\ UNCHANGED <<stage, round, subtasks, index, gate2, claims>>
    /\ RouteDispatchOutcome("dev_codex_review")

DevCodexReview ==
    /\ node = "dev_codex_review"
    /\ \/ Severe(Codex(CurrentSubtask))
       \/ /\ Accepted(Codex(CurrentSubtask))
          /\ \E verdict \in {"passed", "failed"} :
                results' = [results EXCEPT ![CurrentSubtask] = verdict]
          /\ UNCHANGED <<stage, round, subtasks, index, gate2, claims>>
    /\ RouteDispatchOutcome("dev_loop_router")

Gate2 ==
    /\ node = "gate_2"
    /\ Approve("REV_PHASE") \/ Rollback("PLANNING_PHASE") \/ Rollback("PM_PHASE") \/ Refuse
    /\ Answered
    /\ RouteAfterGate2
    /\ UNCHANGED <<round, index, results>>

RevDispatch ==
    /\ node = "rev_dispatch"
    /\ \/ Severe(Rev)
       \/ /\ Accepted(Rev)
          /\ claims' = claims \cup {"Gate 3 - rev_agent"}
          /\ UNCHANGED <<stage, round, subtasks, index, results, gate2>>
    /\ RouteDispatchOutcome("rev_codex_final")

RevCodexFinal ==
    /\ node = "rev_codex_final"
    /\ \/ Severe(CodexFinal)
       \/ /\ Accepted(CodexFinal)
          /\ stage' = "GATE_3"
          /\ claims' = claims \cup {"Gate 3"}
          /\ UNCHANGED <<round, subtasks, index, results, gate2>>
    /\ RouteDispatchOutcome("gate_3")

\* Mutant: the results of the rejected pass stay.
RollbackToDevKeepingResults ==
    /\ Rollback("DEV_PHASE")
    /\ index' = -1
    /\ UNCHANGED results

RollbackToDev ==
    /\ Rollback("DEV_PHASE")
    /\ results' = NoResults
    /\ index' = -1

Gate3 ==
    /\ node = "gate_3"
    /\ \/ RollbackToDev
       \/ /\ \/ Approve("DONE") \/ Refuse
             \/ Rollback("PLANNING_PHASE") \/ Rollback("PM_PHASE")
          /\ UNCHANGED <<results, index>>
    /\ Answered
    /\ RouteAfterGate3
    /\ UNCHANGED round

\* Nodes that do not wait for the user.
Automatic ==
    \/ InitNode \/ PmPhase \/ PlanningPhase \/ PlanningDevConsult
    \/ DevLoopRouter \/ DevSubtaskDispatch \/ DevCodexReview
    \/ RevDispatch \/ RevCodexFinal

Next == Automatic \/ Gate1 \/ Gate15 \/ Gate2 \/ Gate3

\* Whoever resumes the graph brings every dispatched subagent's result; no
\* user has to answer a gate.
Spec == Init /\ [][Next]_vars /\ WF_vars(Automatic)
=============================================================================
