----------------------- MODULE OrchestratorProperties -----------------------
(* What must hold of the workflow graph. *)
EXTENDS Orchestrator

Planned == {subtasks[i] : i \in DOMAIN subtasks}

\* The subagent a dispatch node waits for.
Awaited ==
    CASE node = "pm_phase"             -> Pm
      [] node = "planning_phase"       -> Planner
      [] node = "planning_dev_consult" -> Consultant
      [] node = "dev_subtask_dispatch" -> Dev(CurrentSubtask)
      [] node = "dev_codex_review"     -> Codex(CurrentSubtask)
      [] node = "rev_dispatch"         -> Rev
      [] node = "rev_codex_final"      -> CodexFinal

\* A pending guard retry is always delivered: while one is pending, the node
\* that runs next dispatches the very subagent it is meant for, with the
\* attempt that guard_retries counts for this round.  The flag is set and
\* consumed by different runs of a node, and the edges decide in between; an
\* edge that looks at the stage first would hand the planner's hint to the
\* consultant (_handle_guard_outcome, _route_after_planning).
RetryReachesItsSubagent ==
    pending # NoRetry =>
        /\ node \in Dispatch
        /\ pending.subagent = Awaited
        /\ pending.attempt = Attempts(Awaited)

\* A consultation starts only with quota left, and it answers a question: at
\* planning_dev_consult the decision whose file is handed to dev_agent is the
\* planner's, also when the guard made the consultant repeat its answer and
\* after rollbacks and hints (planning_dev_consult_node reads decisions[-1]).
ConsultationHasQuestion ==
    node = "planning_dev_consult" =>
        /\ round < MAX_PLANNING_CONSULTATIONS
        /\ decision = "planner"

\* The development loop sees only the subtasks of the current plan and pass:
\* those before the index are reviewed, the one at the index is with dev_agent
\* or its reviewer, and nothing of an earlier plan or of a pass that was
\* rolled back is left in subtask_results.
LoopSeesItsOwnResults ==
    node \in {"dev_subtask_dispatch", "dev_codex_review"} =>
        /\ index >= 0
        /\ \A i \in 1..index : results[subtasks[i]] \in {"passed", "failed"}
        /\ results[CurrentSubtask] = IF node = "dev_codex_review" THEN "dev" ELSE "none"
        /\ \A t \in SubtaskId :
              results[t] # "none" => \E i \in 1..(index + 1) : subtasks[i] = t

\* From Gate 2 to Gate 3 exactly the planned subtasks have a review, and the
\* synthetic Gate 2 claim says that every one of them passed exactly if it did,
\* whatever was planned, reviewed and rolled back before (dev_loop_router_node
\* sums up whatever subtask_results holds).
ReviewsComplete ==
    node \in {"gate_2", "rev_dispatch", "rev_codex_final", "gate_3"} =>
        /\ \A t \in SubtaskId : results[t] \in
              IF t \in Planned THEN {"passed", "failed"} ELSE {"none"}
        /\ gate2 <=> \A t \in Planned : results[t] = "passed"

\* The claims a gate shows its user were written after the last rollback or
\* hint that restarted the work they are about; Gate 3 shows two of them.
GateShows == [gate_1   |-> {"Gate 1"},
              gate_1_5 |-> {"Gate 1", "Gate 1.5"},
              gate_2   |-> {"Gate 1", "Gate 1.5", "Gate 2"},
              gate_3   |-> Claim]
ShownClaimIsCurrent == node \in Gate => GateShows[node] \subseteq claims

-----------------------------------------------------------------------------
PhaseOf ==
    CASE node \in {"init", "pm_phase", "gate_1"} -> 1
      [] node \in {"planning_phase", "planning_dev_consult", "gate_1_5"} -> 2
      [] node \in {"dev_loop_router", "dev_subtask_dispatch", "dev_codex_review",
                   "gate_2"} -> 3
      [] node \in {"rev_dispatch", "rev_codex_final", "gate_3"} -> 4
      [] node = "END" -> 0

\* A workflow that stops in a stage that is not final has no standing at all.
Standing ==
    CASE node = "END" /\ stage = "DONE"    -> "done"
      [] node = "END" /\ stage = "BLOCKED" -> "blocked"
      [] node \in Gate /\ stage \notin {"DONE", "BLOCKED"} -> "gate"
      [] node \notin Gate \cup {"END"} /\ stage \notin {"DONE", "BLOCKED"} -> "work"
      [] OTHER -> "lost"

\* The graph implements the ladder of phases and gates: no path through guard
\* retries, consultations, empty plans and rollbacks skips a gate, leaves a
\* gate without the user, ends in a stage that is not final or goes on after
\* DONE or BLOCKED.
PhaseGates == INSTANCE PhaseLadder WITH phase <- PhaseOf, standing <- Standing
ImplementsLadder == PhaseGates!Ladder

\* Between two questions to the user the graph does only finitely many things:
\* guard retries, the planner's consultations and the subtask loop all run
\* out, and a gate or the end is reached.
UserIsAsked == []<>(node \in Gate \cup {"END"})

\* The guard never blocks a workflow at the first severe result of a dispatch:
\* it has asked the same subagent to correct that result before.
GuardBlocks == node \in Dispatch /\ Severe(Awaited) /\ stage' = "BLOCKED"
BlockedOnlyAfterRetry == [][GuardBlocks => pending # NoRetry]_vars
=============================================================================
