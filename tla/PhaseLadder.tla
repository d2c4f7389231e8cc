----------------------------- MODULE PhaseLadder -----------------------------
(***************************************************************************)
(* What the workflow of orchestrator/scripts/graph.py promises its user:   *)
(* four phases, each closed by a gate.  Work on a phase begins only when   *)
(* the user has approved the gate below it or has sent a later phase back, *)
(* a workflow is done only when the last gate is approved, and nothing     *)
(* happens to a workflow that has ended.  Subagents, guards, consultations *)
(* and subtasks are invisible here.                                        *)
(***************************************************************************)
EXTENDS Naturals

VARIABLES phase,    \* 1 PM, 2 PLANNING, 3 DEV, 4 REV; 0 once it has ended
          standing  \* in work, at its gate, or how the workflow ended

LadderInit == phase = 1 /\ standing = "work"

\* The phase's subagents have answered: the user is asked.
Finish == /\ standing = "work"
          /\ standing' = "gate"
          /\ UNCHANGED phase

Approve == /\ standing = "gate"
           /\ \/ phase < 4 /\ phase' = phase + 1 /\ standing' = "work"
              \/ phase = 4 /\ phase' = 0 /\ standing' = "done"

\* Rollback, or another planning round, to a phase that was already open.
SendBack == /\ standing = "gate"
            /\ phase' \in 1..phase
            /\ standing' = "work"

\* Rejected or unreadable answers, planner or guard failures.
Block == /\ standing \in {"work", "gate"}
         /\ phase' = 0
         /\ standing' = "blocked"

LadderNext == Finish \/ Approve \/ SendBack \/ Block

Ladder == LadderInit /\ [][LadderNext]_<<phase, standing>>
=============================================================================
