------------------------- MODULE OrchestratorProofs -------------------------
(***************************************************************************)
(* The workflow graph keeps its invariants and implements the ladder of    *)
(* phases, for every plan, every quota and every number of rollbacks.      *)
(*                                                                         *)
(* The properties are not inductive one by one: what a gate shows depends  *)
(* on what every node on the way to it has written, and the edges of the   *)
(* graph depend on a stage and a pending retry that other nodes left       *)
(* behind.  GraphInv says for each node what holds when it runs next.      *)
(***************************************************************************)
EXTENDS OrchestratorProperties, FiniteSetTheorems, TLAPS

(* The stage a checkpoint shows is the one of the node that runs next.     *)
StageOfNode ==
    /\ node = "init" => stage = "INIT"
    /\ node = "pm_phase" => stage = "PM_PHASE"
    /\ node = "gate_1" => stage = "GATE_1"
    /\ node \in {"planning_phase", "planning_dev_consult"} => stage = "PLANNING_PHASE"
    /\ node = "gate_1_5" => stage = "GATE_1_5"
    /\ node \in {"dev_loop_router", "dev_subtask_dispatch", "dev_codex_review"}
          => stage = "DEV_PHASE"
    /\ node = "gate_2" => stage = "GATE_2"
    /\ node \in {"rev_dispatch", "rev_codex_final"} => stage = "REV_PHASE"
    /\ node = "gate_3" => stage = "GATE_3"
    /\ node = "END" => stage \in {"DONE", "BLOCKED"}

(* The claims every node finds in gate_results.                            *)
ClaimsOfNode ==
    /\ node \notin {"init", "pm_phase", "END"} => "Gate 1" \in claims
    /\ node \notin {"init", "pm_phase", "gate_1", "planning_phase",
                    "planning_dev_consult", "END"} => "Gate 1.5" \in claims
    /\ node \in {"gate_2", "rev_dispatch", "rev_codex_final", "gate_3"}
          => "Gate 2" \in claims
    /\ node \in {"rev_codex_final", "gate_3"} => "Gate 3 - rev_agent" \in claims
    /\ node = "gate_3" => "Gate 3" \in claims

(* The loop starts without results, and its router finds those of exactly  *)
(* the subtasks up to the index.                                           *)
QueueOfNode ==
    /\ node = "gate_1_5" => index = -1 /\ results = NoResults
    /\ node = "dev_loop_router" =>
          /\ \A i \in 1..(index + 1) : results[subtasks[i]] \in {"passed", "failed"}
          /\ \A t \in SubtaskId :
                results[t] # "none" => \E i \in 1..(index + 1) : subtasks[i] = t

GraphInv ==
    /\ TypeOK
    /\ StageOfNode
    /\ ClaimsOfNode
    /\ QueueOfNode
    /\ RetryReachesItsSubagent
    /\ ConsultationHasQuestion
    /\ LoopSeesItsOwnResults
    /\ ReviewsComplete

-----------------------------------------------------------------------------
(* A plan is a list of different subtasks. *)
LEMMA PlanFacts ==
  ASSUME NEW plan \in Plans
  PROVE  /\ Len(plan) \in Nat
         /\ DOMAIN plan = 1..Len(plan)
         /\ \A i \in 1..Len(plan) : plan[i] \in SubtaskId
         /\ \A i, j \in 1..Len(plan) : plan[i] = plan[j] => i = j
<1>1. PICK n \in Nat : plan \in [1..n -> SubtaskId]
  BY DEF Plans
<1>2. Len(plan) = n /\ DOMAIN plan = 1..n
  BY <1>1
<1> QED BY <1>1, <1>2 DEF Plans

(* An absent retry names nobody. *)
LEMMA NobodyAwaitsNoRetry ==
  NoRetry.subagent \notin Subagent /\ NoRetry \notin [subagent : Subagent, attempt : 1..GUARD_RETRY_LIMIT]
BY DEF NoRetry, Subagent, Pm, Planner, Consultant, Rev, CodexFinal, Dev, Codex

(* A dispatch node waits for one of the subagents. *)
LEMMA AwaitedType ==
  ASSUME GraphInv, node \in Dispatch
  PROVE  /\ Awaited \in Subagent
         /\ node \in {"dev_subtask_dispatch", "dev_codex_review"} => CurrentSubtask \in SubtaskId
<1>1. /\ subtasks \in Plans
      /\ index \in -1..(Len(subtasks) - 1)
      /\ node \in {"dev_subtask_dispatch", "dev_codex_review"} => index >= 0
  BY DEF GraphInv, TypeOK, LoopSeesItsOwnResults
<1>2. node \in {"dev_subtask_dispatch", "dev_codex_review"} => CurrentSubtask \in SubtaskId
  BY <1>1, PlanFacts DEF CurrentSubtask
<1> QED BY <1>2 DEF Awaited, Dispatch, Subagent

(* The node that runs next consumes the retry it was sent. *)
LEMMA AcceptedClears ==
  ASSUME GraphInv, node \in Dispatch, Accepted(Awaited)
  PROVE  pending' = NoRetry /\ decision' \in {s[1] : s \in Subagent}
<1>1. pending # NoRetry => pending.subagent = Awaited
  BY DEF GraphInv, RetryReachesItsSubagent
<1> QED BY <1>1, AwaitedType DEF Accepted

(* A new workflow satisfies the invariant. *)
LEMMA InitGraph == Init => GraphInv
<1> SUFFICES ASSUME Init PROVE GraphInv
  OBVIOUS
<1>1. <<>> \in Plans
  <2>1. <<>> \in [1..0 -> SubtaskId]
    OBVIOUS
  <2>2. 0 \in 0..Cardinality(SubtaskId)
    BY OrchestratorAssumption, FS_CardinalityType
  <2> QED BY <2>1, <2>2 DEF Plans
<1>2. guardRetries \in [Subagent \X (0..MaxRollbacks) -> 0..GUARD_RETRY_LIMIT]
  BY OrchestratorAssumption DEF Init
<1>3. /\ node \in Node /\ stage \in Stage /\ results \in [SubtaskId -> Progress]
      /\ gate2 \in BOOLEAN /\ claims \subseteq Claim /\ decision = "none"
  BY DEF Init, Node, Stage, NoResults, Progress
<1>4. /\ retryCount \in 0..MaxRollbacks /\ round \in 0..MAX_PLANNING_CONSULTATIONS
      /\ subtasks \in Plans /\ index \in -1..(Len(subtasks) - 1) /\ pending = NoRetry
  BY <1>1, PlanFacts, OrchestratorAssumption DEF Init
<1>5. TypeOK
  BY <1>2, <1>3, <1>4 DEF TypeOK
<1> QED BY <1>5 DEF Init, GraphInv, StageOfNode, ClaimsOfNode, QueueOfNode,
        RetryReachesItsSubagent, ConsultationHasQuestion, LoopSeesItsOwnResults, ReviewsComplete

(* A severe result keeps the invariant: the retry it schedules is for the  *)
(* node that runs next, and the rest of the state stays as it is.          *)
LEMMA SevereKeepsInv ==
  ASSUME GraphInv, node \in Dispatch, Severe(Awaited),
         node' = IF pending' # NoRetry THEN node ELSE "END"
  PROVE  GraphInv'
<1> DEFINE key == GuardKey(Awaited)
<1>1. /\ key \in Subagent \X (0..MaxRollbacks)
      /\ Attempts(Awaited) \in 0..GUARD_RETRY_LIMIT
      /\ GUARD_RETRY_LIMIT \in Nat
  BY AwaitedType, OrchestratorAssumption DEF GraphInv, TypeOK, GuardKey, Attempts
<1>2. CASE GuardRetry(Awaited)
  <2>1. /\ Attempts(Awaited) + 1 \in 1..GUARD_RETRY_LIMIT
        /\ pending' = [subagent |-> Awaited, attempt |-> Attempts(Awaited) + 1]
        /\ guardRetries' \in [Subagent \X (0..MaxRollbacks) -> 0..GUARD_RETRY_LIMIT]
        /\ guardRetries'[key] = Attempts(Awaited) + 1
    BY <1>1, <1>2 DEF GuardRetry, GraphInv, TypeOK, Attempts
  <2>2. pending' \in [subagent : Subagent, attempt : 1..GUARD_RETRY_LIMIT] /\ pending' # NoRetry
    BY <2>1, AwaitedType, NobodyAwaitsNoRetry
  <2>3. UNCHANGED <<node, stage, retryCount, round, subtasks, index, results, gate2, claims, decision>>
    BY <1>2, <2>2 DEF GuardRetry, Severe
  <2>4. TypeOK'
    BY <2>1, <2>2, <2>3 DEF GraphInv, TypeOK
  <2>5. RetryReachesItsSubagent'
    <3>1. Awaited' = Awaited
      BY <2>3 DEF Awaited, CurrentSubtask
    <3>2. Attempts(Awaited)' = Attempts(Awaited) + 1
      BY <3>1, <2>1, <2>3 DEF Attempts, GuardKey
    <3> QED BY <3>1, <3>2, <2>1, <2>3 DEF RetryReachesItsSubagent
  <2>6. StageOfNode' /\ ClaimsOfNode' /\ QueueOfNode'
    BY <2>3 DEF GraphInv, StageOfNode, ClaimsOfNode, QueueOfNode
  <2>7. ConsultationHasQuestion' /\ LoopSeesItsOwnResults' /\ ReviewsComplete'
    BY <2>3 DEF GraphInv, ConsultationHasQuestion, LoopSeesItsOwnResults, ReviewsComplete,
                Planned, CurrentSubtask
  <2> QED BY <2>4, <2>5, <2>6, <2>7 DEF GraphInv
<1>3. CASE GuardBlock(Awaited)
  <2>1. /\ node' = "END" /\ stage' = "BLOCKED" /\ pending' = NoRetry
        /\ UNCHANGED <<guardRetries, retryCount, round, subtasks, index, results, gate2, claims, decision>>
    BY <1>3 DEF GuardBlock, Severe
  <2>2. TypeOK'
    BY <2>1 DEF GraphInv, TypeOK, Node, Stage
  <2> QED BY <2>1, <2>2 DEF GraphInv, StageOfNode, ClaimsOfNode, QueueOfNode, Dispatch,
        RetryReachesItsSubagent, ConsultationHasQuestion, LoopSeesItsOwnResults, ReviewsComplete
<1> QED BY <1>2, <1>3 DEF Severe

(* Where the edges can go after a severe result.                           *)
LEMMA SevereOutcome ==
  ASSUME GraphInv, node \in Dispatch, Severe(Awaited)
  PROVE  \/ pending' # NoRetry
         \/ pending' = NoRetry /\ stage' = "BLOCKED"
<1>1. ASSUME GuardRetry(Awaited) PROVE pending' # NoRetry
  <2>1. pending'.subagent = Awaited
    BY <1>1 DEF GuardRetry
  <2> QED BY <2>1, AwaitedType, NobodyAwaitsNoRetry
<1> QED BY <1>1 DEF Severe, GuardBlock

(* One lemma per node: running it keeps the invariant. *)
LEMMA PmPhaseKeepsInv == GraphInv /\ PmPhase => GraphInv'
<1> SUFFICES ASSUME GraphInv, PmPhase PROVE GraphInv'
  OBVIOUS
<1>1. node \in Dispatch /\ Awaited = Pm
  BY DEF PmPhase, Dispatch, Awaited
<1>2. CASE Severe(Pm)
  <2>1. node' = IF pending' # NoRetry THEN node ELSE "END"
    BY <1>1, <1>2, SevereOutcome DEF PmPhase, RouteDispatchOutcome
  <2> QED BY <1>1, <1>2, <2>1, SevereKeepsInv
<1>3. CASE ~Severe(Pm)
  <2>1. Accepted(Pm)
    BY <1>3 DEF PmPhase
  <2>2. pending' = NoRetry /\ decision' = Pm[1] /\ decision' \in {s[1] : s \in Subagent}
        /\ UNCHANGED <<guardRetries, retryCount>>
    BY <1>1, <2>1, AcceptedClears DEF Accepted
  <2>3. /\ node = "pm_phase"
        /\ node' = "gate_1" /\ stage' = "GATE_1" /\ claims' = claims \cup {"Gate 1"}
        /\ UNCHANGED <<round, subtasks, index, results, gate2>>
    BY <1>3, <2>2 DEF PmPhase, RouteDispatchOutcome, GraphInv, StageOfNode
  <2>4. TypeOK'
    BY <2>2, <2>3, OrchestratorAssumption
       DEF GraphInv, TypeOK, Node, Gate, Dispatch, Stage, Claim, ConsultationHasQuestion
  <2>5. StageOfNode' /\ ClaimsOfNode' /\ QueueOfNode'
    BY <2>3 DEF GraphInv, StageOfNode, ClaimsOfNode, QueueOfNode
  <2>6. RetryReachesItsSubagent' /\ ConsultationHasQuestion' /\ LoopSeesItsOwnResults'
    BY <2>2, <2>3 DEF RetryReachesItsSubagent, ConsultationHasQuestion, LoopSeesItsOwnResults
  <2>7. ReviewsComplete'
    BY <2>3 DEF GraphInv, ReviewsComplete, Planned
  <2> QED BY <2>4, <2>5, <2>6, <2>7 DEF GraphInv
<1> QED BY <1>2, <1>3

(* rev_dispatch adds its own claim to the reviews Gate 2 passed on. *)
LEMMA RevDispatchKeepsInv == GraphInv /\ RevDispatch => GraphInv'
<1> SUFFICES ASSUME GraphInv, RevDispatch PROVE GraphInv'
  OBVIOUS
<1>1. node \in Dispatch /\ Awaited = Rev
  BY DEF RevDispatch, Dispatch, Awaited
<1>2. CASE Severe(Rev)
  <2>1. node' = IF pending' # NoRetry THEN node ELSE "END"
    BY <1>1, <1>2, SevereOutcome DEF RevDispatch, RouteDispatchOutcome
  <2> QED BY <1>1, <1>2, <2>1, SevereKeepsInv
<1>3. CASE ~Severe(Rev)
  <2>1. Accepted(Rev)
    BY <1>3 DEF RevDispatch
  <2>2. pending' = NoRetry /\ decision' = Rev[1] /\ decision' \in {s[1] : s \in Subagent}
        /\ UNCHANGED <<guardRetries, retryCount>>
    BY <1>1, <2>1, AcceptedClears DEF Accepted
  <2>3. /\ node = "rev_dispatch"
        /\ node' = "rev_codex_final" /\ claims' = claims \cup {"Gate 3 - rev_agent"}
        /\ UNCHANGED <<stage, round, subtasks, index, results, gate2>>
    BY <1>3, <2>2 DEF RevDispatch, RouteDispatchOutcome, GraphInv, StageOfNode
  <2>4. TypeOK'
    BY <2>2, <2>3, OrchestratorAssumption
       DEF GraphInv, TypeOK, Node, Gate, Dispatch, Stage, Claim, ConsultationHasQuestion
  <2>5. StageOfNode' /\ ClaimsOfNode' /\ QueueOfNode'
    BY <2>3 DEF GraphInv, StageOfNode, ClaimsOfNode, QueueOfNode
  <2>6. RetryReachesItsSubagent' /\ ConsultationHasQuestion' /\ LoopSeesItsOwnResults'
    BY <2>2, <2>3 DEF RetryReachesItsSubagent, ConsultationHasQuestion, LoopSeesItsOwnResults
  <2>7. ReviewsComplete'
    BY <2>3 DEF GraphInv, ReviewsComplete, Planned
  <2> QED BY <2>4, <2>5, <2>6, <2>7 DEF GraphInv
<1> QED BY <1>2, <1>3

(* So does rev_codex_final, the last before Gate 3. *)
LEMMA RevCodexFinalKeepsInv == GraphInv /\ RevCodexFinal => GraphInv'
<1> SUFFICES ASSUME GraphInv, RevCodexFinal PROVE GraphInv'
  OBVIOUS
<1>1. node \in Dispatch /\ Awaited = CodexFinal
  BY DEF RevCodexFinal, Dispatch, Awaited
<1>2. CASE Severe(CodexFinal)
  <2>1. node' = IF pending' # NoRetry THEN node ELSE "END"
    BY <1>1, <1>2, SevereOutcome DEF RevCodexFinal, RouteDispatchOutcome
  <2> QED BY <1>1, <1>2, <2>1, SevereKeepsInv
<1>3. CASE ~Severe(CodexFinal)
  <2>1. Accepted(CodexFinal)
    BY <1>3 DEF RevCodexFinal
  <2>2. pending' = NoRetry /\ decision' = CodexFinal[1] /\ decision' \in {s[1] : s \in Subagent}
        /\ UNCHANGED <<guardRetries, retryCount>>
    BY <1>1, <2>1, AcceptedClears DEF Accepted
  <2>3. /\ node = "rev_codex_final"
        /\ node' = "gate_3" /\ stage' = "GATE_3" /\ claims' = claims \cup {"Gate 3"}
        /\ UNCHANGED <<round, subtasks, index, results, gate2>>
    BY <1>3, <2>2 DEF RevCodexFinal, RouteDispatchOutcome, GraphInv, StageOfNode
  <2>4. TypeOK'
    BY <2>2, <2>3, OrchestratorAssumption
       DEF GraphInv, TypeOK, Node, Gate, Dispatch, Stage, Claim, ConsultationHasQuestion
  <2>5. StageOfNode' /\ ClaimsOfNode' /\ QueueOfNode'
    BY <2>3 DEF GraphInv, StageOfNode, ClaimsOfNode, QueueOfNode
  <2>6. RetryReachesItsSubagent' /\ ConsultationHasQuestion' /\ LoopSeesItsOwnResults'
    BY <2>2, <2>3 DEF RetryReachesItsSubagent, ConsultationHasQuestion, LoopSeesItsOwnResults
  <2>7. ReviewsComplete'
    BY <2>3 DEF GraphInv, ReviewsComplete, Planned
  <2> QED BY <2>4, <2>5, <2>6, <2>7 DEF GraphInv
<1> QED BY <1>2, <1>3

(* The consultant answers the question and uses up one round. *)
LEMMA PlanningDevConsultKeepsInv == GraphInv /\ PlanningDevConsult => GraphInv'
<1> SUFFICES ASSUME GraphInv, PlanningDevConsult PROVE GraphInv'
  OBVIOUS
<1>1. node \in Dispatch /\ Awaited = Consultant
  BY DEF PlanningDevConsult, Dispatch, Awaited
<1>2. CASE Severe(Consultant)
  <2>1. node' = IF pending' # NoRetry THEN node ELSE "END"
    BY <1>1, <1>2, SevereOutcome DEF PlanningDevConsult, RouteDispatchOutcome
  <2> QED BY <1>1, <1>2, <2>1, SevereKeepsInv
<1>3. CASE ~Severe(Consultant)
  <2>1. Accepted(Consultant)
    BY <1>3 DEF PlanningDevConsult
  <2>2. pending' = NoRetry /\ decision' = Consultant[1] /\ decision' \in {s[1] : s \in Subagent}
        /\ UNCHANGED <<guardRetries, retryCount>>
    BY <1>1, <2>1, AcceptedClears DEF Accepted
  <2>3. /\ node = "planning_dev_consult"
        /\ node' = "planning_phase" /\ stage' = "PLANNING_PHASE" /\ round' = round + 1
        /\ UNCHANGED <<subtasks, index, results, gate2, claims>>
    BY <1>3, <2>2 DEF PlanningDevConsult, RouteDispatchOutcome, GraphInv, StageOfNode
  <2>4. TypeOK'
    <3>1. round' \in 0..MAX_PLANNING_CONSULTATIONS
      BY <2>3, OrchestratorAssumption DEF GraphInv, TypeOK, ConsultationHasQuestion
    <3> QED BY <2>2, <2>3, <3>1 DEF GraphInv, TypeOK, Node, Dispatch, Stage
  <2>5. StageOfNode' /\ ClaimsOfNode' /\ QueueOfNode'
    BY <2>3 DEF GraphInv, StageOfNode, ClaimsOfNode, QueueOfNode
  <2>6. RetryReachesItsSubagent' /\ ConsultationHasQuestion' /\ LoopSeesItsOwnResults'
    BY <2>2, <2>3 DEF RetryReachesItsSubagent, ConsultationHasQuestion, LoopSeesItsOwnResults
  <2>7. ReviewsComplete'
    BY <2>3 DEF GraphInv, ReviewsComplete, Planned
  <2> QED BY <2>4, <2>5, <2>6, <2>7 DEF GraphInv
<1> QED BY <1>2, <1>3

(* A new plan empties the results; a question leaves the old ones alone. *)
LEMMA PlanningPhaseKeepsInv == GraphInv /\ PlanningPhase => GraphInv'
<1> SUFFICES ASSUME GraphInv, PlanningPhase PROVE GraphInv'
  OBVIOUS
<1>1. node \in Dispatch /\ Awaited = Planner
  BY DEF PlanningPhase, Dispatch, Awaited
<1>2. CASE Severe(Planner)
  <2>1. node' = IF pending' # NoRetry THEN node ELSE "END"
    BY <1>1, <1>2, SevereOutcome DEF PlanningPhase, RouteAfterPlanning
  <2> QED BY <1>1, <1>2, <2>1, SevereKeepsInv
<1>3. CASE ~Severe(Planner)
  <2>1. Accepted(Planner)
    BY <1>3 DEF PlanningPhase
  <2>2. pending' = NoRetry /\ decision' = Planner[1] /\ decision' \in {s[1] : s \in Subagent}
        /\ UNCHANGED <<guardRetries, retryCount>>
    BY <1>1, <2>1, AcceptedClears DEF Accepted
  <2>3. /\ node = "planning_phase"
        /\ PlannerGivesUp \/ PlannerAsks \/ PlannerPlans
        /\ claims' = claims \cup {"Gate 1.5"}
        /\ UNCHANGED <<round, gate2>>
        /\ "Gate 1" \in claims
    BY <1>3 DEF PlanningPhase, GraphInv, ClaimsOfNode
  <2>4. CASE PlannerGivesUp
    <3>1. node' = "END" /\ stage' = "BLOCKED" /\ UNCHANGED <<subtasks, index, results>>
      BY <2>2, <2>4 DEF PlannerGivesUp, PlanningPhase, RouteAfterPlanning
    <3>2. TypeOK'
      BY <2>2, <2>3, <3>1 DEF GraphInv, TypeOK, Node, Stage, Claim
    <3> QED BY <2>2, <3>1, <3>2 DEF GraphInv, StageOfNode, ClaimsOfNode, QueueOfNode,
          RetryReachesItsSubagent, ConsultationHasQuestion, LoopSeesItsOwnResults, ReviewsComplete
  <2>5. CASE PlannerAsks
    <3>1. /\ node' = "planning_dev_consult" /\ stage' = "PLANNING_PHASE"
          /\ round < MAX_PLANNING_CONSULTATIONS
          /\ UNCHANGED <<subtasks, index, results>>
      BY <2>2, <2>5 DEF PlannerAsks, PlanningPhase, RouteAfterPlanning
    <3>2. TypeOK'
      BY <2>2, <2>3, <3>1 DEF GraphInv, TypeOK, Node, Dispatch, Stage, Claim
    <3>3. decision' = "planner"
      BY <2>2 DEF Planner
    <3> QED BY <2>2, <2>3, <3>1, <3>2, <3>3 DEF GraphInv, StageOfNode, ClaimsOfNode, QueueOfNode,
          RetryReachesItsSubagent, ConsultationHasQuestion, LoopSeesItsOwnResults, ReviewsComplete
  <2>6. CASE PlannerPlans
    <3>1. /\ node' = "gate_1_5" /\ stage' = "GATE_1_5"
          /\ subtasks' \in Plans /\ index' = -1 /\ results' = NoResults
      BY <2>2, <2>6 DEF PlannerPlans, PlanningPhase, RouteAfterPlanning
    <3>2. TypeOK'
      <4>1. index' \in -1..(Len(subtasks') - 1)
        BY <3>1, PlanFacts
      <4>2. results' \in [SubtaskId -> Progress]
        BY <3>1 DEF NoResults, Progress
      <4> QED BY <2>2, <2>3, <3>1, <4>1, <4>2 DEF GraphInv, TypeOK, Node, Gate, Stage, Claim
    <3> QED BY <2>2, <2>3, <3>1, <3>2 DEF GraphInv, StageOfNode, ClaimsOfNode, QueueOfNode,
          RetryReachesItsSubagent, ConsultationHasQuestion, LoopSeesItsOwnResults, ReviewsComplete
  <2> QED BY <2>3, <2>4, <2>5, <2>6
<1> QED BY <1>2, <1>3

(* dev_agent works on the subtask at the index and on no other. *)
LEMMA DevSubtaskDispatchKeepsInv == GraphInv /\ DevSubtaskDispatch => GraphInv'
<1> SUFFICES ASSUME GraphInv, DevSubtaskDispatch PROVE GraphInv'
  OBVIOUS
<1>1. node \in Dispatch /\ Awaited = Dev(CurrentSubtask)
  BY DEF DevSubtaskDispatch, Dispatch, Awaited
<1>2. CASE Severe(Dev(CurrentSubtask))
  <2>1. node' = IF pending' # NoRetry THEN node ELSE "END"
    BY <1>1, <1>2, SevereOutcome DEF DevSubtaskDispatch, RouteDispatchOutcome
  <2> QED BY <1>1, <1>2, <2>1, SevereKeepsInv
<1>3. CASE ~Severe(Dev(CurrentSubtask))
  <2>1. Accepted(Dev(CurrentSubtask))
    BY <1>3 DEF DevSubtaskDispatch
  <2>2. pending' = NoRetry /\ decision' = Dev(CurrentSubtask)[1] /\ decision' \in {s[1] : s \in Subagent}
        /\ UNCHANGED <<guardRetries, retryCount>>
    BY <1>1, <2>1, AcceptedClears DEF Accepted
  <2>3. /\ node = "dev_subtask_dispatch" /\ node' = "dev_codex_review"
        /\ results' = [results EXCEPT ![CurrentSubtask] = "dev"]
        /\ UNCHANGED <<stage, round, subtasks, index, gate2, claims>>
    BY <1>3, <2>2 DEF DevSubtaskDispatch, RouteDispatchOutcome, GraphInv, StageOfNode
  <2>4. /\ subtasks \in Plans /\ index \in 0..(Len(subtasks) - 1)
        /\ CurrentSubtask \in SubtaskId /\ results \in [SubtaskId -> Progress]
        /\ stage = "DEV_PHASE"
    BY <2>3, <1>1, AwaitedType DEF GraphInv, TypeOK, LoopSeesItsOwnResults, StageOfNode
  <2>5. /\ Len(subtasks) \in Nat
        /\ \A i, j \in 1..Len(subtasks) : subtasks[i] = subtasks[j] => i = j
        /\ \A i \in 1..Len(subtasks) : subtasks[i] \in SubtaskId
    BY <2>4, PlanFacts
  <2>6. TypeOK'
    BY <2>2, <2>3, <2>4 DEF GraphInv, TypeOK, Node, Dispatch, Progress
  <2>7. LoopSeesItsOwnResults'
    <3>1. \A i \in 1..index : subtasks[i] # CurrentSubtask
      BY <2>4, <2>5 DEF CurrentSubtask
    <3> QED BY <2>3, <2>4, <2>5, <3>1 DEF GraphInv, LoopSeesItsOwnResults, CurrentSubtask
  <2> QED BY <2>2, <2>3, <2>4, <2>6, <2>7 DEF GraphInv, StageOfNode, ClaimsOfNode, QueueOfNode,
        RetryReachesItsSubagent, ConsultationHasQuestion, ReviewsComplete
<1> QED BY <1>2, <1>3

(* The review closes the subtask at the index, the router goes on from it. *)
LEMMA DevCodexReviewKeepsInv == GraphInv /\ DevCodexReview => GraphInv'
<1> SUFFICES ASSUME GraphInv, DevCodexReview PROVE GraphInv'
  OBVIOUS
<1>1. node \in Dispatch /\ Awaited = Codex(CurrentSubtask)
  BY DEF DevCodexReview, Dispatch, Awaited
<1>2. CASE Severe(Codex(CurrentSubtask))
  <2>1. node' = IF pending' # NoRetry THEN node ELSE "END"
    BY <1>1, <1>2, SevereOutcome DEF DevCodexReview, RouteDispatchOutcome
  <2> QED BY <1>1, <1>2, <2>1, SevereKeepsInv
<1>3. CASE ~Severe(Codex(CurrentSubtask))
  <2>1. Accepted(Codex(CurrentSubtask))
    BY <1>3 DEF DevCodexReview
  <2>2. pending' = NoRetry /\ decision' = Codex(CurrentSubtask)[1] /\ decision' \in {s[1] : s \in Subagent}
        /\ UNCHANGED <<guardRetries, retryCount>>
    BY <1>1, <2>1, AcceptedClears DEF Accepted
  <2>3. /\ node = "dev_codex_review" /\ node' = "dev_loop_router"
        /\ \E verdict \in {"passed", "failed"} :
              results' = [results EXCEPT ![CurrentSubtask] = verdict]
        /\ UNCHANGED <<stage, round, subtasks, index, gate2, claims>>
    BY <1>3, <2>2 DEF DevCodexReview, RouteDispatchOutcome, GraphInv, StageOfNode
  <2>4. /\ subtasks \in Plans /\ index \in 0..(Len(subtasks) - 1)
        /\ CurrentSubtask \in SubtaskId /\ results \in [SubtaskId -> Progress]
        /\ stage = "DEV_PHASE"
    BY <2>3, <1>1, AwaitedType DEF GraphInv, TypeOK, LoopSeesItsOwnResults, StageOfNode
  <2>5. /\ Len(subtasks) \in Nat
        /\ \A i, j \in 1..Len(subtasks) : subtasks[i] = subtasks[j] => i = j
        /\ \A i \in 1..Len(subtasks) : subtasks[i] \in SubtaskId
    BY <2>4, PlanFacts
  <2>6. TypeOK'
    BY <2>2, <2>3, <2>4 DEF GraphInv, TypeOK, Node, Progress
  <2>7. QueueOfNode'
    <3>1. /\ \A i \in 1..index : results[subtasks[i]] \in {"passed", "failed"}
          /\ \A t \in SubtaskId :
                results[t] # "none" => \E i \in 1..(index + 1) : subtasks[i] = t
      BY <2>3 DEF GraphInv, LoopSeesItsOwnResults
    <3>2. results'[CurrentSubtask] \in {"passed", "failed"}
      BY <2>3, <2>4
    <3>3. \A t \in SubtaskId : t # CurrentSubtask => results'[t] = results[t]
      BY <2>3, <2>4
    <3>4. \A i \in 1..(index + 1) : results'[subtasks[i]] \in {"passed", "failed"}
      BY <2>4, <2>5, <3>1, <3>2, <3>3 DEF CurrentSubtask
    <3>5. \A t \in SubtaskId :
             results'[t] # "none" => \E i \in 1..(index + 1) : subtasks[i] = t
      BY <2>4, <3>1, <3>3 DEF CurrentSubtask
    <3> QED BY <2>3, <3>4, <3>5 DEF QueueOfNode
  <2> QED BY <2>2, <2>3, <2>4, <2>6, <2>7 DEF GraphInv, StageOfNode, ClaimsOfNode,
        LoopSeesItsOwnResults, RetryReachesItsSubagent, ConsultationHasQuestion, ReviewsComplete
<1> QED BY <1>2, <1>3

(* The first node only moves to PM. *)
LEMMA InitNodeKeepsInv == GraphInv /\ InitNode => GraphInv'
<1> SUFFICES ASSUME GraphInv, InitNode PROVE GraphInv'
  OBVIOUS
<1>1. pending = NoRetry
  BY DEF InitNode, GraphInv, RetryReachesItsSubagent, Dispatch
<1>2. TypeOK'
  BY DEF InitNode, GraphInv, TypeOK, Node, Dispatch, Stage
<1> QED BY <1>1, <1>2 DEF InitNode, GraphInv, StageOfNode, ClaimsOfNode, QueueOfNode,
      RetryReachesItsSubagent, ConsultationHasQuestion, LoopSeesItsOwnResults, ReviewsComplete

(* The router enters the next subtask or sums up all of them. *)
LEMMA DevLoopRouterKeepsInv == GraphInv /\ DevLoopRouter => GraphInv'
<1> SUFFICES ASSUME GraphInv, DevLoopRouter PROVE GraphInv'
  OBVIOUS
<1>1. /\ pending' = NoRetry /\ stage = "DEV_PHASE" /\ node = "dev_loop_router"
      /\ UNCHANGED <<retryCount, guardRetries, pending, round, subtasks, results, decision>>
  BY DEF DevLoopRouter, GraphInv, RetryReachesItsSubagent, Dispatch, StageOfNode
<1>2. /\ \A i \in 1..(index + 1) : results[subtasks[i]] \in {"passed", "failed"}
      /\ \A t \in SubtaskId : results[t] # "none" => \E i \in 1..(index + 1) : subtasks[i] = t
  BY <1>1 DEF GraphInv, QueueOfNode
<1>3. /\ subtasks \in Plans /\ index \in -1..(Len(subtasks) - 1)
      /\ results \in [SubtaskId -> Progress]
      /\ Len(subtasks) \in Nat /\ DOMAIN subtasks = 1..Len(subtasks)
      /\ \A i, j \in 1..Len(subtasks) : subtasks[i] = subtasks[j] => i = j
      /\ \A i \in 1..Len(subtasks) : subtasks[i] \in SubtaskId
  BY PlanFacts DEF GraphInv, TypeOK
<1>4. CASE EnterSubtask
  <2>1. /\ node' = "dev_subtask_dispatch" /\ index' = index + 1
        /\ index' \in 0..(Len(subtasks) - 1)
        /\ UNCHANGED <<stage, gate2, claims>>
    BY <1>1, <1>3, <1>4 DEF EnterSubtask, DevLoopRouter, RouteAfterDevLoop
  <2>2. TypeOK'
    BY <1>1, <2>1, <1>3 DEF GraphInv, TypeOK, Node, Dispatch
  <2>3. LoopSeesItsOwnResults'
    <3>1. \A i \in 1..index' : results[subtasks[i]] \in {"passed", "failed"}
      BY <1>2, <2>1
    <3>2. \A t \in SubtaskId : results[t] # "none" => \E i \in 1..(index' + 1) : subtasks[i] = t
      BY <1>2, <1>3, <2>1
    <3>3. results[subtasks[index' + 1]] = "none"
      BY <1>2, <1>3, <2>1
    <3> QED BY <1>1, <2>1, <3>1, <3>2, <3>3 DEF LoopSeesItsOwnResults, CurrentSubtask
  <2> QED BY <1>1, <2>1, <2>2, <2>3 DEF GraphInv, StageOfNode, ClaimsOfNode, QueueOfNode,
        RetryReachesItsSubagent, ConsultationHasQuestion, ReviewsComplete
<1>5. CASE AggregateReviews
  <2>1. /\ node' = "gate_2" /\ stage' = "GATE_2" /\ index' = -1
        /\ claims' = claims \cup {"Gate 2"}
    BY <1>1, <1>5 DEF AggregateReviews, DevLoopRouter, RouteAfterDevLoop
  <2>a. index + 1 = Len(subtasks)
    <3>1. index \in -1..(Len(subtasks) - 1) /\ Len(subtasks) \in Nat
      BY <1>3
    <3>2. index + 1 >= Len(subtasks)
      BY <1>5 DEF AggregateReviews
    <3> QED BY <3>1, <3>2
  <2>b. gate2' = (\A t \in SubtaskId : results[t] \in {"none", "passed"})
    BY <1>5, Zenon DEF AggregateReviews
  <2>c. gate2' \in BOOLEAN /\ (gate2' <=> \A t \in SubtaskId : results[t] \in {"none", "passed"})
    BY <2>b, Zenon
  <2>2. TypeOK'
    <3>0. Len(subtasks') \in Nat /\ index' = -1
      BY <1>1, <1>3, <2>1
    <3>1. index' \in -1..(Len(subtasks') - 1)
      BY <3>0
    <3>2. node' \in Node /\ stage' \in Stage /\ claims' \subseteq Claim /\ gate2' \in BOOLEAN
      BY <2>1, <2>c DEF GraphInv, TypeOK, Node, Gate, Stage, Claim
    <3> QED BY <1>1, <3>1, <3>2 DEF GraphInv, TypeOK
  <2>3. ReviewsComplete'
    <3>1. \A t \in SubtaskId : t \in Planned => results[t] \in {"passed", "failed"}
      BY <1>2, <1>3, <2>a DEF Planned
    <3>2. \A t \in SubtaskId : t \notin Planned => results[t] = "none"
      BY <1>2, <1>3, <2>a DEF Planned
    <3>3. Planned \subseteq SubtaskId /\ Planned' = Planned
      BY <1>1, <1>3 DEF Planned
    <3>4. gate2' <=> \A t \in Planned : results[t] = "passed"
      BY <2>c, <3>1, <3>2, <3>3
    <3> QED BY <1>1, <3>1, <3>2, <3>3, <3>4 DEF ReviewsComplete
  <2> QED BY <1>1, <2>1, <2>2, <2>3 DEF GraphInv, StageOfNode, ClaimsOfNode, QueueOfNode,
        RetryReachesItsSubagent, ConsultationHasQuestion, LoopSeesItsOwnResults
<1> QED BY <1>4, <1>5 DEF DevLoopRouter

-----------------------------------------------------------------------------
(* The gates.  No retry is pending there, and an answer leaves alone what  *)
(* it does not name.                                                       *)
LEMMA GateType ==
  ASSUME GraphInv, node \in Gate, Answered,
         node' \in Node, stage' \in Stage, retryCount' \in 0..MaxRollbacks,
         claims' \subseteq Claim, round' \in 0..MAX_PLANNING_CONSULTATIONS,
         \/ UNCHANGED <<index, results>>
         \/ index' = -1 /\ results' = NoResults
  PROVE  TypeOK' /\ pending' = NoRetry
<1>1. pending' = NoRetry
  BY DEF GraphInv, RetryReachesItsSubagent, Gate, Dispatch, Answered
<1>2. index' \in -1..(Len(subtasks') - 1) /\ results' \in [SubtaskId -> Progress]
  <2>1. Len(subtasks) \in Nat /\ subtasks' = subtasks
    BY PlanFacts DEF GraphInv, TypeOK, Answered
  <2>2. CASE UNCHANGED <<index, results>>
    BY <2>1, <2>2 DEF GraphInv, TypeOK
  <2>3. CASE index' = -1 /\ results' = NoResults
    BY <2>1, <2>3 DEF NoResults, Progress
  <2> QED BY <2>2, <2>3
<1> QED BY <1>1, <1>2 DEF GraphInv, TypeOK, Answered

(* A rollback takes away the claims from its phase on and no others. *)
LEMMA RollbackFacts ==
  ASSUME GraphInv, NEW phase \in {"PM_PHASE", "PLANNING_PHASE", "DEV_PHASE"}, Rollback(phase)
  PROVE  /\ retryCount' \in 0..MaxRollbacks
         /\ claims' \subseteq Claim
         /\ phase # "PM_PHASE" => ("Gate 1" \in claims => "Gate 1" \in claims')
         /\ phase = "DEV_PHASE" => ("Gate 1.5" \in claims => "Gate 1.5" \in claims')
<1>1. retryCount' \in 0..MaxRollbacks
  BY OrchestratorAssumption DEF GraphInv, TypeOK, Rollback
<1>2. CASE phase = "PM_PHASE"
  BY <1>1, <1>2 DEF GraphInv, TypeOK, Rollback
<1>3. CASE phase = "PLANNING_PHASE"
  BY <1>1, <1>3 DEF GraphInv, TypeOK, Rollback, ClaimsFrom, Claim
<1>4. CASE phase = "DEV_PHASE"
  BY <1>1, <1>4 DEF GraphInv, TypeOK, Rollback, ClaimsFrom, Claim
<1> QED BY <1>2, <1>3, <1>4

(* The nodes that need nothing but the claims below them.                  *)
LEMMA Arrival ==
  ASSUME TypeOK', pending' = NoRetry,
         \/ node' = "END" /\ stage' \in {"DONE", "BLOCKED"}
         \/ node' = "pm_phase" /\ stage' = "PM_PHASE"
         \/ node' = "planning_phase" /\ stage' = "PLANNING_PHASE" /\ "Gate 1" \in claims'
  PROVE  GraphInv'
BY DEF GraphInv, StageOfNode, ClaimsOfNode, QueueOfNode, RetryReachesItsSubagent,
       ConsultationHasQuestion, LoopSeesItsOwnResults, ReviewsComplete

(* The gates: each answer sends the workflow where the claims suffice. *)
LEMMA Gate1KeepsInv == GraphInv /\ Gate1 => GraphInv'
<1> SUFFICES ASSUME GraphInv, Gate1 PROVE GraphInv'
  OBVIOUS
<1>1. /\ node = "gate_1" /\ node \in Gate /\ Answered /\ RouteAfterGate1
      /\ "Gate 1" \in claims
  BY DEF Gate1, Gate, GraphInv, ClaimsOfNode
<1>2. retryCount \in 0..MaxRollbacks /\ claims \subseteq Claim
      /\ round \in 0..MAX_PLANNING_CONSULTATIONS
  BY DEF GraphInv, TypeOK
<1>3. ASSUME Rollback("PM_PHASE"), UNCHANGED <<round, index, results>> PROVE GraphInv'
  <2>1. stage' = "PM_PHASE" /\ node' = "pm_phase"
    BY <1>1, <1>3 DEF Rollback, RouteAfterGate1, RouteTo, FirstNode
  <2>2. TypeOK' /\ pending' = NoRetry
    BY <1>1, <1>2, <1>3, <2>1, RollbackFacts, GateType DEF Node, Dispatch, Stage
  <2> QED BY <1>1, <1>3, <2>1, <2>2, RollbackFacts, Arrival
<1>4. ASSUME Refuse, UNCHANGED <<round, index, results>> PROVE GraphInv'
  <2>1. stage' = "BLOCKED" /\ node' = "END" /\ UNCHANGED <<retryCount, claims>>
    BY <1>1, <1>4 DEF Refuse, RouteAfterGate1, RouteTo
  <2>2. TypeOK' /\ pending' = NoRetry
    BY <1>1, <1>2, <1>4, <2>1, GateType DEF Node, Stage
  <2> QED BY <2>1, <2>2, Arrival
<1>5. ASSUME Approve("PLANNING_PHASE"), UNCHANGED <<round, index, results>> PROVE GraphInv'
  <2>1. stage' = "PLANNING_PHASE" /\ node' = "planning_phase" /\ UNCHANGED <<retryCount, claims>>
    BY <1>1, <1>5 DEF Approve, RouteAfterGate1, RouteTo, FirstNode
  <2>2. TypeOK' /\ pending' = NoRetry
    BY <1>1, <1>2, <1>5, <2>1, GateType DEF Node, Dispatch, Stage
  <2> QED BY <1>1, <2>1, <2>2, Arrival
<1> QED BY <1>3, <1>4, <1>5 DEF Gate1

(* Gate 2 leads to REV, with complete reviews, or back before the plan. *)
LEMMA Gate2KeepsInv == GraphInv /\ Gate2 => GraphInv'
<1> SUFFICES ASSUME GraphInv, Gate2 PROVE GraphInv'
  OBVIOUS
<1>1. /\ node = "gate_2" /\ node \in Gate /\ Answered /\ RouteAfterGate2
      /\ "Gate 1" \in claims
  BY DEF Gate2, Gate, GraphInv, ClaimsOfNode
<1>2. retryCount \in 0..MaxRollbacks /\ claims \subseteq Claim
      /\ round \in 0..MAX_PLANNING_CONSULTATIONS
  BY DEF GraphInv, TypeOK
<1>3. ASSUME Rollback("PLANNING_PHASE"), UNCHANGED <<round, index, results>> PROVE GraphInv'
  <2>1. stage' = "PLANNING_PHASE" /\ node' = "planning_phase"
    BY <1>1, <1>3 DEF Rollback, RouteAfterGate2, RouteTo, FirstNode
  <2>2. TypeOK' /\ pending' = NoRetry
    BY <1>1, <1>2, <1>3, <2>1, RollbackFacts, GateType DEF Node, Dispatch, Stage
  <2> QED BY <1>1, <1>3, <2>1, <2>2, RollbackFacts, Arrival
<1>4. ASSUME Rollback("PM_PHASE"), UNCHANGED <<round, index, results>> PROVE GraphInv'
  <2>1. stage' = "PM_PHASE" /\ node' = "pm_phase"
    BY <1>1, <1>4 DEF Rollback, RouteAfterGate2, RouteTo, FirstNode
  <2>2. TypeOK' /\ pending' = NoRetry
    BY <1>1, <1>2, <1>4, <2>1, RollbackFacts, GateType DEF Node, Dispatch, Stage
  <2> QED BY <1>1, <1>4, <2>1, <2>2, RollbackFacts, Arrival
<1>5. ASSUME Refuse, UNCHANGED <<round, index, results>> PROVE GraphInv'
  <2>1. stage' = "BLOCKED" /\ node' = "END" /\ UNCHANGED <<retryCount, claims>>
    BY <1>1, <1>5 DEF Refuse, RouteAfterGate2, RouteTo
  <2>2. TypeOK' /\ pending' = NoRetry
    BY <1>1, <1>2, <1>5, <2>1, GateType DEF Node, Stage
  <2> QED BY <2>1, <2>2, Arrival
<1>6. ASSUME Approve("REV_PHASE"), UNCHANGED <<round, index, results>> PROVE GraphInv'
  <2>1. stage' = "REV_PHASE" /\ node' = "rev_dispatch" /\ UNCHANGED <<retryCount, claims>>
    BY <1>1, <1>6 DEF Approve, RouteAfterGate2, RouteTo, FirstNode
  <2>2. TypeOK' /\ pending' = NoRetry
    BY <1>1, <1>2, <1>6, <2>1, GateType DEF Node, Dispatch, Stage
  <2>3. ReviewsComplete'
    BY <1>1, <1>6, <2>1 DEF GraphInv, ReviewsComplete, Planned, Answered
  <2> QED BY <1>1, <2>1, <2>2, <2>3 DEF GraphInv, StageOfNode, ClaimsOfNode, QueueOfNode, RetryReachesItsSubagent,
        ConsultationHasQuestion, LoopSeesItsOwnResults
<1> QED BY <1>3, <1>4, <1>5, <1>6 DEF Gate2

(* Gate 3 leads back to DEV with an empty result list. *)
LEMMA Gate3KeepsInv == GraphInv /\ Gate3 => GraphInv'
<1> SUFFICES ASSUME GraphInv, Gate3 PROVE GraphInv'
  OBVIOUS
<1>1. /\ node = "gate_3" /\ node \in Gate /\ Answered /\ RouteAfterGate3
      /\ "Gate 1" \in claims
  BY DEF Gate3, Gate, GraphInv, ClaimsOfNode
<1>2. retryCount \in 0..MaxRollbacks /\ claims \subseteq Claim
      /\ round \in 0..MAX_PLANNING_CONSULTATIONS
  BY DEF GraphInv, TypeOK
<1>3. ASSUME Rollback("PLANNING_PHASE"), UNCHANGED <<round, index, results>> PROVE GraphInv'
  <2>1. stage' = "PLANNING_PHASE" /\ node' = "planning_phase"
    BY <1>1, <1>3 DEF Rollback, RouteAfterGate3, RouteTo, FirstNode
  <2>2. TypeOK' /\ pending' = NoRetry
    BY <1>1, <1>2, <1>3, <2>1, RollbackFacts, GateType DEF Node, Dispatch, Stage
  <2> QED BY <1>1, <1>3, <2>1, <2>2, RollbackFacts, Arrival
<1>4. ASSUME Rollback("PM_PHASE"), UNCHANGED <<round, index, results>> PROVE GraphInv'
  <2>1. stage' = "PM_PHASE" /\ node' = "pm_phase"
    BY <1>1, <1>4 DEF Rollback, RouteAfterGate3, RouteTo, FirstNode
  <2>2. TypeOK' /\ pending' = NoRetry
    BY <1>1, <1>2, <1>4, <2>1, RollbackFacts, GateType DEF Node, Dispatch, Stage
  <2> QED BY <1>1, <1>4, <2>1, <2>2, RollbackFacts, Arrival
<1>5. ASSUME Refuse, UNCHANGED <<round, index, results>> PROVE GraphInv'
  <2>1. stage' = "BLOCKED" /\ node' = "END" /\ UNCHANGED <<retryCount, claims>>
    BY <1>1, <1>5 DEF Refuse, RouteAfterGate3, RouteTo
  <2>2. TypeOK' /\ pending' = NoRetry
    BY <1>1, <1>2, <1>5, <2>1, GateType DEF Node, Stage
  <2> QED BY <2>1, <2>2, Arrival
<1>6. ASSUME Approve("DONE"), UNCHANGED <<round, index, results>> PROVE GraphInv'
  <2>1. stage' = "DONE" /\ node' = "END" /\ UNCHANGED <<retryCount, claims>>
    BY <1>1, <1>6 DEF Approve, RouteAfterGate3, RouteTo, FirstNode
  <2>2. TypeOK' /\ pending' = NoRetry
    BY <1>1, <1>2, <1>6, <2>1, GateType DEF Node, Dispatch, Stage
  <2> QED BY <2>1, <2>2, Arrival
<1>7. ASSUME RollbackToDev, UNCHANGED round PROVE GraphInv'
  <2>1. stage' = "DEV_PHASE" /\ node' = "dev_loop_router" /\ index' = -1 /\ results' = NoResults
        /\ Rollback("DEV_PHASE")
    BY <1>1, <1>7 DEF RollbackToDev, Rollback, RouteAfterGate3, RouteTo, FirstNode
  <2>2. TypeOK' /\ pending' = NoRetry
    BY <1>1, <1>2, <1>7, <2>1, RollbackFacts, GateType DEF Node, Stage
  <2>3. "Gate 1" \in claims' /\ "Gate 1.5" \in claims'
    BY <1>1, <2>1, RollbackFacts DEF GraphInv, ClaimsOfNode
  <2>4. QueueOfNode'
    BY <2>1 DEF QueueOfNode, NoResults
  <2> QED BY <2>1, <2>2, <2>3, <2>4 DEF GraphInv, StageOfNode, ClaimsOfNode, RetryReachesItsSubagent,
        ConsultationHasQuestion, LoopSeesItsOwnResults, ReviewsComplete
<1> QED BY <1>3, <1>4, <1>5, <1>6, <1>7 DEF Gate3

(* Gate 1.5 leads into the loop, whose results the planner has emptied. *)
LEMMA Gate15KeepsInv == GraphInv /\ Gate15 => GraphInv'
<1> SUFFICES ASSUME GraphInv, Gate15 PROVE GraphInv'
  OBVIOUS
<1>1. /\ node = "gate_1_5" /\ node \in Gate /\ Answered /\ RouteAfterGate15
      /\ "Gate 1" \in claims
  BY DEF Gate15, Gate, GraphInv, ClaimsOfNode
<1>2. retryCount \in 0..MaxRollbacks /\ claims \subseteq Claim
      /\ round \in 0..MAX_PLANNING_CONSULTATIONS
  BY DEF GraphInv, TypeOK
<1>3. ASSUME Rollback("PM_PHASE"), UNCHANGED <<round, index, results>> PROVE GraphInv'
  <2>1. stage' = "PM_PHASE" /\ node' = "pm_phase"
    BY <1>1, <1>3 DEF Rollback, RouteAfterGate15, RouteTo, FirstNode
  <2>2. TypeOK' /\ pending' = NoRetry
    BY <1>1, <1>2, <1>3, <2>1, RollbackFacts, GateType DEF Node, Dispatch, Stage
  <2> QED BY <1>1, <1>3, <2>1, <2>2, RollbackFacts, Arrival
<1>4. ASSUME Refuse, UNCHANGED <<round, index, results>> PROVE GraphInv'
  <2>1. stage' = "BLOCKED" /\ node' = "END" /\ UNCHANGED <<retryCount, claims>>
    BY <1>1, <1>4 DEF Refuse, RouteAfterGate15, RouteTo
  <2>2. TypeOK' /\ pending' = NoRetry
    BY <1>1, <1>2, <1>4, <2>1, GateType DEF Node, Stage
  <2> QED BY <2>1, <2>2, Arrival
<1>5. ASSUME Approve("DEV_PHASE"), UNCHANGED <<round, index, results>> PROVE GraphInv'
  <2>1. stage' = "DEV_PHASE" /\ node' = "dev_loop_router" /\ UNCHANGED <<retryCount, claims>>
    BY <1>1, <1>5 DEF Approve, RouteAfterGate15, RouteTo, FirstNode
  <2>2. TypeOK' /\ pending' = NoRetry
    BY <1>1, <1>2, <1>5, <2>1, GateType DEF Node, Dispatch, Stage
  <2>3. QueueOfNode'
    <3>1. index' = -1 /\ results' = NoResults
      BY <1>1, <1>5 DEF GraphInv, QueueOfNode
    <3> QED BY <2>1, <3>1 DEF QueueOfNode, NoResults
  <2>4. "Gate 1.5" \in claims
    BY <1>1 DEF GraphInv, ClaimsOfNode
  <2> QED BY <1>1, <2>1, <2>2, <2>3, <2>4 DEF GraphInv, StageOfNode, ClaimsOfNode, RetryReachesItsSubagent,
        ConsultationHasQuestion, LoopSeesItsOwnResults, ReviewsComplete
<1>6. ASSUME ContinuePlanning, UNCHANGED <<index, results>> PROVE GraphInv'
  <2>1. stage' = "PLANNING_PHASE" /\ node' = "planning_phase" /\ round' = 0 /\ retryCount' = retryCount
    BY <1>1, <1>6 DEF ContinuePlanning, RouteAfterGate15, RouteTo, FirstNode
  <2>2. claims' \subseteq Claim /\ "Gate 1" \in claims'
    BY <1>1, <1>2, <1>6 DEF ContinuePlanning, ClaimsFrom, Claim
  <2>3. TypeOK' /\ pending' = NoRetry
    <3>1. round' \in 0..MAX_PLANNING_CONSULTATIONS
      BY <2>1, OrchestratorAssumption
    <3> QED BY <1>1, <1>2, <1>6, <2>1, <2>2, <3>1, GateType DEF Node, Dispatch, Stage
  <2> QED BY <2>1, <2>2, <2>3, Arrival
<1> QED BY <1>3, <1>4, <1>5, <1>6 DEF Gate15

-----------------------------------------------------------------------------
(* No step of the graph breaks the invariant. *)
LEMMA NextKeepsInv == GraphInv /\ [Next]_vars => GraphInv'
<1> SUFFICES ASSUME GraphInv, [Next]_vars PROVE GraphInv'
  OBVIOUS
<1>1. CASE Next
  BY <1>1, InitNodeKeepsInv, PmPhaseKeepsInv, PlanningPhaseKeepsInv,
     PlanningDevConsultKeepsInv, DevLoopRouterKeepsInv, DevSubtaskDispatchKeepsInv,
     DevCodexReviewKeepsInv, RevDispatchKeepsInv, RevCodexFinalKeepsInv,
     Gate1KeepsInv, Gate15KeepsInv, Gate2KeepsInv, Gate3KeepsInv
     DEF Next, Automatic
<1>2. CASE UNCHANGED vars
  <2>1. Awaited' = Awaited /\ Planned' = Planned /\ Attempts(Awaited)' = Attempts(Awaited)
    BY <1>2 DEF vars, Awaited, CurrentSubtask, Planned, Attempts, GuardKey
  <2> QED BY <1>2, <2>1 DEF vars, GraphInv, TypeOK, StageOfNode, ClaimsOfNode, QueueOfNode,
        RetryReachesItsSubagent, ConsultationHasQuestion, LoopSeesItsOwnResults,
        ReviewsComplete, CurrentSubtask
<1> QED BY <1>1, <1>2

(* The invariant of the graph holds of every checkpoint. *)
THEOREM GraphInvariant == Spec => []GraphInv
BY InitGraph, NextKeepsInv, PTL DEF Spec

(* The state of a workflow has its type: in particular the index of the    *)
(* subtask loop, the consultation round and the guard's attempts stay      *)
(* within their limits.                                                    *)
THEOREM GraphTypeCorrect == Spec => []TypeOK
<1>1. GraphInv => TypeOK
  BY DEF GraphInv
<1> QED BY <1>1, GraphInvariant, PTL

(* A scheduled guard retry reaches the subagent it is meant for.           *)
THEOREM RetriesDelivered == Spec => []RetryReachesItsSubagent
<1>1. GraphInv => RetryReachesItsSubagent
  BY DEF GraphInv
<1> QED BY <1>1, GraphInvariant, PTL

(* Consultations answer a question of the planner, within the quota.       *)
THEOREM ConsultationsAsked == Spec => []ConsultationHasQuestion
<1>1. GraphInv => ConsultationHasQuestion
  BY DEF GraphInv
<1> QED BY <1>1, GraphInvariant, PTL

(* The subtask loop works on the results of its own plan and pass.         *)
THEOREM LoopIsolated == Spec => []LoopSeesItsOwnResults
<1>1. GraphInv => LoopSeesItsOwnResults
  BY DEF GraphInv
<1> QED BY <1>1, GraphInvariant, PTL

(* Gate 2 and Gate 3 are passed on complete reviews and a true claim.      *)
THEOREM GatesSeeAllReviews == Spec => []ReviewsComplete
<1>1. GraphInv => ReviewsComplete
  BY DEF GraphInv
<1> QED BY <1>1, GraphInvariant, PTL

(* No gate shows the claim of an attempt that was rolled back.             *)
THEOREM GatesShowCurrentClaims == Spec => []ShownClaimIsCurrent
<1>1. GraphInv => ShownClaimIsCurrent
  <2> SUFFICES ASSUME GraphInv, node \in Gate PROVE GateShows[node] \subseteq claims
    BY DEF ShownClaimIsCurrent
  <2>1. ClaimsOfNode
    BY DEF GraphInv
  <2>2. CASE node = "gate_1"
    <3>1. GateShows[node] = {"Gate 1"}
      BY <2>2 DEF GateShows
    <3> QED BY <2>1, <2>2, <3>1 DEF ClaimsOfNode
  <2>3. CASE node = "gate_1_5"
    <3>1. GateShows[node] = {"Gate 1", "Gate 1.5"}
      BY <2>3 DEF GateShows
    <3> QED BY <2>1, <2>3, <3>1 DEF ClaimsOfNode
  <2>4. CASE node = "gate_2"
    <3>1. GateShows[node] = {"Gate 1", "Gate 1.5", "Gate 2"}
      BY <2>4 DEF GateShows
    <3> QED BY <2>1, <2>4, <3>1 DEF ClaimsOfNode
  <2>5. CASE node = "gate_3"
    <3>1. GateShows[node] = Claim
      BY <2>5 DEF GateShows
    <3> QED BY <2>1, <2>5, <3>1 DEF ClaimsOfNode, Claim
  <2> QED BY <2>2, <2>3, <2>4, <2>5 DEF Gate
<1> QED BY <1>1, GraphInvariant, PTL

-----------------------------------------------------------------------------
(* Where a node stands on the ladder, before and after a step.             *)
LEMMA RungBefore ==
  ASSUME GraphInv
  PROVE  /\ node \in {"init", "pm_phase"} => PhaseOf = 1 /\ Standing = "work"
         /\ node \in {"gate_1"} => PhaseOf = 1 /\ Standing = "gate"
         /\ node \in {"planning_phase", "planning_dev_consult"} => PhaseOf = 2 /\ Standing = "work"
         /\ node \in {"gate_1_5"} => PhaseOf = 2 /\ Standing = "gate"
         /\ node \in {"dev_loop_router", "dev_subtask_dispatch", "dev_codex_review"}
               => PhaseOf = 3 /\ Standing = "work"
         /\ node \in {"gate_2"} => PhaseOf = 3 /\ Standing = "gate"
         /\ node \in {"rev_dispatch", "rev_codex_final"} => PhaseOf = 4 /\ Standing = "work"
         /\ node \in {"gate_3"} => PhaseOf = 4 /\ Standing = "gate"
         /\ node = "END" /\ stage = "DONE" => PhaseOf = 0 /\ Standing = "done"
         /\ node = "END" /\ stage = "BLOCKED" => PhaseOf = 0 /\ Standing = "blocked"
BY DEF GraphInv, StageOfNode, PhaseOf, Standing, Gate

(* The same after a step. *)
LEMMA RungAfter ==
  ASSUME GraphInv'
  PROVE  /\ node' \in {"init", "pm_phase"} => PhaseOf' = 1 /\ Standing' = "work"
         /\ node' \in {"gate_1"} => PhaseOf' = 1 /\ Standing' = "gate"
         /\ node' \in {"planning_phase", "planning_dev_consult"} => PhaseOf' = 2 /\ Standing' = "work"
         /\ node' \in {"gate_1_5"} => PhaseOf' = 2 /\ Standing' = "gate"
         /\ node' \in {"dev_loop_router", "dev_subtask_dispatch", "dev_codex_review"}
               => PhaseOf' = 3 /\ Standing' = "work"
         /\ node' \in {"gate_2"} => PhaseOf' = 3 /\ Standing' = "gate"
         /\ node' \in {"rev_dispatch", "rev_codex_final"} => PhaseOf' = 4 /\ Standing' = "work"
         /\ node' \in {"gate_3"} => PhaseOf' = 4 /\ Standing' = "gate"
         /\ node' = "END" /\ stage' = "DONE" => PhaseOf' = 0 /\ Standing' = "done"
         /\ node' = "END" /\ stage' = "BLOCKED" => PhaseOf' = 0 /\ Standing' = "blocked"
BY DEF GraphInv, StageOfNode, PhaseOf, Standing, Gate

(* Every step of a node is a step of the ladder or invisible there. *)
LEMMA LadderStep ==
  ASSUME GraphInv, GraphInv', [Next]_vars
  PROVE  [PhaseGates!LadderNext]_<<PhaseOf, Standing>>
<1>1. CASE InitNode
  <2>1. node = "init" /\ node' = "pm_phase"
    BY <1>1 DEF InitNode
  <2> QED BY <2>1, RungBefore, RungAfter
<1>2. CASE PmPhase
  <2>1. node = "pm_phase" /\ RouteDispatchOutcome("gate_1")
    BY <1>2 DEF PmPhase
  <2>2. \/ node' \in {"pm_phase", "gate_1"}
        \/ node' = "END" /\ stage' = "BLOCKED"
    BY <2>1 DEF RouteDispatchOutcome
  <2> QED BY <2>1, <2>2, RungBefore, RungAfter DEF PhaseGates!LadderNext,
          PhaseGates!Finish, PhaseGates!Approve, PhaseGates!SendBack, PhaseGates!Block
<1>3. CASE PlanningPhase
  <2>1. node = "planning_phase" /\ RouteAfterPlanning
    BY <1>3 DEF PlanningPhase
  <2>2. stage = "PLANNING_PHASE"
    BY <2>1 DEF GraphInv, StageOfNode
  <2>3. CASE Severe(Planner)
    <3>1. stage' \in {stage, "BLOCKED"}
      BY <2>3 DEF Severe, GuardRetry, GuardBlock
    <3> QED BY <2>1, <2>2, <3>1, RungBefore, RungAfter DEF RouteAfterPlanning,
            PhaseGates!LadderNext, PhaseGates!Block
  <2>4. CASE PlannerGivesUp \/ PlannerAsks \/ PlannerPlans
    <3>1. stage' \in {"BLOCKED", "PLANNING_PHASE", "GATE_1_5"}
      BY <2>4 DEF PlannerGivesUp, PlannerAsks, PlannerPlans
    <3>2. \/ node' \in {"planning_phase", "planning_dev_consult", "gate_1_5"}
          \/ node' = "END" /\ stage' = "BLOCKED"
      BY <2>1, <3>1 DEF RouteAfterPlanning
    <3> QED BY <2>1, <3>2, RungBefore, RungAfter DEF PhaseGates!LadderNext,
            PhaseGates!Finish, PhaseGates!Block
  <2> QED BY <1>3, <2>3, <2>4 DEF PlanningPhase
<1>4. CASE PlanningDevConsult
  <2>1. node = "planning_dev_consult" /\ RouteDispatchOutcome("planning_phase")
    BY <1>4 DEF PlanningDevConsult
  <2>2. \/ node' \in {"planning_dev_consult", "planning_phase"}
        \/ node' = "END" /\ stage' = "BLOCKED"
    BY <2>1 DEF RouteDispatchOutcome
  <2> QED BY <2>1, <2>2, RungBefore, RungAfter DEF PhaseGates!LadderNext,
          PhaseGates!Finish, PhaseGates!Approve, PhaseGates!SendBack, PhaseGates!Block
<1>5. CASE DevLoopRouter
  <2>1. node = "dev_loop_router" /\ node' \in {"dev_subtask_dispatch", "gate_2"}
    BY <1>5 DEF DevLoopRouter, RouteAfterDevLoop
  <2> QED BY <2>1, RungBefore, RungAfter DEF PhaseGates!LadderNext, PhaseGates!Finish
<1>6. CASE DevSubtaskDispatch
  <2>1. node = "dev_subtask_dispatch" /\ RouteDispatchOutcome("dev_codex_review")
    BY <1>6 DEF DevSubtaskDispatch
  <2>2. \/ node' \in {"dev_subtask_dispatch", "dev_codex_review"}
        \/ node' = "END" /\ stage' = "BLOCKED"
    BY <2>1 DEF RouteDispatchOutcome
  <2> QED BY <2>1, <2>2, RungBefore, RungAfter DEF PhaseGates!LadderNext,
          PhaseGates!Finish, PhaseGates!Approve, PhaseGates!SendBack, PhaseGates!Block
<1>7. CASE DevCodexReview
  <2>1. node = "dev_codex_review" /\ RouteDispatchOutcome("dev_loop_router")
    BY <1>7 DEF DevCodexReview
  <2>2. \/ node' \in {"dev_codex_review", "dev_loop_router"}
        \/ node' = "END" /\ stage' = "BLOCKED"
    BY <2>1 DEF RouteDispatchOutcome
  <2> QED BY <2>1, <2>2, RungBefore, RungAfter DEF PhaseGates!LadderNext,
          PhaseGates!Finish, PhaseGates!Approve, PhaseGates!SendBack, PhaseGates!Block
<1>8. CASE RevDispatch
  <2>1. node = "rev_dispatch" /\ RouteDispatchOutcome("rev_codex_final")
    BY <1>8 DEF RevDispatch
  <2>2. \/ node' \in {"rev_dispatch", "rev_codex_final"}
        \/ node' = "END" /\ stage' = "BLOCKED"
    BY <2>1 DEF RouteDispatchOutcome
  <2> QED BY <2>1, <2>2, RungBefore, RungAfter DEF PhaseGates!LadderNext,
          PhaseGates!Finish, PhaseGates!Approve, PhaseGates!SendBack, PhaseGates!Block
<1>9. CASE RevCodexFinal
  <2>1. node = "rev_codex_final" /\ RouteDispatchOutcome("gate_3")
    BY <1>9 DEF RevCodexFinal
  <2>2. \/ node' \in {"rev_codex_final", "gate_3"}
        \/ node' = "END" /\ stage' = "BLOCKED"
    BY <2>1 DEF RouteDispatchOutcome
  <2> QED BY <2>1, <2>2, RungBefore, RungAfter DEF PhaseGates!LadderNext,
          PhaseGates!Finish, PhaseGates!Approve, PhaseGates!SendBack, PhaseGates!Block
<1>10. CASE Gate1
  <2>1. node = "gate_1" /\ RouteTo({"PLANNING_PHASE", "PM_PHASE"})
    BY <1>10 DEF Gate1, RouteAfterGate1
  <2>2. stage' \in {"PLANNING_PHASE", "PM_PHASE"} \cup {"BLOCKED"}
    BY <1>10 DEF Gate1, Approve, Rollback, Refuse
  <2>3. \/ node' \in {"planning_phase", "pm_phase"}
        \/ node' = "END" /\ stage' \in {"BLOCKED"}
    BY <2>1, <2>2 DEF RouteTo, FirstNode
  <2> QED BY <2>1, <2>3, RungBefore, RungAfter DEF PhaseGates!LadderNext,
          PhaseGates!Finish, PhaseGates!Approve, PhaseGates!SendBack, PhaseGates!Block
<1>11. CASE Gate15
  <2>1. node = "gate_1_5" /\ RouteTo({"DEV_PHASE", "PM_PHASE", "PLANNING_PHASE"})
    BY <1>11 DEF Gate15, RouteAfterGate15
  <2>2. stage' \in {"DEV_PHASE", "PM_PHASE", "PLANNING_PHASE"} \cup {"BLOCKED"}
    BY <1>11 DEF Gate15, Approve, Rollback, Refuse, ContinuePlanning
  <2>3. \/ node' \in {"dev_loop_router", "pm_phase", "planning_phase"}
        \/ node' = "END" /\ stage' \in {"BLOCKED"}
    BY <2>1, <2>2 DEF RouteTo, FirstNode
  <2> QED BY <2>1, <2>3, RungBefore, RungAfter DEF PhaseGates!LadderNext,
          PhaseGates!Finish, PhaseGates!Approve, PhaseGates!SendBack, PhaseGates!Block
<1>12. CASE Gate2
  <2>1. node = "gate_2" /\ RouteTo({"REV_PHASE", "PLANNING_PHASE", "PM_PHASE"})
    BY <1>12 DEF Gate2, RouteAfterGate2
  <2>2. stage' \in {"REV_PHASE", "PLANNING_PHASE", "PM_PHASE"} \cup {"BLOCKED"}
    BY <1>12 DEF Gate2, Approve, Rollback, Refuse
  <2>3. \/ node' \in {"rev_dispatch", "planning_phase", "pm_phase"}
        \/ node' = "END" /\ stage' \in {"BLOCKED"}
    BY <2>1, <2>2 DEF RouteTo, FirstNode
  <2> QED BY <2>1, <2>3, RungBefore, RungAfter DEF PhaseGates!LadderNext,
          PhaseGates!Finish, PhaseGates!Approve, PhaseGates!SendBack, PhaseGates!Block
<1>13. CASE Gate3
  <2>1. node = "gate_3" /\ RouteTo({"DEV_PHASE", "PLANNING_PHASE", "PM_PHASE"})
    BY <1>13 DEF Gate3, RouteAfterGate3
  <2>2. stage' \in {"DEV_PHASE", "PLANNING_PHASE", "PM_PHASE"} \cup {"DONE", "BLOCKED"}
    BY <1>13 DEF Gate3, Approve, Rollback, Refuse, RollbackToDev
  <2>3. \/ node' \in {"dev_loop_router", "planning_phase", "pm_phase"}
        \/ node' = "END" /\ stage' \in {"DONE", "BLOCKED"}
    BY <2>1, <2>2 DEF RouteTo, FirstNode
  <2> QED BY <2>1, <2>3, RungBefore, RungAfter DEF PhaseGates!LadderNext,
          PhaseGates!Finish, PhaseGates!Approve, PhaseGates!SendBack, PhaseGates!Block
<1>14. CASE UNCHANGED vars
  BY <1>14 DEF vars, PhaseOf, Standing
<1> QED BY <1>1, <1>2, <1>3, <1>4, <1>5, <1>6, <1>7, <1>8, <1>9, <1>10, <1>11, <1>12,
           <1>13, <1>14 DEF Next, Automatic

(* The graph implements the ladder of phases and gates.                    *)
THEOREM GraphImplementsLadder == Spec => ImplementsLadder
<1>1. Init => PhaseGates!LadderInit
  BY DEF Init, PhaseGates!LadderInit, PhaseOf, Standing, Gate
<1>2. GraphInv /\ GraphInv' /\ [Next]_vars => [PhaseGates!LadderNext]_<<PhaseOf, Standing>>
  BY LadderStep
<1> QED BY <1>1, <1>2, GraphInvariant, PTL DEF Spec, ImplementsLadder, PhaseGates!Ladder
=============================================================================
