------------------------------ MODULE MCDaemon ------------------------------
(* Instances of the scheduler for TLC. *)
EXTENDS DaemonSafety, TLC

OneSlot  == [a \in Agent |-> 1]
TwoSlots == [a \in Agent |-> 2]

\* Bound of run daemon: the API is asked to cancel one task at most, and rows
\* that never meet in a claim have the same priority.
OneCancel == Cardinality({t \in Task : api[t] # "never"}) <= 1
SamePriorities ==
    \A t, u \in Task : agent[t] # agent[u] /\ NoAgent \notin {agent[t], agent[u]}
                        => priority[t] = priority[u]
Bound == OneCancel /\ SamePriorities

TaskSymmetry == Permutations(Task) \cup Permutations(Goroutine) \cup Permutations(Agent)
=============================================================================
