-------------------------- MODULE MCDaemonLiveness --------------------------
(* Instances of the scheduler, with its fairness, for TLC. *)
EXTENDS DaemonLiveness

OneSlot == [a \in Agent |-> 1]
=============================================================================
