----------------------------- MODULE RolloutLive -----------------------------
(***************************************************************************)
(* Liveness of Rollout: faults may come at any time, and the claim is      *)
(* about the behaviours in which they come to an end.                      *)
(***************************************************************************)
EXTENDS Rollout

\* Gates retry every 15 seconds, a failed sync is tried again, nodes recover,
\* other workloads end, and where the configuration leaves the retirement of
\* the other backend to an operator, the operator sees to it.
Fairness ==
  /\ WF_vars(Gate)
  /\ WF_vars(wave = "failed" /\ Sync)
  /\ \A n \in Nodes :
       /\ WF_vars(Platform(n))
       /\ WF_vars(StrayGoes(n))
       /\ WF_vars(NodeReady(n))
       /\ WF_vars(OtherWorkloadLeaves(n))
  /\ WF_vars(OtherStops)
  /\ REPLACE_BACKEND \/ WF_vars(OperatorRetires)

LiveSpec == Spec /\ Fairness

-----------------------------------------------------------------------------
(* Properties *)

\* A step that is no fault, or that looks like none.
Undisturbed ==
  \/ Gate \/ Sync \/ OtherStops \/ OperatorRetires
  \/ \E n \in Nodes :
       \/ Platform(n) \/ SchedulesOther(n) \/ StrayGoes(n)
       \/ NodeReady(n) \/ OtherWorkloadLeaves(n)

\* Once faults stop, the new revision comes to serve with all its replicas,
\* although the workload it replaces holds the GPUs that it needs.
Completes == <>[][Undisturbed]_vars => <>[](Cardinality(running) = Required)

=============================================================================
