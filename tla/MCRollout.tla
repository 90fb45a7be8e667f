------------------------------ MODULE MCRollout ------------------------------
(* Rollout on two nodes with an allowlist. *)
EXTENDS RolloutLive

\* Every node is a topology domain of its own.
MCDomain == [n \in Nodes |-> n]

=============================================================================
