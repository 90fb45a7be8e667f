---------------------------- MODULE MCAuditHistory ----------------------------
(* AuditHistory with a deployment that returns to its configuration. *)
EXTENDS AuditHistory

\* The second generation is another configuration, the third is the first's.
MCConf == [g \in 1..MaxGen |-> IF g = 2 THEN 2 ELSE 1]

=============================================================================
