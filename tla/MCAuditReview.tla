---------------------------- MODULE MCAuditReview ----------------------------
(* AuditHistory with one run and its review. *)
EXTENDS AuditHistory

MCConf == [g \in 1..MaxGen |-> g]

=============================================================================
