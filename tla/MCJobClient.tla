----------------------------- MODULE MCJobClient -----------------------------
(* JobClient with two jobs of two artifacts. *)
EXTENDS JobClient

=============================================================================
