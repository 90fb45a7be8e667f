--------------------------- MODULE MCResearchBatch ---------------------------
(* ResearchBatch with two requests. *)
EXTENDS ResearchBatch

=============================================================================
