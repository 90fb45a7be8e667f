---------------------------- MODULE MCNodeCacheLive ----------------------------
(* NodeCache until faults stop. *)
EXTENDS NodeCacheLive

\* Sizes differ, so that a sum over the wrong files is seen.
MCSize == [f \in Files |-> IF f = 1 THEN 2 ELSE 1]

\* RESERVE and more.
MCExcess == [f \in Files |-> IF f = 1 THEN 1 ELSE 2]

=============================================================================
