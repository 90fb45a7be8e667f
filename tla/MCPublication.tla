--------------------------- MODULE MCPublication ---------------------------
(* Publication of a small snapshot. *)
EXTENDS PublicationLive

\* The last file of the inventory is the largest.
MCSize == [f \in Files |-> IF f = NumFiles THEN 2 ELSE 1]

\* One that lacks a file and has a wrong one.
MCLists == {[f \in Files |-> CASE f = 1 -> "bad" [] f = 2 -> "none" [] OTHER -> "good"]}

=============================================================================
