--------------------------- MODULE NodeCacheLive ---------------------------
(***************************************************************************)
(* Liveness of NodeCache: faults may come at any time, and the claim is    *)
(* about the behaviours in which they come to an end.                      *)
(***************************************************************************)
EXTENDS NodeCache

\* A Job's process is scheduled, a failed Job is tried again, and a serving
\* container that refused to start is restarted.
Fairness ==
  /\ \A j \in Jobs : WF_vars(Proceeds(j)) /\ WF_vars(Retried(j))
  /\ \A s \in Servers : WF_vars(CheckMarker(s) \/ Exec(s))

LiveSpec == Spec /\ Fairness

-----------------------------------------------------------------------------
(* Properties *)

\* A step that is no fault, or that looks like none.
Undisturbed ==
  \/ \E j \in Jobs : Proceeds(j) \/ Retried(j)
  \/ \E s \in Servers : CheckMarker(s) \/ Exec(s)

\* However often Jobs were killed and files damaged, once that stops the
\* marker is back for good and every serving container runs: nothing a dead
\* Job leaves (lock, temporary files, half a directory) blocks the next one.
Recovers ==
  <>[][Undisturbed]_vars => <>[](marker = "this" /\ \A s \in Servers : server[s] = "serving")

=============================================================================
