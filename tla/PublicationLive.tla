-------------------------- MODULE PublicationLive --------------------------
(***************************************************************************)
(* Liveness of Publication: faults may come at any time, and the claim is  *)
(* about the behaviours in which they come to an end.                      *)
(***************************************************************************)
EXTENDS Publication

SameHub(A) == A /\ UNCHANGED hub

\* A Job's process is scheduled, and a Job that failed is run again.
Fairness ==
  \A p \in Publishers :
    /\ WF_vars(SameHub(Proceeds(p)))
    /\ WF_vars(SameHub(pc[p] = "failed" /\ RunAgain(p)))

LiveSpec == Spec /\ Fairness

-----------------------------------------------------------------------------
(* Properties *)

\* A step that is no fault, or that looks like none.
Undisturbed ==
  \/ \E p \in Publishers : Proceeds(p) \/ RunAgain(p)
  \/ ForeignManifest

\* The scratch volume holds HF_HOME, what is staged at once and the reserve.
Room == Scratch - hub >= StagedAtOnce + RESERVE

\* Once faults stop, there is a manifest for good: where there is room, retries
\* pick up what failed and killed Jobs left, and one publisher's staging does
\* not lock the other one out.  Only a manifest that is removed when every
\* publication has succeeded waits for the next full sync.
Completes ==
  Room /\ <>[][Undisturbed]_vars =>
    <>[](ready # "absent" \/ (tampered /\ \A p \in Publishers : pc[p] = "succeeded"))

=============================================================================
