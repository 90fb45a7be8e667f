--------------------------- MODULE StorageTrustLive ---------------------------
(***************************************************************************)
(* Liveness of StorageTrust: renewals and failures may come at any time,   *)
(* and the claim is about the behaviours in which they come to an end.     *)
(***************************************************************************)
EXTENDS StorageTrust

\* Processes run without end (the CronJob starts one every 15 minutes), the
\* kubelet refreshes what it has mounted, and rollouts make progress.
Fairness ==
  /\ \A p \in Procs : WF_vars(Proceeds(p)) /\ WF_vars(Refreshes(p))
  /\ \A r \in Replicas : WF_vars(RollsOut(r))

LiveSpec == Spec /\ Fairness

-----------------------------------------------------------------------------
(* Properties *)

\* A step that is no fault, or that looks like none.
Undisturbed ==
  \/ \E p \in Procs : Proceeds(p) \/ Refreshes(p)
  \/ \E r \in Replicas : RollsOut(r)

\* Every replica serves the last certificate and is not to be restarted, every
\* client trusts its root, and every user has the last credentials.
Converged ==
  /\ template = secret
  /\ \A r \in Replicas : pod[r] = [template |-> secret, cert |-> secret]
  /\ \A i \in 1..Namespaces : bundle[i] = Ca[secret]
  /\ \A i \in 1..Identities : users[i] = cred

\* Once renewals and failures stop, storage, clients and users come to agree
\* for good, whatever overlapping processes with outdated mounts have written
\* over each other's work.
Converges == <>[][Undisturbed]_vars => <>[]Converged

=============================================================================
