--------------------------- MODULE MCStorageTrust ---------------------------
(* StorageTrust with two overlapping processes. *)
EXTENDS StorageTrustLive

\* The second certificate has a new root.
MCCa == [v \in 1..MaxCert |-> v]

=============================================================================
