------------------------- MODULE MCStorageTrustOrder -------------------------
(* StorageTrust with one process and a CA that is rotated. *)
EXTENDS StorageTrust

MCCa == [v \in 1..MaxCert |-> v]

=============================================================================
