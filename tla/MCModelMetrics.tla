--------------------------- MODULE MCModelMetrics ---------------------------
(* ModelMetrics with the publications of two revisions and a cache copy. *)
EXTENDS ModelMetrics

\* Cache Jobs run in the platform's namespace.
MCNamespace == [j \in Jobs |-> IF j = 3 THEN "platform" ELSE "models"]
\* All publications have the node "publisher".
MCKey == [j \in Jobs |-> IF j = 3 THEN "cache" ELSE "publication"]
\* The cache Job was tried twice.
MCAttempts == [j \in Jobs |-> IF j = 3 THEN 2 ELSE 1]

=============================================================================
