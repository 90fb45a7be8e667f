------------------------- MODULE StorageTrustProofs -------------------------
(***************************************************************************)
(* Proofs about StorageTrust, for any number of processes, replicas,       *)
(* namespaces, identities and renewals.                                    *)
(*                                                                         *)
(* ServedBeforeTrusted is inductive together with the fact that a pod that *)
(* was started for a certificate serves it or a later one (Fresh): a       *)
(* process leaves GetWorkload only when all pods have the template of its  *)
(* own fingerprint, and from then on certificates of pods only grow.       *)
(***************************************************************************)
EXTENDS StorageTrust, TLAPS

\* A pod serves at least the certificate that it was started for.
Fresh == \A r \in Replicas : pod[r].template <= pod[r].cert

IInv == TypeOK /\ Fresh /\ ServedBeforeTrusted

-----------------------------------------------------------------------------

\* No process is under way in the initial states.
LEMMA InitInv == Init => IInv
  BY StorageTrustAssumption
     DEF Init, IInv, TypeOK, Places, Fresh, ServedBeforeTrusted

\* A process that drops what it has read, while certificates, credentials,
\* pods and clients stay as they are, keeps the types.
LEMMA DropsTypes ==
  ASSUME TypeOK, NEW p \in Procs, NEW place \in {"idle", "reconcile"}, Drops(p, place),
         UNCHANGED <<secret, cred, tls, credentials, pod, bundle>>,
         template' \in 0..secret,
         users' \in [1..Identities -> 0..cred]
  PROVE  TypeOK'
<1> USE DEF TypeOK, Places
<1>1. pc' = [pc EXCEPT ![p] = place] /\ next' = [next EXCEPT ![p] = 0]
  BY DEF Drops, To
<1>2. fingerprint' \in [Procs -> 0..secret]
  BY DEF Drops
<1>3. /\ ca' \in [Procs -> {0} \cup {Ca[v] : v \in 1..secret}]
      /\ verified' \in [Procs -> {0} \cup {Ca[v] : v \in 1..secret}]
  BY DEF Drops
<1>4. pc' \in [Procs -> Places] /\ next' \in [Procs -> Nat]
  BY <1>1
<1>5. \A q \in Procs : /\ pc'[q] = "sync" => next'[q] \in 1..Namespaces
                       /\ pc'[q] = "bootstrap" => next'[q] \in 1..Identities
  BY <1>1
<1> QED
  BY <1>2, <1>3, <1>4, <1>5

\* Every step keeps the types.
LEMMA TypeStep == IInv /\ [Next]_vars => TypeOK'
<1> SUFFICES ASSUME IInv, [Next]_vars PROVE TypeOK'
  OBVIOUS
<1> USE StorageTrustAssumption DEF IInv, TypeOK, Places, secrets, mounts, local, storage
<1>1. ASSUME NEW p \in Procs, Starts(p) PROVE TypeOK'
  <2>1. /\ pc' = [pc EXCEPT ![p] = "reconcile"] /\ next' = [next EXCEPT ![p] = 0]
        /\ tls' = [tls EXCEPT ![p] = secret] /\ credentials' = [credentials EXCEPT ![p] = cred]
        /\ UNCHANGED <<secret, cred, fingerprint, ca, verified, template, pod, bundle, users>>
    BY <1>1 DEF Starts, To
  <2>2. tls' \in [Procs -> 1..secret] /\ credentials' \in [Procs -> 1..cred]
    BY <2>1
  <2>3. pc' \in [Procs -> Places] /\ next' \in [Procs -> Nat]
    BY <2>1
  <2>4. \A q \in Procs : /\ pc'[q] = "sync" => next'[q] \in 1..Namespaces
                         /\ pc'[q] = "bootstrap" => next'[q] \in 1..Identities
    BY <2>1
  <2> QED
    BY <2>1, <2>2, <2>3, <2>4
<1>2. ASSUME NEW p \in Procs, ReadCertificate(p) PROVE TypeOK'
  <2>1. PICK place \in Places \ {"sync", "bootstrap"} :
          pc' = [pc EXCEPT ![p] = place] /\ next' = [next EXCEPT ![p] = 0]
    BY <1>2 DEF ReadCertificate, To
  <2>2. pc' \in [Procs -> Places] /\ next' \in [Procs -> Nat]
    BY <2>1
  <2>3. \A q \in Procs : /\ pc'[q] = "sync" => next'[q] \in 1..Namespaces
                         /\ pc'[q] = "bootstrap" => next'[q] \in 1..Identities
    BY <2>1
  <2>4. /\ fingerprint' = [fingerprint EXCEPT ![p] = tls[p]]
        /\ UNCHANGED <<secret, cred, tls, credentials, ca, verified, template, pod, bundle, users>>
    BY <1>2 DEF ReadCertificate
  <2>5. fingerprint' \in [Procs -> 0..secret]
    BY <2>4
  <2> QED
    BY <2>2, <2>3, <2>4, <2>5
<1>3. ASSUME NEW p \in Procs, GetWorkload(p) PROVE TypeOK'
  <2>1. CASE To(p, "patch") /\ UNCHANGED <<fingerprint, ca, verified>>
    BY <1>3, <2>1 DEF GetWorkload, To
  <2>2. CASE To(p, "health") /\ UNCHANGED <<fingerprint, ca, verified>>
    BY <1>3, <2>2 DEF GetWorkload, To
  <2>3. CASE Drops(p, "reconcile")
    BY <1>3, <2>3, DropsTypes DEF GetWorkload, storage
  <2> QED
    BY <1>3, <2>1, <2>2, <2>3 DEF GetWorkload
<1>4. ASSUME NEW p \in Procs, PatchWorkload(p) PROVE TypeOK'
  BY <1>4, DropsTypes DEF PatchWorkload
<1>5. ASSUME NEW p \in Procs, CheckHealth(p) PROVE TypeOK'
  <2>1. CASE /\ To(p, "trust")
             /\ verified' = [verified EXCEPT ![p] = Ca[tls[p]]]
             /\ UNCHANGED <<fingerprint, ca>>
    BY <1>5, <2>1 DEF CheckHealth, To
  <2>2. CASE Drops(p, "reconcile")
    BY <1>5, <2>2, DropsTypes DEF CheckHealth, storage
  <2> QED
    BY <1>5, <2>1, <2>2 DEF CheckHealth
<1>6. ASSUME NEW p \in Procs, ReadCa(p) PROVE TypeOK'
  <2>1. /\ pc' = [pc EXCEPT ![p] = "sync"] /\ next' = [next EXCEPT ![p] = 1]
        /\ ca' = [ca EXCEPT ![p] = Ca[tls[p]]]
        /\ UNCHANGED <<secret, cred, tls, credentials, fingerprint, verified, template, pod, bundle, users>>
    BY <1>6 DEF ReadCa
  <2>2. pc' \in [Procs -> Places] /\ next' \in [Procs -> Nat]
    BY <2>1
  <2>3. \A q \in Procs : /\ pc'[q] = "sync" => next'[q] \in 1..Namespaces
                         /\ pc'[q] = "bootstrap" => next'[q] \in 1..Identities
    BY <2>1
  <2>4. ca' \in [Procs -> {0} \cup {Ca[v] : v \in 1..secret}]
    BY <2>1
  <2> QED
    BY <2>1, <2>2, <2>3, <2>4
<1>7. ASSUME NEW p \in Procs, SyncNamespace(p) PROVE TypeOK'
  <2>1. pc[p] = "sync" /\ next[p] \in 1..Namespaces
    BY <1>7 DEF SyncNamespace
  <2>2. bundle' \in [1..Namespaces -> {0} \cup {Ca[v] : v \in 1..secret}]
    <3>1. ca[p] \in {0} \cup {Ca[v] : v \in 1..secret}
      OBVIOUS
    <3> QED
      BY <1>7, <2>1, <3>1 DEF SyncNamespace
  <2>3. CASE next[p] < Namespaces
    <3>1. next' = [next EXCEPT ![p] = @ + 1] /\ pc' = pc
      BY <1>7, <2>3 DEF SyncNamespace
    <3>2. next' \in [Procs -> Nat] /\ next'[p] \in 1..Namespaces
      BY <2>1, <2>3, <3>1
    <3> QED
      BY <1>7, <2>1, <2>2, <3>1, <3>2 DEF SyncNamespace
  <2>4. CASE ~ (next[p] < Namespaces)
    <3>1. /\ next' = [next EXCEPT ![p] = 1] /\ pc' = [pc EXCEPT ![p] = "bootstrap"]
          /\ UNCHANGED <<secret, cred, tls, credentials, fingerprint, ca, verified, template, pod, users>>
      BY <1>7, <2>4 DEF SyncNamespace
    <3>2. next' \in [Procs -> Nat] /\ next'[p] \in 1..Identities
      BY <3>1
    <3> QED
      BY <2>2, <3>1, <3>2
  <2> QED
    BY <2>3, <2>4
<1>8. ASSUME NEW p \in Procs, SetUp(p) PROVE TypeOK'
  <2>1. pc[p] = "bootstrap" /\ next[p] \in 1..Identities
    BY <1>8 DEF SetUp
  <2>2. UNCHANGED <<secret, cred, tls, credentials, template, pod, bundle>>
    BY <1>8 DEF SetUp
  <2>3. users' \in [1..Identities -> 0..cred]
    <3>1. credentials[p] \in 0..cred
      OBVIOUS
    <3> QED
      BY <1>8, <2>1, <3>1 DEF SetUp
  <2>4. CASE Drops(p, "idle") \/ Drops(p, "reconcile")
    BY <2>2, <2>3, <2>4, DropsTypes
  <2>5. CASE /\ next[p] < Identities
             /\ next' = [next EXCEPT ![p] = @ + 1]
             /\ UNCHANGED <<pc, fingerprint, ca, verified>>
    <3>1. next' \in [Procs -> Nat] /\ next'[p] \in 1..Identities
      BY <2>1, <2>5
    <3> QED
      BY <2>1, <2>2, <2>3, <2>5, <3>1
  <2> QED
    BY <1>8, <2>4, <2>5 DEF SetUp
<1>9. ASSUME NEW p \in Procs, Raises(p) PROVE TypeOK'
  BY <1>9, DropsTypes DEF Raises
<1>10. ASSUME NEW p \in Procs, Killed(p) PROVE TypeOK'
  BY <1>10, DropsTypes DEF Killed
<1>11. ASSUME NEW p \in Procs, Refreshes(p) PROVE TypeOK'
  BY <1>11 DEF Refreshes
<1>12. ASSUME NEW r \in Replicas, RollsOut(r) PROVE TypeOK'
  BY <1>12 DEF RollsOut
<1>13. ASSUME NEW r \in Replicas, Replaced(r) PROVE TypeOK'
  BY <1>13 DEF Replaced
<1>14. CASE RenewCertificate
  BY <1>14 DEF RenewCertificate
<1>15. CASE RenewCredentials
  BY <1>15 DEF RenewCredentials
<1>16. CASE UNCHANGED vars
  BY <1>16 DEF vars
<1> HIDE DEF IInv, TypeOK, Places, secrets, mounts, local, storage
<1> QED
  BY <1>1, <1>2, <1>3, <1>4, <1>5, <1>6, <1>7, <1>8, <1>9, <1>10, <1>11, <1>12,
     <1>13, <1>14, <1>15, <1>16 DEF Next, Proceeds, Fault

\* Only RollsOut and Replaced change pods, and both give them what the secret
\* holds, which is no older than the template.
LEMMA FreshStep == IInv /\ [Next]_vars => Fresh'
<1> SUFFICES ASSUME IInv, [Next]_vars PROVE Fresh'
  OBVIOUS
<1> USE DEF IInv, TypeOK, Fresh
<1>1. ASSUME NEW r \in Replicas, RollsOut(r) PROVE Fresh'
  BY <1>1 DEF RollsOut
<1>2. ASSUME NEW r \in Replicas, Replaced(r) PROVE Fresh'
  BY <1>2 DEF Replaced
<1>3. CASE UNCHANGED pod
  BY <1>3
<1> QED
  BY <1>1, <1>2, <1>3 DEF Next, Proceeds, Fault, vars, storage, Starts, ReadCertificate,
     GetWorkload, PatchWorkload, CheckHealth, ReadCa, SyncNamespace, SetUp, Raises, Killed,
     RenewCertificate, RenewCredentials, Refreshes

\* The certificate of a pod is never replaced by an earlier one.
LEMMA CertsGrow ==
  IInv /\ [Next]_vars => \A r \in Replicas : pod[r].cert <= pod'[r].cert
<1> SUFFICES ASSUME IInv, [Next]_vars, NEW r \in Replicas
             PROVE pod[r].cert <= pod'[r].cert
  OBVIOUS
<1> USE DEF IInv, TypeOK
<1>1. ASSUME NEW s \in Replicas, RollsOut(s) PROVE pod[r].cert <= pod'[r].cert
  BY <1>1 DEF RollsOut
<1>2. ASSUME NEW s \in Replicas, Replaced(s) PROVE pod[r].cert <= pod'[r].cert
  BY <1>2 DEF Replaced
<1>3. CASE UNCHANGED pod
  BY <1>3
<1> QED
  BY <1>1, <1>2, <1>3 DEF Next, Proceeds, Fault, vars, storage, Starts, ReadCertificate,
     GetWorkload, PatchWorkload, CheckHealth, ReadCa, SyncNamespace, SetUp, Raises, Killed,
     RenewCertificate, RenewCredentials, Refreshes

\* The places of a process past its check of the rollout.
Past == {"health", "trust", "sync", "bootstrap"}

\* A process comes past that check only through GetWorkload, and stays past it
\* with the fingerprint it had.
LEMMA OneEntry ==
  IInv /\ [Next]_vars =>
    \A p \in Procs : pc'[p] \in Past =>
      /\ fingerprint'[p] = fingerprint[p]
      /\ pc[p] \in Past \/ \A r \in Replicas : pod[r].template = fingerprint[p]
<1> SUFFICES ASSUME IInv, [Next]_vars, NEW p \in Procs, pc'[p] \in Past
             PROVE /\ fingerprint'[p] = fingerprint[p]
                   /\ pc[p] \in Past \/ \A r \in Replicas : pod[r].template = fingerprint[p]
  OBVIOUS
<1> DEFINE Goal == /\ fingerprint'[p] = fingerprint[p]
                   /\ pc[p] \in Past \/ \A r \in Replicas : pod[r].template = fingerprint[p]
<1> USE DEF IInv, TypeOK, Past
<1>1. ASSUME NEW q \in Procs, Starts(q) PROVE Goal
  BY <1>1 DEF Starts, To
<1>2. ASSUME NEW q \in Procs, ReadCertificate(q) PROVE Goal
  BY <1>2 DEF ReadCertificate, To
<1>3. ASSUME NEW q \in Procs, GetWorkload(q) PROVE Goal
  BY <1>3 DEF GetWorkload, To, Drops, rolled_out
<1>4. ASSUME NEW q \in Procs, PatchWorkload(q) PROVE Goal
  BY <1>4 DEF PatchWorkload, To, Drops
<1>5. ASSUME NEW q \in Procs, CheckHealth(q) PROVE Goal
  BY <1>5 DEF CheckHealth, To, Drops
<1>6. ASSUME NEW q \in Procs, ReadCa(q) PROVE Goal
  BY <1>6 DEF ReadCa
<1>7. ASSUME NEW q \in Procs, SyncNamespace(q) PROVE Goal
  BY <1>7 DEF SyncNamespace
<1>8. ASSUME NEW q \in Procs, SetUp(q) PROVE Goal
  BY <1>8 DEF SetUp, To, Drops
<1>9. ASSUME NEW q \in Procs, Raises(q) \/ Killed(q) PROVE Goal
  BY <1>9 DEF Raises, Killed, To, Drops
<1>10. CASE UNCHANGED local
  BY <1>10 DEF local
<1> QED
  BY <1>1, <1>2, <1>3, <1>4, <1>5, <1>6, <1>7, <1>8, <1>9, <1>10 DEF Next, Proceeds, Fault,
     vars, RenewCertificate, RenewCredentials, Refreshes, RollsOut, Replaced

\* Every step keeps the order.
LEMMA ServedStep == IInv /\ [Next]_vars => ServedBeforeTrusted'
<1> SUFFICES ASSUME IInv, [Next]_vars, NEW p \in Procs, pc'[p] \in Past, NEW r \in Replicas
             PROVE fingerprint'[p] <= pod'[r].cert
  BY DEF ServedBeforeTrusted, Past
<1>1. TypeOK /\ TypeOK' /\ Fresh
  BY TypeStep DEF IInv
<1>2. pod[r].cert <= pod'[r].cert
  BY CertsGrow
<1>3. fingerprint'[p] = fingerprint[p]
  BY OneEntry
<1>4. fingerprint[p] <= pod[r].cert
  BY <1>1, OneEntry DEF IInv, ServedBeforeTrusted, Past, Fresh
<1> QED
  BY <1>1, <1>2, <1>3, <1>4 DEF TypeOK

-----------------------------------------------------------------------------

\* The inductive invariant.
THEOREM Invariant == Spec => []IInv
<1>1. IInv /\ [Next]_vars => IInv'
  BY TypeStep, FreshStep, ServedStep DEF IInv
<1> QED
  BY InitInv, <1>1, PTL DEF Spec

\* Type correctness.
THEOREM TypeCorrect == Spec => []TypeOK
<1>1. IInv => TypeOK
  BY DEF IInv
<1> QED
  BY Invariant, <1>1, PTL

\* A bootstrap process goes on to the health check, the clients and the users
\* only with a storage that serves, on every replica, at least the certificate
\* it has read, however many processes overlap and pods are replaced.
THEOREM TrustFollowsStorage == Spec => []ServedBeforeTrusted
<1>1. IInv => ServedBeforeTrusted
  BY DEF IInv
<1> QED
  BY Invariant, <1>1, PTL

=============================================================================
