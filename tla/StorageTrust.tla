---------------------------- MODULE StorageTrust ----------------------------
(***************************************************************************)
(* How the model storage gets its certificate, the clients their trust and *)
(* the storage its users (bootstrap.py): reconcile_tls, sync_ca and        *)
(* bootstrap, run by a hook Job of every sync and by a CronJob every 15    *)
(* minutes.  The two may overlap.                                          *)
(*                                                                         *)
(* Certificates and credentials are renewed at any time.  Every process    *)
(* sees them through its own mounted files, which follow after a while; a  *)
(* storage pod keeps the certificate that it started with (subPath mount), *)
(* which is why reconcile_tls restarts the pods.                           *)
(***************************************************************************)
EXTENDS Integers

CONSTANTS Procs,      \* bootstrap processes
          Replicas,   \* pods of the storage workload
          Namespaces, \* number of CLIENT_NAMESPACES
          Identities, \* number of IAM users: reader and publisher
          Ca,         \* Ca[v]: the root of the v-th certificate
          MaxCert,    \* bound: certificates issued
          MaxCred     \* bound: generations of the identities' credentials

ASSUME StorageTrustAssumption ==
  /\ Namespaces \in Nat \ {0} /\ Identities \in Nat \ {0}
  /\ MaxCert \in Nat \ {0} /\ MaxCred \in Nat \ {0}
  /\ \A v \in 1..MaxCert : Ca[v] \in 1..MaxCert

VARIABLES secret,      \* the certificate in the secret rustfs-server-tls
          cred,        \* the credentials in the identities' secrets
          tls,         \* tls[p]: the certificate under /tls of process p
          credentials, \* credentials[p]: what is under its /credentials
          pc,          \* where each process is
          next,        \* next[p]: the namespace or identity that is next
          fingerprint, \* fingerprint[p]: the certificate that p has read
          ca,          \* ca[p]: the CA that p copies to the clients
          template,    \* the fingerprint annotated on the workload, 0 if none
          pod,         \* pod[r]: the template and the certificate it runs with
          bundle,      \* bundle[i]: the CA in the i-th namespace, 0 if none
          users,       \* users[i]: the credentials of the i-th user, 0 if none
          verified     \* history: the CA that p's health check has accepted

secrets == <<secret, cred>>
mounts == <<tls, credentials>>
local == <<pc, next, fingerprint, ca, verified>>
storage == <<template, pod, bundle, users>>
vars == <<secrets, mounts, local, storage>>

Places == {"idle", "reconcile", "get", "patch", "health", "trust", "sync", "bootstrap"}

TypeOK ==
  /\ secret \in 1..MaxCert /\ cred \in 1..MaxCred
  /\ tls \in [Procs -> 1..secret]
  /\ credentials \in [Procs -> 1..cred]
  /\ pc \in [Procs -> Places]
  /\ next \in [Procs -> Nat]
  /\ \A p \in Procs :
       /\ pc[p] = "sync" => next[p] \in 1..Namespaces
       /\ pc[p] = "bootstrap" => next[p] \in 1..Identities
  /\ fingerprint \in [Procs -> 0..secret]
  /\ ca \in [Procs -> {0} \cup {Ca[v] : v \in 1..secret}]
  /\ verified \in [Procs -> {0} \cup {Ca[v] : v \in 1..secret}]
  /\ template \in 0..secret
  /\ pod \in [Replicas -> [template : 0..secret, cert : 1..secret]]
  /\ bundle \in [1..Namespaces -> {0} \cup {Ca[v] : v \in 1..secret}]
  /\ users \in [1..Identities -> 0..cred]

\* The storage has been installed, and nothing has been bootstrapped.
Init ==
  /\ secret = 1 /\ cred = 1
  /\ tls = [p \in Procs |-> 1] /\ credentials = [p \in Procs |-> 1]
  /\ pc = [p \in Procs |-> "idle"]
  /\ next = [p \in Procs |-> 0]
  /\ fingerprint = [p \in Procs |-> 0]
  /\ ca = [p \in Procs |-> 0]
  /\ verified = [p \in Procs |-> 0]
  /\ template = 0
  /\ pod = [r \in Replicas |-> [template |-> 0, cert |-> 1]]
  /\ bundle = [i \in 1..Namespaces |-> 0]
  /\ users = [i \in 1..Identities |-> 0]

-----------------------------------------------------------------------------
(* A bootstrap process *)

\* Process p goes from one place to another, with nothing in hand.
To(p, place) ==
  /\ pc' = [pc EXCEPT ![p] = place]
  /\ next' = [next EXCEPT ![p] = 0]

\* It drops what it has read: the loop begins again, or the process ends.
Drops(p, place) ==
  /\ To(p, place)
  /\ fingerprint' = [fingerprint EXCEPT ![p] = 0]
  /\ ca' = [ca EXCEPT ![p] = 0]
  /\ verified' = [verified EXCEPT ![p] = 0]

\* A new pod of the Job mounts what the secrets hold.
Starts(p) ==
  /\ pc[p] = "idle"
  /\ To(p, "reconcile")
  /\ tls' = [tls EXCEPT ![p] = secret]
  /\ credentials' = [credentials EXCEPT ![p] = cred]
  /\ UNCHANGED <<secrets, fingerprint, ca, verified, storage>>

\* The first read of /tls.
ReadCertificate(p) ==
  /\ pc[p] = "reconcile"
  /\ To(p, "get")
  /\ fingerprint' = [fingerprint EXCEPT ![p] = tls[p]]
  /\ UNCHANGED <<secrets, mounts, ca, verified, storage>>

\* Mutant: one updated replica is enough.
rolled_out_somewhere == \E r \in Replicas : pod[r].template = template
\* The workload's status: every replica is updated and ready.
rolled_out == \A r \in Replicas : pod[r].template = template

\* The workload's annotation and status are read at once.
GetWorkload(p) ==
  /\ pc[p] = "get"
  /\ \/ template # fingerprint[p] /\ To(p, "patch") /\ UNCHANGED <<fingerprint, ca, verified>>
     \/ template = fingerprint[p] /\ rolled_out /\ To(p, "health")
          /\ UNCHANGED <<fingerprint, ca, verified>>
     \/ template = fingerprint[p] /\ ~ rolled_out /\ Drops(p, "reconcile")
  /\ UNCHANGED <<secrets, mounts, storage>>

\* Mutant: the annotation stays.
PatchNothing(p) ==
  /\ pc[p] = "patch"
  /\ Drops(p, "reconcile")
  /\ UNCHANGED <<secrets, mounts, storage>>
\* It asks for the rollout and raises.
PatchWorkload(p) ==
  /\ pc[p] = "patch"
  /\ template' = fingerprint[p]
  /\ Drops(p, "reconcile")
  /\ UNCHANGED <<secrets, mounts, pod, bundle, users>>

\* A TLS connection of p, through the Service, to some replica.
Trusts(p, r) == Ca[pod[r].cert] = Ca[tls[p]]

\* The health request, with the CA of the second read of /tls.
CheckHealth(p) ==
  /\ pc[p] = "health"
  /\ \E r \in Replicas :
       IF Trusts(p, r)
         THEN /\ To(p, "trust")
              /\ verified' = [verified EXCEPT ![p] = Ca[tls[p]]]
              /\ UNCHANGED <<fingerprint, ca>>
         ELSE Drops(p, "reconcile")
  /\ UNCHANGED <<secrets, mounts, storage>>

\* sync_ca reads /tls for the third time.
ReadCa(p) ==
  /\ pc[p] = "trust"
  /\ pc' = [pc EXCEPT ![p] = "sync"]
  /\ next' = [next EXCEPT ![p] = 1]
  /\ ca' = [ca EXCEPT ![p] = Ca[tls[p]]]
  /\ UNCHANGED <<secrets, mounts, fingerprint, verified, storage>>

\* Mutant: off by one at the last namespace.
SyncNamespaceOffByOne(p) ==
  /\ pc[p] = "sync"
  /\ bundle' = [bundle EXCEPT ![next[p]] = ca[p]]
  /\ IF next[p] <= Namespaces
       THEN next' = [next EXCEPT ![p] = @ + 1] /\ UNCHANGED pc
       ELSE next' = [next EXCEPT ![p] = 1] /\ pc' = [pc EXCEPT ![p] = "bootstrap"]
  /\ UNCHANGED <<secrets, mounts, fingerprint, ca, verified, template, pod, users>>

\* One ConfigMap after the other is patched.
SyncNamespace(p) ==
  /\ pc[p] = "sync"
  /\ bundle' = [bundle EXCEPT ![next[p]] = ca[p]]
  /\ IF next[p] < Namespaces
       THEN next' = [next EXCEPT ![p] = @ + 1] /\ UNCHANGED pc
       ELSE next' = [next EXCEPT ![p] = 1] /\ pc' = [pc EXCEPT ![p] = "bootstrap"]
  /\ UNCHANGED <<secrets, mounts, fingerprint, ca, verified, template, pod, users>>

\* The bucket and one identity after the other: idempotent requests to the
\* storage, of which the last completes an identity.  A replica that p does
\* not trust makes it raise.
SetUp(p) ==
  /\ pc[p] = "bootstrap"
  /\ \E r \in Replicas :
       \/ /\ Trusts(p, r)
          /\ users' = [users EXCEPT ![next[p]] = credentials[p]]
          /\ IF next[p] < Identities
               THEN /\ next' = [next EXCEPT ![p] = @ + 1]
                    /\ UNCHANGED <<pc, fingerprint, ca, verified>>
               ELSE Drops(p, "idle")
       \/ ~ Trusts(p, r) /\ Drops(p, "reconcile") /\ UNCHANGED users
  /\ UNCHANGED <<secrets, mounts, template, pod, bundle>>

\* Any request may fail.  The loop sleeps and begins again.
Raises(p) ==
  /\ pc[p] \notin {"idle", "reconcile"}
  /\ Drops(p, "reconcile")
  /\ UNCHANGED <<secrets, mounts, storage>>

\* Past its deadline, evicted, or deleted for the next sync's hook.
Killed(p) ==
  /\ pc[p] # "idle"
  /\ Drops(p, "idle")
  /\ UNCHANGED <<secrets, mounts, storage>>

-----------------------------------------------------------------------------
(* The cluster *)

\* cert-manager renews the certificate, under the same root or a new one.
RenewCertificate ==
  /\ secret < MaxCert
  /\ secret' = secret + 1
  /\ UNCHANGED <<cred, mounts, local, storage>>

RenewCredentials ==
  /\ cred < MaxCred
  /\ cred' = cred + 1
  /\ UNCHANGED <<secret, mounts, local, storage>>

\* The kubelet refreshes the mounted secrets of a running pod.
Refreshes(p) ==
  /\ pc[p] # "idle"
  /\ <<tls[p], credentials[p]>> # <<secret, cred>>
  /\ tls' = [tls EXCEPT ![p] = secret]
  /\ credentials' = [credentials EXCEPT ![p] = cred]
  /\ UNCHANGED <<secrets, local, storage>>

\* A storage pod starts with what the secret holds then: of the template that
\* the workload has now, in a rollout ...
RollsOut(r) ==
  /\ pod[r].template # template
  /\ pod' = [pod EXCEPT ![r] = [template |-> template, cert |-> secret]]
  /\ UNCHANGED <<secrets, mounts, local, template, bundle, users>>

\* ... or of the same one, in place of a pod that was evicted.
Replaced(r) ==
  /\ pod[r].cert # secret
  /\ pod' = [pod EXCEPT ![r] = [template |-> @.template, cert |-> secret]]
  /\ UNCHANGED <<secrets, mounts, local, template, bundle, users>>

-----------------------------------------------------------------------------
(* The specification *)

Proceeds(p) ==
  \/ Starts(p) \/ ReadCertificate(p) \/ GetWorkload(p) \/ PatchWorkload(p)
  \/ CheckHealth(p) \/ ReadCa(p) \/ SyncNamespace(p) \/ SetUp(p)

Fault ==
  \/ \E p \in Procs : Raises(p) \/ Killed(p)
  \/ \E r \in Replicas : Replaced(r)
  \/ RenewCertificate \/ RenewCredentials

Next ==
  \/ \E p \in Procs : Proceeds(p) \/ Refreshes(p)
  \/ \E r \in Replicas : RollsOut(r)
  \/ Fault

Spec == Init /\ [][Next]_vars

-----------------------------------------------------------------------------
(* Properties *)

\* Clients are only given a CA with which the process that gives it has
\* reached the storage.  (bootstrap.py:51: "Verify the replacement endpoint
\* before distributing new trust to clients.")
TrustIsVerified ==
  [][\A i \in 1..Namespaces :
       bundle'[i] # bundle[i] => \E p \in Procs : verified[p] = bundle'[i]]_vars

\* A process that goes on to the clients has waited for the whole storage:
\* every replica serves the certificate that it had read, or a later one,
\* whoever else restarts the storage meanwhile.
ServedBeforeTrusted ==
  \A p \in Procs : pc[p] \in {"health", "trust", "sync", "bootstrap"} =>
    \A r \in Replicas : fingerprint[p] <= pod[r].cert

=============================================================================
