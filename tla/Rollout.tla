------------------------------- MODULE Rollout -------------------------------
(***************************************************************************)
(* The gates that order one sync of the serving application (gate.py and   *)
(* the hook Jobs of preparation.yaml): preflight, publication, cache,      *)
(* backend switch, the serving resource, health.                           *)
(*                                                                         *)
(* A gate is a loop that runs its checks until all of them pass or its     *)
(* Job gives up; then the sync has failed and a later one starts again     *)
(* from the first wave.  A check makes several requests, and the cluster   *)
(* changes between any two of them: nodes come and go, caches are filled   *)
(* and lost, other workloads take GPUs, an operator retires or recreates   *)
(* the other backend.                                                      *)
(*                                                                         *)
(* "The other backend" is the InferenceService when the configuration asks *)
(* for a distributed layout and the LLMInferenceService otherwise.  A pod  *)
(* of this workload takes the GPUs of one node, and two never share a      *)
(* topology domain (required anti-affinity).                               *)
(***************************************************************************)
EXTENDS Integers, FiniteSets

CONSTANTS Nodes,           \* the GPU nodes of the cache's label
          Domain,          \* Domain[n]: the node's topology domain
          nodeNames,       \* the allowlist of the configuration, {} if there is none
          Required,        \* nodesPerReplica * replicas
          REPLACE_BACKEND,
          MaxUid           \* bound: objects of the other backend's name

ASSUME RolloutAssumption ==
  /\ nodeNames \subseteq Nodes
  /\ Required \in Nat \ {0}
  /\ IsFiniteSet({Domain[n] : n \in Nodes})
  /\ REPLACE_BACKEND \in BOOLEAN
  /\ MaxUid \in Nat \ {0}

VARIABLES wave,     \* the wave that the sync has reached
          seen,     \* the nodes that the gate's last read returned
          read,     \* the uid that the switch gate has read, 0 if none
          eligible, \* nodes that are ready, schedulable, tolerated and equipped
          cache,    \* cache[n]: the model's copy on node n, and what is reported
          declared, \* the LocalModelCache exists
          busy,     \* nodes whose GPUs other workloads hold
          other,    \* uid of the other backend's object, 0 if there is none
          dying,    \* it has a deletionTimestamp
          target,   \* the object of the configured backend
          pods,     \* pods[n]: this workload's pod on node n
          strays,   \* nodes with a pod of the other backend whose object is gone
          running,  \* nodes whose new pod has passed its check of the marker
          checked,  \* history: nodes that a cache gate has found downloaded
          made,     \* uids given so far
          known,    \* history: uids that a switch gate has read
          deleted,  \* history: uids that a switch gate has deleted
          meddled   \* history: the other backend was created after this sync's switch

gateVars == <<wave, seen, read, checked>>
nodeVars == <<eligible, cache, declared, busy>>
backendVars == <<other, dying, target, made, known, deleted, meddled>>
podVars == <<pods, strays, running>>
vars == <<wave, seen, read, eligible, cache, declared, busy, other, dying, target, pods,
          strays, running, checked, made, known, deleted, meddled>>

Waves == {"preflight", "publish", "cache", "switch", "serve", "health", "done", "failed"}

\* "full": downloaded, not reported yet.  "reported": NodeDownloaded.  "lost":
\* still reported, but the node was replaced.
Copies == {"cold", "full", "reported", "lost"}

\* "other": of the other backend.  "old", "new": of the configured one, from
\* before this sync and as it is now.
Pods == {"none", "other", "old", "new"}

TypeOK ==
  /\ wave \in Waves
  /\ seen \subseteq Nodes
  /\ read \in 0..made
  /\ eligible \subseteq Nodes
  /\ cache \in [Nodes -> Copies]
  /\ declared \in BOOLEAN
  /\ busy \subseteq Nodes
  /\ other \in 0..made
  /\ dying \in BOOLEAN
  /\ target \in {"absent", "old", "new"}
  /\ pods \in [Nodes -> Pods]
  /\ strays \subseteq {n \in Nodes : pods[n] = "other"}
  /\ running \subseteq {n \in Nodes : pods[n] = "new"}
  /\ checked \subseteq Nodes
  /\ made \in 0..MaxUid
  /\ known \subseteq 1..made
  /\ deleted \subseteq 1..made
  /\ meddled \in BOOLEAN

Of(kinds) == {n \in Nodes : pods[n] \in kinds}

\* One pod at most in a topology domain, none on a node that is in use.
Placed ==
  /\ \A n, m \in Of({"other", "old", "new"}) : Domain[n] = Domain[m] => n = m
  /\ Of({"other", "old", "new"}) \cap busy = {}

\* A first installation, a migration from the other backend, or a change of
\* the model under the same backend.
Init ==
  /\ wave = "preflight" /\ seen = {} /\ read = 0 /\ checked = {}
  /\ eligible \in SUBSET Nodes
  /\ cache \in [Nodes -> {"cold"}] /\ declared = FALSE
  /\ busy \in SUBSET Nodes
  /\ pods \in [Nodes -> {"none", "other", "old"}]
  /\ Cardinality(Of({"other", "old"})) <= Required
  /\ Placed
  /\ \/ other = 0 /\ target = "absent" /\ Of({"other", "old"}) = {}
     \/ other = 1 /\ target = "absent" /\ Of({"old"}) = {}
     \/ other = 0 /\ target = "old" /\ Of({"other"}) = {}
  /\ dying = FALSE
  /\ strays = {} /\ running = {}
  /\ made = 1
  /\ known = {} /\ deleted = {} /\ meddled = FALSE

-----------------------------------------------------------------------------
(* The gates *)

Enough(S) == Cardinality({Domain[n] : n \in S}) >= Required

\* The nodes a pod may be placed on, of those in S.
Allowed(S) == IF nodeNames = {} THEN S ELSE S \cap nodeNames

\* Mutant: an ineligible member of the allowlist is left out.
check_nodes_lenient == Enough(Allowed(eligible))
\* check_nodes accepts what there is: every allowlisted node is eligible, and
\* there are enough distinct domains.
check_nodes ==
  /\ nodeNames \subseteq eligible
  /\ Enough(Allowed(eligible))

\* An iteration reads the nodes.  One that raises changes nothing: the gate
\* sleeps and begins again.
ReadNodes ==
  /\ wave \in {"preflight", "cache"}
  /\ seen = {}
  /\ check_nodes
  /\ seen' = Allowed(eligible)
  /\ UNCHANGED <<wave, read, checked, nodeVars, backendVars, podVars>>

\* Mutant: the pods to be replaced count as other workloads.
usable_uncredited(n) == n \notin busy \cup Of({"other", "old", "new"})
\* allocatable - used + old_workload >= gpusPerNode.
usable(n) == n \notin busy

\* ... and later in the same iteration all pods.
ReadPods ==
  /\ wave = "preflight"
  /\ seen # {}
  /\ wave' = IF Enough({n \in seen : usable(n)}) THEN "publish" ELSE wave
  /\ seen' = {}
  /\ UNCHANGED <<read, checked, nodeVars, backendVars, podVars>>

\* Mutant: the switch's wave comes before the cache's.
PublishedThenSwitch ==
  /\ wave = "publish"
  /\ wave' = "switch"
  /\ declared' = TRUE
  /\ UNCHANGED <<seen, read, checked, eligible, cache, busy, backendVars, podVars>>

\* The publication Job succeeds (module Publication), and the next wave
\* declares the cache.
Published ==
  /\ wave = "publish"
  /\ wave' = "cache"
  /\ declared' = TRUE
  /\ UNCHANGED <<seen, read, checked, eligible, cache, busy, backendVars, podVars>>

\* Every node that was read is NodeDownloaded in the cache's status.
check_cache == \A n \in seen : cache[n] \in {"reported", "lost"}

ReadCache ==
  /\ wave = "cache"
  /\ seen # {}
  /\ IF check_cache
       THEN wave' = "switch" /\ checked' = checked \cup seen
       ELSE UNCHANGED <<wave, checked>>
  /\ seen' = {}
  /\ UNCHANGED <<read, nodeVars, backendVars, podVars>>

\* The gate reads the other backend's object, and no pods.  404: it is gone.  A
\* deletionTimestamp, or no permission to replace it: the gate waits.
ReadBackend ==
  /\ wave = "switch"
  /\ read = 0
  /\ IF other = 0
       THEN wave' = "serve" /\ UNCHANGED <<read, known>>
       ELSE /\ REPLACE_BACKEND /\ ~ dying
            /\ read' = other /\ known' = known \cup {other}
            /\ UNCHANGED wave
  /\ UNCHANGED <<seen, checked, nodeVars, other, dying, target, made, deleted, meddled, podVars>>

\* Mutant: the gate passes as soon as the deletion is accepted.
DeleteBackendAndGo ==
  /\ wave = "switch"
  /\ read # 0
  /\ wave' = "serve"
  /\ IF other = read
       THEN dying' = TRUE /\ deleted' = deleted \cup {other}
       ELSE UNCHANGED <<dying, deleted>>
  /\ read' = 0
  /\ UNCHANGED <<seen, checked, nodeVars, other, target, made, known, meddled, podVars>>

\* Mutant: no precondition.
DeleteBackendByName ==
  /\ wave = "switch"
  /\ read # 0
  /\ IF other # 0
       THEN dying' = TRUE /\ deleted' = deleted \cup {other}
       ELSE UNCHANGED <<dying, deleted>>
  /\ read' = 0
  /\ UNCHANGED <<wave, seen, checked, nodeVars, other, target, made, known, meddled, podVars>>

\* It deletes exactly the object it has read; any other uid is refused.  In
\* either case the iteration raises, and the next one reads again.
DeleteBackend ==
  /\ wave = "switch"
  /\ read # 0
  /\ IF other = read
       THEN dying' = TRUE /\ deleted' = deleted \cup {other}
       ELSE UNCHANGED <<dying, deleted>>
  /\ read' = 0
  /\ UNCHANGED <<wave, seen, checked, nodeVars, other, target, made, known, meddled, podVars>>

\* Argo applies the serving resource.
ApplyServing ==
  /\ wave = "serve"
  /\ target' = "new"
  /\ wave' = "health"
  /\ UNCHANGED <<seen, read, checked, nodeVars, other, dying, made, known, deleted, meddled, podVars>>

\* The Service answers as soon as one of its pods is ready.
Healthy ==
  /\ wave = "health"
  /\ running \cup Of({"old"}) # {}
  /\ wave' = "done"
  /\ UNCHANGED <<seen, read, checked, nodeVars, backendVars, podVars>>

\* The Job is over its deadline and retries, with whatever it was doing.
GivesUp ==
  /\ wave \notin {"done", "failed"}
  /\ wave' = "failed" /\ seen' = {} /\ read' = 0
  /\ UNCHANGED <<checked, nodeVars, backendVars, podVars>>

\* Every sync runs all hooks again.
Sync ==
  /\ wave \in {"failed", "done"}
  /\ wave' = "preflight"
  /\ meddled' = FALSE
  /\ UNCHANGED <<seen, read, checked, nodeVars, other, dying, target, made, known, deleted, podVars>>

-----------------------------------------------------------------------------
(* Model caches and serving pods *)

\* A downloader fills the node's copy (module NodeCache).
Downloaded(n) ==
  /\ declared /\ n \in eligible
  /\ cache[n] = "cold"
  /\ cache' = [cache EXCEPT ![n] = "full"]
  /\ UNCHANGED <<gateVars, eligible, declared, busy, backendVars, podVars>>

\* KServe's agent reports what has changed on the node.
Reported(n) ==
  /\ cache[n] \in {"full", "lost"}
  /\ cache' = [cache EXCEPT ![n] = IF cache[n] = "full" THEN "reported" ELSE "cold"]
  /\ UNCHANGED <<gateVars, eligible, declared, busy, backendVars, podVars>>

\* The scheduler places a pod of the configured backend.
Schedules(n) ==
  /\ target = "new"
  /\ n \in Allowed(eligible) \ busy
  /\ \A m \in Nodes : pods[m] # "none" => Domain[m] # Domain[n]
  /\ Cardinality(Of({"old", "new"})) < Required
  /\ pods' = [pods EXCEPT ![n] = "new"]
  /\ UNCHANGED <<gateVars, nodeVars, backendVars, strays, running>>

\* ... or of the other one, while that has any left to place.
SchedulesOther(n) ==
  /\ other # 0 /\ ~ dying
  /\ n \in eligible \ busy
  /\ \A m \in Nodes : pods[m] # "none" => Domain[m] # Domain[n]
  /\ Cardinality(Of({"other"}) \ strays) < Required
  /\ pods' = [pods EXCEPT ![n] = "other"]
  /\ UNCHANGED <<gateVars, nodeVars, backendVars, strays, running>>

\* maxSurge 0: an old pod goes before its replacement comes.
RollsOut(n) ==
  /\ target = "new" /\ pods[n] = "old"
  /\ pods' = [pods EXCEPT ![n] = "none"]
  /\ UNCHANGED <<gateVars, nodeVars, backendVars, strays, running>>

\* Mutant: whatever is on the node counts.
StartsAny(n) ==
  /\ cache[n] \in {"full", "reported"}
  /\ running' = running \cup {n}
  /\ UNCHANGED <<gateVars, nodeVars, backendVars, pods, strays>>

\* The entrypoint becomes vLLM where the marker is there; elsewhere it raises
\* and is restarted.
Starts(n) ==
  /\ pods[n] = "new"
  /\ n \notin running
  /\ cache[n] \in {"full", "reported"}
  /\ running' = running \cup {n}
  /\ UNCHANGED <<gateVars, nodeVars, backendVars, pods, strays>>

\* Foreground deletion: first its pods, and then the object.
OtherStops ==
  /\ dying
  /\ IF Of({"other"}) \ strays # {}
       THEN /\ \E n \in Of({"other"}) \ strays : pods' = [pods EXCEPT ![n] = "none"]
            /\ UNCHANGED <<other, dying>>
       ELSE other' = 0 /\ dying' = FALSE /\ UNCHANGED pods
  /\ UNCHANGED <<gateVars, nodeVars, target, made, known, deleted, meddled, strays, running>>

\* A pod that has outlived its object is collected.
StrayGoes(n) ==
  /\ n \in strays
  /\ pods' = [pods EXCEPT ![n] = "none"]
  /\ strays' = strays \ {n}
  /\ UNCHANGED <<gateVars, nodeVars, backendVars, running>>

-----------------------------------------------------------------------------
(* The cluster *)

NodeReady(n) ==
  /\ n \notin eligible
  /\ eligible' = eligible \cup {n}
  /\ UNCHANGED <<gateVars, cache, declared, busy, backendVars, podVars>>

\* A node goes: its pod is evicted, and it may come back as a new machine
\* that still has the reported copy to its name.
NodeLost(n, replaced) ==
  /\ n \in eligible
  /\ eligible' = eligible \ {n}
  /\ cache' = [cache EXCEPT ![n] =
       IF replaced THEN (IF cache[n] = "reported" THEN "lost" ELSE "cold") ELSE cache[n]]
  /\ pods' = [pods EXCEPT ![n] = "none"]
  /\ strays' = strays \ {n}
  /\ running' = running \ {n}
  /\ UNCHANGED <<gateVars, declared, busy, backendVars>>

OtherWorkloadComes(n) ==
  /\ n \notin busy /\ pods[n] = "none"
  /\ busy' = busy \cup {n}
  /\ UNCHANGED <<gateVars, eligible, cache, declared, backendVars, podVars>>

OtherWorkloadLeaves(n) ==
  /\ n \in busy
  /\ busy' = busy \ {n}
  /\ UNCHANGED <<gateVars, eligible, cache, declared, backendVars, podVars>>

\* An operator retires the other backend, its pods first or, as is the default
\* of a deletion, the object first; or installs it again.
OperatorRetires ==
  /\ other # 0 /\ ~ dying
  /\ \/ dying' = TRUE /\ UNCHANGED <<other, strays>>
     \/ other' = 0 /\ strays' = Of({"other"}) /\ UNCHANGED dying
  /\ UNCHANGED <<gateVars, nodeVars, target, made, known, deleted, meddled, pods, running>>

OperatorCreates ==
  /\ other = 0 /\ made < MaxUid
  /\ other' = made + 1 /\ made' = made + 1
  /\ meddled' = (meddled \/ wave \in {"serve", "health", "done"})
  /\ UNCHANGED <<gateVars, nodeVars, dying, target, known, deleted, podVars>>

-----------------------------------------------------------------------------
(* The specification *)

Gate ==
  \/ ReadNodes \/ ReadPods \/ Published \/ ReadCache
  \/ ReadBackend \/ DeleteBackend \/ ApplyServing \/ Healthy

Platform(n) ==
  \/ Downloaded(n) \/ Reported(n) \/ Schedules(n) \/ RollsOut(n) \/ Starts(n)

Fault ==
  \/ GivesUp
  \/ \E n \in Nodes :
       \/ NodeLost(n, TRUE) \/ NodeLost(n, FALSE)
       \/ OtherWorkloadComes(n)
  \/ OperatorCreates

Next ==
  \/ Gate
  \/ Sync
  \/ \E n \in Nodes :
       \/ Platform(n) \/ SchedulesOther(n) \/ StrayGoes(n)
       \/ NodeReady(n) \/ OtherWorkloadLeaves(n)
  \/ OtherStops
  \/ OperatorRetires
  \/ Fault

Spec == Init /\ [][Next]_vars

-----------------------------------------------------------------------------
(* Properties *)

\* From the switch on, the other backend's object is gone, and no pod of it
\* holds GPUs but those that outlived an object an operator has deleted: the
\* gate does not pass on a deletion of its own that is only under way.
\* (Unless an operator installs the backend again after the gate.)
OneBackend ==
  wave \in {"serve", "health", "done"} /\ ~ meddled =>
    other = 0 /\ Of({"other"}) \subseteq strays

\* The backend that serves is deleted only if the configuration says so, and
\* only after enough nodes have been found with the new model's copy.
OldServesUntilReady == [][deleted' # deleted => REPLACE_BACKEND /\ Enough(checked)]_vars

\* The gate deletes only objects that it has read: one that an operator put
\* in its place between the two requests stays until it is read itself.
DeletesWhatItRead == deleted \subseteq known

\* With an allowlist, a pod of the new revision is only ever placed on a node
\* that the cache gate has seen with its copy: a member that was not eligible
\* while the gates ran cannot slip in later, cold.
ColdNodeKeptOut == nodeNames # {} => Of({"new"}) \subseteq checked

=============================================================================
