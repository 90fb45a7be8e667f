---------------------------- MODULE ModelMetrics ----------------------------
(***************************************************************************)
(* The metrics exporter (metrics.py): collect lists the finished Jobs of   *)
(* the model namespace by namespace, reads the logs of their pods once and *)
(* keeps how long the download took; every pass ends in a new snapshot     *)
(* which is what a scrape gets.  A time is kept under the stage and the    *)
(* node of the Job, not under the Job: of two Jobs of one key, the one     *)
(* that is read later takes the place of the other.                        *)
(*                                                                         *)
(* Jobs finish, and they and their pods are deleted, while a pass runs,    *)
(* and any request may fail, which ends the pass.                          *)
(***************************************************************************)
EXTENDS Integers

CONSTANTS Jobs,      \* Jobs of this model: publications and cache copies
          Namespace, \* Namespace[j]: where Job j runs
          Key,       \* Key[j]: the stage and the node that Job j is for
          Attempts,  \* Attempts[j]: pods of Job j, the last of which succeeds
          Timed      \* Jobs that log a download: a publication may find one there

ASSUME ModelMetricsAssumption ==
  /\ \A j \in Jobs : Attempts[j] \in Nat \ {0}
  /\ Timed \subseteq Jobs

Namespaces == {Namespace[j] : j \in Jobs}
Pods == UNION {{j} \X (1..Attempts[j]) : j \in Jobs}

VARIABLES state,    \* state[j]: "active", "succeeded" or "deleted"
          gone,     \* pods that have been collected, with their Job or before it
          pc,       \* where collect is
          todo,     \* namespaces that are left in this pass
          jobs,     \* Jobs of the listing that are left to look at
          pods,     \* pods of the listing
          left,     \* pods of the current Job whose logs are left to read
          seen,     \* Jobs that are never looked at again
          observed, \* Jobs whose download times are the observations
          snapshot, \* whether what a scrape gets claims success
          recorded, \* history: Jobs whose time has been among the observations
          finished  \* history: Jobs that had succeeded when the pass began

cluster == <<state, gone>>
pass == <<todo, jobs, pods, left>>
vars == <<cluster, pc, pass, seen, observed, snapshot, recorded, finished>>

TypeOK ==
  /\ state \in [Jobs -> {"active", "succeeded", "deleted"}]
  /\ gone \subseteq Pods
  /\ pc \in {"begin", "list", "pods", "logs"}
  /\ todo \subseteq Namespaces /\ jobs \subseteq Jobs
  /\ pods \subseteq Pods /\ left \subseteq pods
  /\ \A p, q \in left : p[1] = q[1]
  /\ seen \subseteq Jobs /\ recorded \subseteq seen /\ observed \subseteq recorded
  /\ \A i, j \in observed : Key[i] = Key[j] => i = j
  /\ snapshot \in BOOLEAN
  /\ finished \subseteq Jobs

Init ==
  /\ state = [j \in Jobs |-> "active"]
  /\ gone = {}
  /\ pc = "begin"
  /\ todo = {} /\ jobs = {} /\ pods = {} /\ left = {}
  /\ seen = {} /\ observed = {} /\ recorded = {}
  /\ snapshot = FALSE
  /\ finished = {}

-----------------------------------------------------------------------------
(* collect *)

Succeeded == {j \in Jobs : state[j] = "succeeded"}

\* The end of a pass, and 30 seconds of sleep.  Either snapshot has the times
\* that are observed by now.
Publishes(success) ==
  /\ pc' = "begin"
  /\ todo' = {} /\ jobs' = {} /\ pods' = {} /\ left' = {}
  /\ snapshot' = success
  /\ finished' = {}

\* The copies of the cache are read first.
Begins ==
  /\ pc = "begin" /\ pc' = "list"
  /\ todo' = Namespaces
  /\ finished' = Succeeded
  /\ UNCHANGED <<cluster, jobs, pods, left, seen, observed, snapshot, recorded>>

\* Mutant: a Job counts as seen when it is listed.
ListJobsSeen ==
  /\ pc = "list" /\ pc' = "pods"
  /\ \E ns \in todo :
       /\ todo' = todo \ {ns}
       /\ jobs' = {j \in Succeeded \ seen : Namespace[j] = ns}
  /\ seen' = seen \cup jobs'
  /\ UNCHANGED <<cluster, pods, left, observed, snapshot, recorded, finished>>
\* The Jobs of one more namespace, without those that are passed over.
ListJobs ==
  /\ pc = "list" /\ pc' = "pods"
  /\ \E ns \in todo :
       /\ todo' = todo \ {ns}
       /\ jobs' = {j \in Succeeded \ seen : Namespace[j] = ns}
  /\ UNCHANGED <<cluster, pods, left, seen, observed, snapshot, recorded, finished>>

\* The pods are listed after the Jobs, and without those that are gone: a
\* finished Job that has none left is passed over.
ListPods ==
  /\ pc = "pods" /\ pc' = "logs"
  /\ pods' = {p \in Pods : p[1] \in jobs /\ p \notin gone}
  /\ UNCHANGED <<cluster, todo, jobs, left, seen, observed, snapshot, recorded, finished>>

\* Mutant: every pod of the namespace is taken for one of the Job's.
OwnedByAny(j) == pods
OwnedBy(j) == {p \in pods : p[1] = j}

NextJob(j) ==
  /\ pc = "logs" /\ left = {} /\ j \in jobs
  /\ jobs' = jobs \ {j}
  /\ left' = OwnedBy(j)
  /\ UNCHANGED <<cluster, pc, todo, pods, seen, observed, snapshot, recorded, finished>>

\* One pod of the Job is enough for the Job to be seen; only the log of the
\* last one may have the record of a download.
HasRecord(p) == p[1] \in Timed /\ p[2] = Attempts[p[1]]

\* The time of the key is replaced.
ReadLog(p) ==
  /\ pc = "logs" /\ p \in left /\ p \notin gone
  /\ left' = left \ {p}
  /\ seen' = seen \cup {p[1]}
  /\ IF HasRecord(p)
       THEN /\ observed' = {j \in observed : Key[j] # Key[p[1]]} \cup {p[1]}
            /\ recorded' = recorded \cup {p[1]}
       ELSE UNCHANGED <<observed, recorded>>
  /\ UNCHANGED <<cluster, pc, todo, jobs, pods, snapshot, finished>>

\* The pod is gone since it was listed, and so is this pass.
LogGone(p) ==
  /\ pc = "logs" /\ p \in left /\ p \in gone
  /\ Publishes(FALSE)
  /\ UNCHANGED <<cluster, seen, observed, recorded>>

NamespaceEnds ==
  /\ pc = "logs" /\ left = {} /\ jobs = {} /\ todo # {}
  /\ pc' = "list"
  /\ UNCHANGED <<cluster, pass, seen, observed, snapshot, recorded, finished>>

PassEnds ==
  /\ pc = "logs" /\ left = {} /\ jobs = {} /\ todo = {}
  /\ Publishes(TRUE)
  /\ UNCHANGED <<cluster, seen, observed, recorded>>

\* Mutant: an exception ends the thread.
FailsForGood ==
  /\ pc' = "ended"
  /\ UNCHANGED <<cluster, pass, seen, observed, snapshot, recorded, finished>>
\* Any request fails.
Fails ==
  /\ Publishes(FALSE)
  /\ UNCHANGED <<cluster, seen, observed, recorded>>

-----------------------------------------------------------------------------
(* The exporter's pod, the cluster, and the specification *)

Restarts ==
  /\ pc' = "begin"
  /\ todo' = {} /\ jobs' = {} /\ pods' = {} /\ left' = {}
  /\ seen' = {} /\ observed' = {} /\ recorded' = {}
  /\ snapshot' = FALSE
  /\ finished' = {}
  /\ UNCHANGED cluster

JobChanges(j) ==
  /\ \E from, to \in {"active", "succeeded", "deleted"} :
       /\ <<from, to>> \in {<<"active", "succeeded">>, <<"active", "deleted">>, <<"succeeded", "deleted">>}
       /\ state[j] = from /\ state' = [state EXCEPT ![j] = to]
  /\ UNCHANGED <<gone, pc, pass, seen, observed, snapshot, recorded, finished>>

\* A finished Job's pod is collected with the Job, or before it: by a node that
\* goes, an eviction of what has terminated or an operator.
PodGone(p) ==
  /\ p \notin gone /\ state[p[1]] # "active"
  /\ gone' = gone \cup {p}
  /\ UNCHANGED <<state, pc, pass, seen, observed, snapshot, recorded, finished>>

Collects ==
  \/ Begins \/ ListJobs \/ ListPods
  \/ \E j \in Jobs : NextJob(j)
  \/ \E p \in Pods : ReadLog(p) \/ LogGone(p)
  \/ NamespaceEnds \/ PassEnds

Next ==
  \/ Collects
  \/ \E j \in Jobs : JobChanges(j)
  \/ \E p \in Pods : PodGone(p)
  \/ Fails
  \/ Restarts

Spec == Init /\ [][Next]_vars

\* The thread runs.
LiveSpec == Spec /\ WF_vars(Collects)

-----------------------------------------------------------------------------
(* Properties *)

\* Jobs whose time is in their only pod's log, and that pod.  A Job that was
\* tried again is left out: after one of its pods' logs it counts as seen
\* (metrics.py:68), so that the time is lost for good if the log of the other
\* cannot be read then.
Sure == {j \in Timed : Attempts[j] = 1}
OnlyPod(j) == <<j, 1>>

\* There is a time under the Job's key, its own or that of a Job read later.
Shown(j) == j \in recorded /\ \E i \in observed : Key[i] = Key[j]

\* A snapshot that claims success misses nothing: it has the download of every
\* Job that had finished before its pass began and is still there with its pod,
\* whatever earlier passes failed half-way, unless the time of a later Job of
\* the same key has taken its place.
SuccessMissesNothing ==
  [][PassEnds =>
       \A j \in finished \cap Sure :
         state[j] = "succeeded" /\ OnlyPod(j) \notin gone => Shown(j)]_vars

\* No failed request, no vanished pod of another Job and no restart of the
\* exporter keeps it from observing the download of such a Job, once requests
\* are answered; and from then on there always is a time under its key.
Undisturbed ==
  \/ Collects
  \/ \E j \in Jobs : JobChanges(j)
  \/ \E p \in Pods : PodGone(p)
Observed ==
  <>[][Undisturbed]_vars =>
    \A j \in Sure :
      state[j] = "succeeded" ~>
        (state[j] = "deleted" \/ OnlyPod(j) \in gone \/ <>[]Shown(j))

=============================================================================
