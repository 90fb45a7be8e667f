# Verification of the AI-Q model delivery and its clients

The repository deploys a research application (AI-Q) with a vLLM server for its
model on OpenShift.  Most of it is declarative.  What is program, and what can
go wrong in ways that tests do not reach, is of two kinds.  One is the way a
model takes from Hugging Face to the GPUs: several Jobs that Kubernetes and Argo
CD start, kill, repeat and overlap, and that coordinate through files, objects,
locks, markers and the Kubernetes API.  The other are the programs that use and
measure what was deployed: they start jobs on a server that outlive them, and
keep records that later runs rely on.  This directory holds TLA+ models of those
programs, the TLC runs that check them, and proofs, for instances of every size,
of all their safety properties and refinements.

## The system

```
 Hugging Face --publish Job--> bucket (RustFS) --downloader Jobs--> node caches --> vLLM pods
                                  ^                                      |
              bootstrap Job/CronJob: TLS, trust, users                   |
                                                                         v
 Argo CD sync: preflight(3)  publish(5)  cache CR(10)  gate cache(17)  gate switch(18)  serving(20)  gate health(25)

 finished Jobs --logs--> metrics exporter --scrape--> monitoring
 vLLM / AI-Q <--benchmark, batch of requests-- audit run --> run.json, baselines <-- review
 AI-Q backend <--submit, poll, report, export, cancel-- aiq.py --> reports and artifacts
```

| component | state | operations | interacts with | hard behaviour | what makes it correct |
|---|---|---|---|---|---|
| node cache (`artifact_store.py` download, `distributed.py`, `single_node.py`) | files, temporary files and `.aiq-ready.json` in one directory; flock | download; check of the marker | bucket, serving pods | overlapping Jobs, kills, failing pool threads, damage, full volumes | the marker means verified files; from their check of it on, pods have no others; recovery after any crash |
| publication (`artifact_store.py` publish) | staging on a scratch volume, objects, `_READY.json`; flock | publish | Hugging Face, bucket | kills, lost answers, foreign writers, wrong objects | the manifest means a complete snapshot; success means that the bucket holds what the manifest there lists |
| deployment gates (`gate.py`, `preparation.yaml`) | none of their own: nodes, pods, caches and resources of the cluster | preflight, cache, switch, health | KServe, scheduler, Argo CD, operators | every read is stale; syncs fail and repeat | the old backend goes late, only if it was read, and with its pods as far as the gate deletes it; no cold node |
| storage bootstrap (`bootstrap.py`) | fingerprint annotation, CA ConfigMaps, bucket, users | reconcile_tls, sync_ca, bootstrap | cert-manager, kubelet, storage pods | two processes with mounts of different age; renewals | storage before trust; convergence |
| model metrics (`metrics.py`) | observations of finished Jobs | collect; GET | Jobs, pods | a failing request in the middle of a pass; Jobs and pods that vanish; Jobs that share a key | no observation is lost but to a later one of its key |
| cache admission (`admission.py`) | none | patch of pods and configuration | API server | repeated admission | patches are idempotent |
| cache administration (`model-cache.py`, `verify-serving.py`) | none | status, cleanup | API server | check, then delete | no cache in use is deleted |
| research batch (`aiq-research-check/run.py`) | one record per request | submit, poll, collect | AI-Q frontend | 13 threads, interrupts, timeouts | every known job is accounted for |
| performance audit (`performance_audit.py`, `vllm_performance.py`) | run records | start, finish, review, compare | cluster, benchmark | interrupted runs, late reviews | only reviewed runs are baselines |
| end-to-end client (`aiq.py` and scripts) | a directory of exported reports and artifacts; the IDs the operator was told | submit, follow, resume, report, export, cancel | AI-Q backend | failed checks, interrupts, exports that die half-way | a job is left only for a reason and can be resumed; links of a report resolve |
| secret loading, application and platform charts, installation | declarative | | | | |

`PROJECT.json` lists the files of each, its hazards with their lines, and which
property would catch each of them.

## Modules

| module | what it is |
|---|---|
| `VerifiedCopy` | the abstract promise: files are worked on only while nothing is announced, and announced only when all are verified |
| `NodeCache` | `download()` and the serving entrypoints, refines `VerifiedCopy` |
| `Publication` | `publish()`, refines `VerifiedCopy` |
| `Rollout` | the gates of one sync after the other in a changing cluster |
| `StorageTrust` | bootstrap processes, certificates, trust and users |
| `ResearchBatch` | the threads of a research batch, its main thread and the server's jobs |
| `AuditHistory` | audit runs, the choice of baselines and reviews, in a changing deployment |
| `ModelMetrics` | the passes of the metrics exporter against finished Jobs |
| `JobClient` | invocations of `aiq.py`, jobs on the server and the export directory |
| `*Live` | the first four with fairness, and liveness for behaviours that are undisturbed from some point on |
| `*Proofs` | theorems and their proofs |
| `MC*` | instances for TLC |

In the modules, an action is the code between two points where another process
can see or disturb it: a system call, a request, a thread that starts or ends.
`pc` names the statement that comes next.  A definition whose comment begins
with "Mutant:" is a plausible mistake in the definition below it; no
specification uses it, and it serves to show that the properties notice.

### NodeCache

`pc[j]` follows `download()`: read the manifest, flock, unlink the marker, sweep
temporary files one at a time, scan, disk check, pool, marker, rename.  The pool
is `fetch[j][f]`, a future per file: threads take queued files in manifest
order, `executor.map` raises in that order too, cancels what is queued, and
waits for what runs.  Between any two of these steps a Job may be killed with
all its threads.  The kernel drops its lock, the directory keeps the rest.

A temporary file counts with its manifest size from the moment it is made.
`copyfileobj` (`artifact_store.py:263`) copies a response to its end, so a wrong
object may be longer: `Overruns` adds `Excess[f]` bytes to the file while its
transfer runs, whenever the volume may take them (`Left`), and such a transfer,
or one whose bytes the volume has no room for, cannot end well (`MayBeGood`).

An entrypoint checks the marker (`CheckMarker`) and becomes vLLM in a later step
(`Exec`), after an inspection of the model and up to 300 s of waiting for the
leader in `distributed.py`.  In between, as well as under vLLM, a Job may
withdraw the marker, find damage and repair it.  No lock excludes that, so what
`ServesVerified` claims is about the files and not about the marker.

Abstracted: bytes and digests (a file is absent, bad, good, or a path that
escapes), the manifest's validation (valid or not), the order of the sweep, and
a manifest that changes between two Jobs: all Jobs of a directory read the same.
Two history variables tell damage from the Jobs' own mistakes: `suspect`, files
that something other than a Job damaged since a scan last looked at them, and
`damaged`, those so damaged since a Job last put them in place.

### Publication

`pc[p]` follows `publish` and `_publish`: flock, removal of old staging, read of
`_READY.json` (verify if it is there), inventory, disk check, pool, put with
If-None-Match, comparison with what is there if it was refused.  Each upload
stages a directory, downloads, looks for a good object, uploads, reads back.  A
put whose answer is lost is retried by the client library and comes back as 412.
`hub` is what HF_HOME already holds on the same volume.

All publishers of a prefix write the same manifest, as it follows from the pinned
revision.  Others who hold publisher credentials may write one at any time, also
over a manifest that is there, and remove it (`ForeignManifest`,
`ManifestRemoved`; `tampered` records it).  `ready` tells apart what the code
does: no manifest, one that is false in Python and counts as none, one of
another repository or revision, which is refused, and one of this repository and
revision, which is believed as far as its own list goes, whatever it lists
(`list`; `artifact_store.py:155-160`).  A publisher verifies the list that it
has read (`existing[p]`), whatever has become of the manifest by then.  What is
taken for granted is that nobody but a publisher writes the publishers' very
manifest, which would announce what nobody has uploaded.

### Rollout

`wave` is the sync's progress.  A gate iteration is one action per request: the
preflight and cache gates read nodes (`seen`) and later pods or the cache's
status, the switch gate reads the other backend (`read`) and later deletes it
with that uid.  An iteration that raises changes nothing and begins again.
Around them nodes come, go and are replaced, caches are filled and reported,
the scheduler places pods, other workloads take GPUs, and an operator deletes
or creates the other backend.  KServe, the scheduler and the cluster are
external to the repository and are modelled from what the gates and templates
rely on: required anti-affinity, `maxSurge: 0`, and foreground deletion where
the gate asks for it (`gate.py:207-208`), in which the pods go before the object.

An operator's deletion may be in the foreground or, as is the default, in the
background: then the object goes at once and its pods are `strays`, which go
one by one later.  The gate passes as soon as the object is gone
(`gate.py:199-202`) and does not look at pods, so `OneBackend` promises nothing
of strays; the new pods wait for them in the scheduler.  That a controller
replaces such a pod while it is being collected is left out.

Abstracted: a pod of this workload takes all GPUs of its node, `check_cache`'s
`copies.available` (it counts the same nodes), the configuration checks of
preflight, and the health gate's HTTP.

### StorageTrust

Each process has its own mounted certificate and credentials, which follow the
secrets at any time, between any two reads: `reconcile_tls` reads them for the
fingerprint and again for the health check, `sync_ca` once more, the identities
as they are set up.  A pod of the storage keeps the certificate it started
with.  A fingerprint torn between the reads of `tls.crt` and `ca.crt` is left
out: it matches no certificate and only costs one more rollout.

### ResearchBatch

`pc[r]` follows `collect` in the thread of request `r`, `main` follows
`run_batch` and `main`: start the threads, `as_completed`, the exit of the
executor, results.json, `Audit.finish`.  `record[r]` is the dict that a thread
shares with the main thread and `file[r]` what `write_json` has made of it,
`late` the requests whose deadline has passed, `stop` the Event.  A submission
may reach the server and its answer not the client; every write may fail; an
interrupt reaches the main thread anywhere, also while it waits for threads
after a first one; the process may be killed.  `record` is read by the main
thread only after the threads have ended, which is what `ExecutorDrained` is
for.  Questions, metrics and the wording of errors are left out.

### AuditHistory

A run is `Audit.__init__` (a capture), the measurement, and `Audit.finish`: the
terminal status, a second capture, and run.json from memory.  A capture takes
two steps, pods first and the rest later, each of which may fail or see another
generation `gen` of the deployment than the other.  `Conf` says which
generations look alike: in the instance the third is like the first, so that a
deployment can be changed and changed back.  `baseline` looks at earlier
run.json files, and a review reads one and writes it back in two steps.
`seen[r]`, the generations that served while `r` measured, is a history
variable, and so is `verdict`.

A configuration is what the records of the pods show; that a workflow ConfigMap
is replaced without a restart is left out (see the hazards).

### ModelMetrics

A pass takes one namespace after the other: list its Jobs, list its pods, read
the logs of the pods of each Job that is not `seen`.  Any request may end the
pass with `success` 0; a pod that vanished since it was listed does.  Jobs finish
and are deleted at any time, their pods go with them or before them, and the
exporter restarts with nothing.

A time is kept by stage and node (`Key`, `metrics.py:66-67`), and every
publication has the node "publisher": of two Jobs of one key, the one that is
read later takes the place of the other.  `observed` are the Jobs whose times
are there now, `recorded` those whose times ever were.  So the properties claim
that a Job was recorded and that there is a time under its key from then on,
its own or a later one (`Shown`).  They leave out what the code
does lose: a Job with more than one pod, which counts as seen after the
first log (`metrics.py:68`); a finished Job whose pod was collected before its
log was read, which is passed over in silence; and a publication that found its
snapshot published, whose log has no time in it (`Timed`).

### JobClient

`cmd` is the current command and `pc` where it is; one invocation follows the
other, up to `MaxRuns`.  A request ends in an answer or in one of the ways that
the code tells apart: a `RuntimeError` of its own, `McpAuthRequiredError`, or an
exception it does not foresee.  `MaxErrors` stands for both
`STATUS_CHECK_MAX_ATTEMPTS` and `POLL_MAX_CONSECUTIVE_ERRORS`, which are 3.
`told` is what the operator knows, the only source of the IDs typed later.
`files` is the directory that all exports share; every artifact has the same
server-side name, so that every name must be made unique.  A write may be cut
short, which leaves a `Torn` file.  Clients do not overlap: the skill runs one
at a time.

## Runs

| run | instance | what it shows |
|---|---|---|
| `node_cache` | 3 Jobs (symmetric), 1 server, 3 files, 2 threads, wrong objects 1 or 2 bytes too long, any first directory | `MarkerMeansVerified`, `LockCoversPool`, `NoLiveTempSwept`, `OnlyVerifiedReplaces`, `ReserveKept`, `ServesVerified`, refinement of `VerifiedCopy` |
| `node_cache_live` | 2 Jobs, 1 server, 2 files, smallest sufficient volume | `Recovers` |
| `publication` | 2 publishers, 3 files, 2 at once, HF_HOME empty or not, a foreign manifest that lacks one file and has another one wrong | `ReadyMeansComplete`, `SuccessMeansReady`, `NoLiveStagingRemoved`, `ReserveKept`, refinement of `VerifiedCopy`, `Completes` |
| `rollout` | 2 nodes in an allowlist, 1 replica, 2 objects of the other backend | `OneBackend`, `DeletesWhatItRead`, `ColdNodeKeptOut`, `OldServesUntilReady`, `Completes` |
| `storage_trust` | Job and CronJob, 2 replicas, 2 namespaces, 2 users, 2 certificates, 2 generations of credentials | `ServedBeforeTrusted`, `Converges` |
| `storage_trust_order` | 1 process, 2 certificates | refutes `TrustIsVerified` |
| `research_batch` | 2 requests | `RunningJobsAreAccountedFor`, `ReviewedIsComplete`, `PolledJobsAreSaved`, `Terminates` |
| `audit_history` | 2 runs of either kind, 2 workloads, 3 generations, 1 review of each run | `ComparesLikeWithLike`, `PassedIsEarned` |
| `audit_review` | 1 run, 1 review | refutes `ReviewStays` |
| `model_metrics` | 2 publications of one key, and a cache Job in another namespace that was tried twice | `SuccessMissesNothing`, `Observed` |
| `job_client` | 2 jobs of 2 artifacts, 5 invocations | `FollowsToTheEnd`, `BundleResolves` |
| `job_client_auth` | 1 invocation | refutes `AuthIsExplained` |

Every passing run but `node_cache_live`, a second instance of the same module,
also checks its module's `TypeOK`.

**Bounds.**  Three Jobs allow one to hold the lock, one to have died and left
files, and one to wait; three files with two threads allow one to fail, one to
run and one to be queued.  Two publishers suffice as everything they share is
under one lock; the objects of one file (`Perishable`) may decay, and one list
(`Lists`) stands for the foreign manifests that the code believes.  Wrong objects
are longer than their entries by as much as the reserve and by more.  In `rollout` two nodes allow one to be ready and one not while
a gate looks, and two uids allow an object to be replaced between read and
DELETE.  The proofs below do away with these bounds for all properties but the
liveness ones.  `MaxUid`, `MaxCert` and `MaxCred` bound what the environment may create.
Threads of a batch only meet in the main thread, which needs one that fails and
one that still runs.  A baseline needs two runs; with three generations the
deployment can be changed and changed back between their captures.  Three Jobs
in two namespaces let a pass fail with one behind it and one ahead, and two of
one key overwrite each other.  Of five
invocations two make the jobs and three export into the directory: one that
succeeds, one that dies half-way, and one that picks up after both.  `MaxRuns`,
`NumJobs`, `MaxGen` and `MaxReviews` bound what operators and platform may do.

**Fairness.**  Weak fairness of processes that are scheduled, of the retries
that the code or its controllers make (the 15 s loops of `gate.py` and
`bootstrap.py`, KServe's and the Job controllers' retries, the CronJob, the
next sync), of the scheduler, of the garbage
collection of pods and of nodes that recover.  Faults have no
fairness and may happen as often as they like.  The liveness properties of the
first four modules and `Observed` have the form `<>[][Undisturbed]_vars => ...`:
they claim something of the behaviours whose faults end at some time, nobody
knows when, and nothing of the others.  In `ModelMetrics` the collector's thread
is scheduled.  In `ResearchBatch` the threads are scheduled, a clock reaches
every deadline (`Expires`), and every call ends (`HTTP_TIMEOUT`), but the server
owes the client nothing: `Terminates` holds although no job need ever end and
faults go on.  `AuditHistory` and `JobClient` have no liveness; an operator
decides when they run.

**Findings.**

- `storage_trust_order`: `bootstrap.py:51` says that the endpoint is verified
  before new trust is distributed, but `sync_ca` reads the CA again after that
  verification (line 59).  If the secret is refreshed in between with a new
  root, clients get a CA with which nothing was verified, while the storage
  still serves the former certificate.  `Converges` shows that a later pass
  repairs it.
- `audit_review`: `performance_audit.py:420` calls a review the end of an audit,
  but results.json, which lets one begin, is there before `finish` begins.  A
  review that finalizes run.json by then is overwritten, without an error, by
  `finish`'s first write of the record it has in memory (line 376), as the trace
  shows; one that comes later, during the second capture, by the next (line
  385).
- `job_client_auth`: `aiq.py` promises (lines 98-100, 190-191) to explain which
  sources want an authentication, and has a handler for it that exits with 2.
  `main` catches the exception first (line 777), as it is a `RuntimeError`: one
  line is printed and the status is 1.

## Proofs

Every invariant, action property and refinement that a passing run checks is
also a theorem: for every number of processes, files, servers, replicas,
renewals, nodes, requests, audit runs and invocations, from the named
assumptions of the modules only.  The theorems hold of the specification without
fairness and so of the one with it.  Each component has a `*Proofs` module:

| module | theorem (property) |
|---|---|
| `NodeCacheProofs` | `TypeCorrect` (`TypeOK`), `MarkerIsSound` (`MarkerMeansVerified`), `LockIsHeld` (`LockCoversPool`), `ServingIsVerified` (`ServesVerified`), `ReplacedIsVerified` (`OnlyVerifiedReplaces`), `SweepIsSafe` (`NoLiveTempSwept`), `ReserveIsKept` (`ReserveKept`), `Implements` (`IsVerifiedCopy`) |
| `PublicationProofs` | `TypeCorrect`, `ReadyIsSound` (`ReadyMeansComplete`), `SuccessIsSound` (`SuccessMeansReady`), `NoUploadWhenReady` (`NoUploadUnderReady`), `CleanIsSafe` (`NoLiveStagingRemoved`), `ReserveIsKept` (`ReserveKept`), `Implements` (`IsVerifiedCopy`) |
| `StorageTrustProofs` | `TypeCorrect`, `TrustFollowsStorage` (`ServedBeforeTrusted`) |
| `RolloutProofs` | `TypeCorrect`, `SwitchIsComplete` (`OneBackend`), `DeletionIsPrecise` (`DeletesWhatItRead`), `PlacementIsWarm` (`ColdNodeKeptOut`), `SwitchIsLate` (`OldServesUntilReady`) |
| `ResearchBatchProofs` | `TypeCorrect`, `RunningIsAccountedFor` (`RunningJobsAreAccountedFor`), `ReviewIsOfCompleteBatch` (`ReviewedIsComplete`), `PolledIsSaved` (`PolledJobsAreSaved`) |
| `AuditHistoryProofs` | `TypeCorrect`, `ComparedIsAlike` (`ComparesLikeWithLike`), `PassingIsEarned` (`PassedIsEarned`) |
| `ModelMetricsProofs` | `TypeCorrect`, `NothingIsMissed` (`SuccessMissesNothing`) |
| `JobClientProofs` | `TypeCorrect`, `Followed` (`FollowsToTheEnd`), `ExportResolves` (`BundleResolves`) |

*NodeCache.*  `MarkerMeansVerified` says nothing of a Job half way, so it is not
inductive.  `IInv` adds: a Job between flock and release is the holder
(`LockInv`); futures exist only after the scan, and threads only inside the pool
(`FutureInv`); no marker is there while a Job works (`NoMarkerInv`); and what a
Job need not fetch or has fetched is good or was damaged since (`ScanInv`).  One
lemma per action, one step per conjunct that the action can disturb.  From it
follow `MarkerIsSound`, `LockIsHeld`, the action properties `ReplacedIsVerified`
and `SweepIsSafe`, and `Implements`: every step of `NodeCache` is a step or a
stutter of `VerifiedCopy`.  `ServesVerified` is an invariant of what comes after
the check, whatever the marker has become, and is proved on top of `IInv`
together with `DamageInv`: what is suspect is good or damaged.  At the check the
marker vouches for the files; later only damage takes a file from the server.

*Publication.*  The same shape: lock, futures, "not announced while working"
(`NotReadyInv`) and "a finished upload is good or decayed" (`UploadedInv`) carry
`ReadyIsSound`, `NoUploadWhenReady`, `CleanIsSafe` and `Implements`.
`SuccessIsSound` is about a manifest that others may have written, so two more
conjuncts say what holds until somebody tampers with one: a Job that verifies has
the list of the manifest that is there (`ExistingInv`), and no Job works on
objects once another one has succeeded (`WorkInv`).  `NoUploadUnderReady` has no
run of its own: TLC checks it as a part of the refinement.

*The reserve.*  `ReserveKept` says that no step takes a volume below
`DISK_RESERVE_BYTES`, although the free space is looked at once, before the
pool; for the cache, but for the bytes that wrong objects have beyond the
manifest while they are copied.  Both proofs add an invariant on top of `IInv`.
For the cache (`RoomInv`) it is that the disk check goes on to hold of what is
still queued, such bytes apart: a transfer that starts takes its file's size
from both sides, its end never takes more, and nobody else takes any, as the
lock is held.  That over-long files of dead Jobs never count needs another
conjunct: from the end of the sweep on, every temporary file is that of a
running transfer.  For the publication (`StagingInv`)
it is that the staging directories are those of the threads, of which there are
at most `CONCURRENCY`, so that the largest files, for which the check asked, are
the worst that can be staged together (`LargestIs`).  Sums over sets of files are
a choice among functions with a recursive equation in the community modules;
that they exist, agree and add up element by element (`SumRecurs`, `SumAdds`,
`SumMonotone`) is proved first, by induction over a set of numbers (`SetOfAll`),
which follows from the well-foundedness of the naturals.  The lemmas on sums
stand in both proof modules, which cannot be extended together.

*StorageTrust.*  `ServedBeforeTrusted` needs `Fresh`, that a pod serves at least
the certificate of its template, and two lemmas: certificates of pods only grow
(`CertsGrow`), and a process comes past the rollout check only through it, with
the fingerprint it had (`OneEntry`).

*Rollout.*  The four properties speak of different waves, so `IInv` says what
each wave may rely on: a backend that is gone has no pods but strays (`NoOrphan`); what the
switch gate has read is known and may be replaced (`ReadInv`); the nodes that a
gate has read are enough, and all of the allowlist (`SeenInv`); and from the
switch on so are the nodes found with a copy (`CheckedInv`).  The last needs
that more nodes are never in fewer topology domains (`EnoughGrows`, by the
cardinality theorems; the nodes may be infinite, their domains not).  Steps of
gates and steps of the cluster around them are separate lemmas, because the
latter leave alone what a gate knows (`GatesStay`).

*ResearchBatch.*  The properties speak of results.json and of the review, which
come long after the threads, so `ThreadInv` says what the place of a thread
means for its record, its file and its job, and what each final status has
behind it; `MainInv` what the main thread has collected where it is (status 0
past the executor means that all are done and nothing was interrupted); and
`ResultsInv` that results.json is written only once no thread works, and so is
never overtaken by a record.  A thread concerns its own request only
(`OwnRequestOnly`) and, while it works, keeps the main thread before the results
(`WorkingMeansNoResults`), which is why the two kinds of steps have separate
lemmas.

*AuditHistory.*  `ComparesLikeWithLike` follows from `WindowOK`: generations only
grow, the first capture names one that is no later than the measurement and the
second one that is no earlier, so that two captures of the same pods leave room
for a single generation in between.  `KeyOK` carries that to what is in run.json
and to what a review has read of it, `BaselineOK` to the pair of a comparison; a
run that has ended is measured once and for all (`MeasuredStays`).  That the
latest of the earlier runs exists at all is `LatestExists`, by well-foundedness.
`PassedIsEarned` needs `PlaceOK` and `StatusOK`: how far the measurement is, and
that the review begins only after results.json.

*ModelMetrics.*  What a pass owes is to be found somewhere: `PassOK` says that a
Job which had finished before the pass is recorded, or still ahead (`Ahead`): in
a namespace to come, on the list, or its pod is one whose log is to be read.
`SeenOK` says that what is never looked at again has been recorded, `KeyOK` that
what was recorded has left a time under its key, and `PodsOK` that the listing
of pods, which is taken after that of the Jobs, covers them.

*JobClient.*  The invariant has two parts that share no variable but the place
and the job.  `ClientInv`: an ID that is used is one that was told (`PlaceOK`),
and `streak`, which counts failed checks in the property, is what the code has in
`errors`.  `BundleInv`: `RoomOK` says that the names in use are the first k, with
room left for one export per invocation, so that the loop of `_unique_filename`
finds a free name and no file is ever overwritten; with `LinksOK`, that what was
saved so far is of this job, links of the last report go on to resolve.

**Model-checked only.**  The liveness properties `Recovers`, `Completes` (of the
publication and of the rollout), `Converges`, `Terminates` and `Observed`: they
rest on fairness, and so on ENABLED, which the prover does not reason about.

## Not modelled

The application and platform charts and the installation are declarative, and
the secret filter is one reordering of fields.  Commands that only read and
print (`status`, `state`, `stream`, `sources` of `aiq.py`, `model-cache.py
status`, `verify-serving.py`) have no state to get wrong; the shell scripts
around `aiq.py` run it once and remove what they made.

Of modelled components these parts are left out: preflight's checks of
configuration and the arithmetic of `pod_gpu_request` in `gate.py`; the
validation of a benchmark's numbers and the percentages of a summary; the
ConfigMap of a workflow that is replaced under running pods.  `cleanup` of
`model-cache.py` checks and then deletes, and nothing in the code or the cluster
closes the gap, so there is no property to claim.  Durability below system
calls (the rename of the marker before the renames of files), other caches on
the same volume, and two gates of one kind alive at once are named under the
hazards.

## Plan

1. `Delivery`: composition of `Publication`, `NodeCache` and the cache gate
   through the interface of `VerifiedCopy`: a sync that comes to the serving wave
   has every selected node on a complete copy of a published snapshot.
2. `GateAlgorithms`: GPU requests against the phases of a pod's life, list
   continuation, idempotence of the admission patches.
