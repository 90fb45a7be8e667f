---------------------------- MODULE AuditHistory ----------------------------
(***************************************************************************)
(* The history of performance runs (performance_audit.py) and its writers: *)
(* Audit around a benchmark of vLLM (vllm_performance.py) or a batch of    *)
(* research requests, and review.                                          *)
(*                                                                         *)
(* A run captures the deployment before and after it measures.  A capture  *)
(* is no snapshot: the pods are listed first, the Argo applications, nodes *)
(* and runtimes are read afterwards, each may fail, and the deployment may *)
(* change in between.  A run may die anywhere.  A review reads run.json    *)
(* and writes it back, whatever the run itself is doing.                   *)
(*                                                                         *)
(* A configuration here is what the records of the pods show: a workflow   *)
(* ConfigMap that is replaced without restarting the pods is left out.     *)
(***************************************************************************)
EXTENDS Integers, FiniteSetsExt

CONSTANTS NumRuns,   \* runs, in the order of started_at
          NumLoads,  \* number of --concurrency values of a benchmark
          MaxGen,    \* bound: generations of the deployment
          Conf,      \* Conf[g]: hardware and configuration of the pods of g
          MaxReviews \* bound: reviews of a run

ASSUME AuditHistoryAssumption ==
  /\ NumRuns \in Nat \ {0} /\ NumLoads \in Nat \ {0}
  /\ MaxGen \in Nat \ {0} /\ MaxReviews \in Nat
  /\ \A g \in 1..MaxGen : Conf[g] \in Nat \ {0}

Runs == 1..NumRuns

VARIABLES gen,      \* generation of the deployment: a pod's UID never recurs
          kind,     \* kind[r]: "vllm" or "research"
          pc,       \* where each run is
          before,   \* before[r]: the first capture
          pods,     \* pods[r]: the pods of the second capture
          loads,    \* loads[r]: workloads of the benchmark that succeeded
          complete, \* complete[r]: every request of the batch was answered
          results,  \* runs whose results.json exists
          status,   \* status[r]: the status in the run's memory
          file,     \* file[r]: run.json
          reviewer, \* reviewer[r]: the run.json that a review has read
          reviews,  \* reviews[r]: number of reviews
          verdict,  \* history: the last verdict that a review wrote
          seen      \* history: generations that served while r measured

memory == <<before, pods, status>>
outcome == <<loads, complete, results>>
reviewVars == <<reviewer, reviews, verdict>>
vars == <<gen, kind, pc, memory, outcome, file, reviewVars, seen>>

\* The generation of the pods that were listed, and of the rest (applications,
\* nodes, runtimes) when all of it is read and sound; 0 otherwise.
Capture == [pods : 0..MaxGen, rest : 0..MaxGen]
Unread == [pods |-> 0, rest |-> 0]

Status == {"running", "passed", "failed", "interrupted", "awaiting_review"}
File == [status : Status, key : Nat, baseline : 0..NumRuns]
NoFile == [status |-> "none", key |-> 0, baseline |-> 0]
NoReview == NoFile

TypeOK ==
  /\ gen \in 1..MaxGen
  /\ kind \in [Runs -> {"vllm", "research"}]
  /\ pc \in [Runs -> {"none", "before", "probes", "load", "batch", "finish", "after", "save", "ended", "dead"}]
  /\ before \in [Runs -> Capture] /\ pods \in [Runs -> 0..MaxGen]
  /\ loads \in [Runs -> 0..NumLoads]
  /\ complete \in [Runs -> BOOLEAN]
  /\ results \subseteq {r \in Runs : kind[r] = "research"}
  /\ status \in [Runs -> Status]
  /\ file \in [Runs -> File \cup {NoFile}]
  /\ reviewer \in [Runs -> File \cup {NoReview}]
  /\ reviews \in [Runs -> 0..MaxReviews]
  /\ verdict \in [Runs -> {"none", "make sense", "not"}]
  /\ seen \in [Runs -> SUBSET (1..MaxGen)]

Init ==
  /\ gen = 1
  /\ kind \in [Runs -> {"vllm", "research"}]
  /\ pc = [r \in Runs |-> "none"]
  /\ before = [r \in Runs |-> Unread] /\ pods = [r \in Runs |-> 0]
  /\ loads = [r \in Runs |-> 0]
  /\ complete = [r \in Runs |-> FALSE]
  /\ results = {}
  /\ status = [r \in Runs |-> "running"]
  /\ file = [r \in Runs |-> NoFile]
  /\ reviewer = [r \in Runs |-> NoReview]
  /\ reviews = [r \in Runs |-> 0]
  /\ verdict = [r \in Runs |-> "none"]
  /\ seen = [r \in Runs |-> {}]

-----------------------------------------------------------------------------
(* A run: Audit.__init__, the measurement, Audit.finish *)

Goes(r, from, to) == pc[r] = from /\ pc' = [pc EXCEPT ![r] = to]

\* A read of the deployment: what is there, or an error that is recorded.
Read == {0, gen}

\* The process of r ends, and with it what it had in memory.
Ends(r, place) ==
  /\ pc' = [pc EXCEPT ![r] = place]
  /\ before' = [before EXCEPT ![r] = Unread]
  /\ pods' = [pods EXCEPT ![r] = 0]
  /\ status' = [status EXCEPT ![r] = "running"]

\* One run at a time: the two skills forbid concurrent runs.
Begins(r) ==
  /\ \A q \in 1..(r - 1) : pc[q] \in {"ended", "dead"}
  /\ Goes(r, "none", "before")
  /\ \E p \in Read : before' = [before EXCEPT ![r].pods = p]
  /\ UNCHANGED <<gen, kind, pods, status, outcome, file, reviewVars, seen>>

\* The rest of the capture; run.json appears, and the measurement begins.
CapturesBefore(r) ==
  /\ Goes(r, "before", IF kind[r] = "vllm" THEN "probes" ELSE "batch")
  /\ \E e \in Read : before' = [before EXCEPT ![r].rest = e]
  /\ file' = [file EXCEPT ![r].status = "running"]
  /\ seen' = [seen EXCEPT ![r] = {gen}]
  /\ UNCHANGED <<gen, kind, pods, status, outcome, reviewVars>>

Measured(r, s) ==
  /\ pc' = [pc EXCEPT ![r] = "finish"]
  /\ status' = [status EXCEPT ![r] = s]

\* choose_leader, the CLI's flags, the model, the two probes.
Probes(r) ==
  /\ pc[r] = "probes"
  /\ \/ before[r].pods # 0 /\ Goes(r, "probes", "load") /\ UNCHANGED status
     \/ Measured(r, "failed")
  /\ UNCHANGED <<gen, kind, before, pods, outcome, file, reviewVars, seen>>

\* Mutant: off by one at the last workload.
LoadOffByOne(r) ==
  /\ pc[r] = "load"
  /\ \/ /\ loads' = [loads EXCEPT ![r] = @ + 1]
        /\ IF loads'[r] > NumLoads THEN Measured(r, "passed") ELSE UNCHANGED <<pc, status>>
     \/ Measured(r, "failed") /\ UNCHANGED loads
  /\ UNCHANGED <<gen, kind, before, pods, complete, results, file, reviewVars, seen>>
\* One workload; the last of them makes the run pass, and any that fails, or
\* is incomplete, ends it.
Load(r) ==
  /\ pc[r] = "load"
  /\ \/ /\ loads' = [loads EXCEPT ![r] = @ + 1]
        /\ IF loads'[r] = NumLoads THEN Measured(r, "passed") ELSE UNCHANGED <<pc, status>>
     \/ Measured(r, "failed") /\ UNCHANGED loads
  /\ UNCHANGED <<gen, kind, before, pods, complete, results, file, reviewVars, seen>>

\* run_batch: results.json is there unless it raised.  All answers together
\* may even come in while it is interrupted.
Batch(r) ==
  /\ pc[r] = "batch"
  /\ \E all \in BOOLEAN :
       /\ complete' = [complete EXCEPT ![r] = all]
       /\ \/ /\ results' = results \cup {r}
             /\ \E s \in {"interrupted", IF all THEN "awaiting_review" ELSE "failed"} : Measured(r, s)
          \/ UNCHANGED results /\ \E s \in {"failed", "interrupted"} : Measured(r, s)
  /\ UNCHANGED <<gen, kind, before, pods, loads, file, reviewVars, seen>>

Interrupted(r) ==
  /\ pc[r] \in {"probes", "load"}
  /\ Measured(r, "interrupted")
  /\ UNCHANGED <<gen, kind, before, pods, outcome, file, reviewVars, seen>>

\* finish persists the terminal status before it captures again ...
WritesStatus(r) ==
  /\ Goes(r, "finish", "after")
  /\ file' = [file EXCEPT ![r].status = status[r]]
  /\ UNCHANGED <<gen, kind, memory, outcome, reviewVars, seen>>

\* ... which again takes two steps ...
CapturesPods(r) ==
  /\ Goes(r, "after", "save")
  /\ \E p \in Read : pods' = [pods EXCEPT ![r] = p]
  /\ UNCHANGED <<gen, kind, before, status, outcome, file, reviewVars, seen>>

\* Mutant: the identity leaves out which pods they were.
stable_config(r, rest) ==
  /\ 0 \notin {before[r].pods, before[r].rest, pods[r], rest}
  /\ Conf[before[r].pods] = Conf[pods[r]] /\ Conf[before[r].rest] = Conf[rest]
\* Both captures are complete and identical, pods and restarts included.
stable(r, rest) ==
  /\ 0 \notin {before[r].pods, before[r].rest, pods[r], rest}
  /\ before[r] = [pods |-> pods[r], rest |-> rest]

\* 0 if there is a problem with the evidence.
comparison_key(r, rest) == IF stable(r, rest) THEN Conf[before[r].pods] ELSE 0

\* The latest earlier run of the same key that has passed.
baseline(r, key) ==
  LET candidates == {b \in 1..(r - 1) : /\ kind[b] = kind[r] /\ file[b].status = "passed"
                                        /\ file[b].key = key /\ key # 0}
  IN  IF candidates = {} THEN 0 ELSE Max(candidates)

\* ... and then saves everything that it has in memory.
Saves(r) ==
  /\ pc[r] = "save"
  /\ \E rest \in Read : LET key == comparison_key(r, rest) IN
       file' = [file EXCEPT ![r] = [status |-> status[r], key |-> key, baseline |-> baseline(r, key)]]
  /\ Ends(r, "ended")
  /\ UNCHANGED <<gen, kind, outcome, reviewVars, seen>>

\* Killed, or interrupted outside the measurement.
Dies(r) ==
  /\ pc[r] \notin {"none", "ended", "dead"}
  /\ Ends(r, "dead")
  /\ UNCHANGED <<gen, kind, outcome, file, reviewVars, seen>>

-----------------------------------------------------------------------------
(* review, of any run that has left results.json *)

ReviewReads(r) ==
  /\ reviewer[r] = NoReview /\ file[r] # NoFile /\ r \in results
  /\ reviews[r] < MaxReviews
  /\ reviewer' = [reviewer EXCEPT ![r] = file[r]]
  /\ reviews' = [reviews EXCEPT ![r] = @ + 1]
  /\ UNCHANGED <<gen, kind, pc, memory, outcome, file, verdict, seen>>

\* Mutant: execution failures are only counted.
ReviewedVerdictsOnly(r, v) == IF v = "make sense" THEN "passed" ELSE "failed"
\* What the verdicts v, all "make sense" or not, make of the run.
Reviewed(r, v) == IF v = "make sense" /\ complete[r] THEN "passed" ELSE "failed"

\* The evidence, and with it the key, is that of the file that was read.
ReviewWrites(r) ==
  /\ reviewer[r] # NoReview
  /\ \E v \in {"make sense", "not"} :
       LET read == reviewer[r]
           s == IF read.status = "interrupted" THEN read.status ELSE Reviewed(r, v)
       IN  /\ file' = [file EXCEPT ![r] = [status |-> s, key |-> read.key, baseline |-> baseline(r, read.key)]]
           /\ verdict' = [verdict EXCEPT ![r] = v]
  /\ reviewer' = [reviewer EXCEPT ![r] = NoReview]
  /\ UNCHANGED <<gen, kind, pc, memory, outcome, reviews, seen>>

-----------------------------------------------------------------------------
(* The deployment, and the specification *)

\* A rollout, a restart, a replaced pod, a configuration synced.
Changes ==
  /\ gen < MaxGen
  /\ gen' = gen + 1
  /\ seen' = [r \in Runs |-> IF pc[r] \in {"probes", "load", "batch"} THEN seen[r] \cup {gen + 1} ELSE seen[r]]
  /\ UNCHANGED <<kind, pc, memory, outcome, file, reviewVars>>

Run(r) ==
  \/ Begins(r) \/ CapturesBefore(r) \/ Probes(r) \/ Load(r) \/ Batch(r) \/ Interrupted(r)
  \/ WritesStatus(r) \/ CapturesPods(r) \/ Saves(r) \/ Dies(r)

Next ==
  \/ \E r \in Runs : Run(r) \/ ReviewReads(r) \/ ReviewWrites(r)
  \/ Changes

Spec == Init /\ [][Next]_vars

-----------------------------------------------------------------------------
(* Properties *)

\* A run is only compared with an earlier one of its kind, when each was
\* measured on one generation of the deployment from its first request to its
\* last, and the two generations have the same hardware and configuration:
\* captures that fail, or are torn by a rollout, cannot hide a change.
\* ("Rollouts, pod restarts, incomplete provenance, and changed configurations
\* prevent automatic comparison", vllm-performance-test/SKILL.md.)
ComparesLikeWithLike ==
  \A r \in Runs : file[r].baseline # 0 =>
    LET b == file[r].baseline
    IN  /\ b < r /\ kind[b] = kind[r]
        /\ \E g, h \in 1..MaxGen : seen[b] = {g} /\ seen[r] = {h} /\ Conf[g] = Conf[h]

\* A run that counts as passed has earned it: a benchmark by all its
\* workloads, a batch by answers to all its requests and a review that finds
\* that all of them make sense.
PassedIsEarned ==
  \A r \in Runs : file[r].status = "passed" =>
    IF kind[r] = "vllm" THEN loads[r] = NumLoads
                        ELSE complete[r] /\ r \in results /\ verdict[r] = "make sense"

\* A review is final ("Validate verdicts.json and finalize a research audit",
\* performance_audit.py:420): only another review changes the status again.
ReviewStays ==
  [][\A r \in Runs : verdict[r] # "none" /\ file'[r].status # file[r].status => ReviewWrites(r)]_vars

=============================================================================
