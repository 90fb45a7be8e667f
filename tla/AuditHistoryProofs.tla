------------------------ MODULE AuditHistoryProofs ------------------------
(***************************************************************************)
(* Proofs about AuditHistory, for any number of runs, workloads and        *)
(* generations of the deployment, and any number of reviews.               *)
(***************************************************************************)
EXTENDS AuditHistory, WellFoundedInduction, TLAPS

\* Where a run can be.
Place == {"none", "before", "probes", "load", "batch", "finish", "after", "save", "ended", "dead"}

\* What the place of a run says of its measurement.
PlaceOK(r) ==
  /\ pc[r] \in {"probes", "load"} => kind[r] = "vllm"
  /\ pc[r] = "batch" => kind[r] = "research"
  /\ pc[r] \in {"none", "before", "probes"} => loads[r] = 0
  /\ pc[r] = "load" => loads[r] < NumLoads
  /\ pc[r] \in {"none", "before", "batch"} => r \notin results

\* What its status in memory, and a review that is under way, have behind them.
StatusOK(r) ==
  /\ status[r] = "passed" => kind[r] = "vllm" /\ loads[r] = NumLoads
  /\ reviewer[r] # NoReview => r \in results

\* PassedIsEarned of one run.
EarnedOK(r) ==
  file[r].status = "passed" =>
    IF kind[r] = "vllm" THEN loads[r] = NumLoads
                        ELSE complete[r] /\ r \in results /\ verdict[r] = "make sense"

\* The generations that served a measurement lie between the two captures.
WindowOK(r) ==
  /\ pc[r] = "before" => before[r].pods <= gen
  /\ pc[r] \in {"probes", "load", "batch"} => gen \in seen[r]
  /\ pc[r] \in {"probes", "load", "batch", "finish", "after", "save"} =>
       seen[r] # {} /\ \A g \in seen[r] : before[r].pods <= g /\ g <= gen
  /\ pc[r] = "save" /\ pods[r] # 0 => \A g \in seen[r] : g <= pods[r]

\* r has ended, and was measured on one generation only, of configuration c.
MeasuredOn(r, c) == pc[r] = "ended" /\ \E g \in 1..MaxGen : seen[r] = {g} /\ Conf[g] = c

\* So it is with every run that has a key, or whose review has read one, and
\* with both runs of a comparison.
KeyOK(r) ==
  /\ file[r].key # 0 => MeasuredOn(r, file[r].key)
  /\ reviewer[r].key # 0 => MeasuredOn(r, reviewer[r].key)

BaselineOK(r) ==
  LET b == file[r].baseline
  IN  b # 0 => /\ b \in 1..(r - 1) /\ kind[b] = kind[r]
               /\ \E c \in Nat : MeasuredOn(b, c) /\ MeasuredOn(r, c)

\* The inductive invariant.
RunInv(r) ==
  /\ PlaceOK(r) /\ StatusOK(r) /\ EarnedOK(r)
  /\ WindowOK(r) /\ KeyOK(r) /\ BaselineOK(r)

IInv == TypeOK /\ \A r \in Runs : RunInv(r)

-----------------------------------------------------------------------------
(* The choice of a baseline *)

\* A set of runs that is not empty has a latest one.
LEMMA LatestExists ==
  ASSUME NEW n \in Nat, NEW S \in SUBSET (1..n), S # {}
  PROVE  Max(S) \in S
<1> DEFINE T == {n - x : x \in S}
<1>1. T \subseteq Nat /\ T # {}
  <2>1. \A x \in S : x \in Nat /\ x <= n /\ n - x \in Nat
    OBVIOUS
  <2> QED
    BY <2>1
<1>2. PICK m \in T : \A y \in T : ~ (<<y, m>> \in OpToRel(<, Nat))
  <2> HIDE DEF T
  <2> QED
    BY <1>1, NatLessThanWellFounded, WFMin
<1>3. ASSUME NEW y \in T
      PROVE  m <= y
  <2>1. y \in Nat /\ m \in Nat
    BY <1>1
  <2>2. ~ (y < m)
    BY <1>2, <2>1 DEF OpToRel
  <2> QED
    BY <2>1, <2>2
<1>4. n - m \in S /\ \A y \in S : n - m >= y
  BY <1>3
<1> QED
  BY <1>4 DEF Max

\* A baseline is none, or an earlier run of the same kind and the same key.
LEMMA BaselineIsCandidate ==
  ASSUME TypeOK, NEW r \in Runs, NEW key \in Nat
  PROVE  /\ baseline(r, key) \in 0..NumRuns
         /\ LET b == baseline(r, key)
            IN  b # 0 => b \in 1..(r - 1) /\ kind[b] = kind[r] /\ file[b].key = key /\ key # 0
<1> DEFINE C == {b \in 1..(r - 1) : /\ kind[b] = kind[r] /\ file[b].status = "passed"
                                    /\ file[b].key = key /\ key # 0}
<1>1. baseline(r, key) = IF C = {} THEN 0 ELSE Max(C)
  BY DEF baseline
<1>2. r - 1 \in Nat /\ r - 1 < NumRuns /\ NumRuns \in Nat
  BY AuditHistoryAssumption DEF Runs
<1>3. C # {} => Max(C) \in C
  <2>1. C \in SUBSET (1..(r - 1))
    OBVIOUS
  <2> HIDE DEF C
  <2> QED
    BY <1>2, <2>1, LatestExists
<1> QED
  BY <1>1, <1>2, <1>3

-----------------------------------------------------------------------------
(* What a step leaves alone *)

\* Nothing changes but what belongs to run r.
OnlyRun(r) ==
  /\ gen' = gen /\ kind' = kind
  /\ \A q \in Runs \ {r} :
       /\ pc'[q] = pc[q] /\ before'[q] = before[q] /\ pods'[q] = pods[q] /\ status'[q] = status[q]
       /\ loads'[q] = loads[q] /\ complete'[q] = complete[q] /\ (q \in results') = (q \in results)
       /\ file'[q] = file[q] /\ reviewer'[q] = reviewer[q] /\ verdict'[q] = verdict[q]
       /\ seen'[q] = seen[q]

\* What a measurement was made on stays, as nothing leads out of "ended".
LEMMA MeasuredStays ==
  ASSUME NEW r \in Runs, OnlyRun(r), pc[r] = "ended" => pc'[r] = "ended" /\ seen'[r] = seen[r],
         NEW q \in Runs, NEW c, MeasuredOn(q, c)
  PROVE  MeasuredOn(q, c)'
BY DEF OnlyRun, MeasuredOn

\* So a step of r concerns r alone.
LEMMA OwnRunOnly ==
  ASSUME IInv, NEW r \in Runs, OnlyRun(r), RunInv(r)',
         pc[r] = "ended" => pc'[r] = "ended" /\ seen'[r] = seen[r]
  PROVE  \A q \in Runs : RunInv(q)'
<1> SUFFICES ASSUME NEW q \in Runs, q # r
             PROVE  RunInv(q)'
  OBVIOUS
<1>1. RunInv(q)
  BY DEF IInv
<1>2. PlaceOK(q)' /\ StatusOK(q)' /\ EarnedOK(q)' /\ WindowOK(q)'
  BY <1>1 DEF RunInv, OnlyRun, PlaceOK, StatusOK, EarnedOK, WindowOK
<1>3. KeyOK(q)'
  BY <1>1, MeasuredStays DEF RunInv, OnlyRun, KeyOK
<1>4. BaselineOK(q)'
  <2> SUFFICES ASSUME file[q].baseline # 0
               PROVE  BaselineOK(q)'
    BY DEF OnlyRun, BaselineOK
  <2>1. file[q].baseline \in Runs
    BY <1>1, AuditHistoryAssumption DEF RunInv, BaselineOK, Runs
  <2> QED
    BY <1>1, <2>1, MeasuredStays DEF RunInv, OnlyRun, BaselineOK
<1> QED
  BY <1>2, <1>3, <1>4 DEF RunInv

\* A run that has not ended has neither a key nor a baseline yet.
LEMMA NoKeyBeforeTheEnd ==
  ASSUME NEW r \in Runs, RunInv(r), pc[r] # "ended"
  PROVE  file[r].key = 0 /\ reviewer[r].key = 0 /\ file[r].baseline = 0
BY DEF RunInv, KeyOK, BaselineOK, MeasuredOn

\* As long as it gets none, these parts of the invariant hold.
LEMMA NoKeyYet ==
  ASSUME NEW r \in Runs, file'[r].key = 0, reviewer'[r].key = 0, file'[r].baseline = 0
  PROVE  KeyOK(r)' /\ BaselineOK(r)'
BY DEF KeyOK, BaselineOK

-----------------------------------------------------------------------------
(* The steps of a run *)

LEMMA Going ==
  ASSUME TypeOK, NEW r \in Runs, NEW from, NEW to \in Place, Goes(r, from, to)
  PROVE  pc[r] = from /\ pc'[r] = to /\ pc' \in [Runs -> Place] /\ \A q \in Runs \ {r} : pc'[q] = pc[q]
BY DEF Goes, TypeOK, Place

LEMMA Measuring ==
  ASSUME TypeOK, NEW r \in Runs, NEW s \in Status, Measured(r, s)
  PROVE  /\ pc'[r] = "finish" /\ pc' \in [Runs -> Place] /\ \A q \in Runs \ {r} : pc'[q] = pc[q]
         /\ status'[r] = s /\ status' \in [Runs -> Status] /\ \A q \in Runs \ {r} : status'[q] = status[q]
BY DEF Measured, TypeOK, Place

LEMMA Ending ==
  ASSUME TypeOK, NEW r \in Runs, NEW place \in {"ended", "dead"}, Ends(r, place)
  PROVE  /\ pc'[r] = place /\ pc' \in [Runs -> Place]
         /\ before' \in [Runs -> Capture] /\ pods' \in [Runs -> 0..MaxGen]
         /\ status'[r] = "running" /\ status' \in [Runs -> Status]
         /\ \A q \in Runs \ {r} : /\ pc'[q] = pc[q] /\ before'[q] = before[q]
                                  /\ pods'[q] = pods[q] /\ status'[q] = status[q]
<1>1. Unread \in Capture
  BY AuditHistoryAssumption DEF Unread, Capture
<1>2. 0 \in 0..MaxGen
  BY AuditHistoryAssumption
<1>3. pc' \in [Runs -> Place] /\ pods' \in [Runs -> 0..MaxGen] /\ status' \in [Runs -> Status]
  BY <1>2 DEF Ends, TypeOK, Place, Status
<1>4. before' \in [Runs -> Capture]
  BY <1>1 DEF Ends, TypeOK
<1> QED
  BY <1>3, <1>4 DEF Ends, TypeOK

LEMMA Generations == ASSUME TypeOK PROVE gen \in 1..MaxGen /\ gen \in Nat /\ gen # 0 /\ MaxGen \in Nat
<1>1. gen \in 1..MaxGen
  BY DEF TypeOK
<1> QED
  BY <1>1, AuditHistoryAssumption

\* What a read of the deployment returns was there at some time.
LEMMA Reading ==
  ASSUME TypeOK, NEW p \in Read
  PROVE  p \in 0..MaxGen /\ p \in Nat /\ p <= gen /\ (p # 0 => p = gen)
<1>1. p = 0 \/ p = gen
  BY DEF Read
<1> QED
  BY <1>1, Generations

LEMMA BeginsKeeps ==
  ASSUME IInv, NEW r \in Runs, Begins(r)
  PROVE  IInv'
<1>1. TypeOK /\ RunInv(r) /\ pc[r] = "none"
  BY DEF IInv, Begins, Goes
<1>2. PICK p \in Read : before' = [before EXCEPT ![r].pods = p]
  BY DEF Begins
<1>3. /\ pc' \in [Runs -> Place] /\ pc'[r] = "before"
      /\ \A q \in Runs \ {r} : pc'[q] = pc[q]
  BY <1>1, Going DEF Begins, Place
<1>4. /\ before' \in [Runs -> Capture] /\ before'[r].pods = p
      /\ \A q \in Runs \ {r} : before'[q] = before[q]
  <2>1. p \in 0..MaxGen
    BY <1>1, Reading
  <2>2. before[r] \in Capture /\ [before[r] EXCEPT !.pods = p] \in Capture
    <3>1. before[r] \in Capture
      BY <1>1 DEF TypeOK
    <3> QED
      BY <2>1, <3>1 DEF Capture
  <2>3. before \in [Runs -> Capture]
    BY <1>1 DEF TypeOK
  <2>4. before[r].pods \in 0..MaxGen /\ [before[r] EXCEPT !.pods = p].pods = p
    BY <2>2 DEF Capture
  <2>5. before' = [before EXCEPT ![r] = [before[r] EXCEPT !.pods = p]]
    BY <1>2
  <2> QED
    BY <2>2, <2>3, <2>4, <2>5
<1>5. TypeOK'
  BY <1>1, <1>3, <1>4 DEF Begins, outcome, reviewVars, TypeOK, Place
<1>6. OnlyRun(r)
  BY <1>3, <1>4 DEF Begins, outcome, reviewVars, OnlyRun
<1>7. PlaceOK(r)' /\ StatusOK(r)' /\ EarnedOK(r)'
  BY <1>1, <1>3 DEF Begins, outcome, reviewVars, RunInv, PlaceOK, StatusOK, EarnedOK, NoReview
<1>8. WindowOK(r)'
  BY <1>1, <1>3, <1>4, Reading DEF Begins, WindowOK
<1>9. KeyOK(r)' /\ BaselineOK(r)'
  BY <1>1, NoKeyBeforeTheEnd, NoKeyYet DEF Begins, reviewVars
<1> QED
  BY <1>1, <1>5, <1>6, <1>7, <1>8, <1>9, OwnRunOnly DEF IInv, RunInv

LEMMA CapturesBeforeKeeps ==
  ASSUME IInv, NEW r \in Runs, CapturesBefore(r)
  PROVE  IInv'
<1>1. TypeOK /\ RunInv(r) /\ pc[r] = "before"
  BY DEF IInv, CapturesBefore, Goes
<1>2. PICK e \in Read : before' = [before EXCEPT ![r].rest = e]
  BY DEF CapturesBefore
<1>3. /\ pc' \in [Runs -> Place] /\ pc'[r] = (IF kind[r] = "vllm" THEN "probes" ELSE "batch")
      /\ \A q \in Runs \ {r} : pc'[q] = pc[q]
  BY <1>1, Going DEF CapturesBefore, Place
<1>4. /\ before' \in [Runs -> Capture] /\ before'[r].pods = before[r].pods
      /\ \A q \in Runs \ {r} : before'[q] = before[q]
  <2>1. e \in 0..MaxGen
    BY <1>1, Reading
  <2>2. before[r] \in Capture /\ [before[r] EXCEPT !.rest = e] \in Capture
    BY <1>1, <2>1 DEF TypeOK, Capture
  <2> QED
    BY <1>1, <1>2, <2>2 DEF TypeOK, Capture
<1>5. /\ file' \in [Runs -> File \cup {NoFile}]
      /\ file'[r].status = "running" /\ file'[r].key = 0 /\ file'[r].baseline = 0
      /\ \A q \in Runs \ {r} : file'[q] = file[q]
  <2>1. file[r] \in File \cup {NoFile} /\ file[r].key = 0 /\ file[r].baseline = 0
    BY <1>1, NoKeyBeforeTheEnd DEF TypeOK
  <2>2. [file[r] EXCEPT !.status = "running"] = [status |-> "running", key |-> 0, baseline |-> 0]
    BY <2>1 DEF File, NoFile
  <2>3. [status |-> "running", key |-> 0, baseline |-> 0] \in File
    BY AuditHistoryAssumption DEF File, Status
  <2>4. file' = [file EXCEPT ![r] = [status |-> "running", key |-> 0, baseline |-> 0]]
    BY <2>2 DEF CapturesBefore
  <2> QED
    BY <1>1, <2>3, <2>4 DEF TypeOK
<1>6. /\ seen' \in [Runs -> SUBSET (1..MaxGen)] /\ seen'[r] = {gen}
      /\ \A q \in Runs \ {r} : seen'[q] = seen[q]
  BY <1>1 DEF CapturesBefore, TypeOK
<1>7. TypeOK'
  BY <1>1, <1>3, <1>4, <1>5, <1>6 DEF CapturesBefore, outcome, reviewVars, TypeOK, Place
<1>8. OnlyRun(r)
  BY <1>3, <1>4, <1>5, <1>6 DEF CapturesBefore, outcome, reviewVars, OnlyRun
<1>9. PlaceOK(r)' /\ StatusOK(r)' /\ EarnedOK(r)'
  BY <1>1, <1>3, <1>5 DEF CapturesBefore, outcome, reviewVars, TypeOK, RunInv, PlaceOK, StatusOK, EarnedOK, NoReview
<1>10. WindowOK(r)'
  BY <1>1, <1>3, <1>4, <1>6, Generations DEF CapturesBefore, RunInv, WindowOK
<1>11. KeyOK(r)' /\ BaselineOK(r)'
  BY <1>1, <1>5, NoKeyBeforeTheEnd, NoKeyYet DEF CapturesBefore, reviewVars
<1> QED
  BY <1>1, <1>7, <1>8, <1>9, <1>10, <1>11, OwnRunOnly DEF IInv, RunInv

LEMMA ProbesKeeps ==
  ASSUME IInv, NEW r \in Runs, Probes(r)
  PROVE  IInv'
<1>1. TypeOK /\ RunInv(r) /\ pc[r] = "probes"
  BY DEF IInv, Probes
<1>2. /\ pc' \in [Runs -> Place] /\ pc'[r] \in {"load", "finish"}
      /\ \A q \in Runs \ {r} : pc'[q] = pc[q]
      /\ status' \in [Runs -> Status] /\ status'[r] \in {status[r], "failed"}
      /\ \A q \in Runs \ {r} : status'[q] = status[q]
  <2>1. CASE Goes(r, "probes", "load") /\ UNCHANGED status
    BY <1>1, <2>1, Going DEF Place, TypeOK
  <2>2. CASE Measured(r, "failed")
    BY <1>1, <2>2, Measuring DEF Status
  <2> QED
    BY <2>1, <2>2 DEF Probes
<1>3. TypeOK'
  BY <1>1, <1>2 DEF Probes, outcome, reviewVars, TypeOK, Place
<1>4. OnlyRun(r)
  BY <1>2 DEF Probes, outcome, reviewVars, OnlyRun
<1>5. PlaceOK(r)'
  BY <1>1, <1>2, AuditHistoryAssumption DEF Probes, outcome, RunInv, PlaceOK
<1>6. StatusOK(r)' /\ EarnedOK(r)'
  BY <1>1, <1>2 DEF Probes, outcome, reviewVars, RunInv, StatusOK, EarnedOK, NoReview, NoFile
<1>7. WindowOK(r)'
  BY <1>1, <1>2 DEF Probes, RunInv, WindowOK
<1>8. KeyOK(r)' /\ BaselineOK(r)'
  BY <1>1, NoKeyBeforeTheEnd, NoKeyYet DEF Probes, reviewVars
<1> QED
  BY <1>1, <1>3, <1>4, <1>5, <1>6, <1>7, <1>8, OwnRunOnly DEF IInv, RunInv

LEMMA LoadKeeps ==
  ASSUME IInv, NEW r \in Runs, Load(r)
  PROVE  IInv'
<1>1. /\ TypeOK /\ RunInv(r) /\ pc[r] = "load"
      /\ kind[r] = "vllm" /\ loads[r] < NumLoads /\ loads[r] \in 0..NumLoads
  BY DEF IInv, Load, RunInv, PlaceOK, TypeOK
<1>2. /\ loads' \in [Runs -> 0..NumLoads]
      /\ \A q \in Runs \ {r} : loads'[q] = loads[q]
  <2>1. NumLoads \in Nat
    BY AuditHistoryAssumption
  <2>2. loads[r] + 1 \in 0..NumLoads
    BY <1>1, <2>1
  <2>3. loads' = loads \/ loads' = [loads EXCEPT ![r] = loads[r] + 1]
    BY DEF Load
  <2>4. loads \in [Runs -> 0..NumLoads]
    BY <1>1 DEF TypeOK
  <2> QED
    BY <2>2, <2>3, <2>4
<1>3. /\ pc' \in [Runs -> Place] /\ pc'[r] \in {"load", "finish"}
      /\ \A q \in Runs \ {r} : pc'[q] = pc[q]
      /\ status' \in [Runs -> Status]
      /\ \A q \in Runs \ {r} : status'[q] = status[q]
      /\ pc'[r] = "load" => loads'[r] # NumLoads /\ status'[r] = status[r]
      /\ pc'[r] = "finish" => status'[r] = "failed" \/ loads'[r] = NumLoads
  <2>1. CASE Measured(r, "passed") /\ loads'[r] = NumLoads
    BY <1>1, <2>1, Measuring DEF Status
  <2>2. CASE Measured(r, "failed")
    BY <1>1, <2>2, Measuring DEF Status
  <2>3. CASE UNCHANGED <<pc, status>> /\ loads'[r] # NumLoads
    BY <1>1, <2>3 DEF TypeOK, Place
  <2> QED
    BY <2>1, <2>2, <2>3 DEF Load
<1>4. TypeOK'
  BY <1>1, <1>2, <1>3 DEF Load, reviewVars, TypeOK, Place
<1>5. OnlyRun(r)
  BY <1>2, <1>3 DEF Load, reviewVars, OnlyRun
<1>6. PlaceOK(r)'
  BY <1>1, <1>2, <1>3, AuditHistoryAssumption DEF Load, PlaceOK
<1>7. ~ (file[r].status = "passed") /\ status[r] # "passed"
  BY <1>1, AuditHistoryAssumption DEF RunInv, EarnedOK, StatusOK
<1>8. StatusOK(r)' /\ EarnedOK(r)'
  BY <1>1, <1>3, <1>7 DEF Load, reviewVars, RunInv, StatusOK, EarnedOK, NoReview, NoFile
<1>9. WindowOK(r)'
  BY <1>1, <1>3 DEF Load, RunInv, WindowOK
<1>10. KeyOK(r)' /\ BaselineOK(r)'
  BY <1>1, NoKeyBeforeTheEnd, NoKeyYet DEF Load, reviewVars
<1> QED
  BY <1>1, <1>4, <1>5, <1>6, <1>8, <1>9, <1>10, OwnRunOnly DEF IInv, RunInv

LEMMA BatchKeeps ==
  ASSUME IInv, NEW r \in Runs, Batch(r)
  PROVE  IInv'
<1>1. TypeOK /\ RunInv(r) /\ pc[r] = "batch" /\ kind[r] = "research" /\ r \notin results
  BY DEF IInv, Batch, RunInv, PlaceOK
<1>2. /\ complete' \in [Runs -> BOOLEAN]
      /\ \A q \in Runs \ {r} : complete'[q] = complete[q] /\ (q \in results') = (q \in results)
      /\ results' \subseteq {q \in Runs : kind[q] = "research"}
  <2>1. results' = results \/ results' = results \cup {r}
    BY DEF Batch
  <2>2. PICK all \in BOOLEAN : complete' = [complete EXCEPT ![r] = all]
    BY DEF Batch
  <2>3. complete \in [Runs -> BOOLEAN] /\ results \subseteq {q \in Runs : kind[q] = "research"}
    BY <1>1 DEF TypeOK
  <2>4. complete' \in [Runs -> BOOLEAN] /\ \A q \in Runs \ {r} : complete'[q] = complete[q]
    BY <2>2, <2>3
  <2>5. /\ \A q \in Runs \ {r} : (q \in results') = (q \in results)
        /\ results' \subseteq {q \in Runs : kind[q] = "research"}
    BY <1>1, <2>1, <2>3
  <2> QED
    BY <2>4, <2>5
<1>3. /\ pc' \in [Runs -> Place] /\ pc'[r] = "finish"
      /\ \A q \in Runs \ {r} : pc'[q] = pc[q]
      /\ status' \in [Runs -> Status] /\ status'[r] # "passed"
      /\ \A q \in Runs \ {r} : status'[q] = status[q]
  <2>1. PICK m \in {"interrupted", "awaiting_review", "failed"} : Measured(r, m)
    BY DEF Batch
  <2>2. m \in Status /\ m # "passed"
    BY DEF Status
  <2> QED
    BY <1>1, <2>1, <2>2, Measuring
<1>4. TypeOK'
  BY <1>1, <1>2, <1>3 DEF Batch, reviewVars, TypeOK, Place
<1>5. OnlyRun(r)
  BY <1>2, <1>3 DEF Batch, reviewVars, OnlyRun
<1>6. PlaceOK(r)'
  BY <1>1, <1>3 DEF Batch, PlaceOK
<1>7. ~ (file[r].status = "passed") /\ reviewer[r] = NoReview
  BY <1>1 DEF RunInv, EarnedOK, StatusOK
<1>8. StatusOK(r)' /\ EarnedOK(r)'
  BY <1>3, <1>7 DEF Batch, reviewVars, StatusOK, EarnedOK, NoReview, NoFile
<1>9. WindowOK(r)'
  BY <1>1, <1>3 DEF Batch, RunInv, WindowOK
<1>10. KeyOK(r)' /\ BaselineOK(r)'
  BY <1>1, NoKeyBeforeTheEnd, NoKeyYet DEF Batch, reviewVars
<1> QED
  BY <1>1, <1>4, <1>5, <1>6, <1>8, <1>9, <1>10, OwnRunOnly DEF IInv, RunInv

LEMMA InterruptedKeeps ==
  ASSUME IInv, NEW r \in Runs, Interrupted(r)
  PROVE  IInv'
<1>1. TypeOK /\ RunInv(r) /\ pc[r] \in {"probes", "load"} /\ kind[r] = "vllm"
  BY DEF IInv, Interrupted, RunInv, PlaceOK
<1>2. /\ pc' \in [Runs -> Place] /\ pc'[r] = "finish"
      /\ \A q \in Runs \ {r} : pc'[q] = pc[q]
      /\ status' \in [Runs -> Status] /\ status'[r] = "interrupted"
      /\ \A q \in Runs \ {r} : status'[q] = status[q]
  BY <1>1, Measuring DEF Interrupted, Status
<1>3. TypeOK'
  BY <1>1, <1>2 DEF Interrupted, outcome, reviewVars, TypeOK, Place
<1>4. OnlyRun(r)
  BY <1>2 DEF Interrupted, outcome, reviewVars, OnlyRun
<1>5. PlaceOK(r)' /\ StatusOK(r)' /\ EarnedOK(r)'
  BY <1>1, <1>2 DEF Interrupted, outcome, reviewVars, RunInv, PlaceOK, StatusOK, EarnedOK, NoReview, NoFile
<1>6. WindowOK(r)'
  BY <1>1, <1>2 DEF Interrupted, RunInv, WindowOK
<1>7. KeyOK(r)' /\ BaselineOK(r)'
  BY <1>1, NoKeyBeforeTheEnd, NoKeyYet DEF Interrupted, reviewVars
<1> QED
  BY <1>1, <1>3, <1>4, <1>5, <1>6, <1>7, OwnRunOnly DEF IInv, RunInv

LEMMA WritesStatusKeeps ==
  ASSUME IInv, NEW r \in Runs, WritesStatus(r)
  PROVE  IInv'
<1>1. TypeOK /\ RunInv(r) /\ pc[r] = "finish"
  BY DEF IInv, WritesStatus, Goes
<1>2. /\ pc' \in [Runs -> Place] /\ pc'[r] = "after"
      /\ \A q \in Runs \ {r} : pc'[q] = pc[q]
  BY <1>1, Going DEF WritesStatus, Place
<1>3. /\ file' \in [Runs -> File \cup {NoFile}]
      /\ file'[r] = [status |-> status[r], key |-> 0, baseline |-> 0]
      /\ \A q \in Runs \ {r} : file'[q] = file[q]
  <2>1. file[r] \in File \cup {NoFile} /\ file[r].key = 0 /\ file[r].baseline = 0
    BY <1>1, NoKeyBeforeTheEnd DEF TypeOK
  <2>2. [file[r] EXCEPT !.status = status[r]] = [status |-> status[r], key |-> 0, baseline |-> 0]
    BY <2>1 DEF File, NoFile
  <2>3. [status |-> status[r], key |-> 0, baseline |-> 0] \in File
    <3>1. status[r] \in Status
      BY <1>1 DEF TypeOK
    <3> QED
      BY <3>1, AuditHistoryAssumption DEF File
  <2>4. file' = [file EXCEPT ![r] = [status |-> status[r], key |-> 0, baseline |-> 0]]
    BY <2>2 DEF WritesStatus
  <2> QED
    BY <1>1, <2>3, <2>4 DEF TypeOK
<1>4. TypeOK'
  BY <1>1, <1>2, <1>3 DEF WritesStatus, memory, outcome, reviewVars, TypeOK, Place
<1>5. OnlyRun(r)
  BY <1>2, <1>3 DEF WritesStatus, memory, outcome, reviewVars, OnlyRun
<1>6. PlaceOK(r)' /\ StatusOK(r)' /\ EarnedOK(r)'
  <2>1. PlaceOK(r)'
    BY <1>1, <1>2, <1>3 DEF WritesStatus, memory, outcome, reviewVars, RunInv, PlaceOK
  <2>2. StatusOK(r)'
    BY <1>1, <1>2, <1>3 DEF WritesStatus, memory, outcome, reviewVars, RunInv, PlaceOK, StatusOK, NoReview, NoFile
  <2>3. EarnedOK(r)'
    <3>1. file'[r].status = status[r]
      BY <1>3
    <3>2. status[r] = "passed" => kind[r] = "vllm" /\ loads[r] = NumLoads
      BY <1>1 DEF RunInv, StatusOK
    <3>3. UNCHANGED <<kind, loads>>
      BY DEF WritesStatus, outcome
    <3> QED
      BY <3>1, <3>2, <3>3 DEF EarnedOK
  <2> QED
    BY <2>1, <2>2, <2>3
<1>7. WindowOK(r)'
  BY <1>1, <1>2 DEF WritesStatus, memory, RunInv, WindowOK
<1>8. KeyOK(r)' /\ BaselineOK(r)'
  BY <1>1, <1>3, NoKeyBeforeTheEnd, NoKeyYet DEF WritesStatus, reviewVars
<1> QED
  BY <1>1, <1>4, <1>5, <1>6, <1>7, <1>8, OwnRunOnly DEF IInv, RunInv

LEMMA CapturesPodsKeeps ==
  ASSUME IInv, NEW r \in Runs, CapturesPods(r)
  PROVE  IInv'
<1>1. TypeOK /\ RunInv(r) /\ pc[r] = "after"
  BY DEF IInv, CapturesPods, Goes
<1>2. PICK p \in Read : pods' = [pods EXCEPT ![r] = p]
  BY DEF CapturesPods
<1>3. /\ pc' \in [Runs -> Place] /\ pc'[r] = "save"
      /\ \A q \in Runs \ {r} : pc'[q] = pc[q]
  BY <1>1, Going DEF CapturesPods, Place
<1>4. /\ pods' \in [Runs -> 0..MaxGen] /\ pods'[r] = p
      /\ \A q \in Runs \ {r} : pods'[q] = pods[q]
  BY <1>1, <1>2, Reading DEF TypeOK
<1>5. TypeOK'
  BY <1>1, <1>3, <1>4 DEF CapturesPods, outcome, reviewVars, TypeOK, Place
<1>6. OnlyRun(r)
  BY <1>3, <1>4 DEF CapturesPods, outcome, reviewVars, OnlyRun
<1>7. PlaceOK(r)' /\ StatusOK(r)' /\ EarnedOK(r)'
  BY <1>1, <1>3 DEF CapturesPods, outcome, reviewVars, RunInv, PlaceOK, StatusOK, EarnedOK, NoReview, NoFile
<1>8. WindowOK(r)'
  BY <1>1, <1>3, <1>4, Reading DEF CapturesPods, RunInv, WindowOK
<1>9. KeyOK(r)' /\ BaselineOK(r)'
  BY <1>1, NoKeyBeforeTheEnd, NoKeyYet DEF CapturesPods, reviewVars
<1> QED
  BY <1>1, <1>5, <1>6, <1>7, <1>8, <1>9, OwnRunOnly DEF IInv, RunInv

LEMMA DiesKeeps ==
  ASSUME IInv, NEW r \in Runs, Dies(r)
  PROVE  IInv'
<1>1. TypeOK /\ RunInv(r) /\ pc[r] \notin {"none", "ended", "dead"}
  BY DEF IInv, Dies
<1>2. /\ pc'[r] = "dead" /\ pc' \in [Runs -> Place]
      /\ before' \in [Runs -> Capture] /\ pods' \in [Runs -> 0..MaxGen]
      /\ status'[r] = "running" /\ status' \in [Runs -> Status]
      /\ \A q \in Runs \ {r} : /\ pc'[q] = pc[q] /\ before'[q] = before[q]
                               /\ pods'[q] = pods[q] /\ status'[q] = status[q]
  BY <1>1, Ending DEF Dies
<1>3. TypeOK'
  BY <1>1, <1>2 DEF Dies, outcome, reviewVars, TypeOK, Place
<1>4. OnlyRun(r)
  BY <1>2 DEF Dies, outcome, reviewVars, OnlyRun
<1>5. PlaceOK(r)' /\ StatusOK(r)' /\ EarnedOK(r)' /\ WindowOK(r)'
  BY <1>1, <1>2 DEF Dies, outcome, reviewVars, RunInv, PlaceOK, StatusOK, EarnedOK, WindowOK, NoReview, NoFile
<1>6. KeyOK(r)' /\ BaselineOK(r)'
  BY <1>1, NoKeyBeforeTheEnd, NoKeyYet DEF Dies, reviewVars
<1> QED
  BY <1>1, <1>3, <1>4, <1>5, <1>6, OwnRunOnly DEF IInv, RunInv

\* A key that is not 0 is that of two captures with the same pods before and
\* after, so that no other generation served in between.
LEMMA KeyMeansOneGeneration ==
  ASSUME TypeOK, NEW r \in Runs, WindowOK(r), pc[r] = "save",
         NEW rest \in Read, comparison_key(r, rest) # 0
  PROVE  \E g \in 1..MaxGen : seen[r] = {g} /\ Conf[g] = comparison_key(r, rest)
<1>1. /\ stable(r, rest) /\ comparison_key(r, rest) = Conf[before[r].pods]
  BY DEF comparison_key
<1>2. pods[r] # 0 /\ before[r].pods = pods[r]
  BY <1>1 DEF stable
<1>3. seen[r] # {} /\ \A g \in seen[r] : g = pods[r]
  <2>1. seen[r] \subseteq Nat /\ pods[r] \in Nat
    <3>1. seen[r] \subseteq 1..MaxGen /\ pods[r] \in 0..MaxGen
      BY DEF TypeOK
    <3> QED
      BY <3>1, AuditHistoryAssumption
  <2>2. \A g \in seen[r] : pods[r] <= g /\ g <= pods[r]
    BY <1>2 DEF WindowOK
  <2> QED
    BY <2>1, <2>2 DEF WindowOK
<1>4. seen[r] = {pods[r]} /\ pods[r] \in 1..MaxGen
  BY <1>3 DEF TypeOK
<1> QED
  BY <1>1, <1>2, <1>4

LEMMA KeyIsNatural ==
  ASSUME TypeOK, NEW r \in Runs, NEW rest
  PROVE  comparison_key(r, rest) \in Nat
<1>1. CASE stable(r, rest)
  <2>1. before[r].pods \in 0..MaxGen /\ before[r].pods # 0
    BY <1>1 DEF stable, TypeOK, Capture
  <2>2. before[r].pods \in 1..MaxGen
    BY <2>1, AuditHistoryAssumption
  <2> QED
    BY <1>1, <2>2, AuditHistoryAssumption DEF comparison_key
<1>2. CASE ~ stable(r, rest)
  BY <1>2 DEF comparison_key
<1> QED
  BY <1>1, <1>2

\* The baseline that is chosen for a key was measured on the same one.
LEMMA BaselineIsAlike ==
  ASSUME IInv, NEW r \in Runs, NEW key \in Nat, baseline(r, key) # 0,
         NEW b, b = baseline(r, key)
  PROVE  b \in 1..(r - 1) /\ b \in Runs /\ b # r /\ kind[b] = kind[r] /\ key # 0 /\ MeasuredOn(b, key)
<1>1. b \in 1..(r - 1) /\ kind[b] = kind[r] /\ file[b].key = key /\ key # 0
  BY BaselineIsCandidate DEF IInv
<1>2. b \in Runs /\ b # r
  BY <1>1, AuditHistoryAssumption DEF Runs
<1> QED
  BY <1>1, <1>2 DEF IInv, RunInv, KeyOK

LEMMA SavesKeeps ==
  ASSUME IInv, NEW r \in Runs, Saves(r)
  PROVE  IInv'
<1>1. TypeOK /\ RunInv(r) /\ pc[r] = "save"
  BY DEF IInv, Saves
<1>2. PICK rest \in Read :
        file' = [file EXCEPT ![r] = [status |-> status[r], key |-> comparison_key(r, rest),
                                     baseline |-> baseline(r, comparison_key(r, rest))]]
  BY DEF Saves
<1> PICK key \in Nat : key = comparison_key(r, rest)
  BY <1>1, KeyIsNatural
<1> PICK b \in 0..NumRuns : b = baseline(r, key)
  BY <1>1, BaselineIsCandidate
<1>3. file' = [file EXCEPT ![r] = [status |-> status[r], key |-> key, baseline |-> b]]
  BY <1>2
<1>4. /\ pc'[r] = "ended" /\ pc' \in [Runs -> Place]
      /\ before' \in [Runs -> Capture] /\ pods' \in [Runs -> 0..MaxGen]
      /\ status'[r] = "running" /\ status' \in [Runs -> Status]
      /\ \A q \in Runs \ {r} : /\ pc'[q] = pc[q] /\ before'[q] = before[q]
                               /\ pods'[q] = pods[q] /\ status'[q] = status[q]
  BY <1>1, Ending DEF Saves
<1>5. /\ file' \in [Runs -> File \cup {NoFile}]
      /\ file'[r].status = status[r] /\ file'[r].key = key /\ file'[r].baseline = b
      /\ \A q \in Runs \ {r} : file'[q] = file[q]
  <2>1. status[r] \in Status
    BY <1>1 DEF TypeOK
  <2>2. [status |-> status[r], key |-> key, baseline |-> b] \in File
    BY <2>1 DEF File
  <2> QED
    BY <1>1, <1>3, <2>2 DEF TypeOK
<1>6. TypeOK'
  BY <1>1, <1>4, <1>5 DEF Saves, outcome, reviewVars, TypeOK, Place
<1>7. OnlyRun(r)
  BY <1>4, <1>5 DEF Saves, outcome, reviewVars, OnlyRun
<1>8. PlaceOK(r)' /\ StatusOK(r)' /\ EarnedOK(r)' /\ WindowOK(r)'
  BY <1>1, <1>4, <1>5 DEF Saves, outcome, reviewVars, RunInv, PlaceOK, StatusOK, EarnedOK, WindowOK, NoReview, NoFile
<1>9. key # 0 => MeasuredOn(r, key)'
  BY <1>1, <1>4, KeyMeansOneGeneration DEF Saves, MeasuredOn, RunInv
<1>10. KeyOK(r)'
  BY <1>1, <1>5, <1>9, NoKeyBeforeTheEnd DEF Saves, reviewVars, KeyOK
<1>11. BaselineOK(r)'
  <2> SUFFICES ASSUME b # 0
               PROVE  BaselineOK(r)'
    BY <1>5 DEF BaselineOK
  <2>1. b \in 1..(r - 1) /\ b \in Runs /\ b # r /\ kind[b] = kind[r] /\ key # 0 /\ MeasuredOn(b, key)
    BY BaselineIsAlike
  <2>2. MeasuredOn(b, key)' /\ MeasuredOn(r, key)'
    BY <1>1, <1>7, <1>9, <2>1, MeasuredStays
  <2> QED
    BY <1>5, <1>7, <2>1, <2>2 DEF BaselineOK, OnlyRun
<1> QED
  BY <1>1, <1>6, <1>7, <1>8, <1>10, <1>11, OwnRunOnly DEF IInv, RunInv

-----------------------------------------------------------------------------
(* Reviews and the deployment *)

LEMMA ReviewReadsKeeps ==
  ASSUME IInv, NEW r \in Runs, ReviewReads(r)
  PROVE  IInv'
<1>1. TypeOK /\ RunInv(r) /\ r \in results /\ file[r] \in File
  BY DEF IInv, ReviewReads, TypeOK
<1>2. /\ reviewer' \in [Runs -> File \cup {NoReview}] /\ reviewer'[r] = file[r]
      /\ \A q \in Runs \ {r} : reviewer'[q] = reviewer[q]
  BY <1>1 DEF ReviewReads, TypeOK
<1>3. reviews' \in [Runs -> 0..MaxReviews]
  <2>1. reviews[r] \in 0..MaxReviews /\ reviews[r] < MaxReviews /\ MaxReviews \in Nat
    BY AuditHistoryAssumption, <1>1 DEF ReviewReads, TypeOK
  <2>2. reviews[r] + 1 \in 0..MaxReviews
    BY <2>1
  <2> QED
    BY <1>1, <2>2 DEF ReviewReads, TypeOK
<1>4. TypeOK'
  BY <1>1, <1>2, <1>3 DEF ReviewReads, memory, outcome, TypeOK
<1>5. OnlyRun(r)
  BY <1>2 DEF ReviewReads, memory, outcome, OnlyRun
<1>6. PlaceOK(r)' /\ StatusOK(r)' /\ EarnedOK(r)' /\ WindowOK(r)'
  BY <1>1 DEF ReviewReads, memory, outcome, RunInv, PlaceOK, StatusOK, EarnedOK, WindowOK
<1>7. KeyOK(r)' /\ BaselineOK(r)'
  <2>1. \A q \in Runs, c \in Nat : MeasuredOn(q, c) => MeasuredOn(q, c)'
    BY DEF ReviewReads, MeasuredOn
  <2>2. \A q : MeasuredOn(q, file[r].key)' = MeasuredOn(q, file[r].key)
    BY DEF ReviewReads, MeasuredOn
  <2>3. KeyOK(r)'
    BY <1>1, <1>2, <2>2 DEF ReviewReads, RunInv, KeyOK
  <2>4. file[r].baseline # 0 => file[r].baseline \in Runs
    BY <1>1, AuditHistoryAssumption DEF File, Runs
  <2>5. BaselineOK(r)'
    BY <1>1, <2>1, <2>4 DEF ReviewReads, RunInv, BaselineOK
  <2> QED
    BY <2>3, <2>5
<1> QED
  BY <1>1, <1>4, <1>5, <1>6, <1>7, OwnRunOnly DEF IInv, RunInv, ReviewReads

LEMMA ReviewWritesKeeps ==
  ASSUME IInv, NEW r \in Runs, ReviewWrites(r)
  PROVE  IInv'
<1>1. /\ TypeOK /\ RunInv(r) /\ r \in results /\ kind[r] = "research"
      /\ reviewer[r] \in File /\ reviewer[r].key \in Nat
  BY DEF IInv, ReviewWrites, RunInv, StatusOK, TypeOK, File
<1> PICK key \in Nat : key = reviewer[r].key
  BY <1>1
<1> PICK b \in 0..NumRuns : b = baseline(r, key)
  BY <1>1, BaselineIsCandidate
<1>2. PICK v \in {"make sense", "not"} :
        /\ file' = [file EXCEPT ![r] = [status |-> IF reviewer[r].status = "interrupted" THEN reviewer[r].status
                                                                                     ELSE Reviewed(r, v),
                                        key |-> key, baseline |-> b]]
        /\ verdict' = [verdict EXCEPT ![r] = v]
  BY DEF ReviewWrites
<1>3. PICK s \in Status : /\ s = "passed" => v = "make sense" /\ complete[r]
                          /\ file' = [file EXCEPT ![r] = [status |-> s, key |-> key, baseline |-> b]]
  BY <1>2 DEF Reviewed, Status
<1>4. /\ file' \in [Runs -> File \cup {NoFile}]
      /\ file'[r].status = s /\ file'[r].key = key /\ file'[r].baseline = b
      /\ \A q \in Runs \ {r} : file'[q] = file[q]
  <2>1. [status |-> s, key |-> key, baseline |-> b] \in File
    BY DEF File
  <2> QED
    BY <1>1, <1>3, <2>1 DEF TypeOK
<1>5. /\ reviewer' \in [Runs -> File \cup {NoReview}] /\ reviewer'[r] = NoReview
      /\ \A q \in Runs \ {r} : reviewer'[q] = reviewer[q]
  BY <1>1 DEF ReviewWrites, TypeOK
<1>6. /\ verdict' \in [Runs -> {"none", "make sense", "not"}] /\ verdict'[r] = v
      /\ \A q \in Runs \ {r} : verdict'[q] = verdict[q]
  BY <1>1, <1>2 DEF TypeOK
<1>7. TypeOK'
  BY <1>1, <1>4, <1>5, <1>6 DEF ReviewWrites, memory, outcome, TypeOK
<1>8. OnlyRun(r)
  BY <1>4, <1>5, <1>6 DEF ReviewWrites, memory, outcome, OnlyRun
<1>9. PlaceOK(r)' /\ WindowOK(r)'
  BY <1>1 DEF ReviewWrites, memory, outcome, RunInv, PlaceOK, WindowOK
<1>10. StatusOK(r)' /\ EarnedOK(r)'
  BY <1>1, <1>3, <1>4, <1>5, <1>6 DEF ReviewWrites, memory, outcome, RunInv, StatusOK, EarnedOK
<1>11. key # 0 => MeasuredOn(r, key) /\ MeasuredOn(r, key)'
  BY <1>1 DEF ReviewWrites, memory, RunInv, KeyOK, MeasuredOn
<1>12. KeyOK(r)'
  <2>1. file'[r].key = key
    BY <1>4
  <2>2. reviewer'[r].key = 0
    <3>1. reviewer'[r] = NoReview
      BY <1>5
    <3>2. NoReview.key = 0
      BY DEF NoReview, NoFile
    <3> QED
      BY <3>1, <3>2
  <2>3. key # 0 => MeasuredOn(r, key)'
    BY <1>11
  <2> QED
    BY <2>1, <2>2, <2>3 DEF KeyOK, MeasuredOn
<1>13. BaselineOK(r)'
  <2> SUFFICES ASSUME b # 0
               PROVE  BaselineOK(r)'
    BY <1>4 DEF BaselineOK
  <2>1. b \in 1..(r - 1) /\ b \in Runs /\ b # r /\ kind[b] = kind[r] /\ key # 0 /\ MeasuredOn(b, key)
    BY BaselineIsAlike
  <2>2. MeasuredOn(b, key)'
    BY <2>1 DEF ReviewWrites, MeasuredOn
  <2> QED
    BY <1>4, <1>8, <1>11, <2>1, <2>2 DEF BaselineOK, OnlyRun
<1> QED
  BY <1>1, <1>7, <1>8, <1>9, <1>10, <1>12, <1>13, OwnRunOnly DEF IInv, RunInv, ReviewWrites

\* A new generation only joins the measurements that run.
LEMMA ChangesKeeps ==
  ASSUME IInv, Changes
  PROVE  IInv'
<1>1. TypeOK /\ gen \in Nat /\ gen' = gen + 1 /\ gen + 1 \in 1..MaxGen
  BY Generations DEF IInv, Changes
<1>2. ASSUME NEW q \in Runs
      PROVE  seen'[q] = IF pc[q] \in {"probes", "load", "batch"} THEN seen[q] \cup {gen + 1} ELSE seen[q]
  BY <1>2 DEF Changes
<1>3. seen' \in [Runs -> SUBSET (1..MaxGen)]
  BY <1>1 DEF Changes, TypeOK
<1>4. TypeOK'
  BY <1>1, <1>3 DEF Changes, memory, outcome, reviewVars, TypeOK
<1>5. \A q \in Runs, c \in Nat : MeasuredOn(q, c) => MeasuredOn(q, c)'
  BY <1>2 DEF Changes, MeasuredOn
<1>6. ASSUME NEW r \in Runs
      PROVE  RunInv(r)'
  <2>1. RunInv(r)
    BY DEF IInv
  <2>2. PlaceOK(r)' /\ StatusOK(r)' /\ EarnedOK(r)'
    BY <2>1 DEF Changes, memory, outcome, reviewVars, RunInv, PlaceOK, StatusOK, EarnedOK
  <2>3. /\ pc[r] = "before" => before[r].pods <= gen + 1
        /\ \A g \in seen[r] : g <= gen => g <= gen + 1
        /\ pc[r] \in {"probes", "load", "batch"} => before[r].pods <= gen + 1
    <3>1. seen[r] \subseteq 1..MaxGen /\ before[r].pods \in 0..MaxGen
      BY <1>1 DEF TypeOK, Capture
    <3>2. pc[r] \in {"probes", "load", "batch"} => before[r].pods <= gen
      BY <2>1 DEF RunInv, WindowOK
    <3>3. pc[r] = "before" => before[r].pods <= gen
      BY <2>1 DEF RunInv, WindowOK
    <3> QED
      BY <1>1, <3>1, <3>2, <3>3, AuditHistoryAssumption
  <2>4. WindowOK(r)'
    BY <1>1, <1>2, <2>1, <2>3 DEF Changes, memory, RunInv, WindowOK
  <2>5. KeyOK(r)'
    <3>0. file[r] \in File \cup {NoFile} /\ reviewer[r] \in File \cup {NoFile}
      BY <1>1 DEF TypeOK, NoReview
    <3>1. file[r].key \in Nat /\ reviewer[r].key \in Nat
      BY <3>0 DEF File, NoFile
    <3> QED
      BY <1>5, <2>1, <3>1 DEF Changes, reviewVars, RunInv, KeyOK, MeasuredOn
  <2>6. BaselineOK(r)'
    <3>0. file[r] \in File \cup {NoFile}
      BY <1>1 DEF TypeOK
    <3>1. file[r].baseline # 0 => file[r].baseline \in Runs
      BY <3>0, AuditHistoryAssumption DEF File, NoFile, Runs
    <3> QED
      BY <1>5, <2>1, <3>1 DEF Changes, RunInv, BaselineOK
  <2> QED
    BY <2>2, <2>4, <2>5, <2>6 DEF RunInv
<1> QED
  BY <1>4, <1>6 DEF IInv

-----------------------------------------------------------------------------
(* Theorems *)

LEMMA InitInv == Init => IInv
<1> SUFFICES ASSUME Init PROVE IInv
  OBVIOUS
<1>1. TypeOK
  BY AuditHistoryAssumption DEF Init, TypeOK, Unread, Capture, Status, NoReview
<1>2. ASSUME NEW r \in Runs
      PROVE  RunInv(r)
  BY <1>2 DEF Init, RunInv, PlaceOK, StatusOK, EarnedOK, WindowOK, KeyOK, BaselineOK, NoReview, NoFile
<1> QED
  BY <1>1, <1>2 DEF IInv

LEMMA StutterKeeps ==
  ASSUME IInv, UNCHANGED vars
  PROVE  IInv'
<1>1. TypeOK'
  BY DEF IInv, vars, memory, outcome, reviewVars, TypeOK
<1>2. ASSUME NEW r \in Runs
      PROVE  RunInv(r)'
  <2>1. RunInv(r)
    BY DEF IInv
  <2>2. PlaceOK(r)' /\ StatusOK(r)' /\ EarnedOK(r)'
    BY <2>1 DEF vars, memory, outcome, reviewVars, RunInv, PlaceOK, StatusOK, EarnedOK
  <2>3. WindowOK(r)'
    BY <2>1 DEF vars, memory, RunInv, WindowOK
  <2>4. KeyOK(r)'
    BY <2>1 DEF vars, reviewVars, RunInv, KeyOK, MeasuredOn
  <2>5. BaselineOK(r)'
    BY <2>1 DEF vars, RunInv, BaselineOK, MeasuredOn
  <2> QED
    BY <2>2, <2>3, <2>4, <2>5 DEF RunInv
<1> QED
  BY <1>1, <1>2 DEF IInv

LEMMA NextKeeps == IInv /\ [Next]_vars => IInv'
<1> SUFFICES ASSUME IInv, [Next]_vars PROVE IInv'
  OBVIOUS
<1>1. ASSUME NEW r \in Runs, Run(r)
      PROVE  IInv'
  BY <1>1, BeginsKeeps, CapturesBeforeKeeps, ProbesKeeps, LoadKeeps, BatchKeeps, InterruptedKeeps,
     WritesStatusKeeps, CapturesPodsKeeps, SavesKeeps, DiesKeeps DEF Run
<1>2. ASSUME NEW r \in Runs, ReviewReads(r) \/ ReviewWrites(r)
      PROVE  IInv'
  BY <1>2, ReviewReadsKeeps, ReviewWritesKeeps
<1>3. CASE Changes
  BY <1>3, ChangesKeeps
<1>4. CASE UNCHANGED vars
  BY <1>4, StutterKeeps
<1> QED
  BY <1>1, <1>2, <1>3, <1>4 DEF Next

\* The inductive invariant holds in every reachable state of the audits.
THEOREM Invariant == Spec => []IInv
  BY InitInv, NextKeeps, PTL DEF Spec

\* The variables of the history have their types.
THEOREM TypeCorrect == Spec => []TypeOK
<1>1. IInv => TypeOK
  BY DEF IInv
<1> QED
  BY <1>1, Invariant, PTL

\* A comparison is of two runs, each measured on one generation of the
\* deployment, with the same configuration (performance_audit.py, baseline).
THEOREM ComparedIsAlike == Spec => []ComparesLikeWithLike
<1>1. IInv => ComparesLikeWithLike
  <2> SUFFICES ASSUME IInv, NEW r \in Runs, file[r].baseline # 0, NEW b, b = file[r].baseline
               PROVE  /\ b < r /\ kind[b] = kind[r]
                      /\ \E g, h \in 1..MaxGen : seen[b] = {g} /\ seen[r] = {h} /\ Conf[g] = Conf[h]
    BY DEF ComparesLikeWithLike
  <2>1. /\ b \in 1..(r - 1) /\ kind[b] = kind[r]
        /\ \E c \in Nat : MeasuredOn(b, c) /\ MeasuredOn(r, c)
    BY DEF IInv, RunInv, BaselineOK
  <2>2. b < r
    BY <2>1 DEF Runs
  <2> QED
    BY <2>1, <2>2 DEF MeasuredOn
<1> QED
  BY <1>1, Invariant, PTL

\* A run that counts as passed has its workloads, or its answers and a
\* favourable review, behind it (performance_audit.py, review).
THEOREM PassingIsEarned == Spec => []PassedIsEarned
<1>1. IInv => PassedIsEarned
  BY DEF IInv, RunInv, EarnedOK, PassedIsEarned
<1> QED
  BY <1>1, Invariant, PTL

=============================================================================
