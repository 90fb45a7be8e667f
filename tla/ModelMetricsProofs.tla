------------------------- MODULE ModelMetricsProofs -------------------------
(***************************************************************************)
(* Proofs about ModelMetrics, for any Jobs, namespaces, keys and numbers   *)
(* of attempts.                                                            *)
(***************************************************************************)
EXTENDS ModelMetrics, TLAPS

USE DEF cluster, pass

\* Pods are only being read between their listing and the end of a namespace.
LeftOK == pc # "logs" => left = {}

\* Jobs do not become active again.
FinishedOK == \A j \in finished : state[j] # "active"

\* What is never looked at again has been recorded, what has been recorded has
\* left a time under its key ...
SeenOK == seen \cap Sure \subseteq recorded
KeyOK == \A j \in recorded : \E i \in observed : Key[i] = Key[j]

\* ... the listing of pods covers the Jobs that are left to look at ...
PodsOK == pc = "logs" => \A p \in Pods : p[1] \in jobs /\ p \notin gone => p \in pods

\* ... and what a pass has to observe is still ahead of it until it has.
Ahead(j) ==
  \/ pc \in {"list", "pods", "logs"} /\ Namespace[j] \in todo
  \/ pc \in {"pods", "logs"} /\ j \in jobs
  \/ pc = "logs" /\ OnlyPod(j) \in left
PassOK ==
  \A j \in finished \cap Sure :
    state[j] = "succeeded" /\ OnlyPod(j) \notin gone => j \in recorded \/ Ahead(j)

\* The inductive invariant.
IInv == TypeOK /\ LeftOK /\ FinishedOK /\ SeenOK /\ KeyOK /\ PodsOK /\ PassOK

-----------------------------------------------------------------------------
(* Pods *)

LEMMA PodParts ==
  ASSUME NEW p \in Pods
  PROVE  /\ p[1] \in Jobs /\ p[2] \in 1..Attempts[p[1]]
         /\ p = <<p[1], p[2]>>
BY DEF Pods

\* A Job that was tried once has one pod, with the record.
LEMMA SinglePod ==
  ASSUME NEW j \in Sure
  PROVE  /\ j \in Jobs /\ <<j, 1>> \in Pods
         /\ \A p \in Pods : p[1] = j => p = <<j, 1>> /\ HasRecord(p)
<1>0. j \in Jobs /\ j \in Timed /\ Attempts[j] = 1
  BY ModelMetricsAssumption DEF Sure
<1>1. <<j, 1>> \in {j} \X (1..Attempts[j])
  BY <1>0
<1>2. <<j, 1>> \in Pods
  BY <1>0, <1>1 DEF Pods
<1>3. ASSUME NEW p \in Pods, p[1] = j
      PROVE  p = <<j, 1>> /\ HasRecord(p)
  <2>1. p[2] \in 1..1 /\ p = <<p[1], p[2]>>
    BY <1>0, <1>3, PodParts
  <2> QED
    BY <1>0, <1>3, <2>1 DEF HasRecord
<1> QED
  BY <1>0, <1>2, <1>3

-----------------------------------------------------------------------------
(* Every step preserves the invariant *)

\* However a pass ends, nothing of it is left.
LEMMA PublishesKeeps ==
  ASSUME IInv, NEW success \in BOOLEAN, Publishes(success), UNCHANGED <<cluster, seen, observed, recorded>>
  PROVE  IInv'
<1>1. TypeOK'
  BY DEF IInv, TypeOK, Publishes
<1>2. LeftOK' /\ FinishedOK' /\ PodsOK' /\ PassOK'
  BY DEF Publishes, LeftOK, FinishedOK, PodsOK, PassOK
<1>3. SeenOK' /\ KeyOK'
  BY DEF IInv, SeenOK, KeyOK
<1> QED
  BY <1>1, <1>2, <1>3 DEF IInv

LEMMA BeginsKeeps ==
  ASSUME IInv, Begins
  PROVE  IInv'
<1>1. Succeeded \subseteq Jobs /\ \A j \in Succeeded : state[j] = "succeeded"
  BY DEF Succeeded
<1>2. TypeOK'
  BY <1>1 DEF IInv, TypeOK, Begins
<1>3. LeftOK' /\ FinishedOK' /\ SeenOK' /\ KeyOK' /\ PodsOK'
  BY <1>1 DEF IInv, Begins, LeftOK, FinishedOK, SeenOK, KeyOK, PodsOK
<1>4. PassOK'
  <2>1. ASSUME NEW j \in finished'
        PROVE  Namespace[j] \in todo'
    BY <1>1, <2>1 DEF Begins, Namespaces
  <2> QED
    BY <2>1 DEF Begins, PassOK, Ahead
<1> QED
  BY <1>2, <1>3, <1>4 DEF IInv

\* A Job that is not listed has been seen, or is not of this namespace.
LEMMA ListJobsKeeps ==
  ASSUME IInv, ListJobs
  PROVE  IInv'
<1> PICK ns \in todo : todo' = todo \ {ns} /\ jobs' = {j \in Succeeded \ seen : Namespace[j] = ns}
  BY DEF ListJobs
<1>1. TypeOK'
  BY DEF IInv, TypeOK, ListJobs, Succeeded
<1>2. LeftOK' /\ FinishedOK' /\ SeenOK' /\ KeyOK' /\ PodsOK'
  BY DEF IInv, ListJobs, LeftOK, FinishedOK, SeenOK, KeyOK, PodsOK
<1>3. ASSUME NEW j \in finished \cap Sure, state[j] = "succeeded", OnlyPod(j) \notin gone, j \notin recorded
      PROVE  Ahead(j)'
  <2>1. j \in Jobs /\ j \notin seen
    BY <1>3 DEF IInv, TypeOK, SeenOK
  <2>2. Namespace[j] \in todo
    BY <1>3 DEF IInv, PassOK, Ahead, ListJobs
  <2>3. CASE Namespace[j] = ns
    BY <1>3, <2>1, <2>3 DEF ListJobs, Succeeded, Ahead
  <2>4. CASE Namespace[j] # ns
    BY <2>2, <2>4 DEF ListJobs, Ahead
  <2> QED
    BY <2>3, <2>4
<1>4. PassOK'
  BY <1>3 DEF ListJobs, PassOK, Ahead
<1> QED
  BY <1>1, <1>2, <1>4 DEF IInv

LEMMA ListPodsKeeps ==
  ASSUME IInv, ListPods
  PROVE  IInv'
<1>1. left = {}
  BY DEF IInv, LeftOK, ListPods
<1>2. TypeOK'
  BY <1>1 DEF IInv, TypeOK, ListPods
<1>3. LeftOK' /\ FinishedOK' /\ SeenOK' /\ KeyOK' /\ PodsOK'
  BY DEF IInv, ListPods, LeftOK, FinishedOK, SeenOK, KeyOK, PodsOK
<1>4. PassOK'
  BY DEF IInv, ListPods, PassOK, Ahead
<1> QED
  BY <1>2, <1>3, <1>4 DEF IInv

\* From the Jobs that are left to the pods of one of them.
LEMMA NextJobKeeps ==
  ASSUME IInv, NEW j \in Jobs, NextJob(j)
  PROVE  IInv'
<1>1. TypeOK'
  BY DEF IInv, TypeOK, NextJob, OwnedBy
<1>2. LeftOK' /\ FinishedOK' /\ SeenOK' /\ KeyOK' /\ PodsOK'
  BY DEF IInv, NextJob, LeftOK, FinishedOK, SeenOK, KeyOK, PodsOK
<1>3. ASSUME NEW i \in finished \cap Sure, state[i] = "succeeded", OnlyPod(i) \notin gone, i \notin recorded
      PROVE  Ahead(i)'
  <2>1. i \in Jobs /\ Ahead(i)
    BY <1>3 DEF IInv, TypeOK, PassOK
  <2>2. CASE i = j
    <3>1. <<i, 1>> \in Pods /\ <<i, 1>>[1] = i
      BY <1>3, <2>1, SinglePod
    <3>2. <<i, 1>> \in pods
      BY <1>3, <2>2, <3>1 DEF IInv, PodsOK, NextJob, OnlyPod
    <3> QED
      BY <2>2, <3>1, <3>2 DEF NextJob, OwnedBy, Ahead, OnlyPod
  <2>3. CASE i # j
    BY <2>1, <2>3 DEF NextJob, Ahead
  <2> QED
    BY <2>2, <2>3
<1>4. PassOK'
  BY <1>3 DEF NextJob, PassOK, Ahead
<1> QED
  BY <1>1, <1>2, <1>4 DEF IInv

\* The only pod of a Job has the record of its download.
LEMMA ReadLogKeeps ==
  ASSUME IInv, NEW p \in Pods, ReadLog(p)
  PROVE  IInv'
<1>1. /\ p[1] \in Jobs /\ recorded \subseteq recorded' /\ recorded' \subseteq recorded \cup {p[1]}
      /\ seen' = seen \cup {p[1]} /\ left' \subseteq left
  BY PodParts DEF ReadLog
<1>2. p[1] \in Sure => p = <<p[1], 1>> /\ p[1] \in recorded'
  BY <1>1, SinglePod DEF ReadLog
<1>3. TypeOK'
  <2>1. /\ observed' \subseteq recorded' /\ recorded' \subseteq seen'
        /\ \A i, j \in observed' : Key[i] = Key[j] => i = j
    BY <1>1 DEF IInv, TypeOK, ReadLog
  <2> QED
    BY <1>1, <2>1 DEF IInv, TypeOK, ReadLog
<1>4. LeftOK' /\ FinishedOK' /\ PodsOK'
  BY DEF IInv, ReadLog, LeftOK, FinishedOK, PodsOK
<1>5. SeenOK' /\ KeyOK'
  <2>1. SeenOK'
    BY <1>1, <1>2 DEF IInv, SeenOK
  <2>2. ASSUME NEW j \in recorded'
        PROVE  \E i \in observed' : Key[i] = Key[j]
    <3>1. CASE HasRecord(p)
      BY <2>2, <3>1 DEF ReadLog, IInv, KeyOK
    <3>2. CASE ~ HasRecord(p)
      BY <2>2, <3>2 DEF ReadLog, IInv, KeyOK
    <3> QED
      BY <3>1, <3>2
  <2> QED
    BY <2>1, <2>2 DEF KeyOK
<1>6. ASSUME NEW i \in finished \cap Sure, state[i] = "succeeded", OnlyPod(i) \notin gone, i \notin recorded'
      PROVE  Ahead(i)'
  <2>1. i \in Jobs /\ Ahead(i)
    BY <1>1, <1>6 DEF IInv, TypeOK, PassOK
  <2>2. i # p[1]
    BY <1>2, <1>6
  <2>3. OnlyPod(i) # p
    BY <2>2 DEF OnlyPod
  <2> QED
    BY <2>1, <2>3 DEF ReadLog, Ahead
<1>7. PassOK'
  BY <1>6 DEF ReadLog, PassOK
<1> QED
  BY <1>3, <1>4, <1>5, <1>7 DEF IInv

\* A namespace, and the pass, end when nothing of it is left.
LEMMA NamespaceEndsKeeps ==
  ASSUME IInv, NamespaceEnds
  PROVE  IInv'
<1>1. TypeOK'
  BY DEF IInv, TypeOK, NamespaceEnds
<1>2. LeftOK' /\ FinishedOK' /\ SeenOK' /\ KeyOK' /\ PodsOK'
  BY DEF IInv, NamespaceEnds, LeftOK, FinishedOK, SeenOK, KeyOK, PodsOK
<1>3. PassOK'
  BY DEF IInv, NamespaceEnds, PassOK, Ahead
<1> QED
  BY <1>1, <1>2, <1>3 DEF IInv

\* A Job succeeds or is deleted at any time, but only leaves what a pass has
\* to observe.
LEMMA JobChangesKeeps ==
  ASSUME IInv, NEW j \in Jobs, JobChanges(j)
  PROVE  IInv'
<1>1. /\ state' \in [Jobs -> {"active", "succeeded", "deleted"}]
      /\ \A i \in Jobs : /\ state'[i] # "deleted" => state[i] # "deleted"
                         /\ state'[i] = "active" => state[i] = "active"
                         /\ state'[i] = "succeeded" /\ state[i] # "active" => state[i] = "succeeded"
  BY DEF IInv, TypeOK, JobChanges
<1>2. TypeOK'
  BY <1>1 DEF IInv, TypeOK, JobChanges
<1>3. LeftOK' /\ SeenOK' /\ KeyOK'
  BY DEF IInv, JobChanges, LeftOK, SeenOK, KeyOK
<1>4. FinishedOK'
  BY <1>1 DEF IInv, TypeOK, JobChanges, FinishedOK
<1>5. PodsOK'
  BY <1>1, PodParts DEF IInv, JobChanges, PodsOK
<1>6. PassOK'
  BY <1>1 DEF IInv, TypeOK, FinishedOK, JobChanges, PassOK, Ahead
<1> QED
  BY <1>2, <1>3, <1>4, <1>5, <1>6 DEF IInv

\* A pod that goes is one that nothing waits for any more.
LEMMA PodGoneKeeps ==
  ASSUME IInv, NEW p \in Pods, PodGone(p)
  PROVE  IInv'
<1>1. TypeOK'
  BY DEF IInv, TypeOK, PodGone
<1>2. LeftOK' /\ FinishedOK' /\ SeenOK' /\ KeyOK' /\ PodsOK'
  BY DEF IInv, PodGone, LeftOK, FinishedOK, SeenOK, KeyOK, PodsOK
<1>3. PassOK'
  BY DEF IInv, PodGone, PassOK, Ahead
<1> QED
  BY <1>1, <1>2, <1>3 DEF IInv

LEMMA RestartsKeeps ==
  ASSUME IInv, Restarts
  PROVE  IInv'
<1>1. TypeOK'
  BY DEF IInv, TypeOK, Restarts
<1> QED
  BY <1>1 DEF IInv, Restarts, LeftOK, FinishedOK, SeenOK, KeyOK, PodsOK, PassOK

-----------------------------------------------------------------------------
(* Theorems *)

LEMMA InitInv == Init => IInv
<1> SUFFICES ASSUME Init PROVE IInv
  OBVIOUS
<1>1. TypeOK
  BY DEF Init, TypeOK
<1> QED
  BY <1>1 DEF Init, IInv, LeftOK, FinishedOK, SeenOK, KeyOK, PodsOK, PassOK

LEMMA NextKeeps == IInv /\ [Next]_vars => IInv'
<1> SUFFICES ASSUME IInv, [Next]_vars PROVE IInv'
  OBVIOUS
<1>1. ASSUME NEW j \in Jobs, NextJob(j) \/ JobChanges(j)
      PROVE  IInv'
  BY <1>1, NextJobKeeps, JobChangesKeeps
<1>2. ASSUME NEW p \in Pods, ReadLog(p) \/ PodGone(p)
      PROVE  IInv'
  BY <1>2, ReadLogKeeps, PodGoneKeeps
<1>3. ASSUME NEW p \in Pods, LogGone(p)
      PROVE  IInv'
  BY <1>3, PublishesKeeps DEF LogGone
<1>4. CASE PassEnds
  BY <1>4, PublishesKeeps DEF PassEnds
<1>5. CASE Fails
  BY <1>5, PublishesKeeps DEF Fails
<1>6. CASE Begins \/ ListJobs \/ ListPods \/ NamespaceEnds \/ Restarts
  BY <1>6, BeginsKeeps, ListJobsKeeps, ListPodsKeeps, NamespaceEndsKeeps, RestartsKeeps
<1>7. CASE UNCHANGED vars
  <2>1. TypeOK'
    BY <1>7 DEF IInv, TypeOK, vars
  <2> QED
    BY <1>7, <2>1 DEF IInv, vars, LeftOK, FinishedOK, SeenOK, KeyOK, PodsOK, PassOK, Ahead
<1> QED
  BY <1>1, <1>2, <1>3, <1>4, <1>5, <1>6, <1>7 DEF Next, Collects

\* The inductive invariant holds in every reachable state of collect().
THEOREM Invariant == Spec => []IInv
  BY InitInv, NextKeeps, PTL DEF Spec

\* The variables of the exporter have their types; the pods whose logs it is
\* reading are of the listing, and of one Job.
THEOREM TypeCorrect == Spec => []TypeOK
<1>1. IInv => TypeOK
  BY DEF IInv
<1> QED
  BY <1>1, Invariant, PTL

\* A pass that claims success has recorded the time of every Job that had
\* finished before it and is still there with its pod, and shows that time or
\* one that was read later under the same key (metrics.py, collect).
THEOREM NothingIsMissed == Spec => SuccessMissesNothing
<1>1. ASSUME IInv, PassEnds, NEW j \in finished \cap Sure,
             state[j] = "succeeded", OnlyPod(j) \notin gone
      PROVE  Shown(j)
  <2>1. j \in recorded
    BY <1>1 DEF IInv, PassEnds, PassOK, Ahead
  <2> QED
    BY <1>1, <2>1 DEF IInv, KeyOK, Shown
<1>2. IInv /\ [Next]_vars =>
        [PassEnds => \A j \in finished \cap Sure :
           state[j] = "succeeded" /\ OnlyPod(j) \notin gone => Shown(j)]_vars
  BY <1>1
<1> QED
  BY <1>2, Invariant, PTL DEF Spec, SuccessMissesNothing

=============================================================================
