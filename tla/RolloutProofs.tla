--------------------------- MODULE RolloutProofs ---------------------------
(***************************************************************************)
(* Proofs about Rollout, for any set of nodes and topology domains, any    *)
(* allowlist, any number of replicas and of objects of the other backend.  *)
(*                                                                         *)
(* What a gate has read is remembered (seen, read), and what a gate has    *)
(* established must hold from then on while the cluster changes: the       *)
(* history variables checked and known only grow, and the rest is a matter *)
(* of which wave may follow which.                                         *)
(***************************************************************************)
EXTENDS Rollout, FiniteSetTheorems, TLAPS

\* A backend that is gone has no pods but those of an object that an operator
\* has deleted before its pods.
NoOrphan == other = 0 => Of({"other"}) \subseteq strays

\* What the switch gate has read and may delete.
ReadInv == read # 0 => wave = "switch" /\ read \in known /\ REPLACE_BACKEND

\* What a gate has read of the nodes: all of the allowlist, and enough.
SeenInv == seen # {} => Enough(seen) /\ (nodeNames # {} => seen = nodeNames)

\* Past the cache gate, enough nodes have been found with the copy, and all of
\* the allowlist; so have they when the new revision is there.
CheckedInv ==
  /\ wave \in {"switch", "serve", "health", "done"} => Enough(checked) /\ nodeNames \subseteq checked
  /\ target = "new" => nodeNames \subseteq checked

\* The inductive invariant.
IInv ==
  /\ TypeOK
  /\ NoOrphan
  /\ ReadInv
  /\ SeenInv
  /\ CheckedInv
  /\ OneBackend
  /\ DeletesWhatItRead
  /\ ColdNodeKeptOut

-----------------------------------------------------------------------------
(* Enough *)

\* More nodes are in no fewer domains.
LEMMA EnoughGrows ==
  ASSUME NEW S \in SUBSET Nodes, NEW T \in SUBSET Nodes, S \subseteq T, Enough(S)
  PROVE  Enough(T)
<1> DEFINE Domains(X) == {Domain[n] : n \in X}
<1>1. IsFiniteSet(Domains(Nodes)) /\ Required \in Nat
  BY RolloutAssumption
<1>2. Domains(T) \subseteq Domains(Nodes) /\ Domains(S) \subseteq Domains(T)
  OBVIOUS
<1> HIDE DEF Domains
<1>3. IsFiniteSet(Domains(T))
  BY <1>1, <1>2, FS_Subset
<1>4. IsFiniteSet(Domains(S)) /\ Cardinality(Domains(S)) <= Cardinality(Domains(T))
  BY <1>2, <1>3, FS_Subset
<1>5. Cardinality(Domains(S)) \in Nat /\ Cardinality(Domains(T)) \in Nat
  BY <1>3, <1>4, FS_CardinalityType
<1>6. Cardinality(Domains(S)) >= Required
  BY DEF Enough, Domains
<1>7. Cardinality(Domains(T)) >= Required
  BY <1>1, <1>4, <1>5, <1>6
<1> QED
  BY <1>7 DEF Enough, Domains

-----------------------------------------------------------------------------
(* Initial states *)

LEMMA InitInv == Init => IInv
<1> SUFFICES ASSUME Init PROVE IInv
  OBVIOUS
<1>1. TypeOK
  <2>1. made = 1 /\ made \in 0..MaxUid /\ other \in 0..made /\ read \in 0..made
    BY RolloutAssumption DEF Init
  <2>2. known \subseteq 1..made /\ deleted \subseteq 1..made
    BY DEF Init
  <2>3. cache \in [Nodes -> Copies] /\ pods \in [Nodes -> Pods]
    BY DEF Init, Copies, Pods
  <2>4. target \in {"absent", "old", "new"}
    BY DEF Init
  <2> QED
    BY <2>1, <2>2, <2>3, <2>4 DEF Init, TypeOK, Waves
<1>2. NoOrphan
  BY DEF Init, NoOrphan, Of
<1>3. ReadInv /\ SeenInv /\ CheckedInv /\ OneBackend /\ DeletesWhatItRead
  BY DEF Init, ReadInv, SeenInv, CheckedInv, OneBackend, DeletesWhatItRead
<1>4. ColdNodeKeptOut
  BY DEF Init, ColdNodeKeptOut, Of
<1> QED
  BY <1>1, <1>2, <1>3, <1>4 DEF IInv

-----------------------------------------------------------------------------
(* The steps of a gate *)

\* A uid that is not 0 is one that was given.
LEMMA SomeObject ==
  ASSUME TypeOK
  PROVE  made \in Nat /\ (other # 0 => other \in 1..made) /\ (read # 0 => read \in 1..made)
  BY RolloutAssumption DEF TypeOK

LEMMA GateTypes == IInv /\ (Gate \/ GivesUp \/ Sync) => TypeOK'
<1> SUFFICES ASSUME IInv, Gate \/ GivesUp \/ Sync PROVE TypeOK'
  OBVIOUS
<1> USE DEF IInv, TypeOK, Waves, gateVars, nodeVars, backendVars, podVars
<1>1. CASE ReadNodes
  BY <1>1 DEF ReadNodes, Allowed
<1>2. CASE ReadPods
  BY <1>2 DEF ReadPods
<1>3. CASE Published
  BY <1>3 DEF Published
<1>4. CASE ReadCache
  BY <1>4 DEF ReadCache
<1>5. CASE ReadBackend
  <2>1. read' \in 0..made' /\ UNCHANGED made
    BY <1>5 DEF ReadBackend
  <2>2. known' \subseteq 1..made'
    <3>1. known' \in {known, known \cup {other}} /\ (known' # known => other # 0) /\ made' = made
      BY <1>5 DEF ReadBackend
    <3>2. known' # known => other \in 1..made
      BY <3>1, SomeObject
    <3> QED
      BY <3>1, <3>2
  <2>3. wave' \in Waves /\ deleted' \subseteq 1..made' /\ other' \in 0..made' /\ made' \in 0..MaxUid
    <3>1. wave' \in {wave, "serve"} /\ UNCHANGED <<deleted, other, made>>
      BY <1>5 DEF ReadBackend
    <3> QED
      BY <3>1
  <2>4. UNCHANGED <<seen, checked, eligible, cache, declared, busy, dying, target, pods, strays, running, meddled>>
    BY <1>5 DEF ReadBackend
  <2> QED
    BY <2>1, <2>2, <2>3, <2>4
<1>6. CASE DeleteBackend
  <2>1. read' \in 0..made' /\ UNCHANGED made
    BY <1>6 DEF DeleteBackend
  <2>2. deleted' \subseteq 1..made'
    <3>1. deleted' \in {deleted, deleted \cup {read}} /\ read # 0 /\ made' = made
      BY <1>6 DEF DeleteBackend
    <3>2. read \in 1..made
      BY <3>1, SomeObject
    <3> QED
      BY <3>1, <3>2
  <2>3. dying' \in BOOLEAN
    BY <1>6 DEF DeleteBackend
  <2>4. wave' \in Waves /\ known' \subseteq 1..made' /\ other' \in 0..made' /\ made' \in 0..MaxUid
    BY <1>6 DEF DeleteBackend
  <2>5. UNCHANGED <<seen, checked, eligible, cache, declared, busy, target, pods, strays, running, meddled>>
    BY <1>6 DEF DeleteBackend
  <2> QED
    BY <2>1, <2>2, <2>3, <2>4, <2>5
<1>7. CASE ApplyServing
  BY <1>7 DEF ApplyServing
<1>8. CASE Healthy
  BY <1>8 DEF Healthy
<1>9. CASE GivesUp
  BY <1>9 DEF GivesUp
<1>10. CASE Sync
  BY <1>10 DEF Sync
<1> QED
  BY <1>1, <1>2, <1>3, <1>4, <1>5, <1>6, <1>7, <1>8, <1>9, <1>10 DEF Gate

LEMMA GateKeeps == IInv /\ (Gate \/ GivesUp \/ Sync) => IInv'
<1> SUFFICES ASSUME IInv, Gate \/ GivesUp \/ Sync PROVE IInv'
  OBVIOUS
<1>1. TypeOK /\ TypeOK'
  BY GateTypes DEF IInv
<1>2. UNCHANGED <<pods, strays, running>>
  BY DEF Gate, ReadNodes, ReadPods, Published, ReadCache, ReadBackend, DeleteBackend,
     ApplyServing, Healthy, GivesUp, Sync, podVars
<1>3. UNCHANGED other
  BY DEF Gate, ReadNodes, ReadPods, Published, ReadCache, ReadBackend, DeleteBackend,
     ApplyServing, Healthy, GivesUp, Sync, backendVars
<1>4. NoOrphan'
  BY <1>2, <1>3 DEF IInv, NoOrphan, Of
<1>5. checked \subseteq checked'
  BY DEF Gate, ReadNodes, ReadPods, Published, ReadCache, ReadBackend, DeleteBackend,
     ApplyServing, Healthy, GivesUp, Sync
<1>6. ColdNodeKeptOut'
  BY <1>2, <1>5 DEF IInv, ColdNodeKeptOut, Of
<1>7. ReadInv'
  BY DEF IInv, ReadInv, Gate, ReadNodes, ReadPods, Published, ReadCache, ReadBackend,
     DeleteBackend, ApplyServing, Healthy, GivesUp, Sync, backendVars
<1>8. DeletesWhatItRead'
  BY DEF IInv, ReadInv, DeletesWhatItRead, Gate, ReadNodes, ReadPods, Published, ReadCache,
     ReadBackend, DeleteBackend, ApplyServing, Healthy, GivesUp, Sync, backendVars
<1>9. SeenInv'
  <2>1. CASE ReadNodes
    BY <2>1, RolloutAssumption DEF ReadNodes, check_nodes, Allowed, SeenInv, Enough
  <2>2. CASE seen' = {}
    BY <2>2 DEF SeenInv
  <2>3. CASE UNCHANGED seen
    BY <2>3 DEF IInv, SeenInv, Enough
  <2> QED
    BY <2>1, <2>2, <2>3 DEF Gate, ReadPods, Published, ReadCache, ReadBackend, DeleteBackend,
       ApplyServing, Healthy, GivesUp, Sync
<1>10. CheckedInv'
  <2>1. CASE ReadCache
    <3>1. CASE check_cache
      <4>1. seen # {} /\ seen \subseteq Nodes /\ checked' = checked \cup seen /\ UNCHANGED target
        BY <2>1, <3>1, <1>1 DEF ReadCache, backendVars, TypeOK
      <4>2. Enough(seen) /\ (nodeNames # {} => seen = nodeNames)
        BY <4>1 DEF IInv, SeenInv
      <4>3. Enough(checked')
        BY <4>1, <4>2, <1>1, EnoughGrows DEF TypeOK
      <4> QED
        BY <4>1, <4>2, <4>3 DEF CheckedInv, Enough
    <3>2. CASE ~ check_cache
      BY <2>1, <3>2 DEF ReadCache, backendVars, IInv, CheckedInv, Enough
    <3> QED
      BY <3>1, <3>2
  <2>2. CASE ApplyServing
    BY <2>2 DEF ApplyServing, IInv, CheckedInv, Enough
  <2>3. ASSUME UNCHANGED <<checked, target>>,
               wave' \in {"switch", "serve", "health", "done"} =>
                 wave \in {"switch", "serve", "health", "done"}
        PROVE  CheckedInv'
    BY <2>3 DEF IInv, CheckedInv, Enough
  <2> QED
    BY <2>1, <2>2, <2>3 DEF Gate, ReadNodes, ReadPods, Published, ReadBackend, DeleteBackend,
       Healthy, GivesUp, Sync, backendVars
<1>11. OneBackend'
  <2>1. CASE ReadBackend
    BY <2>1, <1>2, <1>3 DEF ReadBackend, IInv, NoOrphan, OneBackend, Of
  <2>2. ASSUME UNCHANGED meddled,
               wave' \in {"serve", "health", "done"} => wave \in {"serve", "health", "done"}
        PROVE  OneBackend'
    BY <2>2, <1>2, <1>3 DEF IInv, OneBackend, Of
  <2>3. CASE Sync
    BY <2>3 DEF Sync, OneBackend
  <2> QED
    BY <2>1, <2>2, <2>3 DEF Gate, ReadNodes, ReadPods, Published, ReadCache, DeleteBackend,
       ApplyServing, Healthy, GivesUp, backendVars
<1> QED
  BY <1>1, <1>4, <1>6, <1>7, <1>8, <1>9, <1>10, <1>11 DEF IInv

-----------------------------------------------------------------------------
(* The steps of the cluster *)

\* Nodes, caches, pods, workloads and operators.
Around ==
  \/ \E n \in Nodes :
       \/ Platform(n) \/ SchedulesOther(n) \/ StrayGoes(n) \/ NodeReady(n) \/ OtherWorkloadLeaves(n)
       \/ NodeLost(n, TRUE) \/ NodeLost(n, FALSE) \/ OtherWorkloadComes(n)
  \/ OtherStops \/ OperatorRetires \/ OperatorCreates

\* None of them changes what the gates know and where they are.
LEMMA GatesStay ==
  Around => UNCHANGED <<wave, seen, read, checked, target, known, deleted>>
  BY DEF Around, Platform, Downloaded, Reported, Schedules, RollsOut, Starts, SchedulesOther,
     StrayGoes, NodeReady, OtherWorkloadLeaves, NodeLost, OtherWorkloadComes, OtherStops, OperatorRetires,
     OperatorCreates, gateVars, backendVars

LEMMA AroundTypes == IInv /\ Around => TypeOK'
<1> SUFFICES ASSUME IInv, Around PROVE TypeOK'
  OBVIOUS
<1> USE DEF IInv, TypeOK, Waves, Copies, Pods, gateVars, nodeVars, backendVars, podVars
<1>1. ASSUME NEW n \in Nodes, Downloaded(n) PROVE TypeOK'
  BY <1>1 DEF Downloaded
<1>2. ASSUME NEW n \in Nodes, Reported(n) PROVE TypeOK'
  BY <1>2 DEF Reported
<1>3. ASSUME NEW n \in Nodes, Schedules(n) PROVE TypeOK'
  BY <1>3 DEF Schedules
<1>4. ASSUME NEW n \in Nodes, RollsOut(n) PROVE TypeOK'
  BY <1>4 DEF RollsOut
<1>5. ASSUME NEW n \in Nodes, Starts(n) PROVE TypeOK'
  BY <1>5 DEF Starts
<1>6. ASSUME NEW n \in Nodes, SchedulesOther(n) PROVE TypeOK'
  BY <1>6 DEF SchedulesOther
<1>7. ASSUME NEW n \in Nodes, NodeReady(n) PROVE TypeOK'
  BY <1>7 DEF NodeReady
<1>8. ASSUME NEW n \in Nodes, OtherWorkloadLeaves(n) PROVE TypeOK'
  BY <1>8 DEF OtherWorkloadLeaves
<1>9. ASSUME NEW n \in Nodes, NEW replaced \in BOOLEAN, NodeLost(n, replaced) PROVE TypeOK'
  BY <1>9 DEF NodeLost
<1>10. ASSUME NEW n \in Nodes, OtherWorkloadComes(n) PROVE TypeOK'
  BY <1>10 DEF OtherWorkloadComes
<1>11. CASE OtherStops
  <2>1. CASE Of({"other"}) \ strays # {}
    <3>1. PICK n \in Of({"other"}) \ strays : pods' = [pods EXCEPT ![n] = "none"]
      BY <1>11, <2>1 DEF OtherStops
    <3>2. n \in Nodes /\ pods[n] = "other" /\ n \notin strays
      BY DEF Of
    <3>3. /\ pods' \in [Nodes -> Pods]
          /\ running \subseteq {m \in Nodes : pods'[m] = "new"}
          /\ strays \subseteq {m \in Nodes : pods'[m] = "other"}
      BY <3>1, <3>2
    <3> QED
      BY <1>11, <2>1, <3>3 DEF OtherStops
  <2>2. CASE Of({"other"}) \ strays = {}
    <3>1. other' \in 0..made' /\ dying' \in BOOLEAN
      <4>1. 0 \in 0..made
        BY RolloutAssumption
      <4>2. other' = 0 /\ dying' = FALSE /\ made' = made
        BY <1>11, <2>2 DEF OtherStops
      <4> QED
        BY <4>1, <4>2
    <3>2. UNCHANGED <<wave, seen, read, checked, eligible, cache, declared, busy, target, pods,
                      strays, running, made, known, deleted, meddled>>
      BY <1>11, <2>2 DEF OtherStops
    <3> QED
      BY <3>1, <3>2
  <2> QED
    BY <2>1, <2>2
<1>12. CASE OperatorRetires
  <2>1. other' \in 0..made'
    <3>1. 0 \in 0..made /\ other \in 0..made
      BY SomeObject
    <3> QED
      BY <1>12, <3>1 DEF OperatorRetires
  <2>2. dying' \in BOOLEAN /\ strays' \subseteq {m \in Nodes : pods'[m] = "other"}
    BY <1>12 DEF OperatorRetires, Of
  <2> QED
    BY <1>12, <2>1, <2>2 DEF OperatorRetires
<1>13. CASE OperatorCreates
  <2>1. made' \in 0..MaxUid /\ other' \in 0..made' /\ read' \in 0..made'
    BY <1>13, RolloutAssumption DEF OperatorCreates
  <2>2. known' \subseteq 1..made' /\ deleted' \subseteq 1..made'
    BY <1>13, RolloutAssumption DEF OperatorCreates
  <2>3. meddled' \in BOOLEAN
    BY <1>13 DEF OperatorCreates
  <2> QED
    BY <1>13, <2>1, <2>2, <2>3 DEF OperatorCreates
<1>14. ASSUME NEW n \in Nodes, StrayGoes(n) PROVE TypeOK'
  BY <1>14 DEF StrayGoes
<1> HIDE DEF IInv, TypeOK
<1> QED
  BY <1>1, <1>2, <1>3, <1>4, <1>5, <1>6, <1>7, <1>8, <1>9, <1>10, <1>11, <1>12, <1>13, <1>14
     DEF Around, Platform

\* Pods of the other backend come only while its object is there, and the
\* object goes only after them, or leaves them as strays.
LEMMA AroundNoOrphan == IInv /\ Around => NoOrphan'
<1> SUFFICES ASSUME IInv, Around PROVE NoOrphan'
  OBVIOUS
<1> USE DEF IInv, TypeOK, NoOrphan, Of, gateVars, nodeVars, backendVars, podVars
<1>1. ASSUME NEW n \in Nodes, Schedules(n) PROVE NoOrphan'
  BY <1>1 DEF Schedules
<1>2. ASSUME NEW n \in Nodes, RollsOut(n) PROVE NoOrphan'
  BY <1>2 DEF RollsOut
<1>3. ASSUME NEW n \in Nodes, SchedulesOther(n) PROVE NoOrphan'
  BY <1>3 DEF SchedulesOther
<1>4. ASSUME NEW n \in Nodes, NEW replaced \in BOOLEAN, NodeLost(n, replaced) PROVE NoOrphan'
  BY <1>4 DEF NodeLost
<1>5. CASE OtherStops
  BY <1>5 DEF OtherStops
<1>6. CASE OperatorCreates
  BY <1>6 DEF OperatorCreates
<1>7. CASE UNCHANGED <<other, pods, strays>>
  BY <1>7
<1>8. ASSUME NEW n \in Nodes, StrayGoes(n) PROVE NoOrphan'
  BY <1>8 DEF StrayGoes
<1>9. CASE OperatorRetires
  BY <1>9 DEF OperatorRetires
<1> HIDE DEF IInv, TypeOK, NoOrphan
<1> QED
  BY <1>1, <1>2, <1>3, <1>4, <1>5, <1>6, <1>7, <1>8, <1>9 DEF Around, Platform, Downloaded, Reported,
     Starts, NodeReady, OtherWorkloadLeaves, OtherWorkloadComes

\* Past the switch the other backend comes back only by an operator.
LEMMA AroundOneBackend == IInv /\ Around => OneBackend'
<1> SUFFICES ASSUME IInv, Around, wave \in {"serve", "health", "done"}, ~ meddled'
             PROVE  other' = 0 /\ Of({"other"})' \subseteq strays'
  BY GatesStay DEF OneBackend
<1>0. ~ OperatorCreates
  BY DEF OperatorCreates
<1>1. ~ meddled
  BY <1>0 DEF Around, Platform, Downloaded, Reported, Schedules, RollsOut, Starts, SchedulesOther,
     StrayGoes, NodeReady, OtherWorkloadLeaves, NodeLost, OtherWorkloadComes, OtherStops, OperatorRetires,
     backendVars
<1>2. other = 0
  BY <1>1 DEF IInv, OneBackend
<1>3. other' = 0
  BY <1>0, <1>2 DEF Around, Platform, Downloaded, Reported, Schedules, RollsOut, Starts,
     SchedulesOther, StrayGoes, NodeReady, OtherWorkloadLeaves, NodeLost, OtherWorkloadComes,
     OtherStops, OperatorRetires, backendVars
<1> QED
  BY <1>3, AroundNoOrphan DEF NoOrphan

\* The allowlist is found warm before the first new pod.
LEMMA AroundKeepsCold == IInv /\ Around => ColdNodeKeptOut'
<1> SUFFICES ASSUME IInv, Around, nodeNames # {} PROVE Of({"new"})' \subseteq checked
  BY GatesStay DEF ColdNodeKeptOut
<1> USE DEF TypeOK, Of, gateVars, nodeVars, backendVars, podVars
<1>1. TypeOK /\ Of({"new"}) \subseteq checked
  BY DEF IInv, ColdNodeKeptOut
<1>2. ASSUME NEW n \in Nodes, Schedules(n) PROVE Of({"new"})' \subseteq checked
  <2>1. n \in checked
    BY <1>2 DEF Schedules, Allowed, IInv, CheckedInv
  <2> QED
    BY <1>1, <1>2, <2>1 DEF Schedules
<1>3. ASSUME NEW n \in Nodes, RollsOut(n) PROVE Of({"new"})' \subseteq checked
  BY <1>1, <1>3 DEF RollsOut
<1>4. ASSUME NEW n \in Nodes, SchedulesOther(n) PROVE Of({"new"})' \subseteq checked
  BY <1>1, <1>4 DEF SchedulesOther
<1>5. ASSUME NEW n \in Nodes, NEW replaced \in BOOLEAN, NodeLost(n, replaced)
      PROVE  Of({"new"})' \subseteq checked
  BY <1>1, <1>5 DEF NodeLost
<1>6. CASE OtherStops
  BY <1>1, <1>6 DEF OtherStops
<1>7. CASE UNCHANGED pods
  BY <1>1, <1>7
<1>8. ASSUME NEW n \in Nodes, StrayGoes(n) PROVE Of({"new"})' \subseteq checked
  BY <1>1, <1>8 DEF StrayGoes
<1> HIDE DEF TypeOK
<1> QED
  BY <1>2, <1>3, <1>4, <1>5, <1>6, <1>7, <1>8 DEF Around, Platform, Downloaded, Reported,
     Starts, NodeReady, OtherWorkloadLeaves, OtherWorkloadComes, OperatorRetires, OperatorCreates

LEMMA AroundKeeps == IInv /\ Around => IInv'
<1> SUFFICES ASSUME IInv, Around PROVE IInv'
  OBVIOUS
<1>1. TypeOK' /\ NoOrphan' /\ OneBackend' /\ ColdNodeKeptOut'
  BY AroundTypes, AroundNoOrphan, AroundOneBackend, AroundKeepsCold
<1>2. ReadInv' /\ SeenInv' /\ CheckedInv' /\ DeletesWhatItRead'
  BY GatesStay DEF IInv, ReadInv, SeenInv, CheckedInv, DeletesWhatItRead, Enough
<1> QED
  BY <1>1, <1>2 DEF IInv

-----------------------------------------------------------------------------
(* The theorems *)

LEMMA StepKeeps == IInv /\ [Next]_vars => IInv'
<1> SUFFICES ASSUME IInv, [Next]_vars PROVE IInv'
  OBVIOUS
<1>1. CASE UNCHANGED vars
  BY <1>1 DEF vars, IInv, TypeOK, NoOrphan, ReadInv, SeenInv, CheckedInv, OneBackend,
     DeletesWhatItRead, ColdNodeKeptOut, Of, Enough
<1>2. CASE Next
  BY <1>2, GateKeeps, AroundKeeps DEF Next, Fault, Around
<1> QED
  BY <1>1, <1>2

\* The inductive invariant.
THEOREM Invariant == Spec => []IInv
  BY InitInv, StepKeeps, PTL DEF Spec

\* Type correctness.
THEOREM TypeCorrect == Spec => []TypeOK
<1>1. IInv => TypeOK
  BY DEF IInv
<1> QED
  BY Invariant, <1>1, PTL

\* Past the switch gate the other backend's object is gone and it has no pods
\* but those that an operator's own deletion left for later, unless an operator
\* has installed it again.
THEOREM SwitchIsComplete == Spec => []OneBackend
<1>1. IInv => OneBackend
  BY DEF IInv
<1> QED
  BY Invariant, <1>1, PTL

\* The switch gate deletes only objects it has read.
THEOREM DeletionIsPrecise == Spec => []DeletesWhatItRead
<1>1. IInv => DeletesWhatItRead
  BY DEF IInv
<1> QED
  BY Invariant, <1>1, PTL

\* With an allowlist, new pods come only to nodes that the cache gate has found
\* with their copy.
THEOREM PlacementIsWarm == Spec => []ColdNodeKeptOut
<1>1. IInv => ColdNodeKeptOut
  BY DEF IInv
<1> QED
  BY Invariant, <1>1, PTL

\* The other backend is deleted only with permission and after enough nodes
\* have been found with the new model's copy.
THEOREM SwitchIsLate == Spec => OldServesUntilReady
<1>1. IInv /\ [Next]_vars => [deleted' # deleted => REPLACE_BACKEND /\ Enough(checked)]_vars
  <2> SUFFICES ASSUME IInv, Next, deleted' # deleted
               PROVE  REPLACE_BACKEND /\ Enough(checked)
    OBVIOUS
  <2>1. DeleteBackend
    <3>1. ~ Around
      BY GatesStay
    <3> QED
      BY <3>1 DEF Next, Fault, Around, Gate, ReadNodes, ReadPods, Published, ReadCache,
         ReadBackend, ApplyServing, Healthy, GivesUp, Sync, backendVars
  <2> QED
    BY <2>1 DEF DeleteBackend, IInv, ReadInv, CheckedInv
<1> QED
  BY Invariant, <1>1, PTL DEF Spec, OldServesUntilReady

=============================================================================
