-------------------------- MODULE NodeCacheProofs --------------------------
(***************************************************************************)
(* Proofs about NodeCache, for any number of Jobs, servers and files.      *)
(***************************************************************************)
EXTENDS NodeCache, FiniteSetTheorems, TLAPS

\* The groups of variables that actions leave unchanged.
USE DEF job, directory, history

\* Past the scan, until the Job ends.
Scanned == {"check", "pool", "drain", "mark", "rename"}

\* A Job between flock and release is the holder of the lock.
LockInv == \A j \in Jobs : pc[j] \in Locked => holder = j

\* Futures exist from the scan to the end of the Job, and threads only run
\* inside the with-block of the executor.
FutureInv ==
  \A j \in Jobs, f \in Files :
    /\ fetch[j][f] # "skip" => pc[j] \in Scanned
    /\ fetch[j][f] \in {"running", "done", "failed"} => pc[j] \in Scanned \ {"check"}
    /\ fetch[j][f] \in {"queued", "running", "failed"} => pc[j] \in {"check", "pool", "drain"}

\* No marker is there while a Job works on the directory.
NoMarkerInv ==
  \A j \in Jobs : pc[j] \in Locked \ {"unlink"} => marker = "none"

\* What a Job does not have to fetch, or has fetched, is verified.
ScanInv ==
  \A j \in Jobs, f \in Files :
    /\ pc[j] \in Scanned \ {"drain"}
    /\ fetch[j][f] \in {"skip", "done"}
    => local[f] = "good" \/ f \in suspect

\* The inductive invariant.
IInv ==
  /\ TypeOK
  /\ LockInv
  /\ FutureInv
  /\ NoMarkerInv
  /\ ScanInv
  /\ MarkerMeansVerified

-----------------------------------------------------------------------------
(* Initial states *)

LEMMA InitInv == Init => IInv
<1> SUFFICES ASSUME Init PROVE IInv
  OBVIOUS
<1>1. TypeOK
  BY NodeCacheAssumption DEF Init, TypeOK, Idle, FetchState, Content
<1>2. LockInv /\ NoMarkerInv
  BY DEF Init, LockInv, NoMarkerInv, Locked
<1>3. FutureInv
  BY DEF Init, FutureInv, Idle
<1>4. ScanInv
  BY DEF Init, ScanInv, Scanned
<1>5. MarkerMeansVerified
  BY DEF Init, MarkerMeansVerified, Verified
<1> QED
  BY <1>1, <1>2, <1>3, <1>4, <1>5 DEF IInv

-----------------------------------------------------------------------------
(* One lemma for each action of a Job *)

LEMMA ReadManifestKeeps ==
  ASSUME IInv, NEW j \in Jobs, NEW valid \in BOOLEAN, ReadManifest(j, valid)
  PROVE  IInv'
<1> USE DEF IInv
<1>1. TypeOK'
  BY DEF ReadManifest, TypeOK, Locked
<1>2. LockInv'
  BY NodeCacheAssumption DEF ReadManifest, LockInv, TypeOK, Locked
<1>3. FutureInv'
  BY DEF ReadManifest, FutureInv, Scanned, TypeOK
<1>4. NoMarkerInv'
  BY DEF ReadManifest, NoMarkerInv, LockInv, TypeOK, Locked
<1>5. ScanInv'
  BY DEF ReadManifest, ScanInv, FutureInv, LockInv, Scanned, Locked, TypeOK
<1>6. MarkerMeansVerified'
  BY DEF ReadManifest, MarkerMeansVerified, Verified, ScanInv, FutureInv, NoMarkerInv, Scanned, Locked, TypeOK
<1> QED
  BY <1>1, <1>2, <1>3, <1>4, <1>5, <1>6

LEMMA AcquireKeeps ==
  ASSUME IInv, NEW j \in Jobs, Acquire(j)
  PROVE  IInv'
<1> USE DEF IInv
<1>1. TypeOK'
  BY DEF Acquire, TypeOK, Locked
<1>2. LockInv'
  BY NodeCacheAssumption DEF Acquire, LockInv, TypeOK, Locked
<1>3. FutureInv'
  BY DEF Acquire, FutureInv, Scanned, TypeOK
<1>4. NoMarkerInv'
  BY DEF Acquire, NoMarkerInv, LockInv, TypeOK, Locked
<1>5. ScanInv'
  BY DEF Acquire, ScanInv, FutureInv, LockInv, Scanned, Locked, TypeOK
<1>6. MarkerMeansVerified'
  BY DEF Acquire, MarkerMeansVerified, Verified, ScanInv, FutureInv, NoMarkerInv, Scanned, Locked, TypeOK
<1> QED
  BY <1>1, <1>2, <1>3, <1>4, <1>5, <1>6

LEMMA UnlinkMarkerKeeps ==
  ASSUME IInv, NEW j \in Jobs, UnlinkMarker(j)
  PROVE  IInv'
<1> USE DEF IInv
<1>1. TypeOK'
  BY DEF UnlinkMarker, Goes, TypeOK, Locked
<1>2. LockInv'
  BY NodeCacheAssumption DEF UnlinkMarker, Goes, LockInv, TypeOK, Locked
<1>3. FutureInv'
  BY DEF UnlinkMarker, Goes, FutureInv, Scanned, TypeOK
<1>4. NoMarkerInv'
  BY DEF UnlinkMarker, Goes, NoMarkerInv, LockInv, TypeOK, Locked
<1>5. ScanInv'
  BY DEF UnlinkMarker, Goes, ScanInv, FutureInv, LockInv, Scanned, Locked, TypeOK
<1>6. MarkerMeansVerified'
  BY DEF UnlinkMarker, Goes, MarkerMeansVerified, Verified, ScanInv, FutureInv, NoMarkerInv, Scanned, Locked, TypeOK
<1> QED
  BY <1>1, <1>2, <1>3, <1>4, <1>5, <1>6

LEMMA SweepPartKeeps ==
  ASSUME IInv, NEW j \in Jobs, SweepPart(j)
  PROVE  IInv'
<1> USE DEF IInv
<1>1. TypeOK'
  BY DEF SweepPart, TypeOK, Locked
<1>2. LockInv'
  BY NodeCacheAssumption DEF SweepPart, LockInv, TypeOK, Locked
<1>3. FutureInv'
  BY DEF SweepPart, FutureInv, Scanned, TypeOK
<1>4. NoMarkerInv'
  BY DEF SweepPart, NoMarkerInv, LockInv, TypeOK, Locked
<1>5. ScanInv'
  BY DEF SweepPart, ScanInv, FutureInv, LockInv, Scanned, Locked, TypeOK
<1>6. MarkerMeansVerified'
  BY DEF SweepPart, MarkerMeansVerified, Verified, ScanInv, FutureInv, NoMarkerInv, Scanned, Locked, TypeOK
<1> QED
  BY <1>1, <1>2, <1>3, <1>4, <1>5, <1>6

LEMMA SweepEndsKeeps ==
  ASSUME IInv, NEW j \in Jobs, SweepEnds(j)
  PROVE  IInv'
<1> USE DEF IInv
<1>1. TypeOK'
  BY DEF SweepEnds, Goes, TypeOK, Locked
<1>2. LockInv'
  BY NodeCacheAssumption DEF SweepEnds, Goes, LockInv, TypeOK, Locked
<1>3. FutureInv'
  BY DEF SweepEnds, Goes, FutureInv, Scanned, TypeOK
<1>4. NoMarkerInv'
  BY DEF SweepEnds, Goes, NoMarkerInv, LockInv, TypeOK, Locked
<1>5. ScanInv'
  BY DEF SweepEnds, Goes, ScanInv, FutureInv, LockInv, Scanned, Locked, TypeOK
<1>6. MarkerMeansVerified'
  BY DEF SweepEnds, Goes, MarkerMeansVerified, Verified, ScanInv, FutureInv, NoMarkerInv, Scanned, Locked, TypeOK
<1> QED
  BY <1>1, <1>2, <1>3, <1>4, <1>5, <1>6

LEMMA ScanKeeps ==
  ASSUME IInv, NEW j \in Jobs, Scan(j)
  PROVE  IInv'
<1> USE DEF IInv
<1>1. TypeOK'
  <2>1. CASE FilesIn({"escape"}) # {}
    <3>1. Idle \in [Files -> FetchState]
      BY DEF Idle, FetchState
    <3>2. fetch' \in [Jobs -> [Files -> FetchState]]
      BY <2>1, <3>1 DEF Scan, Ends, TypeOK
    <3> QED
      BY <2>1, <3>2 DEF Scan, Ends, TypeOK, Locked
  <2>2. CASE FilesIn({"escape"}) = {}
    <3> DEFINE queue == [f \in Files |-> IF f \in Missing THEN "queued" ELSE "skip"]
    <3>1. queue \in [Files -> FetchState]
      BY DEF FetchState
    <3>2. fetch' = [fetch EXCEPT ![j] = queue]
      BY <2>2 DEF Scan
    <3>3. fetch' \in [Jobs -> [Files -> FetchState]]
      <4> HIDE DEF queue
      <4> QED
        BY <3>1, <3>2 DEF TypeOK
    <3> QED
      BY <2>2, <3>3 DEF Scan, Goes, TypeOK, Locked
  <2> QED
    BY <2>1, <2>2
<1>2. LockInv'
  BY NodeCacheAssumption DEF Scan, Goes, Ends, LockInv, TypeOK, Locked
<1>3. FutureInv'
  BY DEF Scan, Goes, Ends, FutureInv, Scanned, TypeOK, Idle
<1>4. NoMarkerInv'
  BY DEF Scan, Goes, Ends, NoMarkerInv, LockInv, TypeOK, Locked
<1>5. ScanInv'
  BY DEF Scan, Goes, Ends, ScanInv, FutureInv, LockInv, Scanned, Locked, TypeOK, Missing, local_valid, Idle
<1>6. MarkerMeansVerified'
  BY DEF Scan, Goes, Ends, MarkerMeansVerified, Verified, ScanInv, FutureInv, NoMarkerInv, Scanned, Locked, TypeOK
<1> QED
  BY <1>1, <1>2, <1>3, <1>4, <1>5, <1>6

LEMMA CheckDiskKeeps ==
  ASSUME IInv, NEW j \in Jobs, NEW writable \in BOOLEAN, CheckDisk(j, writable)
  PROVE  IInv'
<1> USE DEF IInv
<1>1. TypeOK'
  BY DEF CheckDisk, Goes, Ends, TypeOK, Locked, Idle, FetchState
<1>2. LockInv'
  BY NodeCacheAssumption DEF CheckDisk, Goes, Ends, LockInv, TypeOK, Locked
<1>3. FutureInv'
  <2>1. CASE writable /\ disk_check(j)
    BY <2>1 DEF CheckDisk, Goes, FutureInv, Scanned, TypeOK
  <2>2. CASE ~ (writable /\ disk_check(j))
    BY <2>2 DEF CheckDisk, Ends, FutureInv, Scanned, TypeOK, Idle
  <2> QED
    BY <2>1, <2>2
<1>4. NoMarkerInv'
  BY DEF CheckDisk, Goes, Ends, NoMarkerInv, LockInv, TypeOK, Locked
<1>5. ScanInv'
  BY DEF CheckDisk, Goes, Ends, ScanInv, FutureInv, LockInv, Scanned, Locked, TypeOK, Idle
<1>6. MarkerMeansVerified'
  BY DEF CheckDisk, Goes, Ends, MarkerMeansVerified, Verified, ScanInv, FutureInv, NoMarkerInv, Scanned, Locked, TypeOK
<1> QED
  BY <1>1, <1>2, <1>3, <1>4, <1>5, <1>6

LEMMA FetchStartsKeeps ==
  ASSUME IInv, NEW j \in Jobs, NEW f \in Files, FetchStarts(j, f)
  PROVE  IInv'
<1> USE DEF IInv
<1>1. TypeOK'
  BY DEF FetchStarts, TypeOK, Locked, FetchState
<1>2. LockInv'
  BY NodeCacheAssumption DEF FetchStarts, LockInv, TypeOK, Locked
<1>3. FutureInv'
  BY DEF FetchStarts, FutureInv, Scanned, TypeOK, In
<1>4. NoMarkerInv'
  BY DEF FetchStarts, NoMarkerInv, LockInv, TypeOK, Locked
<1>5. ScanInv'
  BY DEF FetchStarts, ScanInv, FutureInv, LockInv, Scanned, Locked, TypeOK
<1>6. MarkerMeansVerified'
  BY DEF FetchStarts, MarkerMeansVerified, Verified, ScanInv, FutureInv, NoMarkerInv, Scanned, Locked, TypeOK
<1> QED
  BY <1>1, <1>2, <1>3, <1>4, <1>5, <1>6

LEMMA FetchEndsKeeps ==
  ASSUME IInv, NEW j \in Jobs, NEW f \in Files, NEW body \in {"absent", "bad", "good"}, FetchEnds(j, f, body)
  PROVE  IInv'
<1> USE DEF IInv
<1>1. TypeOK'
  <2>1. CASE body = "good"
    <3>1. fetch' = [fetch EXCEPT ![j][f] = "done"] /\ local' = [local EXCEPT ![f] = "good"]
      BY <2>1 DEF FetchEnds, local_valid
    <3>2. fetch' \in [Jobs -> [Files -> FetchState]]
      BY <3>1 DEF TypeOK, FetchState
    <3>3. local' \in [Files -> Content]
      BY <3>1 DEF TypeOK, Content
    <3> QED
      BY <3>2, <3>3 DEF FetchEnds, TypeOK
  <2>2. CASE body # "good"
    <3>1. fetch' = [fetch EXCEPT ![j][f] = "failed"] /\ local' = local
      BY <2>2 DEF FetchEnds, local_valid
    <3>2. fetch' \in [Jobs -> [Files -> FetchState]]
      BY <3>1 DEF TypeOK, FetchState
    <3> QED
      BY <3>1, <3>2 DEF FetchEnds, TypeOK
  <2> QED
    BY <2>1, <2>2
<1>2. LockInv'
  BY NodeCacheAssumption DEF FetchEnds, LockInv, TypeOK, Locked
<1>3. FutureInv'
  BY DEF FetchEnds, FutureInv, Scanned, TypeOK
<1>4. NoMarkerInv'
  BY DEF FetchEnds, NoMarkerInv, LockInv, TypeOK, Locked
<1>5. ScanInv'
  BY DEF FetchEnds, ScanInv, FutureInv, LockInv, Scanned, Locked, TypeOK, local_valid
<1>6. MarkerMeansVerified'
  BY DEF FetchEnds, MarkerMeansVerified, Verified, ScanInv, FutureInv, NoMarkerInv, Scanned, Locked, TypeOK, local_valid
<1> QED
  BY <1>1, <1>2, <1>3, <1>4, <1>5, <1>6

LEMMA OverrunsKeeps ==
  ASSUME IInv, NEW j \in Jobs, NEW f \in Files, Overruns(j, f)
  PROVE  IInv'
<1> USE DEF IInv
<1>1. TypeOK'
  BY DEF Overruns, TypeOK
<1>2. LockInv' /\ FutureInv' /\ NoMarkerInv' /\ ScanInv'
  BY DEF Overruns, LockInv, FutureInv, NoMarkerInv, ScanInv
<1>3. MarkerMeansVerified'
  BY DEF Overruns, MarkerMeansVerified, Verified
<1> QED
  BY <1>1, <1>2, <1>3

LEMMA PoolRaisesKeeps ==
  ASSUME IInv, NEW j \in Jobs, PoolRaises(j)
  PROVE  IInv'
<1> USE DEF IInv
<1>1. TypeOK'
  BY DEF PoolRaises, Goes, TypeOK, Locked
<1>2. LockInv'
  BY NodeCacheAssumption DEF PoolRaises, Goes, LockInv, TypeOK, Locked
<1>3. FutureInv'
  BY DEF PoolRaises, Goes, FutureInv, Scanned, TypeOK
<1>4. NoMarkerInv'
  BY DEF PoolRaises, Goes, NoMarkerInv, LockInv, TypeOK, Locked
<1>5. ScanInv'
  BY DEF PoolRaises, Goes, ScanInv, FutureInv, LockInv, Scanned, Locked, TypeOK
<1>6. MarkerMeansVerified'
  BY DEF PoolRaises, Goes, MarkerMeansVerified, Verified, ScanInv, FutureInv, NoMarkerInv, Scanned, Locked, TypeOK
<1> QED
  BY <1>1, <1>2, <1>3, <1>4, <1>5, <1>6

LEMMA CancelQueuedKeeps ==
  ASSUME IInv, NEW j \in Jobs, CancelQueued(j)
  PROVE  IInv'
<1> USE DEF IInv
<1>1. TypeOK'
  BY DEF CancelQueued, TypeOK, Locked, FetchState
<1>2. LockInv'
  BY NodeCacheAssumption DEF CancelQueued, LockInv, TypeOK, Locked
<1>3. FutureInv'
  BY DEF CancelQueued, FutureInv, Scanned, TypeOK, In
<1>4. NoMarkerInv'
  BY DEF CancelQueued, NoMarkerInv, LockInv, TypeOK, Locked
<1>5. ScanInv'
  BY DEF CancelQueued, ScanInv, FutureInv, LockInv, Scanned, Locked, TypeOK
<1>6. MarkerMeansVerified'
  BY DEF CancelQueued, MarkerMeansVerified, Verified, ScanInv, FutureInv, NoMarkerInv, Scanned, Locked, TypeOK
<1> QED
  BY <1>1, <1>2, <1>3, <1>4, <1>5, <1>6

LEMMA DrainedKeeps ==
  ASSUME IInv, NEW j \in Jobs, Drained(j)
  PROVE  IInv'
<1> USE DEF IInv
<1>1. TypeOK'
  BY DEF Drained, Ends, TypeOK, Locked, Idle, FetchState
<1>2. LockInv'
  BY NodeCacheAssumption DEF Drained, Ends, LockInv, TypeOK, Locked
<1>3. FutureInv'
  BY DEF Drained, Ends, FutureInv, Scanned, TypeOK, In, Idle
<1>4. NoMarkerInv'
  BY DEF Drained, Ends, NoMarkerInv, LockInv, TypeOK, Locked
<1>5. ScanInv'
  BY DEF Drained, Ends, ScanInv, FutureInv, LockInv, Scanned, Locked, TypeOK, Idle
<1>6. MarkerMeansVerified'
  BY DEF Drained, Ends, MarkerMeansVerified, Verified, ScanInv, FutureInv, NoMarkerInv, Scanned, Locked, TypeOK
<1> QED
  BY <1>1, <1>2, <1>3, <1>4, <1>5, <1>6

LEMMA PoolEndsKeeps ==
  ASSUME IInv, NEW j \in Jobs, PoolEnds(j)
  PROVE  IInv'
<1> USE DEF IInv
<1>1. TypeOK'
  BY DEF PoolEnds, Goes, TypeOK, Locked
<1>2. LockInv'
  BY NodeCacheAssumption DEF PoolEnds, Goes, LockInv, TypeOK, Locked
<1>3. FutureInv'
  BY DEF PoolEnds, Goes, FutureInv, Scanned, TypeOK
<1>4. NoMarkerInv'
  BY DEF PoolEnds, Goes, NoMarkerInv, LockInv, TypeOK, Locked
<1>5. ScanInv'
  BY DEF PoolEnds, Goes, ScanInv, FutureInv, LockInv, Scanned, Locked, TypeOK
<1>6. MarkerMeansVerified'
  BY DEF PoolEnds, Goes, MarkerMeansVerified, Verified, ScanInv, FutureInv, NoMarkerInv, Scanned, Locked, TypeOK
<1> QED
  BY <1>1, <1>2, <1>3, <1>4, <1>5, <1>6

LEMMA WriteMarkerKeeps ==
  ASSUME IInv, NEW j \in Jobs, WriteMarker(j)
  PROVE  IInv'
<1> USE DEF IInv
<1>1. TypeOK'
  BY DEF WriteMarker, Goes, TypeOK, Locked
<1>2. LockInv'
  BY NodeCacheAssumption DEF WriteMarker, Goes, LockInv, TypeOK, Locked
<1>3. FutureInv'
  BY DEF WriteMarker, Goes, FutureInv, Scanned, TypeOK
<1>4. NoMarkerInv'
  BY DEF WriteMarker, Goes, NoMarkerInv, LockInv, TypeOK, Locked
<1>5. ScanInv'
  BY DEF WriteMarker, Goes, ScanInv, FutureInv, LockInv, Scanned, Locked, TypeOK
<1>6. MarkerMeansVerified'
  BY DEF WriteMarker, Goes, MarkerMeansVerified, Verified, ScanInv, FutureInv, NoMarkerInv, Scanned, Locked, TypeOK
<1> QED
  BY <1>1, <1>2, <1>3, <1>4, <1>5, <1>6

LEMMA InstallMarkerKeeps ==
  ASSUME IInv, NEW j \in Jobs, InstallMarker(j)
  PROVE  IInv'
<1> USE DEF IInv
<1>1. TypeOK'
  BY DEF InstallMarker, Ends, TypeOK, Locked, Idle, FetchState
<1>2. LockInv'
  BY NodeCacheAssumption DEF InstallMarker, Ends, LockInv, TypeOK, Locked
<1>3. FutureInv'
  BY DEF InstallMarker, Ends, FutureInv, Scanned, TypeOK, Idle
<1>4. NoMarkerInv'
  BY DEF InstallMarker, Ends, NoMarkerInv, LockInv, TypeOK, Locked
<1>5. ScanInv'
  BY DEF InstallMarker, Ends, ScanInv, FutureInv, LockInv, Scanned, Locked, TypeOK, Idle
<1>6. MarkerMeansVerified'
  BY DEF InstallMarker, Ends, MarkerMeansVerified, Verified, ScanInv, FutureInv, NoMarkerInv, Scanned, Locked, TypeOK, FetchState
<1> QED
  BY <1>1, <1>2, <1>3, <1>4, <1>5, <1>6

LEMMA KilledKeeps ==
  ASSUME IInv, NEW j \in Jobs, Killed(j)
  PROVE  IInv'
<1> USE DEF IInv
<1>1. TypeOK'
  BY DEF Killed, Ends, TypeOK, Locked, Idle, FetchState
<1>2. LockInv'
  BY NodeCacheAssumption DEF Killed, Ends, LockInv, TypeOK, Locked
<1>3. FutureInv'
  BY DEF Killed, Ends, FutureInv, Scanned, TypeOK, Idle
<1>4. NoMarkerInv'
  BY DEF Killed, Ends, NoMarkerInv, LockInv, TypeOK, Locked
<1>5. ScanInv'
  BY DEF Killed, Ends, ScanInv, FutureInv, LockInv, Scanned, Locked, TypeOK, Idle
<1>6. MarkerMeansVerified'
  BY DEF Killed, Ends, MarkerMeansVerified, Verified, ScanInv, FutureInv, NoMarkerInv, Scanned, Locked, TypeOK
<1> QED
  BY <1>1, <1>2, <1>3, <1>4, <1>5, <1>6

LEMMA RetriedKeeps ==
  ASSUME IInv, NEW j \in Jobs, Retried(j)
  PROVE  IInv'
<1> USE DEF IInv
<1>1. TypeOK'
  BY DEF Retried, TypeOK, Locked
<1>2. LockInv'
  BY NodeCacheAssumption DEF Retried, LockInv, TypeOK, Locked
<1>3. FutureInv'
  BY DEF Retried, FutureInv, Scanned, TypeOK
<1>4. NoMarkerInv'
  BY DEF Retried, NoMarkerInv, LockInv, TypeOK, Locked
<1>5. ScanInv'
  BY DEF Retried, ScanInv, FutureInv, LockInv, Scanned, Locked, TypeOK
<1>6. MarkerMeansVerified'
  BY DEF Retried, MarkerMeansVerified, Verified, ScanInv, FutureInv, NoMarkerInv, Scanned, Locked, TypeOK
<1> QED
  BY <1>1, <1>2, <1>3, <1>4, <1>5, <1>6

-----------------------------------------------------------------------------
(* Damage and the serving containers *)

LEMMA DamagedKeeps ==
  ASSUME IInv, NEW f \in Files, NEW c \in {"absent", "bad"}, Damaged(f, c)
  PROVE  IInv'
<1> USE DEF IInv
<1>1. TypeOK'
  BY DEF Damaged, TypeOK, Content
<1>2. LockInv' /\ FutureInv' /\ NoMarkerInv'
  BY DEF Damaged, LockInv, FutureInv, NoMarkerInv
<1>3. ScanInv'
  BY DEF Damaged, ScanInv, TypeOK
<1>4. MarkerMeansVerified'
  BY DEF Damaged, MarkerMeansVerified, Verified, TypeOK
<1> QED
  BY <1>1, <1>2, <1>3, <1>4

LEMMA ServerKeeps ==
  ASSUME IInv, NEW s \in Servers, CheckMarker(s) \/ Exec(s) \/ EntryFails(s) \/ ServerStops(s)
  PROVE  IInv'
<1> USE DEF IInv
<1>1. TypeOK'
  BY DEF CheckMarker, Exec, EntryFails, ServerStops, TypeOK
<1>2. LockInv' /\ FutureInv' /\ NoMarkerInv' /\ ScanInv'
  BY DEF CheckMarker, Exec, EntryFails, ServerStops, LockInv, FutureInv, NoMarkerInv, ScanInv
<1>3. MarkerMeansVerified'
  BY DEF CheckMarker, Exec, EntryFails, ServerStops, MarkerMeansVerified, Verified
<1> QED
  BY <1>1, <1>2, <1>3

LEMMA StutterKeeps ==
  ASSUME IInv, UNCHANGED vars
  PROVE  IInv'
BY DEF vars, IInv, TypeOK, LockInv, FutureInv, NoMarkerInv, ScanInv,
       MarkerMeansVerified, Verified

-----------------------------------------------------------------------------
(* The invariant *)

\* Every step of the specification keeps the inductive invariant.
LEMMA NextKeeps ==
  ASSUME IInv, [Next]_vars
  PROVE  IInv'
<1>1. ASSUME NEW j \in Jobs, Proceeds(j)
      PROVE  IInv'
  BY <1>1, ReadManifestKeeps, AcquireKeeps, UnlinkMarkerKeeps, SweepPartKeeps,
     SweepEndsKeeps, ScanKeeps, CheckDiskKeeps, FetchStartsKeeps,
     FetchEndsKeeps, PoolRaisesKeeps, CancelQueuedKeeps, DrainedKeeps,
     PoolEndsKeeps, WriteMarkerKeeps, InstallMarkerKeeps
     DEF Proceeds
<1>2. ASSUME NEW j \in Jobs, Retried(j)
      PROVE  IInv'
  BY <1>2, RetriedKeeps
<1>3. ASSUME NEW s \in Servers, CheckMarker(s) \/ Exec(s)
      PROVE  IInv'
  BY <1>3, ServerKeeps
<1>4. CASE Fault
  BY <1>4, ReadManifestKeeps, CheckDiskKeeps, FetchEndsKeeps, OverrunsKeeps, KilledKeeps,
     DamagedKeeps, ServerKeeps
     DEF Fault
<1>5. CASE UNCHANGED vars
  BY <1>5, StutterKeeps
<1> QED
  BY <1>1, <1>2, <1>3, <1>4, <1>5 DEF Next

\* The inductive invariant holds in every reachable state of download(),
\* whatever the number of Jobs and of files.
THEOREM Invariant == Spec => []IInv
<1>1. Init => IInv
  BY InitInv
<1>2. IInv /\ [Next]_vars => IInv'
  BY NextKeeps
<1> QED
  BY <1>1, <1>2, PTL DEF Spec

\* Every variable of the model keeps its type.
THEOREM TypeCorrect == Spec => []TypeOK
BY Invariant, PTL DEF IInv

\* The marker of artifact_store.py:276-279 never stands over a file that no
\* Job has verified, with any number of Jobs, files, kills and retries.
THEOREM MarkerIsSound == Spec => []MarkerMeansVerified
BY Invariant, PTL DEF IInv

\* The lock outlives the last transfer thread of the Job that holds it.
THEOREM LockIsHeld == Spec => []LockCoversPool
<1>1. IInv => LockCoversPool
  BY DEF IInv, LockCoversPool, FutureInv, LockInv, Scanned, Locked
<1> QED
  BY <1>1, Invariant, PTL

-----------------------------------------------------------------------------
(* Action properties *)

\* Damage that no Job has read back yet is damage that no Job has repaired.
DamageInv == \A f \in suspect : local[f] = "good" \/ f \in damaged

\* What an entrypoint may rely on, past its check of the marker.
ServingInv == DamageInv /\ ServesVerified

LEMMA ServingInit == Init => ServingInv
BY DEF Init, ServingInv, DamageInv, ServesVerified

LEMMA ServingKeeps ==
  ASSUME IInv, ServingInv, [Next]_vars
  PROVE  ServingInv'
<1> USE DEF ServingInv
<1>1. ASSUME UNCHANGED <<local, damaged, server>>, suspect' \subseteq suspect
      PROVE  ServingInv'
  BY <1>1 DEF DamageInv, ServesVerified
<1>2. ASSUME NEW j \in Jobs, NEW f \in Files, NEW body \in {"absent", "bad", "good"},
             FetchEnds(j, f, body)
      PROVE  ServingInv'
  <2>1. \A g \in Files : local'[g] = "good" \/ (local'[g] = local[g] /\ (g \in damaged => g \in damaged'))
    BY <1>2 DEF FetchEnds, local_valid, IInv, TypeOK
  <2>2. \A g \in Files : local[g] = "good" => local'[g] = "good"
    BY <1>2 DEF FetchEnds, local_valid, IInv, TypeOK
  <2>3. suspect' = suspect /\ server' = server /\ suspect \subseteq Files
    BY <1>2 DEF FetchEnds, IInv, TypeOK
  <2> QED
    BY <2>1, <2>2, <2>3 DEF DamageInv, ServesVerified
<1>3. ASSUME NEW f \in Files, NEW c \in {"absent", "bad"}, Damaged(f, c)
      PROVE  ServingInv'
  <2>1. \A g \in Files : g # f => local'[g] = local[g]
    BY <1>3 DEF Damaged, IInv, TypeOK
  <2> QED
    BY <1>3, <2>1 DEF Damaged, DamageInv, ServesVerified, IInv, TypeOK
<1>4. ASSUME NEW s \in Servers, CheckMarker(s)
      PROVE  ServingInv'
  <2>1. \A f \in Files : local[f] = "good" \/ f \in damaged
    BY <1>4 DEF CheckMarker, marker_matches, IInv, MarkerMeansVerified, Verified, DamageInv
  <2> QED
    BY <1>4, <2>1 DEF CheckMarker, DamageInv, ServesVerified
<1>5. ASSUME NEW s \in Servers, Exec(s) \/ EntryFails(s) \/ ServerStops(s)
      PROVE  ServingInv'
  <2>1. \A r \in Servers : server'[r] # "off" => server[r] # "off"
    BY <1>5 DEF Exec, EntryFails, ServerStops, IInv, TypeOK
  <2> QED
    BY <1>5, <2>1 DEF Exec, EntryFails, ServerStops, DamageInv, ServesVerified
<1>6. ASSUME NEW j \in Jobs, Proceeds(j)
      PROVE  ServingInv'
  <2>1. ASSUME NEW f \in Files, FetchStarts(j, f)
        PROVE  ServingInv'
    BY <1>1, <2>1 DEF FetchStarts
  <2>2. CASE Scan(j)
    BY <1>1, <2>2 DEF Scan
  <2> QED
    BY <1>1, <1>2, <1>6, <2>1, <2>2
       DEF Proceeds, ReadManifest, Acquire, UnlinkMarker, SweepPart, SweepEnds, CheckDisk,
           PoolRaises, CancelQueued, Drained, PoolEnds, WriteMarker, InstallMarker
<1>7. CASE Fault
  <2>1. ASSUME NEW j \in Jobs, \/ ReadManifest(j, FALSE) \/ CheckDisk(j, FALSE) \/ Killed(j)
                               \/ \E f \in Files : Overruns(j, f)
        PROVE  ServingInv'
    BY <1>1, <2>1 DEF ReadManifest, CheckDisk, Killed, Overruns
  <2> QED
    BY <1>2, <1>3, <1>5, <1>7, <2>1 DEF Fault
<1>8. ASSUME \/ UNCHANGED vars \/ \E j \in Jobs : Retried(j)
      PROVE  ServingInv'
  BY <1>1, <1>8 DEF vars, Retried
<1> HIDE DEF ServingInv
<1> QED
  BY <1>4, <1>5, <1>6, <1>7, <1>8 DEF Next

\* Whatever Jobs do between an entrypoint's check of the marker and vLLM, or
\* under vLLM, it has verified files before it, but for damage: the marker is
\* sound when it is read, and what a Job changes afterwards it repairs.
THEOREM ServingIsVerified == Spec => []ServesVerified
<1>1. IInv /\ ServingInv /\ [Next]_vars => ServingInv'
  BY ServingKeeps
<1>2. ServingInv => ServesVerified
  BY DEF ServingInv
<1> QED
  BY <1>1, <1>2, ServingInit, Invariant, PTL DEF Spec

\* A manifest path changes only into a verified file, or by damage.
THEOREM ReplacedIsVerified == Spec => OnlyVerifiedReplaces
<1>1. ASSUME IInv, [Next]_vars, NEW g \in Files, local'[g] # local[g]
      PROVE  local'[g] = "good" \/ g \in suspect'
  <2>1. ASSUME NEW j \in Jobs, NEW f \in Files, NEW body \in {"absent", "bad", "good"},
               FetchEnds(j, f, body)
        PROVE  local'[g] = "good"
    BY <1>1, <2>1 DEF FetchEnds, local_valid, IInv, TypeOK
  <2>2. ASSUME NEW f \in Files, NEW c \in {"absent", "bad"}, Damaged(f, c)
        PROVE  g \in suspect'
    BY <1>1, <2>2 DEF Damaged, IInv, TypeOK
  <2>3. ASSUME NEW j \in Jobs, Proceeds(j)
        PROVE  local'[g] = "good"
    BY <1>1, <2>1, <2>3 DEF Proceeds, ReadManifest, Acquire, UnlinkMarker, SweepPart,
       SweepEnds, Scan, CheckDisk, FetchStarts, PoolRaises, CancelQueued,
       Drained, PoolEnds, WriteMarker, InstallMarker
  <2>4. CASE Fault
    BY <1>1, <2>1, <2>2, <2>4 DEF Fault, ReadManifest, CheckDisk, Overruns, Killed, EntryFails, ServerStops
  <2>5. CASE \E j \in Jobs : Retried(j)
    BY <1>1, <2>5 DEF Retried
  <2>6. CASE \E s \in Servers : CheckMarker(s) \/ Exec(s)
    BY <1>1, <2>6 DEF CheckMarker, Exec
  <2> QED
    BY <1>1, <2>3, <2>4, <2>5, <2>6 DEF Next, vars
<1>2. IInv /\ [Next]_vars => [\A f \in Files :
         local'[f] # local[f] => local'[f] = "good" \/ f \in suspect']_vars
  BY <1>1
<1> QED
  BY <1>2, Invariant, PTL DEF Spec, OnlyVerifiedReplaces

\* The sweep takes no temporary file of a running transfer: the sweeper holds
\* the lock, and so would the Job of that transfer.
THEOREM SweepIsSafe == Spec => NoLiveTempSwept
<1>1. ASSUME IInv, [Next]_vars, NEW p \in parts, p \notin parts',
             fetch[p[1]][p[2]] = "running"
      PROVE  fetch'[p[1]][p[2]] # "running"
  <2>0. p[1] \in Jobs /\ p[2] \in Files /\ p = <<p[1], p[2]>>
    BY <1>1 DEF IInv, TypeOK
  <2>1. ASSUME NEW j \in Jobs, SweepPart(j)
        PROVE  FALSE
    <3>1. pc[p[1]] \in {"pool", "drain"} /\ holder = p[1]
      BY <1>1, <2>0 DEF IInv, FutureInv, LockInv, Scanned, Locked
    <3>2. holder = j /\ pc[j] = "sweep"
      BY <1>1, <2>1 DEF SweepPart, IInv, LockInv, Locked
    <3> QED
      BY <3>1, <3>2
  <2>2. ASSUME NEW j \in Jobs, NEW f \in Files, NEW body \in {"absent", "bad", "good"},
               FetchEnds(j, f, body)
        PROVE  fetch'[p[1]][p[2]] # "running"
    <3>1. p = <<j, f>>
      BY <1>1, <2>2 DEF FetchEnds
    <3>2. fetch'[j][f] \in {"done", "failed"}
      BY <2>2, <1>1 DEF FetchEnds, IInv, TypeOK
    <3> QED
      BY <3>1, <3>2
  <2>3. ASSUME NEW j \in Jobs, Proceeds(j)
        PROVE  fetch'[p[1]][p[2]] # "running"
    BY <1>1, <2>1, <2>2, <2>3 DEF Proceeds, ReadManifest, Acquire, UnlinkMarker,
       SweepEnds, Scan, CheckDisk, FetchStarts, PoolRaises, CancelQueued,
       Drained, PoolEnds, WriteMarker, InstallMarker
  <2>4. CASE Fault
    BY <1>1, <2>2, <2>4 DEF Fault, ReadManifest, CheckDisk, Overruns, Killed, Damaged, EntryFails, ServerStops
  <2>5. CASE \E j \in Jobs : Retried(j)
    BY <1>1, <2>5 DEF Retried
  <2>6. CASE \E s \in Servers : CheckMarker(s) \/ Exec(s)
    BY <1>1, <2>6 DEF CheckMarker, Exec
  <2> QED
    BY <1>1, <2>3, <2>4, <2>5, <2>6 DEF Next, vars
<1>2. IInv /\ [Next]_vars => [\A p \in parts \ parts' :
         fetch[p[1]][p[2]] = "running" => fetch'[p[1]][p[2]] # "running"]_vars
  BY <1>1
<1> QED
  BY <1>2, Invariant, PTL DEF Spec, NoLiveTempSwept

-----------------------------------------------------------------------------
(* Sums over finite sets.  SumFunctionOnSet is a choice among the functions *)
(* that satisfy a recursive equation: they exist, they agree, and so a sum  *)
(* is one element and the sum over the others, whichever element is taken.  *)

\* Induction, for a set of numbers.
LEMMA SetOfAll ==
  ASSUME NEW N \in SUBSET Nat, 0 \in N, \A n \in N : n + 1 \in N
  PROVE  N = Nat
<1> SUFFICES ASSUME Nat \ N # {} PROVE FALSE
  OBVIOUS
<1>1. PICK m \in Nat \ N : \A y \in Nat \ N : ~ (<<y, m>> \in OpToRel(<, Nat))
  BY NatLessThanWellFounded, WFMin
<1>2. m - 1 \in Nat /\ m - 1 < m /\ (m - 1) + 1 = m
  <2>1. m \in Nat /\ m # 0
    OBVIOUS
  <2> QED
    BY <2>1
<1>3. m - 1 \in N
  BY <1>1, <1>2 DEF OpToRel
<1> QED
  BY <1>1, <1>2, <1>3

Pick(s) == CHOOSE x \in s : TRUE

\* What a sum over S is defined by.
Sums(g, w, S) ==
  g = [s \in SUBSET S |-> IF s = {} THEN 0 ELSE w[Pick(s)] + g[s \ {Pick(s)}]]

\* The community module's sum is the choice of such a function.
LEMMA SumIsChosen ==
  ASSUME NEW w, NEW S
  PROVE  SumFunctionOnSet(w, S) = (CHOOSE g : Sums(g, w, S))[S]
BY DEF SumFunctionOnSet, FoldFunctionOnSet, MapThenFoldSet, Sums, Pick

LEMMA PickIsIn ==
  ASSUME NEW s, s # {}
  PROVE  Pick(s) \in s
BY DEF Pick

\* The sums over a finite set exist
LEMMA SumsExist ==
  ASSUME NEW D, NEW w \in [D -> Nat], NEW S \in SUBSET D, IsFiniteSet(S)
  PROVE  \E g \in [SUBSET S -> Nat] : Sums(g, w, S)
<1> DEFINE Upto(n) == {s \in SUBSET S : Cardinality(s) <= n}
           Good(g, n) == /\ g \in [Upto(n) -> Nat]
                         /\ \A s \in Upto(n) : g[s] = IF s = {} THEN 0 ELSE w[Pick(s)] + g[s \ {Pick(s)}]
           N == {n \in Nat : \E g : Good(g, n)}
<1>1. \A s \in SUBSET S : IsFiniteSet(s) /\ Cardinality(s) \in Nat /\ Cardinality(s) <= Cardinality(S)
  BY FS_Subset, FS_CardinalityType
<1>2. ASSUME NEW s \in SUBSET S, s # {}
      PROVE  /\ Pick(s) \in S /\ w[Pick(s)] \in Nat
             /\ s \ {Pick(s)} \in SUBSET S
             /\ Cardinality(s \ {Pick(s)}) = Cardinality(s) - 1
             /\ Cardinality(s) # 0
  <2>1. Pick(s) \in s
    BY <1>2, PickIsIn
  <2> QED
    BY <1>1, <1>2, <2>1, FS_RemoveElement, FS_EmptySet
<1>3. 0 \in N
  <2> DEFINE z == [s \in Upto(0) |-> 0]
  <2>1. \A s \in Upto(0) : s = {}
    BY <1>1, FS_EmptySet
  <2>2. Good(z, 0)
    BY <2>1
  <2> QED
    BY <2>2
<1>4. ASSUME NEW n \in N
      PROVE  n + 1 \in N
  <2>1. PICK g : Good(g, n)
    OBVIOUS
  <2> DEFINE h == [s \in Upto(n + 1) |-> IF s \in Upto(n) THEN g[s] ELSE w[Pick(s)] + g[s \ {Pick(s)}]]
  <2>2. Upto(n) \subseteq Upto(n + 1)
    BY <1>1
  <2>3. ASSUME NEW s \in Upto(n + 1), s # {}
        PROVE  s \ {Pick(s)} \in Upto(n)
    BY <1>1, <1>2, <2>3
  <2>4. {} \in Upto(n)
    BY FS_EmptySet
  <2>5. h \in [Upto(n + 1) -> Nat]
    <3>1. ASSUME NEW s \in Upto(n + 1), s \notin Upto(n)
          PROVE  w[Pick(s)] + g[s \ {Pick(s)}] \in Nat
      <4>1. s # {} /\ s \in SUBSET S
        BY <2>4, <3>1
      <4>2. w[Pick(s)] \in Nat
        BY <1>2, <4>1
      <4>3. g[s \ {Pick(s)}] \in Nat
        BY <2>1, <2>3, <4>1
      <4> QED
        BY <4>2, <4>3
    <3> QED
      BY <2>1, <3>1
  <2>6. ASSUME NEW s \in Upto(n + 1)
        PROVE  h[s] = IF s = {} THEN 0 ELSE w[Pick(s)] + h[s \ {Pick(s)}]
    <3>1. CASE s = {}
      BY <2>1, <2>4, <3>1
    <3>2. CASE s # {}
      <4>1. s \ {Pick(s)} \in Upto(n) /\ s \ {Pick(s)} \in Upto(n + 1)
        BY <2>2, <2>3, <3>2
      <4>2. h[s \ {Pick(s)}] = g[s \ {Pick(s)}]
        BY <4>1
      <4>3. s \in Upto(n) => g[s] = w[Pick(s)] + g[s \ {Pick(s)}]
        BY <2>1, <3>2
      <4> QED
        BY <3>2, <4>2, <4>3
    <3> QED
      BY <3>1, <3>2
  <2>7. Good(h, n + 1)
    BY <2>5, <2>6
  <2>8. n + 1 \in Nat
    OBVIOUS
  <2> HIDE DEF Good
  <2> QED
    BY <2>7, <2>8
<1>5. N = Nat
  <2> HIDE DEF N
  <2>1. N \subseteq Nat
    BY DEF N
  <2> QED
    BY <1>3, <1>4, <2>1, SetOfAll
<1>6. PICK g : Good(g, Cardinality(S))
  BY <1>1, <1>5
<1>7. Upto(Cardinality(S)) = SUBSET S
  BY <1>1
<1>8. Sums(g, w, S)
  BY <1>6, <1>7 DEF Sums
<1> QED
  BY <1>6, <1>7, <1>8

\* So the sum is one of them
LEMMA SumIsOne ==
  ASSUME NEW D, NEW w \in [D -> Nat], NEW S \in SUBSET D, IsFiniteSet(S)
  PROVE  \E g \in [SUBSET S -> Nat] : Sums(g, w, S) /\ SumFunctionOnSet(w, S) = g[S]
<1> DEFINE g == CHOOSE h : Sums(h, w, S)
           T == {n \in Nat : \A s \in SUBSET S : Cardinality(s) = n => g[s] \in Nat}
<1>1. Sums(g, w, S)
  BY SumsExist
<1> HIDE DEF g
<1>2. \A s \in SUBSET S : IsFiniteSet(s) /\ Cardinality(s) \in Nat
  BY FS_Subset, FS_CardinalityType
<1>3. 0 \in T
  BY <1>1, <1>2, FS_EmptySet DEF Sums
<1>4. ASSUME NEW n \in T
      PROVE  n + 1 \in T
  <2>1. ASSUME NEW s \in SUBSET S, Cardinality(s) = n + 1
        PROVE  g[s] \in Nat
    <3>0. n \in Nat /\ Cardinality({}) = 0
      BY FS_EmptySet
    <3>1. s # {}
      BY <2>1, <3>0
    <3>2. Pick(s) \in s /\ Pick(s) \in D
      BY <3>1, PickIsIn
    <3>3. Cardinality(s \ {Pick(s)}) = n
      BY <1>2, <2>1, <3>2, FS_RemoveElement
    <3>4. g[s \ {Pick(s)}] \in Nat /\ w[Pick(s)] \in Nat
      BY <3>2, <3>3
    <3>5. g[s] = w[Pick(s)] + g[s \ {Pick(s)}]
      BY <1>1, <3>1 DEF Sums
    <3> QED
      BY <3>4, <3>5
  <2> QED
    BY <2>1
<1>5. T = Nat
  <2> HIDE DEF T
  <2>1. T \subseteq Nat
    BY DEF T
  <2> QED
    BY <1>3, <1>4, <2>1, SetOfAll
<1>6. \A s \in SUBSET S : g[s] \in Nat
  BY <1>2, <1>5
<1>7. g \in [SUBSET S -> Nat]
  BY <1>1, <1>6 DEF Sums
<1>8. SumFunctionOnSet(w, S) = g[S]
  BY SumIsChosen DEF g
<1> QED
  BY <1>1, <1>7, <1>8

\* Sums over different sets agree on what they have in common
LEMMA SumsAgree ==
  ASSUME NEW D, NEW w \in [D -> Nat], NEW S \in SUBSET D, IsFiniteSet(S), NEW R \in SUBSET S,
         NEW g, Sums(g, w, S), NEW h, Sums(h, w, R)
  PROVE  g[R] = h[R]
<1> DEFINE T == {n \in Nat : \A s \in SUBSET R : Cardinality(s) = n => g[s] = h[s]}
<1>1. \A s \in SUBSET R : IsFiniteSet(s) /\ Cardinality(s) \in Nat /\ s \in SUBSET S
  BY FS_Subset, FS_CardinalityType
<1>2. 0 \in T
  BY <1>1, FS_EmptySet DEF Sums
<1>3. ASSUME NEW n \in T
      PROVE  n + 1 \in T
  <2>1. ASSUME NEW s \in SUBSET R, Cardinality(s) = n + 1
        PROVE  g[s] = h[s]
    <3>1. s # {} /\ s \in SUBSET S
      BY <1>1, <2>1, FS_EmptySet
    <3>2. Pick(s) \in s
      BY <3>1, PickIsIn
    <3>3. Cardinality(s \ {Pick(s)}) = n
      BY <1>1, <2>1, <3>2, FS_RemoveElement
    <3>4. g[s \ {Pick(s)}] = h[s \ {Pick(s)}]
      BY <3>3
    <3>5. g[s] = w[Pick(s)] + g[s \ {Pick(s)}]
      BY <3>1 DEF Sums
    <3>6. h[s] = w[Pick(s)] + h[s \ {Pick(s)}]
      BY <3>1 DEF Sums
    <3> QED
      BY <3>4, <3>5, <3>6
  <2> QED
    BY <2>1
<1>4. T = Nat
  <2> HIDE DEF T
  <2>1. T \subseteq Nat
    BY DEF T
  <2> QED
    BY <1>2, <1>3, <2>1, SetOfAll
<1> QED
  BY <1>1, <1>4

\* A sum of numbers is a number, and is taken element by element.
LEMMA SumRecurs ==
  ASSUME NEW D, NEW w \in [D -> Nat], NEW S \in SUBSET D, IsFiniteSet(S)
  PROVE  /\ SumFunctionOnSet(w, S) \in Nat
         /\ SumFunctionOnSet(w, S) =
              IF S = {} THEN 0 ELSE w[Pick(S)] + SumFunctionOnSet(w, S \ {Pick(S)})
<1> DEFINE R == S \ {Pick(S)}
<1>0. \A s \in SUBSET D : IsFiniteSet(s) =>
        \E g \in [SUBSET s -> Nat] : Sums(g, w, s) /\ SumFunctionOnSet(w, s) = g[s]
  BY SumIsOne
<1>1. PICK g \in [SUBSET S -> Nat] : Sums(g, w, S) /\ SumFunctionOnSet(w, S) = g[S]
  BY <1>0
<1>2. IsFiniteSet(R) /\ R \in SUBSET S /\ R \in SUBSET D
  BY FS_Subset
<1>3. PICK h \in [SUBSET R -> Nat] : Sums(h, w, R) /\ SumFunctionOnSet(w, R) = h[R]
  <2> HIDE DEF R
  <2> QED
    BY <1>0, <1>2
<1>4. g[R] = h[R]
  BY <1>1, <1>2, <1>3, SumsAgree
<1>5. g[S] = IF S = {} THEN 0 ELSE w[Pick(S)] + g[R]
  BY <1>1 DEF Sums
<1> QED
  BY <1>1, <1>3, <1>4, <1>5

\* A sum is the sum over all elements but one, and that element.
LEMMA SumAdds ==
  ASSUME NEW D, NEW w \in [D -> Nat], NEW S \in SUBSET D, IsFiniteSet(S), NEW x \in D \ S
  PROVE  SumFunctionOnSet(w, S \cup {x}) = SumFunctionOnSet(w, S) + w[x]
<1> DEFINE T == {n \in Nat : \A s \in SUBSET D : IsFiniteSet(s) /\ Cardinality(s) = n =>
                   \A y \in D \ s : SumFunctionOnSet(w, s \cup {y}) = SumFunctionOnSet(w, s) + w[y]}
<1>0. \A y \in D : w[y] \in Nat
  OBVIOUS
<1>1. ASSUME NEW s \in SUBSET D, IsFiniteSet(s), NEW y \in D \ s,
             \A t \in SUBSET D : IsFiniteSet(t) /\ Cardinality(s) = Cardinality(t) + 1 =>
               \A z \in D \ t : SumFunctionOnSet(w, t \cup {z}) = SumFunctionOnSet(w, t) + w[z]
      PROVE  SumFunctionOnSet(w, s \cup {y}) = SumFunctionOnSet(w, s) + w[y]
  <2> DEFINE a == s \cup {y}
             p == Pick(a)
             t == s \ {p}
  <2>1. a \in SUBSET D /\ IsFiniteSet(a) /\ a # {} /\ p \in a
    <3>1. IsFiniteSet(a)
      BY <1>1, FS_AddElement
    <3>2. p \in a
      BY PickIsIn
    <3> QED
      BY <1>1, <3>1, <3>2
  <2>2. SumFunctionOnSet(w, a) = w[p] + SumFunctionOnSet(w, a \ {p})
    BY <2>1, SumRecurs
  <2>3. SumFunctionOnSet(w, s) \in Nat /\ w[y] \in Nat /\ w[p] \in Nat
    BY <1>0, <1>1, <2>1, SumRecurs
  <2> HIDE DEF p
  <2>4. CASE p = y
    <3>1. a \ {p} = s
      BY <2>4
    <3>2. SumFunctionOnSet(w, a) = w[y] + SumFunctionOnSet(w, s)
      BY <2>2, <2>4, <3>1
    <3> QED
      BY <2>3, <3>2
  <2>5. CASE p # y
    <3>1. p \in s /\ a \ {p} = t \cup {y} /\ s = t \cup {p} /\ p \in D \ t /\ y \in D \ t
      BY <2>1, <2>5
    <3>2. t \in SUBSET D /\ IsFiniteSet(t) /\ Cardinality(s) = Cardinality(t) + 1
      <4>1. IsFiniteSet(t) /\ Cardinality(t) = Cardinality(s) - 1 /\ Cardinality(s) \in Nat
        BY <1>1, <3>1, FS_RemoveElement, FS_CardinalityType
      <4> QED
        BY <4>1
    <3>3. SumFunctionOnSet(w, t \cup {y}) = SumFunctionOnSet(w, t) + w[y]
      BY <1>1, <3>1, <3>2
    <3>4. SumFunctionOnSet(w, t \cup {p}) = SumFunctionOnSet(w, t) + w[p]
      BY <1>1, <3>1, <3>2
    <3>5. SumFunctionOnSet(w, t) \in Nat
      BY <3>2, SumRecurs
    <3>6. SumFunctionOnSet(w, a) = w[p] + (SumFunctionOnSet(w, t) + w[y])
      BY <2>2, <3>1, <3>3
    <3>7. SumFunctionOnSet(w, s) = SumFunctionOnSet(w, t) + w[p]
      BY <3>1, <3>4
    <3> QED
      <4> HIDE DEF t
      <4> QED
        BY <2>3, <3>5, <3>6, <3>7
  <2> QED
    BY <2>4, <2>5
<1>2. 0 \in T
  <2>1. ASSUME NEW s \in SUBSET D, IsFiniteSet(s), Cardinality(s) = 0, NEW y \in D \ s
        PROVE  SumFunctionOnSet(w, s \cup {y}) = SumFunctionOnSet(w, s) + w[y]
    <3>1. \A t : IsFiniteSet(t) => Cardinality(s) # Cardinality(t) + 1
      <4>1. ASSUME NEW t, IsFiniteSet(t)
            PROVE  Cardinality(s) # Cardinality(t) + 1
        <5>1. Cardinality(t) \in Nat
          BY <4>1, FS_CardinalityType
        <5> QED
          BY <2>1, <5>1
      <4> QED
        BY <4>1
    <3> QED
      BY <1>1, <2>1, <3>1
  <2> QED
    BY <2>1
<1>3. ASSUME NEW n \in T
      PROVE  n + 1 \in T
  <2>1. ASSUME NEW s \in SUBSET D, IsFiniteSet(s), Cardinality(s) = n + 1, NEW y \in D \ s
        PROVE  SumFunctionOnSet(w, s \cup {y}) = SumFunctionOnSet(w, s) + w[y]
    <3>1. ASSUME NEW t \in SUBSET D, IsFiniteSet(t), Cardinality(s) = Cardinality(t) + 1
          PROVE  \A z \in D \ t : SumFunctionOnSet(w, t \cup {z}) = SumFunctionOnSet(w, t) + w[z]
      <4>1. Cardinality(t) \in Nat /\ Cardinality(t) + 1 = n + 1 /\ n \in Nat
        BY <2>1, <3>1, FS_CardinalityType
      <4>2. Cardinality(t) = n
        BY <4>1
      <4> QED
        BY <3>1, <4>2
    <3> QED
      BY <1>1, <2>1, <3>1
  <2> QED
    BY <2>1
<1>4. T = Nat
  <2> HIDE DEF T
  <2>1. T \subseteq Nat
    BY DEF T
  <2> QED
    BY <1>2, <1>3, <2>1, SetOfAll
<1>5. Cardinality(S) \in Nat
  BY FS_CardinalityType
<1> QED
  BY <1>4, <1>5

\* The same, for an element that is taken away.
LEMMA SumDrops ==
  ASSUME NEW D, NEW w \in [D -> Nat], NEW S \in SUBSET D, IsFiniteSet(S), NEW x \in S
  PROVE  /\ SumFunctionOnSet(w, S) = SumFunctionOnSet(w, S \ {x}) + w[x]
         /\ SumFunctionOnSet(w, S \ {x}) \in Nat
         /\ w[x] \in Nat
<1> DEFINE R == S \ {x}
<1>1. IsFiniteSet(R) /\ R \in SUBSET D /\ x \in D \ R /\ S = R \cup {x}
  BY FS_Subset
<1>2. SumFunctionOnSet(w, R) \in Nat
  <2> HIDE DEF R
  <2> QED
    BY <1>1, SumRecurs
<1>3. SumFunctionOnSet(w, R \cup {x}) = SumFunctionOnSet(w, R) + w[x]
  <2> HIDE DEF R
  <2> QED
    BY <1>1, SumAdds
<1> QED
  BY <1>1, <1>2, <1>3

-----------------------------------------------------------------------------
(* The reserve of free space *)

\* Sizes of the three parts of Free.
Kept == SumFunctionOnSet(Size, FilesIn({"good", "bad"}))
Partial == SumFunctionOnSet(PartSize, parts)
Long == SumFunctionOnSet(ExcessSize, overrun)

\* What would be free if no object were longer than its manifest entry.
Room == Capacity - Kept - Partial

\* What a Job has queued.
Queue(j) == SumFunctionOnSet(Size, In(j, "queued"))

\* What a Job still has to fetch fits over the reserve, from the disk check
\* to the end of the pool; a running transfer has its temporary file, which is
\* gone, or has become the file itself, as soon as it ends; and from the end
\* of the sweep on there is no temporary file but those of running transfers.
RoomInv ==
  /\ IsFiniteSet(parts)
  /\ overrun \subseteq parts
  /\ \A j \in Jobs, f \in Files : fetch[j][f] = "running" => <<j, f>> \in parts
  /\ \A j \in Jobs : pc[j] \in {"scan"} \cup Scanned =>
       \A p \in parts : fetch[p[1]][p[2]] = "running"
  /\ \A j \in Jobs : pc[j] \in {"pool", "drain"} => Room >= Queue(j) + RESERVE

\* The sums over the files of the manifest.
LEMMA FileSums ==
  ASSUME NEW S \in SUBSET Files
  PROVE  /\ IsFiniteSet(S) /\ SumFunctionOnSet(Size, S) \in Nat
         /\ \A f \in Files \ S : SumFunctionOnSet(Size, S \cup {f}) = SumFunctionOnSet(Size, S) + Size[f]
         /\ \A f \in S : /\ SumFunctionOnSet(Size, S) = SumFunctionOnSet(Size, S \ {f}) + Size[f]
                         /\ SumFunctionOnSet(Size, S \ {f}) \in Nat
         /\ \A f \in Files : Size[f] \in Nat
<1>1. IsFiniteSet(Files)
  BY NodeCacheAssumption, FS_Interval DEF Files
<1>2. IsFiniteSet(S)
  BY <1>1, FS_Subset
<1>3. Size \in [Files -> Nat]
  BY NodeCacheAssumption
<1>4. SumFunctionOnSet(Size, S) \in Nat
  BY <1>2, <1>3, SumRecurs
<1>5. \A f \in Files \ S : SumFunctionOnSet(Size, S \cup {f}) = SumFunctionOnSet(Size, S) + Size[f]
  BY <1>2, <1>3, SumAdds
<1>6. \A f \in S : /\ SumFunctionOnSet(Size, S) = SumFunctionOnSet(Size, S \ {f}) + Size[f]
                   /\ SumFunctionOnSet(Size, S \ {f}) \in Nat
  BY <1>2, <1>3, SumDrops
<1> QED
  BY <1>2, <1>3, <1>4, <1>5, <1>6

\* The same for the temporary files.
LEMMA PartSums ==
  ASSUME NEW S \in SUBSET (Jobs \X Files), IsFiniteSet(S)
  PROVE  /\ SumFunctionOnSet(PartSize, S) \in Nat
         /\ \A p \in (Jobs \X Files) \ S :
              SumFunctionOnSet(PartSize, S \cup {p}) = SumFunctionOnSet(PartSize, S) + PartSize[p]
         /\ \A p \in S : /\ SumFunctionOnSet(PartSize, S) = SumFunctionOnSet(PartSize, S \ {p}) + PartSize[p]
                         /\ SumFunctionOnSet(PartSize, S \ {p}) \in Nat
         /\ \A p \in Jobs \X Files : PartSize[p] \in Nat
         /\ \A j \in Jobs, f \in Files : PartSize[<<j, f>>] = Size[f]
<1>1. PartSize \in [Jobs \X Files -> Nat]
  BY NodeCacheAssumption DEF PartSize
<1>2. \A j \in Jobs, f \in Files : PartSize[<<j, f>>] = Size[f]
  BY DEF PartSize
<1>3. SumFunctionOnSet(PartSize, S) \in Nat
  BY <1>1, SumRecurs
<1>4. \A p \in (Jobs \X Files) \ S :
        SumFunctionOnSet(PartSize, S \cup {p}) = SumFunctionOnSet(PartSize, S) + PartSize[p]
  BY <1>1, SumAdds
<1>5. \A p \in S : /\ SumFunctionOnSet(PartSize, S) = SumFunctionOnSet(PartSize, S \ {p}) + PartSize[p]
                   /\ SumFunctionOnSet(PartSize, S \ {p}) \in Nat
  BY <1>1, SumDrops
<1> QED
  BY <1>1, <1>2, <1>3, <1>4, <1>5

\* The same for what they have beyond their manifest entries.
LEMMA ExcessSums ==
  ASSUME NEW S \in SUBSET (Jobs \X Files), IsFiniteSet(S)
  PROVE  /\ SumFunctionOnSet(ExcessSize, S) \in Nat
         /\ \A p \in S : /\ SumFunctionOnSet(ExcessSize, S) =
                              SumFunctionOnSet(ExcessSize, S \ {p}) + ExcessSize[p]
                         /\ SumFunctionOnSet(ExcessSize, S \ {p}) \in Nat
         /\ \A p \in Jobs \X Files : ExcessSize[p] \in Nat
<1>1. ExcessSize \in [Jobs \X Files -> Nat]
  BY NodeCacheAssumption DEF ExcessSize
<1>2. SumFunctionOnSet(ExcessSize, S) \in Nat
  BY <1>1, SumRecurs
<1>3. \A p \in S : /\ SumFunctionOnSet(ExcessSize, S) = SumFunctionOnSet(ExcessSize, S \ {p}) + ExcessSize[p]
                   /\ SumFunctionOnSet(ExcessSize, S \ {p}) \in Nat
  BY <1>1, SumDrops
<1> QED
  BY <1>1, <1>2, <1>3

\* Room is what the files and the temporary files leave.
LEMMA RoomIs ==
  ASSUME IInv, IsFiniteSet(parts)
  PROVE  Kept \in Nat /\ Partial \in Nat /\ Capacity \in Nat /\ Room = Capacity - Kept - Partial
<1>1. FilesIn({"good", "bad"}) \in SUBSET Files /\ parts \in SUBSET (Jobs \X Files)
  BY DEF FilesIn, IInv, TypeOK
<1>2. Kept \in Nat
  BY <1>1, FileSums DEF Kept
<1>3. Partial \in Nat
  BY <1>1, PartSums DEF Partial
<1> QED
  BY <1>2, <1>3, NodeCacheAssumption DEF Room

\* The same after a step.
LEMMA RoomWillBe ==
  ASSUME IInv', IsFiniteSet(parts')
  PROVE  Kept' \in Nat /\ Partial' \in Nat /\ Room' = Capacity - Kept' - Partial'
<1>1. FilesIn({"good", "bad"})' \in SUBSET Files /\ parts' \in SUBSET (Jobs \X Files)
  BY DEF FilesIn, IInv, TypeOK
<1>2. Kept' \in Nat
  BY <1>1, FileSums DEF Kept
<1>3. Partial' \in Nat
  BY <1>1, PartSums DEF Partial
<1> QED
  BY <1>2, <1>3 DEF Room

\* Free is Room without what is too long.
LEMMA FreeIs ==
  ASSUME IInv, RoomInv
  PROVE  Long \in Nat /\ Room \in Int /\ Free = Room - Long
<1>1. IsFiniteSet(overrun) /\ overrun \in SUBSET (Jobs \X Files)
  BY FS_Subset DEF RoomInv, IInv, TypeOK
<1>2. Long \in Nat
  BY <1>1, ExcessSums DEF Long
<1>3. Room \in Int
  BY RoomIs DEF RoomInv
<1> QED
  BY <1>2, <1>3 DEF Free, Room, Kept, Partial, Long

LEMMA FreeWillBe ==
  ASSUME IInv', RoomInv'
  PROVE  Long' \in Nat /\ Room' \in Int /\ Free' = Room' - Long'
<1>1. IsFiniteSet(overrun') /\ overrun' \in SUBSET (Jobs \X Files)
  BY FS_Subset DEF RoomInv, IInv, TypeOK
<1>2. Long' \in Nat
  BY <1>1, ExcessSums DEF Long
<1>3. Room' \in Int
  <2>1. Kept' \in Nat /\ Partial' \in Nat /\ Room' = Capacity - Kept' - Partial'
    BY RoomWillBe DEF RoomInv
  <2> QED
    BY <2>1, NodeCacheAssumption
<1> QED
  BY <1>2, <1>3 DEF Free, Room, Kept, Partial, Long

\* A step that changes no file changes no free space.
LEMMA RoomStays ==
  ASSUME IInv, IsFiniteSet(parts), UNCHANGED <<local, parts>>
  PROVE  Room' = Room /\ Room \in Int
<1>1. Room' = Room
  BY DEF Room, Kept, Partial, FilesIn
<1> QED
  BY <1>1, RoomIs

\* A swept temporary file gives its space back.
LEMMA SweepFrees ==
  ASSUME IInv, IInv', IsFiniteSet(parts), NEW j \in Jobs, SweepPart(j)
  PROVE  IsFiniteSet(parts') /\ Room' >= Room
<1>1. CASE UNCHANGED parts
  BY <1>1, RoomStays DEF SweepPart
<1>2. ASSUME NEW p \in parts, parts' = parts \ {p}
      PROVE  IsFiniteSet(parts') /\ Room' >= Room
  <2>1. IsFiniteSet(parts')
    BY <1>2, FS_Subset
  <2>2. Kept' = Kept
    BY DEF SweepPart, Kept, FilesIn
  <2>3. Partial = Partial' + PartSize[p] /\ PartSize[p] \in Nat
    <3>1. parts \in SUBSET (Jobs \X Files)
      BY DEF IInv, TypeOK
    <3> QED
      BY <1>2, <3>1, PartSums DEF Partial
  <2>4. /\ Kept \in Nat /\ Partial \in Nat /\ Capacity \in Nat
        /\ Room = Capacity - Kept - Partial
    BY RoomIs
  <2>5. Partial' \in Nat /\ Room' = Capacity - Kept' - Partial'
    BY <2>1, RoomWillBe
  <2> QED
    BY <2>1, <2>2, <2>3, <2>4, <2>5
<1> QED
  BY <1>1, <1>2 DEF SweepPart

\* A transfer that starts takes the size of its file at most.
LEMMA StartTakes ==
  ASSUME IInv, IInv', IsFiniteSet(parts), NEW j \in Jobs, NEW f \in Files, FetchStarts(j, f)
  PROVE  IsFiniteSet(parts') /\ Room' >= Room - Size[f]
<1>1. IsFiniteSet(parts')
  BY FS_AddElement DEF FetchStarts
<1>2. Kept' = Kept
  BY DEF FetchStarts, Kept, FilesIn
<1>3. /\ Kept \in Nat /\ Partial \in Nat /\ Capacity \in Nat
      /\ Room = Capacity - Kept - Partial
  BY RoomIs
<1>4. Partial' \in Nat /\ Room' = Capacity - Kept' - Partial'
  BY <1>1, RoomWillBe
<1>5. Size[f] \in Nat
  BY NodeCacheAssumption
<1>6. Partial' = Partial \/ Partial' = Partial + Size[f]
  <2>1. parts \in SUBSET (Jobs \X Files) /\ <<j, f>> \in Jobs \X Files
    BY DEF IInv, TypeOK
  <2>2. parts' = parts \cup {<<j, f>>}
    BY DEF FetchStarts
  <2>3. CASE <<j, f>> \in parts
    <3>1. parts' = parts
      BY <2>2, <2>3
    <3> QED
      BY <3>1 DEF Partial
  <2>4. CASE <<j, f>> \notin parts
    BY <2>1, <2>2, <2>4, PartSums DEF Partial
  <2> QED
    BY <2>3, <2>4
<1> QED
  BY <1>1, <1>2, <1>3, <1>4, <1>5, <1>6

\* One that ends gives its temporary file back, or turns it into the file.
LEMMA EndFrees ==
  ASSUME IInv, IInv', RoomInv, NEW j \in Jobs, NEW f \in Files,
         NEW body \in {"absent", "bad", "good"}, FetchEnds(j, f, body)
  PROVE  IsFiniteSet(parts') /\ Room' >= Room
<1>1. <<j, f>> \in parts /\ IsFiniteSet(parts) /\ parts' = parts \ {<<j, f>>}
  BY DEF RoomInv, FetchEnds
<1>2. IsFiniteSet(parts')
  BY <1>1, FS_Subset
<1>3. /\ Kept \in Nat /\ Partial \in Nat /\ Capacity \in Nat
      /\ Room = Capacity - Kept - Partial
  BY <1>1, RoomIs
<1>4. Kept' \in Nat /\ Partial' \in Nat /\ Room' = Capacity - Kept' - Partial'
  BY <1>2, RoomWillBe
<1>5. Partial = Partial' + Size[f] /\ Size[f] \in Nat
  <2>1. parts \in SUBSET (Jobs \X Files)
    BY DEF IInv, TypeOK
  <2> QED
    BY <1>1, <2>1, PartSums, NodeCacheAssumption DEF Partial
<1>6. Kept' = Kept \/ Kept' = Kept + Size[f]
  <2>1. local' = local \/ local' = [local EXCEPT ![f] = "good"]
    BY DEF FetchEnds, local_valid
  <2>2. CASE local' = local
    BY <2>2 DEF Kept, FilesIn
  <2>3. CASE local' = [local EXCEPT ![f] = "good"]
    <3>1. FilesIn({"good", "bad"})' = FilesIn({"good", "bad"}) \cup {f}
      BY <2>3 DEF FilesIn, IInv, TypeOK
    <3>2. CASE f \in FilesIn({"good", "bad"})
      <4>1. FilesIn({"good", "bad"})' = FilesIn({"good", "bad"})
        BY <3>1, <3>2
      <4> QED
        BY <4>1 DEF Kept
    <3>3. CASE f \notin FilesIn({"good", "bad"})
      <4>1. FilesIn({"good", "bad"}) \in SUBSET Files
        BY DEF FilesIn
      <4> QED
        BY <3>1, <3>3, <4>1, FileSums DEF Kept
    <3> QED
      BY <3>2, <3>3
  <2> QED
    BY <2>1, <2>2, <2>3
<1> QED
  BY <1>2, <1>3, <1>4, <1>5, <1>6

\* Damage leaves a file of the same size or none.
LEMMA DamageFrees ==
  ASSUME IInv, IInv', IsFiniteSet(parts), NEW f \in Files, NEW c \in {"absent", "bad"}, Damaged(f, c)
  PROVE  IsFiniteSet(parts') /\ Room' >= Room
<1>1. parts' = parts
  BY DEF Damaged
<1>2. /\ Kept \in Nat /\ Partial \in Nat /\ Capacity \in Nat
      /\ Room = Capacity - Kept - Partial
  BY RoomIs
<1>3. Kept' \in Nat /\ Partial' = Partial /\ Room' = Capacity - Kept' - Partial'
  <2>1. Partial' = Partial
    BY <1>1 DEF Partial
  <2> QED
    BY <1>1, <2>1, RoomWillBe
<1>4. Kept' = Kept \/ Kept = Kept' + Size[f]
  <2>1. FilesIn({"good", "bad"}) \in SUBSET Files /\ f \in FilesIn({"good", "bad"})
    BY DEF FilesIn, Damaged
  <2>2. CASE c = "bad"
    <3>1. FilesIn({"good", "bad"})' = FilesIn({"good", "bad"})
      BY <2>2 DEF FilesIn, Damaged, IInv, TypeOK
    <3> QED
      BY <3>1 DEF Kept
  <2>3. CASE c = "absent"
    <3>1. FilesIn({"good", "bad"})' = FilesIn({"good", "bad"}) \ {f}
      BY <2>3 DEF FilesIn, Damaged, IInv, TypeOK
    <3> QED
      BY <2>1, <3>1, FileSums DEF Kept
  <2> QED
    BY <2>2, <2>3
<1>5. Room' >= Room
  <2>1. Size[f] \in Nat
    BY NodeCacheAssumption
  <2>2. CASE Kept' = Kept
    <3>1. Room' = Room /\ Room \in Int
      BY <1>2, <1>3, <2>2
    <3> QED
      BY <3>1
  <2>3. CASE Kept = Kept' + Size[f]
    <3>1. Room' = Room + Size[f] /\ Room \in Int
      BY <1>2, <1>3, <2>1, <2>3
    <3> QED
      BY <2>1, <3>1
  <2> QED
    BY <1>4, <2>2, <2>3
<1>6. IsFiniteSet(parts')
  BY <1>1
<1> QED
  BY <1>5, <1>6

\* The file a thread takes is one that is queued.
LEMMA LeastIsIn ==
  ASSUME NEW S \in SUBSET Nat, S # {}
  PROVE  Min(S) \in S
<1>1. PICK m \in S : \A y \in S : ~ (<<y, m>> \in OpToRel(<, Nat))
  BY NatLessThanWellFounded, WFMin
<1>2. \A y \in S : m =< y
  <2>1. ASSUME NEW y \in S
        PROVE  m =< y
    <3>1. m \in Nat /\ y \in Nat
      OBVIOUS
    <3>2. ~ (y < m)
      BY <1>1, <3>1 DEF OpToRel
    <3> QED
      BY <3>1, <3>2
  <2> QED
    BY <2>1
<1> QED
  BY <1>2 DEF Min

LEMMA TakenIsQueued ==
  ASSUME IInv, NEW j \in Jobs, NEW f \in Files, FetchStarts(j, f)
  PROVE  pc[j] \in {"pool", "drain"} /\ f \in In(j, "queued") /\ pc' = pc
<1>1. In(j, "queued") \in SUBSET Nat
  BY NodeCacheAssumption DEF In, Files
<1> QED
  BY <1>1, LeastIsIn DEF FetchStarts

LEMMA QueueIs ==
  ASSUME NEW j \in Jobs
  PROVE  /\ Queue(j) \in Nat /\ RESERVE \in Nat
         /\ disk_check(j) <=> Free >= Queue(j) + RESERVE
<1>1. In(j, "queued") \in SUBSET Files
  BY DEF In
<1> QED
  BY <1>1, FileSums, NodeCacheAssumption DEF Queue, disk_check

\* A step other than the start of a transfer takes no space and queues
\* nothing behind the disk check.
LEMMA SpaceStays ==
  ASSUME IInv, IInv', RoomInv, [Next]_vars,
         ~ \E j \in Jobs, f \in Files : FetchStarts(j, f)
  PROVE  /\ IsFiniteSet(parts') /\ Room' >= Room
<1>1. ASSUME UNCHANGED <<local, parts>>
      PROVE  IsFiniteSet(parts') /\ Room' >= Room
  <2>1. Room' = Room /\ Room \in Int
    BY <1>1, RoomStays DEF RoomInv
  <2>2. IsFiniteSet(parts')
    BY <1>1 DEF RoomInv
  <2> QED
    BY <2>1, <2>2
<1>2. IsFiniteSet(parts)
  BY DEF RoomInv
<1>3. ASSUME NEW j \in Jobs, Proceeds(j)
      PROVE  IsFiniteSet(parts') /\ Room' >= Room
  <2>1. CASE SweepPart(j)
    BY <1>2, <2>1, SweepFrees
  <2>2. ASSUME NEW f \in Files, NEW body \in {"absent", "good"}, FetchEnds(j, f, body)
        PROVE  IsFiniteSet(parts') /\ Room' >= Room
    BY <2>2, EndFrees
  <2> QED
    BY <1>1, <1>3, <2>1, <2>2
       DEF Proceeds, ReadManifest, Acquire, UnlinkMarker, SweepEnds, Scan, CheckDisk,
           PoolRaises, CancelQueued, Drained, PoolEnds, WriteMarker, InstallMarker
<1>4. CASE Fault
  <2>1. ASSUME NEW j \in Jobs, NEW f \in Files, NEW body \in {"absent", "bad"}, FetchEnds(j, f, body)
        PROVE  IsFiniteSet(parts') /\ Room' >= Room
    BY <2>1, EndFrees
  <2>2. ASSUME NEW f \in Files, NEW c \in {"absent", "bad"}, Damaged(f, c)
        PROVE  IsFiniteSet(parts') /\ Room' >= Room
    BY <1>2, <2>2, DamageFrees
  <2> QED
    BY <1>1, <1>4, <2>1, <2>2 DEF Fault, ReadManifest, CheckDisk, Overruns, Killed, EntryFails, ServerStops
<1> QED
  BY <1>1, <1>3, <1>4 DEF Next, Retried, CheckMarker, Exec, vars

LEMMA RoomInit == Init => RoomInv
BY FS_EmptySet DEF Init, RoomInv, Idle

\* Nothing but its end takes the temporary file of a running transfer.
LEMMA RunningStays ==
  ASSUME IInv, RoomInv, [Next]_vars, NEW k \in Jobs, NEW g \in Files, fetch'[k][g] = "running"
  PROVE  <<k, g>> \in parts'
<1>1. fetch[k][g] = "running" => <<k, g>> \in parts
  BY DEF RoomInv
<1>2. ASSUME NEW j \in Jobs, Proceeds(j)
      PROVE  <<k, g>> \in parts'
  <2>1. CASE SweepPart(j)
    <3>1. pc[k] \in {"pool", "drain"} /\ holder = k
      BY <2>1 DEF SweepPart, IInv, FutureInv, LockInv, Scanned, Locked
    <3> QED
      BY <2>1, <3>1 DEF SweepPart, IInv, LockInv, Locked
  <2>2. ASSUME NEW f \in Files, FetchStarts(j, f)
        PROVE  <<k, g>> \in parts'
    BY <1>1, <2>2 DEF FetchStarts, IInv, TypeOK
  <2>3. ASSUME NEW f \in Files, NEW body \in {"absent", "good"}, FetchEnds(j, f, body)
        PROVE  <<k, g>> \in parts'
    BY <1>1, <2>3 DEF FetchEnds, IInv, TypeOK
  <2>4. CASE Scan(j)
    BY <1>1, <2>4 DEF Scan, Ends, Goes, Idle, IInv, TypeOK
  <2>5. CASE CancelQueued(j)
    BY <1>1, <2>5 DEF CancelQueued, IInv, TypeOK
  <2>6. CASE Drained(j) \/ InstallMarker(j) \/ CheckDisk(j, TRUE)
    BY <1>1, <2>6 DEF Drained, InstallMarker, CheckDisk, Ends, Goes, Idle, IInv, TypeOK
  <2> QED
    BY <1>1, <1>2, <2>1, <2>2, <2>3, <2>4, <2>5, <2>6
       DEF Proceeds, ReadManifest, Acquire, UnlinkMarker, SweepEnds,
           PoolRaises, PoolEnds, WriteMarker
<1>3. CASE Fault
  <2>1. ASSUME NEW j \in Jobs, NEW f \in Files, NEW body \in {"absent", "bad"}, FetchEnds(j, f, body)
        PROVE  <<k, g>> \in parts'
    BY <1>1, <2>1 DEF FetchEnds, IInv, TypeOK
  <2>2. ASSUME NEW j \in Jobs, Killed(j) \/ CheckDisk(j, FALSE)
        PROVE  <<k, g>> \in parts'
    BY <1>1, <2>2 DEF Killed, CheckDisk, Ends, Goes, Idle, IInv, TypeOK
  <2> QED
    BY <1>1, <1>3, <2>1, <2>2 DEF Fault, ReadManifest, Overruns, Damaged, EntryFails, ServerStops
<1> QED
  BY <1>1, <1>2, <1>3 DEF Next, Retried, CheckMarker, Exec, vars

\* Too long a temporary file is a temporary file.
LEMMA OverrunStays ==
  ASSUME IInv, RoomInv, [Next]_vars
  PROVE  overrun' \subseteq parts'
<1>1. ASSUME UNCHANGED <<parts, overrun>>
      PROVE  overrun' \subseteq parts'
  BY <1>1 DEF RoomInv
<1>2. ASSUME NEW j \in Jobs, NEW f \in Files, NEW body \in {"absent", "bad", "good"}, FetchEnds(j, f, body)
      PROVE  overrun' \subseteq parts'
  BY <1>2 DEF FetchEnds, RoomInv
<1>3. ASSUME NEW j \in Jobs, Proceeds(j)
      PROVE  overrun' \subseteq parts'
  <2>1. CASE SweepPart(j)
    BY <2>1 DEF SweepPart, RoomInv
  <2>2. ASSUME NEW f \in Files, FetchStarts(j, f)
        PROVE  overrun' \subseteq parts'
    BY <2>2 DEF FetchStarts, RoomInv
  <2> QED
    BY <1>1, <1>2, <1>3, <2>1, <2>2
       DEF Proceeds, ReadManifest, Acquire, UnlinkMarker, SweepEnds, Scan, CheckDisk,
           PoolRaises, CancelQueued, Drained, PoolEnds, WriteMarker, InstallMarker
<1>4. CASE Fault
  <2>1. ASSUME NEW j \in Jobs, NEW f \in Files, Overruns(j, f)
        PROVE  overrun' \subseteq parts'
    BY <2>1 DEF Overruns, RoomInv
  <2> QED
    BY <1>1, <1>2, <1>4, <2>1
       DEF Fault, ReadManifest, CheckDisk, Killed, Damaged, EntryFails, ServerStops
<1> QED
  BY <1>1, <1>3, <1>4 DEF Next, Retried, CheckMarker, Exec, vars

\* A Job that is past its sweep has no temporary files beside it but those of
\* its own running transfers.
LEMMA SweptStays ==
  ASSUME IInv, RoomInv, [Next]_vars, NEW k \in Jobs, pc'[k] \in {"scan"} \cup Scanned,
         NEW p \in parts'
  PROVE  fetch'[p[1]][p[2]] = "running"
<1> DEFINE Goal == fetch'[p[1]][p[2]] = "running"
<1>0. p \in parts => p[1] \in Jobs /\ p[2] \in Files /\ p = <<p[1], p[2]>>
  BY DEF IInv, TypeOK
<1>1. ASSUME NEW j \in Jobs, NEW f \in Files, fetch[j][f] = "running"
      PROVE  pc[j] \in {"pool", "drain"} /\ holder = j
  BY <1>1 DEF IInv, FutureInv, LockInv, Scanned, Locked
<1>2. ASSUME UNCHANGED <<pc, fetch, parts>>
      PROVE  Goal
  BY <1>2 DEF RoomInv
<1>3. ASSUME NEW j \in Jobs, NEW f \in Files, NEW body \in {"absent", "bad", "good"}, FetchEnds(j, f, body)
      PROVE  Goal
  <2>1. p \in parts /\ p # <<j, f>> /\ pc' = pc
    BY <1>3 DEF FetchEnds
  <2>2. fetch[p[1]][p[2]] = "running"
    BY <2>1 DEF RoomInv
  <2> QED
    BY <1>0, <1>3, <2>1, <2>2 DEF FetchEnds, IInv, TypeOK
<1>4. ASSUME NEW j \in Jobs, pc'[j] = "failed" \/ pc'[j] = "succeeded",
             fetch' = [fetch EXCEPT ![j] = Idle], pc' = [pc EXCEPT ![j] = pc'[j]], parts' = parts,
             pc[j] \in Locked \/ j # holder
      PROVE  Goal
  <2>1. k # j /\ pc[k] = pc'[k] /\ holder = k
    BY <1>4 DEF IInv, TypeOK, LockInv, Scanned, Locked
  <2>2. fetch[p[1]][p[2]] = "running"
    BY <1>4, <2>1 DEF RoomInv
  <2>3. p[1] = k
    BY <1>0, <1>1, <1>4, <2>1, <2>2
  <2> QED
    BY <1>0, <1>4, <2>1, <2>2, <2>3 DEF IInv, TypeOK
<1>5. ASSUME NEW j \in Jobs, Proceeds(j)
      PROVE  Goal
  <2>1. ASSUME ReadManifest(j, TRUE) \/ Acquire(j) \/ UnlinkMarker(j)
        PROVE  Goal
    BY <1>2, <2>1 DEF ReadManifest, Acquire, UnlinkMarker, Goes, RoomInv, IInv, TypeOK, Scanned
  <2>2. CASE SweepPart(j)
    BY <2>2 DEF SweepPart, RoomInv
  <2>3. CASE SweepEnds(j)
    BY <2>3 DEF SweepEnds
  <2>4. CASE Scan(j)
    <3>1. parts = {}
      <4>1. ASSUME NEW q \in parts
            PROVE  FALSE
        <5>1. q[1] \in Jobs /\ q[2] \in Files
          BY <4>1 DEF IInv, TypeOK
        <5>2. fetch[q[1]][q[2]] = "running"
          BY <2>4 DEF Scan, RoomInv
        <5> QED
          BY <1>1, <2>4, <5>1, <5>2 DEF Scan, IInv, LockInv, Locked
      <4> QED
        BY <4>1
    <3> QED
      BY <2>4, <3>1 DEF Scan
  <2>5. CASE CheckDisk(j, TRUE)
    <3>1. parts = {}
      <4>1. ASSUME NEW q \in parts
            PROVE  FALSE
        <5>1. q[1] \in Jobs /\ q[2] \in Files
          BY <4>1 DEF IInv, TypeOK
        <5>2. fetch[q[1]][q[2]] = "running"
          BY <2>5 DEF CheckDisk, RoomInv, Scanned
        <5> QED
          BY <1>1, <2>5, <5>1, <5>2 DEF CheckDisk, IInv, LockInv, Locked
      <4> QED
        BY <4>1
    <3> QED
      BY <2>5, <3>1 DEF CheckDisk
  <2>6. ASSUME NEW f \in Files, FetchStarts(j, f)
        PROVE  Goal
    <3>1. pc' = pc /\ fetch'[j][f] = "running"
      BY <2>6 DEF FetchStarts, IInv, TypeOK
    <3>2. CASE p = <<j, f>>
      BY <3>1, <3>2
    <3>3. CASE p # <<j, f>>
      <4>1. p \in parts /\ fetch[p[1]][p[2]] = "running"
        BY <2>6, <3>1, <3>3 DEF FetchStarts, RoomInv
      <4> QED
        BY <1>0, <2>6, <3>1, <4>1 DEF FetchStarts, IInv, TypeOK
    <3> QED
      BY <3>2, <3>3
  <2>7. CASE PoolRaises(j) \/ PoolEnds(j) \/ WriteMarker(j)
    <3>1. pc[k] \in {"scan"} \cup Scanned /\ fetch' = fetch /\ parts' = parts
      BY <2>7 DEF PoolRaises, PoolEnds, WriteMarker, Goes, IInv, TypeOK, Scanned
    <3> QED
      BY <3>1 DEF RoomInv
  <2>8. CASE CancelQueued(j)
    <3>1. p \in parts /\ fetch[p[1]][p[2]] = "running"
      BY <2>8 DEF CancelQueued, RoomInv
    <3> QED
      BY <1>0, <2>8, <3>1 DEF CancelQueued, IInv, TypeOK
  <2>9. CASE Drained(j) \/ InstallMarker(j)
    BY <1>4, <2>9 DEF Drained, InstallMarker, Ends, Locked, IInv, TypeOK
  <2> QED
    BY <1>3, <1>5, <2>1, <2>2, <2>3, <2>4, <2>5, <2>6, <2>7, <2>8, <2>9 DEF Proceeds
<1>6. CASE Fault
  <2>1. ASSUME NEW j \in Jobs, ReadManifest(j, FALSE)
        PROVE  Goal
    BY <2>1 DEF ReadManifest, RoomInv, IInv, TypeOK, Scanned
  <2>2. ASSUME NEW j \in Jobs, CheckDisk(j, FALSE)
        PROVE  Goal
    BY <1>4, <2>2 DEF CheckDisk, Ends, Locked, IInv, TypeOK
  <2>3. ASSUME NEW j \in Jobs, Killed(j)
        PROVE  Goal
    <3>1. k # j /\ pc[k] = pc'[k] /\ holder = k
      BY <2>3 DEF Killed, Ends, IInv, TypeOK, LockInv, Scanned, Locked
    <3>2. p \in parts /\ fetch[p[1]][p[2]] = "running"
      BY <2>3, <3>1 DEF Killed, RoomInv
    <3>3. p[1] = k
      BY <1>0, <1>1, <3>1, <3>2
    <3> QED
      BY <1>0, <2>3, <3>1, <3>2, <3>3 DEF Killed, Ends, IInv, TypeOK
  <2> QED
    BY <1>2, <1>3, <1>6, <2>1, <2>2, <2>3
       DEF Fault, Overruns, Damaged, EntryFails, ServerStops
<1>7. ASSUME NEW j \in Jobs, Retried(j)
      PROVE  Goal
  BY <1>7 DEF Retried, RoomInv, IInv, TypeOK, Scanned
<1>8. ASSUME \/ UNCHANGED vars \/ \E s \in Servers : CheckMarker(s) \/ Exec(s)
      PROVE  Goal
  BY <1>2, <1>8 DEF vars, CheckMarker, Exec
<1> HIDE DEF Goal
<1> QED
  BY <1>5, <1>6, <1>7, <1>8 DEF Next, Goal

\* What a Job has to fetch behind the disk check was queued before it, until
\* it is taken or cancelled.
LEMMA QueueStays ==
  ASSUME IInv, [Next]_vars, NEW k \in Jobs, pc'[k] \in {"pool", "drain"},
         ~ \E f \in Files : FetchStarts(k, f)
  PROVE  \/ disk_check(k) /\ UNCHANGED <<local, parts, fetch>>
         \/ /\ pc[k] \in {"pool", "drain"}
            /\ In(k, "queued")' = In(k, "queued") \/ In(k, "queued")' = {}
<1> DEFINE Same == /\ pc[k] \in {"pool", "drain"}
                   /\ In(k, "queued")' = In(k, "queued") \/ In(k, "queued")' = {}
<1>1. ASSUME pc[k] \in {"pool", "drain"}, fetch'[k] = fetch[k]
      PROVE  Same
  BY <1>1 DEF In
<1> DEFINE Fails(j) == \/ ReadManifest(j, FALSE) \/ CheckDisk(j, FALSE) \/ Killed(j)
                       \/ \E f \in Files, body \in {"absent", "bad"} : FetchEnds(j, f, body)
<1>2. ASSUME NEW j \in Jobs, j # k, Proceeds(j) \/ Retried(j) \/ Fails(j)
      PROVE  pc'[k] = pc[k] /\ fetch'[k] = fetch[k]
  <2>1. CASE Proceeds(j)
    BY <1>2, <2>1
       DEF Proceeds, ReadManifest, Acquire, UnlinkMarker, SweepPart, SweepEnds, Scan, CheckDisk,
           FetchStarts, FetchEnds, PoolRaises, CancelQueued, Drained, PoolEnds, WriteMarker,
           InstallMarker, Goes, Ends, IInv, TypeOK
  <2>2. CASE Retried(j) \/ Fails(j)
    BY <1>2, <2>2 DEF Retried, ReadManifest, CheckDisk, Killed, FetchEnds, Goes, Ends, IInv, TypeOK
  <2> QED
    BY <1>2, <2>1, <2>2
<1>3. ASSUME NEW writable \in BOOLEAN, CheckDisk(k, writable)
      PROVE  disk_check(k) /\ UNCHANGED <<local, parts, fetch>>
  BY <1>3 DEF CheckDisk, Goes, Ends, IInv, TypeOK
<1>4. ASSUME NEW f \in Files, NEW body \in {"absent", "bad", "good"}, FetchEnds(k, f, body)
      PROVE  Same
  <2>1. pc[k] \in {"pool", "drain"}
    BY <1>4 DEF FetchEnds
  <2>2. \A g \in Files : fetch'[k][g] = "queued" <=> fetch[k][g] = "queued"
    BY <1>4 DEF FetchEnds, IInv, TypeOK
  <2> QED
    BY <2>1, <2>2 DEF In
<1>5. CASE CancelQueued(k)
  <2>1. \A g \in Files : fetch'[k][g] # "queued"
    BY <1>5 DEF CancelQueued, IInv, TypeOK
  <2> QED
    BY <1>5, <2>1 DEF CancelQueued, In
<1>6. CASE PoolRaises(k)
  BY <1>1, <1>6 DEF PoolRaises
<1>7. CASE Proceeds(k)
  <2>1. ASSUME \/ ReadManifest(k, TRUE) \/ Acquire(k) \/ UnlinkMarker(k) \/ SweepPart(k)
               \/ SweepEnds(k) \/ Scan(k)
        PROVE  FALSE
    BY <2>1 DEF ReadManifest, Acquire, UnlinkMarker, SweepPart, SweepEnds, Scan, Goes, Ends, IInv, TypeOK
  <2>2. ASSUME Drained(k) \/ PoolEnds(k) \/ WriteMarker(k) \/ InstallMarker(k)
        PROVE  FALSE
    BY <2>2 DEF Drained, PoolEnds, WriteMarker, InstallMarker, Goes, Ends, IInv, TypeOK
  <2> QED
    BY <1>3, <1>4, <1>5, <1>6, <1>7, <2>1, <2>2 DEF Proceeds
<1>8. CASE Retried(k) \/ Fails(k)
  <2>1. ASSUME Retried(k) \/ ReadManifest(k, FALSE) \/ Killed(k)
        PROVE  FALSE
    BY <2>1 DEF Retried, ReadManifest, Killed, Ends, IInv, TypeOK
  <2> QED
    BY <1>3, <1>4, <1>8, <2>1
<1>9. ASSUME \/ UNCHANGED vars
             \/ \E s \in Servers : CheckMarker(s) \/ Exec(s) \/ EntryFails(s) \/ ServerStops(s)
             \/ \E j \in Jobs, f \in Files : Overruns(j, f)
             \/ \E f \in Files, c \in {"absent", "bad"} : Damaged(f, c)
      PROVE  Same
  BY <1>1, <1>9 DEF vars, CheckMarker, Exec, EntryFails, ServerStops, Overruns, Damaged
<1> HIDE DEF Same
<1> DEFINE Goal == (disk_check(k) /\ UNCHANGED <<local, parts, fetch>>) \/ Same
<1>10. ASSUME NEW j \in Jobs, Proceeds(j) \/ Retried(j) \/ Fails(j)
       PROVE  Goal
  <2>1. CASE j = k
    <3>1. Proceeds(k) \/ Retried(k) \/ Fails(k)
      <4> HIDE DEF Fails
      <4> QED
        BY <1>10, <2>1
    <3> HIDE DEF Fails
    <3> QED
      BY <1>7, <1>8, <3>1 DEF Same
  <2>2. CASE j # k
    <3>1. pc'[k] = pc[k] /\ fetch'[k] = fetch[k]
      BY <1>2, <1>10, <2>2
    <3>2. Same
      BY <1>1, <3>1
    <3> QED
      BY <3>2
  <2> QED
    BY <2>1, <2>2
<1>11. ASSUME Fault
       PROVE  Goal
  <2>1. ASSUME NEW j \in Jobs, Fails(j)
        PROVE  Goal
    BY <1>10, <2>1
  <2>2. ASSUME \/ \E s \in Servers : EntryFails(s) \/ ServerStops(s)
               \/ \E j \in Jobs, f \in Files : Overruns(j, f)
               \/ \E f \in Files, c \in {"absent", "bad"} : Damaged(f, c)
        PROVE  Goal
    BY <1>9, <2>2
  <2>3. \/ \E j \in Jobs : Fails(j)
        \/ \E s \in Servers : EntryFails(s) \/ ServerStops(s)
        \/ \E j \in Jobs, f \in Files : Overruns(j, f)
        \/ \E f \in Files, c \in {"absent", "bad"} : Damaged(f, c)
    BY <1>11 DEF Fault
  <2> HIDE DEF Fails, Goal
  <2> QED
    BY <2>1, <2>2, <2>3
<1>12. Goal
  <2> HIDE DEF Fails, Goal
  <2>1. Same => Goal
    BY DEF Goal
  <2> QED
    BY <1>9, <1>10, <1>11, <2>1 DEF Next
<1> QED
  BY <1>12 DEF Same

\* The space behind the disk check stays enough for what is queued.
LEMMA RoomKeeps ==
  ASSUME IInv, IInv', RoomInv, [Next]_vars
  PROVE  RoomInv'
<1>1. \A k \in Jobs, g \in Files : fetch'[k][g] = "running" => <<k, g>> \in parts'
  BY RunningStays
<1>0. /\ overrun' \subseteq parts'
      /\ \A k \in Jobs : pc'[k] \in {"scan"} \cup Scanned =>
           \A p \in parts' : fetch'[p[1]][p[2]] = "running"
  BY OverrunStays, SweptStays
<1>2. CASE \E j \in Jobs, f \in Files : FetchStarts(j, f)
  <2>1. PICK j \in Jobs, f \in Files : FetchStarts(j, f)
    BY <1>2
  <2>2. IsFiniteSet(parts') /\ Room' >= Room - Size[f]
    BY <2>1, StartTakes DEF RoomInv
  <2>3. pc[j] \in {"pool", "drain"} /\ f \in In(j, "queued") /\ pc' = pc
    BY <2>1, TakenIsQueued
  <2>4. \A k \in Jobs : pc'[k] \in {"pool", "drain"} => k = j
    BY <2>3 DEF IInv, LockInv, Locked
  <2>5. In(j, "queued")' = In(j, "queued") \ {f}
    BY <2>1, <2>3 DEF FetchStarts, In, IInv, TypeOK
  <2>6. Queue(j) = Queue(j)' + Size[f] /\ Queue(j)' \in Nat /\ Size[f] \in Nat
    <3>1. In(j, "queued") \in SUBSET Files
      BY DEF In
    <3> QED
      BY <2>3, <2>5, <3>1, FileSums DEF Queue
  <2>7. Room >= Queue(j) + RESERVE /\ RESERVE \in Nat
    BY <2>3, NodeCacheAssumption DEF RoomInv
  <2>8. Room \in Int /\ Room' \in Int
    BY <2>2, RoomIs, RoomWillBe, NodeCacheAssumption DEF RoomInv
  <2>9. Room' >= Queue(j)' + RESERVE
    BY <2>2, <2>6, <2>7, <2>8
  <2> QED
    BY <1>0, <1>1, <2>2, <2>4, <2>9 DEF RoomInv
<1>3. CASE ~ \E j \in Jobs, f \in Files : FetchStarts(j, f)
  <2>1. IsFiniteSet(parts') /\ Room' >= Room
    BY <1>3, SpaceStays
  <2>2. ASSUME NEW k \in Jobs, pc'[k] \in {"pool", "drain"}
        PROVE  Room' >= Queue(k)' + RESERVE
    <3>1. Room >= Queue(k) + RESERVE /\ (Queue(k)' = Queue(k) \/ Queue(k)' = 0)
      <4>1. CASE disk_check(k) /\ UNCHANGED <<local, parts, fetch>>
        <5>1. Free >= Queue(k) + RESERVE
          BY <4>1, QueueIs
        <5>2. Room >= Queue(k) + RESERVE
          BY <5>1, FreeIs, QueueIs
        <5> QED
          BY <4>1, <5>2 DEF Queue, In
      <4>2. CASE pc[k] \in {"pool", "drain"} /\ In(k, "queued")' = In(k, "queued")
        BY <4>2 DEF Queue, RoomInv
      <4>3. CASE pc[k] \in {"pool", "drain"} /\ In(k, "queued")' = {}
        <5>1. SumFunctionOnSet(Size, {}) = 0
          <6>1. Size \in [Files -> Nat] /\ {} \in SUBSET Files /\ IsFiniteSet({})
            BY NodeCacheAssumption, FS_EmptySet
          <6> QED
            BY <6>1, SumRecurs
        <5> QED
          BY <4>3, <5>1 DEF Queue, RoomInv
      <4> QED
        BY <1>3, <2>2, <4>1, <4>2, <4>3, QueueStays
    <3>2. Queue(k) \in Nat /\ RESERVE \in Nat
      BY QueueIs
    <3>3. Room \in Int /\ Room' \in Int
      BY <2>1, RoomIs, RoomWillBe, NodeCacheAssumption DEF RoomInv
    <3> QED
      BY <2>1, <3>1, <3>2, <3>3
  <2> QED
    BY <1>0, <1>1, <2>1, <2>2 DEF RoomInv
<1> QED
  BY <1>2, <1>3

\* At any time a Job that is past its disk check has room over the reserve for
\* all it still has to fetch, and what dead Jobs left is gone; only bytes that
\* wrong objects have beyond their manifest entries are not provided for.
THEOREM RoomInvariant == Spec => []RoomInv
<1>1. RoomInv /\ IInv /\ IInv' /\ [Next]_vars => RoomInv'
  BY RoomKeeps
<1> QED
  BY <1>1, RoomInit, Invariant, PTL DEF Spec

\* A step that adds to no temporary file makes none too long.
LEMMA LongStays ==
  ASSUME IInv, RoomInv, [Next]_vars, ~ \E j \in Jobs, f \in Files : Overruns(j, f)
  PROVE  overrun' = overrun \/ \E p \in overrun : overrun' = overrun \ {p}
<1> DEFINE Goal == overrun' = overrun \/ \E p \in overrun : overrun' = overrun \ {p}
<1>1. ASSUME NEW p, overrun' = overrun \ {p}
      PROVE  Goal
  <2>1. CASE p \in overrun
    BY <1>1, <2>1
  <2>2. CASE p \notin overrun
    BY <1>1, <2>2
  <2> QED
    BY <2>1, <2>2
<1>2. ASSUME NEW j \in Jobs, Proceeds(j)
      PROVE  Goal
  <2>1. CASE SweepPart(j)
    BY <1>1, <2>1 DEF SweepPart
  <2>2. ASSUME NEW f \in Files, NEW body \in {"absent", "good"}, FetchEnds(j, f, body)
        PROVE  Goal
    BY <1>1, <2>2 DEF FetchEnds
  <2> QED
    BY <1>2, <2>1, <2>2
       DEF Proceeds, ReadManifest, Acquire, UnlinkMarker, SweepEnds, Scan, CheckDisk, FetchStarts,
           PoolRaises, CancelQueued, Drained, PoolEnds, WriteMarker, InstallMarker
<1>3. CASE Fault
  <2>1. ASSUME NEW j \in Jobs, NEW f \in Files, NEW body \in {"absent", "bad"}, FetchEnds(j, f, body)
        PROVE  Goal
    BY <1>1, <2>1 DEF FetchEnds
  <2> QED
    BY <1>3, <2>1 DEF Fault, ReadManifest, CheckDisk, Killed, Damaged, EntryFails, ServerStops
<1> QED
  BY <1>2, <1>3 DEF Next, Retried, CheckMarker, Exec, vars

\* No step takes the volume below the reserve, but for bytes beyond manifest
\* entries: only transfers take space, while their Job is in its pool, and the
\* disk check has left room for them.
THEOREM ReserveIsKept == Spec => ReserveKept
<1>1. ASSUME IInv, IInv', RoomInv, RoomInv', [Next]_vars, Free' < Free
      PROVE  Free' + Overlong' >= RESERVE
  <2>1. Long \in Nat /\ Room \in Int /\ Free = Room - Long
    BY <1>1, FreeIs
  <2>2. Long' \in Nat /\ Room' \in Int /\ Free' = Room' - Long'
    BY <1>1, FreeWillBe
  <2>3. CASE \E k \in Jobs : pc'[k] \in {"pool", "drain"}
    <3>1. PICK k \in Jobs : pc'[k] \in {"pool", "drain"}
      BY <2>3
    <3>2. Room' >= Queue(k)' + RESERVE
      BY <1>1, <3>1 DEF RoomInv
    <3>3. Queue(k)' \in Nat /\ RESERVE \in Nat
      <4>1. In(k, "queued")' \in SUBSET Files
        BY DEF In
      <4> QED
        BY <4>1, FileSums, NodeCacheAssumption DEF Queue
    <3>4. \A p \in overrun' : fetch'[p[1]][p[2]] = "running"
      BY <1>1, <3>1 DEF RoomInv, Scanned
    <3>5. Overlong' = Long'
      <4>1. {p \in overrun' : fetch'[p[1]][p[2]] = "running"} = overrun'
        BY <3>4
      <4> QED
        BY <4>1 DEF Overlong, Long
    <3>6. \A room \in Int, long \in Nat, queue \in Nat, reserve \in Nat :
            room >= queue + reserve => (room - long) + long >= reserve
      OBVIOUS
    <3> QED
      BY <2>2, <3>2, <3>3, <3>5, <3>6
  <2>4. CASE ~ \E k \in Jobs : pc'[k] \in {"pool", "drain"}
    <3>1. ~ \E j \in Jobs, f \in Files : FetchStarts(j, f)
      BY <2>4 DEF FetchStarts
    <3>2. ~ \E j \in Jobs, f \in Files : Overruns(j, f)
      BY <1>1, <2>4 DEF Overruns, IInv, FutureInv, Scanned
    <3>3. Room' >= Room
      BY <1>1, <3>1, SpaceStays
    <3>4. Long' <= Long
      <4>1. CASE overrun' = overrun
        BY <2>1, <4>1 DEF Long
      <4>2. ASSUME NEW p \in overrun, overrun' = overrun \ {p}
            PROVE  Long' <= Long
        <5>1. overrun \in SUBSET (Jobs \X Files) /\ IsFiniteSet(overrun)
          BY <1>1, FS_Subset DEF RoomInv, IInv, TypeOK
        <5>2. Long = Long' + ExcessSize[p] /\ ExcessSize[p] \in Nat
          BY <4>2, <5>1, ExcessSums DEF Long
        <5> QED
          BY <2>2, <5>2
      <4> QED
        BY <1>1, <3>2, <4>1, <4>2, LongStays
    <3>5. \A room, room1 \in Int, long, long1 \in Nat :
            room1 >= room /\ long1 <= long => ~ (room1 - long1 < room - long)
      OBVIOUS
    <3> QED
      BY <1>1, <2>1, <2>2, <3>3, <3>4, <3>5
  <2> QED
    BY <2>3, <2>4
<1>2. IInv /\ IInv' /\ RoomInv /\ RoomInv' /\ [Next]_vars
        => [Free' < Free => Free' + Overlong' >= RESERVE]_vars
  BY <1>1
<1> QED
  BY <1>2, Invariant, RoomInvariant, PTL DEF Spec, ReserveKept

-----------------------------------------------------------------------------
(* NodeCache implements VerifiedCopy *)

LEMMA CacheInit == Init => Cache!Init
BY InitInv DEF Init, Cache!Init, Cache!Verified, FilesIn, IInv, TypeOK

\* A step that touches neither the directory nor the servers.
LEMMA CacheStutters ==
  ASSUME UNCHANGED <<local, marker, suspect, server>>
  PROVE  UNCHANGED Cache!vars
BY DEF Cache!vars, FilesIn

LEMMA CacheWorks ==
  ASSUME IInv, NEW j \in Jobs, Proceeds(j)
  PROVE  [Cache!Next]_(Cache!vars)
<1>1. CASE UnlinkMarker(j)
  BY <1>1 DEF UnlinkMarker, Cache!Next, Cache!Withdraw, FilesIn
<1>2. CASE Scan(j)
  <2>1. marker # "this" /\ marker' # "this"
    BY <1>2 DEF Scan, IInv, NoMarkerInv, Locked
  <2>2. local' = local /\ server' = server /\ suspect' \subseteq suspect
    BY <1>2 DEF Scan
  <2> QED
    BY <2>1, <2>2 DEF Cache!Next, Cache!Work, FilesIn
<1>3. ASSUME NEW f \in Files, NEW body \in {"absent", "good"}, FetchEnds(j, f, body)
      PROVE  [Cache!Next]_(Cache!vars)
  <2>1. marker # "this" /\ marker' # "this"
    BY <1>3 DEF FetchEnds, IInv, NoMarkerInv, FutureInv, Scanned, Locked
  <2>2. FilesIn({"good"}) \subseteq FilesIn({"good"})'
    BY <1>3 DEF FetchEnds, local_valid, FilesIn, IInv, TypeOK
  <2> QED
    BY <1>3, <2>1, <2>2 DEF Cache!Next, Cache!Work, FilesIn, FetchEnds
<1>4. CASE InstallMarker(j)
  <2>1. \A f \in Files : fetch[j][f] \in {"skip", "done"}
    BY <1>4 DEF InstallMarker, IInv, TypeOK, FetchState, FutureInv
  <2>2. Cache!Verified
    BY <1>4, <2>1 DEF Cache!Verified, InstallMarker, IInv, ScanInv, Scanned, FilesIn
  <2>3. marker # "this"
    BY <1>4 DEF InstallMarker, IInv, NoMarkerInv, Locked
  <2> QED
    BY <1>4, <2>2, <2>3 DEF Cache!Next, Cache!Announce, InstallMarker, FilesIn
<1> QED
  BY <1>1, <1>2, <1>3, <1>4, CacheStutters
     DEF Proceeds, ReadManifest, Acquire, SweepPart, SweepEnds, CheckDisk, FetchStarts,
         PoolRaises, CancelQueued, Drained, PoolEnds, WriteMarker

LEMMA CacheFaults ==
  ASSUME IInv, Fault
  PROVE  [Cache!Next]_(Cache!vars)
<1>1. ASSUME NEW j \in Jobs, NEW f \in Files, NEW body \in {"absent", "bad"}, FetchEnds(j, f, body)
      PROVE  UNCHANGED <<local, marker, suspect, server>>
  BY <1>1 DEF FetchEnds, local_valid
<1>2. ASSUME NEW f \in Files, NEW c \in {"absent", "bad"}, Damaged(f, c)
      PROVE  Cache!Decay(f)
  <2>1. FilesIn({"good"})' = FilesIn({"good"}) \ {f}
    BY <1>2 DEF Damaged, FilesIn, IInv, TypeOK
  <2> QED
    BY <1>2, <2>1 DEF Damaged, Cache!Decay, FilesIn
<1>3. ASSUME NEW s \in Servers, EntryFails(s) \/ ServerStops(s)
      PROVE  Cache!Leave(s)
  <2>1. {r \in Servers : server'[r] # "off"} = {r \in Servers : server[r] # "off"} \ {s}
    BY <1>3 DEF EntryFails, ServerStops, IInv, TypeOK
  <2> QED
    BY <1>3, <2>1 DEF EntryFails, ServerStops, Cache!Leave, FilesIn
<1> QED
  BY <1>1, <1>2, <1>3, CacheStutters
     DEF Fault, ReadManifest, CheckDisk, Overruns, Killed, Cache!Next

LEMMA CacheStarts ==
  ASSUME IInv, NEW s \in Servers, CheckMarker(s) \/ Exec(s)
  PROVE  Cache!Start(s) \/ UNCHANGED Cache!vars
<1>1. CASE CheckMarker(s)
  <2>1. {r \in Servers : server'[r] # "off"} = {r \in Servers : server[r] # "off"} \cup {s}
    BY <1>1 DEF CheckMarker, IInv, TypeOK
  <2> QED
    BY <1>1, <2>1 DEF CheckMarker, marker_matches, Cache!Start, FilesIn
<1>2. CASE Exec(s)
  <2>1. {r \in Servers : server'[r] # "off"} = {r \in Servers : server[r] # "off"}
    BY <1>2 DEF Exec, IInv, TypeOK
  <2> QED
    BY <1>2, <2>1 DEF Exec, Cache!vars, FilesIn
<1> QED
  BY <1>1, <1>2

\* The directory behaves as a verified copy: every step of a Job, a server or
\* a fault is a step of VerifiedCopy or changes nothing it knows of.
THEOREM Implements == Spec => IsVerifiedCopy
<1>1. ASSUME IInv, [Next]_vars
      PROVE  [Cache!Next]_(Cache!vars)
  <2>1. ASSUME NEW j \in Jobs, Retried(j)
        PROVE  UNCHANGED Cache!vars
    BY <2>1, CacheStutters DEF Retried
  <2>2. CASE UNCHANGED vars
    BY <2>2, CacheStutters DEF vars
  <2>3. ASSUME NEW s \in Servers, CheckMarker(s) \/ Exec(s)
        PROVE  [Cache!Next]_(Cache!vars)
    BY <1>1, <2>3, CacheStarts DEF Cache!Next
  <2> QED
    BY <1>1, <2>1, <2>2, <2>3, CacheWorks, CacheFaults DEF Next
<1> QED
  BY <1>1, CacheInit, Invariant, PTL DEF Spec, IsVerifiedCopy, Cache!Spec

=============================================================================
