-------------------------- MODULE PublicationProofs --------------------------
(***************************************************************************)
(* Proofs about Publication, for any number of publishers and files.       *)
(***************************************************************************)
EXTENDS Publication, FiniteSetTheorems, TLAPS

USE DEF job, manifest, bucket

\* A Job between flock and release is the holder of the lock.
LockInv == \A p \in Publishers : pc[p] \in Locked => holder = p

\* Futures exist once the pool has started, and threads only run inside the
\* with-block of the executor.
FutureInv ==
  \A p \in Publishers, f \in Files :
    /\ upload[p][f] # "none" => pc[p] \in {"pool", "drain", "commit", "compare"}
    /\ upload[p][f] \in Threaded \cup {"queued", "failed"} => pc[p] \in {"pool", "drain"}

\* The snapshot is not announced while a Job works on its objects.
NotReadyInv ==
  \A p \in Publishers :
    pc[p] \in {"inventory", "check", "pool", "drain", "commit"} => ~ Announced

\* What a Job verifies is what the manifest lists.
ExistingInv ==
  \A p \in Publishers : pc[p] = "verify" /\ ~ tampered => ready = "this" /\ existing[p] = list

\* Once a Job has succeeded none comes to work on the objects again.
WorkInv ==
  \A p, q \in Publishers :
    pc[p] \in {"inventory", "check", "pool", "drain", "commit", "compare"} /\ ~ tampered =>
      pc[q] # "succeeded"

\* What a future has uploaded or found is verified, and a Job comes to the
\* commit with all of it.  Only a wrong object is uploaded over.
UploadedInv ==
  \A p \in Publishers, f \in Files :
    /\ upload[p][f] = "done" => object[f] = "good" \/ f \in decayed
    /\ pc[p] = "commit" => upload[p][f] = "done"
    /\ upload[p][f] = "put" => object[f] # "good"

\* The inductive invariant.
IInv ==
  /\ TypeOK
  /\ LockInv
  /\ FutureInv
  /\ NotReadyInv
  /\ ExistingInv
  /\ WorkInv
  /\ UploadedInv
  /\ ReadyMeansComplete
  /\ SuccessMeansReady

-----------------------------------------------------------------------------
(* Initial states *)

LEMMA InitInv == Init => IInv
<1> SUFFICES ASSUME Init PROVE IInv
  OBVIOUS
<1>1. TypeOK
  BY PublicationAssumption DEF Init, TypeOK, NoUploads, UploadState, Entries, NoList, Snapshot
<1>2. LockInv /\ NotReadyInv /\ ExistingInv /\ WorkInv /\ SuccessMeansReady
  BY DEF Init, LockInv, NotReadyInv, ExistingInv, WorkInv, SuccessMeansReady, Locked
<1>3. FutureInv /\ UploadedInv
  BY DEF Init, FutureInv, UploadedInv, NoUploads, Threaded
<1>4. ReadyMeansComplete
  BY DEF Init, ReadyMeansComplete, Announced, Snapshot
<1> QED
  BY <1>1, <1>2, <1>3, <1>4 DEF IInv

-----------------------------------------------------------------------------
(* One lemma for each action *)

LEMMA EntryTypes == NoList \in Entries /\ Snapshot \in Entries /\ Lists \subseteq Entries
BY PublicationAssumption DEF Entries, NoList, Snapshot

\* A Job that ends keeps no future, lock or list.
LEMMA EndsTypes ==
  ASSUME TypeOK, NEW p \in Publishers, NEW how \in {"succeeded", "failed"}, Ends(p, how)
  PROVE  /\ pc' \in [Publishers -> Locked \cup {"flock", "succeeded", "failed"}]
         /\ upload' \in [Publishers -> [Files -> UploadState]]
         /\ holder' \in Publishers \cup {NoJob}
         /\ existing' \in [Publishers -> Entries]
<1>1. NoUploads \in [Files -> UploadState]
  BY DEF NoUploads, UploadState
<1> QED
  BY <1>1, EntryTypes DEF Ends, TypeOK

LEMMA AcquireKeeps ==
  ASSUME IInv, NEW p \in Publishers, Acquire(p), UNCHANGED hub
  PROVE  IInv'
<1> USE DEF IInv
<1>1. TypeOK'
  BY DEF Acquire, TypeOK, Locked
<1>2. LockInv'
  BY PublicationAssumption DEF Acquire, LockInv, TypeOK, Locked
<1>3. FutureInv'
  BY DEF Acquire, FutureInv, TypeOK, Threaded
<1>4. NotReadyInv' /\ ExistingInv' /\ WorkInv'
  BY PublicationAssumption DEF Acquire, NotReadyInv, ExistingInv, WorkInv,
     SuccessMeansReady, Announced, LockInv, TypeOK, Locked
<1>5. UploadedInv'
  BY DEF Acquire, UploadedInv, FutureInv, LockInv, Threaded, Locked, TypeOK
<1>6. ReadyMeansComplete'
  BY DEF Acquire, ReadyMeansComplete, UploadedInv, FutureInv, NotReadyInv, Threaded, Announced
<1>7. SuccessMeansReady'
  BY DEF Acquire, SuccessMeansReady, TypeOK
<1> QED
  BY <1>1, <1>2, <1>3, <1>4, <1>5, <1>6, <1>7

LEMMA CleanKeeps ==
  ASSUME IInv, NEW p \in Publishers, Clean(p), UNCHANGED hub
  PROVE  IInv'
<1> USE DEF IInv
<1>1. TypeOK'
  BY DEF Clean, TypeOK, Locked
<1>2. LockInv'
  BY PublicationAssumption DEF Clean, LockInv, TypeOK, Locked
<1>3. FutureInv'
  BY DEF Clean, FutureInv, TypeOK, Threaded
<1>4. NotReadyInv' /\ ExistingInv' /\ WorkInv'
  BY PublicationAssumption DEF Clean, NotReadyInv, ExistingInv, WorkInv,
     SuccessMeansReady, Announced, LockInv, TypeOK, Locked
<1>5. UploadedInv'
  BY DEF Clean, UploadedInv, FutureInv, LockInv, Threaded, Locked, TypeOK
<1>6. ReadyMeansComplete'
  BY DEF Clean, ReadyMeansComplete, UploadedInv, FutureInv, NotReadyInv, Threaded, Announced
<1>7. SuccessMeansReady'
  BY DEF Clean, SuccessMeansReady, TypeOK
<1> QED
  BY <1>1, <1>2, <1>3, <1>4, <1>5, <1>6, <1>7

LEMMA CleanEndsKeeps ==
  ASSUME IInv, NEW p \in Publishers, CleanEnds(p), UNCHANGED hub
  PROVE  IInv'
<1> USE DEF IInv
<1>1. TypeOK'
  BY DEF CleanEnds, Goes, TypeOK, Locked
<1>2. LockInv'
  BY PublicationAssumption DEF CleanEnds, Goes, LockInv, TypeOK, Locked
<1>3. FutureInv'
  BY DEF CleanEnds, Goes, FutureInv, TypeOK, Threaded
<1>4. NotReadyInv' /\ ExistingInv' /\ WorkInv'
  BY PublicationAssumption DEF CleanEnds, Goes, NotReadyInv, ExistingInv, WorkInv,
     SuccessMeansReady, Announced, LockInv, TypeOK, Locked
<1>5. UploadedInv'
  BY DEF CleanEnds, Goes, UploadedInv, FutureInv, LockInv, Threaded, Locked, TypeOK
<1>6. ReadyMeansComplete'
  BY DEF CleanEnds, Goes, ReadyMeansComplete, UploadedInv, FutureInv, NotReadyInv, Threaded, Announced
<1>7. SuccessMeansReady'
  BY DEF CleanEnds, Goes, SuccessMeansReady, TypeOK
<1> QED
  BY <1>1, <1>2, <1>3, <1>4, <1>5, <1>6, <1>7

LEMMA ReadExistingKeeps ==
  ASSUME IInv, NEW p \in Publishers, NEW answered \in BOOLEAN, ReadExisting(p, answered), UNCHANGED hub
  PROVE  IInv'
<1> USE DEF IInv
<1>1. TypeOK'
  BY EndsTypes, EntryTypes DEF ReadExisting, Goes, TypeOK, Locked
<1>2. LockInv'
  BY PublicationAssumption DEF ReadExisting, Goes, Ends, LockInv, TypeOK, Locked
<1>3. FutureInv'
  BY DEF ReadExisting, Goes, Ends, FutureInv, TypeOK, Threaded, NoUploads
<1>4. NotReadyInv' /\ ExistingInv' /\ WorkInv'
  BY PublicationAssumption DEF ReadExisting, Goes, Ends, NotReadyInv, ExistingInv, WorkInv,
     SuccessMeansReady, Announced, LockInv, TypeOK, Locked
<1>5. UploadedInv'
  BY DEF ReadExisting, Goes, Ends, UploadedInv, FutureInv, LockInv, Threaded, Locked, TypeOK, NoUploads
<1>6. ReadyMeansComplete'
  BY DEF ReadExisting, Goes, Ends, ReadyMeansComplete, UploadedInv, FutureInv, NotReadyInv, Threaded, Announced
<1>7. SuccessMeansReady'
  BY DEF ReadExisting, Goes, Ends, SuccessMeansReady, TypeOK
<1> QED
  BY <1>1, <1>2, <1>3, <1>4, <1>5, <1>6, <1>7

LEMMA VerifyPublicationKeeps ==
  ASSUME IInv, NEW p \in Publishers, NEW answered \in BOOLEAN, VerifyPublication(p, answered), UNCHANGED hub
  PROVE  IInv'
<1> USE DEF IInv
<1>1. TypeOK'
  BY EndsTypes, EntryTypes DEF VerifyPublication, TypeOK, Locked
<1>2. LockInv'
  BY PublicationAssumption DEF VerifyPublication, Ends, LockInv, TypeOK, Locked
<1>3. FutureInv'
  BY DEF VerifyPublication, Ends, FutureInv, TypeOK, Threaded, NoUploads
<1>4. NotReadyInv' /\ ExistingInv' /\ WorkInv'
  BY PublicationAssumption DEF VerifyPublication, Ends, NotReadyInv, ExistingInv, WorkInv,
     SuccessMeansReady, Announced, LockInv, TypeOK, Locked
<1>5. UploadedInv'
  BY DEF VerifyPublication, Ends, UploadedInv, FutureInv, LockInv, Threaded, Locked, TypeOK, NoUploads
<1>6. ReadyMeansComplete'
  BY DEF VerifyPublication, Ends, ReadyMeansComplete, UploadedInv, FutureInv, NotReadyInv, Threaded, Announced
<1>7. SuccessMeansReady'
  BY DEF VerifyPublication, Ends, SuccessMeansReady, ExistingInv, verify_remote, TypeOK
<1> QED
  BY <1>1, <1>2, <1>3, <1>4, <1>5, <1>6, <1>7

LEMMA InventoryKeeps ==
  ASSUME IInv, NEW p \in Publishers, NEW complete \in BOOLEAN, Inventory(p, complete), UNCHANGED hub
  PROVE  IInv'
<1> USE DEF IInv
<1>1. TypeOK'
  BY EndsTypes, EntryTypes DEF Inventory, Goes, TypeOK, Locked
<1>2. LockInv'
  BY PublicationAssumption DEF Inventory, Goes, Ends, LockInv, TypeOK, Locked
<1>3. FutureInv'
  BY DEF Inventory, Goes, Ends, FutureInv, TypeOK, Threaded, NoUploads
<1>4. NotReadyInv' /\ ExistingInv' /\ WorkInv'
  BY PublicationAssumption DEF Inventory, Goes, Ends, NotReadyInv, ExistingInv, WorkInv,
     SuccessMeansReady, Announced, LockInv, TypeOK, Locked
<1>5. UploadedInv'
  BY DEF Inventory, Goes, Ends, UploadedInv, FutureInv, LockInv, Threaded, Locked, TypeOK, NoUploads
<1>6. ReadyMeansComplete'
  BY DEF Inventory, Goes, Ends, ReadyMeansComplete, UploadedInv, FutureInv, NotReadyInv, Threaded, Announced
<1>7. SuccessMeansReady'
  BY DEF Inventory, Goes, Ends, SuccessMeansReady, TypeOK
<1> QED
  BY <1>1, <1>2, <1>3, <1>4, <1>5, <1>6, <1>7

LEMMA CheckDiskKeeps ==
  ASSUME IInv, NEW p \in Publishers, NEW writable \in BOOLEAN, CheckDisk(p, writable), UNCHANGED hub
  PROVE  IInv'
<1> USE DEF IInv
<1>1. TypeOK'
  <2>1. /\ pc' \in [Publishers -> Locked \cup {"flock", "succeeded", "failed"}]
        /\ holder' \in Publishers \cup {NoJob}
        /\ existing' \in [Publishers -> Entries]
    BY EndsTypes DEF CheckDisk, TypeOK, Locked
  <2>2. upload' \in [Publishers -> [Files -> UploadState]]
    <3>1. [g \in Files |-> "queued"] \in [Files -> UploadState] /\ NoUploads \in [Files -> UploadState]
      BY DEF NoUploads, UploadState
    <3>2. \E u \in [Files -> UploadState] : upload' = [upload EXCEPT ![p] = u]
      BY <3>1 DEF CheckDisk, Ends
    <3> QED
      BY <3>2 DEF TypeOK
  <2> QED
    BY <2>1, <2>2 DEF CheckDisk, TypeOK
<1>2. LockInv'
  BY PublicationAssumption DEF CheckDisk, Ends, LockInv, TypeOK, Locked
<1>3. FutureInv'
  BY DEF CheckDisk, Ends, FutureInv, TypeOK, Threaded, NoUploads
<1>4. NotReadyInv' /\ ExistingInv' /\ WorkInv'
  BY PublicationAssumption DEF CheckDisk, Ends, NotReadyInv, ExistingInv, WorkInv,
     SuccessMeansReady, Announced, LockInv, TypeOK, Locked
<1>5. UploadedInv'
  BY DEF CheckDisk, Ends, UploadedInv, FutureInv, LockInv, Threaded, Locked, TypeOK, NoUploads
<1>6. ReadyMeansComplete'
  BY DEF CheckDisk, Ends, ReadyMeansComplete, UploadedInv, FutureInv, NotReadyInv, Threaded, Announced
<1>7. SuccessMeansReady'
  BY DEF CheckDisk, Ends, SuccessMeansReady, TypeOK
<1> QED
  BY <1>1, <1>2, <1>3, <1>4, <1>5, <1>6, <1>7

\* Setting the state of one upload keeps the type of the pool.
LEMMA FutureTypes ==
  ASSUME TypeOK, NEW p \in Publishers, NEW f \in Files, NEW state \in UploadState, Future(p, f, state)
  PROVE  upload' \in [Publishers -> [Files -> UploadState]]
  BY DEF Future, TypeOK

\* An upload that ends leaves no file staged that was not.
LEMMA UploadEndsTypes ==
  ASSUME TypeOK, NEW p \in Publishers, NEW f \in Files, NEW how \in {"done", "failed"}, UploadEnds(p, f, how)
  PROVE  /\ upload' \in [Publishers -> [Files -> UploadState]]
         /\ staging' \subseteq Publishers \X Files
         /\ UNCHANGED <<pc, holder, existing, manifest>>
<1>1. how \in UploadState
  BY DEF UploadState, Threaded
<1>2. upload' \in [Publishers -> [Files -> UploadState]]
  BY <1>1, FutureTypes DEF UploadEnds
<1> QED
  BY <1>2 DEF UploadEnds, TypeOK

LEMMA UploadStartsKeeps ==
  ASSUME IInv, NEW p \in Publishers, NEW f \in Files, UploadStarts(p, f), UNCHANGED hub
  PROVE  IInv'
<1> USE DEF IInv
<1>1. TypeOK'
  BY DEF UploadStarts, Future, In, TypeOK, Locked, UploadState, Threaded
<1>2. LockInv'
  BY PublicationAssumption DEF UploadStarts, Future, In, LockInv, TypeOK, Locked
<1>3. FutureInv'
  BY DEF UploadStarts, Future, In, FutureInv, TypeOK, Threaded
<1>4. NotReadyInv' /\ ExistingInv' /\ WorkInv'
  BY PublicationAssumption DEF UploadStarts, Future, In, NotReadyInv, ExistingInv, WorkInv,
     SuccessMeansReady, Announced, LockInv, TypeOK, Locked
<1>5. UploadedInv'
  BY DEF UploadStarts, Future, In, UploadedInv, FutureInv, LockInv, Threaded, Locked, TypeOK
<1>6. ReadyMeansComplete'
  BY DEF UploadStarts, Future, In, ReadyMeansComplete, UploadedInv, FutureInv, NotReadyInv, Threaded, Announced
<1>7. SuccessMeansReady'
  BY DEF UploadStarts, Future, In, SuccessMeansReady, TypeOK
<1> QED
  BY <1>1, <1>2, <1>3, <1>4, <1>5, <1>6, <1>7

LEMMA DownloadsKeeps ==
  ASSUME IInv, NEW p \in Publishers, NEW f \in Files, NEW intact \in BOOLEAN, Downloads(p, f, intact), UNCHANGED hub
  PROVE  IInv'
<1> USE DEF IInv
<1>1. TypeOK'
  <2>1. {"staged"} \subseteq UploadState
    BY DEF UploadState, Threaded
  <2>2. /\ upload' \in [Publishers -> [Files -> UploadState]]
        /\ staging' \subseteq Publishers \X Files
        /\ UNCHANGED <<pc, holder, existing, manifest>>
    BY <2>1, FutureTypes, UploadEndsTypes DEF Downloads, TypeOK
  <2> QED
    BY <2>2 DEF Downloads, TypeOK
<1>2. LockInv'
  BY PublicationAssumption DEF Downloads, Future, UploadEnds, LockInv, TypeOK, Locked
<1>3. FutureInv'
  BY DEF Downloads, Future, UploadEnds, FutureInv, TypeOK, Threaded
<1>4. NotReadyInv' /\ ExistingInv' /\ WorkInv'
  BY PublicationAssumption DEF Downloads, Future, UploadEnds, NotReadyInv, ExistingInv, WorkInv,
     SuccessMeansReady, Announced, LockInv, TypeOK, Locked
<1>5. UploadedInv'
  BY DEF Downloads, Future, UploadEnds, UploadedInv, FutureInv, LockInv, Threaded, Locked, TypeOK
<1>6. ReadyMeansComplete'
  BY DEF Downloads, Future, UploadEnds, ReadyMeansComplete, UploadedInv, FutureInv, NotReadyInv, Threaded, Announced
<1>7. SuccessMeansReady'
  BY DEF Downloads, Future, UploadEnds, SuccessMeansReady, TypeOK
<1> QED
  BY <1>1, <1>2, <1>3, <1>4, <1>5, <1>6, <1>7

LEMMA FindsRemoteKeeps ==
  ASSUME IInv, NEW p \in Publishers, NEW f \in Files, NEW answered \in BOOLEAN, FindsRemote(p, f, answered), UNCHANGED hub
  PROVE  IInv'
<1> USE DEF IInv
<1>1. TypeOK'
  <2>1. {"put"} \subseteq UploadState
    BY DEF UploadState, Threaded
  <2>2. /\ upload' \in [Publishers -> [Files -> UploadState]]
        /\ staging' \subseteq Publishers \X Files
        /\ UNCHANGED <<pc, holder, existing, manifest>>
    BY <2>1, FutureTypes, UploadEndsTypes DEF FindsRemote, TypeOK
  <2> QED
    BY <2>2 DEF FindsRemote, TypeOK
<1>2. LockInv'
  BY PublicationAssumption DEF FindsRemote, Future, UploadEnds, verify_remote, LockInv, TypeOK, Locked
<1>3. FutureInv'
  BY DEF FindsRemote, Future, UploadEnds, verify_remote, FutureInv, TypeOK, Threaded
<1>4. NotReadyInv' /\ ExistingInv' /\ WorkInv'
  BY PublicationAssumption DEF FindsRemote, Future, UploadEnds, verify_remote, NotReadyInv, ExistingInv, WorkInv,
     SuccessMeansReady, Announced, LockInv, TypeOK, Locked
<1>5. UploadedInv'
  BY DEF FindsRemote, Future, UploadEnds, verify_remote, UploadedInv, FutureInv, LockInv, Threaded, Locked, TypeOK
<1>6. ReadyMeansComplete'
  BY DEF FindsRemote, Future, UploadEnds, verify_remote, ReadyMeansComplete, UploadedInv, FutureInv, NotReadyInv, Threaded, Announced
<1>7. SuccessMeansReady'
  BY DEF FindsRemote, Future, UploadEnds, verify_remote, SuccessMeansReady, TypeOK
<1> QED
  BY <1>1, <1>2, <1>3, <1>4, <1>5, <1>6, <1>7

LEMMA UploadsKeeps ==
  ASSUME IInv, NEW p \in Publishers, NEW f \in Files, NEW stored \in {"kept", "bad", "good"}, NEW answered \in BOOLEAN, Uploads(p, f, stored, answered), UNCHANGED hub
  PROVE  IInv'
<1> USE DEF IInv
<1>1. TypeOK'
  <2>1. {"readback"} \subseteq UploadState
    BY DEF UploadState, Threaded
  <2>2. /\ upload' \in [Publishers -> [Files -> UploadState]]
        /\ staging' \subseteq Publishers \X Files
        /\ UNCHANGED <<pc, holder, existing, manifest>>
    BY <2>1, FutureTypes, UploadEndsTypes DEF Uploads, TypeOK
  <2>3. object' \in [Files -> {"absent", "bad", "good"}] /\ decayed' \subseteq Files
    BY DEF Uploads, TypeOK
  <2> QED
    BY <2>2, <2>3 DEF TypeOK
<1>2. LockInv'
  BY PublicationAssumption DEF Uploads, Future, UploadEnds, LockInv, TypeOK, Locked
<1>3. FutureInv'
  BY DEF Uploads, Future, UploadEnds, FutureInv, TypeOK, Threaded
<1>4. NotReadyInv' /\ ExistingInv' /\ WorkInv'
  BY PublicationAssumption DEF Uploads, Future, UploadEnds, NotReadyInv, ExistingInv, WorkInv,
     SuccessMeansReady, Announced, LockInv, TypeOK, Locked
<1>5. UploadedInv'
  BY DEF Uploads, Future, UploadEnds, UploadedInv, FutureInv, LockInv, Threaded, Locked, TypeOK
<1>6. ReadyMeansComplete'
  BY DEF Uploads, Future, UploadEnds, ReadyMeansComplete, UploadedInv, FutureInv, NotReadyInv, Threaded, Announced
<1>7. SuccessMeansReady'
  <2>1. pc[p] \in {"pool", "drain"}
    BY DEF Uploads, FutureInv, Threaded
  <2> QED
    BY <2>1 DEF Uploads, UploadEnds, SuccessMeansReady, WorkInv, TypeOK
<1> QED
  BY <1>1, <1>2, <1>3, <1>4, <1>5, <1>6, <1>7

LEMMA ReadsBackKeeps ==
  ASSUME IInv, NEW p \in Publishers, NEW f \in Files, NEW answered \in BOOLEAN, ReadsBack(p, f, answered), UNCHANGED hub
  PROVE  IInv'
<1> USE DEF IInv
<1>1. TypeOK'
  <2>1. /\ upload' \in [Publishers -> [Files -> UploadState]]
        /\ staging' \subseteq Publishers \X Files
        /\ UNCHANGED <<pc, holder, existing, manifest>>
    BY UploadEndsTypes DEF ReadsBack
  <2> QED
    BY <2>1 DEF ReadsBack, TypeOK
<1>2. LockInv'
  BY PublicationAssumption DEF ReadsBack, Future, UploadEnds, verify_remote, LockInv, TypeOK, Locked
<1>3. FutureInv'
  BY DEF ReadsBack, Future, UploadEnds, verify_remote, FutureInv, TypeOK, Threaded
<1>4. NotReadyInv' /\ ExistingInv' /\ WorkInv'
  BY PublicationAssumption DEF ReadsBack, Future, UploadEnds, verify_remote, NotReadyInv, ExistingInv, WorkInv,
     SuccessMeansReady, Announced, LockInv, TypeOK, Locked
<1>5. UploadedInv'
  BY DEF ReadsBack, Future, UploadEnds, verify_remote, UploadedInv, FutureInv, LockInv, Threaded, Locked, TypeOK
<1>6. ReadyMeansComplete'
  BY DEF ReadsBack, Future, UploadEnds, verify_remote, ReadyMeansComplete, UploadedInv, FutureInv, NotReadyInv, Threaded, Announced
<1>7. SuccessMeansReady'
  BY DEF ReadsBack, Future, UploadEnds, verify_remote, SuccessMeansReady, TypeOK
<1> QED
  BY <1>1, <1>2, <1>3, <1>4, <1>5, <1>6, <1>7

LEMMA PoolRaisesKeeps ==
  ASSUME IInv, NEW p \in Publishers, PoolRaises(p), UNCHANGED hub
  PROVE  IInv'
<1> USE DEF IInv
<1>1. TypeOK'
  BY DEF PoolRaises, Goes, TypeOK, Locked
<1>2. LockInv'
  BY PublicationAssumption DEF PoolRaises, Goes, LockInv, TypeOK, Locked
<1>3. FutureInv'
  BY DEF PoolRaises, Goes, FutureInv, TypeOK, Threaded
<1>4. NotReadyInv' /\ ExistingInv' /\ WorkInv'
  BY PublicationAssumption DEF PoolRaises, Goes, NotReadyInv, ExistingInv, WorkInv,
     SuccessMeansReady, Announced, LockInv, TypeOK, Locked
<1>5. UploadedInv'
  BY DEF PoolRaises, Goes, UploadedInv, FutureInv, LockInv, Threaded, Locked, TypeOK
<1>6. ReadyMeansComplete'
  BY DEF PoolRaises, Goes, ReadyMeansComplete, UploadedInv, FutureInv, NotReadyInv, Threaded, Announced
<1>7. SuccessMeansReady'
  BY DEF PoolRaises, Goes, SuccessMeansReady, TypeOK
<1> QED
  BY <1>1, <1>2, <1>3, <1>4, <1>5, <1>6, <1>7

LEMMA CancelQueuedKeeps ==
  ASSUME IInv, NEW p \in Publishers, CancelQueued(p), UNCHANGED hub
  PROVE  IInv'
<1> USE DEF IInv
<1>1. TypeOK'
  BY DEF CancelQueued, In, TypeOK, Locked, UploadState, Threaded
<1>2. LockInv'
  BY PublicationAssumption DEF CancelQueued, In, LockInv, TypeOK, Locked
<1>3. FutureInv'
  BY DEF CancelQueued, In, FutureInv, TypeOK, Threaded
<1>4. NotReadyInv' /\ ExistingInv' /\ WorkInv'
  BY PublicationAssumption DEF CancelQueued, In, NotReadyInv, ExistingInv, WorkInv,
     SuccessMeansReady, Announced, LockInv, TypeOK, Locked
<1>5. UploadedInv'
  BY DEF CancelQueued, In, UploadedInv, FutureInv, LockInv, Threaded, Locked, TypeOK
<1>6. ReadyMeansComplete'
  BY DEF CancelQueued, In, ReadyMeansComplete, UploadedInv, FutureInv, NotReadyInv, Threaded, Announced
<1>7. SuccessMeansReady'
  BY DEF CancelQueued, In, SuccessMeansReady, TypeOK
<1> QED
  BY <1>1, <1>2, <1>3, <1>4, <1>5, <1>6, <1>7

LEMMA DrainedKeeps ==
  ASSUME IInv, NEW p \in Publishers, Drained(p), UNCHANGED hub
  PROVE  IInv'
<1> USE DEF IInv
<1>1. TypeOK'
  BY EndsTypes, EntryTypes DEF Drained, TypeOK, Locked
<1>2. LockInv'
  BY PublicationAssumption DEF Drained, Ends, LockInv, TypeOK, Locked
<1>3. FutureInv'
  BY DEF Drained, Ends, FutureInv, TypeOK, Threaded, NoUploads
<1>4. NotReadyInv' /\ ExistingInv' /\ WorkInv'
  BY PublicationAssumption DEF Drained, Ends, NotReadyInv, ExistingInv, WorkInv,
     SuccessMeansReady, Announced, LockInv, TypeOK, Locked
<1>5. UploadedInv'
  BY DEF Drained, Ends, UploadedInv, FutureInv, LockInv, Threaded, Locked, TypeOK, NoUploads
<1>6. ReadyMeansComplete'
  BY DEF Drained, Ends, ReadyMeansComplete, UploadedInv, FutureInv, NotReadyInv, Threaded, Announced
<1>7. SuccessMeansReady'
  BY DEF Drained, Ends, SuccessMeansReady, TypeOK
<1> QED
  BY <1>1, <1>2, <1>3, <1>4, <1>5, <1>6, <1>7

LEMMA PoolEndsKeeps ==
  ASSUME IInv, NEW p \in Publishers, PoolEnds(p), UNCHANGED hub
  PROVE  IInv'
<1> USE DEF IInv
<1>1. TypeOK'
  BY DEF PoolEnds, Goes, In, TypeOK, Locked
<1>2. LockInv'
  BY PublicationAssumption DEF PoolEnds, Goes, In, LockInv, TypeOK, Locked
<1>3. FutureInv'
  BY DEF PoolEnds, Goes, In, FutureInv, TypeOK, Threaded
<1>4. NotReadyInv' /\ ExistingInv' /\ WorkInv'
  BY PublicationAssumption DEF PoolEnds, Goes, In, NotReadyInv, ExistingInv, WorkInv,
     SuccessMeansReady, Announced, LockInv, TypeOK, Locked
<1>5. UploadedInv'
  BY DEF PoolEnds, Goes, In, UploadedInv, FutureInv, LockInv, Threaded, Locked, TypeOK
<1>6. ReadyMeansComplete'
  BY DEF PoolEnds, Goes, In, ReadyMeansComplete, UploadedInv, FutureInv, NotReadyInv, Threaded, Announced
<1>7. SuccessMeansReady'
  BY DEF PoolEnds, Goes, In, SuccessMeansReady, TypeOK
<1> QED
  BY <1>1, <1>2, <1>3, <1>4, <1>5, <1>6, <1>7

LEMMA PutKeeps ==
  ASSUME IInv, NEW p \in Publishers, NEW answer \in {"ok", "412", "error"}, Put(p, answer), UNCHANGED hub
  PROVE  IInv'
<1> USE DEF IInv
<1>1. TypeOK'
  BY EndsTypes, EntryTypes DEF Put, Goes, TypeOK, Locked
<1>2. LockInv'
  BY PublicationAssumption DEF Put, Goes, Ends, LockInv, TypeOK, Locked
<1>3. FutureInv'
  BY DEF Put, Goes, Ends, FutureInv, TypeOK, Threaded, NoUploads
<1>4. NotReadyInv' /\ ExistingInv' /\ WorkInv'
  <2>1. /\ \A q \in Publishers : q # p => pc[q] \notin Locked /\ pc'[q] = pc[q]
        /\ pc'[p] \in {"succeeded", "compare", "failed"}
    BY PublicationAssumption DEF Put, Goes, Ends, LockInv, TypeOK, Locked
  <2>2. \A q \in Publishers : pc[q] = "succeeded" => tampered
    BY DEF Put, SuccessMeansReady
  <2>3. \A q \in Publishers : pc'[q] \in Locked => q = p /\ pc'[q] = "compare"
    BY <2>1 DEF Locked
  <2>4. NotReadyInv' /\ ExistingInv'
    BY <2>3 DEF NotReadyInv, ExistingInv, Locked
  <2>5. WorkInv'
    BY <2>1, <2>2, <2>3 DEF Put, WorkInv, Locked
  <2> QED
    BY <2>4, <2>5
<1>5. UploadedInv'
  <2>1. CASE Goes(p, "compare")
    BY <2>1 DEF Put, Goes, UploadedInv, TypeOK
  <2>2. ASSUME NEW how, Ends(p, how), how # "commit"
        PROVE  UploadedInv'
    BY <2>2 DEF Put, Ends, UploadedInv, TypeOK, NoUploads
  <2> QED
    BY <2>1, <2>2 DEF Put
<1>6. ReadyMeansComplete'
  BY DEF Put, Goes, Ends, ReadyMeansComplete, UploadedInv, FutureInv, NotReadyInv, Threaded, Announced
<1>7. SuccessMeansReady'
  <2>1. \A g \in Files : object[g] = "good" \/ g \in decayed
    BY DEF Put, UploadedInv
  <2> QED
    BY <2>1 DEF Put, SuccessMeansReady, Snapshot
<1> QED
  BY <1>1, <1>2, <1>3, <1>4, <1>5, <1>6, <1>7

LEMMA PutRefusedKeeps ==
  ASSUME IInv, NEW p \in Publishers, PutRefused(p), UNCHANGED hub
  PROVE  IInv'
<1> USE DEF IInv
<1>1. TypeOK'
  BY DEF PutRefused, Goes, TypeOK, Locked
<1>2. LockInv'
  BY PublicationAssumption DEF PutRefused, Goes, LockInv, TypeOK, Locked
<1>3. FutureInv'
  BY DEF PutRefused, Goes, FutureInv, TypeOK, Threaded
<1>4. NotReadyInv' /\ ExistingInv' /\ WorkInv'
  BY PublicationAssumption DEF PutRefused, Goes, NotReadyInv, ExistingInv, WorkInv,
     SuccessMeansReady, Announced, LockInv, TypeOK, Locked
<1>5. UploadedInv'
  BY DEF PutRefused, Goes, UploadedInv, FutureInv, LockInv, Threaded, Locked, TypeOK
<1>6. ReadyMeansComplete'
  BY DEF PutRefused, Goes, ReadyMeansComplete, UploadedInv, FutureInv, NotReadyInv, Threaded, Announced
<1>7. SuccessMeansReady'
  BY DEF PutRefused, Goes, SuccessMeansReady, TypeOK
<1> QED
  BY <1>1, <1>2, <1>3, <1>4, <1>5, <1>6, <1>7

LEMMA PutFailsKeeps ==
  ASSUME IInv, NEW p \in Publishers, PutFails(p), UNCHANGED hub
  PROVE  IInv'
<1> USE DEF IInv
<1>1. TypeOK'
  BY EndsTypes, EntryTypes DEF PutFails, TypeOK, Locked
<1>2. LockInv'
  BY PublicationAssumption DEF PutFails, Ends, LockInv, TypeOK, Locked
<1>3. FutureInv'
  BY DEF PutFails, Ends, FutureInv, TypeOK, Threaded, NoUploads
<1>4. NotReadyInv' /\ ExistingInv' /\ WorkInv'
  BY PublicationAssumption DEF PutFails, Ends, NotReadyInv, ExistingInv, WorkInv,
     SuccessMeansReady, Announced, LockInv, TypeOK, Locked
<1>5. UploadedInv'
  BY DEF PutFails, Ends, UploadedInv, FutureInv, LockInv, Threaded, Locked, TypeOK, NoUploads
<1>6. ReadyMeansComplete'
  BY DEF PutFails, Ends, ReadyMeansComplete, UploadedInv, FutureInv, NotReadyInv, Threaded, Announced
<1>7. SuccessMeansReady'
  BY DEF PutFails, Ends, SuccessMeansReady, TypeOK
<1> QED
  BY <1>1, <1>2, <1>3, <1>4, <1>5, <1>6, <1>7

LEMMA CompareKeeps ==
  ASSUME IInv, NEW p \in Publishers, NEW answered \in BOOLEAN, Compare(p, answered), UNCHANGED hub
  PROVE  IInv'
<1> USE DEF IInv
<1>1. TypeOK'
  BY EndsTypes, EntryTypes DEF Compare, TypeOK, Locked
<1>2. LockInv'
  BY PublicationAssumption DEF Compare, Ends, LockInv, TypeOK, Locked
<1>3. FutureInv'
  BY DEF Compare, Ends, FutureInv, TypeOK, Threaded, NoUploads
<1>4. NotReadyInv' /\ ExistingInv' /\ WorkInv'
  BY PublicationAssumption DEF Compare, Ends, NotReadyInv, ExistingInv, WorkInv,
     SuccessMeansReady, Announced, LockInv, TypeOK, Locked
<1>5. UploadedInv'
  BY DEF Compare, Ends, UploadedInv, FutureInv, LockInv, Threaded, Locked, TypeOK, NoUploads
<1>6. ReadyMeansComplete'
  BY DEF Compare, Ends, ReadyMeansComplete, UploadedInv, FutureInv, NotReadyInv, Threaded, Announced
<1>7. SuccessMeansReady'
  BY DEF Compare, Ends, SuccessMeansReady, ReadyMeansComplete, Announced, Snapshot, TypeOK
<1> QED
  BY <1>1, <1>2, <1>3, <1>4, <1>5, <1>6, <1>7

LEMMA KilledKeeps ==
  ASSUME IInv, NEW p \in Publishers, Killed(p), UNCHANGED hub
  PROVE  IInv'
<1> USE DEF IInv
<1>1. TypeOK'
  BY EndsTypes, EntryTypes DEF Killed, TypeOK, Locked
<1>2. LockInv'
  BY PublicationAssumption DEF Killed, Ends, LockInv, TypeOK, Locked
<1>3. FutureInv'
  BY DEF Killed, Ends, FutureInv, TypeOK, Threaded, NoUploads
<1>4. NotReadyInv' /\ ExistingInv' /\ WorkInv'
  BY PublicationAssumption DEF Killed, Ends, NotReadyInv, ExistingInv, WorkInv,
     SuccessMeansReady, Announced, LockInv, TypeOK, Locked
<1>5. UploadedInv'
  BY DEF Killed, Ends, UploadedInv, FutureInv, LockInv, Threaded, Locked, TypeOK, NoUploads
<1>6. ReadyMeansComplete'
  BY DEF Killed, Ends, ReadyMeansComplete, UploadedInv, FutureInv, NotReadyInv, Threaded, Announced
<1>7. SuccessMeansReady'
  BY DEF Killed, Ends, SuccessMeansReady, TypeOK
<1> QED
  BY <1>1, <1>2, <1>3, <1>4, <1>5, <1>6, <1>7

LEMMA RunAgainKeeps ==
  ASSUME IInv, NEW p \in Publishers, RunAgain(p), UNCHANGED hub
  PROVE  IInv'
<1> USE DEF IInv
<1>1. TypeOK'
  BY DEF RunAgain, TypeOK, Locked
<1>2. LockInv'
  BY PublicationAssumption DEF RunAgain, LockInv, TypeOK, Locked
<1>3. FutureInv'
  BY DEF RunAgain, FutureInv, TypeOK, Threaded
<1>4. NotReadyInv' /\ ExistingInv' /\ WorkInv'
  BY PublicationAssumption DEF RunAgain, NotReadyInv, ExistingInv, WorkInv,
     SuccessMeansReady, Announced, LockInv, TypeOK, Locked
<1>5. UploadedInv'
  BY DEF RunAgain, UploadedInv, FutureInv, LockInv, Threaded, Locked, TypeOK
<1>6. ReadyMeansComplete'
  BY DEF RunAgain, ReadyMeansComplete, UploadedInv, FutureInv, NotReadyInv, Threaded, Announced
<1>7. SuccessMeansReady'
  BY DEF RunAgain, SuccessMeansReady, TypeOK
<1> QED
  BY <1>1, <1>2, <1>3, <1>4, <1>5, <1>6, <1>7

-----------------------------------------------------------------------------
(* Others who write to the bucket *)

LEMMA DamagedKeeps ==
  ASSUME IInv, NEW f \in Files, NEW c \in {"absent", "bad"}, Damaged(f, c), UNCHANGED hub
  PROVE  IInv'
<1> USE DEF IInv
<1>1. TypeOK'
  BY DEF Damaged, TypeOK
<1>2. LockInv' /\ FutureInv' /\ NotReadyInv' /\ ExistingInv' /\ WorkInv'
  BY DEF Damaged, LockInv, FutureInv, NotReadyInv, ExistingInv, WorkInv, Announced
<1>3. UploadedInv' /\ ReadyMeansComplete' /\ SuccessMeansReady'
  BY DEF Damaged, UploadedInv, ReadyMeansComplete, SuccessMeansReady, Announced, TypeOK
<1> QED
  BY <1>1, <1>2, <1>3

\* Nobody else writes the publishers' own manifest.
LEMMA ForeignIsNotAnnounced ==
  ASSUME ForeignManifest
  PROVE  ~ Announced'
<1>1. NoList # Snapshot
  BY PublicationAssumption DEF NoList, Snapshot, Files
<1> QED
  BY <1>1, PublicationAssumption DEF ForeignManifest, Announced

LEMMA ForeignManifestKeeps ==
  ASSUME IInv, ForeignManifest, UNCHANGED hub
  PROVE  IInv'
<1> USE DEF IInv
<1>1. TypeOK'
  BY PublicationAssumption DEF ForeignManifest, TypeOK, Entries, NoList
<1>2. LockInv' /\ FutureInv' /\ UploadedInv'
  BY DEF ForeignManifest, LockInv, FutureInv, UploadedInv
<1>3. NotReadyInv' /\ ReadyMeansComplete'
  BY ForeignIsNotAnnounced DEF NotReadyInv, ReadyMeansComplete
<1>4. ExistingInv' /\ WorkInv' /\ SuccessMeansReady'
  BY DEF ForeignManifest, ExistingInv, WorkInv, SuccessMeansReady
<1> QED
  BY <1>1, <1>2, <1>3, <1>4

LEMMA ManifestRemovedKeeps ==
  ASSUME IInv, ManifestRemoved, UNCHANGED hub
  PROVE  IInv'
<1> USE DEF IInv
<1>1. TypeOK'
  BY DEF ManifestRemoved, TypeOK, Entries, NoList
<1>2. LockInv' /\ FutureInv' /\ UploadedInv'
  BY DEF ManifestRemoved, LockInv, FutureInv, UploadedInv
<1>3. NotReadyInv' /\ ReadyMeansComplete'
  BY DEF ManifestRemoved, NotReadyInv, ReadyMeansComplete, Announced
<1>4. ExistingInv' /\ WorkInv' /\ SuccessMeansReady'
  BY DEF ManifestRemoved, ExistingInv, WorkInv, SuccessMeansReady
<1> QED
  BY <1>1, <1>2, <1>3, <1>4

LEMMA StutterKeeps ==
  ASSUME IInv, UNCHANGED vars
  PROVE  IInv'
BY DEF vars, IInv, TypeOK, LockInv, FutureInv, NotReadyInv, ExistingInv, WorkInv, UploadedInv,
       ReadyMeansComplete, SuccessMeansReady, Announced

-----------------------------------------------------------------------------
(* The invariant *)

\* Every step of the specification keeps the inductive invariant.
LEMMA NextKeeps ==
  ASSUME IInv, [Next /\ UNCHANGED hub]_vars
  PROVE  IInv'
<1>1. ASSUME NEW p \in Publishers, Proceeds(p), UNCHANGED hub
      PROVE  IInv'
  BY <1>1, AcquireKeeps, CleanKeeps, CleanEndsKeeps, ReadExistingKeeps,
     VerifyPublicationKeeps, InventoryKeeps, CheckDiskKeeps, UploadStartsKeeps,
     DownloadsKeeps, FindsRemoteKeeps, UploadsKeeps, ReadsBackKeeps, PoolRaisesKeeps,
     CancelQueuedKeeps, DrainedKeeps, PoolEndsKeeps, PutKeeps, PutRefusedKeeps, CompareKeeps
     DEF Proceeds
<1>2. ASSUME NEW p \in Publishers, RunAgain(p), UNCHANGED hub
      PROVE  IInv'
  BY <1>2, RunAgainKeeps
<1>3. CASE ForeignManifest /\ UNCHANGED hub
  BY <1>3, ForeignManifestKeeps
<1>4. CASE Fault /\ UNCHANGED hub
  BY <1>4, ReadExistingKeeps, VerifyPublicationKeeps, InventoryKeeps, CheckDiskKeeps,
     DownloadsKeeps, FindsRemoteKeeps, UploadsKeeps, ReadsBackKeeps, PutKeeps,
     PutFailsKeeps, CompareKeeps, KilledKeeps, DamagedKeeps, ManifestRemovedKeeps,
     PublicationAssumption
     DEF Fault
<1>5. CASE UNCHANGED vars
  BY <1>5, StutterKeeps
<1> QED
  BY <1>1, <1>2, <1>3, <1>4, <1>5 DEF Next

\* The inductive invariant holds in every reachable state of publish().
THEOREM Invariant == Spec => []IInv
<1>1. Init => IInv
  BY InitInv
<1>2. IInv /\ [Next /\ UNCHANGED hub]_vars => IInv'
  BY NextKeeps
<1> QED
  BY <1>1, <1>2, PTL DEF Spec

\* Every variable of the model keeps its type.
THEOREM TypeCorrect == Spec => []TypeOK
BY Invariant, PTL DEF IInv

\* _READY.json never announces an object that no publisher has verified.
THEOREM ReadyIsSound == Spec => []ReadyMeansComplete
BY Invariant, PTL DEF IInv

\* When a publication Job has succeeded, the manifest that is there, its own
\* or somebody else's, is of this revision, and the bucket holds what it
\* lists, until somebody replaces or removes that manifest.
THEOREM SuccessIsSound == Spec => []SuccessMeansReady
BY Invariant, PTL DEF IInv

-----------------------------------------------------------------------------
(* Action properties *)

\* An object changes only under upload_file, and then nothing announces the
\* snapshot, or by damage.
LEMMA ObjectSteps ==
  ASSUME IInv, Next
  PROVE  \/ UNCHANGED <<object, decayed>>
         \/ \E p \in Publishers, f \in Files, stored \in {"kept", "bad", "good"}, answered \in BOOLEAN :
              Uploads(p, f, stored, answered)
         \/ \E f \in Files, c \in {"absent", "bad"} : Damaged(f, c)
<1>1. ASSUME NEW p \in Publishers, Proceeds(p) \/ RunAgain(p)
      PROVE  \/ UNCHANGED <<object, decayed>>
             \/ \E f \in Files : Uploads(p, f, "good", TRUE)
  BY <1>1 DEF Proceeds, RunAgain, Acquire, Clean, CleanEnds, ReadExisting,
     VerifyPublication, Inventory, CheckDisk, UploadStarts, Downloads, FindsRemote,
     ReadsBack, UploadEnds, PoolRaises, CancelQueued, Drained, PoolEnds, Put,
     PutRefused, Compare
<1>2. ASSUME Fault
      PROVE  \/ UNCHANGED <<object, decayed>>
             \/ \E p \in Publishers, f \in Files, stored \in {"kept", "bad", "good"}, answered \in BOOLEAN :
                  Uploads(p, f, stored, answered)
             \/ \E f \in Files, c \in {"absent", "bad"} : Damaged(f, c)
  <2>1. ASSUME NEW p \in Publishers,
               \/ ReadExisting(p, FALSE) \/ VerifyPublication(p, FALSE) \/ Inventory(p, FALSE)
               \/ CheckDisk(p, FALSE) \/ Put(p, "error") \/ PutFails(p) \/ Compare(p, FALSE)
               \/ Killed(p)
        PROVE  UNCHANGED <<object, decayed>>
    BY <2>1 DEF ReadExisting, VerifyPublication, Inventory, CheckDisk, Put, PutFails, Compare, Killed
  <2>2. ASSUME NEW p \in Publishers, NEW f \in Files,
               Downloads(p, f, FALSE) \/ FindsRemote(p, f, FALSE) \/ ReadsBack(p, f, FALSE)
        PROVE  UNCHANGED <<object, decayed>>
    BY <2>2 DEF Downloads, FindsRemote, ReadsBack
  <2> QED
    BY <1>2, <2>1, <2>2, PublicationAssumption DEF Fault, ManifestRemoved
<1>3. CASE ForeignManifest
  BY <1>3 DEF ForeignManifest
<1> QED
  BY <1>1, <1>2, <1>3 DEF Next

LEMMA UploadsUnannounced ==
  ASSUME IInv, NEW p \in Publishers, NEW f \in Files,
         NEW stored \in {"kept", "bad", "good"}, NEW answered \in BOOLEAN,
         Uploads(p, f, stored, answered)
  PROVE  ~ Announced /\ UNCHANGED manifest
<1>1. pc[p] \in {"pool", "drain"}
  BY DEF Uploads, IInv, FutureInv, Threaded
<1> QED
  BY <1>1 DEF Uploads, UploadEnds, IInv, NotReadyInv

\* Readers of an announced snapshot never see an object being replaced.
THEOREM NoUploadWhenReady == Spec => NoUploadUnderReady
<1>1. ASSUME IInv, Next, Announced, NEW g \in Files
      PROVE  object'[g] = object[g] \/ g \in decayed'
  <2>1. ASSUME NEW f \in Files, NEW c \in {"absent", "bad"}, Damaged(f, c)
        PROVE  object'[g] = object[g] \/ g \in decayed'
    BY <1>1, <2>1 DEF Damaged, IInv, TypeOK
  <2> QED
    BY <1>1, <2>1, ObjectSteps, UploadsUnannounced
<1>2. IInv /\ [Next /\ UNCHANGED hub]_vars =>
        [Announced => \A f \in Files : object'[f] = object[f] \/ f \in decayed']_vars
  BY <1>1
<1> QED
  BY <1>2, Invariant, PTL DEF Spec, NoUploadUnderReady

\* A publisher's clean-up takes no directory of a running transfer: it holds
\* the lock, and so would the Job of that transfer.
THEOREM CleanIsSafe == Spec => NoLiveStagingRemoved
<1>1. ASSUME IInv, Next, NEW d \in staging, d \notin staging',
             upload[d[1]][d[2]] \in Threaded
      PROVE  upload'[d[1]][d[2]] \notin Threaded
  <2>0. d[1] \in Publishers /\ d[2] \in Files /\ d = <<d[1], d[2]>>
    BY <1>1 DEF IInv, TypeOK
  <2>1. ASSUME NEW p \in Publishers, Clean(p)
        PROVE  FALSE
    <3>1. pc[d[1]] \in {"pool", "drain"} /\ holder = d[1]
      BY <1>1, <2>0 DEF IInv, FutureInv, LockInv, Locked
    <3>2. holder = p /\ pc[p] = "clean"
      BY <1>1, <2>1 DEF Clean, IInv, LockInv, Locked
    <3> QED
      BY <3>1, <3>2
  <2>2. ASSUME NEW p \in Publishers, NEW f \in Files, NEW how \in {"done", "failed"},
               UploadEnds(p, f, how)
        PROVE  upload'[d[1]][d[2]] \notin Threaded
    <3>1. d = <<p, f>>
      BY <1>1, <2>2 DEF UploadEnds
    <3>2. upload'[p][f] = how
      BY <2>2, <1>1 DEF UploadEnds, Future, IInv, TypeOK
    <3> QED
      BY <3>1, <3>2 DEF Threaded
  <2>3. ASSUME NEW p \in Publishers, NEW f \in Files,
               \/ \E intact \in BOOLEAN : Downloads(p, f, intact)
               \/ \E answered \in BOOLEAN : FindsRemote(p, f, answered) \/ ReadsBack(p, f, answered)
               \/ \E stored \in {"kept", "bad", "good"}, answered \in BOOLEAN :
                    Uploads(p, f, stored, answered)
        PROVE  upload'[d[1]][d[2]] \notin Threaded
    BY <1>1, <2>2, <2>3 DEF Downloads, FindsRemote, ReadsBack, Uploads
  <2>4. ASSUME NEW p \in Publishers, Proceeds(p) \/ RunAgain(p)
        PROVE  upload'[d[1]][d[2]] \notin Threaded
    BY <1>1, <2>1, <2>3, <2>4 DEF Proceeds, RunAgain, Acquire, CleanEnds, ReadExisting,
       VerifyPublication, Inventory, CheckDisk, UploadStarts, PoolRaises, CancelQueued,
       Drained, PoolEnds, Put, PutRefused, Compare
  <2>5. CASE Fault
    BY <1>1, <2>3, <2>5 DEF Fault, ReadExisting, VerifyPublication, Inventory, CheckDisk,
       Put, PutFails, Compare, Killed, Damaged, ManifestRemoved
  <2>6. CASE ForeignManifest
    BY <1>1, <2>6 DEF ForeignManifest
  <2> QED
    BY <1>1, <2>4, <2>5, <2>6 DEF Next
<1>2. IInv /\ [Next /\ UNCHANGED hub]_vars =>
        [\A d \in staging \ staging' :
           upload[d[1]][d[2]] \in Threaded => upload'[d[1]][d[2]] \notin Threaded]_vars
  BY <1>1
<1> QED
  BY <1>2, Invariant, PTL DEF Spec, NoLiveStagingRemoved

-----------------------------------------------------------------------------
(* Sums over finite sets, as in NodeCacheProofs: that module and this one   *)
(* are about two specifications and cannot be extended together.            *)

\* Induction, for a set of numbers.
LEMMA SetOfAll ==
  ASSUME NEW N \in SUBSET Nat, 0 \in N, \A n \in N : n + 1 \in N
  PROVE  N = Nat
<1> SUFFICES ASSUME Nat \ N # {} PROVE FALSE
  OBVIOUS
<1>1. PICK m \in Nat \ N : \A y \in Nat \ N : ~ (<<y, m>> \in OpToRel(<, Nat))
  BY NatLessThanWellFounded, WFMin
<1>2. m - 1 \in Nat /\ m - 1 < m /\ (m - 1) + 1 = m
  <2>1. m \in Nat /\ m # 0
    OBVIOUS
  <2> QED
    BY <2>1
<1>3. m - 1 \in N
  BY <1>1, <1>2 DEF OpToRel
<1> QED
  BY <1>1, <1>2, <1>3

Pick(s) == CHOOSE x \in s : TRUE

\* What a sum over S is defined by.
Sums(g, w, S) ==
  g = [s \in SUBSET S |-> IF s = {} THEN 0 ELSE w[Pick(s)] + g[s \ {Pick(s)}]]

\* The community module's sum is the choice of such a function.
LEMMA SumIsChosen ==
  ASSUME NEW w, NEW S
  PROVE  SumFunctionOnSet(w, S) = (CHOOSE g : Sums(g, w, S))[S]
BY DEF SumFunctionOnSet, FoldFunctionOnSet, MapThenFoldSet, Sums, Pick

LEMMA PickIsIn ==
  ASSUME NEW s, s # {}
  PROVE  Pick(s) \in s
BY DEF Pick

\* The sums over a finite set exist
LEMMA SumsExist ==
  ASSUME NEW D, NEW w \in [D -> Nat], NEW S \in SUBSET D, IsFiniteSet(S)
  PROVE  \E g \in [SUBSET S -> Nat] : Sums(g, w, S)
<1> DEFINE Upto(n) == {s \in SUBSET S : Cardinality(s) <= n}
           Good(g, n) == /\ g \in [Upto(n) -> Nat]
                         /\ \A s \in Upto(n) : g[s] = IF s = {} THEN 0 ELSE w[Pick(s)] + g[s \ {Pick(s)}]
           N == {n \in Nat : \E g : Good(g, n)}
<1>1. \A s \in SUBSET S : IsFiniteSet(s) /\ Cardinality(s) \in Nat /\ Cardinality(s) <= Cardinality(S)
  BY FS_Subset, FS_CardinalityType
<1>2. ASSUME NEW s \in SUBSET S, s # {}
      PROVE  /\ Pick(s) \in S /\ w[Pick(s)] \in Nat
             /\ s \ {Pick(s)} \in SUBSET S
             /\ Cardinality(s \ {Pick(s)}) = Cardinality(s) - 1
             /\ Cardinality(s) # 0
  <2>1. Pick(s) \in s
    BY <1>2, PickIsIn
  <2> QED
    BY <1>1, <1>2, <2>1, FS_RemoveElement, FS_EmptySet
<1>3. 0 \in N
  <2> DEFINE z == [s \in Upto(0) |-> 0]
  <2>1. \A s \in Upto(0) : s = {}
    BY <1>1, FS_EmptySet
  <2>2. Good(z, 0)
    BY <2>1
  <2> QED
    BY <2>2
<1>4. ASSUME NEW n \in N
      PROVE  n + 1 \in N
  <2>1. PICK g : Good(g, n)
    OBVIOUS
  <2> DEFINE h == [s \in Upto(n + 1) |-> IF s \in Upto(n) THEN g[s] ELSE w[Pick(s)] + g[s \ {Pick(s)}]]
  <2>2. Upto(n) \subseteq Upto(n + 1)
    BY <1>1
  <2>3. ASSUME NEW s \in Upto(n + 1), s # {}
        PROVE  s \ {Pick(s)} \in Upto(n)
    BY <1>1, <1>2, <2>3
  <2>4. {} \in Upto(n)
    BY FS_EmptySet
  <2>5. h \in [Upto(n + 1) -> Nat]
    <3>1. ASSUME NEW s \in Upto(n + 1), s \notin Upto(n)
          PROVE  w[Pick(s)] + g[s \ {Pick(s)}] \in Nat
      <4>1. s # {} /\ s \in SUBSET S
        BY <2>4, <3>1
      <4>2. w[Pick(s)] \in Nat
        BY <1>2, <4>1
      <4>3. g[s \ {Pick(s)}] \in Nat
        BY <2>1, <2>3, <4>1
      <4> QED
        BY <4>2, <4>3
    <3> QED
      BY <2>1, <3>1
  <2>6. ASSUME NEW s \in Upto(n + 1)
        PROVE  h[s] = IF s = {} THEN 0 ELSE w[Pick(s)] + h[s \ {Pick(s)}]
    <3>1. CASE s = {}
      BY <2>1, <2>4, <3>1
    <3>2. CASE s # {}
      <4>1. s \ {Pick(s)} \in Upto(n) /\ s \ {Pick(s)} \in Upto(n + 1)
        BY <2>2, <2>3, <3>2
      <4>2. h[s \ {Pick(s)}] = g[s \ {Pick(s)}]
        BY <4>1
      <4>3. s \in Upto(n) => g[s] = w[Pick(s)] + g[s \ {Pick(s)}]
        BY <2>1, <3>2
      <4> QED
        BY <3>2, <4>2, <4>3
    <3> QED
      BY <3>1, <3>2
  <2>7. Good(h, n + 1)
    BY <2>5, <2>6
  <2>8. n + 1 \in Nat
    OBVIOUS
  <2> HIDE DEF Good
  <2> QED
    BY <2>7, <2>8
<1>5. N = Nat
  <2> HIDE DEF N
  <2>1. N \subseteq Nat
    BY DEF N
  <2> QED
    BY <1>3, <1>4, <2>1, SetOfAll
<1>6. PICK g : Good(g, Cardinality(S))
  BY <1>1, <1>5
<1>7. Upto(Cardinality(S)) = SUBSET S
  BY <1>1
<1>8. Sums(g, w, S)
  BY <1>6, <1>7 DEF Sums
<1> QED
  BY <1>6, <1>7, <1>8

\* So the sum is one of them
LEMMA SumIsOne ==
  ASSUME NEW D, NEW w \in [D -> Nat], NEW S \in SUBSET D, IsFiniteSet(S)
  PROVE  \E g \in [SUBSET S -> Nat] : Sums(g, w, S) /\ SumFunctionOnSet(w, S) = g[S]
<1> DEFINE g == CHOOSE h : Sums(h, w, S)
           T == {n \in Nat : \A s \in SUBSET S : Cardinality(s) = n => g[s] \in Nat}
<1>1. Sums(g, w, S)
  BY SumsExist
<1> HIDE DEF g
<1>2. \A s \in SUBSET S : IsFiniteSet(s) /\ Cardinality(s) \in Nat
  BY FS_Subset, FS_CardinalityType
<1>3. 0 \in T
  BY <1>1, <1>2, FS_EmptySet DEF Sums
<1>4. ASSUME NEW n \in T
      PROVE  n + 1 \in T
  <2>1. ASSUME NEW s \in SUBSET S, Cardinality(s) = n + 1
        PROVE  g[s] \in Nat
    <3>0. n \in Nat /\ Cardinality({}) = 0
      BY FS_EmptySet
    <3>1. s # {}
      BY <2>1, <3>0
    <3>2. Pick(s) \in s /\ Pick(s) \in D
      BY <3>1, PickIsIn
    <3>3. Cardinality(s \ {Pick(s)}) = n
      BY <1>2, <2>1, <3>2, FS_RemoveElement
    <3>4. g[s \ {Pick(s)}] \in Nat /\ w[Pick(s)] \in Nat
      BY <3>2, <3>3
    <3>5. g[s] = w[Pick(s)] + g[s \ {Pick(s)}]
      BY <1>1, <3>1 DEF Sums
    <3> QED
      BY <3>4, <3>5
  <2> QED
    BY <2>1
<1>5. T = Nat
  <2> HIDE DEF T
  <2>1. T \subseteq Nat
    BY DEF T
  <2> QED
    BY <1>3, <1>4, <2>1, SetOfAll
<1>6. \A s \in SUBSET S : g[s] \in Nat
  BY <1>2, <1>5
<1>7. g \in [SUBSET S -> Nat]
  BY <1>1, <1>6 DEF Sums
<1>8. SumFunctionOnSet(w, S) = g[S]
  BY SumIsChosen DEF g
<1> QED
  BY <1>1, <1>7, <1>8

\* Sums over different sets agree on what they have in common
LEMMA SumsAgree ==
  ASSUME NEW D, NEW w \in [D -> Nat], NEW S \in SUBSET D, IsFiniteSet(S), NEW R \in SUBSET S,
         NEW g, Sums(g, w, S), NEW h, Sums(h, w, R)
  PROVE  g[R] = h[R]
<1> DEFINE T == {n \in Nat : \A s \in SUBSET R : Cardinality(s) = n => g[s] = h[s]}
<1>1. \A s \in SUBSET R : IsFiniteSet(s) /\ Cardinality(s) \in Nat /\ s \in SUBSET S
  BY FS_Subset, FS_CardinalityType
<1>2. 0 \in T
  BY <1>1, FS_EmptySet DEF Sums
<1>3. ASSUME NEW n \in T
      PROVE  n + 1 \in T
  <2>1. ASSUME NEW s \in SUBSET R, Cardinality(s) = n + 1
        PROVE  g[s] = h[s]
    <3>1. s # {} /\ s \in SUBSET S
      BY <1>1, <2>1, FS_EmptySet
    <3>2. Pick(s) \in s
      BY <3>1, PickIsIn
    <3>3. Cardinality(s \ {Pick(s)}) = n
      BY <1>1, <2>1, <3>2, FS_RemoveElement
    <3>4. g[s \ {Pick(s)}] = h[s \ {Pick(s)}]
      BY <3>3
    <3>5. g[s] = w[Pick(s)] + g[s \ {Pick(s)}]
      BY <3>1 DEF Sums
    <3>6. h[s] = w[Pick(s)] + h[s \ {Pick(s)}]
      BY <3>1 DEF Sums
    <3> QED
      BY <3>4, <3>5, <3>6
  <2> QED
    BY <2>1
<1>4. T = Nat
  <2> HIDE DEF T
  <2>1. T \subseteq Nat
    BY DEF T
  <2> QED
    BY <1>2, <1>3, <2>1, SetOfAll
<1> QED
  BY <1>1, <1>4

\* A sum of numbers is a number, and is taken element by element.
LEMMA SumRecurs ==
  ASSUME NEW D, NEW w \in [D -> Nat], NEW S \in SUBSET D, IsFiniteSet(S)
  PROVE  /\ SumFunctionOnSet(w, S) \in Nat
         /\ SumFunctionOnSet(w, S) =
              IF S = {} THEN 0 ELSE w[Pick(S)] + SumFunctionOnSet(w, S \ {Pick(S)})
<1> DEFINE R == S \ {Pick(S)}
<1>0. \A s \in SUBSET D : IsFiniteSet(s) =>
        \E g \in [SUBSET s -> Nat] : Sums(g, w, s) /\ SumFunctionOnSet(w, s) = g[s]
  BY SumIsOne
<1>1. PICK g \in [SUBSET S -> Nat] : Sums(g, w, S) /\ SumFunctionOnSet(w, S) = g[S]
  BY <1>0
<1>2. IsFiniteSet(R) /\ R \in SUBSET S /\ R \in SUBSET D
  BY FS_Subset
<1>3. PICK h \in [SUBSET R -> Nat] : Sums(h, w, R) /\ SumFunctionOnSet(w, R) = h[R]
  <2> HIDE DEF R
  <2> QED
    BY <1>0, <1>2
<1>4. g[R] = h[R]
  BY <1>1, <1>2, <1>3, SumsAgree
<1>5. g[S] = IF S = {} THEN 0 ELSE w[Pick(S)] + g[R]
  BY <1>1 DEF Sums
<1> QED
  BY <1>1, <1>3, <1>4, <1>5

\* A sum is the sum over all elements but one, and that element.
LEMMA SumAdds ==
  ASSUME NEW D, NEW w \in [D -> Nat], NEW S \in SUBSET D, IsFiniteSet(S), NEW x \in D \ S
  PROVE  SumFunctionOnSet(w, S \cup {x}) = SumFunctionOnSet(w, S) + w[x]
<1> DEFINE T == {n \in Nat : \A s \in SUBSET D : IsFiniteSet(s) /\ Cardinality(s) = n =>
                   \A y \in D \ s : SumFunctionOnSet(w, s \cup {y}) = SumFunctionOnSet(w, s) + w[y]}
<1>0. \A y \in D : w[y] \in Nat
  OBVIOUS
<1>1. ASSUME NEW s \in SUBSET D, IsFiniteSet(s), NEW y \in D \ s,
             \A t \in SUBSET D : IsFiniteSet(t) /\ Cardinality(s) = Cardinality(t) + 1 =>
               \A z \in D \ t : SumFunctionOnSet(w, t \cup {z}) = SumFunctionOnSet(w, t) + w[z]
      PROVE  SumFunctionOnSet(w, s \cup {y}) = SumFunctionOnSet(w, s) + w[y]
  <2> DEFINE a == s \cup {y}
             p == Pick(a)
             t == s \ {p}
  <2>1. a \in SUBSET D /\ IsFiniteSet(a) /\ a # {} /\ p \in a
    <3>1. IsFiniteSet(a)
      BY <1>1, FS_AddElement
    <3>2. p \in a
      BY PickIsIn
    <3> QED
      BY <1>1, <3>1, <3>2
  <2>2. SumFunctionOnSet(w, a) = w[p] + SumFunctionOnSet(w, a \ {p})
    BY <2>1, SumRecurs
  <2>3. SumFunctionOnSet(w, s) \in Nat /\ w[y] \in Nat /\ w[p] \in Nat
    BY <1>0, <1>1, <2>1, SumRecurs
  <2> HIDE DEF p
  <2>4. CASE p = y
    <3>1. a \ {p} = s
      BY <2>4
    <3>2. SumFunctionOnSet(w, a) = w[y] + SumFunctionOnSet(w, s)
      BY <2>2, <2>4, <3>1
    <3> QED
      BY <2>3, <3>2
  <2>5. CASE p # y
    <3>1. p \in s /\ a \ {p} = t \cup {y} /\ s = t \cup {p} /\ p \in D \ t /\ y \in D \ t
      BY <2>1, <2>5
    <3>2. t \in SUBSET D /\ IsFiniteSet(t) /\ Cardinality(s) = Cardinality(t) + 1
      <4>1. IsFiniteSet(t) /\ Cardinality(t) = Cardinality(s) - 1 /\ Cardinality(s) \in Nat
        BY <1>1, <3>1, FS_RemoveElement, FS_CardinalityType
      <4> QED
        BY <4>1
    <3>3. SumFunctionOnSet(w, t \cup {y}) = SumFunctionOnSet(w, t) + w[y]
      BY <1>1, <3>1, <3>2
    <3>4. SumFunctionOnSet(w, t \cup {p}) = SumFunctionOnSet(w, t) + w[p]
      BY <1>1, <3>1, <3>2
    <3>5. SumFunctionOnSet(w, t) \in Nat
      BY <3>2, SumRecurs
    <3>6. SumFunctionOnSet(w, a) = w[p] + (SumFunctionOnSet(w, t) + w[y])
      BY <2>2, <3>1, <3>3
    <3>7. SumFunctionOnSet(w, s) = SumFunctionOnSet(w, t) + w[p]
      BY <3>1, <3>4
    <3> QED
      <4> HIDE DEF t
      <4> QED
        BY <2>3, <3>5, <3>6, <3>7
  <2> QED
    BY <2>4, <2>5
<1>2. 0 \in T
  <2>1. ASSUME NEW s \in SUBSET D, IsFiniteSet(s), Cardinality(s) = 0, NEW y \in D \ s
        PROVE  SumFunctionOnSet(w, s \cup {y}) = SumFunctionOnSet(w, s) + w[y]
    <3>1. \A t : IsFiniteSet(t) => Cardinality(s) # Cardinality(t) + 1
      <4>1. ASSUME NEW t, IsFiniteSet(t)
            PROVE  Cardinality(s) # Cardinality(t) + 1
        <5>1. Cardinality(t) \in Nat
          BY <4>1, FS_CardinalityType
        <5> QED
          BY <2>1, <5>1
      <4> QED
        BY <4>1
    <3> QED
      BY <1>1, <2>1, <3>1
  <2> QED
    BY <2>1
<1>3. ASSUME NEW n \in T
      PROVE  n + 1 \in T
  <2>1. ASSUME NEW s \in SUBSET D, IsFiniteSet(s), Cardinality(s) = n + 1, NEW y \in D \ s
        PROVE  SumFunctionOnSet(w, s \cup {y}) = SumFunctionOnSet(w, s) + w[y]
    <3>1. ASSUME NEW t \in SUBSET D, IsFiniteSet(t), Cardinality(s) = Cardinality(t) + 1
          PROVE  \A z \in D \ t : SumFunctionOnSet(w, t \cup {z}) = SumFunctionOnSet(w, t) + w[z]
      <4>1. Cardinality(t) \in Nat /\ Cardinality(t) + 1 = n + 1 /\ n \in Nat
        BY <2>1, <3>1, FS_CardinalityType
      <4>2. Cardinality(t) = n
        BY <4>1
      <4> QED
        BY <3>1, <4>2
    <3> QED
      BY <1>1, <2>1, <3>1
  <2> QED
    BY <2>1
<1>4. T = Nat
  <2> HIDE DEF T
  <2>1. T \subseteq Nat
    BY DEF T
  <2> QED
    BY <1>2, <1>3, <2>1, SetOfAll
<1>5. Cardinality(S) \in Nat
  BY FS_CardinalityType
<1> QED
  BY <1>4, <1>5

\* The same, for an element that is taken away.
LEMMA SumDrops ==
  ASSUME NEW D, NEW w \in [D -> Nat], NEW S \in SUBSET D, IsFiniteSet(S), NEW x \in S
  PROVE  /\ SumFunctionOnSet(w, S) = SumFunctionOnSet(w, S \ {x}) + w[x]
         /\ SumFunctionOnSet(w, S \ {x}) \in Nat
         /\ w[x] \in Nat
<1> DEFINE R == S \ {x}
<1>1. IsFiniteSet(R) /\ R \in SUBSET D /\ x \in D \ R /\ S = R \cup {x}
  BY FS_Subset
<1>2. SumFunctionOnSet(w, R) \in Nat
  <2> HIDE DEF R
  <2> QED
    BY <1>1, SumRecurs
<1>3. SumFunctionOnSet(w, R \cup {x}) = SumFunctionOnSet(w, R) + w[x]
  <2> HIDE DEF R
  <2> QED
    BY <1>1, SumAdds
<1> QED
  BY <1>1, <1>2, <1>3

\* Less of a set sums to no more.
LEMMA SumMonotone ==
  ASSUME NEW D, NEW w \in [D -> Nat], NEW S \in SUBSET D, IsFiniteSet(S), NEW R \in SUBSET S
  PROVE  SumFunctionOnSet(w, R) <= SumFunctionOnSet(w, S)
<1> DEFINE T == {n \in Nat : \A s \in SUBSET S : R \subseteq s /\ Cardinality(s \ R) = n =>
                   SumFunctionOnSet(w, R) <= SumFunctionOnSet(w, s)}
<1>1. \A s \in SUBSET S : /\ IsFiniteSet(s) /\ IsFiniteSet(s \ R) /\ Cardinality(s \ R) \in Nat
                          /\ s \in SUBSET D
  BY FS_Subset, FS_CardinalityType
<1>2. \A s \in SUBSET S : SumFunctionOnSet(w, s) \in Nat
  BY <1>1, SumRecurs
<1>3. 0 \in T
  <2>1. ASSUME NEW s \in SUBSET S, R \subseteq s, Cardinality(s \ R) = 0
        PROVE  SumFunctionOnSet(w, R) <= SumFunctionOnSet(w, s)
    <3>1. s \ R = {}
      BY <1>1, <2>1, FS_EmptySet
    <3>2. s = R
      BY <2>1, <3>1
    <3> QED
      BY <1>2, <3>2
  <2> QED
    BY <2>1
<1>4. ASSUME NEW n \in T
      PROVE  n + 1 \in T
  <2>1. ASSUME NEW s \in SUBSET S, R \subseteq s, Cardinality(s \ R) = n + 1
        PROVE  SumFunctionOnSet(w, R) <= SumFunctionOnSet(w, s)
    <3>0. n \in Nat /\ Cardinality({}) = 0
      BY FS_EmptySet
    <3>1. PICK x \in s \ R : TRUE
      BY <2>1, <3>0
    <3>2. /\ R \subseteq s \ {x} /\ s \ {x} \in SUBSET S
          /\ (s \ {x}) \ R = (s \ R) \ {x}
      BY <2>1, <3>1
    <3>3. Cardinality((s \ R) \ {x}) = n
      <4>1. Cardinality((s \ R) \ {x}) = Cardinality(s \ R) - 1
        <5>1. IsFiniteSet(s \ R) /\ x \in s \ R
          BY <1>1, <3>1
        <5> HIDE <3>1
        <5> QED
          BY <5>1, FS_RemoveElement
      <4> QED
        BY <2>1, <3>0, <4>1
    <3>4. SumFunctionOnSet(w, R) <= SumFunctionOnSet(w, s \ {x})
      BY <3>2, <3>3
    <3>5. /\ SumFunctionOnSet(w, s) = SumFunctionOnSet(w, s \ {x}) + w[x]
          /\ SumFunctionOnSet(w, s \ {x}) \in Nat /\ w[x] \in Nat
      BY <1>1, <3>1, SumDrops
    <3>6. SumFunctionOnSet(w, R) \in Nat
      BY <1>2
    <3> QED
      BY <3>4, <3>5, <3>6
  <2> QED
    BY <2>1
<1>5. T = Nat
  <2> HIDE DEF T
  <2>1. T \subseteq Nat
    BY DEF T
  <2> QED
    BY <1>3, <1>4, <2>1, SetOfAll
<1>6. Cardinality(S \ R) \in T
  BY <1>1, <1>5
<1> QED
  BY <1>6

-----------------------------------------------------------------------------
(* The reserve of free space *)

\* The staging directories are those of the running threads, no more than the
\* disk check has left room for.
StagingInv ==
  /\ IsFiniteSet(staging)
  /\ \A p \in Publishers :
       pc[p] \in {"existing", "verify", "inventory", "check"} => staging = {}
  /\ \A p \in Publishers : pc[p] \in {"pool", "drain"} =>
       /\ staging = {<<p, f>> : f \in In(p, Threaded)}
       /\ Cardinality(In(p, Threaded)) <= CONCURRENCY
       /\ Scratch - hub >= StagedAtOnce + RESERVE

\* Sums of sizes.
LEMMA BytesIs ==
  ASSUME NEW S \in SUBSET Files
  PROVE  /\ IsFiniteSet(S) /\ Bytes(S) \in Nat /\ Bytes(S) <= Bytes(Files)
         /\ Cardinality(S) \in Nat
<1>1. IsFiniteSet(Files)
  BY PublicationAssumption, FS_Interval DEF Files
<1>2. IsFiniteSet(S) /\ Cardinality(S) \in Nat
  BY <1>1, FS_Subset, FS_CardinalityType
<1>3. Size \in [Files -> Nat]
  BY PublicationAssumption
<1>4. Bytes(S) \in Nat
  BY <1>2, <1>3, SumRecurs DEF Bytes
<1>5. Bytes(S) <= Bytes(Files)
  BY <1>1, <1>3, SumMonotone DEF Bytes
<1> QED
  BY <1>2, <1>4, <1>5

\* No files that are staged at once take more than the disk check asks for.
LEMMA LargestIs ==
  ASSUME NEW S \in SUBSET Files, Cardinality(S) <= CONCURRENCY
  PROVE  StagedAtOnce \in Nat /\ Bytes(S) <= StagedAtOnce
<1> DEFINE Sizes == {Bytes(R) : R \in {R \in SUBSET Files : Cardinality(R) <= CONCURRENCY}}
           all == Bytes(Files)
           Rest == {n \in Nat : \E b \in Sizes : n = all - b}
<1>1. all \in Nat /\ \A b \in Sizes : b \in Nat /\ b <= all /\ all - b \in Nat
  <2>1. all \in Nat
    BY BytesIs
  <2>2. ASSUME NEW b \in Sizes
        PROVE  b \in Nat /\ b <= all
    BY BytesIs
  <2> QED
    BY <2>1, <2>2
<1>2. Bytes(S) \in Sizes
  OBVIOUS
<1> HIDE DEF Sizes, all
<1>3. Rest # {}
  BY <1>1, <1>2
<1>4. PICK m \in Rest : \A y \in Rest : ~ (<<y, m>> \in OpToRel(<, Nat))
  BY <1>3, NatLessThanWellFounded, WFMin
<1>5. PICK x \in Sizes : m = all - x
  BY <1>4
<1>6. ASSUME NEW y \in Sizes
      PROVE  x >= y
  <2>1. x \in Nat /\ y \in Nat /\ all \in Nat /\ all - y \in Rest /\ m \in Nat
    BY <1>1
  <2>2. ~ (all - y < m)
    BY <1>1, <1>4, <2>1 DEF OpToRel
  <2> QED
    BY <1>5, <2>1, <2>2
<1>7. Max(Sizes) \in Sizes /\ \A y \in Sizes : Max(Sizes) >= y
  BY <1>6 DEF Max
<1>8. StagedAtOnce = Max(Sizes)
  BY DEF StagedAtOnce, Sizes
<1>9. Max(Sizes) \in Nat /\ Bytes(S) \in Nat
  BY <1>1, <1>2, <1>7
<1> QED
  BY <1>2, <1>7, <1>8, <1>9

\* The directories of one publisher take what their files take.
LEMMA StagedIs ==
  ASSUME NEW p \in Publishers, NEW S \in SUBSET Files
  PROVE  SumFunctionOnSet(StagedSize, {<<p, f>> : f \in S}) = Bytes(S)
<1> DEFINE Of(s) == {<<p, f>> : f \in s}
           T == {n \in Nat : \A s \in SUBSET Files : Cardinality(s) = n =>
                   IsFiniteSet(Of(s)) /\ SumFunctionOnSet(StagedSize, Of(s)) = Bytes(s)}
<1>1. Size \in [Files -> Nat] /\ StagedSize \in [Publishers \X Files -> Nat]
  BY PublicationAssumption DEF StagedSize
<1>2. \A s \in SUBSET Files : IsFiniteSet(s) /\ Cardinality(s) \in Nat
  BY BytesIs
<1>3. 0 \in T
  <2>1. ASSUME NEW s \in SUBSET Files, Cardinality(s) = 0
        PROVE  IsFiniteSet(Of(s)) /\ SumFunctionOnSet(StagedSize, Of(s)) = Bytes(s)
    <3>1. s = {} /\ Of(s) = {}
      BY <1>2, <2>1, FS_EmptySet
    <3>2. IsFiniteSet({}) /\ {} \in SUBSET Files /\ {} \in SUBSET (Publishers \X Files)
      BY FS_EmptySet
    <3>3. SumFunctionOnSet(Size, {}) = 0
      BY <1>1, <3>2, SumRecurs
    <3>4. SumFunctionOnSet(StagedSize, {}) = 0
      BY <1>1, <3>2, SumRecurs
    <3> QED
      <4> HIDE DEF Of
      <4> QED
        BY <3>1, <3>2, <3>3, <3>4 DEF Bytes
  <2> QED
    BY <2>1
<1>4. ASSUME NEW n \in T
      PROVE  n + 1 \in T
  <2>1. ASSUME NEW s \in SUBSET Files, Cardinality(s) = n + 1
        PROVE  IsFiniteSet(Of(s)) /\ SumFunctionOnSet(StagedSize, Of(s)) = Bytes(s)
    <3>0. n \in Nat /\ Cardinality({}) = 0
      BY FS_EmptySet
    <3>1. PICK x \in s : TRUE
      BY <2>1, <3>0
    <3> DEFINE r == s \ {x}
    <3>2. r \in SUBSET Files /\ x \in Files \ r /\ s = r \cup {x}
      BY <3>1
    <3>3. Cardinality(r) = n
      BY <1>2, <2>1, <3>0, <3>1, FS_RemoveElement
    <3>4. IsFiniteSet(Of(r)) /\ SumFunctionOnSet(StagedSize, Of(r)) = Bytes(r)
      BY <3>2, <3>3
    <3>5. /\ Of(s) = Of(r) \cup {<<p, x>>}
          /\ <<p, x>> \in (Publishers \X Files) \ Of(r)
          /\ Of(r) \in SUBSET (Publishers \X Files)
      BY <3>2
    <3>6. StagedSize[<<p, x>>] = Size[x]
      BY <3>2 DEF StagedSize
    <3> HIDE DEF Of, r
    <3>7. SumFunctionOnSet(StagedSize, Of(r) \cup {<<p, x>>})
            = SumFunctionOnSet(StagedSize, Of(r)) + StagedSize[<<p, x>>]
      BY <1>1, <3>4, <3>5, SumAdds
    <3>8. SumFunctionOnSet(Size, r \cup {x}) = SumFunctionOnSet(Size, r) + Size[x]
      BY <1>1, <1>2, <3>2, SumAdds
    <3>9. IsFiniteSet(Of(s))
      BY <3>4, <3>5, FS_AddElement
    <3> QED
      BY <3>2, <3>4, <3>5, <3>6, <3>7, <3>8, <3>9 DEF Bytes
  <2> QED
    BY <2>1
<1>5. T = Nat
  <2> HIDE DEF T
  <2>1. T \subseteq Nat
    BY DEF T
  <2> QED
    BY <1>3, <1>4, <2>1, SetOfAll
<1>6. Cardinality(S) \in T
  BY <1>2, <1>5
<1> QED
  BY <1>6

\* Only the start of an upload makes a directory.
LEMMA StagingSteps ==
  ASSUME IInv, [Next /\ UNCHANGED hub]_vars,
         ~ \E p \in Publishers, f \in Files : UploadStarts(p, f)
  PROVE  staging' \subseteq staging
<1>1. ASSUME NEW p \in Publishers, NEW f \in Files,
             \/ \E intact \in BOOLEAN : Downloads(p, f, intact)
             \/ \E answered \in BOOLEAN : FindsRemote(p, f, answered) \/ ReadsBack(p, f, answered)
             \/ \E stored \in {"kept", "bad", "good"}, answered \in BOOLEAN :
                  Uploads(p, f, stored, answered)
      PROVE  staging' \subseteq staging
  BY <1>1 DEF Downloads, FindsRemote, ReadsBack, Uploads, UploadEnds
<1>2. ASSUME NEW p \in Publishers, Proceeds(p) \/ RunAgain(p)
      PROVE  staging' \subseteq staging
  BY <1>1, <1>2 DEF Proceeds, RunAgain, Acquire, Clean, CleanEnds, ReadExisting,
     VerifyPublication, Inventory, CheckDisk, PoolRaises, CancelQueued,
     Drained, PoolEnds, Put, PutRefused, Compare
<1>3. CASE Fault
  BY <1>1, <1>3 DEF Fault, ReadExisting, VerifyPublication, Inventory, CheckDisk,
     Put, PutFails, Compare, Killed, Damaged, ManifestRemoved
<1> QED
  BY <1>2, <1>3 DEF Next, ForeignManifest, vars

\* What a Job past its disk check does to its threads and their directories.
LEMMA PoolSteps ==
  ASSUME IInv, [Next /\ UNCHANGED hub]_vars, NEW k \in Publishers, pc'[k] \in {"pool", "drain"}
  PROVE  \/ /\ pc[k] = "check" /\ disk_check
            /\ UNCHANGED staging /\ In(k, Threaded)' = {}
         \/ /\ pc[k] \in {"pool", "drain"}
            /\ UNCHANGED staging /\ In(k, Threaded)' = In(k, Threaded)
         \/ /\ pc[k] \in {"pool", "drain"}
            /\ \E f \in Files : /\ staging' = staging \ {<<k, f>>}
                                /\ In(k, Threaded)' = In(k, Threaded) \ {f}
         \/ \E f \in Files : UploadStarts(k, f)
<1> DEFINE Passes == /\ pc[k] = "check" /\ disk_check
                     /\ UNCHANGED staging /\ In(k, Threaded)' = {}
           Stays == /\ pc[k] \in {"pool", "drain"}
                    /\ UNCHANGED staging /\ In(k, Threaded)' = In(k, Threaded)
           Leaves == /\ pc[k] \in {"pool", "drain"}
                     /\ \E f \in Files : /\ staging' = staging \ {<<k, f>>}
                                         /\ In(k, Threaded)' = In(k, Threaded) \ {f}
           Starts == \E f \in Files : UploadStarts(k, f)
           Goal == Passes \/ Stays \/ Leaves \/ Starts
           Fails(p) ==
             \/ ReadExisting(p, FALSE) \/ VerifyPublication(p, FALSE) \/ Inventory(p, FALSE)
             \/ CheckDisk(p, FALSE)
             \/ \E f \in Files :
                  \/ Downloads(p, f, FALSE) \/ FindsRemote(p, f, FALSE)
                  \/ Uploads(p, f, "good", FALSE)
                  \/ \E answered \in BOOLEAN, stored \in {"kept", "bad"} :
                       Uploads(p, f, stored, answered)
                  \/ ReadsBack(p, f, FALSE)
             \/ Put(p, "error") \/ PutFails(p) \/ Compare(p, FALSE) \/ Killed(p)
           Transfers(p) == \E f \in Files :
             \/ \E intact \in BOOLEAN : Downloads(p, f, intact)
             \/ \E answered \in BOOLEAN : FindsRemote(p, f, answered) \/ ReadsBack(p, f, answered)
             \/ \E stored \in {"kept", "bad", "good"}, answered \in BOOLEAN :
                  Uploads(p, f, stored, answered)
           Other(p) ==
             \/ Acquire(p) \/ Clean(p) \/ CleanEnds(p)
             \/ \E ok \in BOOLEAN : \/ ReadExisting(p, ok) \/ VerifyPublication(p, ok)
                                   \/ Inventory(p, ok) \/ Compare(p, ok)
             \/ Drained(p) \/ PoolEnds(p) \/ PutRefused(p) \/ PutFails(p) \/ Killed(p) \/ RunAgain(p)
             \/ \E answer \in {"ok", "412", "error"} : Put(p, answer)
           Own(p) == \/ Transfers(p) \/ Other(p) \/ PoolRaises(p) \/ CancelQueued(p)
                     \/ \E writable \in BOOLEAN : CheckDisk(p, writable)
                     \/ \E f \in Files : UploadStarts(p, f)
<1>1. \/ \E p \in Publishers : Own(p)
      \/ ForeignManifest \/ ManifestRemoved \/ UNCHANGED vars
      \/ \E f \in Files, c \in {"absent", "bad"} : Damaged(f, c)
  <2>1. ASSUME NEW p \in Publishers, Proceeds(p) \/ RunAgain(p)
        PROVE  Own(p)
    BY <2>1 DEF Proceeds
  <2>2. ASSUME NEW p \in Publishers, Fails(p)
        PROVE  Own(p)
    BY <2>2
  <2> HIDE DEF Own
  <2> QED
    BY <2>1, <2>2, PublicationAssumption DEF Next, Fault
<1>2. CASE ForeignManifest \/ ManifestRemoved \/ UNCHANGED vars \/ \E f \in Files, c \in {"absent", "bad"} : Damaged(f, c)
  <2>1. UNCHANGED <<pc, upload, staging>>
    BY <1>2 DEF ForeignManifest, ManifestRemoved, Damaged, vars
  <2>2. Stays
    BY <2>1 DEF In
  <2> QED
    BY <2>2
<1>3. ASSUME NEW p \in Publishers, p # k, Own(p)
      PROVE  Goal
  <2>1. pc'[k] = pc[k] /\ upload'[k] = upload[k]
    <3>1. CASE Transfers(p)
      BY <1>3, <3>1 DEF Downloads, FindsRemote, ReadsBack, Uploads, UploadEnds, Future, IInv, TypeOK
    <3>2. CASE Other(p)
      BY <1>3, <3>2 DEF Acquire, Clean, CleanEnds, ReadExisting, VerifyPublication, Inventory,
         Compare, Drained, PoolEnds, PutRefused, PutFails, Killed, RunAgain, Put, Goes, Ends, IInv, TypeOK
    <3>3. CASE \/ PoolRaises(p) \/ CancelQueued(p)
               \/ \E writable \in BOOLEAN : CheckDisk(p, writable)
               \/ \E f \in Files : UploadStarts(p, f)
      BY <1>3, <3>3 DEF PoolRaises, CancelQueued, CheckDisk, UploadStarts, Future, Goes, Ends, IInv, TypeOK
    <3> HIDE DEF Transfers, Other
    <3> QED
      BY <1>3, <3>1, <3>2, <3>3
  <2>2. holder = k
    BY <2>1 DEF IInv, LockInv, Locked
  <2>3. pc[p] \notin Locked
    BY <1>3, <2>2 DEF IInv, LockInv
  <2>4. UNCHANGED staging
    <3>1. CASE Transfers(p)
      BY <2>3, <3>1 DEF Downloads, FindsRemote, ReadsBack, Uploads, IInv, FutureInv, Threaded, Locked
    <3>2. CASE Other(p)
      BY <2>3, <3>2 DEF Acquire, Clean, CleanEnds, ReadExisting, VerifyPublication, Inventory,
         Compare, Drained, PoolEnds, PutRefused, PutFails, Killed, RunAgain, Put, Locked
    <3>3. CASE \/ PoolRaises(p) \/ CancelQueued(p)
               \/ \E writable \in BOOLEAN : CheckDisk(p, writable)
               \/ \E f \in Files : UploadStarts(p, f)
      BY <2>3, <3>3 DEF PoolRaises, CancelQueued, CheckDisk, UploadStarts, Locked
    <3> HIDE DEF Transfers, Other
    <3> QED
      BY <1>3, <3>1, <3>2, <3>3
  <2>5. Stays
    BY <2>1, <2>4 DEF In
  <2> QED
    BY <2>5
<1>4. CASE Transfers(k)
  <2>1. PICK f \in Files :
             \/ \E intact \in BOOLEAN : Downloads(k, f, intact)
             \/ \E answered \in BOOLEAN : FindsRemote(k, f, answered) \/ ReadsBack(k, f, answered)
             \/ \E stored \in {"kept", "bad", "good"}, answered \in BOOLEAN :
                  Uploads(k, f, stored, answered)
    BY <1>4
  <2>2. upload[k][f] \in Threaded
    BY <2>1 DEF Downloads, FindsRemote, ReadsBack, Uploads, Threaded
  <2>3. pc[k] \in {"pool", "drain"}
    BY <2>2 DEF IInv, FutureInv
  <2>4. \/ UNCHANGED staging /\ \E to \in Threaded : Future(k, f, to)
        \/ \E how \in {"done", "failed"} : UploadEnds(k, f, how)
    BY <2>1 DEF Downloads, FindsRemote, ReadsBack, Uploads, Threaded
  <2>5. ASSUME UNCHANGED staging, NEW to \in Threaded, Future(k, f, to)
        PROVE  Stays
    <3>1. \A g \in Files : upload'[k][g] \in Threaded <=> upload[k][g] \in Threaded
      BY <2>2, <2>5 DEF Future, IInv, TypeOK
    <3> QED
      BY <2>3, <2>5, <3>1 DEF In
  <2>6. ASSUME NEW how \in {"done", "failed"}, UploadEnds(k, f, how)
        PROVE  Leaves
    <3>1. \A g \in Files : upload'[k][g] \in Threaded <=> upload[k][g] \in Threaded /\ g # f
      BY <2>6 DEF UploadEnds, Future, Threaded, IInv, TypeOK
    <3>2. In(k, Threaded)' = In(k, Threaded) \ {f}
      BY <3>1 DEF In
    <3> QED
      BY <2>3, <2>6, <3>2 DEF UploadEnds
  <2> HIDE DEF Stays, Leaves
  <2>7. Stays \/ Leaves
    BY <2>4, <2>5, <2>6
  <2> QED
    BY <2>7 DEF Stays, Leaves
<1>5. CASE Other(k)
  <2>1. FALSE
    BY <1>5 DEF Acquire, Clean, CleanEnds, ReadExisting, VerifyPublication, Inventory,
       Compare, Drained, PoolEnds, PutRefused, PutFails, Killed, RunAgain, Put, Goes, Ends, IInv, TypeOK
  <2> QED
    BY <2>1
<1>6. CASE PoolRaises(k)
  BY <1>6 DEF PoolRaises, Goes, In
<1>7. CASE CancelQueued(k)
  <2>1. \A g \in Files : upload'[k][g] \in Threaded <=> upload[k][g] \in Threaded
    BY <1>7 DEF CancelQueued, Threaded, IInv, TypeOK
  <2> QED
    BY <1>7, <2>1 DEF CancelQueued, In
<1>8. ASSUME NEW writable \in BOOLEAN, CheckDisk(k, writable)
      PROVE  Passes
  <2>1. \A g \in Files : upload'[k][g] \notin Threaded
    BY <1>8 DEF CheckDisk, Ends, NoUploads, Threaded, IInv, TypeOK
  <2> QED
    BY <1>8, <2>1 DEF CheckDisk, Ends, In, IInv, TypeOK
<1>9. ASSUME Own(k)
      PROVE  Goal
  <2> HIDE DEF Transfers, Other
  <2> QED
    BY <1>4, <1>5, <1>6, <1>7, <1>8, <1>9
<1> QED
  BY <1>1, <1>2, <1>3, <1>9

LEMMA StagingInit == Init => StagingInv
BY FS_EmptySet DEF Init, StagingInv

\* Before the disk check there is no directory, and after it only those of
\* the threads.
LEMMA StagingKeeps ==
  ASSUME IInv, IInv', StagingInv, [Next /\ UNCHANGED hub]_vars
  PROVE  StagingInv'
<1>1. IsFiniteSet(staging')
  <2>1. CASE \E p \in Publishers, f \in Files : UploadStarts(p, f)
    <3>1. PICK p \in Publishers, f \in Files : UploadStarts(p, f)
      BY <2>1
    <3>2. IsFiniteSet(staging) /\ staging' = staging \cup {<<p, f>>}
      BY <3>1 DEF UploadStarts, StagingInv
    <3> QED
      BY <3>2, FS_AddElement
  <2>2. CASE ~ \E p \in Publishers, f \in Files : UploadStarts(p, f)
    BY <2>2, StagingSteps, FS_Subset DEF StagingInv
  <2> QED
    BY <2>1, <2>2
<1>2. ASSUME NEW k \in Publishers, pc'[k] \in {"existing", "verify", "inventory", "check"}
      PROVE  staging' = {}
  <2>1. ASSUME NEW p \in Publishers, NEW f \in Files, UploadStarts(p, f)
        PROVE  FALSE
    BY <1>2, <2>1 DEF UploadStarts, IInv, LockInv, Locked
  <2>2. staging' \subseteq staging
    BY <2>1, StagingSteps
  <2>3. staging = {}
    <3>1. CASE pc'[k] = pc[k]
      BY <1>2, <3>1 DEF StagingInv
    <3>2. CASE pc'[k] # pc[k]
      <4>1. pc[k] \in {"existing", "verify", "inventory", "check"} \/ CleanEnds(k)
        <5>1. ASSUME NEW p \in Publishers, Proceeds(p) \/ RunAgain(p)
              PROVE  pc[k] \in {"existing", "verify", "inventory", "check"} \/ CleanEnds(k)
          BY <1>2, <3>2, <5>1 DEF Proceeds, RunAgain, Acquire, Clean, CleanEnds, ReadExisting,
             VerifyPublication, Inventory, CheckDisk, UploadStarts, Downloads, FindsRemote, Uploads,
             ReadsBack, UploadEnds, PoolRaises, CancelQueued, Drained, PoolEnds, Put, PutRefused,
             Compare, Goes, Ends, IInv, TypeOK
        <5>2. ASSUME Fault
              PROVE  pc[k] \in {"existing", "verify", "inventory", "check"} \/ CleanEnds(k)
          BY <1>2, <3>2, <5>2 DEF Fault, ReadExisting, VerifyPublication, Inventory, CheckDisk,
             Downloads, FindsRemote, Uploads, ReadsBack, UploadEnds, Put, PutFails, Compare,
             Killed, Damaged, ManifestRemoved, Goes, Ends, IInv, TypeOK
        <5> QED
          BY <3>2, <5>1, <5>2 DEF Next, ForeignManifest, vars
      <4> QED
        BY <4>1 DEF StagingInv, CleanEnds
    <3> QED
      BY <3>1, <3>2
  <2> QED
    BY <2>2, <2>3
<1>3. ASSUME NEW k \in Publishers, pc'[k] \in {"pool", "drain"}
      PROVE  /\ staging' = {<<k, f>> : f \in In(k, Threaded)'}
             /\ Cardinality(In(k, Threaded)') <= CONCURRENCY
             /\ Scratch - hub' >= StagedAtOnce + RESERVE
  <2>0. hub' = hub
    BY DEF vars
  <2>1. CASE /\ pc[k] = "check" /\ disk_check
             /\ UNCHANGED staging /\ In(k, Threaded)' = {}
    <3>1. staging = {}
      BY <2>1 DEF StagingInv
    <3>2. staging' = {<<k, f>> : f \in In(k, Threaded)'}
      BY <2>1, <3>1
    <3>3. Cardinality(In(k, Threaded)') <= CONCURRENCY
      <4>1. Cardinality({}) = 0 /\ CONCURRENCY \in Nat
        BY FS_EmptySet, PublicationAssumption
      <4> QED
        BY <2>1, <4>1
    <3>4. Free = Scratch - hub
      <4>1. SumFunctionOnSet(StagedSize, {}) = 0
        <5>1. StagedSize \in [Publishers \X Files -> Nat]
          BY PublicationAssumption DEF StagedSize
        <5> QED
          BY <5>1, FS_EmptySet, SumRecurs
      <4>2. Scratch \in Nat /\ hub \in Nat
        BY PublicationAssumption DEF IInv, TypeOK
      <4> QED
        BY <3>1, <4>1, <4>2 DEF Free
    <3> QED
      BY <2>0, <2>1, <3>2, <3>3, <3>4 DEF disk_check
  <2>2. CASE /\ pc[k] \in {"pool", "drain"}
             /\ UNCHANGED staging /\ In(k, Threaded)' = In(k, Threaded)
    BY <2>0, <2>2 DEF StagingInv
  <2>3. CASE pc[k] \in {"pool", "drain"} /\ \E f \in Files :
                /\ staging' = staging \ {<<k, f>>}
                /\ In(k, Threaded)' = In(k, Threaded) \ {f}
    <3>1. PICK f \in Files : /\ staging' = staging \ {<<k, f>>}
                             /\ In(k, Threaded)' = In(k, Threaded) \ {f}
      BY <2>3
    <3>2. /\ staging = {<<k, g>> : g \in In(k, Threaded)}
          /\ Cardinality(In(k, Threaded)) <= CONCURRENCY
          /\ Scratch - hub >= StagedAtOnce + RESERVE
      BY <2>3 DEF StagingInv
    <3>3. staging' = {<<k, g>> : g \in In(k, Threaded)'}
      BY <3>1, <3>2
    <3>4. Cardinality(In(k, Threaded)') <= CONCURRENCY
      <4>1. In(k, Threaded) \in SUBSET Files
        BY DEF In
      <4>2. IsFiniteSet(In(k, Threaded)) /\ Cardinality(In(k, Threaded)) \in Nat
        BY <4>1, BytesIs
      <4>3. /\ Cardinality(In(k, Threaded)') \in Nat
            /\ Cardinality(In(k, Threaded)') <= Cardinality(In(k, Threaded))
        BY <3>1, <4>2, FS_Subset, FS_CardinalityType
      <4>4. CONCURRENCY \in Nat
        BY PublicationAssumption
      <4> QED
        BY <3>2, <4>2, <4>3, <4>4
    <3> QED
      BY <2>0, <3>2, <3>3, <3>4
  <2>4. CASE \E f \in Files : UploadStarts(k, f)
    <3>1. PICK f \in Files : UploadStarts(k, f)
      BY <2>4
    <3>2. /\ staging = {<<k, g>> : g \in In(k, Threaded)}
          /\ Scratch - hub >= StagedAtOnce + RESERVE
      BY <3>1 DEF UploadStarts, StagingInv
    <3>3. In(k, Threaded)' = In(k, Threaded) \cup {f}
      <4>1. \A g \in Files : upload'[k][g] \in Threaded <=> upload[k][g] \in Threaded \/ g = f
        BY <3>1 DEF UploadStarts, Future, Threaded, IInv, TypeOK
      <4> QED
        BY <4>1 DEF In
    <3>4. staging' = {<<k, g>> : g \in In(k, Threaded)'}
      BY <3>1, <3>2, <3>3 DEF UploadStarts
    <3>5. Cardinality(In(k, Threaded)') <= CONCURRENCY
      <4>1. In(k, Threaded) \in SUBSET Files
        BY DEF In
      <4>2. IsFiniteSet(In(k, Threaded)) /\ Cardinality(In(k, Threaded)) \in Nat
        BY <4>1, BytesIs
      <4>3. \/ Cardinality(In(k, Threaded)') = Cardinality(In(k, Threaded))
            \/ Cardinality(In(k, Threaded)') = Cardinality(In(k, Threaded)) + 1
        BY <3>3, <4>2, FS_AddElement
      <4>4. CONCURRENCY \in Nat /\ Cardinality(In(k, Threaded)) < CONCURRENCY
        BY <3>1, PublicationAssumption DEF UploadStarts
      <4> QED
        BY <4>2, <4>3, <4>4
    <3> QED
      BY <2>0, <3>2, <3>4, <3>5
  <2> QED
    BY <1>3, <2>1, <2>2, <2>3, <2>4, PoolSteps
<1> QED
  BY <1>1, <1>2, <1>3 DEF StagingInv

\* The staging directories are accounted for in every reachable state.
THEOREM StagingInvariant == Spec => []StagingInv
<1>1. StagingInv /\ IInv /\ IInv' /\ [Next /\ UNCHANGED hub]_vars => StagingInv'
  BY StagingKeeps
<1> QED
  BY <1>1, StagingInit, Invariant, PTL DEF Spec

\* Whichever files are staged together, the scratch volume stays above the
\* reserve: only the start of an upload takes space, and then what is staged
\* are as many files as there are threads.
THEOREM ReserveIsKept == Spec => ReserveKept
<1>1. ASSUME IInv, IInv', StagingInv, StagingInv', [Next /\ UNCHANGED hub]_vars, Free' < Free
      PROVE  Free' >= RESERVE
  <2>0. Scratch \in Nat /\ hub \in Nat /\ hub' = hub /\ RESERVE \in Nat
        /\ StagedSize \in [Publishers \X Files -> Nat]
    BY <1>1, PublicationAssumption DEF IInv, TypeOK, vars, StagedSize
  <2>1. PICK p \in Publishers, f \in Files : UploadStarts(p, f)
    <3>1. ASSUME staging' \subseteq staging
          PROVE  FALSE
      <4>1. IsFiniteSet(staging) /\ staging \in SUBSET (Publishers \X Files)
        BY <1>1 DEF StagingInv, IInv, TypeOK
      <4>2. IsFiniteSet(staging') /\ staging' \in SUBSET (Publishers \X Files)
        BY <1>1 DEF StagingInv, IInv, TypeOK
      <4>3. /\ SumFunctionOnSet(StagedSize, staging) \in Nat
            /\ SumFunctionOnSet(StagedSize, staging') \in Nat
        BY <2>0, <4>1, <4>2, SumRecurs
      <4>4. SumFunctionOnSet(StagedSize, staging') <= SumFunctionOnSet(StagedSize, staging)
        BY <2>0, <3>1, <4>1, SumMonotone
      <4>5. Free' = Scratch - hub - SumFunctionOnSet(StagedSize, staging')
        BY <2>0 DEF Free
      <4>6. Free = Scratch - hub - SumFunctionOnSet(StagedSize, staging)
        BY DEF Free
      <4>7. PICK a \in Nat, b \in Nat : a <= b /\ Free' = Scratch - hub - a /\ Free = Scratch - hub - b
        BY <4>3, <4>4, <4>5, <4>6
      <4> QED
        BY <1>1, <2>0, <4>7
    <3> QED
      BY <1>1, <3>1, StagingSteps
  <2>2. pc'[p] \in {"pool", "drain"}
    BY <2>1 DEF UploadStarts
  <2>3. /\ staging' = {<<p, g>> : g \in In(p, Threaded)'}
        /\ Cardinality(In(p, Threaded)') <= CONCURRENCY
        /\ Scratch - hub' >= StagedAtOnce + RESERVE
    BY <1>1, <2>2 DEF StagingInv
  <2>4. In(p, Threaded)' \in SUBSET Files
    BY DEF In
  <2>5. SumFunctionOnSet(StagedSize, staging') = Bytes(In(p, Threaded)')
    BY <2>3, <2>4, StagedIs
  <2>6. /\ StagedAtOnce \in Nat /\ Bytes(In(p, Threaded)') \in Nat
        /\ Bytes(In(p, Threaded)') <= StagedAtOnce
    BY <2>3, <2>4, LargestIs, BytesIs
  <2>7. Free' = Scratch - hub - Bytes(In(p, Threaded)')
    BY <2>0, <2>5 DEF Free
  <2>8. PICK b \in Nat, most \in Nat :
          b <= most /\ Free' = Scratch - hub - b /\ Scratch - hub >= most + RESERVE
    BY <2>0, <2>3, <2>6, <2>7
  <2> QED
    BY <2>0, <2>8
<1>2. IInv /\ IInv' /\ StagingInv /\ StagingInv' /\ [Next /\ UNCHANGED hub]_vars
        => [Free' < Free => Free' >= RESERVE]_vars
  BY <1>1
<1> QED
  BY <1>2, Invariant, StagingInvariant, PTL DEF Spec, ReserveKept

-----------------------------------------------------------------------------
(* Publication implements VerifiedCopy *)

LEMMA PrefixInit == Init => Prefix!Init
<1> SUFFICES ASSUME Init PROVE Prefix!Init
  OBVIOUS
<1>1. TypeOK /\ ReadyMeansComplete /\ Announced \in BOOLEAN
  BY InitInv DEF IInv, Announced
<1> QED
  BY <1>1 DEF Prefix!Init, Prefix!Verified, TypeOK, ReadyMeansComplete

\* Who changes the manifest.
LEMMA ManifestSteps ==
  ASSUME Next
  PROVE  \/ UNCHANGED manifest \/ ForeignManifest \/ ManifestRemoved
         \/ \E p \in Publishers, answer \in {"ok", "412", "error"} : Put(p, answer)
<1>1. ASSUME NEW p \in Publishers, Proceeds(p) \/ RunAgain(p)
      PROVE  UNCHANGED manifest \/ \E answer \in {"ok", "412"} : Put(p, answer)
  BY <1>1 DEF Proceeds, RunAgain, Acquire, Clean, CleanEnds, ReadExisting,
     VerifyPublication, Inventory, CheckDisk, UploadStarts, Downloads, FindsRemote,
     Uploads, ReadsBack, UploadEnds, PoolRaises, CancelQueued, Drained, PoolEnds,
     PutRefused, Compare
<1>2. ASSUME Fault
      PROVE  UNCHANGED manifest \/ ManifestRemoved \/ \E p \in Publishers : Put(p, "error")
  BY <1>2 DEF Fault, ReadExisting, VerifyPublication, Inventory, CheckDisk,
     Downloads, FindsRemote, Uploads, ReadsBack, UploadEnds, PutFails, Compare,
     Killed, Damaged
<1> QED
  BY <1>1, <1>2 DEF Next

\* The snapshot comes to be announced by a put, of verified objects.
LEMMA AnnouncedSteps ==
  ASSUME IInv, Next, Announced' # Announced
  PROVE  /\ UNCHANGED <<object, decayed>>
         /\ Announced' => \A f \in Files : object[f] = "good" \/ f \in decayed
<1>1. ASSUME NEW p \in Publishers, NEW answer \in {"ok", "412", "error"}, Put(p, answer)
      PROVE  /\ UNCHANGED <<object, decayed>>
             /\ \A f \in Files : object[f] = "good" \/ f \in decayed
  BY <1>1 DEF Put, IInv, UploadedInv
<1>2. ASSUME ForeignManifest
      PROVE  UNCHANGED <<object, decayed>> /\ ~ Announced'
  BY <1>2, ForeignIsNotAnnounced DEF ForeignManifest
<1>3. ASSUME ManifestRemoved
      PROVE  UNCHANGED <<object, decayed>> /\ ~ Announced'
  BY <1>3 DEF ManifestRemoved, Announced
<1>4. ~ UNCHANGED manifest
  BY DEF Announced
<1> QED
  BY <1>1, <1>2, <1>3, <1>4, ManifestSteps

\* The prefix behaves as a verified copy: objects are written, and damage is
\* repaired, only while no manifest announces them.
THEOREM Implements == Spec => IsVerifiedCopy
<1>1. ASSUME IInv, Next
      PROVE  [Prefix!Next]_(Prefix!vars)
  <2>0. Announced \in BOOLEAN /\ Announced' \in BOOLEAN
    BY DEF Announced
  <2>1. CASE Announced' # Announced
    <3>1. CASE Announced'
      BY <1>1, <2>0, <2>1, <3>1, AnnouncedSteps DEF Prefix!Next, Prefix!Announce, Prefix!Verified
    <3>2. CASE ~ Announced'
      BY <1>1, <2>0, <2>1, <3>2, AnnouncedSteps DEF Prefix!Next, Prefix!Withdraw
    <3> QED
      BY <3>1, <3>2
  <2>2. CASE Announced' = Announced /\ UNCHANGED <<object, decayed>>
    BY <2>2 DEF Prefix!vars
  <2>3. ASSUME NEW p \in Publishers, NEW f \in Files,
               NEW stored \in {"kept", "bad", "good"}, NEW answered \in BOOLEAN,
               Uploads(p, f, stored, answered)
        PROVE  [Prefix!Next]_(Prefix!vars)
    <3>1. ~ Announced /\ ~ Announced'
      BY <1>1, <2>3, UploadsUnannounced DEF Announced
    <3>2. {g \in Files : object[g] = "good"} \subseteq {g \in Files : object'[g] = "good"}
      BY <1>1, <2>3 DEF Uploads, IInv, UploadedInv, TypeOK
    <3> QED
      BY <2>3, <3>1, <3>2 DEF Uploads, Prefix!Next, Prefix!Work
  <2>4. ASSUME NEW f \in Files, NEW c \in {"absent", "bad"}, Damaged(f, c)
        PROVE  Prefix!Decay(f)
    <3>1. {g \in Files : object'[g] = "good"} = {g \in Files : object[g] = "good"} \ {f}
      BY <1>1, <2>4 DEF Damaged, IInv, TypeOK
    <3> QED
      BY <2>4, <3>1 DEF Damaged, Prefix!Decay, Announced
  <2> QED
    BY <1>1, <2>1, <2>2, <2>3, <2>4, ObjectSteps DEF Prefix!Next
<1>2. IInv /\ [Next /\ UNCHANGED hub]_vars => [Prefix!Next]_(Prefix!vars)
  <2>1. ASSUME UNCHANGED vars
        PROVE  UNCHANGED Prefix!vars
    BY <2>1 DEF vars, Prefix!vars, Announced
  <2> QED
    BY <1>1, <2>1
<1> QED
  BY <1>2, PrefixInit, Invariant, PTL DEF Spec, IsVerifiedCopy, Prefix!Spec

=============================================================================
