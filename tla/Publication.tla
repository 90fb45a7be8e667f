----------------------------- MODULE Publication -----------------------------
(***************************************************************************)
(* Publication of one Hugging Face snapshot under one immutable prefix of  *)
(* the bucket (artifact_store.py, publish).                                *)
(*                                                                         *)
(* Publisher Jobs of successive Git revisions and their retries share the  *)
(* scratch volume.  Each stages a few files at a time, uploads what the    *)
(* bucket does not hold yet, reads every object back, and then writes      *)
(* _READY.json on the condition that there is none.  A Job can be killed   *)
(* anywhere; the scratch volume and the bucket keep what it left.          *)
(*                                                                         *)
(* The manifest follows from the pinned revision, so all publishers of the *)
(* prefix write the same one, which lists every file as it should be.      *)
(* Whoever else holds publisher credentials may write any other, over      *)
(* theirs or where there is none, and remove it: one that names the same   *)
(* repository and revision is believed by the code as far as its own list  *)
(* goes.  Nobody else writes the very manifest of the publishers.          *)
(***************************************************************************)
EXTENDS Integers, FiniteSets, FiniteSetsExt

CONSTANTS Publishers,   \* publication Jobs
          NumFiles,     \* files of the snapshot
          Size,         \* Size[f]: bytes of file f, from the HF inventory
          CONCURRENCY,  \* TRANSFER_CONCURRENCY
          RESERVE,      \* DISK_RESERVE_BYTES
          Scratch,      \* bytes of the scratch volume
          HubCache,     \* possible sizes of HF_HOME, which is on the same volume
          Perishable,   \* files whose objects others may damage (a bound)
          Lists,        \* what somebody else's manifest of this revision may list
          MODEL_MAX_BYTES

Files == 1..NumFiles

NoJob == "NoJob"

\* What a manifest says of each file: not listed, or listed with the size and
\* digest of the revision's file ("good") or of some wrong content ("bad").
Entries == [Files -> {"none", "bad", "good"}]
NoList == [f \in Files |-> "none"]
Snapshot == [f \in Files |-> "good"]

ASSUME PublicationAssumption ==
  /\ NoJob \notin Publishers
  /\ NumFiles \in Nat \ {0}
  /\ Size \in [Files -> Nat]
  /\ CONCURRENCY \in Nat \ {0}
  /\ RESERVE \in Nat
  /\ Scratch \in Nat
  /\ HubCache \subseteq Nat
  /\ Perishable \subseteq Files
  /\ Lists \subseteq Entries \ {NoList, Snapshot}
  /\ MODEL_MAX_BYTES \in Nat

VARIABLES pc,       \* where each Job is in publish() and _publish()
          upload,   \* upload[p][f]: the future of file f in p's pool
          holder,   \* the Job that holds .aiq-publication-lock, or NoJob
          existing, \* existing[p]: the list of the manifest that p has found
          staging,  \* .aiq-publish-* directories: <<p, f>>, made by p for f
          object,   \* the bucket: what is stored under each file's key
          decayed,  \* history: objects damaged since a Job wrote them
          ready,    \* the content of _READY.json
          list,     \* what it lists, if it is of this repository and revision
          tampered, \* history: somebody replaced or removed a manifest
          hub       \* bytes in HF_HOME

job == <<pc, upload, holder, existing>>
manifest == <<ready, list, tampered>>
bucket == <<object, decayed, manifest>>
vars == <<job, staging, bucket, hub>>

\* "staged": downloaded and checked against HF.  "put": the bucket lacks it.
UploadState == {"none", "queued", "download", "staged", "put", "readback", "done", "failed"}
Threaded == {"download", "staged", "put", "readback"}

NoUploads == [f \in Files |-> "none"]

Locked == {"clean", "existing", "verify", "inventory", "check", "pool", "drain", "commit", "compare"}

TypeOK ==
  /\ pc \in [Publishers -> Locked \cup {"flock", "succeeded", "failed"}]
  /\ upload \in [Publishers -> [Files -> UploadState]]
  /\ holder \in Publishers \cup {NoJob}
  /\ existing \in [Publishers -> Entries]
  /\ staging \subseteq Publishers \X Files
  /\ object \in [Files -> {"absent", "bad", "good"}]
  /\ decayed \subseteq Files
  /\ ready \in {"absent", "empty", "this", "other"}
  /\ list \in Entries
  /\ tampered \in BOOLEAN
  /\ hub \in HubCache

\* _READY.json: "empty" is JSON that Python takes for false, "this" a valid
\* manifest of this repository and revision, "other" what the code refuses.
\* Objects of earlier attempts may be there; a prefix that is already
\* published may have been altered since.
Init ==
  /\ pc = [p \in Publishers |-> "flock"]
  /\ upload = [p \in Publishers |-> NoUploads]
  /\ holder = NoJob
  /\ staging = {}
  /\ object \in [Files -> {"absent", "bad", "good"}]
  /\ existing = [p \in Publishers |-> NoList]
  /\ \/ ready \in {"absent", "empty", "other"} /\ list = NoList
     \/ ready = "this" /\ list \in Lists \cup {Snapshot}
  /\ decayed = {f \in Files : list[f] \notin {"none", object[f]}}
  /\ tampered = FALSE
  /\ hub \in HubCache

-----------------------------------------------------------------------------
(* Helpers *)

In(p, states) == {f \in Files : upload[p][f] \in states}

StagedSize == [d \in Publishers \X Files |-> Size[d[2]]]

\* Free bytes of the scratch volume; a staged file counts in full at once.
Free == Scratch - hub - SumFunctionOnSet(StagedSize, staging)

Bytes(S) == SumFunctionOnSet(Size, S)

\* Mutant: the first files of the inventory instead of the largest.
StagedAtOnceUnsorted ==
  Bytes({f \in Files : f <= CONCURRENCY})
\* The sizes sorted in reverse, [:CONCURRENCY].
StagedAtOnce ==
  Max({Bytes(S) : S \in {S \in SUBSET Files : Cardinality(S) <= CONCURRENCY}})

disk_check == Free >= StagedAtOnce + RESERVE

\* The object is streamed back: its length and digest are those of the entry.
verify_remote(f, entry) == object[f] = entry

\* The publishers' own manifest is there.
Announced == ready = "this" /\ list = Snapshot

Ends(p, how) ==
  /\ pc' = [pc EXCEPT ![p] = how]
  /\ upload' = [upload EXCEPT ![p] = NoUploads]
  /\ holder' = IF holder = p THEN NoJob ELSE holder
  /\ existing' = [existing EXCEPT ![p] = NoList]

Goes(p, to) ==
  /\ pc' = [pc EXCEPT ![p] = to]
  /\ UNCHANGED <<upload, holder, existing>>

Future(p, f, state) == upload' = [upload EXCEPT ![p][f] = state]

-----------------------------------------------------------------------------
(* publish() *)

\* Mutant: the lock is shared.
AcquireShared(p) ==
  /\ pc[p] = "flock"
  /\ pc' = [pc EXCEPT ![p] = "clean"]
  /\ holder' = p
  /\ UNCHANGED <<upload, existing, staging, bucket>>

\* fcntl.flock(lock, LOCK_EX)
Acquire(p) ==
  /\ pc[p] = "flock"
  /\ holder = NoJob
  /\ pc' = [pc EXCEPT ![p] = "clean"]
  /\ holder' = p
  /\ UNCHANGED <<upload, existing, staging, bucket>>

\* Directories are removed one by one; a kill may come between two.
Clean(p) ==
  /\ pc[p] = "clean"
  /\ \E d \in staging : staging' = staging \ {d}
  /\ UNCHANGED <<job, bucket>>

\* Mutant: staging directories of a killed Job are left alone.
CleanSkipped(p) ==
  /\ pc[p] = "clean"
  /\ Goes(p, "existing")
  /\ UNCHANGED <<staging, bucket>>

CleanEnds(p) ==
  /\ pc[p] = "clean"
  /\ staging = {}
  /\ Goes(p, "existing")
  /\ UNCHANGED <<staging, bucket>>

-----------------------------------------------------------------------------
(* _publish() *)

\* Mutant: a publication that is there is published again.
ReadExistingIgnored(p, answered) ==
  /\ pc[p] = "existing"
  /\ Goes(p, "inventory")
  /\ UNCHANGED <<staging, bucket>>

\* An existing manifest is reused if it is of this repository and revision,
\* and refused if it is not; one that is false in Python counts as none.  The
\* request may fail.
ReadExisting(p, answered) ==
  /\ pc[p] = "existing"
  /\ \/ (~ answered \/ ready = "other") /\ Ends(p, "failed")
     \/ answered /\ ready \in {"absent", "empty"} /\ Goes(p, "inventory")
     \/ /\ answered /\ ready = "this"
        /\ pc' = [pc EXCEPT ![p] = "verify"]
        /\ existing' = [existing EXCEPT ![p] = list]
        /\ UNCHANGED <<upload, holder>>
  /\ UNCHANGED <<staging, bucket>>

\* verify_publication: every object that the manifest lists is read back.
VerifyPublication(p, answered) ==
  /\ pc[p] = "verify"
  /\ LET verified == \A f \in Files : existing[p][f] # "none" => verify_remote(f, existing[p][f])
     IN  Ends(p, IF answered /\ verified THEN "succeeded" ELSE "failed")
  /\ UNCHANGED <<staging, bucket>>

\* model_info may fail, resolve to another commit or lack sizes.
Inventory(p, complete) ==
  /\ pc[p] = "inventory"
  /\ IF complete /\ Bytes(Files) <= MODEL_MAX_BYTES THEN Goes(p, "check") ELSE Ends(p, "failed")
  /\ UNCHANGED <<staging, bucket>>

CheckDisk(p, writable) ==
  /\ pc[p] = "check"
  /\ IF writable /\ disk_check
       THEN /\ pc' = [pc EXCEPT ![p] = "pool"]
            /\ upload' = [upload EXCEPT ![p] = [f \in Files |-> "queued"]]
            /\ UNCHANGED <<holder, existing>>
       ELSE Ends(p, "failed")
  /\ UNCHANGED <<staging, bucket>>

\* Mutant: the staging directory is made for the file before.
UploadStartsOffByOne(p, f) ==
  /\ pc[p] \in {"pool", "drain"}
  /\ In(p, {"queued"}) # {} /\ f = Min(In(p, {"queued"}))
  /\ Future(p, f, "download")
  /\ staging' = staging \cup {<<p, f - 1>>}
  /\ UNCHANGED <<pc, holder, existing, bucket>>

\* A free thread takes the first queued file and makes its directory.
UploadStarts(p, f) ==
  /\ pc[p] \in {"pool", "drain"}
  /\ In(p, {"queued"}) # {} /\ f = Min(In(p, {"queued"}))
  /\ Cardinality(In(p, Threaded)) < CONCURRENCY
  /\ Future(p, f, "download")
  /\ staging' = staging \cup {<<p, f>>}
  /\ UNCHANGED <<pc, holder, existing, bucket>>

\* The TemporaryDirectory is removed as the call returns or raises.
UploadEnds(p, f, how) ==
  /\ Future(p, f, how)
  /\ staging' = staging \ {<<p, f>>}
  /\ UNCHANGED <<pc, holder, existing, manifest>>

\* hf_hub_download and the size, LFS and Git checks of the staged file.
Downloads(p, f, intact) ==
  /\ upload[p][f] = "download"
  /\ IF intact
       THEN Future(p, f, "staged") /\ UNCHANGED <<pc, holder, existing, staging, manifest>>
       ELSE UploadEnds(p, f, "failed")
  /\ UNCHANGED <<object, decayed>>

\* An object that is already there and verified is not uploaded again.
FindsRemote(p, f, answered) ==
  /\ upload[p][f] = "staged"
  /\ \/ ~ answered /\ UploadEnds(p, f, "failed")
     \/ answered /\ verify_remote(f, "good") /\ UploadEnds(p, f, "done")
     \/ /\ answered /\ ~ verify_remote(f, "good")
        /\ Future(p, f, "put")
        /\ UNCHANGED <<pc, holder, existing, staging, manifest>>
  /\ UNCHANGED <<object, decayed>>

\* upload_file: the call may return or raise, and either way the object may
\* have been replaced, correctly or not, or kept.
Uploads(p, f, stored, answered) ==
  /\ upload[p][f] = "put"
  /\ IF answered
       THEN Future(p, f, "readback") /\ UNCHANGED <<pc, holder, existing, staging, manifest>>
       ELSE UploadEnds(p, f, "failed")
  /\ IF stored = "kept"
       THEN UNCHANGED <<object, decayed>>
       ELSE object' = [object EXCEPT ![f] = stored] /\ decayed' = decayed \ {f}

\* Mutant: what the upload call says is believed.
ReadsBackNothing(p, f, answered) ==
  /\ upload[p][f] = "readback"
  /\ UploadEnds(p, f, "done")
  /\ UNCHANGED <<object, decayed>>

ReadsBack(p, f, answered) ==
  /\ upload[p][f] = "readback"
  /\ UploadEnds(p, f, IF answered /\ verify_remote(f, "good") THEN "done" ELSE "failed")
  /\ UNCHANGED <<object, decayed>>

\* Results are taken in inventory order, so an exception surfaces only after
\* every earlier file is done.
PoolRaises(p) ==
  /\ pc[p] = "pool"
  /\ \E f \in In(p, {"failed"}) : \A g \in Files : g < f => upload[p][g] = "done"
  /\ Goes(p, "drain")
  /\ UNCHANGED <<staging, bucket>>

\* The futures that no thread has taken yet are cancelled.
CancelQueued(p) ==
  /\ pc[p] = "drain"
  /\ In(p, {"queued"}) # {}
  /\ upload' = [upload EXCEPT ![p] =
       [f \in Files |-> IF upload[p][f] = "queued" THEN "none" ELSE upload[p][f]]]
  /\ UNCHANGED <<pc, holder, existing, staging, bucket>>

\* The executor's __exit__ waits for the running threads, inside the lock.
Drained(p) ==
  /\ pc[p] = "drain"
  /\ In(p, {"queued"} \cup Threaded) = {}
  /\ Ends(p, "failed")
  /\ UNCHANGED <<staging, bucket>>

PoolEnds(p) ==
  /\ pc[p] = "pool"
  /\ In(p, {"done"}) = Files
  /\ Goes(p, "commit")
  /\ UNCHANGED <<staging, bucket>>

\* put_object with IfNoneMatch lands.  Its response may be lost: then the SDK
\* puts again and is refused ("412"), or gives up ("error").
Put(p, answer) ==
  /\ pc[p] = "commit"
  /\ ready = "absent"
  /\ ready' = "this"
  /\ list' = Snapshot
  /\ \/ answer = "ok" /\ Ends(p, "succeeded")
     \/ answer = "412" /\ Goes(p, "compare")
     \/ answer = "error" /\ Ends(p, "failed")
  /\ UNCHANGED <<staging, object, decayed, tampered>>

PutRefused(p) ==
  /\ pc[p] = "commit"
  /\ ready # "absent"
  /\ Goes(p, "compare")
  /\ UNCHANGED <<staging, bucket>>

PutFails(p) ==
  /\ pc[p] = "commit"
  /\ Ends(p, "failed")
  /\ UNCHANGED <<staging, bucket>>

\* Mutant: a refused put is taken for an equal manifest.
CompareSkipped(p, answered) ==
  /\ pc[p] = "compare"
  /\ Ends(p, "succeeded")
  /\ UNCHANGED <<staging, bucket>>

\* After a refusal the manifest that is there must be the same.
Compare(p, answered) ==
  /\ pc[p] = "compare"
  /\ Ends(p, IF answered /\ Announced THEN "succeeded" ELSE "failed")
  /\ UNCHANGED <<staging, bucket>>

-----------------------------------------------------------------------------
(* The platform, and others who hold publisher credentials *)

\* The process dies with all its threads, anywhere; a request it had sent is
\* either done or never will be.
Killed(p) ==
  /\ pc[p] \notin {"succeeded", "failed"}
  /\ Ends(p, "failed")
  /\ UNCHANGED <<staging, bucket>>

\* The Job's next pod, or the Job that the next full sync creates; a full
\* sync also runs a completed publication again.
RunAgain(p) ==
  /\ pc[p] \in {"succeeded", "failed"}
  /\ pc' = [pc EXCEPT ![p] = "flock"]
  /\ UNCHANGED <<upload, holder, existing, staging, bucket>>

Damaged(f, c) ==
  /\ object[f] \notin {"absent", c}
  /\ object' = [object EXCEPT ![f] = c]
  /\ decayed' = decayed \cup {f}
  /\ UNCHANGED <<job, staging, manifest>>

\* Nothing asks them to write on a condition.
ForeignManifest ==
  /\ \/ ready' \in {"empty", "other"} /\ list' = NoList
     \/ ready' = "this" /\ list' \in Lists
  /\ tampered' = (tampered \/ ready # "absent")
  /\ UNCHANGED <<job, staging, object, decayed>>

ManifestRemoved ==
  /\ ready # "absent"
  /\ ready' = "absent"
  /\ list' = NoList
  /\ tampered' = TRUE
  /\ UNCHANGED <<job, staging, object, decayed>>

-----------------------------------------------------------------------------
(* The specification *)

\* A Job goes on: HF, the bucket and the disk answer well, though the response
\* to the put may be lost once it has landed.
Proceeds(p) ==
  \/ Acquire(p)
  \/ Clean(p)
  \/ CleanEnds(p)
  \/ ReadExisting(p, TRUE)
  \/ VerifyPublication(p, TRUE)
  \/ Inventory(p, TRUE)
  \/ CheckDisk(p, TRUE)
  \/ \E f \in Files :
       \/ UploadStarts(p, f)
       \/ Downloads(p, f, TRUE)
       \/ FindsRemote(p, f, TRUE)
       \/ Uploads(p, f, "good", TRUE)
       \/ ReadsBack(p, f, TRUE)
  \/ PoolRaises(p)
  \/ CancelQueued(p)
  \/ Drained(p)
  \/ PoolEnds(p)
  \/ Put(p, "ok") \/ Put(p, "412")
  \/ PutRefused(p)
  \/ Compare(p, TRUE)

\* What may go wrong, at any time: a request, check or probe that fails, an
\* object stored wrong or not at all, a kill, damage, a manifest removed.
Fault ==
  \/ \E p \in Publishers :
       \/ ReadExisting(p, FALSE)
       \/ VerifyPublication(p, FALSE)
       \/ Inventory(p, FALSE)
       \/ CheckDisk(p, FALSE)
       \/ \E f \in Files :
            \/ Downloads(p, f, FALSE)
            \/ FindsRemote(p, f, FALSE)
            \/ Uploads(p, f, "good", FALSE)
            \/ \E answered \in BOOLEAN, stored \in {"kept", "bad"} :
                 Uploads(p, f, stored, answered)
            \/ ReadsBack(p, f, FALSE)
       \/ Put(p, "error")
       \/ PutFails(p)
       \/ Compare(p, FALSE)
       \/ Killed(p)
  \/ \E f \in Perishable, c \in {"absent", "bad"} : Damaged(f, c)
  \/ ManifestRemoved

Next ==
  \/ \E p \in Publishers : Proceeds(p) \/ RunAgain(p)
  \/ ForeignManifest
  \/ Fault

\* Nothing changes what HF_HOME holds.
Spec == Init /\ [][Next /\ UNCHANGED hub]_vars

-----------------------------------------------------------------------------
(* Properties *)

\* While _READY.json announces the snapshot, every object of it is stored and
\* correct, except those that something else has damaged since a Job wrote
\* or verified them: no failed, killed or overlapping publisher announces or
\* spoils an incomplete prefix.
ReadyMeansComplete ==
  Announced => \A f \in Files : object[f] = "good" \/ f \in decayed

\* No publisher writes an object of a snapshot that is announced: readers of
\* the manifest never see an object being replaced.
NoUploadUnderReady ==
  [][Announced => \A f \in Files : object'[f] = object[f] \/ f \in decayed']_vars

\* The removal of a killed publisher's staging never takes a directory that
\* a transfer still uses.
NoLiveStagingRemoved ==
  [][\A d \in staging \ staging' :
       upload[d[1]][d[2]] \in Threaded => upload'[d[1]][d[2]] \notin Threaded]_vars

\* Staging never takes the scratch volume below the reserve, whichever files
\* are staged together and whatever earlier Jobs left.
ReserveKept == [][Free' < Free => Free' >= RESERVE]_vars

\* A publisher's success is a promise about the manifest that is there, also
\* when somebody else wrote it and it lists other files than the snapshot has,
\* and also when its own put was refused: the manifest is of this revision, and
\* the bucket holds all it lists, damage excepted.  The promise ends only when
\* somebody replaces or removes that manifest.
SuccessMeansReady ==
  (\E p \in Publishers : pc[p] = "succeeded") /\ ~ tampered =>
    /\ ready = "this"
    /\ \A f \in Files : list[f] \in {"none", object[f]} \/ f \in decayed

\* The prefix is a verified copy of the snapshot: objects are written, and
\* decay forgotten, only while no manifest announces it.
Prefix == INSTANCE VerifiedCopy WITH
  Readers <- {},
  announced <- Announced,
  intact <- {f \in Files : object[f] = "good"},
  decayed <- decayed,
  reading <- {}

IsVerifiedCopy == Prefix!Spec

=============================================================================
