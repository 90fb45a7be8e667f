------------------------------ MODULE NodeCache ------------------------------
(***************************************************************************)
(* One model cache directory on one GPU node: the downloader Jobs that     *)
(* fill it (artifact_store.py, download), and the serving entrypoints that *)
(* start from it (distributed.py, single_node.py).                         *)
(*                                                                         *)
(* The platform may run several downloader processes for the same          *)
(* directory, and any of them may be killed at any point.  They exclude    *)
(* each other with an exclusive flock on .aiq-lock, which the kernel drops *)
(* when the process dies; everything else a dead process leaves in the     *)
(* directory stays there.                                                  *)
(*                                                                         *)
(* The manifest read by a Job is taken to be the same for every Job of the *)
(* directory: the directory is named after the source URI, and no          *)
(* publisher rewrites a manifest (module Publication).  Files are numbered *)
(* in manifest order, which is also the order the transfer pool takes them *)
(* in.                                                                     *)
(***************************************************************************)
EXTENDS Integers, FiniteSets, FiniteSetsExt

CONSTANTS Jobs,         \* downloader processes of this directory
          Servers,      \* serving containers that mount this directory
          NumFiles,     \* files of the manifest
          Size,         \* Size[f]: the manifest's size of file f
          Excess,       \* Excess[f]: what a wrong object may have beyond it
          CONCURRENCY,  \* TRANSFER_CONCURRENCY
          RESERVE,      \* DISK_RESERVE_BYTES
          Capacity,     \* bytes of the volume
          OldContent    \* what a file may be when the first Job starts

Files == 1..NumFiles

\* "escape": the path leaves the directory through a symlink.  "bad": a
\* symlink inside the directory, or a wrong size or digest.
Content == {"absent", "bad", "good", "escape"}

NoJob == "NoJob"

ASSUME NodeCacheAssumption ==
  /\ NoJob \notin Jobs
  /\ NumFiles \in Nat \ {0}
  /\ Size \in [Files -> Nat]
  /\ Excess \in [Files -> Nat]
  /\ CONCURRENCY \in Nat \ {0}
  /\ RESERVE \in Nat
  /\ Capacity \in Nat
  /\ OldContent \subseteq Content

VARIABLES pc,       \* where each Job is in download()
          fetch,    \* fetch[j][f]: the future of file f in Job j's pool
          holder,   \* the Job that holds .aiq-lock, or NoJob
          local,    \* the directory: content of each manifest path
          parts,    \* .aiq-part-* files in it: <<j, f>>, made by Job j for f
          overrun,  \* those that are longer than their manifest entry
          draft,    \* .aiq-part-ready exists
          marker,   \* the uri in .aiq-ready.json
          suspect,  \* history: files damaged since the last scan
          damaged,  \* history: files damaged since a Job installed them
          server    \* the serving containers

job == <<pc, fetch, holder>>
directory == <<local, parts, overrun, draft, marker>>
history == <<suspect, damaged>>
vars == <<job, directory, history, server>>

\* The future of one fetch.  "skip": not missing.  "cancelled" futures of a
\* failed pool are back to "skip": nothing will run them.
FetchState == {"skip", "queued", "running", "done", "failed"}

Idle == [f \in Files |-> "skip"]

\* The statements of download() under the lock.
Locked == {"unlink", "sweep", "scan", "check", "pool", "drain", "mark", "rename"}

TypeOK ==
  /\ pc \in [Jobs -> Locked \cup {"start", "flock", "succeeded", "failed"}]
  /\ fetch \in [Jobs -> [Files -> FetchState]]
  /\ holder \in Jobs \cup {NoJob}
  /\ local \in [Files -> Content]
  /\ parts \subseteq Jobs \X Files
  /\ overrun \subseteq Jobs \X Files
  /\ draft \in BOOLEAN
  /\ marker \in {"none", "this", "other"}
  /\ suspect \subseteq Files
  /\ damaged \subseteq Files
  /\ server \in [Servers -> {"off", "checked", "serving"}]

\* A directory of an earlier attempt: any content, any marker, and under a
\* marker of this model any damage since.
Init ==
  /\ pc = [j \in Jobs |-> "start"]
  /\ fetch = [j \in Jobs |-> Idle]
  /\ holder = NoJob
  /\ local \in [Files -> OldContent]
  /\ parts = {}
  /\ overrun = {}
  /\ draft = FALSE
  /\ marker \in {"none", "this", "other"}
  /\ suspect = IF marker = "this" THEN {f \in Files : local[f] # "good"} ELSE {}
  /\ damaged = suspect
  /\ server = [s \in Servers |-> "off"]

-----------------------------------------------------------------------------
(* Helpers of download() *)

FilesIn(c) == {f \in Files : local[f] \in c}

PartSize == [p \in Jobs \X Files |-> Size[p[2]]]
ExcessSize == [p \in Jobs \X Files |-> Excess[p[2]]]

\* Free bytes of the volume, which this directory has to itself.  A temporary
\* file counts at its manifest size from the moment it is made, so Free may be
\* below zero: then not every running transfer can finish.  One that is longer
\* counts in full.
Free == Capacity - SumFunctionOnSet(Size, FilesIn({"good", "bad"}))
                 - SumFunctionOnSet(PartSize, parts)
                 - SumFunctionOnSet(ExcessSize, overrun)

\* Free bytes that a transfer may find, the others not having written yet.
Left(j, f) == Free + SumFunctionOnSet(PartSize, parts \ (overrun \cup {<<j, f>>}))

\* Mutant: takes any file that exists for valid.
local_exists(c) == c \in {"good", "bad"}
\* Size and digest of the manifest, and not a symlink.
local_valid(c) == c = "good"

Missing == {f \in Files : ~ local_valid(local[f])}

In(j, state) == {f \in Files : fetch[j][f] = state}

\* Mutant: asks for the reserve alone, as if the missing files were free.
disk_check_reserve(j) == Free >= RESERVE
\* disk_check(directory, sum of the missing files' sizes).
disk_check(j) == Free >= SumFunctionOnSet(Size, In(j, "queued")) + RESERVE

\* A Job ends, by return or exception: leaving the with-block, or the death of
\* the process, releases the lock, and the pool's futures are gone.
Ends(j, how) ==
  /\ pc' = [pc EXCEPT ![j] = how]
  /\ fetch' = [fetch EXCEPT ![j] = Idle]
  /\ holder' = IF holder = j THEN NoJob ELSE holder

Goes(j, to) ==
  /\ pc' = [pc EXCEPT ![j] = to]
  /\ UNCHANGED holder

-----------------------------------------------------------------------------
(* The statements of download() *)

\* READY is read and validated before anything in the directory is touched.
\* It may be absent, unreadable or of another snapshot.
ReadManifest(j, valid) ==
  /\ pc[j] = "start"
  /\ pc' = [pc EXCEPT ![j] = IF valid THEN "flock" ELSE "failed"]
  /\ UNCHANGED <<fetch, holder, directory, history, server>>

\* Mutant: the lock is shared.
AcquireShared(j) ==
  /\ pc[j] = "flock"
  /\ pc' = [pc EXCEPT ![j] = "unlink"]
  /\ holder' = j
  /\ UNCHANGED <<fetch, directory, history, server>>

\* fcntl.flock(lock, LOCK_EX)
Acquire(j) ==
  /\ pc[j] = "flock"
  /\ holder = NoJob
  /\ pc' = [pc EXCEPT ![j] = "unlink"]
  /\ holder' = j
  /\ UNCHANGED <<fetch, directory, history, server>>

\* Mutant: the old marker stays while the directory is checked and repaired.
KeepMarker(j) ==
  /\ pc[j] = "unlink"
  /\ Goes(j, "sweep")
  /\ UNCHANGED <<fetch, directory, history, server>>

UnlinkMarker(j) ==
  /\ pc[j] = "unlink"
  /\ marker' = "none"
  /\ Goes(j, "sweep")
  /\ UNCHANGED <<fetch, local, parts, overrun, draft, history, server>>

\* Temporary files are unlinked one by one; a kill may come between two.
SweepPart(j) ==
  /\ pc[j] = "sweep"
  /\ \/ \E p \in parts : parts' = parts \ {p} /\ overrun' = overrun \ {p} /\ UNCHANGED draft
     \/ draft /\ draft' = FALSE /\ UNCHANGED <<parts, overrun>>
  /\ UNCHANGED <<job, local, marker, history, server>>

\* Mutant: what a killed Job left is not removed.
SweepSkipped(j) ==
  /\ pc[j] = "sweep"
  /\ Goes(j, "scan")
  /\ UNCHANGED <<fetch, directory, history, server>>

SweepEnds(j) ==
  /\ pc[j] = "sweep"
  /\ parts = {} /\ ~ draft
  /\ Goes(j, "scan")
  /\ UNCHANGED <<fetch, directory, history, server>>

\* The loop over the manifest: every file is read back.  A path that leaves
\* the directory ends the Job.
Scan(j) ==
  /\ pc[j] = "scan"
  /\ IF FilesIn({"escape"}) # {}
       THEN Ends(j, "failed") /\ UNCHANGED suspect
       ELSE /\ Goes(j, "check")
            /\ fetch' = [fetch EXCEPT ![j] =
                 [f \in Files |-> IF f \in Missing THEN "queued" ELSE "skip"]]
            /\ suspect' = {}
  /\ UNCHANGED <<directory, damaged, server>>

\* The probe file may not be writable.
CheckDisk(j, writable) ==
  /\ pc[j] = "check"
  /\ IF writable /\ disk_check(j)
       THEN Goes(j, "pool") /\ UNCHANGED fetch
       ELSE Ends(j, "failed")
  /\ UNCHANGED <<directory, history, server>>

\* Mutant: the temporary file is made for the entry before.
FetchStartsOffByOne(j, f) ==
  /\ pc[j] \in {"pool", "drain"}
  /\ In(j, "queued") # {} /\ f = Min(In(j, "queued"))
  /\ fetch' = [fetch EXCEPT ![j][f] = "running"]
  /\ parts' = parts \cup {<<j, f - 1>>}
  /\ UNCHANGED <<pc, holder, local, overrun, draft, marker, history, server>>

\* A free pool thread takes the first queued file and makes its temporary file.
FetchStarts(j, f) ==
  /\ pc[j] \in {"pool", "drain"}
  /\ In(j, "queued") # {} /\ f = Min(In(j, "queued"))
  /\ Cardinality(In(j, "running")) < CONCURRENCY
  /\ fetch' = [fetch EXCEPT ![j][f] = "running"]
  /\ parts' = parts \cup {<<j, f>>}
  /\ UNCHANGED <<pc, holder, local, overrun, draft, marker, history, server>>

\* Mutant: the object is written over the file itself.
FetchEndsInPlace(j, f, body) ==
  /\ fetch[j][f] = "running"
  /\ fetch' = [fetch EXCEPT ![j][f] = IF body = "good" THEN "done" ELSE "failed"]
  /\ local' = [local EXCEPT ![f] = body]
  /\ parts' = parts \ {<<j, f>>}
  /\ overrun' = overrun \ {<<j, f>>}
  /\ damaged' = damaged \ {f}
  /\ UNCHANGED <<pc, holder, draft, marker, suspect, server>>

\* copyfileobj copies a response to its end: the bytes of a wrong object go on
\* past the manifest's size, as long as the volume takes them.
Overruns(j, f) ==
  /\ fetch[j][f] = "running"
  /\ <<j, f>> \notin overrun
  /\ Left(j, f) >= Excess[f]
  /\ overrun' = overrun \cup {<<j, f>>}
  /\ UNCHANGED <<job, local, parts, draft, marker, history, server>>

\* Only an object of the right length, on a volume that takes all of it, can
\* turn out to be correct.
MayBeGood(j, f) == <<j, f>> \notin overrun /\ Left(j, f) >= 0

\* The object is copied, synced and checked, and only then replaces the file;
\* whatever happens the temporary name is unlinked.  "absent": the request
\* or the write failed.
FetchEnds(j, f, body) ==
  /\ fetch[j][f] = "running"
  /\ body = "good" => MayBeGood(j, f)
  /\ IF body # "absent" /\ local_valid(body)
       THEN /\ fetch' = [fetch EXCEPT ![j][f] = "done"]
            /\ local' = [local EXCEPT ![f] = body]
            /\ damaged' = damaged \ {f}
       ELSE /\ fetch' = [fetch EXCEPT ![j][f] = "failed"]
            /\ UNCHANGED <<local, damaged>>
  /\ parts' = parts \ {<<j, f>>}
  /\ overrun' = overrun \ {<<j, f>>}
  /\ UNCHANGED <<pc, holder, draft, marker, suspect, server>>

\* Mutant: an exception leaves the with-block at once.
PoolAbandoned(j) ==
  /\ pc[j] = "pool"
  /\ \E f \in In(j, "failed") : \A g \in Files : g < f => fetch[j][g] \in {"skip", "done"}
  /\ pc' = [pc EXCEPT ![j] = "failed"]
  /\ holder' = NoJob
  /\ UNCHANGED <<fetch, directory, history, server>>

\* Results are taken in manifest order, so an exception surfaces only after
\* every earlier file is done.
PoolRaises(j) ==
  /\ pc[j] = "pool"
  /\ \E f \in In(j, "failed") : \A g \in Files : g < f => fetch[j][g] \in {"skip", "done"}
  /\ Goes(j, "drain")
  /\ UNCHANGED <<fetch, directory, history, server>>

\* executor.map's generator cancels the futures that no thread has taken yet.
CancelQueued(j) ==
  /\ pc[j] = "drain"
  /\ In(j, "queued") # {}
  /\ fetch' = [fetch EXCEPT ![j] =
       [f \in Files |-> IF fetch[j][f] = "queued" THEN "skip" ELSE fetch[j][f]]]
  /\ UNCHANGED <<pc, holder, directory, history, server>>

\* The executor's __exit__ waits for the running threads, inside the lock.
Drained(j) ==
  /\ pc[j] = "drain"
  /\ In(j, "queued") \cup In(j, "running") = {}
  /\ Ends(j, "failed")
  /\ UNCHANGED <<directory, history, server>>

PoolEnds(j) ==
  /\ pc[j] = "pool"
  /\ \A f \in Files : fetch[j][f] \in {"skip", "done"}
  /\ Goes(j, "mark")
  /\ UNCHANGED <<fetch, directory, history, server>>

WriteMarker(j) ==
  /\ pc[j] = "mark"
  /\ draft' = TRUE
  /\ Goes(j, "rename")
  /\ UNCHANGED <<fetch, local, parts, overrun, marker, history, server>>

\* os.replace(.aiq-part-ready, .aiq-ready.json), then the lock is left.
InstallMarker(j) ==
  /\ pc[j] = "rename"
  /\ marker' = "this"
  /\ draft' = FALSE
  /\ Ends(j, "succeeded")
  /\ UNCHANGED <<local, parts, overrun, history, server>>

-----------------------------------------------------------------------------
(* The platform *)

\* The process dies with all its threads, anywhere.
Killed(j) ==
  /\ pc[j] \notin {"succeeded", "failed"}
  /\ Ends(j, "failed")
  /\ UNCHANGED <<directory, history, server>>

\* A failed Job is tried again.
Retried(j) ==
  /\ pc[j] = "failed"
  /\ pc' = [pc EXCEPT ![j] = "start"]
  /\ UNCHANGED <<fetch, holder, directory, history, server>>

\* Something other than a Job damages or removes a verified file.
Damaged(f, c) ==
  /\ local[f] = "good"
  /\ local' = [local EXCEPT ![f] = c]
  /\ suspect' = suspect \cup {f}
  /\ damaged' = damaged \cup {f}
  /\ UNCHANGED <<job, parts, overrun, draft, marker, server>>

-----------------------------------------------------------------------------
(* Serving *)

\* Mutant: starts from whatever marker there is.
marker_exists == marker # "none"
\* marker["uri"] == AIQ_MODEL_URI; a missing marker raises as well.
marker_matches == marker = "this"

\* The entrypoint goes on only past its check of the marker.
CheckMarker(s) ==
  /\ server[s] = "off"
  /\ marker_matches
  /\ server' = [server EXCEPT ![s] = "checked"]
  /\ UNCHANGED <<job, directory, history>>

\* It becomes vLLM later, without looking again: distributed.py inspects the
\* model and waits for the leader's name in between.
Exec(s) ==
  /\ server[s] = "checked"
  /\ server' = [server EXCEPT ![s] = "serving"]
  /\ UNCHANGED <<job, directory, history>>

\* Or it ends with an exception: the GPUs, the model or the leader.
EntryFails(s) ==
  /\ server[s] = "checked"
  /\ server' = [server EXCEPT ![s] = "off"]
  /\ UNCHANGED <<job, directory, history>>

ServerStops(s) ==
  /\ server[s] = "serving"
  /\ server' = [server EXCEPT ![s] = "off"]
  /\ UNCHANGED <<job, directory, history>>

-----------------------------------------------------------------------------
(* The specification *)

\* A Job goes on: what it asks of S3 and of the disk is answered well, unless
\* an answer is too long already.
Proceeds(j) ==
  \/ ReadManifest(j, TRUE)
  \/ Acquire(j)
  \/ UnlinkMarker(j)
  \/ SweepPart(j)
  \/ SweepEnds(j)
  \/ Scan(j)
  \/ CheckDisk(j, TRUE)
  \/ \E f \in Files :
       \/ FetchStarts(j, f)
       \/ FetchEnds(j, f, "good")
       \/ ~ MayBeGood(j, f) /\ FetchEnds(j, f, "absent")
  \/ PoolRaises(j)
  \/ CancelQueued(j)
  \/ Drained(j)
  \/ PoolEnds(j)
  \/ WriteMarker(j)
  \/ InstallMarker(j)

\* What may go wrong, at any time: a request, write or probe that fails, a
\* wrong object, a kill, damage, a serving container that fails or stops.
Fault ==
  \/ \E j \in Jobs :
       \/ ReadManifest(j, FALSE)
       \/ CheckDisk(j, FALSE)
       \/ \E f \in Files : Overruns(j, f)
       \/ \E f \in Files, body \in {"absent", "bad"} : FetchEnds(j, f, body)
       \/ Killed(j)
  \/ \E f \in Files, c \in {"absent", "bad"} : Damaged(f, c)
  \/ \E s \in Servers : EntryFails(s) \/ ServerStops(s)

Next ==
  \/ \E j \in Jobs : Proceeds(j) \/ Retried(j)
  \/ \E s \in Servers : CheckMarker(s) \/ Exec(s)
  \/ Fault

Spec == Init /\ [][Next]_vars

-----------------------------------------------------------------------------
(* Properties *)

Verified == \A f \in Files : local[f] = "good" \/ f \in suspect

\* While .aiq-ready.json names this model, every file of the manifest is
\* complete and correct, except those that something else has damaged since
\* the last Job read them back: no failed, killed or concurrent Job leaves a
\* marker over a directory it has not verified.
MarkerMeansVerified == marker = "this" => Verified

\* A transfer thread runs only while its Job holds .aiq-lock: neither an
\* exception nor a cancelled pool lets the lock go before the last thread.
LockCoversPool ==
  \A j \in Jobs, f \in Files : fetch[j][f] = "running" => holder = j

\* The recovery of a killed Job's space never unlinks the temporary file of
\* a transfer that is still running.
NoLiveTempSwept ==
  [][\A p \in parts \ parts' :
       fetch[p[1]][p[2]] = "running" => fetch'[p[1]][p[2]] # "running"]_vars

\* A manifest path never shows a partial or unverified transfer: what a Job
\* changes in the directory becomes correct in that very step.
OnlyVerifiedReplaces ==
  [][\A f \in Files : local'[f] # local[f] => local'[f] = "good" \/ f \in suspect']_vars

\* Bytes beyond their manifest entries, of transfers that still run.
Overlong == SumFunctionOnSet(ExcessSize, {p \in overrun : fetch[p[1]][p[2]] = "running"})

\* Whatever was left behind and however Jobs die, a step that takes space
\* leaves the reserve free, but for what wrong objects that are still being
\* copied have beyond their manifest entries.  What dead Jobs left, too long
\* or not, never counts against it.
ReserveKept == [][Free' < Free => Free' + Overlong' >= RESERVE]_vars

\* Past its check of the marker an entrypoint, and the vLLM it becomes, has
\* only files before it that a Job verified and nothing but damage has changed
\* since: also when other Jobs withdraw that marker, find the damage and
\* repair it before vLLM is executed or under it.
ServesVerified ==
  \A s \in Servers : server[s] # "off" =>
    \A f \in Files : local[f] = "good" \/ f \in damaged

\* The directory is a verified copy of the snapshot: in particular content is
\* replaced, and damage forgotten, only while no marker announces it.
Cache == INSTANCE VerifiedCopy WITH
  Readers <- Servers,
  announced <- marker = "this",
  intact <- FilesIn({"good"}),
  decayed <- suspect,
  reading <- {s \in Servers : server[s] # "off"}

IsVerifiedCopy == Cache!Spec

=============================================================================
