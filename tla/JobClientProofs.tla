--------------------------- MODULE JobClientProofs ---------------------------
(***************************************************************************)
(* Proofs about JobClient, for any number of jobs, artifacts and           *)
(* invocations.                                                            *)
(***************************************************************************)
EXTENDS JobClient, TLAPS

\* TypeOK in two parts: the invocation and its job, the directory of artifacts.
ClientType ==
  /\ job \in [Jobs -> {"none", "running", "success", "failed"}]
  /\ told \subseteq {j \in Jobs : job[j] # "none"}
  /\ runs \in 0..MaxRuns
  /\ cmd \in Commands \cup {"none"}
  /\ pc \in {"idle", "submit", "tell", "check", "poll", "report", "export", "save", "cancel"}
  /\ id \in 0..NumJobs
  /\ errors \in 0..(MaxErrors - 1)
  /\ got \in {"none", "ok", "no id", "timeout", "interrupt"} \cup Failures
  /\ exit \in {-1, 0, 1, 2, 130}
  /\ (exit = -1) = (pc # "idle" \/ runs = 0)
  /\ shown \in BOOLEAN
  /\ streak \in 0..MaxErrors

BundleType ==
  /\ DOMAIN files \subseteq Names /\ \A n \in DOMAIN files : files[n] \in Artifacts \cup {Torn}
  /\ report \in [job : 0..NumJobs, links : SUBSET (Artifacts \X Names)]
  /\ todo \subseteq Artifacts /\ used \subseteq DOMAIN files /\ links \subseteq Artifacts \X used

\* Where an invocation is says what it is about, and what came before.
PlaceOK ==
  /\ pc # "idle" => runs # 0
  /\ pc \in {"check", "poll", "report", "export", "save", "cancel"} => id \in told
  /\ pc = "tell" => id \in Made
  /\ pc \in {"export", "save"} => cmd \in Exporting
  /\ pc = "cancel" => cmd = "cancel"
  /\ pc = "report" /\ cmd \in Following => job[id] = "success"
  /\ pc \in {"submit", "tell", "check", "poll"} => streak = errors

\* The names of the files are the first k, in the order in which they were
\* made, with room for one export per invocation; artifact m is the next.
Saving(k) ==
  \E m \in 1..(NumArtifacts + 1) :
    /\ todo = {id} \X (m..NumArtifacts)
    /\ k + (NumArtifacts + 1 - m) <= runs * NumArtifacts
RoomOK ==
  \E k \in Nat :
    /\ DOMAIN files = 1..k
    /\ pc = "idle" => k <= runs * NumArtifacts
    /\ pc \notin {"idle", "save"} => k + NumArtifacts <= runs * NumArtifacts
    /\ pc = "save" => Saving(k)

\* What the invocation has saved is of its job, and is there.
LinksOK ==
  /\ pc # "save" => todo = {} /\ used = {} /\ links = {}
  /\ \A l \in links : l[1][1] = id /\ files[l[2]] = l[1]

\* The inductive invariant, again in two parts.
ClientInv == ClientType /\ PlaceOK /\ FollowsToTheEnd
BundleInv == BundleType /\ RoomOK /\ LinksOK /\ BundleResolves
IInv == ClientInv /\ BundleInv

LEMMA TypeParts == TypeOK <=> ClientType /\ BundleType
BY DEF TypeOK, ClientType, BundleType

\* What a request or an exit reports.
Outcome == {"none", "ok", "no id", "timeout", "interrupt"} \cup Failures

LEMMA Bounds ==
  /\ 0 \in 0..NumJobs /\ \A j \in Jobs : j \in 0..NumJobs /\ j # 0
  /\ 0 \in 0..MaxErrors /\ 0 \in 0..(MaxErrors - 1)
BY JobClientAssumption DEF Jobs

LEMMA StatusOf ==
  ASSUME NEW e
  PROVE  status_of(e) \in {1, 2, 130}
BY DEF status_of

-----------------------------------------------------------------------------
(* The invocation: what its steps have in common *)

\* What the ends of an invocation have in common, with or without a last write.
Stops(s) ==
  /\ pc' = "idle" /\ exit' = s /\ errors' = 0
  /\ UNCHANGED <<runs, cmd>>

LEMMA ExitStops ==
  ASSUME NEW s, Exits(s)
  PROVE  Stops(s)
BY DEF Exits, Stops

\* However an invocation ends, nothing remains to be said of where it is.
LEMMA StopKeepsPlace ==
  ASSUME ClientInv, pc # "idle", NEW s \in {0, 1, 2, 130}, Stops(s),
         job' \in [Jobs -> {"none", "running", "success", "failed"}],
         told' \subseteq {j \in Jobs : job'[j] # "none"},
         id' \in 0..NumJobs, got' \in Outcome, shown' \in BOOLEAN, streak' \in 0..MaxErrors
  PROVE  ClientType' /\ PlaceOK'
<1>1. runs # 0 /\ MaxErrors - 1 \in Nat
  BY JobClientAssumption DEF ClientInv, PlaceOK
<1>2. errors' \in 0..(MaxErrors - 1)
  BY <1>1 DEF Stops
<1>3. (exit' = -1) = (pc' # "idle" \/ runs' = 0)
  BY <1>1 DEF Stops
<1>4. ClientType'
  BY <1>2, <1>3 DEF ClientInv, ClientType, Stops, Outcome
<1>5. PlaceOK'
  BY DEF Stops, PlaceOK
<1> QED
  BY <1>4, <1>5

\* It goes on: its promise is not due yet.
LEMMA NotEnded ==
  ASSUME pc' # "idle"
  PROVE  FollowsToTheEnd'
BY DEF FollowsToTheEnd, Ended

-----------------------------------------------------------------------------
(* The invocation: its steps *)

LEMMA StartsClient ==
  ASSUME ClientInv, NEW c \in Commands, Starts(c)
  PROVE  ClientInv'
<1>1. \/ c \in Submitting /\ pc' = "submit"
      \/ c = "research_poll" /\ pc' = "check" /\ id' \in told
      \/ c \in Exporting /\ pc' = "export" /\ id' \in told
      \/ c \in {"report", "cancel"} /\ pc' = c /\ id' \in told
  BY DEF Starts, Commands, Submitting, Following, Exporting
<1>2. id' \in 0..NumJobs
  <2>1. told \subseteq Jobs /\ (id' = 0 \/ id' \in told)
    BY DEF Starts, ClientInv, ClientType
  <2> QED
    BY <2>1, Bounds
<1>3. runs' \in 0..MaxRuns /\ runs' # 0
  <2>1. runs \in 0..MaxRuns /\ runs < MaxRuns /\ runs' = runs + 1
    BY DEF Starts, ClientInv, ClientType
  <2> QED
    BY <2>1, JobClientAssumption
<1>4. errors' \in 0..(MaxErrors - 1) /\ streak' \in 0..MaxErrors /\ streak' = errors'
  BY Bounds DEF Starts
<1>5. ClientType'
  BY <1>1, <1>2, <1>3, <1>4 DEF Starts, ClientInv, ClientType
<1>6. PlaceOK'
  BY <1>1, <1>3, <1>4 DEF Starts, PlaceOK, Following, Exporting, Submitting
<1>7. FollowsToTheEnd'
  BY <1>1, NotEnded
<1> QED
  BY <1>5, <1>6, <1>7 DEF ClientInv

LEMMA NewJobClient ==
  ASSUME ClientInv, NewJob
  PROVE  ClientInv'
<1> PICK j \in Jobs :
      /\ job' = [job EXCEPT ![j] = "running"]
      /\ \/ got' = "ok" /\ pc' = "tell" /\ id' = j /\ UNCHANGED <<runs, cmd, errors, exit, bundle>>
         \/ got' = "no id" /\ Exits(IF cmd \in Following THEN 1 ELSE 0) /\ id' = 0
         \/ \E e \in {"error", "other", "interrupt"} : Raises(e) /\ id' = 0
  BY DEF NewJob
<1>1. /\ job' \in [Jobs -> {"none", "running", "success", "failed"}]
      /\ told' \subseteq {i \in Jobs : job'[i] # "none"} /\ j \in Made'
  BY DEF ClientInv, ClientType, NewJob, Made
<1>2. pc = "submit" /\ runs # 0 /\ streak = errors /\ streak' = streak /\ shown' = shown /\ told' = told
  BY DEF ClientInv, PlaceOK, NewJob
<1>3. CASE got' = "ok" /\ pc' = "tell" /\ id' = j /\ UNCHANGED <<runs, cmd, errors, exit, bundle>>
  <2>1. id' \in 0..NumJobs
    BY <1>3, Bounds
  <2>2. ClientType'
    BY <1>1, <1>2, <1>3, <2>1 DEF ClientInv, ClientType
  <2>3. PlaceOK'
    BY <1>1, <1>2, <1>3 DEF PlaceOK
  <2> QED
    BY <1>3, <2>2, <2>3, NotEnded DEF ClientInv
<1>4. ASSUME NEW s \in {0, 1, 2, 130}, Exits(s), id' = 0, got' \in Outcome
      PROVE  ClientInv'
  <2>1. ClientType' /\ PlaceOK'
    <3>1. id' \in 0..NumJobs /\ shown' \in BOOLEAN /\ streak' \in 0..MaxErrors
      BY <1>2, <1>4, Bounds DEF ClientInv, ClientType
    <3>2. Stops(s)
      BY <1>4, ExitStops
    <3> QED
      BY <1>1, <1>2, <1>4, <3>1, <3>2, StopKeepsPlace
  <2>2. FollowsToTheEnd'
    BY <1>4 DEF FollowsToTheEnd
  <2> QED
    BY <2>1, <2>2 DEF ClientInv
<1>5. CASE got' = "no id" /\ Exits(IF cmd \in Following THEN 1 ELSE 0) /\ id' = 0
  BY <1>4, <1>5 DEF Outcome
<1>6. CASE \E e \in {"error", "other", "interrupt"} : Raises(e) /\ id' = 0
  BY <1>4, <1>6, StatusOf DEF Raises, Outcome, Failures, RuntimeErrors
<1> QED
  BY <1>3, <1>5, <1>6

LEMMA NoJobClient ==
  ASSUME ClientInv, NoJob
  PROVE  ClientInv'
<1>1. \E s \in {0, 1, 2, 130} : Exits(s) /\ got' \in Outcome
  BY StatusOf DEF NoJob, Raises, Outcome
<1>2. /\ job' \in [Jobs -> {"none", "running", "success", "failed"}]
      /\ told' \subseteq {i \in Jobs : job'[i] # "none"}
      /\ id' \in 0..NumJobs /\ id' = 0 /\ shown' \in BOOLEAN /\ streak' \in 0..MaxErrors
  BY Bounds DEF ClientInv, ClientType, NoJob
<1>3. ClientType' /\ PlaceOK'
  BY <1>1, <1>2, ExitStops, StopKeepsPlace DEF NoJob
<1>4. FollowsToTheEnd'
  BY <1>2 DEF FollowsToTheEnd
<1> QED
  BY <1>3, <1>4 DEF ClientInv

LEMMA TellClient ==
  ASSUME ClientInv, Tell
  PROVE  ClientInv'
<1>1. /\ pc = "tell" /\ id \in Jobs /\ job[id] # "none" /\ told' = told \cup {id}
      /\ runs # 0 /\ streak = errors
  BY DEF ClientInv, PlaceOK, Tell, Made
<1>2. /\ job' \in [Jobs -> {"none", "running", "success", "failed"}]
      /\ told' \subseteq {i \in Jobs : job'[i] # "none"}
      /\ id' \in 0..NumJobs /\ got' \in Outcome /\ shown' \in BOOLEAN /\ streak' \in 0..MaxErrors
  BY <1>1 DEF ClientInv, ClientType, Tell, Outcome
<1>3. CASE cmd \in Following
  <2>1. ClientType'
    BY <1>1, <1>2, <1>3 DEF ClientInv, ClientType, Tell
  <2>2. PlaceOK'
    BY <1>1, <1>3 DEF PlaceOK, Tell
  <2>3. pc' # "idle"
    BY <1>3 DEF Tell
  <2> QED
    BY <2>1, <2>2, <2>3, NotEnded DEF ClientInv
<1>4. CASE cmd \notin Following
  <2>1. ClientType' /\ PlaceOK'
    BY <1>1, <1>2, <1>4, ExitStops, StopKeepsPlace DEF Tell
  <2>2. FollowsToTheEnd'
    BY <1>4 DEF FollowsToTheEnd, Tell, Exits
  <2> QED
    BY <2>1, <2>2 DEF ClientInv
<1> QED
  BY <1>3, <1>4

\* Reports and failures end the command; a job that runs is asked for again.
LEMMA AnsweredClient ==
  ASSUME ClientInv, pc \in {"check", "poll"}, Answered, UNCHANGED <<job, told, id, shown>>
  PROVE  ClientInv'
<1>1. id \in told /\ id \in Jobs /\ runs # 0
  BY DEF ClientInv, PlaceOK, ClientType
<1>2. /\ job' \in [Jobs -> {"none", "running", "success", "failed"}]
      /\ told' \subseteq {i \in Jobs : job'[i] # "none"}
      /\ id' \in 0..NumJobs /\ got' \in Outcome /\ shown' \in BOOLEAN /\ streak' \in 0..MaxErrors
      /\ 0 \in 0..(MaxErrors - 1)
  BY Bounds DEF ClientInv, ClientType, Answered, Outcome
<1>3. ASSUME \/ job[id] = "running" /\ pc' = "poll"
             \/ job[id] = "success" /\ pc' = "report",
             errors' = 0, UNCHANGED <<runs, cmd, exit>>
      PROVE  ClientInv'
  <2>1. ClientType'
    BY <1>1, <1>2, <1>3 DEF ClientInv, ClientType, Outcome
  <2>2. PlaceOK'
    BY <1>1, <1>3 DEF PlaceOK, Answered
  <2> QED
    BY <1>3, <2>1, <2>2, NotEnded DEF ClientInv
<1>4. CASE job[id] = "failed" /\ Exits(1)
  <2>1. ClientType' /\ PlaceOK'
    BY <1>2, <1>4, ExitStops, StopKeepsPlace
  <2>2. FollowsToTheEnd'
    BY <1>1, <1>4 DEF FollowsToTheEnd, Exits
  <2> QED
    BY <2>1, <2>2 DEF ClientInv
<1> QED
  BY <1>3, <1>4 DEF Answered

\* The client's count of failed checks is the number since the last answer.
LEMMA CheckFailedClient ==
  ASSUME ClientInv, pc \in {"check", "poll"}, streak' = streak + 1,
         Retries("error") \/ (errors + 1 >= MaxErrors /\ Raises("error")) \/ Raises("other"),
         UNCHANGED <<job, told, id, shown>>
  PROVE  ClientInv'
<1>1. id \in told /\ id \in Jobs /\ runs # 0 /\ streak = errors
  BY DEF ClientInv, PlaceOK, ClientType
<1>2. errors \in 0..(MaxErrors - 1) /\ MaxErrors \in Nat \ {0}
  BY JobClientAssumption DEF ClientInv, ClientType
<1>3. /\ job' \in [Jobs -> {"none", "running", "success", "failed"}]
      /\ told' \subseteq {i \in Jobs : job'[i] # "none"}
      /\ id' \in 0..NumJobs /\ got' \in Outcome /\ shown' \in BOOLEAN
  BY DEF ClientInv, ClientType, Retries, Raises, Outcome, Failures, RuntimeErrors
<1>4. streak' \in 0..MaxErrors
  BY <1>1, <1>2
<1>5. CASE Retries("error")
  <2>1. errors' \in 0..(MaxErrors - 1) /\ errors' = streak'
    BY <1>1, <1>2, <1>5 DEF Retries
  <2>2. ClientType'
    BY <1>3, <1>4, <1>5, <2>1 DEF ClientInv, ClientType, Retries, Outcome
  <2>3. PlaceOK'
    BY <1>1, <1>5, <2>1 DEF PlaceOK, Retries
  <2>4. pc' # "idle"
    BY <1>5 DEF Retries
  <2> QED
    BY <2>2, <2>3, <2>4, NotEnded DEF ClientInv
<1>6. ASSUME NEW e \in {"error", "other"}, Raises(e), e = "error" => errors + 1 >= MaxErrors
      PROVE  ClientInv'
  <2>1. ClientType' /\ PlaceOK'
    BY <1>3, <1>4, <1>6, StatusOf, ExitStops, StopKeepsPlace DEF Raises
  <2>2. e = "error" => streak' = MaxErrors
    BY <1>1, <1>2, <1>6
  <2>3. status_of(e) # 0
    BY StatusOf
  <2>4. FollowsToTheEnd'
    BY <1>1, <1>6, <2>2, <2>3 DEF FollowsToTheEnd, Raises, Exits
  <2> QED
    BY <2>1, <2>4 DEF ClientInv
<1> QED
  BY <1>5, <1>6

\* Steps that end an invocation for a reason that is no failed check.
LEMMA LeavesClient ==
  ASSUME ClientInv, pc # "idle", NEW s \in {0, 1, 2, 130}, Stops(s), got' \in Outcome, shown' \in BOOLEAN,
         UNCHANGED <<job, told, id, streak>>,
         cmd \in Following => \/ got' = "interrupt" /\ s # 0
                              \/ s # 0 /\ got' # "error" /\ id \in told
                              \/ job[id] = "success" /\ id \in told /\ (s = 0 => shown')
  PROVE  ClientInv'
<1>1. ClientType' /\ PlaceOK'
  <2>1. /\ job' \in [Jobs -> {"none", "running", "success", "failed"}]
        /\ told' \subseteq {i \in Jobs : job'[i] # "none"}
        /\ id' \in 0..NumJobs /\ streak' \in 0..MaxErrors
    BY DEF ClientInv, ClientType
  <2> QED
    BY <2>1, StopKeepsPlace
<1>2. FollowsToTheEnd'
  BY DEF FollowsToTheEnd, Stops
<1> QED
  BY <1>1, <1>2 DEF ClientInv

LEMMA CheckOrPollClient ==
  ASSUME ClientInv, CheckAnswered \/ PollAnswered \/ CheckFails \/ PollFails
  PROVE  ClientInv'
<1>1. CASE CheckAnswered \/ PollAnswered
  BY <1>1, AnsweredClient DEF CheckAnswered, PollAnswered
<1>2. CASE CheckFails
  <2>1. errors + 1 = MaxErrors => errors + 1 >= MaxErrors
    BY JobClientAssumption
  <2> QED
    BY <1>2, <2>1, CheckFailedClient DEF CheckFails
<1>3. CASE PollFails
  BY <1>3, CheckFailedClient DEF PollFails
<1> QED
  BY <1>1, <1>2, <1>3

LEMMA EndClient ==
  ASSUME ClientInv, TimesOut \/ GetReport \/ Interrupt \/ RequestFails
  PROVE  ClientInv'
<1>1. shown \in BOOLEAN
  BY DEF ClientInv, ClientType
<1>2. CASE TimesOut
  <2>1. id \in told
    BY <1>2 DEF ClientInv, PlaceOK, TimesOut
  <2> QED
    BY <1>1, <1>2, <2>1, ExitStops, LeavesClient DEF TimesOut, Outcome
<1>3. CASE GetReport
  <2>1. id \in told /\ (cmd \in Following => job[id] = "success")
    BY <1>3 DEF ClientInv, PlaceOK, GetReport
  <2> QED
    BY <1>3, <2>1, ExitStops, LeavesClient DEF GetReport, Outcome
<1>4. CASE Interrupt
  <2>1. \E s \in {1, 2, 130} : Exits(s)
    BY <1>4, StatusOf DEF Interrupt
  <2> QED
    BY <1>1, <1>4, <2>1, ExitStops, LeavesClient DEF Interrupt, Outcome
<1>5. CASE RequestFails
  <2>1. PICK e \in Failures : got' = e /\ Exits(status_of(e))
    BY <1>5 DEF RequestFails, Raises
  <2>2. PICK s \in {1, 2, 130} : Exits(s)
    BY <2>1, StatusOf
  <2>3. cmd \in Following => job[id] = "success" /\ id \in told
    BY <1>5 DEF ClientInv, PlaceOK, RequestFails, Following, Exporting
  <2>4. Stops(s) /\ got' \in Outcome
    BY <2>1, <2>2, ExitStops DEF Outcome
  <2>5. pc # "idle" /\ UNCHANGED <<job, told, id, streak>> /\ shown' = shown
    BY <1>5 DEF RequestFails
  <2> QED
    BY <1>1, <2>2, <2>3, <2>4, <2>5, LeavesClient
<1> QED
  BY <1>2, <1>3, <1>4, <1>5

\* None of the commands that export follows a job.
LEMMA ExportClient ==
  ASSUME ClientInv, ListArtifacts \/ SaveArtifact \/ WriteReport \/ Tears
  PROVE  ClientInv'
<1>1. /\ pc \in {"export", "save"} /\ cmd \notin Following /\ id \in told /\ cmd \in Exporting /\ runs # 0
      /\ shown \in BOOLEAN /\ shown' = shown
      /\ UNCHANGED <<job, told, id, streak>>
  BY DEF ClientInv, ClientType, PlaceOK, ListArtifacts, SaveArtifact, WriteReport, Tears, Following, Exporting
<1>2. got' \in Outcome
  BY DEF ClientInv, ClientType, ListArtifacts, SaveArtifact, WriteReport, Tears, Outcome, Failures
<1>3. CASE pc' = "save" /\ UNCHANGED <<runs, cmd, errors, exit>>
  <2>1. ClientType'
    BY <1>1, <1>2, <1>3 DEF ClientInv, ClientType, Outcome
  <2>2. PlaceOK'
    BY <1>1, <1>3 DEF PlaceOK
  <2> QED
    BY <1>3, <2>1, <2>2, NotEnded DEF ClientInv
<1>4. ASSUME NEW s \in {0, 1, 2, 130}, Stops(s)
      PROVE  ClientInv'
  BY <1>1, <1>2, <1>4, LeavesClient
<1>5. CASE ListArtifacts
  BY <1>3, <1>4, <1>5, ExitStops DEF ListArtifacts
<1>6. CASE SaveArtifact
  BY <1>3, <1>6 DEF SaveArtifact
<1>7. CASE WriteReport
  BY <1>4, <1>7 DEF WriteReport, Stops
<1>8. CASE Tears
  BY <1>4, <1>8, StatusOf DEF Tears, Stops
<1> QED
  BY <1>5, <1>6, <1>7, <1>8

\* What a cancellation does to a job on the server concerns no other command.
LEMMA CancelClient ==
  ASSUME ClientInv, Cancel
  PROVE  ClientInv'
<1>1. pc = "cancel" /\ cmd = "cancel" /\ id \in told /\ id \in Jobs
  BY DEF ClientInv, ClientType, PlaceOK, Cancel
<1>2. /\ job' \in [Jobs -> {"none", "running", "success", "failed"}]
      /\ told' \subseteq {j \in Jobs : job'[j] # "none"}
      /\ id' \in 0..NumJobs /\ shown' \in BOOLEAN /\ streak' \in 0..MaxErrors
  <2>1. job' \in {job, [job EXCEPT ![id] = IF @ = "running" THEN "failed" ELSE @]}
    BY DEF Cancel
  <2>2. /\ job' \in [Jobs -> {"none", "running", "success", "failed"}]
        /\ \A j \in Jobs : job[j] # "none" => job'[j] # "none"
    <3>1. job \in [Jobs -> {"none", "running", "success", "failed"}]
      BY DEF ClientInv, ClientType
    <3>2. \E s \in {"none", "running", "success", "failed"} :
            /\ job' = job \/ job' = [job EXCEPT ![id] = s]
            /\ job[id] # "none" => s # "none"
      BY <1>1, <2>1, <3>1
    <3> QED
      BY <1>1, <3>1, <3>2
  <2>3. told' = told /\ told \subseteq {j \in Jobs : job[j] # "none"}
    BY DEF ClientInv, ClientType, Cancel
  <2>4. told' \subseteq {j \in Jobs : job'[j] # "none"}
    BY <2>2, <2>3
  <2> QED
    BY <2>2, <2>4 DEF ClientInv, ClientType, Cancel
<1>3. \E s \in {0, 1, 2, 130} : Exits(s) /\ got' \in Outcome
  <2>1. CASE got' = "ok" /\ Exits(0)
    BY <2>1 DEF Outcome
  <2>2. ASSUME NEW e \in {"error", "other", "interrupt"}, Raises(e)
        PROVE  \E s \in {0, 1, 2, 130} : Exits(s) /\ got' \in Outcome
    BY <2>2, StatusOf DEF Raises, Outcome, Failures, RuntimeErrors
  <2> QED
    BY <2>1, <2>2 DEF Cancel
<1>4. ClientType' /\ PlaceOK'
  BY <1>1, <1>2, <1>3, ExitStops, StopKeepsPlace
<1>5. cmd' = "cancel"
  BY <1>1, <1>3 DEF Exits
<1>6. FollowsToTheEnd'
  BY <1>5 DEF FollowsToTheEnd, Following
<1> QED
  BY <1>4, <1>6 DEF ClientInv

\* The types hold again when the process keeps its state and the jobs on the
\* server keep theirs.
LEMMA SameProcess ==
  ASSUME ClientType, UNCHANGED process,
         job' \in [Jobs -> {"none", "running", "success", "failed"}],
         told' \subseteq {j \in Jobs : job'[j] # "none"}
  PROVE  ClientType'
<1>1. UNCHANGED <<runs, cmd, pc, id, errors, got, exit, shown, streak>>
  BY DEF process
<1>2. /\ runs' \in 0..MaxRuns /\ cmd' \in Commands \cup {"none"}
      /\ pc' \in {"idle", "submit", "tell", "check", "poll", "report", "export", "save", "cancel"}
      /\ id' \in 0..NumJobs /\ errors' \in 0..(MaxErrors - 1)
  BY <1>1 DEF ClientType
<1>3. /\ got' \in {"none", "ok", "no id", "timeout", "interrupt"} \cup Failures
      /\ exit' \in {-1, 0, 1, 2, 130} /\ (exit' = -1) = (pc' # "idle" \/ runs' = 0)
      /\ shown' \in BOOLEAN /\ streak' \in 0..MaxErrors
  BY <1>1 DEF ClientType
<1> QED
  BY <1>2, <1>3 DEF ClientType

\* A job that ends while it is followed is no longer running, and one that has
\* ended stays as it is.
LEMMA JobEndsClient ==
  ASSUME ClientInv, NEW j \in Jobs, JobEnds(j)
  PROVE  ClientInv'
<1>1. /\ job' \in [Jobs -> {"none", "running", "success", "failed"}]
      /\ \A i \in Jobs : /\ job[i] # "none" => job'[i] # "none"
                         /\ job[i] = "success" => job'[i] = "success"
                         /\ job'[i] = "running" => job[i] = "running"
  <2>1. PICK s \in {"success", "failed"} : job' = [job EXCEPT ![j] = s]
    BY DEF JobEnds
  <2>2. job[j] = "running" /\ job \in [Jobs -> {"none", "running", "success", "failed"}]
    BY DEF ClientInv, ClientType, JobEnds
  <2> QED
    BY <2>1, <2>2
<1>2. told \subseteq Jobs /\ (id # 0 => id \in Jobs)
  <2>1. told \subseteq Jobs /\ id \in 0..NumJobs
    BY DEF ClientInv, ClientType
  <2> QED
    BY <2>1, JobClientAssumption DEF Jobs
<1>3. ClientType'
  <2>1. told' = told /\ told \subseteq {i \in Jobs : job[i] # "none"}
    BY DEF ClientInv, ClientType, JobEnds
  <2>2. told' \subseteq {i \in Jobs : job'[i] # "none"}
    BY <1>1, <2>1
  <2>3. UNCHANGED process
    BY DEF JobEnds
  <2> QED
    BY <1>1, <2>2, <2>3, SameProcess DEF ClientInv
<1>4. PlaceOK'
  BY <1>1, <1>2 DEF ClientInv, PlaceOK, Made, JobEnds, process
<1>5. FollowsToTheEnd'
  BY <1>1, <1>2 DEF ClientInv, FollowsToTheEnd, Ended, JobEnds, process
<1> QED
  BY <1>3, <1>4, <1>5 DEF ClientInv

-----------------------------------------------------------------------------
(* The directory: names and room *)

\* The room for another export, and what all invocations together need.
LEMMA Room ==
  ASSUME NEW n \in 0..MaxRuns
  PROVE  /\ n * NumArtifacts \in Nat /\ n * NumArtifacts <= MaxRuns * NumArtifacts
         /\ (n + 1) * NumArtifacts = n * NumArtifacts + NumArtifacts
<1> DEFINE N == NumArtifacts
<1>1. MaxRuns \in Nat /\ N \in Nat /\ n \in Nat /\ MaxRuns - n \in Nat
  BY JobClientAssumption
<1>2. (MaxRuns - n) * N \in Nat /\ n * N \in Nat
  BY <1>1
<1>3. MaxRuns * N = n * N + (MaxRuns - n) * N
  BY <1>1
<1>4. (n + 1) * N = n * N + N
  BY <1>1
<1> QED
  BY <1>1, <1>2, <1>3, <1>4

\* The first name that is free follows the names that are taken.
LEMMA NextName ==
  ASSUME NEW k \in Nat, DOMAIN files = 1..k, used \subseteq DOMAIN files,
         k + 1 <= MaxRuns * NumArtifacts
  PROVE  _unique_filename = k + 1
<1>1. MaxRuns * NumArtifacts \in Nat
  BY JobClientAssumption
<1>2. Names \ (used \cup DOMAIN files) = (k + 1)..(MaxRuns * NumArtifacts)
  BY <1>1 DEF Names
<1>3. k + 1 \in (k + 1)..(MaxRuns * NumArtifacts)
  BY <1>1
<1> QED
  BY <1>1, <1>2, <1>3 DEF _unique_filename, Min

\* No file is overwritten.
LEMMA WrittenBeside ==
  ASSUME NEW k \in Nat, DOMAIN files = 1..k, NEW content, files' = Written(k + 1, content)
  PROVE  /\ DOMAIN files' = 1..(k + 1) /\ files'[k + 1] = content
         /\ \A n \in DOMAIN files : n \in DOMAIN files' /\ files'[n] = files[n]
<1>1. (1..k) \cup {k + 1} = 1..(k + 1) /\ k + 1 \notin 1..k
  OBVIOUS
<1> QED
  BY <1>1 DEF Written

\* So the links of an exported report go on to resolve.
LEMMA WrittenResolves ==
  ASSUME BundleInv, NEW k \in Nat, DOMAIN files = 1..k, NEW content \in Artifacts \cup {Torn},
         files' = Written(k + 1, content), k + 1 <= MaxRuns * NumArtifacts
  PROVE  /\ DOMAIN files' \subseteq Names /\ \A n \in DOMAIN files' : files'[n] \in Artifacts \cup {Torn}
         /\ report' = report => BundleResolves'
<1>1. \A n \in DOMAIN files' : n = k + 1 \/ n \in DOMAIN files
  BY WrittenBeside
<1>2. k + 1 \in Names
  BY JobClientAssumption DEF Names
<1>3. BundleResolves /\ BundleType
  BY DEF BundleInv
<1>4. report' = report => BundleResolves'
  BY <1>3, WrittenBeside DEF BundleResolves
<1> QED
  BY <1>1, <1>2, <1>3, <1>4, WrittenBeside DEF BundleType

-----------------------------------------------------------------------------
(* The directory: steps *)

LEMMA SameBundle ==
  ASSUME BundleInv, UNCHANGED <<runs, pc, id, bundle>>
  PROVE  BundleInv'
<1>1. BundleType' /\ LinksOK' /\ BundleResolves'
  BY DEF BundleInv, bundle, BundleType, LinksOK, BundleResolves
<1>2. RoomOK'
  BY DEF BundleInv, bundle, RoomOK, Saving
<1> QED
  BY <1>1, <1>2 DEF BundleInv

\* A command that does not save touches nothing.
LEMMA OtherBundle ==
  ASSUME BundleInv, UNCHANGED <<runs, bundle>>, pc \notin {"idle", "save"}, pc' \notin {"idle", "save"}
  PROVE  BundleInv'
<1>1. BundleType' /\ BundleResolves'
  BY DEF BundleInv, bundle, BundleType, BundleResolves
<1>2. LinksOK'
  BY DEF BundleInv, bundle, LinksOK
<1>3. RoomOK'
  BY DEF BundleInv, bundle, RoomOK
<1> QED
  BY <1>1, <1>2, <1>3 DEF BundleInv

\* The room of an invocation that ends without a write is not needed any more.
LEMMA RoomLeft ==
  ASSUME ClientInv, RoomOK, pc # "idle", NEW k \in Nat, DOMAIN files = 1..k
  PROVE  k <= runs * NumArtifacts
<1>1. NumArtifacts \in Nat /\ runs * NumArtifacts \in Nat
  BY Room, JobClientAssumption DEF ClientInv, ClientType
<1>2. PICK i \in Nat : /\ DOMAIN files = 1..i
                       /\ pc \notin {"idle", "save"} => i + NumArtifacts <= runs * NumArtifacts
                       /\ pc = "save" => Saving(i)
  BY DEF RoomOK
<1>3. i = k
  BY <1>2
<1>4. CASE pc = "save"
  <2>1. PICK m \in 1..(NumArtifacts + 1) : i + (NumArtifacts + 1 - m) <= runs * NumArtifacts
    BY <1>2, <1>4 DEF Saving
  <2> QED
    BY <1>1, <1>3, <2>1
<1>5. CASE pc # "save"
  BY <1>1, <1>2, <1>3, <1>5
<1> QED
  BY <1>4, <1>5

LEMMA ExitBundle ==
  ASSUME ClientInv, BundleInv, pc # "idle", NEW s, Exits(s)
  PROVE  BundleInv'
<1>1. BundleType' /\ LinksOK' /\ BundleResolves'
  BY DEF BundleInv, Exits, BundleType, LinksOK, BundleResolves
<1>2. PICK k \in Nat : DOMAIN files = 1..k
  BY DEF BundleInv, RoomOK
<1>3. k <= runs * NumArtifacts
  BY <1>2, RoomLeft DEF BundleInv
<1>4. RoomOK'
  BY <1>2, <1>3 DEF Exits, RoomOK
<1> QED
  BY <1>1, <1>4 DEF BundleInv

\* Every invocation brings the room for one export.
LEMMA StartsBundle ==
  ASSUME ClientInv, BundleInv, NEW c \in Commands, Starts(c)
  PROVE  BundleInv'
<1>1. pc = "idle" /\ pc' \notin {"idle", "save"} /\ runs' = runs + 1 /\ runs \in 0..MaxRuns
  BY DEF Starts, Commands, Submitting, Following, Exporting, ClientInv, ClientType
<1>2. BundleType' /\ LinksOK' /\ BundleResolves'
  BY <1>1 DEF BundleInv, Starts, bundle, BundleType, LinksOK, BundleResolves
<1>3. PICK k \in Nat : DOMAIN files = 1..k /\ k <= runs * NumArtifacts
  BY <1>1 DEF BundleInv, RoomOK
<1>4. k + NumArtifacts <= runs' * NumArtifacts
  BY <1>1, <1>3, Room, JobClientAssumption
<1>5. RoomOK'
  BY <1>1, <1>3, <1>4 DEF Starts, bundle, RoomOK
<1> QED
  BY <1>2, <1>5 DEF BundleInv

LEMMA ListArtifactsBundle ==
  ASSUME ClientInv, BundleInv, ListArtifacts
  PROVE  BundleInv'
<1>1. pc = "export" /\ id \in Jobs /\ id' = id /\ todo = {} /\ used = {} /\ links = {}
  BY DEF ClientInv, ClientType, PlaceOK, BundleInv, LinksOK, ListArtifacts
<1>2. CASE /\ pc' = "save" /\ todo' = {id} \X (1..NumArtifacts)
           /\ UNCHANGED <<runs, files, report, used, links>>
  <2>1. BundleType'
    BY <1>1, <1>2 DEF BundleInv, BundleType, Artifacts
  <2>2. LinksOK' /\ BundleResolves'
    BY <1>1, <1>2 DEF BundleInv, LinksOK, BundleResolves
  <2>3. PICK k \in Nat : DOMAIN files = 1..k /\ k + NumArtifacts <= runs * NumArtifacts
    BY <1>1 DEF BundleInv, RoomOK
  <2>4. 1 \in 1..(NumArtifacts + 1) /\ NumArtifacts + 1 - 1 = NumArtifacts
    BY JobClientAssumption
  <2>5. Saving(k)'
    BY <1>1, <1>2, <2>3, <2>4 DEF Saving
  <2>6. RoomOK'
    BY <1>2, <2>3, <2>5 DEF RoomOK
  <2> QED
    BY <2>1, <2>2, <2>6 DEF BundleInv
<1>3. CASE Exits(1)
  BY <1>1, <1>3, ExitBundle
<1> QED
  BY <1>2, <1>3 DEF ListArtifacts

\* What there is to save comes next.
LEMMA SavingNext ==
  ASSUME ClientInv, BundleInv, pc = "save"
  PROVE  \E k \in Nat, m \in 1..(NumArtifacts + 1) :
           /\ DOMAIN files = 1..k /\ todo = {id} \X (m..NumArtifacts)
           /\ k + (NumArtifacts + 1 - m) <= runs * NumArtifacts
           /\ todo # {} => /\ m \in 1..NumArtifacts
                           /\ k + 1 <= runs * NumArtifacts /\ k + 1 <= MaxRuns * NumArtifacts
                           /\ _unique_filename = k + 1
<1>1. PICK k \in Nat, m \in 1..(NumArtifacts + 1) :
        /\ DOMAIN files = 1..k /\ todo = {id} \X (m..NumArtifacts)
        /\ k + (NumArtifacts + 1 - m) <= runs * NumArtifacts
  BY DEF BundleInv, RoomOK, Saving
<1>2. ASSUME todo # {}
      PROVE  /\ m \in 1..NumArtifacts /\ k + 1 <= runs * NumArtifacts
             /\ k + 1 <= MaxRuns * NumArtifacts /\ _unique_filename = k + 1
  <2>1. m..NumArtifacts # {}
    BY <1>1, <1>2
  <2>2. NumArtifacts \in Nat /\ m \in 1..NumArtifacts
    BY <2>1, JobClientAssumption
  <2>3. /\ runs * NumArtifacts \in Nat /\ runs * NumArtifacts <= MaxRuns * NumArtifacts
        /\ MaxRuns * NumArtifacts \in Nat
    <3>1. runs \in 0..MaxRuns
      BY DEF ClientInv, ClientType
    <3>2. MaxRuns \in 0..MaxRuns
      BY JobClientAssumption
    <3> QED
      BY <3>1, <3>2, Room
  <2>4. k + 1 <= runs * NumArtifacts /\ k + 1 <= MaxRuns * NumArtifacts
    BY <1>1, <2>2, <2>3
  <2> QED
    BY <1>1, <2>2, <2>4, NextName DEF BundleInv, BundleType
<1> QED
  BY <1>1, <1>2

LEMMA SaveArtifactBundle ==
  ASSUME ClientInv, BundleInv, SaveArtifact
  PROVE  BundleInv'
<1>1. pc = "save" /\ todo # {} /\ id' = id /\ pc' = pc /\ runs' = runs /\ report' = report
  BY DEF SaveArtifact
<1>2. PICK k \in Nat, m \in 1..(NumArtifacts + 1) :
        /\ DOMAIN files = 1..k /\ todo = {id} \X (m..NumArtifacts)
        /\ k + (NumArtifacts + 1 - m) <= runs * NumArtifacts
        /\ m \in 1..NumArtifacts /\ k + 1 <= MaxRuns * NumArtifacts
        /\ _unique_filename = k + 1
  BY <1>1, SavingNext
<1> DEFINE a == CHOOSE b \in todo : \A c \in todo : b[2] <= c[2]
<1>3. a = <<id, m>> /\ a \in todo
  <2>1. <<id, m>> \in todo /\ \A c \in todo : m <= c[2]
    BY <1>2
  <2>2. a \in todo /\ \A c \in todo : a[2] <= c[2]
    BY <2>1
  <2>3. a[1] = id /\ a[2] \in m..NumArtifacts /\ a = <<a[1], a[2]>> /\ a[2] <= <<id, m>>[2]
    BY <1>2, <2>1, <2>2
  <2>4. a[2] = m
    BY <1>2, <2>3
  <2> QED
    BY <2>2, <2>3, <2>4
<1>4. a \in Artifacts
  BY <1>3 DEF BundleInv, BundleType
<1>5. /\ files' = Written(k + 1, a) /\ todo' = todo \ {a}
      /\ used' = used \cup {k + 1} /\ links' = links \cup {<<a, k + 1>>}
  BY <1>2 DEF SaveArtifact
<1> HIDE DEF a
<1>6. /\ DOMAIN files' = 1..(k + 1) /\ files'[k + 1] = a /\ k + 1 \in DOMAIN files'
      /\ \A n \in DOMAIN files : n \in DOMAIN files' /\ files'[n] = files[n]
  BY <1>2, <1>5, WrittenBeside
<1>7. BundleType'
  <2>1. DOMAIN files' \subseteq Names /\ \A n \in DOMAIN files' : files'[n] \in Artifacts \cup {Torn}
    BY <1>2, <1>4, <1>5, WrittenResolves
  <2>2. todo' \subseteq Artifacts /\ used' \subseteq DOMAIN files' /\ links' \subseteq Artifacts \X used'
    BY <1>4, <1>5, <1>6 DEF BundleInv, BundleType
  <2> QED
    BY <1>1, <2>1, <2>2 DEF BundleInv, BundleType
<1>8. LinksOK'
  <2>1. \A l \in links : l[2] \in DOMAIN files /\ l[1][1] = id /\ files[l[2]] = l[1]
    BY DEF BundleInv, BundleType, LinksOK
  <2>2. ASSUME NEW l \in links'
        PROVE  l[1][1] = id /\ files'[l[2]] = l[1]
    BY <1>3, <1>5, <1>6, <2>1
  <2> QED
    BY <1>1, <2>2 DEF LinksOK
<1>9. BundleResolves'
  BY <1>1, <1>2, <1>4, <1>5, WrittenResolves
<1>10. RoomOK'
  <2>1. /\ m + 1 \in 1..(NumArtifacts + 1)
        /\ (k + 1) + (NumArtifacts + 1 - (m + 1)) <= runs * NumArtifacts
    <3>1. NumArtifacts \in Nat
      BY JobClientAssumption
    <3> QED
      BY <1>2, <3>1
  <2>2. todo' = {id} \X ((m + 1)..NumArtifacts)
    <3>1. (m..NumArtifacts) \ {m} = (m + 1)..NumArtifacts
      BY <1>2, JobClientAssumption
    <3> QED
      BY <1>2, <1>3, <1>5, <3>1
  <2>3. Saving(k + 1)'
    BY <1>1, <2>1, <2>2 DEF Saving
  <2> QED
    BY <1>1, <1>6, <2>3 DEF RoomOK
<1> QED
  BY <1>7, <1>8, <1>9, <1>10 DEF BundleInv

\* The links of the new report are those of what is there.
LEMMA ReportedResolves ==
  ASSUME BundleInv, NEW reported \in SUBSET links, id \in 0..NumJobs,
         report' = [job |-> id, links |-> reported], files' = files
  PROVE  /\ report' \in [job : 0..NumJobs, links : SUBSET (Artifacts \X Names)]
         /\ BundleResolves'
<1>1. links \subseteq Artifacts \X Names
  BY DEF BundleInv, BundleType
<1>2. \A l \in links : l[2] \in DOMAIN files /\ l[1][1] = id /\ files[l[2]] = l[1]
  BY DEF BundleInv, BundleType, LinksOK
<1> QED
  BY <1>1, <1>2 DEF BundleResolves

LEMMA WriteReportBundle ==
  ASSUME ClientInv, BundleInv, WriteReport
  PROVE  BundleInv'
<1>1. /\ pc = "save" /\ pc' = "idle" /\ runs' = runs /\ files' = files
      /\ todo' = {} /\ used' = {} /\ links' = {}
      /\ id \in 0..NumJobs
  BY DEF ClientInv, ClientType, WriteReport
<1>2. /\ report' \in [job : 0..NumJobs, links : SUBSET (Artifacts \X Names)]
      /\ BundleResolves'
  <2>1. CASE report' = report
    BY <1>1, <2>1 DEF BundleInv, BundleType, BundleResolves
  <2>2. CASE report' = [job |-> id, links |-> links]
    BY <1>1, <2>2, ReportedResolves
  <2> QED
    BY <2>1, <2>2 DEF WriteReport
<1>3. BundleType' /\ LinksOK'
  BY <1>1, <1>2 DEF BundleInv, BundleType, LinksOK
<1>4. RoomOK'
  <2>1. PICK k \in Nat : DOMAIN files = 1..k
    BY DEF BundleInv, RoomOK
  <2>2. k <= runs * NumArtifacts
    BY <1>1, <2>1, RoomLeft DEF BundleInv
  <2> QED
    BY <1>1, <2>1, <2>2 DEF RoomOK
<1> QED
  BY <1>2, <1>3, <1>4 DEF BundleInv

\* What is torn is a file that no report links to, or a report whose links are
\* among those of the whole one.
LEMMA TearsBundle ==
  ASSUME ClientInv, BundleInv, Tears
  PROVE  BundleInv'
<1>1. /\ pc = "save" /\ pc' = "idle" /\ runs' = runs
      /\ todo' = {} /\ used' = {} /\ links' = {}
      /\ id \in 0..NumJobs
  BY DEF ClientInv, ClientType, Tears
<1>2. LinksOK'
  BY <1>1 DEF LinksOK
<1>3. CASE todo # {}
  <2>1. PICK k \in Nat : /\ DOMAIN files = 1..k /\ k + 1 <= runs * NumArtifacts
                         /\ k + 1 <= MaxRuns * NumArtifacts /\ _unique_filename = k + 1
    BY <1>1, <1>3, SavingNext
  <2>2. files' = Written(k + 1, Torn) /\ report' = report
    BY <1>3, <2>1 DEF Tears
  <2>3. /\ DOMAIN files' \subseteq Names /\ \A n \in DOMAIN files' : files'[n] \in Artifacts \cup {Torn}
        /\ BundleResolves'
    BY <2>1, <2>2, WrittenResolves
  <2>4. BundleType'
    BY <1>1, <2>2, <2>3 DEF BundleInv, BundleType
  <2>5. DOMAIN files' = 1..(k + 1)
    BY <2>1, <2>2, WrittenBeside
  <2>6. RoomOK'
    BY <1>1, <2>1, <2>5 DEF RoomOK
  <2> QED
    BY <1>2, <2>3, <2>4, <2>6 DEF BundleInv
<1>4. CASE todo = {}
  <2>1. PICK reported \in SUBSET links : report' = [job |-> id, links |-> reported] /\ files' = files
    BY <1>4 DEF Tears
  <2>2. /\ report' \in [job : 0..NumJobs, links : SUBSET (Artifacts \X Names)]
        /\ BundleResolves'
    BY <1>1, <2>1, ReportedResolves
  <2>3. BundleType'
    BY <1>1, <2>1, <2>2 DEF BundleInv, BundleType
  <2>4. RoomOK'
    <3>1. PICK k \in Nat : DOMAIN files = 1..k
      BY DEF BundleInv, RoomOK
    <3>2. k <= runs * NumArtifacts
      BY <1>1, <3>1, RoomLeft DEF BundleInv
    <3> QED
      BY <1>1, <2>1, <3>1, <3>2 DEF RoomOK
  <2> QED
    BY <1>2, <2>2, <2>3, <2>4 DEF BundleInv
<1> QED
  BY <1>3, <1>4

\* All other steps end the invocation or leave the directory alone.
LEMMA ElsewhereBundle ==
  ASSUME ClientInv, BundleInv,
         NewJob \/ NoJob \/ Tell \/ CheckAnswered \/ CheckFails \/ PollAnswered \/ PollFails \/ GetReport
           \/ Cancel \/ RequestFails \/ TimesOut \/ Interrupt
  PROVE  BundleInv'
<1>1. ASSUME NEW s, Exits(s), pc # "idle"
      PROVE  BundleInv'
  BY <1>1, ExitBundle
<1>2. ASSUME UNCHANGED <<runs, bundle>>, pc \notin {"idle", "save"}, pc' \notin {"idle", "save"}
      PROVE  BundleInv'
  BY <1>2, OtherBundle
<1>3. CASE NewJob \/ NoJob \/ Tell
  BY <1>1, <1>2, <1>3 DEF NewJob, NoJob, Tell, Raises
<1>4. CASE CheckAnswered \/ PollAnswered
  BY <1>1, <1>2, <1>4 DEF CheckAnswered, PollAnswered, Answered
<1>5. CASE CheckFails \/ PollFails
  BY <1>1, <1>2, <1>5 DEF CheckFails, PollFails, Retries, Raises
<1>6. CASE GetReport \/ Cancel \/ RequestFails \/ TimesOut \/ Interrupt
  BY <1>1, <1>6 DEF GetReport, Cancel, RequestFails, TimesOut, Interrupt, Raises
<1> QED
  BY <1>3, <1>4, <1>5, <1>6

-----------------------------------------------------------------------------
(* Theorems *)

LEMMA InitInv == Init => IInv
<1> SUFFICES ASSUME Init PROVE IInv
  OBVIOUS
<1>1. DOMAIN files = {} /\ DOMAIN files = 1..0
  BY DEF Init
<1>2. ClientInv
  <2>1. 0 \in 0..MaxRuns
    BY JobClientAssumption
  <2>2. ClientType
    BY Bounds, <2>1 DEF Init, ClientType
  <2>3. PlaceOK /\ FollowsToTheEnd
    BY DEF Init, PlaceOK, FollowsToTheEnd, Ended
  <2> QED
    BY <2>2, <2>3 DEF ClientInv
<1>3. BundleType /\ LinksOK /\ BundleResolves
  BY <1>1, Bounds DEF Init, BundleType, LinksOK, BundleResolves, NoReport
<1>4. RoomOK
  <2>1. 0 <= runs * NumArtifacts
    BY JobClientAssumption DEF Init
  <2> QED
    BY <1>1, <2>1 DEF Init, RoomOK
<1> QED
  BY <1>2, <1>3, <1>4 DEF IInv, BundleInv

LEMMA NextKeeps == IInv /\ [Next]_vars => IInv'
<1> SUFFICES ASSUME ClientInv, BundleInv, [Next]_vars PROVE ClientInv' /\ BundleInv'
  BY DEF IInv
<1>1. ASSUME NEW c \in Commands, Starts(c)
      PROVE  ClientInv' /\ BundleInv'
  BY <1>1, StartsClient, StartsBundle
<1>2. CASE ListArtifacts \/ SaveArtifact \/ WriteReport \/ Tears
  BY <1>2, ExportClient, ListArtifactsBundle, SaveArtifactBundle, WriteReportBundle, TearsBundle
<1>3. CASE NewJob \/ NoJob \/ Tell \/ CheckAnswered \/ CheckFails \/ PollAnswered \/ PollFails \/ GetReport
             \/ Cancel \/ RequestFails \/ TimesOut \/ Interrupt
  <2>1. ClientInv'
    BY <1>3, NewJobClient, NoJobClient, TellClient, CheckOrPollClient, EndClient, CancelClient
  <2> QED
    BY <1>3, <2>1, ElsewhereBundle
<1>4. ASSUME NEW j \in Jobs, JobEnds(j)
      PROVE  ClientInv' /\ BundleInv'
  BY <1>4, JobEndsClient, SameBundle DEF JobEnds, process
<1>5. CASE UNCHANGED vars
  <2>1. ClientType'
    <3>1. ClientType
      BY DEF ClientInv
    <3>2. job' = job /\ told' = told /\ UNCHANGED process
      BY <1>5 DEF vars, process
    <3>3. /\ job' \in [Jobs -> {"none", "running", "success", "failed"}]
          /\ told' \subseteq {j \in Jobs : job'[j] # "none"}
      BY <3>1, <3>2 DEF ClientType
    <3> QED
      BY <3>1, <3>2, <3>3, SameProcess
  <2>2. PlaceOK'
    BY <1>5 DEF ClientInv, vars, process, PlaceOK, Made
  <2>3. FollowsToTheEnd'
    BY <1>5 DEF ClientInv, vars, process, FollowsToTheEnd, Ended
  <2> QED
    BY <1>5, <2>1, <2>2, <2>3, SameBundle DEF ClientInv, vars, process
<1> QED
  BY <1>1, <1>2, <1>3, <1>4, <1>5 DEF Next, Proceeds

\* The inductive invariant holds in every reachable state of aiq.py.
THEOREM Invariant == Spec => []IInv
  BY InitInv, NextKeeps, PTL DEF Spec

\* The variables of the client have their types; that a free name is always
\* found is part of it (aiq.py, _unique_filename).
THEOREM TypeCorrect == Spec => []TypeOK
<1>1. IInv => TypeOK
  BY TypeParts DEF IInv, ClientInv, BundleInv
<1> QED
  BY <1>1, Invariant, PTL

\* A command that follows a job does so to the end, or stops for a reason and
\* with the ID told (aiq.py, poll_until_complete).
THEOREM Followed == Spec => []FollowsToTheEnd
<1>1. IInv => FollowsToTheEnd
  BY DEF IInv, ClientInv
<1> QED
  BY <1>1, Invariant, PTL

\* The links of an exported report go on to resolve (aiq.py,
\* _export_report_bundle).
THEOREM ExportResolves == Spec => []BundleResolves
<1>1. IInv => BundleResolves
  BY DEF IInv, BundleInv
<1> QED
  BY <1>1, Invariant, PTL

=============================================================================
