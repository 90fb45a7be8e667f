------------------------------ MODULE JobClient ------------------------------
(***************************************************************************)
(* The client of asynchronous research jobs (aiq.py), one invocation after *)
(* the other: submit a job and leave it (submit, chat), submit and follow  *)
(* it (research, report_edit), resume following it (research_poll), print  *)
(* its report, export it with its artifacts into a directory (report       *)
(* --out-dir, artifacts --download-dir), cancel it.                        *)
(*                                                                         *)
(* Jobs run on the server.  A request may fail in each way that the client *)
(* tells apart, its answer may be lost after the server has acted on it,   *)
(* and the operator may interrupt the client anywhere.  All files of all   *)
(* exports go to one directory, and every artifact has the same filename.  *)
(***************************************************************************)
EXTENDS Integers, FiniteSetsExt

CONSTANTS NumJobs,      \* bound: jobs that are ever made
          NumArtifacts, \* artifacts of a job
          MaxErrors,    \* POLL_MAX_CONSECUTIVE_ERRORS, STATUS_CHECK_MAX_ATTEMPTS
          MaxRuns       \* bound: invocations of the client

ASSUME JobClientAssumption ==
  /\ NumJobs \in Nat \ {0} /\ NumArtifacts \in Nat
  /\ MaxErrors \in Nat \ {0} /\ MaxRuns \in Nat \ {0}

Jobs == 1..NumJobs
Artifacts == Jobs \X (1..NumArtifacts)

VARIABLES job,    \* job[j]: what became of j on the server
          told,   \* jobs whose ID the operator has been given
          runs,   \* number of invocations
          cmd,    \* the command of the current invocation
          pc,     \* where it is
          id,     \* the job it is about, 0 for none
          errors, \* failed status checks in a row, as the client counts them
          got,    \* the outcome of its last request, or what ended it
          exit,   \* its exit status, -1 while it runs
          shown,  \* whether it has printed a report
          streak, \* history: failed status checks since the last answer
          files,  \* the directory of artifacts: files[n] for each name n in it
          report, \* report.md: its job, and the names its artifacts are linked to
          todo,   \* artifacts that are left to save
          used,   \* names that this invocation has used
          links   \* id_to_relpath: <<artifact, name>> of what it has saved

process == <<runs, cmd, pc, id, errors, got, exit, shown, streak>>
bundle == <<files, report, todo, used, links>>
vars == <<job, told, process, bundle>>

Submitting == {"submit", "chat", "research", "report_edit"}
Following == {"research", "report_edit", "research_poll"}
Exporting == {"report --out-dir", "artifacts --download-dir"}
Commands == Submitting \cup Following \cup Exporting \cup {"report", "cancel"}

\* How a request ends: RuntimeErrors are what the client raises itself, with
\* McpAuthRequiredError among them; "other" is what it does not foresee, like a
\* time-out or a disconnection before the response has been read.
RuntimeErrors == {"error", "auth"}
Failures == RuntimeErrors \cup {"other"}

\* What a write that was cut short leaves.
Torn == <<0, 0>>
NoReport == [job |-> 0, links |-> {}]
Names == 1..(MaxRuns * NumArtifacts)

TypeOK ==
  /\ job \in [Jobs -> {"none", "running", "success", "failed"}]
  /\ told \subseteq {j \in Jobs : job[j] # "none"}
  /\ runs \in 0..MaxRuns
  /\ cmd \in Commands \cup {"none"}
  /\ pc \in {"idle", "submit", "tell", "check", "poll", "report", "export", "save", "cancel"}
  /\ id \in 0..NumJobs
  /\ errors \in 0..(MaxErrors - 1)
  /\ got \in {"none", "ok", "no id", "timeout", "interrupt"} \cup Failures
  /\ exit \in {-1, 0, 1, 2, 130}
  /\ (exit = -1) = (pc # "idle" \/ runs = 0)
  /\ shown \in BOOLEAN
  /\ streak \in 0..MaxErrors
  /\ DOMAIN files \subseteq Names /\ \A n \in DOMAIN files : files[n] \in Artifacts \cup {Torn}
  /\ report \in [job : 0..NumJobs, links : SUBSET (Artifacts \X Names)]
  /\ todo \subseteq Artifacts /\ used \subseteq DOMAIN files /\ links \subseteq Artifacts \X used

Init ==
  /\ job = [j \in Jobs |-> "none"]
  /\ told = {} /\ runs = 0 /\ cmd = "none" /\ pc = "idle" /\ id = 0
  /\ errors = 0 /\ got = "none" /\ exit = -1 /\ shown = FALSE /\ streak = 0
  /\ files = <<>> /\ report = NoReport
  /\ todo = {} /\ used = {} /\ links = {}

-----------------------------------------------------------------------------
(* Invocations, and how they end: main *)

\* IDs are typed by the operator, who has them from earlier output.
Starts(c) ==
  /\ pc = "idle" /\ runs < MaxRuns
  /\ runs' = runs + 1 /\ cmd' = c
  /\ pc' = (CASE c \in Submitting -> "submit" [] c = "research_poll" -> "check"
              [] c \in Exporting -> "export" [] OTHER -> c)
  /\ IF c \in Submitting \ {"report_edit"} THEN id' = 0 ELSE id' \in told
  /\ errors' = 0 /\ got' = "none" /\ exit' = -1 /\ shown' = FALSE /\ streak' = 0
  /\ UNCHANGED <<job, told, bundle>>

\* The process ends; what it kept in memory is gone.
Exits(status) ==
  /\ pc' = "idle" /\ exit' = status
  /\ errors' = 0
  /\ todo' = {} /\ used' = {} /\ links' = {}
  /\ UNCHANGED <<runs, cmd, files, report>>

\* main catches RuntimeError before its caller can McpAuthRequiredError; the
\* rest is a traceback.
status_of(e) ==
  IF e \in RuntimeErrors THEN 1
  ELSE CASE e = "auth" -> 2
         [] e = "interrupt" -> 130
         [] OTHER -> 1

Raises(e) == got' = e /\ Exits(status_of(e))

\* A request without effect on the server fails, and nobody tries it again.
RequestFails ==
  /\ pc \in {"report", "export", "save", "cancel"}
  /\ \E e \in Failures \ {"auth"} : Raises(e)
  /\ UNCHANGED <<job, told, id, shown, streak>>

-----------------------------------------------------------------------------
(* submit_job, chat_request, edit_report and what is made of the answer *)

Made == {j \in Jobs : job[j] # "none"}

\* The server makes a job, or answers a chat itself.
NewJob ==
  /\ pc = "submit"
  /\ \E j \in Jobs : /\ Made = 1..(j - 1)
                     /\ job' = [job EXCEPT ![j] = "running"]
                     /\ \/ got' = "ok" /\ pc' = "tell" /\ id' = j
                           /\ UNCHANGED <<runs, cmd, errors, exit, bundle>>
                        \/ got' = "no id" /\ Exits(IF cmd \in Following THEN 1 ELSE 0) /\ id' = 0
                        \/ \E e \in {"error", "other", "interrupt"} : Raises(e) /\ id' = 0
  /\ UNCHANGED <<told, shown, streak>>

NoJob ==
  /\ pc = "submit"
  /\ \/ \E e \in Failures : Raises(e)
     \/ cmd = "chat" /\ got' = "ok" /\ Exits(0)
  /\ id' = 0
  /\ UNCHANGED <<job, told, shown, streak>>

\* The ID is printed; a command that follows the job goes on with it.
Tell ==
  /\ pc = "tell"
  /\ told' = told \cup {id}
  /\ IF cmd \in Following
     THEN pc' = "poll" /\ UNCHANGED <<runs, cmd, errors, exit, bundle>>
     ELSE Exits(0)
  /\ UNCHANGED <<job, id, got, shown, streak>>

-----------------------------------------------------------------------------
(* poll_until_complete, _checked_job_status, get_report *)

\* Mutant: the failures of the whole poll are counted.
Answered_keeps_count ==
  /\ got' = "ok" /\ streak' = 0
  /\ \/ job[id] = "running" /\ pc' = "poll" /\ UNCHANGED <<errors, runs, cmd, exit, bundle>>
     \/ job[id] = "success" /\ pc' = "report" /\ errors' = 0 /\ UNCHANGED <<runs, cmd, exit, bundle>>
     \/ job[id] = "failed" /\ Exits(1)
\* A status check was answered: a job that has succeeded is reported, one that
\* runs is asked for again, in research_poll by way of poll_until_complete.
Answered ==
  /\ got' = "ok" /\ streak' = 0
  /\ \/ job[id] = "running" /\ pc' = "poll" /\ errors' = 0 /\ UNCHANGED <<runs, cmd, exit, bundle>>
     \/ job[id] = "success" /\ pc' = "report" /\ errors' = 0 /\ UNCHANGED <<runs, cmd, exit, bundle>>
     \/ job[id] = "failed" /\ Exits(1)

CheckAnswered == pc = "check" /\ Answered /\ UNCHANGED <<job, told, id, shown>>
PollAnswered == pc = "poll" /\ Answered /\ UNCHANGED <<job, told, id, shown>>

\* A failed check: only a RuntimeError is followed by another one.
Retries(e) ==
  /\ errors + 1 < MaxErrors
  /\ errors' = errors + 1 /\ got' = e
  /\ UNCHANGED <<runs, cmd, pc, exit, bundle>>

\* for attempt in range(1, MaxErrors + 1)
CheckFails ==
  /\ pc = "check"
  /\ streak' = streak + 1
  /\ Retries("error") \/ (errors + 1 = MaxErrors /\ Raises("error")) \/ Raises("other")
  /\ UNCHANGED <<job, told, id, shown>>

\* Mutant: one attempt more.
PollFailsOnceMore ==
  /\ pc = "poll"
  /\ streak' = streak + 1
  /\ \/ errors < MaxErrors /\ errors' = errors + 1 /\ got' = "error" /\ UNCHANGED <<runs, cmd, pc, exit, bundle>>
     \/ errors = MaxErrors /\ Raises("error")
     \/ Raises("other")
  /\ UNCHANGED <<job, told, id, shown>>
\* consecutive_errors >= max_consecutive_errors
PollFails ==
  /\ pc = "poll"
  /\ streak' = streak + 1
  /\ Retries("error") \/ (errors + 1 >= MaxErrors /\ Raises("error")) \/ Raises("other")
  /\ UNCHANGED <<job, told, id, shown>>

\* The deadline has passed at the head of the loop.
TimesOut ==
  /\ pc = "poll"
  /\ got' = "timeout" /\ Exits(1)
  /\ UNCHANGED <<job, told, id, shown, streak>>

\* What the server has is printed.
GetReport ==
  /\ pc = "report"
  /\ got' = "ok" /\ shown' = TRUE /\ Exits(0)
  /\ UNCHANGED <<job, told, id, streak>>

-----------------------------------------------------------------------------
(* _export_report_bundle, _command_artifacts *)

\* The report and the list of artifacts have come; a job without a report is
\* not exported, and its artifacts may be downloaded all the same.
ListArtifacts ==
  /\ pc = "export"
  /\ got' = "ok"
  /\ \/ /\ pc' = "save"
        /\ cmd = "report --out-dir" => job[id] = "success"
        /\ todo' = {id} \X (1..NumArtifacts)
        /\ UNCHANGED <<runs, cmd, errors, exit, files, report, used, links>>
     \/ cmd = "report --out-dir" /\ Exits(1)
  /\ UNCHANGED <<job, told, id, shown, streak>>

\* Mutant: only the names of this invocation are avoided.
used_filename == Min(Names \ used)
\* The first name that is neither used nor in the directory.
_unique_filename == Min(Names \ (used \cup DOMAIN files))

Written(n, content) == [m \in DOMAIN files \cup {n} |-> IF m = n THEN content ELSE files[m]]

\* One artifact: a name, the download, the write.
SaveArtifact ==
  /\ pc = "save" /\ todo # {}
  /\ LET a == CHOOSE b \in todo : \A c \in todo : b[2] <= c[2]
         n == _unique_filename
     IN  /\ files' = Written(n, a)
         /\ todo' = todo \ {a} /\ used' = used \cup {n} /\ links' = links \cup {<<a, n>>}
  /\ got' = "ok"
  /\ UNCHANGED <<job, told, runs, cmd, pc, id, errors, exit, shown, streak, report>>

\* Last of all report.md, with links to what has been saved.
WriteReport ==
  /\ pc = "save" /\ todo = {}
  /\ report' = IF cmd = "report --out-dir" THEN [job |-> id, links |-> links] ELSE report
  /\ pc' = "idle" /\ exit' = 0
  /\ errors' = 0 /\ used' = {} /\ links' = {}
  /\ UNCHANGED <<job, told, runs, cmd, id, got, shown, streak, files, todo>>

\* A write fails, or is interrupted, and leaves a part of the file.
Tears ==
  /\ pc = "save"
  /\ IF todo # {}
     THEN files' = Written(_unique_filename, Torn) /\ UNCHANGED report
     ELSE /\ cmd = "report --out-dir"
          /\ report' \in [job : {id}, links : SUBSET links]
          /\ UNCHANGED files
  /\ got' \in {"other", "interrupt"} /\ exit' = status_of(got')
  /\ pc' = "idle" /\ errors' = 0 /\ todo' = {} /\ used' = {} /\ links' = {}
  /\ UNCHANGED <<job, told, runs, cmd, id, shown, streak>>

-----------------------------------------------------------------------------
(* cancel, the operator and the server *)

\* The server is asked to cancel; the job may still come to its end before.
Cancel ==
  /\ pc = "cancel"
  /\ job' \in {job, [job EXCEPT ![id] = IF @ = "running" THEN "failed" ELSE @]}
  /\ \/ got' = "ok" /\ Exits(0)
     \/ \E e \in {"error", "other", "interrupt"} : Raises(e)
  /\ UNCHANGED <<told, id, shown, streak>>

\* Only polling catches it, to tell how to resume.
Interrupt ==
  /\ pc # "idle"
  /\ got' = "interrupt" /\ Exits(IF pc = "poll" THEN 1 ELSE status_of("interrupt"))
  /\ UNCHANGED <<job, told, id, shown, streak>>

JobEnds(j) ==
  /\ job[j] = "running"
  /\ \E s \in {"success", "failed"} : job' = [job EXCEPT ![j] = s]
  /\ UNCHANGED <<told, process, bundle>>

-----------------------------------------------------------------------------
(* The specification *)

Proceeds ==
  \/ NewJob \/ NoJob \/ Tell
  \/ CheckAnswered \/ CheckFails \/ PollAnswered \/ PollFails \/ GetReport
  \/ ListArtifacts \/ SaveArtifact \/ WriteReport
  \/ Cancel \/ RequestFails

Next ==
  \/ \E c \in Commands : Starts(c)
  \/ Proceeds \/ TimesOut \/ Tears \/ Interrupt
  \/ \E j \in Jobs : JobEnds(j)

Spec == Init /\ [][Next]_vars

-----------------------------------------------------------------------------
(* Properties *)

Ended == pc = "idle" /\ runs > 0

\* A command that follows a job succeeds only with the report of a job that
\* has succeeded, and leaves one that still runs only for a reason: the hour
\* is over, the operator interrupted it, a request failed as no RuntimeError,
\* or MaxErrors checks failed with no answer between them.  Whichever it is,
\* the operator has been told the ID with which to resume ("Resume later:
\* aiq.py research_poll", aiq.py:410), unless he interrupted just that.
FollowsToTheEnd ==
  Ended /\ cmd \in Following /\ id # 0 =>
    /\ exit = 0 => shown /\ job[id] = "success"
    /\ exit # 0 /\ job[id] = "running" /\ got = "error" => streak = MaxErrors
    /\ id \in told \/ got = "interrupt"

\* The links of an exported report lead to its own artifacts, also after later
\* exports and downloads into the directory that failed half-way.
BundleResolves ==
  \A l \in report.links : l[1][1] = report.job /\ l[2] \in DOMAIN files /\ files[l[2]] = l[1]

\* An authentication that is required is explained ("surface it rather than
\* collapsing to "HTTP 409"", aiq.py:191), which is what status 2 stands for.
AuthIsExplained == Ended /\ got = "auth" => exit = 2

=============================================================================
