---------------------------- MODULE ResearchBatch ----------------------------
(***************************************************************************)
(* A batch of research requests through the frontend (run.py): run_batch   *)
(* gives every request a thread (collect), which submits a job, polls it   *)
(* and saves its record; the main thread waits for them, writes the        *)
(* results and finishes the audit run.                                     *)
(*                                                                         *)
(* A job runs on the server whatever becomes of the client.  An answer may *)
(* be lost, a write may fail, the operator may interrupt the main thread   *)
(* at any time and more than once, and the process may be killed.          *)
(***************************************************************************)
EXTENDS Integers

CONSTANT NumRequests   \* requests of the batch, as many as max_workers

ASSUME ResearchBatchAssumption == NumRequests \in Nat \ {0}

Requests == 1..NumRequests

VARIABLES job,    \* job[r]: what became of the request on the server
          pc,     \* pc[r]: where the thread of the request is
          record, \* record[r]: the record in memory
          file,   \* file[r]: the record in the request's file
          late,   \* late: requests whose deadline has passed
          stop,   \* the Event that ends polling
          main,   \* where the main thread is
          code,   \* what run_batch returns, or 1 or 130 when it raises
          results,\* results.json: the outstanding IDs and the statuses
          audit   \* the status of the audit run

threads == <<pc, record, file>>
mainVars == <<stop, main, code, results, audit>>
vars == <<job, threads, late, mainVars>>

NoResults == [outstanding |-> {}, status |-> <<>>]

Status == {"pending", "running", "completed", "missing_answer", "failed",
           "rejected", "error", "timed_out", "interrupted"}

TypeOK ==
  /\ job \in [Requests -> {"none", "running", "success", "failure"}]
  /\ pc \in [Requests -> {"pending", "start", "save", "poll", "report", "finally", "done", "raised"}]
  /\ record \in [Requests -> [id : BOOLEAN, status : Status]]
  /\ file \in [Requests -> [id : BOOLEAN, status : Status]]
  /\ late \subseteq Requests
  /\ stop \in BOOLEAN
  /\ main \in {"submit", "collect", "join", "results", "finish", "ended", "killed"}
  /\ code \in {0, 1, 130}
  /\ results = NoResults \/ results \in [outstanding : SUBSET Requests, status : [Requests -> Status]]
  /\ audit \in {"running", "awaiting_review", "interrupted", "failed"}

\* The preflight has passed and the files of the requests are written; where
\* that fails, nothing has been submitted.
Init ==
  /\ job = [r \in Requests |-> "none"]
  /\ pc = [r \in Requests |-> "pending"]
  /\ record = [r \in Requests |-> [id |-> FALSE, status |-> "pending"]]
  /\ file = record
  /\ late = {}
  /\ stop = FALSE
  /\ \/ main = "submit" /\ code = 0
     \/ main = "finish" /\ code \in {1, 130}
  /\ results = NoResults
  /\ audit = "running"

-----------------------------------------------------------------------------
(* The thread of a request: collect *)

Alive == main # "killed"

To(r, place) == pc' = [pc EXCEPT ![r] = place]

Becomes(r, status) == record' = [record EXCEPT ![r].status = status]

\* An exception: the status is set and the finally clause comes next.
Fails(r, status) == To(r, "finally") /\ Becomes(r, status)

\* What an HTTP call without a useful answer ends in.
NoAnswer == {"error", "timed_out"}

NothingSubmitted(r) ==
  /\ \/ stop /\ Fails(r, "interrupted")
     \/ ~ stop /\ r \in late /\ Fails(r, "timed_out")
     \/ ~ stop /\ r \notin late /\ \E s \in NoAnswer \cup {"rejected"} : Fails(r, s)
  /\ UNCHANGED job

\* The server has made a job, whether or not its answer (the ID) arrives.
JobSubmitted(r) ==
  /\ ~ stop /\ r \notin late
  /\ job' = [job EXCEPT ![r] = "running"]
  /\ \/ To(r, "save") /\ \E id \in BOOLEAN : record' = [record EXCEPT ![r] = [id |-> id, status |-> "running"]]
     \/ \E s \in NoAnswer : Fails(r, s)

Submit(r) ==
  /\ Alive /\ pc[r] = "start"
  /\ NothingSubmitted(r) \/ JobSubmitted(r)
  /\ UNCHANGED <<file, late, mainVars>>

\* Mutant: a failed write does not keep the thread from polling.
SaveAndPoll(r) ==
  /\ Alive /\ pc[r] = "save"
  /\ file' = [file EXCEPT ![r] = record[r]] \/ UNCHANGED file
  /\ To(r, "poll") /\ UNCHANGED record
  /\ UNCHANGED <<job, late, mainVars>>
\* The ID is written before it is used; without one, uuid.UUID raises.
Save(r) ==
  /\ Alive /\ pc[r] = "save"
  /\ \/ /\ file' = [file EXCEPT ![r] = record[r]]
        /\ IF record[r].id THEN To(r, "poll") /\ UNCHANGED record ELSE Fails(r, "error")
     \/ UNCHANGED file /\ Fails(r, "error")
  /\ UNCHANGED <<job, late, mainVars>>

\* Mutant: nobody looks at the deadline.
PollForever(r) ==
  /\ Alive /\ pc[r] = "poll"
  /\ \/ stop /\ Fails(r, "interrupted")
     \/ ~ stop /\ job[r] = "success" /\ To(r, "report") /\ UNCHANGED record
     \/ ~ stop /\ job[r] = "failure" /\ Fails(r, "failed")
  /\ UNCHANGED <<job, file, late, mainVars>>
\* One pass of the loop.  A job that is still running, in whatever words, is
\* asked for again.
Poll(r) ==
  /\ Alive /\ pc[r] = "poll"
  /\ \/ stop /\ Fails(r, "interrupted")
     \/ r \in late /\ Fails(r, "timed_out")
     \/ ~ stop /\ r \notin late /\ job[r] = "success" /\ To(r, "report") /\ UNCHANGED record
     \/ ~ stop /\ r \notin late /\ job[r] = "failure" /\ Fails(r, "failed")
  /\ UNCHANGED <<job, file, late, mainVars>>

PollGetsNoAnswer(r) ==
  /\ Alive /\ pc[r] = "poll" /\ ~ stop
  /\ \E s \in NoAnswer : Fails(r, s)
  /\ UNCHANGED <<job, file, late, mainVars>>

GetReport(r) ==
  /\ Alive /\ pc[r] = "report"
  /\ \/ r \in late /\ Fails(r, "timed_out")
     \/ r \notin late /\ \E s \in NoAnswer \cup {"completed", "missing_answer"} : Fails(r, s)
  /\ UNCHANGED <<job, file, late, mainVars>>

\* Mutant: a failed write is swallowed.
SaveFinallyQuietly(r) ==
  /\ Alive /\ pc[r] = "finally"
  /\ file' = [file EXCEPT ![r] = record[r]] \/ UNCHANGED file
  /\ To(r, "done")
  /\ UNCHANGED <<job, record, late, mainVars>>
\* The finally clause: a write that fails is what the future raises.
SaveFinally(r) ==
  /\ Alive /\ pc[r] = "finally"
  /\ \/ file' = [file EXCEPT ![r] = record[r]] /\ To(r, "done")
     \/ UNCHANGED file /\ To(r, "raised")
  /\ UNCHANGED <<job, record, late, mainVars>>

-----------------------------------------------------------------------------
(* The main thread: run_batch and main *)

Main(place) == main' = place

\* The requests are submitted to the executor one after the other.
StartThread(r) ==
  /\ main = "submit" /\ pc[r] = "pending"
  /\ \A q \in 1..(r - 1) : pc[q] # "pending"
  /\ To(r, "start")
  /\ Main(IF r = NumRequests THEN "collect" ELSE "submit")
  /\ UNCHANGED <<job, record, file, late, stop, code, results, audit>>

\* as_completed: a future that raised ends the loop.
Collect ==
  /\ main = "collect"
  /\ \/ \E r \in Requests : pc[r] = "raised" /\ Main("join") /\ code' = 1
     \/ (\A r \in Requests : pc[r] = "done") /\ Main("results") /\ UNCHANGED code
  /\ UNCHANGED <<job, threads, late, stop, results, audit>>

\* Mutant: the results do not wait for the threads.
LeavesExecutor == TRUE
\* The executor's exit waits for every thread.
ExecutorDrained == \A r \in Requests : pc[r] \in {"pending", "done", "raised"}

\* An interrupt leads to the results, an exception past them.
Join ==
  /\ main = "join" /\ ExecutorDrained
  /\ Main(IF stop THEN "results" ELSE "finish")
  /\ UNCHANGED <<job, threads, late, stop, code, results, audit>>

Outstanding ==
  {r \in Requests : record[r].id /\ record[r].status \in {"error", "timed_out", "interrupted"}}

\* The code of an interrupted batch is 130 already.
WriteResults ==
  /\ main = "results"
  /\ \/ /\ results' = [outstanding |-> Outstanding, status |-> [r \in Requests |-> record[r].status]]
        /\ code' = IF code = 0 /\ \E r \in Requests : record[r].status # "completed" THEN 1 ELSE code
     \/ code' = 1 /\ UNCHANGED results
  /\ Main("finish")
  /\ UNCHANGED <<job, threads, late, stop, audit>>

\* Mutant: a batch without errors has passed.
FinishPassed ==
  /\ main = "finish"
  /\ audit' = (CASE code = 130 -> "interrupted" [] code = 0 -> "passed" [] OTHER -> "failed")
  /\ Main("ended")
  /\ UNCHANGED <<job, threads, late, stop, code, results>>
\* The exit code decides the status of the audit run.
Finish ==
  /\ main = "finish"
  /\ audit' = (CASE code = 130 -> "interrupted" [] code = 0 -> "awaiting_review" [] OTHER -> "failed")
  /\ Main("ended")
  /\ UNCHANGED <<job, threads, late, stop, code, results>>

-----------------------------------------------------------------------------
(* What happens to the process, and the server *)

\* The first interrupt is caught; a later one, or one outside the try block,
\* leaves run_batch without results and the threads to the interpreter's exit.
Interrupt ==
  /\ \/ main \in {"submit", "collect"} /\ stop' = TRUE /\ Main("join")
     \/ main \in {"join", "results"} /\ Main("finish") /\ UNCHANGED stop
  /\ code' = 130
  /\ UNCHANGED <<job, threads, late, results, audit>>

\* An interrupt of main's own code is caught by nobody.
Killed ==
  /\ Alive /\ ~ (main = "ended" /\ ExecutorDrained)
  /\ Main("killed")
  /\ UNCHANGED <<job, threads, late, stop, code, results, audit>>

JobEnds(r) ==
  /\ job[r] = "running"
  /\ \E s \in {"success", "failure"} : job' = [job EXCEPT ![r] = s]
  /\ UNCHANGED <<threads, late, mainVars>>

\* JOB_TIMEOUT after the thread began.
Expires(r) ==
  /\ Alive /\ pc[r] \in {"start", "save", "poll", "report"} /\ r \notin late
  /\ late' = late \cup {r}
  /\ UNCHANGED <<job, threads, mainVars>>

-----------------------------------------------------------------------------
(* The specification *)

Thread(r) == Submit(r) \/ Save(r) \/ Poll(r) \/ GetReport(r) \/ SaveFinally(r)

Next ==
  \/ \E r \in Requests :
       Thread(r) \/ PollGetsNoAnswer(r) \/ StartThread(r) \/ JobEnds(r) \/ Expires(r)
  \/ Collect \/ Join \/ WriteResults \/ Finish
  \/ Interrupt \/ Killed

Spec == Init /\ [][Next]_vars

\* Threads run, calls end (HTTP_TIMEOUT), clocks advance.  The server owes the
\* client nothing: no job need ever end.
Fairness ==
  /\ \A r \in Requests : WF_vars(Thread(r)) /\ WF_vars(StartThread(r)) /\ WF_vars(Expires(r))
  /\ WF_vars(Collect \/ Join \/ WriteResults \/ Finish)

LiveSpec == Spec /\ Fairness

-----------------------------------------------------------------------------
(* Properties *)

\* Whatever was interrupted, refused, lost or late, who reads results.json
\* finds every job that may still run: its ID is among the outstanding ones,
\* or the request ended without an answer to its submission.  A request that
\* is listed as pending, rejected or interrupted without an ID has no job.
RunningJobsAreAccountedFor ==
  results # NoResults =>
    \A r \in Requests : job[r] = "running" =>
      \/ r \in results.outstanding
      \/ ~ record[r].id /\ results.status[r] \in {"error", "timed_out"}

\* A job that is polled can be found again after any crash: its ID is in the
\* request's file ("Persist the returned ID before any polling or parsing can
\* fail", run.py:130), from where no later write removes it.
PolledJobsAreSaved ==
  [][\A r \in Requests :
       /\ pc'[r] \in {"poll", "report"} => file'[r].id
       /\ file[r].id => file'[r].id]_vars

\* A run that awaits its review is complete: results.json exists, no request
\* is outstanding, and every request's file holds the answer of a job that
\* succeeded.  Neither an interrupt nor a failed write leads there.
ReviewedIsComplete ==
  audit = "awaiting_review" =>
    /\ results # NoResults /\ results.outstanding = {} /\ ~ stop
    /\ \A r \in Requests : file[r] = [id |-> TRUE, status |-> "completed"] /\ job[r] = "success"

\* The process comes to its end, with all its threads, even if the server
\* never finishes a job and writes fail.
Terminates == <>(main = "killed" \/ (main = "ended" /\ ExecutorDrained))

=============================================================================
