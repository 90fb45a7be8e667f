------------------------ MODULE ResearchBatchProofs ------------------------
(***************************************************************************)
(* Proofs about ResearchBatch, for any number of requests.                 *)
(***************************************************************************)
EXTENDS ResearchBatch, TLAPS

\* Where a thread can be.
Place == {"pending", "start", "save", "poll", "report", "finally", "done", "raised"}

\* What the place of a thread says of its record, its file and its job.
ThreadOK(r) ==
  /\ pc[r] \in {"pending", "start"} =>
       job[r] = "none" /\ record[r] = [id |-> FALSE, status |-> "pending"]
  /\ pc[r] \in {"poll", "report"} => record[r].id /\ file[r].id
  /\ pc[r] = "report" => job[r] = "success"
  /\ pc[r] = "done" => file[r] = record[r]
  /\ file[r].id => record[r].id

\* What the status says of the job, once a thread is over.
StatusOK(r) ==
  pc[r] \in {"finally", "done", "raised"} =>
    /\ record[r].status \notin {"pending", "running"}
    /\ record[r].status \in {"completed", "missing_answer"} => record[r].id /\ job[r] = "success"
    /\ record[r].status = "failed" => job[r] = "failure"
    /\ record[r].status = "rejected" => job[r] = "none"
    /\ record[r].status = "interrupted" => record[r].id \/ job[r] = "none"

ThreadInv == \A r \in Requests : ThreadOK(r) /\ StatusOK(r)

AllDone == \A r \in Requests : pc[r] = "done"

\* Exit status 0 stands for a batch that was neither interrupted nor lacks
\* an answer.
Complete ==
  /\ results # NoResults /\ ~ stop /\ AllDone
  /\ \A r \in Requests : record[r].status = "completed"

\* Where the main thread is says what it has collected.
MainInv ==
  /\ main \in {"submit", "collect"} => code = 0 /\ ~ stop
  /\ main = "join" => code # 0
  /\ main = "results" => ExecutorDrained /\ (code = 0 => ~ stop /\ AllDone)
  /\ main = "finish" /\ code = 0 => Complete
  /\ main \in {"submit", "collect", "join", "results"} => results = NoResults
  /\ audit = "awaiting_review" => main \in {"ended", "killed"} /\ Complete

\* Results are written once no thread works, and records stay as they are.
ResultsInv ==
  results # NoResults =>
    /\ ExecutorDrained
    /\ main \notin {"submit", "collect", "join", "results"}
    /\ results = [outstanding |-> Outstanding, status |-> [r \in Requests |-> record[r].status]]

\* The inductive invariant.
IInv ==
  /\ TypeOK
  /\ ThreadInv
  /\ MainInv
  /\ ResultsInv

-----------------------------------------------------------------------------
(* Initial states *)

LEMMA InitInv == Init => IInv
<1> SUFFICES ASSUME Init PROVE IInv
  OBVIOUS
<1>1. TypeOK
  BY DEF Init, TypeOK, Status
<1>2. ThreadInv
  BY DEF Init, ThreadInv, ThreadOK, StatusOK
<1>3. MainInv /\ ResultsInv
  BY DEF Init, MainInv, ResultsInv
<1> QED
  BY <1>1, <1>2, <1>3 DEF IInv

-----------------------------------------------------------------------------
(* The threads *)

\* A thread that works keeps the main thread before the results, or past them
\* without any.
LEMMA WorkingMeansNoResults ==
  ASSUME IInv, NEW r \in Requests, pc[r] \notin {"pending", "done", "raised"}
  PROVE  results = NoResults /\ main # "results" /\ ~ Complete
BY DEF IInv, MainInv, ResultsInv, ExecutorDrained, Complete, AllDone

\* So it does not matter to the main thread's invariants what it does.
LEMMA ThreadLeavesMain ==
  ASSUME IInv, NEW r \in Requests, pc[r] \notin {"pending", "done", "raised"}, UNCHANGED mainVars
  PROVE  MainInv' /\ ResultsInv'
<1>1. results = NoResults /\ main # "results" /\ ~ Complete
  BY WorkingMeansNoResults
<1>2. MainInv'
  BY <1>1 DEF IInv, MainInv, mainVars
<1>3. ResultsInv'
  BY <1>1 DEF ResultsInv, mainVars, NoResults
<1> QED
  BY <1>2, <1>3

\* A thread concerns its own request only.
LEMMA OwnRequestOnly ==
  ASSUME ThreadInv, NEW r \in Requests, ThreadOK(r)', StatusOK(r)',
         \A q \in Requests \ {r} : /\ pc'[q] = pc[q] /\ record'[q] = record[q]
                                   /\ file'[q] = file[q] /\ job'[q] = job[q]
  PROVE  ThreadInv'
BY DEF ThreadInv, ThreadOK, StatusOK

LEMMA ThreadMoves ==
  ASSUME TypeOK, NEW r \in Requests, NEW place, To(r, place)
  PROVE  /\ pc'[r] = place /\ \A q \in Requests \ {r} : pc'[q] = pc[q]
         /\ place \in Place => pc' \in [Requests -> Place]
BY DEF To, TypeOK, Place

LEMMA RecordBecomes ==
  ASSUME TypeOK, NEW r \in Requests, NEW s \in Status, Becomes(r, s)
  PROVE  /\ record' \in [Requests -> [id : BOOLEAN, status : Status]]
         /\ record'[r] = [id |-> record[r].id, status |-> s]
         /\ \A q \in Requests \ {r} : record'[q] = record[q]
BY DEF Becomes, TypeOK

\* A thread that fails is over, with a status that says why.
LEMMA FailsKeeps ==
  ASSUME IInv, NEW r \in Requests, NEW s \in Status \ {"pending", "running"}, Fails(r, s),
         UNCHANGED <<file, late, mainVars>>,
         job' \in [Requests -> {"none", "running", "success", "failure"}],
         \A q \in Requests \ {r} : job'[q] = job[q],
         s \in {"completed", "missing_answer"} => record[r].id /\ job'[r] = "success",
         s = "failed" => job'[r] = "failure",
         s = "rejected" => job'[r] = "none",
         s = "interrupted" => record[r].id \/ job'[r] = "none"
  PROVE  TypeOK' /\ ThreadInv'
<1> USE DEF IInv
<1>1. /\ pc' \in [Requests -> Place]
      /\ pc'[r] = "finally"
      /\ \A q \in Requests \ {r} : pc'[q] = pc[q]
  BY ThreadMoves DEF Fails, Place
<1>2. /\ record' \in [Requests -> [id : BOOLEAN, status : Status]]
      /\ record'[r] = [id |-> record[r].id, status |-> s]
      /\ \A q \in Requests \ {r} : record'[q] = record[q]
  BY RecordBecomes DEF Fails
<1>3. TypeOK'
  BY <1>1, <1>2 DEF TypeOK, Place, mainVars
<1>4. ThreadOK(r)' /\ StatusOK(r)'
  BY <1>1, <1>2 DEF ThreadInv, ThreadOK, StatusOK
<1> QED
  BY <1>1, <1>2, <1>3, <1>4, OwnRequestOnly

LEMMA SubmitKeeps ==
  ASSUME IInv, NEW r \in Requests, Submit(r)
  PROVE  IInv'
<1> USE DEF IInv
<1>1. /\ job[r] = "none" /\ record[r] = [id |-> FALSE, status |-> "pending"] /\ ~ file[r].id
  BY DEF Submit, ThreadInv, ThreadOK
<1>2. ASSUME NEW s \in NoAnswer \cup {"rejected", "interrupted"}, Fails(r, s), UNCHANGED job
      PROVE  TypeOK' /\ ThreadInv'
  BY <1>1, <1>2, FailsKeeps DEF Submit, TypeOK, NoAnswer, Status
<1>3. ASSUME job' = [job EXCEPT ![r] = "running"], NEW s \in NoAnswer, Fails(r, s)
      PROVE  TypeOK' /\ ThreadInv'
  BY <1>3, FailsKeeps DEF Submit, TypeOK, NoAnswer, Status
<1>4. ASSUME job' = [job EXCEPT ![r] = "running"], To(r, "save"), NEW id \in BOOLEAN,
             record' = [record EXCEPT ![r] = [id |-> id, status |-> "running"]]
      PROVE  TypeOK' /\ ThreadInv'
  <2>1. /\ pc' \in [Requests -> Place]
        /\ pc'[r] = "save"
        /\ \A q \in Requests \ {r} : pc'[q] = pc[q]
    BY <1>4, ThreadMoves DEF Place
  <2>2. TypeOK'
    BY <1>4, <2>1 DEF Submit, TypeOK, Place, mainVars, Status
  <2>3. ThreadOK(r)' /\ StatusOK(r)'
    BY <1>1, <1>4, <2>1 DEF Submit, ThreadOK, StatusOK
  <2> QED
    BY <1>4, <2>1, <2>2, <2>3, OwnRequestOnly DEF Submit, TypeOK
<1>5. TypeOK' /\ ThreadInv'
  BY <1>2, <1>3, <1>4 DEF Submit, NothingSubmitted, JobSubmitted, NoAnswer
<1> QED
  BY <1>5, ThreadLeavesMain DEF Submit

LEMMA SaveKeeps ==
  ASSUME IInv, NEW r \in Requests, Save(r)
  PROVE  IInv'
<1> USE DEF IInv
<1>1. ASSUME file' = [file EXCEPT ![r] = record[r]], record[r].id, To(r, "poll"), UNCHANGED record
      PROVE  TypeOK' /\ ThreadInv'
  <2>1. /\ pc' \in [Requests -> Place]
        /\ pc'[r] = "poll"
        /\ \A q \in Requests \ {r} : pc'[q] = pc[q]
    BY <1>1, ThreadMoves DEF Place
  <2>2. TypeOK'
    BY <1>1, <2>1 DEF Save, TypeOK, Place, mainVars
  <2>3. ThreadOK(r)' /\ StatusOK(r)'
    BY <1>1, <2>1 DEF Save, ThreadOK, StatusOK, TypeOK
  <2> QED
    BY <1>1, <2>1, <2>2, <2>3, OwnRequestOnly DEF Save, TypeOK
<1>2. ASSUME file' = [file EXCEPT ![r] = record[r]], Fails(r, "error")
      PROVE  TypeOK' /\ ThreadInv'
  <2>1. /\ pc' \in [Requests -> Place]
        /\ pc'[r] = "finally"
        /\ \A q \in Requests \ {r} : pc'[q] = pc[q]
    BY <1>2, ThreadMoves DEF Fails, Place
  <2>2. /\ record' \in [Requests -> [id : BOOLEAN, status : Status]]
        /\ record'[r] = [id |-> record[r].id, status |-> "error"]
        /\ \A q \in Requests \ {r} : record'[q] = record[q]
    BY <1>2, RecordBecomes DEF Fails, Status
  <2>3. TypeOK'
    BY <1>2, <2>1, <2>2 DEF Save, TypeOK, Place, mainVars
  <2>4. ThreadOK(r)' /\ StatusOK(r)'
    BY <1>2, <2>1, <2>2 DEF Save, ThreadOK, StatusOK, TypeOK
  <2> QED
    BY <1>2, <2>1, <2>2, <2>3, <2>4, OwnRequestOnly DEF Save, TypeOK
<1>3. ASSUME UNCHANGED file, Fails(r, "error")
      PROVE  TypeOK' /\ ThreadInv'
  BY <1>3, FailsKeeps DEF Save, TypeOK, Status
<1>4. TypeOK' /\ ThreadInv'
  BY <1>1, <1>2, <1>3 DEF Save
<1> QED
  BY <1>4, ThreadLeavesMain DEF Save

LEMMA PollKeeps ==
  ASSUME IInv, NEW r \in Requests, Poll(r)
  PROVE  IInv'
<1> USE DEF IInv
<1>1. record[r].id /\ file[r].id
  BY DEF Poll, ThreadInv, ThreadOK
<1>2. ASSUME job[r] = "success", To(r, "report"), UNCHANGED record
      PROVE  TypeOK' /\ ThreadInv'
  <2>1. /\ pc' \in [Requests -> Place]
        /\ pc'[r] = "report"
        /\ \A q \in Requests \ {r} : pc'[q] = pc[q]
    BY <1>2, ThreadMoves DEF Place
  <2>2. TypeOK'
    BY <1>2, <2>1 DEF Poll, TypeOK, Place, mainVars
  <2>3. ThreadOK(r)' /\ StatusOK(r)'
    BY <1>1, <1>2, <2>1 DEF Poll, ThreadOK, StatusOK
  <2> QED
    BY <1>2, <2>1, <2>2, <2>3, OwnRequestOnly DEF Poll
<1>3. ASSUME NEW s \in {"interrupted", "timed_out", "failed"}, Fails(r, s), s = "failed" => job[r] = "failure"
      PROVE  TypeOK' /\ ThreadInv'
  BY <1>1, <1>3, FailsKeeps DEF Poll, TypeOK, Status
<1>4. TypeOK' /\ ThreadInv'
  BY <1>2, <1>3 DEF Poll
<1> QED
  BY <1>4, ThreadLeavesMain DEF Poll

LEMMA PollGetsNoAnswerKeeps ==
  ASSUME IInv, NEW r \in Requests, PollGetsNoAnswer(r)
  PROVE  IInv'
<1>1. TypeOK' /\ ThreadInv'
  BY FailsKeeps DEF PollGetsNoAnswer, NoAnswer, IInv, TypeOK, Status
<1> QED
  BY <1>1, ThreadLeavesMain DEF PollGetsNoAnswer, IInv

LEMMA GetReportKeeps ==
  ASSUME IInv, NEW r \in Requests, GetReport(r)
  PROVE  IInv'
<1>1. record[r].id /\ job[r] = "success"
  BY DEF GetReport, IInv, ThreadInv, ThreadOK
<1>2. TypeOK' /\ ThreadInv'
  BY <1>1, FailsKeeps DEF GetReport, NoAnswer, IInv, TypeOK, Status
<1> QED
  BY <1>2, ThreadLeavesMain DEF GetReport, IInv

LEMMA SaveFinallyKeeps ==
  ASSUME IInv, NEW r \in Requests, SaveFinally(r)
  PROVE  IInv'
<1> USE DEF IInv
<1>1. /\ pc' \in [Requests -> Place]
      /\ pc'[r] \in {"done", "raised"}
      /\ \A q \in Requests \ {r} : pc'[q] = pc[q]
  BY ThreadMoves DEF SaveFinally, Place
<1>2. TypeOK'
  BY <1>1 DEF SaveFinally, TypeOK, Place, mainVars
<1>3. pc'[r] = "done" => file' = [file EXCEPT ![r] = record[r]]
  BY ThreadMoves DEF SaveFinally
<1>4. file' \in {file, [file EXCEPT ![r] = record[r]]}
  BY DEF SaveFinally
<1>5. ThreadOK(r)' /\ StatusOK(r)'
  BY <1>1, <1>3, <1>4 DEF SaveFinally, ThreadInv, ThreadOK, StatusOK, TypeOK
<1>6. ThreadInv'
  BY <1>1, <1>4, <1>5, OwnRequestOnly DEF SaveFinally, TypeOK
<1> QED
  BY <1>2, <1>6, ThreadLeavesMain DEF SaveFinally

-----------------------------------------------------------------------------
(* The main thread *)

LEMMA StartThreadKeeps ==
  ASSUME IInv, NEW r \in Requests, StartThread(r)
  PROVE  IInv'
<1> USE DEF IInv
<1>1. /\ pc' \in [Requests -> Place]
      /\ pc'[r] = "start"
      /\ \A q \in Requests \ {r} : pc'[q] = pc[q]
  BY ThreadMoves DEF StartThread, Place
<1>2. TypeOK'
  BY <1>1 DEF StartThread, Main, TypeOK, Place
<1>3. ThreadOK(r)' /\ StatusOK(r)'
  BY <1>1 DEF StartThread, ThreadInv, ThreadOK, StatusOK
<1>4. ThreadInv'
  BY <1>1, <1>3, OwnRequestOnly DEF StartThread
<1>5. MainInv'
  BY DEF StartThread, Main, MainInv
<1>6. ResultsInv'
  BY DEF StartThread, Main, MainInv, ResultsInv, NoResults
<1> QED
  BY <1>2, <1>4, <1>5, <1>6

\* What the main thread does leaves the requests alone.
LEMMA MainLeavesThreads ==
  ASSUME IInv, UNCHANGED <<job, threads>>
  PROVE  ThreadInv' /\ ExecutorDrained' = ExecutorDrained /\ AllDone' = AllDone /\ Outstanding' = Outstanding
BY DEF IInv, threads, ThreadInv, ThreadOK, StatusOK, ExecutorDrained, AllDone, Outstanding

\* A result is something, as there is a request.
LEMMA ResultsAreSome ==
  ASSUME NEW O, NEW S, [outstanding |-> O, status |-> [r \in Requests |-> S[r]]] = NoResults
  PROVE  FALSE
<1>1. 1 \in Requests
  BY ResearchBatchAssumption DEF Requests
<1>2. [r \in Requests |-> S[r]] = <<>>
  BY DEF NoResults
<1>3. DOMAIN [r \in Requests |-> S[r]] = Requests
  OBVIOUS
<1>4. Requests = {}
  BY <1>2, <1>3
<1> QED
  BY <1>1, <1>4

LEMMA CollectKeeps ==
  ASSUME IInv, Collect
  PROVE  IInv'
<1> USE DEF IInv
<1>1. TypeOK'
  BY DEF Collect, Main, threads, TypeOK
<1>2. ThreadInv'
  BY MainLeavesThreads DEF Collect
<1>3. MainInv'
  BY MainLeavesThreads DEF Collect, Main, MainInv, ExecutorDrained, AllDone
<1>4. ResultsInv'
  BY DEF Collect, MainInv, ResultsInv, NoResults
<1> QED
  BY <1>1, <1>2, <1>3, <1>4

LEMMA JoinKeeps ==
  ASSUME IInv, Join
  PROVE  IInv'
<1> USE DEF IInv
<1>1. TypeOK'
  BY DEF Join, Main, threads, TypeOK
<1>2. ThreadInv'
  BY MainLeavesThreads DEF Join
<1>3. MainInv'
  BY MainLeavesThreads DEF Join, Main, MainInv
<1>4. ResultsInv'
  BY DEF Join, MainInv, ResultsInv, NoResults
<1> QED
  BY <1>1, <1>2, <1>3, <1>4

LEMMA WriteResultsKeeps ==
  ASSUME IInv, WriteResults
  PROVE  IInv'
<1> USE DEF IInv
<1> DEFINE Summary == [outstanding |-> Outstanding, status |-> [r \in Requests |-> record[r].status]]
<1>1. Summary \in [outstanding : SUBSET Requests, status : [Requests -> Status]]
  BY DEF Outstanding, TypeOK
<1>2. TypeOK'
  BY <1>1 DEF WriteResults, Main, threads, TypeOK
<1>3. ThreadInv'
  BY MainLeavesThreads DEF WriteResults
<1>4. results' \in {Summary, NoResults}
  BY DEF WriteResults, MainInv
<1>5. ASSUME code' = 0
      PROVE  Complete'
  <2>1. /\ results' = Summary /\ code = 0
        /\ \A r \in Requests : record[r].status = "completed"
    BY <1>5 DEF WriteResults
  <2>2. results' # NoResults
    <3> DEFINE S == [r \in Requests |-> record[r].status]
    <3>1. Summary = [outstanding |-> Outstanding, status |-> [r \in Requests |-> S[r]]]
      OBVIOUS
    <3> HIDE DEF S, Summary
    <3> QED
      BY <2>1, <3>1, ResultsAreSome
  <2>3. ~ stop' /\ AllDone'
    BY <2>1, MainLeavesThreads DEF WriteResults, MainInv
  <2> QED
    BY <2>1, <2>2, <2>3 DEF WriteResults, threads, Complete, NoResults
<1>6. MainInv'
  BY <1>5 DEF WriteResults, Main, MainInv
<1>7. ResultsInv'
  BY <1>4, MainLeavesThreads DEF WriteResults, Main, MainInv, ResultsInv, NoResults, threads
<1> QED
  BY <1>2, <1>3, <1>6, <1>7

LEMMA FinishKeeps ==
  ASSUME IInv, Finish
  PROVE  IInv'
<1> USE DEF IInv
<1>1. TypeOK'
  BY DEF Finish, Main, threads, TypeOK
<1>2. ThreadInv'
  BY MainLeavesThreads DEF Finish
<1>3. Complete' = Complete
  BY MainLeavesThreads DEF Finish, threads, Complete, NoResults
<1>4. MainInv'
  BY <1>3 DEF Finish, Main, MainInv, TypeOK
<1>5. ResultsInv'
  BY MainLeavesThreads DEF Finish, Main, ResultsInv, NoResults, threads
<1> QED
  BY <1>1, <1>2, <1>4, <1>5

-----------------------------------------------------------------------------
(* The process and the server *)

LEMMA InterruptKeeps ==
  ASSUME IInv, Interrupt
  PROVE  IInv'
<1> USE DEF IInv
<1>1. TypeOK'
  BY DEF Interrupt, Main, threads, TypeOK
<1>2. ThreadInv'
  BY MainLeavesThreads DEF Interrupt
<1>3. MainInv'
  BY DEF Interrupt, Main, MainInv
<1>4. ResultsInv'
  BY DEF Interrupt, MainInv, ResultsInv, NoResults
<1> QED
  BY <1>1, <1>2, <1>3, <1>4

LEMMA KilledKeeps ==
  ASSUME IInv, Killed
  PROVE  IInv'
<1> USE DEF IInv
<1>1. TypeOK'
  BY DEF Killed, Main, threads, TypeOK
<1>2. ThreadInv'
  BY MainLeavesThreads DEF Killed
<1>3. Complete' = Complete
  BY MainLeavesThreads DEF Killed, threads, Complete, NoResults
<1>4. MainInv'
  BY <1>3 DEF Killed, Main, MainInv
<1>5. ResultsInv'
  BY MainLeavesThreads DEF Killed, Main, ResultsInv, NoResults, threads
<1> QED
  BY <1>1, <1>2, <1>4, <1>5

\* No job ends that a thread has seen the end of.
LEMMA JobEndsKeeps ==
  ASSUME IInv, NEW r \in Requests, JobEnds(r)
  PROVE  IInv'
<1> USE DEF IInv
<1>1. TypeOK'
  BY DEF JobEnds, threads, mainVars, TypeOK
<1>2. job[r] = "running" /\ \A q \in Requests \ {r} : job'[q] = job[q]
  BY DEF JobEnds, TypeOK
<1>3. ThreadOK(r)' /\ StatusOK(r)'
  BY <1>2 DEF JobEnds, threads, ThreadInv, ThreadOK, StatusOK
<1>4. ThreadInv'
  BY <1>2, <1>3, OwnRequestOnly DEF JobEnds, threads
<1>5. MainInv' /\ ResultsInv'
  BY DEF JobEnds, threads, mainVars, MainInv, ResultsInv, Complete, AllDone, ExecutorDrained, Outstanding, NoResults
<1> QED
  BY <1>1, <1>4, <1>5

LEMMA ExpiresKeeps ==
  ASSUME IInv, NEW r \in Requests, Expires(r)
  PROVE  IInv'
<1> USE DEF IInv
<1>1. TypeOK'
  BY DEF Expires, threads, mainVars, TypeOK
<1>2. ThreadInv'
  BY MainLeavesThreads DEF Expires
<1>3. MainInv' /\ ResultsInv'
  BY DEF Expires, threads, mainVars, MainInv, ResultsInv, Complete, AllDone, ExecutorDrained, Outstanding, NoResults
<1> QED
  BY <1>1, <1>2, <1>3

LEMMA StutterKeeps ==
  ASSUME IInv, UNCHANGED vars
  PROVE  IInv'
<1> USE DEF IInv
<1>1. TypeOK'
  BY DEF vars, threads, mainVars, TypeOK
<1>2. ThreadInv'
  BY MainLeavesThreads DEF vars
<1>3. MainInv' /\ ResultsInv'
  BY DEF vars, threads, mainVars, MainInv, ResultsInv, Complete, AllDone, ExecutorDrained, Outstanding, NoResults
<1> QED
  BY <1>1, <1>2, <1>3

-----------------------------------------------------------------------------
(* Theorems *)

LEMMA NextKeeps == IInv /\ [Next]_vars => IInv'
<1> SUFFICES ASSUME IInv, [Next]_vars PROVE IInv'
  OBVIOUS
<1>1. ASSUME NEW r \in Requests, Thread(r)
      PROVE  IInv'
  BY <1>1, SubmitKeeps, SaveKeeps, PollKeeps, GetReportKeeps, SaveFinallyKeeps DEF Thread
<1>2. ASSUME NEW r \in Requests, PollGetsNoAnswer(r) \/ StartThread(r) \/ JobEnds(r) \/ Expires(r)
      PROVE  IInv'
  BY <1>2, PollGetsNoAnswerKeeps, StartThreadKeeps, JobEndsKeeps, ExpiresKeeps
<1>3. CASE Collect \/ Join \/ WriteResults \/ Finish
  BY <1>3, CollectKeeps, JoinKeeps, WriteResultsKeeps, FinishKeeps
<1>4. CASE Interrupt \/ Killed
  BY <1>4, InterruptKeeps, KilledKeeps
<1>5. CASE UNCHANGED vars
  BY <1>5, StutterKeeps
<1> QED
  BY <1>1, <1>2, <1>3, <1>4, <1>5 DEF Next

\* The inductive invariant holds in every reachable state of run_batch and main.
THEOREM Invariant == Spec => []IInv
  BY InitInv, NextKeeps, PTL DEF Spec

\* The variables of a batch have their types, for any number of requests.
THEOREM TypeCorrect == Spec => []TypeOK
<1>1. IInv => TypeOK
  BY DEF IInv
<1> QED
  BY <1>1, Invariant, PTL

\* results.json accounts for every job that may still run (run.py, Outstanding).
THEOREM RunningIsAccountedFor == Spec => []RunningJobsAreAccountedFor
<1>1. IInv => RunningJobsAreAccountedFor
  <2> SUFFICES ASSUME IInv, results # NoResults, NEW r \in Requests, job[r] = "running"
               PROVE  \/ r \in results.outstanding
                      \/ ~ record[r].id /\ results.status[r] \in {"error", "timed_out"}
    BY DEF RunningJobsAreAccountedFor
  <2>1. /\ pc[r] \in {"pending", "done", "raised"}
        /\ results.outstanding = Outstanding /\ results.status[r] = record[r].status
    BY DEF IInv, ResultsInv, ExecutorDrained
  <2>2. record[r].status \in {"error", "timed_out"} \/ (record[r].status = "interrupted" /\ record[r].id)
    BY <2>1 DEF IInv, ThreadInv, ThreadOK, StatusOK, TypeOK, Status
  <2> QED
    BY <2>1, <2>2 DEF Outstanding, IInv, TypeOK
<1> QED
  BY <1>1, Invariant, PTL

\* Only a batch whose every request was answered and saved comes to a review.
THEOREM ReviewIsOfCompleteBatch == Spec => []ReviewedIsComplete
<1>1. IInv => ReviewedIsComplete
  <2> SUFFICES ASSUME IInv, audit = "awaiting_review"
               PROVE  /\ results # NoResults /\ results.outstanding = {} /\ ~ stop
                      /\ \A r \in Requests : file[r] = [id |-> TRUE, status |-> "completed"] /\ job[r] = "success"
    BY DEF ReviewedIsComplete
  <2>1. Complete
    BY DEF IInv, MainInv
  <2>2. results.outstanding = {}
    BY <2>1 DEF Complete, IInv, ResultsInv, Outstanding
  <2>3. ASSUME NEW r \in Requests
        PROVE  file[r] = [id |-> TRUE, status |-> "completed"] /\ job[r] = "success"
    BY <2>1 DEF Complete, AllDone, IInv, ThreadInv, ThreadOK, StatusOK, TypeOK
  <2> QED
    BY <2>1, <2>2, <2>3 DEF Complete
<1> QED
  BY <1>1, Invariant, PTL

\* The ID of a job that is polled is on disk, and stays there.
THEOREM PolledIsSaved == Spec => PolledJobsAreSaved
<1>1. ASSUME IInv, IInv', [Next]_vars, NEW r \in Requests
      PROVE  (pc'[r] \in {"poll", "report"} => file'[r].id) /\ (file[r].id => file'[r].id)
  <2>1. pc'[r] \in {"poll", "report"} => file'[r].id
    BY <1>1 DEF IInv, ThreadInv, ThreadOK
  <2>2. file'[r] = file[r] \/ file'[r] = record[r]
    BY <1>1 DEF Next, vars, threads, Thread, Submit, Save, Poll, PollGetsNoAnswer, GetReport, SaveFinally,
                StartThread, JobEnds, Expires, Collect, Join, WriteResults, Finish, Interrupt, Killed, IInv, TypeOK
  <2>3. file[r].id => record[r].id
    BY <1>1 DEF IInv, ThreadInv, ThreadOK
  <2> QED
    BY <2>1, <2>2, <2>3
<1>2. IInv /\ IInv' /\ [Next]_vars =>
        [\A r \in Requests :
           /\ pc'[r] \in {"poll", "report"} => file'[r].id
           /\ file[r].id => file'[r].id]_vars
  BY <1>1
<1> QED
  BY <1>2, Invariant, PTL DEF Spec, PolledJobsAreSaved

=============================================================================
