-------------------- MODULE SubmissionPipelineRulesProofs --------------------
(***************************************************************************)
(* The rules of SubmissionPipeline that hold unless one of the races the   *)
(* code leaves open has happened: what the PDF shows, what a submission    *)
(* history keeps, and which submission a verdict of Overseer is about; for *)
(* any number of uploads, crashes and staff actions.                       *)
(*                                                                         *)
(* The marker file, the folders, the status of the assessment and the      *)
(* unique jobs each keep the next submission away for a part of the way.   *)
(* What makes the rules true is that together they leave no gap, but for   *)
(* the races: files move only while no job needs them where they are.      *)
(***************************************************************************)
EXTENDS SubmissionPipelineProofs

----------------------------------------------------------------------------
(* The jobs, as sets: of the queue and the worker, the order matters for    *)
(* nothing that follows.                                                    *)

Line == {queue[i] : i \in 1 .. Len(queue)}

InLine(kind) == \E job \in Line : job.kind = kind
Around(kind) == InLine(kind) \/ running.kind = kind

\* The jobs of a kind, those that wait for their retry included.
Jobs(kind) == {job \in Line \union {running} \union retries : job.kind = kind}

LEMMA LineType ==
    ASSUME TypeOK
    PROVE  Line \subseteq Job /\ NoJob.kind = "none"
BY DEF TypeOK, Line, NoJob

LEMMA Seen ==
    ASSUME TypeOK
    PROVE  /\ Queued(Digest(SubmissionJob)) <=> InLine("submission")
           /\ Executing(Digest(SubmissionJob)) <=> running.kind = "submission"
           /\ Present(Digest(SubmissionJob)) <=> Around("submission")
           /\ Present(<<"history", 0>>) <=> Around("history")
           /\ \A i \in Nat : \A job \in Line \union {running} :
                  job.kind = "overseer" /\ job.n = i => Present(Digest(OverseerJob(i)))
           /\ \A i \in Nat : \A job \in retries :
                  job.kind = "overseer" /\ job.n = i => Waiting(Digest(OverseerJob(i)))
<1>1. /\ \A job \in Job : job.kind \in {"submission", "history", "overseer"}
      /\ NoJob.kind = "none" /\ Digest(NoJob)[1] = "none" /\ running \in Job \union {NoJob}
      /\ retries \subseteq Job
  <2>1. \A job \in Job : job.kind \in {"submission", "history", "overseer"}
    BY DEF Job
  <2>2. NoJob.kind = "none" /\ Digest(NoJob)[1] = "none"
    BY DEF NoJob, Digest
  <2> QED
    BY <2>1, <2>2 DEF TypeOK
<1>2. \A job \in Job :
          /\ Digest(job) = <<"submission", 0>> <=> job.kind = "submission"
          /\ Digest(job) = <<"history", 0>> <=> job.kind = "history"
          /\ job.kind = "overseer" => Digest(job) = <<"overseer", job.n>>
  BY <1>1 DEF Digest
<1>3. /\ Digest(SubmissionJob) = <<"submission", 0>>
      /\ \A i \in Nat : Digest(OverseerJob(i)) = <<"overseer", i>>
  BY DEF Digest, SubmissionJob, OverseerJob
<1>4. \A d : Queued(d) <=> \E job \in Line : Digest(job) = d
  BY DEF Queued, Line
<1>5. \A job \in Line : job \in Job
  BY LineType
<1>6. /\ Queued(<<"submission", 0>>) <=> InLine("submission")
      /\ Queued(<<"history", 0>>) <=> InLine("history")
  BY <1>2, <1>4, <1>5 DEF InLine
<1>7. /\ Executing(<<"submission", 0>>) <=> running.kind = "submission"
      /\ Executing(<<"history", 0>>) <=> running.kind = "history"
  BY <1>1, <1>2 DEF Executing
<1>8. ASSUME NEW job \in Line \union {running}, job.kind = "overseer"
      PROVE  Present(<<"overseer", job.n>>)
  <2>1. CASE job \in Line
    BY <1>2, <1>4, <1>5, <1>8, <2>1 DEF Present
  <2>2. CASE job = running
    BY <1>1, <1>2, <1>8, <2>2 DEF Present, Executing
  <2> QED
    BY <2>1, <2>2
<1>9. ASSUME NEW job \in retries, job.kind = "overseer"
      PROVE  Waiting(<<"overseer", job.n>>)
  BY <1>1, <1>2, <1>9 DEF Waiting
<1> QED
  BY <1>3, <1>6, <1>7, <1>8, <1>9 DEF Present, Around

\* What the steps make of the line.
LEMMA LineStays == ASSUME UNCHANGED queue PROVE Line' = Line
BY DEF Line

LEMMA LineGrows ==
    ASSUME TypeOK, NEW job \in Job, queue' = Append(queue, job)
    PROVE  Line' = Line \union {job}
<1>1. /\ queue \in Seq(Job) /\ Len(queue) \in Nat /\ Len(queue') = Len(queue) + 1
      /\ \A i \in 1 .. Len(queue) : queue'[i] = queue[i]
      /\ queue'[Len(queue) + 1] = job
  BY AppendProperties DEF TypeOK
<1>2. \A i \in 1 .. Len(queue') : i \in 1 .. Len(queue) \/ i = Len(queue) + 1
  BY <1>1
<1>3. \A i \in 1 .. Len(queue) + 1 : i \in 1 .. Len(queue')
  BY <1>1
<1> QED
  BY <1>1, <1>2, <1>3 DEF Line

LEMMA LineEnqueues ==
    ASSUME TypeOK, NEW job \in Job, Enqueue(job)
    PROVE  (Line' = Line \/ Line' = Line \union {job}) /\ retries' = retries
BY LineStays, LineGrows DEF Enqueue, redisVars

LEMMA LineFetches ==
    ASSUME TypeOK, Fetch
    PROVE  /\ running' \in Line /\ Line = Line' \union {running'}
           /\ running = NoJob /\ pc' = FirstStep[running'.kind]
<1>1. /\ queue \in Seq(Job) /\ queue # <<>> /\ running = NoJob
      /\ running' = Head(queue) /\ queue' = Tail(queue)
      /\ pc' = FirstStep[running'.kind]
  BY DEF TypeOK, Fetch
<1>2. /\ Len(queue) \in Nat /\ Len(queue) > 0 /\ Head(queue) = queue[1]
      /\ Len(queue') = Len(queue) - 1
      /\ \A i \in 1 .. Len(queue') : queue'[i] = queue[i + 1]
  BY <1>1, HeadTailProperties
<1>3. \A i \in 1 .. Len(queue') : i + 1 \in 1 .. Len(queue)
  BY <1>2
<1>4. \A i \in 1 .. Len(queue) : i = 1 \/ (i - 1 \in 1 .. Len(queue') /\ (i - 1) + 1 = i)
  BY <1>2
<1>5. 1 \in 1 .. Len(queue)
  BY <1>2
<1>6. Line \subseteq Line' \union {running'}
  <2>1. ASSUME NEW i \in 1 .. Len(queue) PROVE queue[i] \in Line' \union {running'}
    <3>1. CASE i = 1
      BY <1>1, <1>2, <3>1
    <3>2. CASE i # 1
      <4>1. i - 1 \in 1 .. Len(queue') /\ queue'[i - 1] = queue[i]
        BY <1>2, <1>4, <3>2
      <4> QED
        BY <4>1 DEF Line
    <3> QED
      BY <3>1, <3>2
  <2> QED
    BY <2>1 DEF Line
<1>7. Line' \subseteq Line /\ running' \in Line
  BY <1>1, <1>2, <1>3, <1>5 DEF Line
<1> QED
  BY <1>1, <1>6, <1>7

LEMMA LineShutdown ==
    ASSUME TypeOK, Shutdown
    PROVE  Line' = Line \union {running} /\ running' = NoJob /\ pc' = "idle"
<1>1. /\ queue \in Seq(Job) /\ running \in Job
      /\ queue' = <<running>> \o queue /\ running' = NoJob /\ pc' = "idle"
  BY DEF TypeOK, Shutdown
<1>2. /\ Len(queue) \in Nat /\ Len(queue') = 1 + Len(queue)
      /\ queue'[1] = running
      /\ \A i \in 2 .. Len(queue') : queue'[i] = queue[i - 1]
  BY <1>1
<1>3. \A i \in 1 .. Len(queue') :
         \/ i = 1 /\ queue'[i] = running
         \/ i - 1 \in 1 .. Len(queue) /\ queue'[i] = queue[i - 1]
  BY <1>2
<1>4. \A i \in 1 .. Len(queue) :
         i + 1 \in 1 .. Len(queue') /\ queue'[i + 1] = queue[i]
  BY <1>2
<1>5. 1 \in 1 .. Len(queue')
  BY <1>2
<1>6. Line' \subseteq Line \union {running}
  BY <1>3 DEF Line
<1>7. Line \subseteq Line' /\ running \in Line'
  BY <1>2, <1>4, <1>5 DEF Line
<1> QED
  BY <1>1, <1>6, <1>7

LEMMA RacedGrows == [Next]_vars => raced \subseteq raced'
<1> SUFFICES ASSUME [Next]_vars PROVE raced \subseteq raced'
  OBVIOUS
<1>1. CASE AcceptBegin \/ Request \/ Staff \/ Fault
  BY <1>1 DEF AcceptBegin, Request, AcceptFinish, AcceptAborted, Staff, Reprocess, Retrigger,
              TutorAssess, Fault, Kill, Shutdown, RakeKilled
<1>2. CASE Worker
  BY <1>2 DEF Worker, Fetch, Finish, CompressNew, MoveFilesRejected, MoveFilesRaises,
              ExtractDone, MakePdf, MakePdfFails, MarkPending, EnqueueHistory,
              SubmissionJobRaises, Archive,
              HistoryJobRaises, CreateAssessment, SendToOverseer, ClearPending,
              OverseerStart, OverseerRaises, OverseerVerdict, OverseerApply
<1>3. CASE RetryDue \/ Restart \/ ReapLock \/ RakeStart \/ Generator
  BY <1>3 DEF RetryDue, Restart, ReapLock, RakeStart, Generator, RakeCompress,
              RakeCompressFails, RakeExtract, RakePdf, RakePdfFails
<1>4. CASE ClearAbandonedSubmission \/ ClearAbandonedMarker \/ ClearAbandonedAssessment
  BY <1>4 DEF ClearAbandonedSubmission, ClearAbandonedMarker, ClearAbandonedAssessment
<1>5. CASE UNCHANGED vars
  BY <1>5 DEF vars
<1> QED
  BY <1>1, <1>2, <1>3, <1>4, <1>5 DEF Next

----------------------------------------------------------------------------
(* What holds whatever races: each place of the worker belongs to one kind  *)
(* of job, only Overseer jobs are retried, a submission job follows an      *)
(* accepted upload, and in_process never falls behind the zip unless newer  *)
(* files are still in a folder (their zip was being made in a crash).       *)

Orderly ==
    /\ pc \in {"move", "unpack", "pdf", "mark", "enqueue"} => running.kind = "submission"
    /\ pc \in {"archive", "assess", "send", "clear"} => running.kind = "history"
    /\ pc \in {"start", "steps", "apply"} => running.kind = "overseer"
    /\ \A job \in retries : job.kind = "overseer"
    /\ inProcess # 0 => inProcess >= done \/ new # 0 \/ pid # 0
    /\ Around("submission") => accepted # 0

----------------------------------------------------------------------------
(* The steps that leave a kind of job where it is, and those that do not    *)

\* A job appears only when it is enqueued, and goes only when the worker lets
\* go of it.
LEMMA WhereJobsGo ==
    ASSUME IInv, Orderly, Next
    PROVE  /\ AcceptFinish \/ (Around("submission")' => Around("submission"))
           /\ EnqueueHistory \/ (Around("history")' => Around("history"))
           /\ \/ AcceptFinish \/ EnqueueHistory \/ SendToOverseer \/ Retrigger
              \/ RetryDue \/ Shutdown \/ Line' \subseteq Line
           /\ \/ Finish \/ OverseerRaises \/ Kill
              \/ \A kind \in {"submission", "history"} : Around(kind) => Around(kind)'
<1>a. TypeOK /\ Consistent /\ Line \subseteq Job /\ NoJob.kind = "none"
  BY LineType DEF IInv
<1> USE DEF Around, InLine
<1>1. CASE Fetch
  BY <1>1, <1>a, LineFetches
<1>2. CASE Finish \/ Kill \/ OverseerRaises
  <2>1. queue' = queue /\ running' = NoJob
    BY <1>2 DEF Finish, Kill, OverseerRaises, redisVars
  <2> QED
    BY <2>1, <1>2, <1>a, LineStays
<1>3. CASE Shutdown
  BY <1>3, <1>a, LineShutdown
<1>4. CASE RetryDue
  <2>1. PICK job \in retries : queue' = Append(queue, job) /\ running' = running
    BY <1>4 DEF RetryDue, workerVars
  <2>2. Line' = Line \union {job} /\ job.kind = "overseer"
    BY <2>1, <1>a, LineGrows DEF TypeOK, Orderly
  <2> QED
    BY <1>4, <2>1, <2>2
<1>5. CASE AcceptFinish
  <2>1. (Line' = Line \/ Line' = Line \union {SubmissionJob}) /\ running' = running
    BY <1>5, <1>a, JobFacts, LineEnqueues DEF AcceptFinish, workerVars
  <2>2. SubmissionJob.kind = "submission"
    BY DEF SubmissionJob
  <2> QED
    BY <1>5, <2>1, <2>2
<1>6. CASE EnqueueHistory
  <2>1. HistoryJob(Len(history)) \in Job /\ HistoryJob(Len(history)).kind = "history"
    BY <1>a, JobFacts DEF TypeOK, HistoryJob
  <2>2. /\ Line' = Line \/ Line' = Line \union {HistoryJob(Len(history))}
        /\ running' = running
    BY <1>6, <1>a, <2>1, LineEnqueues DEF EnqueueHistory
  <2> QED
    BY <1>6, <2>1, <2>2
<1>7. CASE SendToOverseer \/ Retrigger
  <2>1. PICK i \in Nat : Enqueue(OverseerJob(i)) /\ running' = running
    <3>1. CASE SendToOverseer
      <4>1. running.n \in Nat
        BY <1>a, JobFacts DEF TypeOK
      <4> QED
        BY <3>1, <4>1 DEF SendToOverseer
    <3>2. CASE Retrigger
      <4>1. PICK i \in DOMAIN history : Enqueue(OverseerJob(i)) /\ running' = running
        BY <3>2 DEF Retrigger, workerVars
      <4>2. i \in Nat
        BY <4>1, <1>a DEF TypeOK
      <4> QED
        BY <4>1, <4>2
    <3> QED
      BY <1>7, <3>1, <3>2
  <2>2. OverseerJob(i) \in Job /\ OverseerJob(i).kind = "overseer"
    BY JobFacts DEF OverseerJob
  <2>3. Line' = Line \/ Line' = Line \union {OverseerJob(i)}
    BY <1>a, <2>1, <2>2, LineEnqueues
  <2> QED
    BY <1>7, <2>1, <2>2, <2>3
<1>8. CASE UNCHANGED <<queue, running>>
  <2>1. Line' = Line
    BY <1>8, LineStays
  <2> QED
    BY <1>8, <2>1
<1> USE DEF requestVars, taskVars, fileVars, redisVars, workerVars, boundVars
<1>9. CASE AcceptBegin \/ AcceptAborted \/ Reprocess \/ TutorAssess
  BY <1>8, <1>9 DEF AcceptBegin, AcceptAborted, Reprocess, TutorAssess
<1>10. CASE \/ CompressNew \/ ExtractDone \/ MoveFilesRejected \/ MoveFilesRaises
            \/ MakePdf \/ MakePdfFails
  BY <1>8, <1>10
     DEF CompressNew, ExtractDone, MoveFilesRejected, MoveFilesRaises, MakePdf, MakePdfFails
<1>11. CASE MarkPending \/ SubmissionJobRaises \/ Archive \/ HistoryJobRaises
            \/ CreateAssessment \/ ClearPending
  BY <1>8, <1>11 DEF MarkPending, SubmissionJobRaises, Archive, HistoryJobRaises,
                     CreateAssessment, ClearPending
<1>12. CASE \/ OverseerStart \/ OverseerVerdict("passed") \/ OverseerVerdict("failed")
            \/ OverseerApply
  BY <1>8, <1>12 DEF OverseerStart, OverseerVerdict, OverseerApply
<1>13. CASE Restart \/ ReapLock \/ RakeStart \/ Generator \/ RakeKilled
  BY <1>8, <1>13 DEF Restart, ReapLock, RakeStart, Generator, RakeCompress,
                     RakeCompressFails, RakeExtract, RakePdf, RakePdfFails, RakeKilled
<1>14. CASE ClearAbandonedSubmission \/ ClearAbandonedMarker \/ ClearAbandonedAssessment
  BY <1>8, <1>14 DEF ClearAbandonedSubmission, ClearAbandonedMarker,
                     ClearAbandonedAssessment
<1> QED
  BY <1>1, <1>2, <1>3, <1>4, <1>5, <1>6, <1>7, <1>9, <1>10, <1>11, <1>12, <1>13, <1>14
     DEF Next, Request, Worker, Fault, Staff

\* Only a request moves the accepted upload.
LEMMA AcceptedStays ==
    ASSUME Next, ~AcceptFinish PROVE accepted' = accepted
<1> USE DEF requestVars
<1>1. CASE AcceptBegin \/ AcceptAborted \/ Staff \/ Fault
  BY <1>1 DEF AcceptBegin, AcceptAborted, Staff, Reprocess, Retrigger, TutorAssess, Fault,
              Kill, Shutdown, RakeKilled
<1>2. CASE Worker
  BY <1>2 DEF Worker, Fetch, Finish, CompressNew, MoveFilesRejected, MoveFilesRaises,
              ExtractDone, MakePdf, MakePdfFails, MarkPending, EnqueueHistory,
              SubmissionJobRaises, Archive, HistoryJobRaises, CreateAssessment,
              SendToOverseer, ClearPending, OverseerStart, OverseerRaises, OverseerVerdict,
              OverseerApply
<1>3. CASE RetryDue \/ Restart \/ ReapLock \/ RakeStart \/ Generator
  BY <1>3 DEF RetryDue, Restart, ReapLock, RakeStart, Generator, RakeCompress,
              RakeCompressFails, RakeExtract, RakePdf, RakePdfFails
<1>4. CASE ClearAbandonedSubmission \/ ClearAbandonedMarker \/ ClearAbandonedAssessment
  BY <1>4 DEF ClearAbandonedSubmission, ClearAbandonedMarker, ClearAbandonedAssessment
<1> QED
  BY <1>1, <1>2, <1>3, <1>4 DEF Next, Request

LEMMA NextOrderly == IInv /\ Orderly /\ [Next]_vars => Orderly'
<1> SUFFICES ASSUME IInv, Orderly, [Next]_vars PROVE Orderly'
  OBVIOUS
<1>a. TypeOK /\ Consistent
  BY DEF IInv
<1>b. inProcess \in Nat /\ done \in Nat /\ new \in Nat /\ pid \in Nat /\ web \in Nat
  BY <1>a, NumbersAreIntegers
<1>c. Around("submission")' => accepted' # 0
  <2>1. CASE AcceptFinish
    BY <2>1 DEF AcceptFinish
  <2>2. CASE Next /\ ~AcceptFinish
    BY <2>2, WhereJobsGo, AcceptedStays DEF Orderly
  <2>3. CASE UNCHANGED vars
    <3>1. UNCHANGED <<queue, running, accepted>>
      BY <2>3 DEF vars, redisVars, workerVars, requestVars
    <3> QED
      BY <3>1, LineStays DEF Orderly, Around, InLine
  <2> QED
    BY <2>1, <2>2, <2>3
<1> USE DEF Orderly, requestVars, taskVars, fileVars, redisVars, workerVars, boundVars
<1>1. CASE Fetch
  <2>1. running' \in Job /\ pc' = FirstStep[running'.kind]
    BY <1>1, <1>c, <1>a, LineFetches, LineType
  <2>2. \/ running'.kind = "submission" /\ pc' = "move"
        \/ running'.kind = "history" /\ pc' = "archive"
        \/ running'.kind = "overseer" /\ pc' = "start"
    BY <2>1 DEF Job, FirstStep
  <2> QED
    BY <1>1, <1>c, <2>2 DEF Fetch
<1>2. CASE Finish \/ Kill \/ Shutdown
  BY <1>2, <1>b, <1>c DEF Finish, Kill, Shutdown, ZipsLeft
<1>3. CASE \/ CompressNew \/ MoveFilesRejected \/ MoveFilesRaises \/ ExtractDone
           \/ MakePdf \/ MakePdfFails
  BY <1>3, <1>b, <1>c
     DEF CompressNew, MoveFilesRejected, MoveFilesRaises, ExtractDone, MakePdf, MakePdfFails
<1>4. CASE MarkPending \/ SubmissionJobRaises \/ Archive \/ HistoryJobRaises
  BY <1>4, <1>c DEF MarkPending, SubmissionJobRaises, Archive, HistoryJobRaises
<1>5. CASE CreateAssessment \/ ClearPending
  BY <1>5, <1>c DEF CreateAssessment, ClearPending
<1>6. CASE AcceptFinish \/ EnqueueHistory \/ SendToOverseer \/ Retrigger
  BY <1>6, <1>c DEF AcceptFinish, EnqueueHistory, SendToOverseer, Retrigger, Enqueue
<1>7. CASE OverseerRaises
  <2>1. running.kind = "overseer" /\ running \in Job
    BY <1>7, <1>c, <1>a DEF OverseerRaises, Consistent, TypeOK
  <2>2. [running EXCEPT !.try = 1].kind = "overseer"
    BY <2>1 DEF Job
  <2> QED
    BY <1>7, <1>c, <2>2 DEF OverseerRaises
<1>8. CASE \/ OverseerStart \/ OverseerVerdict("passed") \/ OverseerVerdict("failed")
           \/ OverseerApply
  BY <1>8, <1>c DEF OverseerStart, OverseerVerdict, OverseerApply
<1>9. CASE RetryDue \/ Restart \/ ReapLock
  BY <1>9, <1>c DEF RetryDue, Restart, ReapLock
<1>10. CASE RakeStart \/ Generator \/ RakeKilled
  BY <1>10, <1>a, <1>b, <1>c
     DEF RakeStart, Claimable, Generator, RakeCompress, RakeCompressFails, RakeExtract,
         RakePdf, RakePdfFails, RakeKilled, ZipsLeft, Consistent
<1>11. CASE ClearAbandonedSubmission \/ ClearAbandonedMarker \/ ClearAbandonedAssessment
  BY <1>11, <1>c DEF ClearAbandonedSubmission, ClearAbandonedMarker, ClearAbandonedAssessment
<1>12. CASE AcceptBegin \/ AcceptAborted \/ Reprocess \/ TutorAssess \/ UNCHANGED vars
  BY <1>12, <1>b, <1>c DEF AcceptBegin, AcceptAborted, Reprocess, TutorAssess, vars
<1> QED
  BY <1>1, <1>2, <1>3, <1>4, <1>5, <1>6, <1>7, <1>8, <1>9, <1>10, <1>11, <1>12
     DEF Next, Request, Worker, Fault, Staff

----------------------------------------------------------------------------
(* The generator and the submission job keep apart: while the one holds     *)
(* files the other has none, and no request is let in.                      *)

ApartRaces == {"behind_generator", "doubled"}

Apart ==
    /\ rake # "idle" \/ pid # 0 => web = 0 /\ ~Around("submission")
    /\ rake \in {"unpack", "pdf"} => done # 0
    /\ rake = "pdf" => inProcess = done
    /\ pc = "pdf" => inProcess = done
    /\ pc \in {"unpack", "pdf", "mark"} => got = done

LEMMA NextApart ==
    ASSUME IInv, Orderly, Apart, Next, Clear(ApartRaces)'
    PROVE  Apart'
<1>a. /\ TypeOK /\ Consistent
      /\ AcceptFinish \/ (Around("submission")' => Around("submission"))
  BY WhereJobsGo DEF IInv
<1>b. pc \in {"move", "unpack", "pdf", "mark", "enqueue"} => Around("submission")
  BY DEF Orderly, Around
<1> USE DEF Apart, requestVars, taskVars, fileVars, redisVars, workerVars, boundVars
<1>1. CASE AcceptBegin
  <2>1. pid = 0 /\ inProcess = 0 /\ rake # "unpack"
    BY <1>1 DEF AcceptBegin, Unseen, ApartRaces, Clear, CanSubmit, ProcessingPdf
  <2>2. rake = "idle"
    BY <2>1, <1>a DEF Consistent, TypeOK
  <2> QED
    BY <1>1, <1>a, <2>1, <2>2 DEF AcceptBegin, AcceptFinish
<1>2. CASE AcceptFinish \/ AcceptAborted
  BY <1>2, <1>a DEF AcceptFinish, AcceptAborted
<1>3. CASE Fetch
  <2>1. pc' \notin {"unpack", "pdf", "mark"}
    BY <1>3, <1>a, LineFetches, LineType, JobFacts
  <2> QED
    BY <1>3, <1>a, <2>1 DEF Fetch, AcceptFinish
<1>4. CASE Finish \/ OverseerRaises \/ Kill
  BY <1>4, <1>a, <1>b DEF Finish, OverseerRaises, Kill, ZipsLeft, AcceptFinish
<1>5. CASE CompressNew
  <2>1. got' = done' /\ pc = "move" /\ pc' = "unpack"
    BY <1>5 DEF CompressNew
  <2> QED
    BY <1>5, <1>a, <1>b, <2>1 DEF CompressNew, AcceptFinish
<1>17. CASE ExtractDone
  <2>1. got' = done' /\ inProcess' = done' /\ pc = "unpack" /\ pc' = "pdf"
    BY <1>17 DEF ExtractDone
  <2> QED
    BY <1>17, <1>a, <1>b, <2>1 DEF ExtractDone, AcceptFinish
<1>6. CASE MoveFilesRejected \/ MoveFilesRaises \/ MakePdfFails \/ SubmissionJobRaises
  BY <1>6, <1>a, <1>b
     DEF MoveFilesRejected, MoveFilesRaises, MakePdfFails, SubmissionJobRaises, AcceptFinish
<1>7. CASE MakePdf \/ MarkPending
  BY <1>7, <1>a, <1>b DEF MakePdf, MarkPending, AcceptFinish
<1>8. CASE EnqueueHistory \/ Archive \/ HistoryJobRaises \/ CreateAssessment
           \/ SendToOverseer \/ ClearPending
  BY <1>8, <1>a DEF EnqueueHistory, Archive, HistoryJobRaises, CreateAssessment,
                    SendToOverseer, ClearPending, AcceptFinish, Enqueue
<1>9. CASE \/ OverseerStart \/ OverseerVerdict("passed") \/ OverseerVerdict("failed")
           \/ OverseerApply
  BY <1>9, <1>a DEF OverseerStart, OverseerVerdict, OverseerApply, AcceptFinish
<1>10. CASE RetryDue \/ Restart \/ ReapLock
  BY <1>10, <1>a DEF RetryDue, Restart, ReapLock, AcceptFinish
<1>11. CASE RakeStart
  <2>1. CASE Claimable
    <3>1. web = 0 /\ ~Around("submission")
      BY <1>11, <1>a, <2>1, Seen
         DEF RakeStart, Claimable, ApartRaces, Clear, Around
    <3> QED
      BY <1>11, <1>a, <2>1, <3>1 DEF RakeStart, AcceptFinish
  <2>2. CASE ~Claimable
    BY <1>11, <1>a, <2>2 DEF RakeStart, AcceptFinish
  <2> QED
    BY <2>1, <2>2
<1>12. CASE \/ RakeCompress \/ RakeCompressFails \/ RakeExtract \/ RakePdf
            \/ RakePdfFails \/ RakeKilled
  BY <1>12, <1>a, <1>b
     DEF RakeCompress, RakeCompressFails, RakeExtract, RakePdf, RakePdfFails, RakeKilled,
         AcceptFinish, Consistent
<1>13. CASE ClearAbandonedSubmission
  BY <1>13, <1>a, <1>b, Seen DEF ClearAbandonedSubmission, AcceptFinish
<1>14. CASE ClearAbandonedMarker \/ ClearAbandonedAssessment
  BY <1>14, <1>a DEF ClearAbandonedMarker, ClearAbandonedAssessment, AcceptFinish
<1>15. CASE Reprocess \/ Retrigger \/ TutorAssess
  BY <1>15, <1>a DEF Reprocess, Retrigger, TutorAssess, AcceptFinish
<1>16. CASE Shutdown
  BY <1>16, <1>a, <1>b DEF Shutdown, AcceptFinish
<1> QED
  BY <1>1, <1>2, <1>3, <1>4, <1>5, <1>6, <1>7, <1>8, <1>9, <1>10, <1>11, <1>12, <1>13,
     <1>14, <1>15, <1>16, <1>17 DEF Next, Request, Worker, Generator, Fault, Staff

----------------------------------------------------------------------------
(* The rules assume races away; what has not raced after a step had not     *)
(* raced before it.                                                         *)

LEMMA StillClear ==
    ASSUME NEW S, raced \subseteq raced', Clear(S)' PROVE Clear(S)
BY DEF Clear

LEMMA ClearOfFewer ==
    ASSUME NEW S, NEW R, R \subseteq S, Clear(S) PROVE Clear(R)
BY DEF Clear

OrderlyApart == Clear(ApartRaces) => Apart

LEMMA InitOrderlyApart == Init => Orderly /\ OrderlyApart
BY JobFacts DEF Init, Orderly, OrderlyApart, Apart, Around, InLine, Line, NoJob

LEMMA NextOrderlyApart == IInv /\ Orderly /\ OrderlyApart /\ [Next]_vars => OrderlyApart'
<1> SUFFICES ASSUME IInv, Orderly, OrderlyApart, [Next]_vars, Clear(ApartRaces)'
             PROVE  Apart'
  BY DEF OrderlyApart, ApartRaces
<1>1. Apart
  BY RacedGrows, StillClear DEF OrderlyApart
<1>2. CASE Next
  BY <1>1, <1>2, NextApart
<1>3. CASE UNCHANGED vars
  <2>1. Line' = Line
    BY <1>3, LineStays DEF vars, redisVars
  <2> QED
    BY <1>1, <1>3, <2>1
       DEF Apart, Around, InLine, vars, requestVars, fileVars, workerVars
<1> QED
  BY <1>2, <1>3

\* What holds whatever races (Orderly), and that the generator and the
\* submission job never work on the task at the same time, nor with a request,
\* unless a request was let in behind the generator or a queued job was
\* doubled while Sidekiq was down.
THEOREM KeptApart == Spec => [](Orderly /\ OrderlyApart)
<1>1. Init => Orderly /\ OrderlyApart
  BY InitOrderlyApart
<1>2. IInv /\ (Orderly /\ OrderlyApart) /\ [Next]_vars => (Orderly /\ OrderlyApart)'
  BY NextOrderly, NextOrderlyApart
<1> QED
  BY <1>1, <1>2, Inductive, PTL DEF Spec

----------------------------------------------------------------------------
(* PdfOfDone.  A conversion that is not shown left files in a folder, or    *)
(* its job is still around; the job that is past its conversion has shown   *)
(* it, or told the student.                                                 *)

TracedRaces == {"behind_generator", "doubled", "reprocessed", "traceless"}

Shown == pdf = done \/ \E upload \in told : upload >= done

Traced ==
    /\ running.kind = "submission" /\ pc \in {"mark", "enqueue", "finish"} => Shown
    /\ Shown \/ new # 0 \/ pid # 0 \/ inProcess # 0 \/ rake # "idle" \/ Around("submission")

\* What the files and the student's notifications show only changes in a few
\* steps.
LEMMA TracedOtherwise ==
    ASSUME Traced, UNCHANGED <<told, done, pdf, new, pid, inProcess, rake>>,
           Around("submission") => Around("submission")' \/ Shown,
           \/ UNCHANGED <<running, pc>>
           \/ running'.kind # "submission"
           \/ pc' \notin {"mark", "enqueue", "finish"}
           \/ Shown
    PROVE  Traced'
<1>1. Shown' <=> Shown
  BY DEF Shown
<1> QED
  BY <1>1 DEF Traced

LEMMA NextTraced ==
    ASSUME IInv, Orderly, Apart, Ordered, Traced, Next, Clear(TracedRaces)'
    PROVE  Traced'
<1>a. /\ TypeOK /\ Consistent
      /\ \/ Finish \/ OverseerRaises \/ Kill
         \/ Around("submission") => Around("submission")'
  BY WhereJobsGo DEF IInv
<1>b. Clear(TracedRaces)
  BY RacedGrows, StillClear
<1>c. (new # 0 => new >= done) /\ (pid # 0 => pid >= done)
  BY <1>b DEF Ordered, Unmixed, Clear, TracedRaces
<1>d. accepted \in Nat /\ done \in Nat /\ new \in Nat /\ pid \in Nat /\ inProcess \in Nat
  BY <1>a, NumbersAreIntegers
<1>e. NoJob.kind = "none"
  BY DEF NoJob
<1>f. (running.kind = "submission") => 
          pc \in {"move", "unpack", "pdf", "mark", "enqueue", "finish"}
  BY <1>a, <1>e DEF Orderly, TypeOK, Places, Consistent
<1> USE DEF requestVars, taskVars, fileVars, redisVars, workerVars, boundVars
\* The steps that put files where a process looks for them.
<1>1. CASE AcceptFinish \/ AcceptAborted \/ Reprocess
  <2>1. new' # 0 /\ UNCHANGED <<told, done, pdf, running, pc>>
    BY <1>1 DEF AcceptFinish, AcceptAborted, Reprocess
  <2> QED
    BY <2>1 DEF Traced, Shown
<1>2. CASE CompressNew \/ ExtractDone
  <2>1. /\ pc' \in {"unpack", "pdf"} /\ running.kind = "submission" /\ running' = running
    BY <1>2 DEF CompressNew, ExtractDone, Orderly
  <2> QED
    BY <2>1 DEF Traced, Around
<1>3. CASE RakeStart
  <2>1. UNCHANGED <<told, done, pdf, running, pc>>
    BY <1>3 DEF RakeStart
  <2>2. new' # 0 \/ pid' # 0
    BY <1>3 DEF RakeStart, Claimable
  <2> QED
    BY <2>1, <2>2 DEF Traced, Shown
<1>4. CASE RakeCompress \/ RakeExtract
  <2>1. rake' # "idle" /\ running.kind # "submission" /\ running' = running
    BY <1>4 DEF RakeCompress, RakeExtract, Apart, Around
  <2> QED
    BY <2>1 DEF Traced
\* The steps that show the files of the zip, or tell of their failure.
<1>5. CASE MoveFilesRejected \/ MoveFilesRaises
  <2>1. CASE new # 0
    <3>1. new \in told' /\ new >= done'
      BY <1>5, <1>c, <1>d, <2>1 DEF MoveFilesRejected, MoveFilesRaises
    <3> QED
      BY <3>1 DEF Traced, Shown
  <2>2. CASE new = 0
    <3>1. pc = "move" /\ done' = 0 /\ told' = told \union ({accepted} \ {0})
      BY <1>5, <2>2 DEF MoveFilesRejected, MoveFilesRaises
    <3>2. accepted \in told' /\ accepted >= done'
      BY <3>1, <1>d DEF Orderly, Around
    <3> QED
      BY <3>2 DEF Traced, Shown
  <2> QED
    BY <2>1, <2>2
<1>6. CASE MakePdf \/ RakePdf
  <2>1. pdf' = done' /\ done' = done
    BY <1>6 DEF MakePdf, RakePdf, Apart, Orderly
  <2> QED
    BY <2>1 DEF Traced, Shown
<1>7. CASE MakePdfFails \/ RakePdfFails
  <2>1. done \in told' /\ done' = done
    BY <1>7 DEF MakePdfFails, RakePdfFails, Apart
  <2> QED
    BY <2>1, <1>d DEF Traced, Shown
<1>20. CASE ClearAbandonedSubmission
  <2>1. /\ inProcess # 0 /\ inProcess \in told' /\ told \subseteq told'
        /\ UNCHANGED <<done, new, pid, pdf, running, pc>> /\ ~Around("submission")
    BY <1>20, <1>a, Seen DEF ClearAbandonedSubmission
  <2>2. CASE inProcess >= done
    BY <2>1, <2>2 DEF Traced, Shown
  <2>3. CASE new # 0 \/ pid # 0
    BY <2>1, <2>3 DEF Traced, Around
  <2> QED
    BY <2>1, <2>2, <2>3 DEF Orderly
<1>8. CASE RakeCompressFails
  <2>1. pid \in told' /\ pid # 0 /\ done' \in {done, 0, pid}
    BY <1>8, <1>a DEF RakeCompressFails, ZipsLeft, Consistent
  <2>2. pid >= done'
    BY <2>1, <1>c, <1>d
  <2> QED
    BY <2>1, <2>2 DEF Traced, Shown
\* The steps with which the job goes on or goes.
<1>9. CASE MarkPending \/ EnqueueHistory \/ SubmissionJobRaises
  <2>1. Shown /\ UNCHANGED <<told, done, pdf>>
    BY <1>9 DEF MarkPending, EnqueueHistory, SubmissionJobRaises, Traced, Orderly
  <2> QED
    BY <2>1 DEF Traced, Shown
<1>10. CASE Finish \/ OverseerRaises
  <2>1. /\ queue' = queue /\ running' = NoJob
        /\ UNCHANGED <<told, done, pdf, new, pid, inProcess, rake>>
    BY <1>10 DEF Finish, OverseerRaises
  <2>2. running.kind = "submission" => Shown
    BY <1>10 DEF Finish, OverseerRaises, Traced, Orderly
  <2>3. Line' = Line
    BY <2>1, LineStays
  <2> QED
    BY <2>1, <2>2, <2>3, <1>e, TracedOtherwise DEF Around, InLine
<1>11. CASE Kill
  <2>1. /\ queue' = queue /\ running' = NoJob
        /\ UNCHANGED <<told, pdf, new, pid, inProcess, rake>>
        /\ done' = done \/ new # 0
    BY <1>11 DEF Kill
  <2>2. pc \in {"move", "unpack"} => new # 0 \/ inProcess # 0
    BY <1>11 DEF Kill, Clear, TracedRaces
  <2>3. pc = "pdf" => inProcess # 0
    BY <1>a DEF Apart, Consistent
  <2>4. running.kind = "submission" => Shown \/ new # 0 \/ inProcess # 0
    BY <1>f, <2>2, <2>3 DEF Traced
  <2>5. Line' = Line
    BY <2>1, LineStays
  <2>6. done' = done => (Shown' <=> Shown)
    BY <2>1 DEF Shown
  <2> QED
    BY <2>1, <2>4, <2>5, <2>6, <1>e DEF Traced, Around, InLine
<1>21. CASE RakeKilled
  <2>1. /\ UNCHANGED <<told, pdf, new, pid, inProcess, queue, running, pc>>
        /\ rake # "idle" /\ (done' = done \/ pid # 0)
        /\ rake = "unpack" => inProcess # 0
    BY <1>21, <1>a DEF RakeKilled, Consistent, Clear, TracedRaces
  <2>2. pid # 0 \/ inProcess # 0
    BY <1>a, <2>1 DEF Apart, Consistent, TypeOK
  <2>3. running.kind # "submission"
    BY <2>1 DEF Apart, Around
  <2> QED
    BY <2>1, <2>2, <2>3 DEF Traced
<1>12. CASE Shutdown
  <2>1. /\ running' = NoJob /\ Line' = Line \union {running}
        /\ UNCHANGED <<told, pdf, pid, rake>>
    BY <1>12, <1>a, LineShutdown DEF Shutdown
  <2>2. CASE running.kind = "submission"
    BY <2>1, <2>2, <1>e DEF Traced, Around, InLine
  <2>3. CASE running.kind # "submission"
    <3>1. UNCHANGED <<done, new, inProcess>>
      BY <1>12, <2>3 DEF Shutdown, Orderly
    <3>2. Around("submission") => Around("submission")'
      BY <2>1 DEF Around, InLine
    <3>3. Shown' <=> Shown
      BY <2>1, <3>1 DEF Shown
    <3> QED
      BY <2>1, <3>1, <3>2, <3>3, <1>e DEF Traced
  <2> QED
    BY <2>2, <2>3
\* The others.
<1>13. CASE Fetch
  <2>1. UNCHANGED <<told, done, pdf, new, pid, inProcess, rake>>
    BY <1>13 DEF Fetch
  <2>2. pc' \notin {"mark", "enqueue", "finish"}
    <3>1. running' \in Job /\ pc' = FirstStep[running'.kind]
      BY <1>13, <1>a, LineFetches, LineType
    <3> QED
      BY <3>1 DEF Job, FirstStep
  <2>3. Around("submission") => Around("submission")'
    BY <1>13, <1>a, <1>e, LineFetches DEF Around, InLine
  <2> QED
    BY <2>1, <2>2, <2>3, TracedOtherwise
<1>14. CASE Archive \/ HistoryJobRaises \/ CreateAssessment \/ SendToOverseer \/ ClearPending
  <2>1. /\ UNCHANGED <<told, done, pdf, new, pid, inProcess, rake>>
        /\ running' = running /\ running.kind = "history"
    BY <1>14 DEF Archive, HistoryJobRaises, CreateAssessment, SendToOverseer, ClearPending,
                 Orderly
  <2>2. Around("submission") => Around("submission")'
    BY <1>14, <1>a DEF Archive, HistoryJobRaises, CreateAssessment, SendToOverseer,
                       ClearPending, Finish, OverseerRaises, Kill
  <2> QED
    BY <2>1, <2>2, TracedOtherwise
<1>15. CASE \/ OverseerStart \/ OverseerVerdict("passed") \/ OverseerVerdict("failed")
            \/ OverseerApply
  <2>1. /\ UNCHANGED <<told, done, pdf, new, pid, inProcess, rake>>
        /\ running' = running /\ running.kind = "overseer" /\ queue' = queue
    BY <1>15 DEF OverseerStart, OverseerVerdict, OverseerApply, Orderly
  <2>2. Around("submission") => Around("submission")'
    BY <2>1, LineStays DEF Around, InLine
  <2> QED
    BY <2>1, <2>2, TracedOtherwise
<1>16. CASE RetryDue \/ Retrigger
  <2>1. UNCHANGED <<told, done, pdf, new, pid, inProcess, rake, running, pc>>
    BY <1>16 DEF RetryDue, Retrigger
  <2>2. InLine("submission") => InLine("submission")'
    <3>1. CASE RetryDue
      <4>1. PICK job \in Job : queue' = Append(queue, job)
        BY <3>1, <1>a DEF RetryDue, TypeOK
      <4> QED
        BY <4>1, <1>a, LineGrows DEF InLine
    <3>2. CASE Retrigger
      <4>1. PICK i \in DOMAIN history : Enqueue(OverseerJob(i))
        BY <3>2 DEF Retrigger
      <4>2. OverseerJob(i) \in Job
        BY <4>1, <1>a, JobFacts DEF TypeOK
      <4> QED
        BY <4>1, <4>2, <1>a, LineEnqueues DEF InLine
    <3> QED
      BY <1>16, <3>1, <3>2
  <2> QED
    BY <2>1, <2>2, TracedOtherwise DEF Around
<1>17. ASSUME UNCHANGED <<told, done, pdf, new, pid, inProcess, rake, running, pc, queue>>
       PROVE  Traced'
  <2>1. Around("submission") => Around("submission")'
    BY <1>17, LineStays DEF Around, InLine
  <2> QED
    BY <1>17, <2>1, TracedOtherwise
<1>18. CASE AcceptBegin \/ Restart \/ ReapLock \/ TutorAssess
  BY <1>17, <1>18 DEF AcceptBegin, Restart, ReapLock, TutorAssess
<1>19. CASE ClearAbandonedMarker \/ ClearAbandonedAssessment
  BY <1>17, <1>19 DEF ClearAbandonedMarker, ClearAbandonedAssessment
<1> QED
  BY <1>1, <1>2, <1>3, <1>4, <1>5, <1>6, <1>7, <1>8, <1>9, <1>10, <1>11, <1>12, <1>13,
     <1>14, <1>15, <1>16, <1>18, <1>19, <1>20, <1>21
     DEF Next, Request, Worker, Generator, Fault, Staff

UnlessTraced == Clear(TracedRaces) => Traced

LEMMA NextUnlessTraced ==
    ASSUME IInv, Orderly, OrderlyApart, Ordered, UnlessTraced, [Next]_vars
    PROVE  UnlessTraced'
<1> SUFFICES ASSUME Clear(TracedRaces)' PROVE Traced'
  BY DEF UnlessTraced, TracedRaces
<1>1. Clear(TracedRaces) /\ Clear(ApartRaces) /\ Clear(ApartRaces)'
  <2>1. Clear(TracedRaces)
    BY RacedGrows, StillClear
  <2> QED
    BY <2>1 DEF Clear, TracedRaces, ApartRaces
<1>2. CASE Next
  BY <1>1, <1>2, NextTraced DEF UnlessTraced, OrderlyApart
<1>3. CASE UNCHANGED vars
  <2>1. UNCHANGED <<told, done, pdf, new, pid, inProcess, rake, running, pc, queue>>
    BY <1>3 DEF vars, taskVars, fileVars, workerVars, redisVars
  <2>2. Around("submission") => Around("submission")'
    BY <2>1, LineStays DEF Around, InLine
  <2> QED
    BY <1>1, <2>1, <2>2, TracedOtherwise DEF UnlessTraced
<1> QED
  BY <1>2, <1>3

\* When nobody is at work on the task its PDF shows the files of the done zip,
\* or the student was told that these or later ones failed (PdfOfDone), for any
\* number of uploads, crashes and staff actions.
THEOREM PdfShowsDone == Spec => []PdfOfDone
<1>1. Init => UnlessTraced
  BY DEF Init, UnlessTraced, Traced, Shown, NoJob
<1>2. /\ IInv /\ (Orderly /\ OrderlyApart) /\ Ordered /\ UnlessTraced /\ [Next]_vars
      => UnlessTraced'
  BY NextUnlessTraced
<1>3. IInv /\ UnlessTraced => PdfOfDone
  BY Seen DEF IInv, UnlessTraced, TracedRaces, Traced, Shown, PdfOfDone
<1> QED
  BY <1>1, <1>2, <1>3, Inductive, KeptApart, OrderedInvariant, PTL DEF Spec

----------------------------------------------------------------------------
(* The jobs of each kind, and what the histories keep                       *)

LEMMA JobsAround ==
    ASSUME Orderly, NEW kind \in {"submission", "history"}, NEW job \in Jobs(kind)
    PROVE  Around(kind)
BY DEF Orderly, Jobs, Around, InLine

\* Between its queue, its worker and its retry set a job changes nothing about
\* itself, but for the count of its retries.
LEMMA WhereKindsGo ==
    ASSUME IInv, Orderly, Next
    PROVE  /\ EnqueueHistory \/ Jobs("history")' \subseteq Jobs("history")
           /\ \/ SendToOverseer \/ Retrigger \/ OverseerRaises
              \/ Jobs("overseer")' \subseteq Jobs("overseer")
           /\ AcceptFinish \/ Shutdown \/ (InLine("submission")' => InLine("submission"))
<1>a. TypeOK /\ Consistent /\ Line \subseteq Job /\ NoJob.kind = "none"
  BY LineType DEF IInv
<1> USE DEF Jobs, InLine
<1>1. CASE Fetch
  <2>1. /\ retries' = retries /\ running' \in Line /\ Line = Line' \union {running'}
    BY <1>1, <1>a, LineFetches DEF Fetch
  <2> QED
    BY <2>1
<1>2. CASE Finish \/ Kill
  <2>1. Line' = Line /\ running' = NoJob /\ retries' = retries
    BY <1>2, LineStays DEF Finish, Kill, redisVars
  <2> QED
    BY <2>1, <1>a
<1>3. CASE Shutdown
  <2>1. /\ Line' = Line \union {running} /\ running' = NoJob /\ retries' = retries
    BY <1>3, <1>a, LineShutdown DEF Shutdown
  <2> QED
    BY <2>1, <1>3, <1>a
<1>4. CASE RetryDue
  <2>1. PICK job \in retries : /\ queue' = Append(queue, job) /\ running' = running
                               /\ retries' = retries \ {job}
    BY <1>4 DEF RetryDue, workerVars
  <2>2. Line' = Line \union {job} /\ job.kind = "overseer"
    BY <2>1, <1>a, LineGrows DEF TypeOK, Orderly
  <2> QED
    BY <2>1, <2>2
<1>5. CASE AcceptFinish
  <2>1. /\ Line' = Line \/ Line' = Line \union {SubmissionJob}
        /\ running' = running /\ retries' = retries
    BY <1>5, <1>a, JobFacts, LineEnqueues DEF AcceptFinish, workerVars
  <2>2. SubmissionJob.kind = "submission"
    BY DEF SubmissionJob
  <2> QED
    BY <1>5, <2>1, <2>2
<1>6. CASE EnqueueHistory
  <2>1. HistoryJob(Len(history)) \in Job /\ HistoryJob(Len(history)).kind = "history"
    BY <1>a, JobFacts DEF TypeOK, HistoryJob
  <2>2. /\ Line' = Line \/ Line' = Line \union {HistoryJob(Len(history))}
        /\ running' = running /\ retries' = retries
    BY <1>6, <1>a, <2>1, LineEnqueues DEF EnqueueHistory
  <2> QED
    BY <1>6, <2>1, <2>2
<1>7. CASE SendToOverseer \/ Retrigger
  <2>1. PICK i \in Nat : Enqueue(OverseerJob(i)) /\ running' = running
    <3>1. CASE SendToOverseer
      <4>1. running.n \in Nat
        BY <1>a, JobFacts DEF TypeOK
      <4> QED
        BY <3>1, <4>1 DEF SendToOverseer
    <3>2. CASE Retrigger
      <4>1. PICK i \in DOMAIN history : Enqueue(OverseerJob(i)) /\ running' = running
        BY <3>2 DEF Retrigger, workerVars
      <4>2. i \in Nat
        BY <4>1, <1>a DEF TypeOK
      <4> QED
        BY <4>1, <4>2
    <3> QED
      BY <1>7, <3>1, <3>2
  <2>2. OverseerJob(i) \in Job /\ OverseerJob(i).kind = "overseer"
    BY JobFacts DEF OverseerJob
  <2>3. /\ Line' = Line \/ Line' = Line \union {OverseerJob(i)}
        /\ retries' = retries
    BY <1>a, <2>1, <2>2, LineEnqueues
  <2> QED
    BY <1>7, <2>1, <2>2, <2>3
<1>8. CASE OverseerRaises
  <2>1. /\ Line' = Line /\ running' = NoJob /\ running.kind = "overseer" /\ running \in Job
        /\ retries' \in {retries, retries \union {[running EXCEPT !.try = 1]}}
    BY <1>8, <1>a, LineStays DEF OverseerRaises, Orderly, Consistent, TypeOK
  <2>2. [running EXCEPT !.try = 1].kind = "overseer"
    BY <2>1 DEF Job
  <2> QED
    BY <1>8, <1>a, <2>1, <2>2
<1>9. CASE UNCHANGED <<queue, retries, running>>
  <2>1. Line' = Line
    BY <1>9, LineStays
  <2> QED
    BY <1>9, <2>1
<1> USE DEF requestVars, taskVars, fileVars, redisVars, workerVars, boundVars
<1>10. CASE AcceptBegin \/ AcceptAborted \/ Reprocess \/ TutorAssess
  BY <1>9, <1>10 DEF AcceptBegin, AcceptAborted, Reprocess, TutorAssess
<1>11. CASE \/ CompressNew \/ ExtractDone \/ MoveFilesRejected \/ MoveFilesRaises
            \/ MakePdf \/ MakePdfFails
  BY <1>9, <1>11
     DEF CompressNew, ExtractDone, MoveFilesRejected, MoveFilesRaises, MakePdf, MakePdfFails
<1>12. CASE MarkPending \/ SubmissionJobRaises \/ Archive \/ HistoryJobRaises
            \/ CreateAssessment \/ ClearPending
  BY <1>9, <1>12 DEF MarkPending, SubmissionJobRaises, Archive, HistoryJobRaises,
                     CreateAssessment, ClearPending
<1>13. CASE \/ OverseerStart \/ OverseerVerdict("passed") \/ OverseerVerdict("failed")
            \/ OverseerApply
  BY <1>9, <1>13 DEF OverseerStart, OverseerVerdict, OverseerApply
<1>14. CASE Restart \/ ReapLock \/ RakeStart \/ Generator \/ RakeKilled
  BY <1>9, <1>14 DEF Restart, ReapLock, RakeStart, Generator, RakeCompress,
                     RakeCompressFails, RakeExtract, RakePdf, RakePdfFails, RakeKilled
<1>15. CASE ClearAbandonedSubmission \/ ClearAbandonedMarker \/ ClearAbandonedAssessment
  BY <1>9, <1>15 DEF ClearAbandonedSubmission, ClearAbandonedMarker,
                     ClearAbandonedAssessment
<1> QED
  BY <1>1, <1>2, <1>3, <1>4, <1>5, <1>6, <1>7, <1>8, <1>10, <1>11, <1>12, <1>13, <1>14,
     <1>15 DEF Next, Request, Worker, Fault, Staff

\* The histories keep what they keep.
SameHistories ==
    /\ Len(history') = Len(history) /\ DOMAIN history' = DOMAIN history
    /\ \A i \in DOMAIN history : /\ history'[i].made = history[i].made
                                 /\ history'[i].kept = history[i].kept

LEMMA AssessmentOnly ==
    ASSUME TypeOK, NEW k, NEW a \in {"pre_queued", "passed", "failed"},
           history' = [history EXCEPT ![k].assessment = a]
    PROVE  SameHistories
<1>1. history \in Seq(Histories) /\ history' \in Seq(Histories)
  BY HistoryUpdate DEF TypeOK
<1>2. /\ Len(history) \in Nat /\ DOMAIN history = 1 .. Len(history)
      /\ Len(history') \in Nat /\ DOMAIN history' = 1 .. Len(history')
      /\ \A i \in DOMAIN history : history[i] \in Histories
  BY <1>1
<1>3. DOMAIN history' = DOMAIN history
  OBVIOUS
<1>4. \A m, n \in Nat : 1 .. m = 1 .. n => m = n
  <2>1. ASSUME NEW m \in Nat, NEW n \in Nat, 1 .. m = 1 .. n, m < n PROVE FALSE
    <3>1. n \in 1 .. n /\ n \notin 1 .. m
      BY <2>1
    <3> QED
      BY <2>1, <3>1
  <2>2. \A m, n \in Nat : m = n \/ m < n \/ n < m
    OBVIOUS
  <2> QED
    BY <2>1, <2>2
<1>5. \A i \in DOMAIN history : /\ history'[i].made = history[i].made
                                /\ history'[i].kept = history[i].kept
  BY <1>2 DEF Histories
<1> QED
  BY <1>2, <1>3, <1>4, <1>5 DEF SameHistories

LEMMA WhatHistoriesKeep ==
    ASSUME TypeOK, Next
    PROVE  MarkPending \/ Archive \/ SameHistories
<1>1. CASE CreateAssessment
  BY <1>1, AssessmentOnly DEF CreateAssessment
<1>2. CASE OverseerVerdict("passed") \/ OverseerVerdict("failed")
  BY <1>2, AssessmentOnly DEF OverseerVerdict
<1>3. CASE ClearAbandonedAssessment
  <2>1. PICK i \in DOMAIN history : history' = [history EXCEPT ![i].assessment = "failed"]
    BY <1>3 DEF ClearAbandonedAssessment
  <2> QED
    BY <2>1, AssessmentOnly
<1>4. CASE UNCHANGED history
  BY <1>4 DEF SameHistories
<1>5. CASE AcceptBegin \/ Request \/ Staff \/ Fault
  BY <1>4, <1>5 DEF AcceptBegin, Request, AcceptFinish, AcceptAborted, Staff, Reprocess,
                    Retrigger, TutorAssess, Fault, Kill, Shutdown, RakeKilled
<1>6. CASE Worker
  BY <1>1, <1>2, <1>4, <1>6
     DEF Worker, Fetch, Finish, CompressNew, ExtractDone, MoveFilesRejected,
         MoveFilesRaises, MakePdf, MakePdfFails, EnqueueHistory, SubmissionJobRaises,
         HistoryJobRaises, SendToOverseer, ClearPending, OverseerStart, OverseerRaises,
         OverseerApply
<1>7. CASE RetryDue \/ Restart \/ ReapLock \/ RakeStart \/ Generator
  BY <1>4, <1>7 DEF RetryDue, Restart, ReapLock, RakeStart, Generator, RakeCompress,
                    RakeCompressFails, RakeExtract, RakePdf, RakePdfFails
<1>8. CASE ClearAbandonedSubmission \/ ClearAbandonedMarker
  BY <1>4, <1>8 DEF ClearAbandonedSubmission, ClearAbandonedMarker
<1> QED
  BY <1>3, <1>5, <1>6, <1>7, <1>8 DEF Next

----------------------------------------------------------------------------
(* HistoryFaithful.  From the moment a conversion starts until its history  *)
(* is written the done zip is not replaced by another: the submission job   *)
(* holds off the generator, its lock keeps away a second one, a request is  *)
(* let in only behind the marker, and what is found in the folders has come *)
(* from the zip.  A generator that is killed over it may lose it, no more.  *)

FaithfulRaces == {"behind_generator", "behind_job", "doubled"}

Converting == pc \in {"unpack", "pdf", "mark", "enqueue"}

Faithful ==
    /\ web # 0 => ~Around("submission") /\ ~Around("history")
    /\ Around("history") => /\ ~InLine("submission")
                            /\ running.kind = "submission" => pc = "finish"
    /\ Converting => new \in {0, done} /\ pid \in {0, done}
    /\ pc = "enqueue" => /\ Len(history) \in DOMAIN history
                         /\ history[Len(history)].made = done
                         /\ history[Len(history)].kept = 0
    /\ \A job \in Jobs("history") :
          /\ job.n \in DOMAIN history
          /\ history[job.n].kept = 0 => {new, pid, done} \subseteq {0, history[job.n].made}
    /\ \A i \in DOMAIN history : history[i].kept \in {0, history[i].made}

\* While the files only move between the folders or go, what matters is which jobs
\* come; while a conversion is under way the zip has to stay, too.
LEMMA FaithfulOtherwise ==
    ASSUME Faithful, SameHistories, {new', pid', done'} \subseteq {0, new, pid, done},
           Converting' => done' = done,
           Jobs("history")' \subseteq Jobs("history"),
           web' # 0 => ~Around("submission")' /\ ~Around("history")',
           Around("history")' =>
               /\ Around("history") /\ ~InLine("submission")'
               /\ running'.kind = "submission" => pc' = "finish",
           Converting' => Converting,
           pc' = "enqueue" => pc = "enqueue"
    PROVE  Faithful'
<1>1. pc' = "enqueue" => /\ Len(history') \in DOMAIN history'
                         /\ history'[Len(history')].made = done'
                         /\ history'[Len(history')].kept = 0
  BY DEF Faithful, SameHistories, Converting
<1>2. ASSUME NEW job \in Jobs("history")'
      PROVE  /\ job.n \in DOMAIN history'
             /\ history'[job.n].kept = 0 =>
                    {new', pid', done'} \subseteq {0, history'[job.n].made}
  BY <1>2 DEF Faithful, SameHistories
<1>3. \A i \in DOMAIN history' : history'[i].kept \in {0, history'[i].made}
  BY DEF Faithful, SameHistories
<1>4. Converting' => new' \in {0, done'} /\ pid' \in {0, done'}
  BY DEF Faithful
<1> QED
  BY <1>1, <1>2, <1>3, <1>4 DEF Faithful

\* The submission job moves files only while no history is to be written.
LEMMA NextFaithful ==
    ASSUME IInv, JobsUnique, Orderly, Apart, Faithful, Next, Clear(FaithfulRaces)'
    PROVE  Faithful'
<1>a. TypeOK /\ Consistent /\ Line \subseteq Job /\ NoJob.kind = "none"
  BY LineType DEF IInv
<1>b. /\ AcceptFinish \/ (Around("submission")' => Around("submission"))
      /\ EnqueueHistory \/ (Around("history")' => Around("history"))
      /\ EnqueueHistory \/ Jobs("history")' \subseteq Jobs("history")
      /\ AcceptFinish \/ Shutdown \/ (InLine("submission")' => InLine("submission"))
      /\ MarkPending \/ Archive \/ SameHistories
  BY <1>a, WhereJobsGo, WhereKindsGo, WhatHistoriesKeep
<1>c. running.kind = "submission" => Around("submission") /\ web = 0
  BY DEF Around, Faithful
<1>d. Converting \/ pc = "move" => running.kind = "submission"
  BY DEF Converting, Orderly
<1>e. \A job \in Jobs("history") : Around("history")
  BY JobsAround
<1> USE DEF requestVars, taskVars, fileVars, redisVars, workerVars, boundVars
\* The requests: let in while nothing is around, they end alone.
<1>1. CASE AcceptBegin
  <2>1. /\ UNCHANGED <<new, pid, done, pc, running, queue, history>>
        /\ ~ProcessingPdf /\ ~pending /\ raced' = raced \union Unseen
    BY <1>1 DEF AcceptBegin, CanSubmit
  <2>2. ~Around("submission") /\ ~Around("history")
    BY <2>1, <1>a, Seen DEF Unseen, Clear, FaithfulRaces
  <2>3. Line' = Line
    BY <2>1, LineStays
  <2>4. ~Around("submission")' /\ ~Around("history")'
    BY <2>1, <2>2, <2>3 DEF Around, InLine
  <2>5. SameHistories /\ Jobs("history")' \subseteq Jobs("history")
    BY <2>1, <1>1, <1>b DEF AcceptBegin, EnqueueHistory, SameHistories
  <2> QED
    BY <2>1, <2>4, <2>5, FaithfulOtherwise DEF Converting
<1>2. CASE AcceptFinish \/ AcceptAborted
  <2>1. /\ web # 0 /\ web' = 0 /\ UNCHANGED <<pid, done, pc, running, history>>
    BY <1>2 DEF AcceptFinish, AcceptAborted
  <2>2. ~Around("submission") /\ ~Around("history")
    BY <2>1 DEF Faithful
  <2>3. ~Around("history")' /\ Jobs("history")' = {}
    BY <1>2, <1>b, <1>e, <2>2 DEF AcceptFinish, AcceptAborted, EnqueueHistory
  <2>4. ~Converting'
    BY <1>d, <2>1, <2>2 DEF Converting, Around
  <2> QED
    BY <2>1, <2>3, <2>4 DEF Faithful, Converting
\* The submission job takes what is in new: no history is to be written.
<1>3. CASE CompressNew \/ MoveFilesRejected \/ MoveFilesRaises
  <2>1. /\ pc = "move" /\ new' = 0 /\ pc' \in {"unpack", "finish"}
        /\ UNCHANGED <<web, pid, running, history>>
    BY <1>3 DEF CompressNew, MoveFilesRejected, MoveFilesRaises
  <2>2. running.kind = "submission" /\ web = 0 /\ pid = 0
    BY <2>1, <1>c, <1>d DEF Apart
  <2>3. ~Around("history") /\ ~Around("history")' /\ Jobs("history")' = {}
    BY <1>3, <1>b, <1>e, <2>1, <2>2
       DEF Faithful, EnqueueHistory, CompressNew, MoveFilesRejected, MoveFilesRaises
  <2> QED
    BY <2>1, <2>2, <2>3 DEF Faithful
<1>4. CASE ExtractDone \/ MakePdf \/ MakePdfFails \/ SubmissionJobRaises
  <2>1. /\ UNCHANGED <<web, new, pid, done, running, history, queue, retries>>
        /\ pc' \in {"pdf", "mark", "finish"} /\ Converting
    BY <1>4 DEF ExtractDone, MakePdf, MakePdfFails, SubmissionJobRaises, Converting
  <2>2. web' = 0 /\ SameHistories
    BY <1>c, <1>d, <2>1 DEF SameHistories
  <2>3. ~Around("history")
    BY <1>d, <2>1 DEF Faithful, Converting
  <2>4. ~Around("history")' /\ Jobs("history")' \subseteq Jobs("history")
    BY <2>1, <2>3, LineStays DEF Around, InLine, Jobs
  <2> QED
    BY <2>1, <2>2, <2>4, FaithfulOtherwise
<1>5. CASE MarkPending
  <2>1. /\ UNCHANGED <<web, new, pid, done, running>> /\ pc = "mark" /\ pc' = "enqueue"
        /\ history' = Append(history, [made |-> got, kept |-> 0, assessment |-> "none"])
        /\ got = done /\ history \in Seq(Histories)
    BY <1>5, <1>a DEF MarkPending, Apart, TypeOK
  <2>2. web' = 0 /\ ~Around("history")
    BY <1>c, <1>d, <2>1 DEF Converting, Faithful
  <2>3. ~Around("history")' /\ Jobs("history")' = {}
    BY <1>5, <1>b, <1>e, <2>1, <2>2 DEF EnqueueHistory
  <2>4. /\ Len(history') \in DOMAIN history'
        /\ history'[Len(history')] = [made |-> done, kept |-> 0, assessment |-> "none"]
        /\ \A i \in DOMAIN history' : \/ i \in DOMAIN history /\ history'[i] = history[i]
                                      \/ i = Len(history')
    BY <2>1
  <2>5. new' \in {0, done'} /\ pid' \in {0, done'}
    BY <2>1 DEF Faithful, Converting
  <2> QED
    BY <2>1, <2>2, <2>3, <2>4, <2>5 DEF Faithful
\* The history job is enqueued for the history just made, and the lock of the
\* submission job keeps another one out of the queue.
<1>6. CASE EnqueueHistory
  <2>1. /\ UNCHANGED <<web, new, pid, done, running, history, retries>>
        /\ pc = "enqueue" /\ pc' = "finish"
        /\ Enqueue(HistoryJob(Len(history)))
    BY <1>6 DEF EnqueueHistory, Enqueue
  <2>2. running.kind = "submission" /\ running # NoJob /\ web' = 0
    BY <1>a, <1>c, <1>d, <2>1 DEF Converting
  <2>3. ~InLine("submission")
    <3>1. Digest(running) = Digest(SubmissionJob)
      BY <2>2 DEF Digest, SubmissionJob
    <3>2. ~Queued(Digest(SubmissionJob))
      BY <2>2, <3>1 DEF JobsUnique
    <3> QED
      BY <1>a, <3>2, Seen
  <2>4. ~InLine("submission")'
    BY <1>b, <2>1, <2>3 DEF AcceptFinish, Shutdown
  <2>5. /\ HistoryJob(Len(history)) \in Job /\ HistoryJob(Len(history)).n = Len(history)
    BY <1>a, JobFacts DEF TypeOK, HistoryJob
  <2>6. \A job \in Jobs("history")' : job \in Jobs("history") \/ job.n = Len(history)
    BY <1>a, <2>1, <2>5, LineEnqueues DEF Jobs
  <2>7. /\ Len(history) \in DOMAIN history
        /\ history[Len(history)].made = done
        /\ new \in {0, done} /\ pid \in {0, done}
    BY <2>1 DEF Faithful, Converting
  <2>8. \A job \in Jobs("history")' :
            /\ job.n \in DOMAIN history
            /\ history[job.n].kept = 0 => {new, pid, done} \subseteq {0, history[job.n].made}
    BY <2>6, <2>7 DEF Faithful
  <2> QED
    BY <2>1, <2>2, <2>4, <2>7, <2>8 DEF Faithful
\* The history is written from the zip it was asked for.
<1>7. CASE Archive
  <2>1. /\ UNCHANGED <<web, new, pid, done, running, queue>>
        /\ pc = "archive" /\ pc' \in {"assess", "clear"}
        /\ history[running.n].kept = 0 /\ done # 0
        /\ history' = [history EXCEPT ![running.n].kept = done]
    BY <1>7 DEF Archive
  <2>2. running.kind = "history" /\ running \in Jobs("history")
    BY <2>1 DEF Orderly, Jobs
  <2>3. running.n \in DOMAIN history /\ history[running.n].made = done
    BY <2>1, <2>2 DEF Faithful
  <2>4. /\ DOMAIN history' = DOMAIN history
        /\ \A i \in DOMAIN history :
              /\ history[i] \in Histories
              /\ i # running.n => history'[i] = history[i]
        /\ history'[running.n] = [history[running.n] EXCEPT !.kept = done]
    BY <1>a, <2>1, <2>3 DEF TypeOK
  <2>5. history'[running.n].made = done /\ history'[running.n].kept = done
    BY <2>3, <2>4 DEF Histories
  <2>6. /\ Around("submission")' => Around("submission")
        /\ Around("history")' => Around("history")
        /\ Jobs("history")' \subseteq Jobs("history")
        /\ InLine("submission")' => InLine("submission")
    BY <1>7, <1>b, <2>1 DEF AcceptFinish, EnqueueHistory, Shutdown
  <2>7. ASSUME NEW job \in Jobs("history")'
        PROVE  /\ job.n \in DOMAIN history'
               /\ history'[job.n].kept = 0 =>
                      {new, pid, done} \subseteq {0, history'[job.n].made}
    BY <2>1, <2>4, <2>5, <2>6, <2>7 DEF Faithful
  <2>8. \A i \in DOMAIN history' : history'[i].kept \in {0, history'[i].made}
    BY <2>4, <2>5 DEF Faithful
  <2>9. /\ web' # 0 => ~Around("submission")' /\ ~Around("history")'
        /\ Around("history")' => ~InLine("submission")'
    BY <2>1, <2>6 DEF Faithful
  <2> QED
    BY <2>1, <2>2, <2>7, <2>8, <2>9 DEF Faithful, Converting
\* The worker takes a job and lets go of one.
<1>8. CASE Fetch
  <2>1. /\ UNCHANGED <<web, new, pid, done, history>>
        /\ running' \in Line /\ Line = Line' \union {running'}
        /\ pc' = FirstStep[running'.kind]
    BY <1>8, <1>a, LineFetches DEF Fetch
  <2>2. ~Converting' /\ pc' # "enqueue"
    <3>1. running' \in Job
      BY <1>a, <2>1
    <3> QED
      BY <2>1, <3>1 DEF Converting, Job, FirstStep
  <2>3. /\ Around("submission")' => Around("submission")
        /\ Around("history")' => Around("history")
        /\ Jobs("history")' \subseteq Jobs("history")
        /\ InLine("submission")' => InLine("submission")
    <3>1. pc = "idle" /\ web' = web
      BY <1>8, <1>a DEF Consistent, Fetch
    <3>2. ~AcceptFinish /\ ~EnqueueHistory /\ ~Shutdown
      BY <3>1, <1>a DEF AcceptFinish, EnqueueHistory, Shutdown, Consistent
    <3> QED
      BY <3>2, <1>b
  <2>4. running'.kind = "submission" => InLine("submission")
    BY <2>1 DEF InLine
  <2>5. /\ web' # 0 => ~Around("submission")' /\ ~Around("history")'
        /\ Around("history")' => /\ Around("history") /\ ~InLine("submission")'
                                 /\ running'.kind # "submission"
    BY <2>1, <2>3, <2>4 DEF Faithful
  <2>6. SameHistories
    BY <2>1 DEF SameHistories
  <2> QED
    BY <2>1, <2>2, <2>3, <2>5, <2>6, FaithfulOtherwise
<1>9. CASE Finish \/ OverseerRaises \/ Kill \/ Shutdown
  <2>1. /\ UNCHANGED <<web, pid, history>> /\ new' \in {0, new} /\ done' \in {0, new, done}
        /\ running' = NoJob /\ pc' = "idle"
    BY <1>9 DEF Finish, OverseerRaises, Kill, Shutdown, ZipsLeft
  <2>2. /\ Around("submission")' => Around("submission")
        /\ Around("history")' => Around("history")
        /\ Jobs("history")' \subseteq Jobs("history")
    BY <1>9, <1>b
       DEF AcceptFinish, EnqueueHistory, Finish, OverseerRaises, Kill, Shutdown
  <2>3. Around("history")' => ~InLine("submission")'
    <3>1. CASE Shutdown
      <4>1. Line' = Line \union {running} /\ pc # "finish"
        BY <3>1, <1>a, LineShutdown DEF Shutdown
      <4> QED
        BY <4>1, <2>2 DEF Faithful, InLine
    <3>2. CASE ~Shutdown
      BY <1>9, <3>2, <1>b, <2>2 DEF AcceptFinish, Finish, OverseerRaises, Kill, Faithful
    <3> QED
      BY <3>1, <3>2
  <2>4. SameHistories
    BY <2>1 DEF SameHistories
  <2>5. web' # 0 => ~Around("submission")' /\ ~Around("history")'
    BY <2>1, <2>2 DEF Faithful
  <2> QED
    BY <2>1, <2>2, <2>3, <2>4, <2>5, <1>a, FaithfulOtherwise DEF Converting
\* The generator has files only while no submission job is around, and those
\* it has while a history is to be written are those of the zip.
<1>10. CASE RakeStart \/ Reprocess \/ RakeCompress \/ RakeCompressFails \/ RakeKilled
  <2>1. /\ UNCHANGED <<web, pc, running, history, queue>>
        /\ {new', pid', done'} \subseteq {0, new, pid, done}
        /\ Jobs("history")' = Jobs("history")
    BY <1>10, LineStays DEF RakeStart, Reprocess, RakeCompress, RakeCompressFails, RakeKilled,
                            ZipsLeft, Jobs
  <2>2. /\ Around("submission")' <=> Around("submission")
        /\ Around("history")' <=> Around("history")
        /\ InLine("submission")' <=> InLine("submission")
    BY <2>1, LineStays DEF Around, InLine
  <2>3. Converting' => done' = done
    <3>1. CASE RakeStart \/ Reprocess
      BY <3>1 DEF RakeStart, Reprocess
    <3>2. CASE RakeCompress \/ RakeCompressFails \/ RakeKilled
      <4>1. rake # "idle"
        BY <3>2 DEF RakeCompress, RakeCompressFails, RakeKilled
      <4> QED
        BY <4>1, <2>1, <1>d DEF Apart, Around, Converting
    <3> QED
      BY <1>10, <3>1, <3>2
  <2>4. SameHistories
    BY <2>1 DEF SameHistories
  <2> QED
    BY <2>1, <2>2, <2>3, <2>4, FaithfulOtherwise DEF Faithful, Converting
\* All other steps leave the folders alone, and bring no job of these kinds.
<1>13. ASSUME UNCHANGED <<web, new, pid, done, running>>,
              pc' = pc \/ (running.kind # "submission" /\ ~Converting')
       PROVE  Faithful'
  <2>1. CASE MarkPending \/ Archive \/ EnqueueHistory \/ AcceptFinish \/ Shutdown
    BY <2>1, <1>2, <1>5, <1>6, <1>7, <1>9
  <2>2. CASE ~(MarkPending \/ Archive \/ EnqueueHistory \/ AcceptFinish \/ Shutdown)
    <3>1. /\ web' # 0 => ~Around("submission")' /\ ~Around("history")'
          /\ Around("history")' =>
                 /\ Around("history") /\ ~InLine("submission")'
                 /\ running'.kind = "submission" => pc' = "finish"
      BY <1>13, <1>b, <2>2 DEF Faithful
    <3>2. (Converting' => Converting) /\ (pc' = "enqueue" => pc = "enqueue")
      BY <1>13 DEF Converting
    <3> QED
      BY <1>13, <1>b, <2>2, <3>1, <3>2, FaithfulOtherwise
  <2> QED
    BY <2>1, <2>2
<1>14. CASE \/ HistoryJobRaises \/ CreateAssessment \/ SendToOverseer \/ ClearPending
            \/ OverseerStart \/ OverseerVerdict("passed") \/ OverseerVerdict("failed")
            \/ OverseerApply
  <2>1. /\ UNCHANGED <<web, new, pid, done, running>>
        /\ pc \in {"archive", "assess", "send", "clear", "start", "steps", "apply"}
        /\ pc' \in {"send", "clear", "finish", "steps", "apply"}
    BY <1>14 DEF HistoryJobRaises, CreateAssessment, SendToOverseer, ClearPending,
                 OverseerStart, OverseerVerdict, OverseerApply
  <2>2. running.kind # "submission"
    BY <2>1 DEF Orderly
  <2> QED
    BY <1>13, <2>1, <2>2 DEF Converting
<1>15. CASE RetryDue \/ Restart \/ ReapLock \/ RakeExtract \/ RakePdf \/ RakePdfFails
            \/ Retrigger \/ TutorAssess
  BY <1>13, <1>15 DEF RetryDue, Restart, ReapLock, RakeExtract, RakePdf, RakePdfFails,
                      Retrigger, TutorAssess
<1>16. CASE ClearAbandonedSubmission \/ ClearAbandonedMarker \/ ClearAbandonedAssessment
  BY <1>13, <1>16
     DEF ClearAbandonedSubmission, ClearAbandonedMarker, ClearAbandonedAssessment
<1> QED
  BY <1>1, <1>2, <1>3, <1>4, <1>5, <1>6, <1>7, <1>8, <1>9, <1>10, <1>14, <1>15,
     <1>16 DEF Next, Request, Worker, Generator, Fault, Staff

UnlessFaithful == Clear(FaithfulRaces) => Faithful

LEMMA StillFaithful == ASSUME Faithful, UNCHANGED vars PROVE Faithful'
<1>1. /\ UNCHANGED <<web, new, pid, done, running, pc, queue, retries, history>>
  BY DEF vars, requestVars, fileVars, workerVars, redisVars
<1>2. Line' = Line /\ SameHistories
  BY <1>1, LineStays DEF SameHistories
<1>3. /\ Around("submission")' <=> Around("submission")
      /\ Around("history")' <=> Around("history")
      /\ InLine("submission")' <=> InLine("submission")
      /\ Jobs("history")' = Jobs("history")
  BY <1>1, <1>2 DEF Around, InLine, Jobs
<1> QED
  BY <1>1, <1>3 DEF Faithful, Converting

LEMMA NextUnlessFaithful ==
    ASSUME IInv, JobsUnique, Orderly, OrderlyApart, UnlessFaithful, [Next]_vars
    PROVE  UnlessFaithful'
<1> SUFFICES ASSUME Clear(FaithfulRaces)' PROVE Faithful'
  BY DEF UnlessFaithful, FaithfulRaces
<1>1. Clear(FaithfulRaces)
  BY RacedGrows, StillClear
<1>2. Clear(ApartRaces)
  BY <1>1 DEF Clear, FaithfulRaces, ApartRaces
<1> QED
  BY <1>1, <1>2, NextFaithful, StillFaithful DEF UnlessFaithful, OrderlyApart

LEMMA InitUnlessFaithful == Init => UnlessFaithful
<1> SUFFICES ASSUME Init PROVE Faithful
  BY DEF UnlessFaithful
<1>1. Line = {} /\ Jobs("history") = {} /\ ~Around("submission") /\ ~Around("history")
  BY DEF Init, Line, Jobs, Around, InLine, NoJob
<1> QED
  BY <1>1 DEF Init, Faithful, Converting

\* What is invariant of the histories (Faithful), unless a request was let in
\* behind a job or the generator, or a queued job was doubled.
THEOREM FaithfulUnlessRaced == Spec => []UnlessFaithful
<1>1. Init => UnlessFaithful
  BY InitUnlessFaithful
<1>2. /\ IInv /\ JobsUnique /\ (Orderly /\ OrderlyApart) /\ UnlessFaithful /\ [Next]_vars
      => UnlessFaithful'
  BY NextUnlessFaithful
<1> QED
  BY <1>1, <1>2, Inductive, UniqueJobs, KeptApart, PTL DEF Spec

\* Every history keeps the files of the submission it was made for
\* (HistoryFaithful), for any number of uploads, crashes and staff actions.
THEOREM HistoriesFaithful == Spec => []HistoryFaithful
<1>1. UnlessFaithful => HistoryFaithful
  BY DEF UnlessFaithful, FaithfulRaces, Faithful, HistoryFaithful
<1> QED
  BY <1>1, FaithfulUnlessRaced, PTL

----------------------------------------------------------------------------
(* VerdictOfLatest.  First, a task without Overseer has neither assessments *)
(* nor jobs for them: AwaitingOverseer is not asked then.                   *)

NoneDisabled ==
    ~OverseerEnabled =>
        /\ Jobs("overseer") = {}
        /\ \A i \in DOMAIN history : history[i].assessment = "none"
        /\ pc \notin {"assess", "send"}

LEMMA NextNoneDisabled ==
    ASSUME IInv, Orderly, NoneDisabled, [Next]_vars PROVE NoneDisabled'
<1> SUFFICES ASSUME ~OverseerEnabled PROVE NoneDisabled'
  BY DEF NoneDisabled
<1>a. TypeOK /\ Consistent
  BY DEF IInv
<1>b. running.kind # "overseer"
  BY DEF NoneDisabled, Jobs
<1> USE DEF requestVars, taskVars, fileVars, redisVars, workerVars, boundVars
<1>1. CASE SendToOverseer \/ CreateAssessment
  BY <1>1 DEF SendToOverseer, CreateAssessment, NoneDisabled
<1>2. CASE \/ OverseerStart \/ OverseerRaises \/ OverseerVerdict("passed")
           \/ OverseerVerdict("failed") \/ OverseerApply
  BY <1>2, <1>b DEF OverseerStart, OverseerRaises, OverseerVerdict, OverseerApply, Orderly
<1>3. CASE Retrigger \/ ClearAbandonedAssessment
  BY <1>3 DEF Retrigger, ClearAbandonedAssessment, PreQueued, NoneDisabled
\* The histories, and where the worker goes.
<1>4. CASE MarkPending
  <2>1. /\ history' = Append(history, [made |-> got, kept |-> 0, assessment |-> "none"])
        /\ history \in Seq(Histories) /\ pc' = "enqueue"
        /\ UNCHANGED <<queue, retries, running>>
    BY <1>4, <1>a DEF MarkPending, TypeOK
  <2>2. \A i \in DOMAIN history' :
            \/ i \in DOMAIN history /\ history'[i] = history[i]
            \/ history'[i].assessment = "none"
    BY <2>1
  <2>3. Jobs("overseer")' = Jobs("overseer")
    BY <2>1, LineStays DEF Jobs
  <2> QED
    BY <2>1, <2>2, <2>3 DEF NoneDisabled
<1>5. CASE Archive
  <2>1. /\ history' = [history EXCEPT ![running.n].kept = done]
        /\ history \in Seq(Histories) /\ pc' = "clear"
        /\ UNCHANGED <<queue, retries, running>>
    BY <1>5, <1>a DEF Archive, TypeOK
  <2>2. \A i \in DOMAIN history' :
            i \in DOMAIN history /\ history'[i].assessment = history[i].assessment
    BY <2>1 DEF Histories
  <2>3. Jobs("overseer")' = Jobs("overseer")
    BY <2>1, LineStays DEF Jobs
  <2> QED
    BY <2>1, <2>2, <2>3 DEF NoneDisabled
<1>6. ASSUME history' = history, pc' \notin {"assess", "send"},
             Next \/ UNCHANGED vars
      PROVE  NoneDisabled'
  <2>1. CASE SendToOverseer \/ Retrigger \/ OverseerRaises
    BY <2>1, <1>1, <1>2, <1>3
  <2>2. CASE ~(SendToOverseer \/ Retrigger \/ OverseerRaises) /\ Next
    <3>1. Jobs("overseer")' \subseteq Jobs("overseer")
      BY <2>2, WhereKindsGo
    <3> QED
      BY <1>6, <3>1 DEF NoneDisabled
  <2>3. CASE UNCHANGED vars
    <3>1. Jobs("overseer")' = Jobs("overseer")
      BY <2>3, LineStays DEF Jobs, vars
    <3> QED
      BY <1>6, <3>1 DEF NoneDisabled
  <2> QED
    BY <1>6, <2>1, <2>2, <2>3
<1>7. pc \notin {"assess", "send"}
  BY DEF NoneDisabled
<1>8. CASE AcceptBegin \/ Request \/ Reprocess \/ TutorAssess \/ Fault
  BY <1>6, <1>7, <1>8 DEF AcceptBegin, Request, AcceptFinish, AcceptAborted, Reprocess,
                          TutorAssess, Fault, Kill, Shutdown, RakeKilled, Next, Staff
<1>9. CASE Fetch
  <2>1. history' = history /\ pc' = FirstStep[running'.kind] /\ running' \in Job
    BY <1>9, <1>a, LineFetches, LineType DEF Fetch
  <2>2. pc' \notin {"assess", "send"}
    BY <2>1 DEF Job, FirstStep
  <2> QED
    BY <1>6, <1>9, <2>1, <2>2 DEF Next, Worker
<1>10. CASE \/ Finish \/ CompressNew \/ ExtractDone \/ MoveFilesRejected \/ MoveFilesRaises
            \/ MakePdf \/ MakePdfFails \/ EnqueueHistory \/ SubmissionJobRaises
            \/ HistoryJobRaises \/ ClearPending
  BY <1>6, <1>10
     DEF Finish, CompressNew, ExtractDone, MoveFilesRejected, MoveFilesRaises, MakePdf,
         MakePdfFails, EnqueueHistory, SubmissionJobRaises, HistoryJobRaises, ClearPending,
         Next, Worker
<1>11. CASE RetryDue \/ Restart \/ ReapLock \/ RakeStart \/ Generator
  BY <1>6, <1>7, <1>11 DEF RetryDue, Restart, ReapLock, RakeStart, Generator, RakeCompress,
                           RakeCompressFails, RakeExtract, RakePdf, RakePdfFails, Next
<1>12. CASE ClearAbandonedSubmission \/ ClearAbandonedMarker \/ UNCHANGED vars
  BY <1>6, <1>7, <1>12 DEF ClearAbandonedSubmission, ClearAbandonedMarker, vars, Next
<1> QED
  BY <1>1, <1>2, <1>3, <1>4, <1>5, <1>8, <1>9, <1>10, <1>11, <1>12 DEF Next, Worker, Staff

\* The last accepted submission is what the jobs at hand are about, or the
\* student was told that it failed.
LatestRaces == {"behind_generator", "behind_job", "behind_overseer", "cut_short",
                "doubled", "reprocessed", "retriggered"}

\* What the next submission job converts.
Source == IF new # 0 THEN new ELSE done

LatestIs(upload) == accepted \in told \union {upload}

Latest ==
    /\ web # 0 => Jobs("overseer") = {}
    /\ \A job \in Jobs("overseer") :
          /\ job.n \in DOMAIN history
          /\ history[job.n].kept # 0
          /\ LatestIs(history[job.n].kept)
    /\ Around("submission") => LatestIs(Source)
    /\ \A job \in Jobs("history") :
          history[job.n].kept = 0 => LatestIs(history[job.n].made)
    /\ pc \in {"assess", "send"} => /\ running.n \in DOMAIN history
                                    /\ history[running.n].kept # 0
                                    /\ LatestIs(history[running.n].kept)

\* Jobs that go, and failures that are told, leave this as it is.
LEMMA LatestOtherwise ==
    ASSUME Latest, SameHistories, accepted' = accepted, told \subseteq told', web' = web,
           Jobs("overseer")' \subseteq Jobs("overseer"),
           Jobs("history")' \subseteq Jobs("history"),
           \A job \in Jobs("history") : job.n \in DOMAIN history,
           Around("submission")' => \/ LatestIs(Source)'
                                    \/ Around("submission") /\ Source' = Source,
           pc' \in {"assess", "send"} =>
               pc \in {"assess", "send"} /\ running'.n = running.n
    PROVE  Latest'
<1>1. \A upload : LatestIs(upload) => accepted' \in told' \union {upload}
  BY DEF LatestIs
<1>2. ASSUME NEW job \in Jobs("overseer")'
      PROVE  /\ job.n \in DOMAIN history'
             /\ history'[job.n].kept # 0
             /\ LatestIs(history[job.n].kept)'
  BY <1>1, <1>2 DEF Latest, SameHistories, LatestIs
<1>3. Around("submission")' => LatestIs(Source)'
  BY <1>1 DEF Latest, LatestIs
<1>4. ASSUME NEW job \in Jobs("history")', history'[job.n].kept = 0
      PROVE  LatestIs(history[job.n].made)'
  <2>1. job \in Jobs("history") /\ job.n \in DOMAIN history
    BY <1>4
  <2>2. history[job.n].kept = 0 /\ history'[job.n].made = history[job.n].made
    BY <1>4, <2>1 DEF SameHistories
  <2>3. LatestIs(history[job.n].made)
    BY <2>1, <2>2 DEF Latest
  <2> QED
    BY <1>1, <2>2, <2>3 DEF LatestIs
<1>5. pc' \in {"assess", "send"} => /\ running'.n \in DOMAIN history'
                                    /\ history'[running'.n].kept # 0
                                    /\ LatestIs(history[running.n].kept)'
  BY <1>1 DEF Latest, SameHistories, LatestIs
<1>6. web' # 0 => Jobs("overseer")' = {}
  BY DEF Latest
<1> QED
  BY <1>2, <1>3, <1>4, <1>5, <1>6 DEF Latest

LEMMA NextLatest ==
    ASSUME IInv, JobsUnique, Orderly, Apart, Apart', Faithful, NoneDisabled, Latest,
           Next, Clear(LatestRaces)'
    PROVE  Latest'
<1>a. TypeOK /\ Consistent /\ Line \subseteq Job /\ NoJob.kind = "none"
  BY LineType DEF IInv
<1>b. /\ AcceptFinish \/ (Around("submission")' => Around("submission"))
      /\ EnqueueHistory \/ (Around("history")' => Around("history"))
      /\ EnqueueHistory \/ Jobs("history")' \subseteq Jobs("history")
      /\ SendToOverseer \/ Retrigger \/ OverseerRaises
         \/ Jobs("overseer")' \subseteq Jobs("overseer")
      /\ MarkPending \/ Archive \/ SameHistories
  BY <1>a, WhereJobsGo, WhereKindsGo, WhatHistoriesKeep
<1>c. /\ running.kind \in {"submission", "history"} => Around(running.kind) /\ web = 0
      /\ running.kind = "overseer" => running \in Jobs("overseer") /\ web = 0
  BY DEF Around, Faithful, Latest, Jobs
<1>d. /\ pc \in {"move", "unpack", "pdf", "mark", "enqueue"} => running.kind = "submission"
      /\ pc \in {"archive", "assess", "send", "clear"} => running.kind = "history"
      /\ pc \in {"start", "steps", "apply"} => running.kind = "overseer"
  BY DEF Orderly
<1>e. /\ \A job \in Jobs("history") : Around("history") /\ job.n \in DOMAIN history
      /\ running.kind = "submission" /\ pc # "finish" => Jobs("history") = {}
  <2>1. \A job \in Jobs("history") : Around("history")
    BY JobsAround
  <2> QED
    BY <2>1 DEF Faithful
<1> USE DEF requestVars, taskVars, fileVars, redisVars, workerVars, boundVars
\* A request is let in only when no Overseer job is left.
<1>1. CASE AcceptBegin
  <2>1. /\ UNCHANGED <<accepted, told, new, done, pc, running, queue, retries, history>>
        /\ ~AwaitingOverseer /\ raced' = raced \union Unseen
    BY <1>1 DEF AcceptBegin, CanSubmit
  <2>2. Jobs("overseer") = {}
    <3>1. CASE ~OverseerEnabled
      BY <3>1 DEF NoneDisabled
    <3>2. CASE OverseerEnabled
      <4>1. SUFFICES ASSUME NEW job \in Jobs("overseer") PROVE FALSE
        OBVIOUS
      <4>2. job.n \in DOMAIN history /\ ~PreQueued(job.n) /\ job.n \in Nat
        BY <1>a, <2>1, <3>2, <4>1 DEF Latest, AwaitingOverseer, TypeOK
      <4>3. LET d == Digest(OverseerJob(job.n)) IN Present(d) \/ Waiting(d)
        BY <1>a, <4>1, <4>2, Seen DEF Jobs
      <4>4. "behind_overseer" \in Unseen
        BY <4>2, <4>3 DEF Unseen
      <4> QED
        BY <2>1, <4>4 DEF Clear, LatestRaces
    <3> QED
      BY <3>1, <3>2
  <2>3. /\ Jobs("overseer")' = {} /\ Line' = Line
        /\ Jobs("history")' = Jobs("history") /\ Source' = Source
    BY <2>1, <2>2, LineStays DEF Jobs, Source
  <2> QED
    BY <2>1, <2>2, <2>3 DEF Latest, LatestIs, Around, InLine
<1>2. CASE AcceptFinish \/ AcceptAborted
  <2>1. /\ web # 0 /\ web' = 0 /\ new' = web
        /\ UNCHANGED <<told, done, pc, running, retries, history>>
    BY <1>2 DEF AcceptFinish, AcceptAborted, Enqueue
  <2>2. /\ Jobs("overseer") = {} /\ ~Around("submission") /\ ~Around("history")
        /\ pc \notin {"assess", "send"}
    BY <1>c, <1>d, <2>1 DEF Latest, Faithful
  <2>3. Jobs("overseer")' = {} /\ Jobs("history")' = {}
    <3>1. ~SendToOverseer /\ ~Retrigger /\ ~OverseerRaises /\ ~EnqueueHistory
      BY <1>2, <2>1 DEF AcceptFinish, AcceptAborted, SendToOverseer, Retrigger,
                        OverseerRaises, EnqueueHistory
    <3> QED
      BY <1>b, <1>e, <2>2, <3>1
  <2>4. Around("submission")' => accepted' = new' /\ new' # 0
    <3>1. CASE AcceptFinish
      BY <3>1, <2>1 DEF AcceptFinish
    <3>2. CASE AcceptAborted /\ ~AcceptFinish
      BY <3>2, <1>b, <2>2
    <3> QED
      BY <1>2, <3>1, <3>2
  <2> QED
    BY <2>1, <2>2, <2>3, <2>4 DEF Latest, LatestIs, Source
\* Those that take files from new leave them in the zip, or tell.
<1>3. CASE CompressNew \/ MoveFilesRejected \/ MoveFilesRaises
  <2>1. /\ pc = "move" /\ new' = 0 /\ pc' \in {"unpack", "finish"} /\ told \subseteq told'
        /\ UNCHANGED <<web, accepted, running, queue, retries, history>>
        /\ Source' = Source \/ (IF new # 0 THEN new ELSE accepted) \in told' \union {0}
    BY <1>3 DEF CompressNew, MoveFilesRejected, MoveFilesRaises, Source
  <2>2. Around("submission") /\ accepted # 0
    BY <1>c, <1>d, <2>1 DEF Orderly
  <2>3. Source' = Source \/ LatestIs(Source)'
    BY <2>1, <2>2 DEF Latest, LatestIs, Source
  <2>4. /\ Jobs("overseer")' = Jobs("overseer") /\ Jobs("history")' = Jobs("history")
        /\ SameHistories
    BY <2>1, LineStays DEF Jobs, SameHistories
  <2> QED
    BY <1>e, <2>1, <2>2, <2>3, <2>4, LatestOtherwise
<1>4. CASE MarkPending
  <2>1. /\ UNCHANGED <<web, accepted, told, new, done, running, queue, retries>>
        /\ pc' = "enqueue" /\ history \in Seq(Histories)
        /\ history' = Append(history, [made |-> got, kept |-> 0, assessment |-> "none"])
    BY <1>4, <1>a DEF MarkPending, TypeOK
  <2>2. \A i \in DOMAIN history : i \in DOMAIN history' /\ history'[i] = history[i]
    BY <2>1
  <2>3. /\ Jobs("overseer")' = Jobs("overseer") /\ Jobs("history")' = {}
        /\ Around("submission")' = Around("submission") /\ Source' = Source
    BY <1>4, <1>d, <1>e, <2>1, LineStays DEF MarkPending, Jobs, Around, InLine, Source
  <2>4. \A job \in Jobs("overseer")' :
            /\ job.n \in DOMAIN history'
            /\ history'[job.n].kept # 0
            /\ accepted' \in told' \union {history'[job.n].kept}
    BY <2>1, <2>2, <2>3 DEF Latest, LatestIs
  <2> QED
    BY <2>1, <2>3, <2>4 DEF Latest, LatestIs
\* The history asked for is that of the submission converted ...
<1>5. CASE EnqueueHistory
  <2>1. /\ UNCHANGED <<web, accepted, told, new, done, running, history, retries>>
        /\ pc = "enqueue" /\ pc' = "finish" /\ Enqueue(HistoryJob(Len(history)))
    BY <1>5 DEF EnqueueHistory, Enqueue
  <2>2. /\ Around("submission") /\ web' = 0 /\ new \in {0, done}
        /\ history[Len(history)].made = done /\ Jobs("history") = {}
    BY <1>c, <1>d, <1>e, <2>1 DEF Faithful, Converting
  <2>3. LatestIs(done) /\ Source' = Source
    BY <2>1, <2>2 DEF Latest, Source
  <2>4. Jobs("overseer")' \subseteq Jobs("overseer")
    BY <1>b, <2>1, <1>d DEF SendToOverseer, Retrigger, OverseerRaises
  <2>5. Around("submission")' => Around("submission")
    BY <1>b, <1>5, <2>1, <2>2 DEF AcceptFinish
  <2>6. \A job \in Jobs("history")' : job.n = Len(history)
    <3>1. /\ HistoryJob(Len(history)) \in Job
          /\ HistoryJob(Len(history)).n = Len(history)
      BY <1>a, JobFacts DEF TypeOK, HistoryJob
    <3> QED
      BY <1>a, <2>1, <2>2, <3>1, LineEnqueues DEF Jobs
  <2> QED
    BY <2>1, <2>2, <2>3, <2>4, <2>5, <2>6 DEF Latest, LatestIs
\* ... the one written is the one of the zip ...
<1>6. CASE Archive
  <2>1. /\ UNCHANGED <<web, accepted, told, new, done, running, queue, retries>>
        /\ pc = "archive" /\ pc' \in {"assess", "clear"}
        /\ history[running.n].kept = 0 /\ done # 0
        /\ history' = [history EXCEPT ![running.n].kept = done]
    BY <1>6 DEF Archive
  <2>2. /\ running.n \in DOMAIN history /\ LatestIs(done)
    <3>1. running \in Jobs("history")
      BY <1>d, <2>1 DEF Jobs
    <3>2. running.n \in DOMAIN history /\ history[running.n].made = done
      BY <2>1, <3>1 DEF Faithful
    <3> QED
      BY <2>1, <3>1, <3>2 DEF Latest
  <2>3. /\ DOMAIN history' = DOMAIN history
        /\ \A i \in DOMAIN history : i # running.n => history'[i] = history[i]
        /\ history'[running.n].kept = done
    <3>1. /\ DOMAIN history' = DOMAIN history
          /\ \A i \in DOMAIN history : i # running.n => history'[i] = history[i]
          /\ history'[running.n] = [history[running.n] EXCEPT !.kept = done]
          /\ history[running.n] \in Histories
      BY <1>a, <2>1, <2>2 DEF TypeOK
    <3> QED
      BY <3>1 DEF Histories
  <2>4. /\ Jobs("overseer")' = Jobs("overseer") /\ Jobs("history")' = Jobs("history")
        /\ Around("submission")' = Around("submission") /\ Source' = Source
    BY <2>1, LineStays DEF Jobs, Around, InLine, Source
  <2>5. \A job \in Jobs("overseer")' :
            /\ job.n \in DOMAIN history'
            /\ history'[job.n].kept # 0
            /\ accepted' \in told' \union {history'[job.n].kept}
    BY <2>1, <2>3, <2>4 DEF Latest, LatestIs
  <2>6. \A job \in Jobs("history")' :
            history'[job.n].kept = 0 => accepted' \in told' \union {history'[job.n].made}
    BY <1>e, <2>1, <2>3, <2>4 DEF Latest, LatestIs
  <2> QED
    BY <2>1, <2>2, <2>3, <2>4, <2>5, <2>6 DEF Latest, LatestIs
\* ... and it is the one sent to Overseer.
<1>7. ASSUME NEW i \in Nat, Enqueue(OverseerJob(i)), i \in DOMAIN history,
             history[i].kept # 0, LatestIs(history[i].kept),
             UNCHANGED <<web, accepted, told, new, done, running, history>>, web = 0,
             pc' \notin {"assess", "send"} \/ pc' = pc
      PROVE  Latest'
  <2>1. OverseerJob(i) \in Job /\ OverseerJob(i).kind = "overseer" /\ OverseerJob(i).n = i
    BY JobFacts DEF OverseerJob
  <2>2. (Line' = Line \/ Line' = Line \union {OverseerJob(i)}) /\ retries' = retries
    BY <1>7, <1>a, <2>1, LineEnqueues
  <2>3. /\ \A job \in Jobs("overseer")' : job \in Jobs("overseer") \/ job.n = i
        /\ Around("submission")' => Around("submission")
        /\ Jobs("history")' \subseteq Jobs("history") /\ Source' = Source
    BY <1>7, <2>1, <2>2 DEF Jobs, Around, InLine, Source
  <2>4. ASSUME NEW job \in Jobs("overseer")'
        PROVE  /\ job.n \in DOMAIN history
               /\ history[job.n].kept # 0
               /\ LatestIs(history[job.n].kept)
    BY <1>7, <2>3, <2>4 DEF Latest
  <2> QED
    BY <1>7, <2>3, <2>4 DEF Latest, LatestIs
<1>8. CASE SendToOverseer
  <2>1. /\ pc = "send" /\ pc' = "clear" /\ Enqueue(OverseerJob(running.n))
        /\ UNCHANGED <<web, accepted, told, new, done, running, history>>
    BY <1>8 DEF SendToOverseer
  <2>2. /\ running.n \in Nat /\ web = 0 /\ running.n \in DOMAIN history
        /\ history[running.n].kept # 0 /\ LatestIs(history[running.n].kept)
    BY <1>a, <1>c, <1>d, <2>1, JobFacts DEF TypeOK, Latest
  <2> QED
    BY <1>7, <2>1, <2>2
<1>9. CASE Retrigger
  <2>1. PICK i \in DOMAIN history :
             /\ Enqueue(OverseerJob(i)) /\ history[i].kept # 0
             /\ raced' = IF history[i].kept # accepted \/ web # 0
                         THEN raced \union {"retriggered"} ELSE raced
             /\ UNCHANGED <<web, accepted, told, new, done, running, history, pc>>
    BY <1>9 DEF Retrigger
  <2>2. history[i].kept = accepted /\ web = 0
    BY <2>1 DEF Clear, LatestRaces
  <2>3. i \in Nat /\ LatestIs(history[i].kept)
    BY <1>a, <2>1, <2>2 DEF TypeOK, LatestIs
  <2> QED
    BY <1>7, <2>1, <2>2, <2>3
<1>10. CASE OverseerRaises
  <2>1. /\ UNCHANGED <<web, accepted, told, new, done, queue, history>>
        /\ running' = NoJob /\ pc' = "idle"
        /\ retries' \in {retries, retries \union {[running EXCEPT !.try = 1]}}
        /\ running.kind = "overseer" /\ running \in Job
    BY <1>10, <1>a, <1>d DEF OverseerRaises, Consistent, TypeOK
  <2>2. [running EXCEPT !.try = 1].n = running.n
    BY <2>1 DEF Job
  <2>3. \A job \in Jobs("overseer")' : \E other \in Jobs("overseer") : job.n = other.n
    BY <2>1, <2>2, <1>a, <1>c, LineStays DEF Jobs
  <2>4. /\ Around("submission")' => Around("submission")
        /\ Jobs("history")' \subseteq Jobs("history") /\ Source' = Source
    <3>1. NoJob.kind # "submission" /\ Line' = Line
      BY <2>1, <1>a, LineStays
    <3>2. ~EnqueueHistory
      BY <2>1, <1>d DEF EnqueueHistory
    <3> QED
      BY <2>1, <3>1, <3>2, <1>b DEF Around, InLine, Source
  <2>5. ASSUME NEW job \in Jobs("overseer")'
        PROVE  /\ job.n \in DOMAIN history
               /\ history[job.n].kept # 0
               /\ LatestIs(history[job.n].kept)
    <3>1. PICK other \in Jobs("overseer") : job.n = other.n
      BY <2>3, <2>5
    <3> QED
      BY <3>1 DEF Latest
  <2> QED
    BY <2>1, <2>4, <2>5, <1>c DEF Latest, LatestIs
\* The generator's and the staff's files come from the folders and the zip.
<1>11. ASSUME UNCHANGED <<web, accepted, pc, running, queue, retries, history>>,
              told \subseteq told', Around("submission") => Source' = Source
       PROVE  Latest'
  <2>1. /\ Jobs("overseer")' = Jobs("overseer") /\ Jobs("history")' = Jobs("history")
        /\ SameHistories /\ Around("submission")' = Around("submission")
    BY <1>11, LineStays DEF Jobs, Around, InLine, SameHistories
  <2> QED
    BY <1>e, <1>11, <2>1, LatestOtherwise
<1>12. CASE Reprocess
  <2>1. /\ new' = done /\ done' = done
        /\ raced' = IF new # 0 \/ pid # 0 \/ rake # "idle"
                    THEN raced \union {"reprocessed"} ELSE raced
    BY <1>12 DEF Reprocess
  <2>2. new = 0
    BY <2>1 DEF Clear, LatestRaces
  <2>3. Source' = Source
    BY <2>1, <2>2 DEF Source
  <2> QED
    BY <1>11, <1>12, <2>3 DEF Reprocess
<1>13. CASE RakeStart
  <2>1. /\ UNCHANGED <<web, accepted, told, done, pc, running, queue, retries, history>>
        /\ Claimable => pid' # 0
        /\ ~Claimable => pid # 0
    BY <1>13 DEF RakeStart, Claimable
  <2>2. Around("submission")' = Around("submission")
    BY <2>1, LineStays DEF Around, InLine
  <2>3. ~Around("submission")
    BY <2>1, <2>2 DEF Apart
  <2> QED
    BY <1>11, <2>1, <2>3
<1>14. CASE RakeCompress \/ RakeCompressFails \/ RakeKilled
  <2>1. /\ UNCHANGED <<web, accepted, pc, running, queue, retries, history>>
        /\ told \subseteq told' /\ rake # "idle"
    BY <1>14 DEF RakeCompress, RakeCompressFails, RakeKilled
  <2> QED
    BY <1>11, <2>1 DEF Apart
\* All other steps leave what is to be converted alone.
<1>15. ASSUME UNCHANGED <<web, accepted>>, Source' = Source, told \subseteq told',
              pc' \notin {"assess", "send"} \/ (pc' = pc /\ running' = running)
                  \/ (pc = "assess" /\ running' = running)
       PROVE  Latest'
  <2>1. CASE \/ SendToOverseer \/ Retrigger \/ OverseerRaises \/ MarkPending \/ Archive
             \/ EnqueueHistory \/ AcceptFinish
    BY <2>1, <1>2, <1>4, <1>5, <1>6, <1>8, <1>9, <1>10
  <2>2. CASE ~(\/ SendToOverseer \/ Retrigger \/ OverseerRaises \/ MarkPending \/ Archive
               \/ EnqueueHistory \/ AcceptFinish)
    <3>1. /\ SameHistories /\ Jobs("overseer")' \subseteq Jobs("overseer")
          /\ Around("submission")' => Around("submission")
          /\ Jobs("history")' \subseteq Jobs("history")
      BY <1>b, <2>2
    <3>2. pc' \in {"assess", "send"} => pc \in {"assess", "send"} /\ running'.n = running.n
      BY <1>15
    <3> QED
      BY <1>e, <1>15, <3>1, <3>2, LatestOtherwise
  <2> QED
    BY <2>1, <2>2
<1>16. CASE Fetch
  <2>1. running' \in Job /\ pc' = FirstStep[running'.kind]
    BY <1>16, <1>a, LineFetches, LineType
  <2>2. pc' \notin {"assess", "send"}
    BY <2>1 DEF Job, FirstStep
  <2> QED
    BY <1>15, <1>16, <2>2 DEF Fetch, Source
<1>17. CASE \/ Finish \/ ExtractDone \/ MakePdf \/ MakePdfFails \/ SubmissionJobRaises
            \/ HistoryJobRaises \/ CreateAssessment \/ ClearPending
  BY <1>15, <1>17 DEF Finish, ExtractDone, MakePdf, MakePdfFails, SubmissionJobRaises,
                      HistoryJobRaises, CreateAssessment, ClearPending, Source
<1>18. CASE \/ OverseerStart \/ OverseerVerdict("passed") \/ OverseerVerdict("failed")
            \/ OverseerApply
  BY <1>15, <1>18 DEF OverseerStart, OverseerVerdict, OverseerApply, Source
<1>19. CASE RetryDue \/ Restart \/ ReapLock \/ RakeExtract \/ RakePdf \/ RakePdfFails
            \/ TutorAssess
  BY <1>15, <1>19 DEF RetryDue, Restart, ReapLock, RakeExtract, RakePdf, RakePdfFails,
                      TutorAssess, Source
\* A crash over the zip leaves the folder; a shutdown that does not is a race.
<1>20. CASE Kill \/ Shutdown
  <2>1. /\ UNCHANGED <<web, accepted, told>> /\ pc' = "idle"
        /\ \/ UNCHANGED <<new, done>>
           \/ new # 0 /\ new' = new
           \/ new # 0 /\ new' = 0 /\ done' = new
    BY <1>20 DEF Kill, Shutdown, Clear, LatestRaces
  <2>2. Source' = Source
    BY <2>1 DEF Source
  <2> QED
    BY <1>15, <2>1, <2>2
<1>21. CASE ClearAbandonedSubmission \/ ClearAbandonedMarker \/ ClearAbandonedAssessment
  BY <1>15, <1>21
     DEF ClearAbandonedSubmission, ClearAbandonedMarker, ClearAbandonedAssessment, Source
<1> QED
  BY <1>1, <1>2, <1>3, <1>4, <1>5, <1>6, <1>8, <1>9, <1>10, <1>12, <1>13, <1>14, <1>16,
     <1>17, <1>18, <1>19, <1>20, <1>21
     DEF Next, Request, Worker, Generator, Fault, Staff

UnlessLatest == Clear(LatestRaces) => Latest

LEMMA NextUnlessLatest ==
    ASSUME IInv, JobsUnique, Orderly, OrderlyApart, OrderlyApart', UnlessFaithful,
           NoneDisabled, UnlessLatest, [Next]_vars
    PROVE  UnlessLatest'
<1> SUFFICES ASSUME Clear(LatestRaces)' PROVE Latest'
  BY DEF UnlessLatest, LatestRaces
<1>1. Clear(LatestRaces)
  BY RacedGrows, StillClear
<1>2. /\ Clear(ApartRaces) /\ Clear(ApartRaces)' /\ Clear(FaithfulRaces)
  BY <1>1 DEF Clear, LatestRaces, FaithfulRaces, ApartRaces
<1>3. Apart /\ Apart' /\ Faithful /\ Latest
  BY <1>1, <1>2 DEF OrderlyApart, UnlessFaithful, UnlessLatest
<1>4. CASE Next
  BY <1>3, <1>4, NextLatest
<1>5. CASE UNCHANGED vars
  <2>1. UNCHANGED <<web, accepted, told, new, done, pc, running, queue, retries, history>>
    BY <1>5 DEF vars, requestVars, taskVars, fileVars, workerVars, redisVars
  <2>2. /\ Jobs("overseer")' = Jobs("overseer") /\ Jobs("history")' = Jobs("history")
        /\ Around("submission")' = Around("submission") /\ Source' = Source
        /\ SameHistories
    BY <2>1, LineStays DEF Jobs, Around, InLine, SameHistories, Source
  <2>3. \A job \in Jobs("history") : job.n \in DOMAIN history
    BY <1>3 DEF Faithful
  <2> QED
    BY <1>3, <2>1, <2>2, <2>3, LatestOtherwise
<1> QED
  BY <1>4, <1>5

LEMMA InitUnlessLatest == Init => NoneDisabled /\ UnlessLatest
<1> SUFFICES ASSUME Init PROVE NoneDisabled /\ Latest
  BY DEF UnlessLatest
<1>1. Line = {} /\ Jobs("overseer") = {} /\ Jobs("history") = {} /\ ~Around("submission")
  BY DEF Init, Line, Jobs, Around, InLine, NoJob
<1> QED
  BY <1>1 DEF Init, Latest, NoneDisabled

\* What is invariant of the jobs and the last accepted submission (Latest),
\* unless one of the races that VerdictOfLatest names has happened.
THEOREM LatestUnlessRaced == Spec => [](NoneDisabled /\ UnlessLatest)
<1>1. Init => NoneDisabled /\ UnlessLatest
  BY InitUnlessLatest
<1>2. /\ IInv /\ JobsUnique /\ (Orderly /\ OrderlyApart) /\ (Orderly /\ OrderlyApart)'
      /\ UnlessFaithful /\ (NoneDisabled /\ UnlessLatest) /\ [Next]_vars
      => (NoneDisabled /\ UnlessLatest)'
  BY NextNoneDisabled, NextUnlessLatest
<1> QED
  BY <1>1, <1>2, Inductive, UniqueJobs, KeptApart, FaithfulUnlessRaced, PTL DEF Spec

\* A verdict of Overseer is about the submission that was accepted last, or the
\* student was told that that one failed (VerdictOfLatest), for any number of
\* uploads, crashes and staff actions.
THEOREM VerdictsAreOfLatest == Spec => VerdictOfLatest
<1>1. IInv /\ (Orderly /\ OrderlyApart) /\ (NoneDisabled /\ UnlessLatest) /\ [Next]_vars =>
         [/\ Clear({"behind_generator", "behind_job", "behind_overseer", "cut_short",
                    "doubled", "reprocessed", "retriggered"})
          /\ pc = "steps" /\ pc' = "apply"
          => accepted \in told \union {history[running.n].kept}]_vars
  <2> SUFFICES ASSUME IInv, Orderly, UnlessLatest, Clear(LatestRaces), pc = "steps"
               PROVE  accepted \in told \union {history[running.n].kept}
    BY DEF LatestRaces
  <2>1. running \in Jobs("overseer")
    BY DEF Orderly, Jobs
  <2> QED
    BY <2>1 DEF UnlessLatest, Latest, LatestIs
<1> QED
  BY <1>1, Inductive, KeptApart, LatestUnlessRaced, PTL DEF Spec, VerdictOfLatest

=============================================================================
