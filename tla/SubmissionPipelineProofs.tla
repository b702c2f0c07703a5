----------------------- MODULE SubmissionPipelineProofs -----------------------
(***************************************************************************)
(* Proofs about SubmissionPipeline, for any number of uploads, crashes and *)
(* staff actions.                                                          *)
(***************************************************************************)
EXTENDS SubmissionPipeline, SequenceTheorems, TLAPS

\* Ties the program counter of the worker to its job and its upload, and the
\* generator's to its folder.
Consistent ==
    /\ pc = "idle" <=> running = NoJob
    /\ pc \in {"unpack", "pdf", "mark"} => got # 0
    /\ rake = "claimed" => pid # 0

IInv == TypeOK /\ Consistent

LEMMA ContentsFacts ==
    /\ 0 \in Contents
    /\ \A c \in Contents : c # 0 => c \in Uploads
    /\ Uploads \subseteq Contents
    /\ \A c \in Contents : c \in Int
BY PipelineAssumption DEF Contents, Uploads

LEMMA JobFacts ==
    /\ SubmissionJob \in Job
    /\ \A i \in Nat : HistoryJob(i) \in Job /\ OverseerJob(i) \in Job
    /\ \A job \in Job : /\ Digest(job) \in {"submission", "history", "overseer"} \X Nat
                        /\ job # NoJob
                        /\ [job EXCEPT !.try = 1] \in Job
                        /\ FirstStep[job.kind] \in Places \ {"idle", "unpack", "pdf", "mark"}
                        /\ job.n \in Nat
    /\ NoJob.n \in Nat
<1>1. SubmissionJob \in Job
  BY DEF SubmissionJob, Job
<1>2. \A i \in Nat : HistoryJob(i) \in Job /\ OverseerJob(i) \in Job
  BY DEF HistoryJob, OverseerJob, Job
<1>3. ASSUME NEW job \in Job
      PROVE  /\ Digest(job) \in {"submission", "history", "overseer"} \X Nat
             /\ job # NoJob
             /\ [job EXCEPT !.try = 1] \in Job
             /\ FirstStep[job.kind] \in Places \ {"idle", "unpack", "pdf", "mark"}
             /\ job.n \in Nat
  <2>1. Digest(job) \in {"submission", "history", "overseer"} \X Nat
    BY DEF Job, Digest
  <2>2. job # NoJob
    BY DEF Job, NoJob
  <2>3. [job EXCEPT !.try = 1] \in Job
    BY DEF Job
  <2>4. FirstStep[job.kind] \in Places \ {"idle", "unpack", "pdf", "mark"}
    BY DEF Job, FirstStep, Places
  <2>5. job.n \in Nat
    BY DEF Job
  <2> QED BY <2>1, <2>2, <2>3, <2>4, <2>5
<1>4. NoJob.n \in Nat
  BY DEF NoJob
<1> QED BY <1>1, <1>2, <1>3, <1>4

LEMMA EnqueueType ==
    ASSUME queue \in Seq(Job), retries \subseteq Job,
           locks \subseteq {"submission", "history", "overseer"} \X Nat,
           NEW job \in Job, Enqueue(job)
    PROVE  /\ queue' \in Seq(Job) /\ retries' \subseteq Job
           /\ locks' \subseteq {"submission", "history", "overseer"} \X Nat
<1> USE DEF Enqueue, redisVars
<1>1. Digest(job) \in {"submission", "history", "overseer"} \X Nat
  BY JobFacts
<1>2. CASE Digest(job) \in locks
  BY <1>2
<1>3. CASE Digest(job) \notin locks
  <2>1. queue' \in Seq(Job)
    BY <1>3
  <2> QED BY <1>1, <1>3, <2>1
<1> QED BY <1>2, <1>3

\* Updating one field of one history leaves a sequence of histories, whether or
\* not there is one with that number.
LEMMA HistoryUpdate ==
    ASSUME NEW h \in Seq(Histories), NEW k
    PROVE  /\ \A c \in Contents : [h EXCEPT ![k].kept = c] \in Seq(Histories)
           /\ \A a \in {"pre_queued", "passed", "failed"} :
                 [h EXCEPT ![k].assessment = a] \in Seq(Histories)
<1>1. Len(h) \in Nat /\ h \in [1 .. Len(h) -> Histories]
  BY LenProperties
<1>2. \A g \in [1 .. Len(h) -> Histories] : g \in Seq(Histories)
  BY <1>1
<1>3. ASSUME NEW c \in Contents
      PROVE  [h EXCEPT ![k].kept = c] \in [1 .. Len(h) -> Histories]
  BY <1>1 DEF Histories
<1>4. ASSUME NEW a \in {"pre_queued", "passed", "failed"}
      PROVE  [h EXCEPT ![k].assessment = a] \in [1 .. Len(h) -> Histories]
  BY <1>1 DEF Histories
<1> QED BY <1>2, <1>3, <1>4

LEMMA InitIInv == Init => IInv
<1> SUFFICES ASSUME Init PROVE IInv
  OBVIOUS
<1> USE DEF Init
<1>1. history \in Seq(Histories) /\ queue \in Seq(Job)
  OBVIOUS
<1>2. crashes \in 0 .. MaxCrashes /\ staffActs \in 0 .. MaxStaffActs
  BY PipelineAssumption
<1>3. TypeOK
  BY <1>1, <1>2, ContentsFacts DEF TypeOK, Statuses, Places
<1>4. Consistent
  BY DEF Consistent
<1> QED BY <1>3, <1>4 DEF IInv

\* The requests of the student.
LEMMA RequestIInv ==
    ASSUME IInv, AcceptBegin \/ Request PROVE IInv'
<1> USE ContentsFacts DEF IInv, TypeOK, Consistent
<1>1. CASE AcceptBegin
  <2>1. uploads + 1 \in Contents
    BY <1>1, PipelineAssumption DEF AcceptBegin, Contents
  <2>2. raced' \subseteq Races
    BY <1>1 DEF AcceptBegin, Unseen, Races
  <2> QED
    BY <1>1, <2>1, <2>2 DEF AcceptBegin, taskVars, fileVars, redisVars, workerVars, boundVars
<1>2. CASE AcceptFinish
  <2>1. /\ queue' \in Seq(Job) /\ retries' \subseteq Job
        /\ locks' \subseteq {"submission", "history", "overseer"} \X Nat
    BY <1>2, JobFacts, EnqueueType DEF AcceptFinish
  <2> QED
    BY <1>2, <2>1 DEF AcceptFinish, Statuses, workerVars, boundVars
<1>3. CASE AcceptAborted
  BY <1>3 DEF AcceptAborted, taskVars, redisVars, workerVars, boundVars
<1> QED BY <1>1, <1>2, <1>3 DEF Request

\* The serial worker, job by job.
LEMMA WorkerIInv ==
    ASSUME IInv, Worker PROVE IInv'
<1> USE ContentsFacts DEF IInv, TypeOK, Consistent, requestVars, taskVars, fileVars,
        redisVars, workerVars, boundVars
<1>1. CASE Fetch
  <2>1. queue # <<>>
    BY <1>1 DEF Fetch
  <2>2. Head(queue) \in Job /\ Tail(queue) \in Seq(Job)
    BY <2>1
  <2>3. FirstStep[Head(queue).kind] \in Places \ {"idle", "unpack", "pdf", "mark"}
    BY <2>2, JobFacts
  <2>4. running' \in Job /\ running' # NoJob
    BY <1>1, <2>2, JobFacts DEF Fetch
  <2> QED BY <1>1, <2>2, <2>3, <2>4 DEF Fetch
<1>2. CASE Finish
  BY <1>2 DEF Finish, Places
<1>3. CASE CompressNew \/ ExtractDone
  BY <1>3 DEF CompressNew, ExtractDone, Places
<1>4. CASE MoveFilesRejected
  BY <1>4 DEF MoveFilesRejected, Places
<1>5. CASE MoveFilesRaises
  BY <1>5 DEF MoveFilesRaises, Places, Statuses
<1>6. CASE MakePdf
  BY <1>6 DEF MakePdf, Places
<1>7. CASE MakePdfFails
  BY <1>7 DEF MakePdfFails, Places, Statuses
<1>8. CASE MarkPending
  <2>1. [made |-> got, kept |-> 0, assessment |-> "none"] \in Histories
    BY <1>8 DEF MarkPending, Histories
  <2>2. history' \in Seq(Histories)
    BY <1>8, <2>1 DEF MarkPending
  <2> QED BY <1>8, <2>2 DEF MarkPending, Places
<1>9. CASE EnqueueHistory
  <2>1. /\ queue' \in Seq(Job) /\ retries' \subseteq Job
        /\ locks' \subseteq {"submission", "history", "overseer"} \X Nat
    <3>1. Len(history) \in Nat
      OBVIOUS
    <3>2. HistoryJob(Len(history)) \in Job
      BY <3>1, JobFacts
    <3> QED BY <1>9, <3>2, EnqueueType DEF EnqueueHistory
  <2> QED BY <1>9, <2>1 DEF EnqueueHistory, Places
<1>10. CASE SubmissionJobRaises
  BY <1>10 DEF SubmissionJobRaises, Places
<1>11. CASE Archive
  <2>1. history' \in Seq(Histories)
    BY <1>11, HistoryUpdate DEF Archive
  <2> QED BY <1>11, <2>1 DEF Archive, Places
<1>12. CASE HistoryJobRaises
  BY <1>12 DEF HistoryJobRaises, Places
<1>13. CASE CreateAssessment
  <2>1. history' \in Seq(Histories)
    BY <1>13, HistoryUpdate DEF CreateAssessment
  <2> QED BY <1>13, <2>1 DEF CreateAssessment, Places
<1>14. CASE SendToOverseer
  <2>1. /\ queue' \in Seq(Job) /\ retries' \subseteq Job
        /\ locks' \subseteq {"submission", "history", "overseer"} \X Nat
    <3>1. OverseerJob(running.n) \in Job
      BY JobFacts
    <3> QED BY <1>14, <3>1, EnqueueType DEF SendToOverseer
  <2> QED BY <1>14, <2>1 DEF SendToOverseer, Places
<1>15. CASE ClearPending
  BY <1>15 DEF ClearPending, Places
<1>16. CASE OverseerStart
  BY <1>16 DEF OverseerStart, Places
<1>17. CASE OverseerRaises
  <2>1. running \in Job
    BY <1>17 DEF OverseerRaises
  <2>2. retries' \subseteq Job
    BY <1>17, <2>1, JobFacts DEF OverseerRaises
  <2>3. locks' \subseteq locks
    BY <1>17 DEF OverseerRaises
  <2> QED BY <1>17, <2>2, <2>3 DEF OverseerRaises, Places
<1>18. ASSUME NEW verdict \in {"passed", "failed"}, OverseerVerdict(verdict) PROVE IInv'
  <2>1. history' \in Seq(Histories)
    BY <1>18, HistoryUpdate DEF OverseerVerdict
  <2> QED BY <1>18, <2>1 DEF OverseerVerdict, Places
<1>19. CASE OverseerApply
  BY <1>19 DEF OverseerApply, Places, Statuses
<1> QED
  BY <1>1, <1>2, <1>3, <1>4, <1>5, <1>6, <1>7, <1>8, <1>9, <1>10, <1>11, <1>12,
     <1>13, <1>14, <1>15, <1>16, <1>17, <1>18, <1>19 DEF Worker

\* The generator and the maintenance task.
LEMMA GeneratorIInv ==
    ASSUME IInv,
           RakeStart \/ Generator \/ ClearAbandonedSubmission
             \/ ClearAbandonedMarker \/ ClearAbandonedAssessment
    PROVE  IInv'
<1> USE ContentsFacts DEF IInv, TypeOK, Consistent, requestVars, taskVars, fileVars,
        redisVars, workerVars, boundVars
<1>1. CASE RakeStart
  <2>1. raced' \subseteq Races
    BY <1>1 DEF RakeStart, Races
  <2>2. pid' \in Contents /\ new' \in Contents
    BY <1>1 DEF RakeStart
  <2>3. rake' \in {"idle", "claimed", "unpack", "pdf"} /\ (rake' = "claimed" => pid' # 0)
    BY <1>1 DEF RakeStart, Claimable
  <2> QED BY <1>1, <2>1, <2>2, <2>3 DEF RakeStart
<1>2. CASE RakeCompress \/ RakeExtract
  BY <1>2 DEF RakeCompress, RakeExtract
<1>3. CASE RakeCompressFails
  BY <1>3 DEF RakeCompressFails, ZipsLeft, Statuses
<1>4. CASE RakePdf
  BY <1>4 DEF RakePdf
<1>5. CASE RakePdfFails
  BY <1>5 DEF RakePdfFails, Statuses
<1>6. CASE ClearAbandonedSubmission
  BY <1>6 DEF ClearAbandonedSubmission, Statuses
<1>7. CASE ClearAbandonedMarker
  BY <1>7 DEF ClearAbandonedMarker
<1>8. CASE ClearAbandonedAssessment
  <2>1. history' \in Seq(Histories)
    <3>1. PICK i \in DOMAIN history :
             history' = [history EXCEPT ![i].assessment = "failed"]
      BY <1>8 DEF ClearAbandonedAssessment
    <3> QED BY <3>1, HistoryUpdate
  <2> QED BY <1>8, <2>1 DEF ClearAbandonedAssessment, Statuses
<1> QED BY <1>1, <1>2, <1>3, <1>4, <1>5, <1>6, <1>7, <1>8 DEF Generator

\* Redis and the process: retries, restarts, the reaper and the faults.
LEMMA ProcessIInv ==
    ASSUME IInv, RetryDue \/ Restart \/ ReapLock \/ Fault PROVE IInv'
<1> USE ContentsFacts DEF IInv, TypeOK, Consistent, requestVars, taskVars, fileVars,
        redisVars, workerVars, boundVars
<1>1. CASE RetryDue
  <2>1. queue' \in Seq(Job) /\ retries' \subseteq Job
    BY <1>1 DEF RetryDue
  <2> QED BY <1>1, <2>1 DEF RetryDue
<1>2. CASE Restart
  BY <1>2 DEF Restart
<1>3. CASE ReapLock
  BY <1>3 DEF ReapLock
<1>4. CASE Kill
  <2>1. crashes' \in 0 .. MaxCrashes
    BY <1>4, PipelineAssumption DEF Kill
  <2>2. raced' \subseteq Races
    BY <1>4 DEF Kill, Races
  <2>3. done' \in Contents
    BY <1>4 DEF Kill, ZipsLeft
  <2> QED BY <1>4, <2>1, <2>2, <2>3 DEF Kill, Places
<1>5. CASE Shutdown
  <2>1. crashes' \in 0 .. MaxCrashes
    BY <1>5, PipelineAssumption DEF Shutdown
  <2>2. running \in Job
    BY <1>5 DEF Shutdown
  <2>3. queue' \in Seq(Job)
    BY <1>5, <2>2 DEF Shutdown
  <2>4. new' \in Contents /\ done' \in Contents /\ inProcess' \in Contents
    BY <1>5 DEF Shutdown, ZipsLeft
  <2>5. raced' \subseteq Races
    BY <1>5 DEF Shutdown, Races
  <2> QED BY <1>5, <2>1, <2>3, <2>4, <2>5 DEF Shutdown, Places
<1>6. CASE RakeKilled
  <2>1. crashes' \in 0 .. MaxCrashes
    BY <1>6, PipelineAssumption DEF RakeKilled
  <2>2. raced' \subseteq Races /\ done' \in Contents
    BY <1>6 DEF RakeKilled, Races, ZipsLeft
  <2> QED BY <1>6, <2>1, <2>2 DEF RakeKilled
<1> QED BY <1>1, <1>2, <1>3, <1>4, <1>5, <1>6 DEF Fault

LEMMA StaffIInv ==
    ASSUME IInv, Staff PROVE IInv'
<1> USE ContentsFacts DEF IInv, TypeOK, Consistent, requestVars, taskVars, fileVars,
        redisVars, workerVars, boundVars
<1>1. CASE Reprocess
  <2>1. staffActs' \in 0 .. MaxStaffActs
    BY <1>1, PipelineAssumption DEF Reprocess
  <2>2. raced' \subseteq Races
    BY <1>1 DEF Reprocess, Races
  <2> QED BY <1>1, <2>1, <2>2 DEF Reprocess
<1>2. CASE Retrigger
  <2>1. staffActs' \in 0 .. MaxStaffActs
    BY <1>2, PipelineAssumption DEF Retrigger
  <2>2. raced' \subseteq Races
    BY <1>2 DEF Retrigger, Races
  <2>3. /\ queue' \in Seq(Job) /\ retries' \subseteq Job
        /\ locks' \subseteq {"submission", "history", "overseer"} \X Nat
    <3>1. PICK i \in DOMAIN history : Enqueue(OverseerJob(i))
      BY <1>2 DEF Retrigger
    <3>2. i \in Nat
      BY <3>1
    <3>3. OverseerJob(i) \in Job
      BY <3>2, JobFacts
    <3> QED BY <3>1, <3>3, EnqueueType
  <2> QED BY <1>2, <2>1, <2>2, <2>3 DEF Retrigger
<1>3. CASE TutorAssess
  BY <1>3 DEF TutorAssess, Statuses
<1> QED BY <1>1, <1>2, <1>3 DEF Staff

LEMMA StutterIInv ==
    ASSUME IInv, UNCHANGED vars PROVE IInv'
BY DEF IInv, TypeOK, Consistent, vars, requestVars, taskVars, fileVars, redisVars,
       workerVars, boundVars

LEMMA NextIInv == IInv /\ [Next]_vars => IInv'
BY RequestIInv, WorkerIInv, GeneratorIInv, ProcessIInv, StaffIInv, StutterIInv DEF Next

\* The inductive invariant holds in every reachable state: the worker has a job
\* exactly when it is inside one, and whatever is being converted or about to be
\* archived is an upload that exists.
THEOREM Inductive == Spec => []IInv
<1>1. Init => IInv
  BY InitIInv
<1>2. IInv /\ [Next]_vars => IInv'
  BY NextIInv
<1> QED BY <1>1, <1>2, PTL DEF Spec

\* Type correctness of the whole pipeline (TypeOK), for any bounds: no
\* interleaving of the request, the jobs, the generator and the crashes makes
\* the code report, archive or show an upload that was never made.
THEOREM TypeCorrect == Spec => []TypeOK
<1>1. IInv => TypeOK
  BY DEF IInv
<1> QED BY <1>1, Inductive, PTL

----------------------------------------------------------------------------
(* JobsUnique.  Its inductive invariant is itself with IInv: what matters   *)
(* is which digests the queue, the worker, the retry set and the locks      *)
(* hold, so each action is reduced to one of the few ways in which those    *)
(* change.                                                                  *)

LEMMA EnqueueUnique ==
    ASSUME TypeOK, JobsUnique, NEW job \in Job, Enqueue(job), UNCHANGED running
    PROVE  JobsUnique'
<1> USE DEF JobsUnique, Present, Queued, Executing
<1>1. CASE Digest(job) \in locks
  BY <1>1 DEF Enqueue, redisVars
<1>2. CASE Digest(job) \notin locks
  <2>1. /\ queue \in Seq(Job) /\ queue' = Append(queue, job)
        /\ locks' = locks \union {Digest(job)}
        /\ retries' = retries /\ running' = running
    BY <1>2 DEF Enqueue, TypeOK
  <2>2. /\ Len(queue) \in Nat /\ Len(queue') = Len(queue) + 1
        /\ \A i \in 1 .. Len(queue) : queue'[i] = queue[i]
        /\ queue'[Len(queue) + 1] = job
    BY <2>1, AppendProperties
  <2>3. \A i \in 1 .. Len(queue') :
           \/ i \in 1 .. Len(queue) /\ queue'[i] = queue[i]
           \/ i = Len(queue) + 1 /\ queue'[i] = job
    BY <2>2
  <2> QED BY <1>2, <2>1, <2>2, <2>3
<1> QED BY <1>1, <1>2

LEMMA FetchUnique ==
    ASSUME TypeOK, JobsUnique, Fetch PROVE JobsUnique'
<1> USE DEF JobsUnique, Present, Queued, Executing
<1>1. /\ queue \in Seq(Job) /\ queue # <<>> /\ running = NoJob
      /\ running' = Head(queue) /\ queue' = Tail(queue)
      /\ locks' = locks /\ retries' = retries
  BY DEF TypeOK, Fetch
<1>2. /\ Len(queue) \in Nat /\ Len(queue) > 0 /\ Head(queue) = queue[1]
      /\ Len(queue') = Len(queue) - 1
      /\ \A i \in 1 .. Len(queue') : queue'[i] = queue[i + 1]
  BY <1>1, HeadTailProperties
<1>3. \A i \in 1 .. Len(queue') : i + 1 \in 1 .. Len(queue)
  BY <1>2
<1>4. /\ 1 \in 1 .. Len(queue)
      /\ \A i \in 1 .. Len(queue') : i + 1 # 1
  BY <1>2
<1>5. \A i, j \in 1 .. Len(queue') : i # j => i + 1 # j + 1
  BY <1>2
<1> QED BY <1>1, <1>2, <1>3, <1>4, <1>5

\* The worker lets go of its job: done, given up, or put into the retry set.
LEMMA ReleaseUnique ==
    ASSUME TypeOK, JobsUnique, Finish \/ OverseerRaises, running \in Job
    PROVE  JobsUnique'
<1> USE DEF JobsUnique, Present, Queued, Executing
<1>1. running # NoJob
  BY JobFacts
<1>2. CASE Finish
  BY <1>1, <1>2 DEF Finish
<1>3. CASE OverseerRaises
  <2>1. Digest([running EXCEPT !.try = 1]) = Digest(running)
    BY DEF Digest, Job
  <2> QED BY <1>1, <1>3, <2>1 DEF OverseerRaises
<1> QED BY <1>2, <1>3

LEMMA RetryUnique ==
    ASSUME TypeOK, JobsUnique, RetryDue PROVE JobsUnique'
<1> USE DEF JobsUnique, Present, Queued, Executing
<1>1. PICK job \in retries : /\ queue' = Append(queue, job)
                             /\ retries' = retries \ {job}
                             /\ UNCHANGED <<locks, running>>
  BY DEF RetryDue, workerVars
<1>2. queue \in Seq(Job) /\ job \in Job
  BY DEF TypeOK
<1>3. /\ Len(queue) \in Nat /\ Len(queue') = Len(queue) + 1
      /\ \A i \in 1 .. Len(queue) : queue'[i] = queue[i]
      /\ queue'[Len(queue) + 1] = job
  BY <1>1, <1>2, AppendProperties
<1>4. \A i \in 1 .. Len(queue') :
         \/ i \in 1 .. Len(queue) /\ queue'[i] = queue[i]
         \/ i = Len(queue) + 1 /\ queue'[i] = job
  BY <1>3
<1> QED BY <1>1, <1>3, <1>4

LEMMA ShutdownUnique ==
    ASSUME TypeOK, JobsUnique, Shutdown PROVE JobsUnique'
<1> USE DEF JobsUnique, Present, Queued, Executing
<1>1. /\ queue \in Seq(Job) /\ running \in Job /\ running # NoJob
      /\ queue' = <<running>> \o queue /\ running' = NoJob
      /\ locks' = locks /\ retries' = retries
  BY DEF TypeOK, Shutdown
<1>2. /\ Len(queue) \in Nat /\ Len(queue') = 1 + Len(queue)
      /\ queue'[1] = running
      /\ \A i \in 2 .. Len(queue') : queue'[i] = queue[i - 1]
  BY <1>1
<1>3. \A i \in 1 .. Len(queue') :
         \/ i = 1 /\ queue'[i] = running
         \/ i - 1 \in 1 .. Len(queue) /\ queue'[i] = queue[i - 1]
  BY <1>2
<1>4. \A i, j \in 1 .. Len(queue') : i # j => i - 1 # j - 1
  BY <1>2
<1>5. \A i \in 1 .. Len(queue) : Digest(queue[i]) # Digest(running)
  BY <1>1
<1>6. ASSUME NEW i \in 1 .. Len(queue'), NEW j \in 1 .. Len(queue'), i # j
      PROVE  Digest(queue'[i]) # Digest(queue'[j])
  <2>1. CASE i = 1
    BY <1>3, <1>5, <1>6, <2>1
  <2>2. CASE j = 1
    BY <1>3, <1>5, <1>6, <2>2
  <2>3. CASE i # 1 /\ j # 1
    <3>1. /\ i - 1 \in 1 .. Len(queue) /\ queue'[i] = queue[i - 1]
          /\ j - 1 \in 1 .. Len(queue) /\ queue'[j] = queue[j - 1]
          /\ i - 1 # j - 1
      BY <1>3, <1>4, <1>6, <2>3
    <3> QED BY <3>1
  <2> QED BY <2>1, <2>2, <2>3
<1>7. \A i \in 1 .. Len(queue') : Digest(queue'[i]) \in locks'
  BY <1>1, <1>3
<1>8. \A job \in retries' : Digest(job) \in locks' /\ ~Present(Digest(job))'
  BY <1>1, <1>3
<1> QED BY <1>1, <1>6, <1>7, <1>8

LEMMA ReapUnique ==
    ASSUME JobsUnique, ReapLock PROVE JobsUnique'
<1>1. PICK d \in locks : /\ ~Present(d) /\ ~Waiting(d)
                         /\ locks' = locks \ {d}
                         /\ UNCHANGED <<queue, retries, running>>
  BY DEF ReapLock, workerVars
<1> QED BY <1>1 DEF JobsUnique, Present, Queued, Executing, Waiting

LEMMA KillUnique ==
    ASSUME JobsUnique, Kill PROVE JobsUnique'
BY DEF Kill, redisVars, JobsUnique, Present, Queued, Executing

LEMMA UntouchedUnique ==
    ASSUME JobsUnique, UNCHANGED <<queue, retries, locks, running>> PROVE JobsUnique'
BY DEF JobsUnique, Present, Queued, Executing

LEMMA NextUnique == IInv /\ JobsUnique /\ [Next]_vars => JobsUnique'
<1> SUFFICES ASSUME IInv, JobsUnique, [Next]_vars PROVE JobsUnique'
  OBVIOUS
<1>a. TypeOK /\ Consistent
  BY DEF IInv
<1> USE DEF requestVars, taskVars, fileVars, redisVars, workerVars, boundVars
<1>1. CASE AcceptFinish
  BY <1>1, <1>a, JobFacts, EnqueueUnique DEF AcceptFinish
<1>2. CASE EnqueueHistory
  <2>1. HistoryJob(Len(history)) \in Job
    BY <1>a, JobFacts DEF TypeOK
  <2> QED BY <1>2, <1>a, <2>1, EnqueueUnique DEF EnqueueHistory
<1>3. CASE SendToOverseer
  <2>1. OverseerJob(running.n) \in Job
    BY <1>a, JobFacts DEF TypeOK
  <2> QED BY <1>3, <1>a, <2>1, EnqueueUnique DEF SendToOverseer
<1>4. CASE Retrigger
  <2>1. PICK i \in DOMAIN history : Enqueue(OverseerJob(i)) /\ UNCHANGED running
    BY <1>4 DEF Retrigger
  <2>2. OverseerJob(i) \in Job
    BY <1>a, <2>1, JobFacts DEF TypeOK
  <2> QED BY <1>a, <2>1, <2>2, EnqueueUnique
<1>5. CASE Fetch
  BY <1>5, <1>a, FetchUnique
<1>6. CASE Finish \/ OverseerRaises
  <2>1. running \in Job
    BY <1>6, <1>a DEF Finish, OverseerRaises, Consistent, TypeOK
  <2> QED BY <1>6, <1>a, <2>1, ReleaseUnique
<1>7. CASE RetryDue
  BY <1>7, <1>a, RetryUnique
<1>8. CASE Shutdown
  BY <1>8, <1>a, ShutdownUnique
<1>9. CASE ReapLock
  BY <1>9, ReapUnique
<1>10. CASE Kill
  BY <1>10, KillUnique
<1>11. CASE AcceptBegin \/ AcceptAborted
  BY <1>11, UntouchedUnique DEF AcceptBegin, AcceptAborted
<1>12. CASE \/ CompressNew \/ ExtractDone \/ MoveFilesRejected \/ MoveFilesRaises
            \/ MakePdf \/ MakePdfFails
  BY <1>12, UntouchedUnique
     DEF CompressNew, ExtractDone, MoveFilesRejected, MoveFilesRaises, MakePdf,
         MakePdfFails
<1>13. CASE MarkPending \/ SubmissionJobRaises \/ Archive \/ HistoryJobRaises
  BY <1>13, UntouchedUnique DEF MarkPending, SubmissionJobRaises, Archive, HistoryJobRaises
<1>14. CASE CreateAssessment \/ ClearPending
  BY <1>14, UntouchedUnique DEF CreateAssessment, ClearPending
<1>15. CASE \/ OverseerStart \/ OverseerVerdict("passed") \/ OverseerVerdict("failed")
            \/ OverseerApply
  BY <1>15, UntouchedUnique DEF OverseerStart, OverseerVerdict, OverseerApply
<1>16. CASE Restart \/ RakeKilled \/ RakeStart \/ Generator
  BY <1>16, UntouchedUnique
     DEF Restart, RakeKilled, RakeStart, Generator, RakeCompress, RakeCompressFails,
         RakeExtract, RakePdf, RakePdfFails
<1>17. CASE ClearAbandonedSubmission \/ ClearAbandonedMarker \/ ClearAbandonedAssessment
  BY <1>17, UntouchedUnique
     DEF ClearAbandonedSubmission, ClearAbandonedMarker, ClearAbandonedAssessment
<1>18. CASE Reprocess \/ TutorAssess
  BY <1>18, UntouchedUnique DEF Reprocess, TutorAssess
<1>19. CASE UNCHANGED vars
  BY <1>19, UntouchedUnique DEF vars
<1> QED
  BY <1>1, <1>2, <1>3, <1>4, <1>5, <1>6, <1>7, <1>8, <1>9, <1>10, <1>11, <1>12, <1>13,
     <1>14, <1>15, <1>16, <1>17, <1>18, <1>19 DEF Next, Request, Worker, Fault, Staff

\* The unique-job locks hold for any number of uploads and faults: there is
\* never a second submission or history job for the task, nor a second Overseer
\* job for one assessment, in the queue, the worker and the retry set together.
THEOREM UniqueJobs == Spec => []JobsUnique
<1>1. Init => JobsUnique
  BY DEF Init, JobsUnique, Present, Queued, Executing
<1>2. IInv /\ JobsUnique /\ [Next]_vars => JobsUnique'
  BY NextUnique
<1> QED BY <1>1, <1>2, Inductive, PTL DEF Spec

----------------------------------------------------------------------------
(* KeptOrTold and NeverRegresses.  Neither is inductive: a folder that is   *)
(* about to replace the done zip must not be older than it, and this holds  *)
(* because a request that starts without the generator's folder keeps the   *)
(* generator from claiming, so that new and pid never both hold files.      *)

\* No request was accepted behind the generator's folder, no reprocess request
\* fell on files that were still on their way, and no shutdown removed them.
Unmixed == Clear({"behind_generator", "reprocessed"})
Undisturbed == Clear({"behind_generator", "cut_short", "reprocessed"})

\* The accepted upload, or a later one, is still to be converted or was, or the
\* student was told of its failure.
Kept == \/ \E upload \in told : upload >= accepted
        \/ \E content \in {new, pid, done} : content >= accepted

Ordered ==
    /\ web # 0 => web = uploads /\ accepted < web
    /\ accepted <= uploads /\ new <= uploads /\ pid <= uploads /\ done <= uploads
    /\ Unmixed =>
          /\ web # 0 => pid = 0
          /\ new = 0 \/ pid = 0
          /\ new # 0 => new >= done
          /\ pid # 0 => pid >= done
    /\ Undisturbed => Kept

orderedVars == <<uploads, web, accepted, told, new, pid, done>>

LEMMA NumbersAreIntegers ==
    ASSUME TypeOK
    PROVE  /\ uploads \in Nat /\ web \in Nat /\ accepted \in Nat /\ new \in Nat
           /\ pid \in Nat /\ done \in Nat /\ inProcess \in Nat
           /\ \A upload \in told : upload \in Nat
BY PipelineAssumption DEF TypeOK, Contents, Uploads

LEMMA StillUndisturbed ==
    ASSUME raced \subseteq raced'
    PROVE  /\ Undisturbed' => Undisturbed /\ Unmixed'
           /\ Unmixed' => Unmixed
BY DEF Undisturbed, Unmixed, Clear

LEMMA UntouchedOrdered ==
    ASSUME Ordered, UNCHANGED orderedVars, raced \subseteq raced' PROVE Ordered'
BY StillUndisturbed DEF Ordered, Kept, orderedVars

\* The request: it starts with the generator's folder empty or is marked, and
\* what it stages is newer than everything.
LEMMA RequestOrdered ==
    ASSUME TypeOK, Ordered, AcceptBegin \/ Request PROVE Ordered'
<1> USE NumbersAreIntegers
<1>1. CASE AcceptBegin
  <2>1. /\ web = 0 /\ uploads' = uploads + 1 /\ web' = uploads + 1
        /\ UNCHANGED <<accepted, told, new, pid, done>>
    BY <1>1 DEF AcceptBegin, taskVars, fileVars
  <2>2. raced' = raced \union Unseen
    BY <1>1 DEF AcceptBegin
  <2>3. (Undisturbed' => Undisturbed /\ Unmixed') /\ (Unmixed' => Unmixed /\ pid = 0)
    <3>1. pid # 0 => "behind_generator" \in Unseen
      BY DEF Unseen
    <3> QED BY <2>2, <3>1 DEF Undisturbed, Unmixed, Clear
  <2> QED BY <2>1, <2>3 DEF Ordered, Kept
<1>2. CASE AcceptFinish
  <2>1. /\ web # 0 /\ new' = web /\ accepted' = web /\ web' = 0
        /\ UNCHANGED <<uploads, told, pid, done, raced>>
    BY <1>2 DEF AcceptFinish
  <2>2. (Undisturbed' => Undisturbed /\ Unmixed') /\ (Unmixed' => Unmixed)
    BY <2>1, StillUndisturbed
  <2> QED BY <2>1, <2>2 DEF Ordered, Kept
<1>3. CASE AcceptAborted
  <2>1. /\ web # 0 /\ new' = web /\ web' = 0
        /\ UNCHANGED <<uploads, accepted, told, pid, done, raced>>
    BY <1>3 DEF AcceptAborted, taskVars
  <2>2. (Undisturbed' => Undisturbed /\ Unmixed') /\ (Unmixed' => Unmixed)
    BY <2>1, StillUndisturbed
  <2> QED BY <2>1, <2>2 DEF Ordered, Kept
<1> QED BY <1>1, <1>2, <1>3 DEF Request

\* The job takes the folder in new: into the zip, or away with a word.
LEMMA MoveOrdered ==
    ASSUME TypeOK, Ordered, CompressNew \/ MoveFilesRejected \/ MoveFilesRaises
    PROVE  Ordered'
<1> USE NumbersAreIntegers DEF requestVars
<1>0. raced' = raced
  BY DEF CompressNew, MoveFilesRejected, MoveFilesRaises
<1>a. (Undisturbed' => Undisturbed /\ Unmixed') /\ (Unmixed' => Unmixed)
  BY <1>0, StillUndisturbed
<1>1. CASE CompressNew
  <2>1. /\ done' = IF new # 0 THEN new ELSE done
        /\ new' = 0 /\ UNCHANGED <<uploads, web, accepted, told, pid>>
    BY <1>1 DEF CompressNew, taskVars
  <2> QED BY <1>a, <2>1 DEF Ordered, Kept
<1>2. CASE MoveFilesRejected
  <2>1. /\ told \subseteq told' /\ (new # 0 => new \in told')
        /\ new' = 0 /\ UNCHANGED <<uploads, web, accepted, pid, done>>
    BY <1>2 DEF MoveFilesRejected
  <2> QED BY <1>a, <2>1 DEF Ordered, Kept
<1>3. CASE MoveFilesRaises
  <2>1. /\ told' = told \union {new} /\ new # 0 /\ done' \in {done, 0}
        /\ new' = 0 /\ UNCHANGED <<uploads, web, accepted, pid>>
    BY <1>3 DEF MoveFilesRaises
  <2> QED BY <1>a, <2>1 DEF Ordered, Kept
<1> QED BY <1>1, <1>2, <1>3

\* The generator claims a folder and takes it the same way.
LEMMA RakeOrdered ==
    ASSUME IInv, Ordered, RakeStart \/ RakeCompress \/ RakeCompressFails PROVE Ordered'
<1> USE NumbersAreIntegers DEF requestVars, IInv
<1>0. raced \subseteq raced'
  BY DEF RakeStart, RakeCompress, RakeCompressFails
<1>a. (Undisturbed' => Undisturbed /\ Unmixed') /\ (Unmixed' => Unmixed)
  BY <1>0, StillUndisturbed
<1>1. CASE RakeStart
  <2>1. /\ Claimable \/ pid # 0
        /\ pid' = IF Claimable THEN new ELSE 0
        /\ new' = IF pid # 0 /\ (Claimable \/ new = 0) THEN pid
                  ELSE IF Claimable THEN 0 ELSE new
        /\ UNCHANGED <<uploads, web, accepted, told, done>>
    BY <1>1 DEF RakeStart, taskVars
  <2>2. Claimable => new # 0 /\ web = 0
    BY DEF Claimable
  <2> QED BY <1>a, <2>1, <2>2 DEF Ordered, Kept
<1>2. CASE RakeCompress
  <2>1. done' = pid /\ pid' = 0 /\ UNCHANGED <<uploads, web, accepted, told, new>>
    BY <1>2 DEF RakeCompress, taskVars
  <2>2. pid # 0
    BY <1>2 DEF RakeCompress, Consistent
  <2> QED BY <1>a, <2>1, <2>2 DEF Ordered, Kept
<1>3. CASE RakeCompressFails
  <2>1. /\ told' = told \union {pid} /\ pid' = 0 /\ done' \in {done, 0, pid}
        /\ UNCHANGED <<uploads, web, accepted, new>>
    BY <1>3 DEF RakeCompressFails, ZipsLeft
  <2>2. pid # 0
    BY <1>3 DEF RakeCompressFails, Consistent
  <2> QED BY <1>a, <2>1, <2>2 DEF Ordered, Kept
<1> QED BY <1>1, <1>2, <1>3

\* A kill leaves the folder it cut off over, a shutdown the zip of it or a mark.
LEMMA FaultOrdered ==
    ASSUME IInv, Ordered, Fault PROVE Ordered'
<1> USE NumbersAreIntegers DEF requestVars, taskVars, IInv
<1>1. UNCHANGED <<uploads, web, accepted, told, pid>> /\ raced \subseteq raced'
  BY DEF Fault, Kill, Shutdown, RakeKilled
<1>a. (Undisturbed' => Undisturbed /\ Unmixed') /\ (Unmixed' => Unmixed)
  BY <1>1, StillUndisturbed
<1>2. CASE Kill
  <2>1. new' = new /\ (done' # done => new # 0 /\ done' \in {0, new})
    BY <1>2 DEF Kill, ZipsLeft
  <2> QED BY <1>1, <1>a, <2>1 DEF Ordered, Kept
<1>3. CASE Shutdown
  <2>1. \/ UNCHANGED <<new, done>>
        \/ /\ new # 0 /\ new' = 0 /\ done' \in {0, done, new}
           /\ done' = new \/ raced' = raced \union {"cut_short"}
    BY <1>3 DEF Shutdown, ZipsLeft
  <2>2. Undisturbed' => UNCHANGED <<new, done>> \/ (new # 0 /\ new' = 0 /\ done' = new)
    BY <2>1 DEF Undisturbed, Clear
  <2> QED BY <1>1, <1>a, <2>1, <2>2 DEF Ordered, Kept
<1>4. CASE RakeKilled
  <2>1. new' = new /\ (done' # done => pid # 0 /\ done' \in {0, pid})
    BY <1>4 DEF RakeKilled, ZipsLeft, Consistent
  <2> QED BY <1>1, <1>a, <2>1 DEF Ordered, Kept
<1> QED BY <1>2, <1>3, <1>4 DEF Fault

\* A reprocess request is marked unless there is nothing for it to disturb.
LEMMA ReprocessOrdered ==
    ASSUME TypeOK, Ordered, Reprocess PROVE Ordered'
<1> USE NumbersAreIntegers
<1>1. new' = done /\ UNCHANGED <<uploads, web, accepted, told, pid, done>>
  BY DEF Reprocess, requestVars, taskVars
<1>2. raced' = IF new # 0 \/ pid # 0 \/ rake # "idle"
              THEN raced \union {"reprocessed"} ELSE raced
  BY DEF Reprocess
<1>3. (Undisturbed' => Undisturbed) /\ (Unmixed' => Unmixed /\ new = 0 /\ pid = 0)
      /\ (Undisturbed' => Unmixed')
  BY <1>2 DEF Undisturbed, Unmixed, Clear
<1> QED BY <1>1, <1>3 DEF Ordered, Kept

\* These tell the student of a failure, and touch no folder that Kept is about.
LEMMA TellOrdered ==
    ASSUME Ordered, MakePdfFails \/ RakePdfFails \/ ClearAbandonedSubmission
    PROVE  Ordered'
<1>1. /\ told \subseteq told' /\ raced' = raced
      /\ UNCHANGED <<uploads, web, accepted, new, pid, done>>
  BY DEF MakePdfFails, RakePdfFails, ClearAbandonedSubmission, requestVars
<1>2. (Undisturbed' => Undisturbed /\ Unmixed') /\ (Unmixed' => Unmixed)
  BY <1>1, StillUndisturbed
<1> QED BY <1>1, <1>2 DEF Ordered, Kept

LEMMA NextOrdered == IInv /\ Ordered /\ [Next]_vars => Ordered'
<1> SUFFICES ASSUME IInv, Ordered, [Next]_vars PROVE Ordered'
  OBVIOUS
<1>a. TypeOK
  BY DEF IInv
<1>1. CASE AcceptBegin \/ Request
  BY <1>1, <1>a, RequestOrdered
<1>2. CASE CompressNew \/ MoveFilesRejected \/ MoveFilesRaises
  BY <1>2, <1>a, MoveOrdered
<1>3. CASE RakeStart \/ RakeCompress \/ RakeCompressFails
  BY <1>3, RakeOrdered
<1>4. CASE Reprocess
  BY <1>4, <1>a, ReprocessOrdered
<1>5. CASE MakePdfFails \/ RakePdfFails \/ ClearAbandonedSubmission
  BY <1>5, TellOrdered
<1> USE DEF requestVars, taskVars, fileVars, orderedVars
<1>6. CASE \/ Fetch \/ Finish \/ ExtractDone \/ MakePdf \/ MarkPending \/ EnqueueHistory
           \/ SubmissionJobRaises
  BY <1>6, UntouchedOrdered
     DEF Fetch, Finish, ExtractDone, MakePdf, MarkPending, EnqueueHistory,
         SubmissionJobRaises
<1>7. CASE Archive \/ HistoryJobRaises \/ CreateAssessment \/ SendToOverseer \/ ClearPending
  BY <1>7, UntouchedOrdered
     DEF Archive, HistoryJobRaises, CreateAssessment, SendToOverseer, ClearPending
<1>8. CASE \/ OverseerStart \/ OverseerRaises \/ OverseerVerdict("passed")
           \/ OverseerVerdict("failed") \/ OverseerApply
  BY <1>8, UntouchedOrdered
     DEF OverseerStart, OverseerRaises, OverseerVerdict, OverseerApply
<1>9. CASE RetryDue \/ Restart \/ ReapLock
  BY <1>9, UntouchedOrdered DEF RetryDue, Restart, ReapLock
<1>10. CASE RakeExtract \/ RakePdf \/ ClearAbandonedMarker \/ ClearAbandonedAssessment
  BY <1>10, UntouchedOrdered
     DEF RakeExtract, RakePdf, ClearAbandonedMarker, ClearAbandonedAssessment
<1>11. CASE Retrigger \/ TutorAssess
  BY <1>11, UntouchedOrdered DEF Retrigger, TutorAssess
<1>12. CASE Fault
  BY <1>12, FaultOrdered
<1>13. CASE UNCHANGED vars
  BY <1>13, UntouchedOrdered DEF vars
<1> QED
  BY <1>1, <1>2, <1>3, <1>4, <1>5, <1>6, <1>7, <1>8, <1>9, <1>10, <1>11, <1>12, <1>13
     DEF Next, Request, Worker, Generator, Staff

\* The strengthening of KeptOrTold (Ordered) holds in every reachable state: no
\* folder that is still to be zipped is older than the zip it will replace, and
\* the last accepted submission is in one of the folders or was answered for.
THEOREM OrderedInvariant == Spec => []Ordered
<1>1. Init => Ordered
  BY DEF Init, Ordered, Kept
<1>2. IInv /\ Ordered /\ [Next]_vars => Ordered'
  BY NextOrdered
<1> QED BY <1>1, <1>2, Inductive, PTL DEF Spec

\* No accepted submission is lost without a word (KeptOrTold), for any number
\* of uploads, crashes and staff actions.
THEOREM NoneLost == Spec => []KeptOrTold
<1>1. Ordered => KeptOrTold
  BY DEF Ordered, Kept, Undisturbed, KeptOrTold
<1> QED BY <1>1, OrderedInvariant, PTL

\* What one step may do to the done zip.
Forward ==
    done' # done =>
        IF done' # 0
        THEN /\ done' >= done
             /\ \E upload \in told \union {done'} : upload >= accepted
        ELSE \E content \in {new', pid'} \union told' : content >= done

\* The done zip never goes back to an older submission (NeverRegresses), for
\* any number of uploads, crashes and staff actions.
THEOREM NeverBackwards == Spec => NeverRegresses
<1>1. IInv /\ Ordered /\ [Next]_vars => [Undisturbed' => Forward]_vars
  <2> SUFFICES ASSUME IInv, Ordered, Next, Undisturbed' PROVE Forward
    OBVIOUS
  <2> USE NumbersAreIntegers DEF IInv, fileVars, taskVars, Forward
  <2>1. CASE CompressNew
    <3>1. raced' = raced /\ (done' # done => new # 0 /\ done' = new)
      BY <2>1 DEF CompressNew
    <3> QED BY <3>1, StillUndisturbed DEF Ordered, Kept
  <2>2. CASE RakeCompress
    <3>1. raced' = raced /\ done' = pid /\ pid # 0
      BY <2>2 DEF RakeCompress, Consistent
    <3> QED BY <3>1, StillUndisturbed DEF Ordered, Kept
  <2>3. CASE MoveFilesRaises
    <3>1. /\ raced' = raced /\ done' \in {done, 0} /\ new # 0
          /\ told' = told \union {new}
      BY <2>3 DEF MoveFilesRaises
    <3> QED BY <3>1, StillUndisturbed DEF Ordered
  <2>4. CASE RakeCompressFails
    <3>1. /\ raced' = raced /\ done' \in {done, 0, pid} /\ pid # 0
          /\ told' = told \union {pid}
      BY <2>4 DEF RakeCompressFails, ZipsLeft, Consistent
    <3> QED BY <3>1, StillUndisturbed DEF Ordered, Kept
  <2>5. CASE Kill
    <3>1. /\ raced \subseteq raced' /\ new' = new
          /\ done' # done => new # 0 /\ done' \in {0, new}
      BY <2>5 DEF Kill, ZipsLeft
    <3> QED BY <3>1, StillUndisturbed DEF Ordered, Kept
  <2>6. CASE Shutdown
    <3>1. \/ done' = done
          \/ new # 0 /\ done' = new
          \/ raced' = raced \union {"cut_short"}
      BY <2>6 DEF Shutdown
    <3>2. done' = done \/ (new # 0 /\ done' = new)
      BY <3>1 DEF Undisturbed, Clear
    <3>3. raced \subseteq raced'
      BY <2>6 DEF Shutdown
    <3> QED BY <3>2, <3>3, StillUndisturbed DEF Ordered, Kept
  <2>7. CASE RakeKilled
    <3>1. /\ raced \subseteq raced' /\ pid' = pid
          /\ done' # done => pid # 0 /\ done' \in {0, pid}
      BY <2>7 DEF RakeKilled, ZipsLeft, Consistent
    <3> QED BY <3>1, StillUndisturbed DEF Ordered, Kept
  <2>8. CASE /\ ~CompressNew /\ ~RakeCompress /\ ~MoveFilesRaises /\ ~RakeCompressFails
             /\ ~Fault
    <3>1. done' = done
      <4>1. CASE AcceptBegin \/ Request
        BY <4>1 DEF Request, AcceptBegin, AcceptFinish, AcceptAborted
      <4>2. CASE Worker
        BY <2>8, <4>2
           DEF Worker, Fetch, Finish, MoveFilesRejected, ExtractDone, MakePdf,
               MakePdfFails, MarkPending, EnqueueHistory, SubmissionJobRaises, Archive,
               HistoryJobRaises, CreateAssessment, SendToOverseer, ClearPending,
               OverseerStart, OverseerRaises, OverseerVerdict, OverseerApply
      <4>3. CASE RetryDue \/ Restart \/ ReapLock
        BY <4>3 DEF RetryDue, Restart, ReapLock
      <4>4. CASE RakeStart \/ Generator
        BY <2>8, <4>4 DEF RakeStart, Generator, RakeExtract, RakePdf, RakePdfFails
      <4>5. CASE \/ ClearAbandonedSubmission \/ ClearAbandonedMarker
                 \/ ClearAbandonedAssessment
        BY <4>5 DEF ClearAbandonedSubmission, ClearAbandonedMarker,
                    ClearAbandonedAssessment
      <4>6. CASE Staff
        BY <4>6 DEF Staff, Reprocess, Retrigger, TutorAssess
      <4> QED BY <2>8, <4>1, <4>2, <4>3, <4>4, <4>5, <4>6 DEF Next
    <3> QED BY <3>1
  <2> QED BY <2>1, <2>2, <2>3, <2>4, <2>5, <2>6, <2>7, <2>8 DEF Fault
<1>2. [Undisturbed' => Forward]_vars =>
         [Clear({"behind_generator", "cut_short", "reprocessed"})' /\ done' # done =>
             IF done' # 0
             THEN /\ done' >= done
                  /\ \E upload \in told \union {done'} : upload >= accepted
             ELSE \E content \in {new', pid'} \union told' : content >= done]_vars
  BY DEF Undisturbed, Forward
<1> QED BY <1>1, <1>2, Inductive, OrderedInvariant, PTL DEF Spec, NeverRegresses

=============================================================================
