-------------------------- MODULE SubmissionPipeline --------------------------
(***************************************************************************)
(* How one individual task's submission travels through OnTrack: the web   *)
(* request that accepts it, the serial Sidekiq worker that converts it,    *)
(* archives it and runs Overseer on it, the PDF generator that picks up    *)
(* what Sidekiq lost, and the maintenance task that clears what a crash    *)
(* left behind.  These processes share folders, marker files, database     *)
(* rows and the unique-job locks in Redis, and nothing else orders them.   *)
(*                                                                         *)
(* The uploads of the task are numbered 1, 2, ... in the order in which    *)
(* they arrive; a folder or archive holds the number of the upload whose   *)
(* files are in it, 0 when it does not exist.                              *)
(*                                                                         *)
(* An operator marked "mutant" is not part of the specification: it is a   *)
(* mistake that could be made in the definition that follows it, and one   *)
(* of the properties fails when it takes its place.                        *)
(***************************************************************************)
EXTENDS Integers, Sequences, FiniteSets

CONSTANTS
    MaxUploads,      \* bound: uploads the student makes
    MaxCrashes,      \* bound: kills and shutdowns of the worker and generator
    MaxStaffActs,    \* bound: reprocess and re-trigger requests by staff
    HistoryRequired, \* some upload requirement keeps a submission history
    OverseerEnabled  \* unit and task definition run Overseer

ASSUME PipelineAssumption ==
    /\ MaxUploads \in Nat /\ MaxCrashes \in Nat /\ MaxStaffActs \in Nat
    /\ HistoryRequired \in BOOLEAN /\ OverseerEnabled \in BOOLEAN

VARIABLES
    \* the student's requests, and what the database says of the task
    uploads,  \* number of uploads that have started
    web,      \* the upload inside accept_submission, 0 if none
    accepted, \* the last upload the student was told is accepted
    told,     \* uploads whose failure the student was told of
    status,   \* the task's status
    history,  \* submission histories by timestamp, with their assessment
    \* the file store
    new, pid, inProcess, done, pdf, pending,
    \* Redis and the Sidekiq process
    queue,    \* the default queue
    retries,  \* the retry set
    locks,    \* digests of the unique jobs
    up,       \* the Sidekiq process is running
    running, pc, got, \* the job of the serial worker, its place, its upload
    \* the PDF generator
    rake,
    \* budgets
    crashes, staffActs,
    raced     \* history variable: the races the code leaves open that happened

requestVars == <<uploads, web, accepted>>
taskVars    == <<told, status>>
fileVars    == <<new, pid, inProcess, done, pdf>>
redisVars   == <<queue, retries, locks>>
workerVars  == <<up, running, pc, got>>
boundVars   == <<crashes, staffActs>>
vars == <<requestVars, taskVars, history, fileVars, pending, redisVars,
          workerVars, rake, boundVars, raced>>

----------------------------------------------------------------------------
(* Values *)

Uploads  == 1 .. MaxUploads
Contents == 0 .. MaxUploads
Races == {"behind_generator", "behind_job", "behind_overseer", "cut_short",
          "doubled", "reprocessed", "retriggered", "traceless"}
Places == {"idle", "move", "unpack", "pdf", "mark", "enqueue", "archive", "assess", "send",
           "clear", "start", "steps", "apply", "finish"}
Statuses == {"working_on_it", "ready_for_feedback", "fix", "complete"}

\* An AcceptSubmissionJob, a CreateSubmissionHistoryJob for a timestamp or an
\* AcceptOverseerJob for the assessment of a timestamp; try counts retries.
Job == [kind : {"submission", "history", "overseer"}, n : Nat, try : {0, 1}]
NoJob == [kind |-> "none", n |-> 0, try |-> 0]

SubmissionJob   == [kind |-> "submission", n |-> 0, try |-> 0]
HistoryJob(i)   == [kind |-> "history", n |-> i, try |-> 0]
OverseerJob(i)  == [kind |-> "overseer", n |-> i, try |-> 0]

\* lock_args_method: the task for the first two kinds, the task and the
\* assessment for the third.
Digest(job) == <<job.kind, IF job.kind = "overseer" THEN job.n ELSE 0>>

\* One submission history: the upload it was requested for, the upload whose
\* files it keeps (0 until archived) and the state of its assessment.
Histories == [made : Uploads, kept : Contents,
              assessment : {"none", "pre_queued", "passed", "failed"}]

----------------------------------------------------------------------------
(* What the code asks of the shared state *)

ProcessingPdf == new # 0 \/ inProcess # 0

PreQueued(i) == i \in DOMAIN history /\ history[i].assessment = "pre_queued"

AwaitingOverseer == OverseerEnabled /\ \E i \in DOMAIN history : PreQueued(i)

CanSubmitUnmarked == ~ProcessingPdf /\ ~AwaitingOverseer     \* mutant
CanSubmitUnassessed == ~ProcessingPdf /\ ~pending            \* mutant
CanSubmit == ~ProcessingPdf /\ ~pending /\ ~AwaitingOverseer

Queued(d) == \E i \in 1 .. Len(queue) : Digest(queue[i]) = d
Executing(d) == running # NoJob /\ Digest(running) = d
Waiting(d) == \E job \in retries : Digest(job) = d

\* sidekiq_job_present_in_workers_or_default_queue?: the retry set is not asked.
Present(d) == Queued(d) \/ Executing(d)

----------------------------------------------------------------------------
(* perform_async through the unique-jobs client: on_conflict reject *)

EnqueueAgain(job) ==                                        \* mutant
    /\ queue' = Append(queue, job)
    /\ locks' = locks \union {Digest(job)}
    /\ UNCHANGED retries

Enqueue(job) ==
    IF Digest(job) \in locks
    THEN UNCHANGED redisVars
    ELSE /\ queue' = Append(queue, job)
         /\ locks' = locks \union {Digest(job)}
         /\ UNCHANGED retries

----------------------------------------------------------------------------
Init ==
    /\ uploads = 0 /\ web = 0 /\ accepted = 0
    /\ told = {} /\ status = "working_on_it"
    /\ history = <<>>
    /\ new = 0 /\ pid = 0 /\ inProcess = 0 /\ done = 0 /\ pdf = 0
    /\ pending = FALSE
    /\ queue = <<>> /\ retries = {} /\ locks = {}
    /\ up = TRUE /\ running = NoJob /\ pc = "idle" /\ got = 0
    /\ rake = "idle"
    /\ crashes = 0 /\ staffActs = 0
    /\ raced = {}

\* What is at work on an earlier upload that accept_submission does not see when
\* its checks pass: files in the generator's own folder, or in its hands between
\* archiving and unpacking them, a job that has nothing in the file store to show
\* for itself, an Overseer job whose assessment is no longer pre_queued.
Unseen ==
    {race \in {"behind_generator", "behind_job", "behind_overseer"} :
        \/ race = "behind_generator" /\ (pid # 0 \/ rake = "unpack")
        \/ /\ race = "behind_job" /\ ~ProcessingPdf /\ ~pending
           /\ Present(Digest(SubmissionJob)) \/ Present(<<"history", 0>>)
        \/ /\ race = "behind_overseer"
           /\ \E i \in DOMAIN history :
                 LET d == Digest(OverseerJob(i))
                 IN ~PreQueued(i) /\ (Present(d) \/ Waiting(d))}

----------------------------------------------------------------------------
(* The web request: Task#accept_submission under the task's row lock.      *)
(* The lock keeps two requests apart; it does not hold off the worker, the *)
(* generator or a reprocess request, so checking and staging are two steps.*)

\* The checks at the head of accept_submission pass.
AcceptBegin ==
    /\ web = 0 /\ uploads < MaxUploads
    /\ CanSubmit
    /\ uploads' = uploads + 1
    /\ web' = uploads + 1
    /\ raced' = raced \union Unseen
    /\ UNCHANGED <<accepted, taskVars, history, fileVars, pending, redisVars,
                   workerVars, rake, boundVars>>

\* The status moves unless it is final, the files replace those in the new
\* folder, and the job is enqueued -- or rejected, when the AcceptSubmissionJob
\* of the upload before still holds the lock.
AcceptFinish ==
    /\ web # 0
    /\ status' = IF status = "complete" THEN status ELSE "ready_for_feedback"
    /\ new' = web
    /\ accepted' = web
    /\ web' = 0
    /\ Enqueue(SubmissionJob)
    /\ UNCHANGED <<uploads, told, history, pid, inProcess, done, pdf, pending,
                   workerVars, rake, boundVars, raced>>

\* Redis refuses the job: the exception rolls the database back, but the files
\* have already been moved into the new folder.
AcceptAborted ==
    /\ web # 0
    /\ new' = web
    /\ web' = 0
    /\ UNCHANGED <<uploads, accepted, taskVars, history, pid, inProcess, done,
                   pdf, pending, redisVars, workerVars, rake, boundVars, raced>>

----------------------------------------------------------------------------
(* The serial worker of the default queue *)

FirstStep == [submission |-> "move", history |-> "archive", overseer |-> "start"]

Fetch ==
    /\ up /\ running = NoJob /\ queue # <<>>
    /\ running' = Head(queue)
    /\ queue' = Tail(queue)
    /\ pc' = FirstStep[Head(queue).kind]
    /\ UNCHANGED <<requestVars, taskVars, history, fileVars, pending, retries,
                   locks, up, got, rake, boundVars, raced>>

\* The job returns (or swallows its exception), and its lock is released.
Finish ==
    /\ pc = "finish"
    /\ locks' = locks \ {Digest(running)}
    /\ running' = NoJob /\ pc' = "idle" /\ got' = 0
    /\ UNCHANGED <<requestVars, taskVars, history, fileVars, pending, queue,
                   retries, up, rake, boundVars, raced>>

----------------------------------------------------------------------------
(* AcceptSubmissionJob *)

\* move_files_to_in_process, first half: a folder that is still in in_process is
\* emptied, and compress_new_to_done archives the new folder and removes it.
\* Without a new folder the zip of the previous conversion is used again.
CompressNew ==
    /\ pc = "move"
    /\ new # 0 \/ done # 0
    /\ done' = IF new # 0 THEN new ELSE done
    /\ inProcess' = IF inProcess = 0 THEN 0 ELSE done'
    /\ got' = done'
    /\ new' = 0
    /\ pc' = "unpack"
    /\ UNCHANGED <<requestVars, taskVars, history, pid, pdf, pending, redisVars,
                   up, running, rake, boundVars, raced>>

\* Second half: extract_file_from_done.  Until now only the zip has the files.
ExtractDone ==
    /\ pc = "unpack"
    /\ done # 0
    /\ inProcess' = done /\ got' = done
    /\ pc' = "pdf"
    /\ UNCHANGED <<requestVars, taskVars, history, new, pid, done, pdf, pending,
                   redisVars, up, running, rake, boundVars, raced>>

\* Files are missing, or there is nothing to convert: the new folder goes all
\* the same, convert_submission_to_pdf returns false, and the student gets a
\* notification but the status stays.
RejectNothing ==                                            \* mutant
    /\ pc = "move"
    /\ told' = told \union {new}
    /\ new' = 0 /\ inProcess' = 0
    /\ pc' = "finish"
    /\ UNCHANGED <<requestVars, status, history, pid, done, pdf, pending,
                   redisVars, up, running, got, rake, boundVars, raced>>

MoveFilesRejected ==
    /\ pc = "move"
    /\ new # 0 \/ done = 0
    /\ told' = told \union ({IF new # 0 THEN new ELSE accepted} \ {0})
    /\ new' = 0 /\ inProcess' = 0
    /\ pc' = "finish"
    /\ UNCHANGED <<requestVars, status, history, pid, done, pdf, pending,
                   redisVars, up, running, got, rake, boundVars, raced>>

\* An image cannot be processed, or the zip cannot be written after the old one
\* was removed: the exception is answered with a fix.
RaiseSilently ==                                            \* mutant
    /\ pc = "move" /\ new # 0
    /\ new' = 0 /\ inProcess' = 0
    /\ pc' = "finish"
    /\ UNCHANGED <<requestVars, taskVars, history, pid, done, pdf, pending,
                   redisVars, up, running, got, rake, boundVars, raced>>

MoveFilesRaises ==
    /\ pc = "move"
    /\ new # 0
    /\ told' = told \union {new}
    /\ status' = "fix"
    /\ done' \in {done, 0}
    /\ new' = 0 /\ inProcess' = 0
    /\ pc' = "finish"
    /\ UNCHANGED <<requestVars, history, pid, pdf, pending, redisVars, up,
                   running, got, rake, boundVars, raced>>

\* The PDF is written and in_process cleared.  From here until the marker is
\* made nothing shows that the submission is still being worked on.
MakePdf ==
    /\ pc = "pdf"
    /\ pdf' = inProcess
    /\ inProcess' = 0
    /\ pc' = IF HistoryRequired THEN "mark" ELSE "finish"
    /\ UNCHANGED <<requestVars, taskVars, history, new, pid, done, pending,
                   redisVars, up, running, got, rake, boundVars, raced>>

\* LaTeX fails twice, or the zip cannot be unpacked or is gone; only in the last
\* case the conversion returns false and the status stays.
FailPdfSilently ==                                          \* mutant
    /\ pc = "pdf"
    /\ inProcess' = 0
    /\ pc' = "finish"
    /\ UNCHANGED <<requestVars, taskVars, history, new, pid, done, pdf, pending,
                   redisVars, up, running, got, rake, boundVars, raced>>

MakePdfFails ==
    /\ pc \in {"unpack", "pdf"}
    /\ told' = told \union {got}
    /\ status' = IF pc = "unpack" /\ done = 0 THEN status ELSE "fix"
    /\ inProcess' = 0
    /\ pc' = "finish"
    /\ UNCHANGED <<requestVars, history, new, pid, done, pdf, pending,
                   redisVars, up, running, got, rake, boundVars, raced>>

\* A timestamp is taken and the marker is made ...
MarkPending ==
    /\ pc = "mark"
    /\ history' = Append(history, [made |-> got, kept |-> 0, assessment |-> "none"])
    /\ pending' = TRUE
    /\ pc' = "enqueue"
    /\ UNCHANGED <<requestVars, taskVars, fileVars, redisVars, up, running, got,
                   rake, boundVars, raced>>

\* ... and CreateSubmissionHistoryJob is enqueued for it, or rejected when the
\* lock of an earlier one was left behind.
EnqueueHistory ==
    /\ pc = "enqueue"
    /\ Enqueue(HistoryJob(Len(history)))
    /\ pc' = "finish"
    /\ UNCHANGED <<requestVars, taskVars, history, fileVars, pending, up,
                   running, got, rake, boundVars, raced>>

\* What follows the conversion raises: the outer rescue of perform logs it and
\* clears in_process; no history is made and nobody is told.
SubmissionJobRaises ==
    /\ pc \in {"mark", "enqueue"}
    /\ inProcess' = 0
    /\ pc' = "finish"
    /\ UNCHANGED <<requestVars, taskVars, history, new, pid, done, pdf, pending,
                   redisVars, up, running, got, rake, boundVars, raced>>

----------------------------------------------------------------------------
(* CreateSubmissionHistoryJob *)

\* create_archive! copies the files of the done zip, whatever it holds now.
Archive ==
    /\ pc = "archive"
    /\ history[running.n].kept = 0 /\ done # 0
    /\ history' = [history EXCEPT ![running.n].kept = done]
    /\ pc' = IF OverseerEnabled THEN "assess" ELSE "clear"
    /\ UNCHANGED <<requestVars, taskVars, fileVars, pending, redisVars, up,
                   running, got, rake, boundVars, raced>>

\* The archive cannot be written or the timestamp already has one, the
\* assessment cannot be made or sent: perform swallows it.
HistoryJobRaises ==
    /\ pc \in {"archive", "assess", "send"}
    /\ pc' = "clear"
    /\ UNCHANGED <<requestVars, taskVars, history, fileVars, pending, redisVars,
                   up, running, got, rake, boundVars, raced>>

\* OverseerAssessment.create_for
CreateAssessment ==
    /\ pc = "assess"
    /\ history' = [history EXCEPT ![running.n].assessment = "pre_queued"]
    /\ pc' = "send"
    /\ UNCHANGED <<requestVars, taskVars, fileVars, pending, redisVars, up,
                   running, got, rake, boundVars, raced>>

SendToOverseer ==
    /\ pc = "send"
    /\ Enqueue(OverseerJob(running.n))
    /\ pc' = "clear"
    /\ UNCHANGED <<requestVars, taskVars, history, fileVars, pending, up,
                   running, got, rake, boundVars, raced>>

\* The ensure clause of perform.
ClearPending ==
    /\ pc = "clear"
    /\ pending' = FALSE
    /\ pc' = "finish"
    /\ UNCHANGED <<requestVars, taskVars, history, fileVars, redisVars, up,
                   running, got, rake, boundVars, raced>>

----------------------------------------------------------------------------
(* AcceptOverseerJob *)

OverseerStart ==
    /\ pc = "start"
    /\ ~ProcessingPdf /\ done # 0
    /\ pc' = "steps"
    /\ UNCHANGED <<requestVars, taskVars, history, fileVars, pending, redisVars,
                   up, running, got, rake, boundVars, raced>>

\* The job raises: at its head while a PDF is compiling, later when a step, its
\* container or the update of the task does.  Sidekiq retries it once, keeping
\* the lock.
OverseerRaises ==
    /\ \/ pc = "start" /\ (ProcessingPdf \/ done = 0)
       \/ pc \in {"steps", "apply"}
    /\ \/ /\ running.try = 0
          /\ retries' = retries \union {[running EXCEPT !.try = 1]}
          /\ UNCHANGED locks
       \/ /\ running.try = 1
          /\ locks' = locks \ {Digest(running)}
          /\ UNCHANGED retries
    /\ running' = NoJob /\ pc' = "idle"
    /\ UNCHANGED <<requestVars, taskVars, history, fileVars, pending, queue, up,
                   got, rake, boundVars, raced>>

\* The steps ran; the verdict is stored first ...
OverseerVerdict(verdict) ==
    /\ pc = "steps"
    /\ history' = [history EXCEPT ![running.n].assessment = verdict]
    /\ pc' = "apply"
    /\ UNCHANGED <<requestVars, taskVars, fileVars, pending, redisVars, up,
                   running, got, rake, boundVars, raced>>

\* ... then the status a step is configured to give, whatever the task's
\* status is by now; a step may give none.
OverseerApply ==
    /\ pc = "apply"
    /\ status' \in {status,
                    IF history[running.n].assessment = "passed"
                    THEN "complete" ELSE "fix"}
    /\ pc' = "finish"
    /\ UNCHANGED <<requestVars, told, history, fileVars, pending, redisVars, up,
                   running, got, rake, boundVars, raced>>

\* The poller of the Sidekiq process moves a due retry back to its queue.
RetryDue ==
    \E job \in retries :
        /\ up
        /\ queue' = Append(queue, job)
        /\ retries' = retries \ {job}
        /\ UNCHANGED <<requestVars, taskVars, history, fileVars, pending, locks,
                       workerVars, rake, boundVars, raced>>

----------------------------------------------------------------------------
(* The Sidekiq process stops *)

\* The zip that compress_new_to_done leaves when it is cut off over a folder: the
\* old one, none once that is removed, or the new one when it was closed in time.
ZipsLeft(folder) == {done, 0, folder}

\* Killed: the running job is gone, its lock and everything it left stay.  If the
\* files are in the zip alone -- between archiving and unpacking them, or at the
\* head of a job that was put back -- nothing is left for others to find.
Kill ==
    /\ up /\ crashes < MaxCrashes
    /\ up' = FALSE
    /\ running' = NoJob /\ pc' = "idle" /\ got' = 0
    /\ crashes' = crashes + 1
    /\ done' \in IF pc = "move" /\ new # 0 THEN ZipsLeft(new) ELSE {done}
    /\ raced' = IF inProcess = 0 /\ (pc = "unpack" \/ (pc = "move" /\ new = 0))
                THEN raced \union {"traceless"} ELSE raced
    /\ UNCHANGED <<requestVars, taskVars, history, new, pid, inProcess, pdf,
                   pending, redisVars, rake, staffActs>>

\* Shut down: the job is interrupted, its ensure clauses run, and Sidekiq puts
\* it back at the head of the queue.  The one of convert_submission_to_pdf clears
\* in_process; the one of compress_new_to_done removes the new folder, whatever
\* has become of the zip by then.
Shutdown ==
    /\ up /\ crashes < MaxCrashes
    /\ running # NoJob /\ pc # "finish"
    /\ up' = FALSE
    /\ queue' = <<running>> \o queue
    /\ \/ UNCHANGED <<new, done, raced>>
       \/ /\ pc = "move" /\ new # 0
          /\ new' = 0
          /\ done' \in ZipsLeft(new)
          /\ raced' = IF done' = new THEN raced ELSE raced \union {"cut_short"}
    /\ inProcess' = IF pc \in {"unpack", "pdf"} \/ new' # new THEN 0 ELSE inProcess
    /\ pending' = (pending /\ running.kind # "history")
    /\ running' = NoJob /\ pc' = "idle" /\ got' = 0
    /\ crashes' = crashes + 1
    /\ UNCHANGED <<requestVars, taskVars, history, pid, pdf, retries, locks, rake,
                   staffActs>>

Restart ==
    /\ ~up
    /\ up' = TRUE
    /\ UNCHANGED <<requestVars, taskVars, history, fileVars, pending, redisVars,
                   running, pc, got, rake, boundVars, raced>>

\* The orphan reaper of sidekiq-unique-jobs: a lock without a job is dropped.
ReapLock ==
    \E d \in locks :
        /\ up
        /\ ~Present(d) /\ ~Waiting(d)
        /\ locks' = locks \ {d}
        /\ UNCHANGED <<requestVars, taskVars, history, fileVars, pending, queue,
                       retries, workerVars, rake, boundVars, raced>>

----------------------------------------------------------------------------
(* The PDF generator: rake submission:generate_pdfs *)

\* A folder that has been in new for 30 minutes and that no AcceptSubmissionJob
\* owns; queued jobs own theirs only while a Sidekiq process is up.  Files a
\* request is about to stage are younger than that.
ClaimYoung ==                                               \* mutant
    /\ new # 0
    /\ ~Executing(Digest(SubmissionJob))
    /\ up => ~Queued(Digest(SubmissionJob))

Claimable ==
    /\ new # 0 /\ web = 0
    /\ ~Executing(Digest(SubmissionJob))
    /\ up => ~Queued(Digest(SubmissionJob))

\* move_to_pid_folder, then clean_up_failed_runs: the folder of a generator that
\* died goes back to new, and is dropped when new has a folder for the task.
RakeStartForgets ==                                         \* mutant
    /\ rake = "idle" /\ Claimable
    /\ rake' = "claimed"
    /\ pid' = new /\ new' = 0
    /\ UNCHANGED <<requestVars, taskVars, history, inProcess, done, pdf,
                   pending, redisVars, workerVars, boundVars, raced>>

RakeStart ==
    /\ rake = "idle"
    /\ Claimable \/ pid # 0
    /\ rake' = IF Claimable THEN "claimed" ELSE "idle"
    /\ pid' = IF Claimable THEN new ELSE 0
    /\ new' = IF pid # 0 /\ (Claimable \/ new = 0) THEN pid
              ELSE IF Claimable THEN 0 ELSE new
    /\ raced' = IF Claimable /\ ~up /\ Queued(Digest(SubmissionJob))
                THEN raced \union {"doubled"} ELSE raced
    /\ UNCHANGED <<requestVars, taskVars, history, inProcess, done, pdf,
                   pending, redisVars, workerVars, boundVars>>

\* convert_submission_to_pdf with the generator's own folder as the source: the
\* same two halves as the job's, with nothing to keep the two processes apart.
RakeCompress ==
    /\ rake = "claimed"
    /\ done' = pid
    /\ inProcess' = IF inProcess = 0 THEN 0 ELSE pid
    /\ pid' = 0
    /\ rake' = "unpack"
    /\ UNCHANGED <<requestVars, taskVars, history, new, pdf, pending, redisVars,
                   workerVars, boundVars, raced>>

RakeExtract ==
    /\ rake = "unpack"
    /\ done # 0
    /\ inProcess' = done
    /\ rake' = "pdf"
    /\ UNCHANGED <<requestVars, taskVars, history, new, pid, done, pdf, pending,
                   redisVars, workerVars, boundVars, raced>>

\* Files are missing (the status stays), an image is broken or the zip cannot be
\* written (fix), or a signal interrupts the conversion: process_new_to_pdf
\* rescues that too, with the folder gone and the zip in any state.
RakeCompressFails ==
    /\ rake = "claimed"
    /\ told' = told \union {pid}
    /\ status' \in {status, "fix"}
    /\ done' \in ZipsLeft(pid)
    /\ pid' = 0 /\ inProcess' = 0
    /\ rake' = "idle"
    /\ UNCHANGED <<requestVars, history, new, pdf, pending, redisVars,
                   workerVars, boundVars, raced>>

RakePdf ==
    /\ rake = "pdf"
    /\ pdf' = inProcess
    /\ inProcess' = 0
    /\ rake' = "idle"
    /\ UNCHANGED <<requestVars, taskVars, history, new, pid, done, pending,
                   redisVars, workerVars, boundVars, raced>>

\* The same for what follows: fix after an exception of its own, the status as it
\* is after a signal or when the zip is gone.
RakePdfFails ==
    /\ rake \in {"unpack", "pdf"}
    /\ told' = told \union ({IF rake = "pdf" THEN inProcess ELSE done} \ {0})
    /\ status' \in {status, "fix"}
    /\ inProcess' = 0
    /\ rake' = "idle"
    /\ UNCHANGED <<requestVars, history, new, pid, done, pdf, pending,
                   redisVars, workerVars, boundVars, raced>>

RakeKilled ==
    /\ rake # "idle" /\ crashes < MaxCrashes
    /\ rake' = "idle"
    /\ done' \in IF rake = "claimed" THEN ZipsLeft(pid) ELSE {done}
    /\ raced' = IF rake = "unpack" /\ inProcess = 0
                THEN raced \union {"traceless"} ELSE raced
    /\ crashes' = crashes + 1
    /\ UNCHANGED <<requestVars, taskVars, history, new, pid, inProcess, pdf,
                   pending, redisVars, workerVars, staffActs>>

----------------------------------------------------------------------------
(* rake maintenance:cleanup.  Each part waits until what it clears is ten  *)
(* minutes old, which is longer than the steps between making it and       *)
(* enqueueing the job that owns it, and than a generator's conversion.     *)

ClearAbandonedSubmission ==
    /\ inProcess # 0 /\ rake # "pdf"
    /\ ~Present(Digest(SubmissionJob))
    /\ status' = "fix"
    /\ told' = told \union {inProcess}
    /\ inProcess' = 0
    /\ UNCHANGED <<requestVars, history, new, pid, done, pdf, pending,
                   redisVars, workerVars, rake, boundVars, raced>>

ClearUnlockedMarker ==                                      \* mutant
    /\ pending /\ pc # "enqueue"
    /\ <<"history", 0>> \notin locks
    /\ pending' = FALSE
    /\ UNCHANGED <<requestVars, taskVars, history, fileVars, redisVars,
                   workerVars, rake, boundVars, raced>>

ClearAbandonedMarker ==
    /\ pending /\ pc # "enqueue"
    /\ ~Present(<<"history", 0>>)
    /\ pending' = FALSE
    /\ UNCHANGED <<requestVars, taskVars, history, fileVars, redisVars,
                   workerVars, rake, boundVars, raced>>

ClearUnlockedAssessment ==                                  \* mutant
    \E i \in DOMAIN history :
        /\ PreQueued(i) /\ pc # "send"
        /\ Digest(OverseerJob(i)) \notin locks
        /\ history' = [history EXCEPT ![i].assessment = "failed"]
        /\ status' = "fix"
        /\ UNCHANGED <<requestVars, told, fileVars, pending, redisVars,
                       workerVars, rake, boundVars, raced>>

ClearAbandonedAssessment ==
    \E i \in DOMAIN history :
        /\ PreQueued(i) /\ pc # "send"
        /\ ~Present(Digest(OverseerJob(i)))
        /\ history' = [history EXCEPT ![i].assessment = "failed"]
        /\ status' = "fix"
        /\ UNCHANGED <<requestVars, told, fileVars, pending, redisVars,
                       workerVars, rake, boundVars, raced>>

----------------------------------------------------------------------------
(* Staff *)

\* PUT .../submission: recreate_task_pdf unpacks the done zip into new, without
\* the lock and without looking at what is being processed.
Reprocess ==
    /\ done # 0 /\ staffActs < MaxStaffActs
    /\ new' = done
    /\ staffActs' = staffActs + 1
    /\ raced' = IF new # 0 \/ pid # 0 \/ rake # "idle"
                THEN raced \union {"reprocessed"} ELSE raced
    /\ UNCHANGED <<requestVars, taskVars, history, pid, inProcess, done, pdf,
                   pending, redisVars, workerVars, rake, crashes>>

\* PUT .../overseer_assessment/:oa_id/trigger: the status of the assessment is
\* not looked at, only the lock keeps the job from being enqueued twice.
Retrigger ==
    \E i \in DOMAIN history :
        /\ history[i].kept # 0 /\ history[i].assessment # "none"
        /\ staffActs < MaxStaffActs
        /\ Enqueue(OverseerJob(i))
        /\ staffActs' = staffActs + 1
        /\ raced' = IF history[i].kept # accepted \/ web # 0
                    THEN raced \union {"retriggered"} ELSE raced
        /\ UNCHANGED <<requestVars, taskVars, history, fileVars, pending,
                       workerVars, rake, crashes>>

\* The tutor assesses the task while any of this goes on.
TutorAssess ==
    /\ accepted # 0
    /\ status' \in {"fix", "complete"} \ {status}
    /\ UNCHANGED <<requestVars, told, history, fileVars, pending, redisVars,
                   workerVars, rake, boundVars, raced>>

----------------------------------------------------------------------------
Request == AcceptFinish \/ AcceptAborted

Worker ==
    \/ Fetch \/ Finish
    \/ CompressNew \/ MoveFilesRejected \/ MoveFilesRaises \/ ExtractDone
    \/ MakePdf \/ MakePdfFails \/ MarkPending \/ EnqueueHistory \/ SubmissionJobRaises
    \/ Archive \/ HistoryJobRaises \/ CreateAssessment \/ SendToOverseer \/ ClearPending
    \/ OverseerStart \/ OverseerRaises \/ OverseerVerdict("passed")
    \/ OverseerVerdict("failed") \/ OverseerApply

Generator == RakeCompress \/ RakeCompressFails \/ RakeExtract \/ RakePdf \/ RakePdfFails

Fault == Kill \/ Shutdown \/ RakeKilled

Staff == Reprocess \/ Retrigger \/ TutorAssess

Next ==
    \/ AcceptBegin \/ Request
    \/ Worker \/ RetryDue \/ Restart \/ ReapLock
    \/ RakeStart \/ Generator
    \/ ClearAbandonedSubmission \/ ClearAbandonedMarker \/ ClearAbandonedAssessment
    \/ Staff \/ Fault

Spec == Init /\ [][Next]_vars

\* A request that started ends, Sidekiq is restarted and works through its
\* queue, and the two cron tasks keep running.  Nothing makes a student submit,
\* staff act or a process crash, and nothing here waits for the reaper.
Fairness ==
    /\ WF_vars(Request)
    /\ WF_vars(Worker) /\ WF_vars(RetryDue) /\ WF_vars(Restart)
    /\ WF_vars(RakeStart) /\ WF_vars(Generator)
    /\ WF_vars(ClearAbandonedSubmission)
    /\ WF_vars(ClearAbandonedMarker)
    /\ WF_vars(ClearAbandonedAssessment)

FairSpec == Spec /\ Fairness

----------------------------------------------------------------------------
(* Safety *)

\* Type correctness: every variable keeps its range; in particular a submission
\* is only ever reported as failed when there was one (convert_submission_to_pdf
\* and its callers are reached with and without a folder in new).
TypeOK ==
    /\ uploads \in Contents /\ web \in Contents /\ accepted \in Contents
    /\ told \subseteq Uploads /\ status \in Statuses
    /\ history \in Seq(Histories)
    /\ new \in Contents /\ pid \in Contents /\ inProcess \in Contents
    /\ done \in Contents /\ pdf \in Contents /\ pending \in BOOLEAN
    /\ queue \in Seq(Job) /\ retries \subseteq Job
    /\ locks \subseteq {"submission", "history", "overseer"} \X Nat
    /\ up \in BOOLEAN /\ running \in Job \union {NoJob}
    /\ pc \in Places
    /\ got \in Contents
    /\ rake \in {"idle", "claimed", "unpack", "pdf"}
    /\ crashes \in 0 .. MaxCrashes /\ staffActs \in 0 .. MaxStaffActs
    /\ raced \subseteq Races

\* The until_executed locks do their work: however requests, the worker, the
\* retry set, shutdowns, kills and the reaper interleave, a task never has two
\* submission or two history jobs, nor an assessment two Overseer jobs, among
\* the queue, the worker and the retry set, and each of them holds its lock.
JobsUnique ==
    /\ \A i, j \in 1 .. Len(queue) : i # j => Digest(queue[i]) # Digest(queue[j])
    /\ \A i \in 1 .. Len(queue) : Digest(queue[i]) \in locks
    /\ \A job \in retries : Digest(job) \in locks /\ ~Present(Digest(job))
    /\ \A job, other \in retries : job # other => Digest(job) # Digest(other)
    /\ running # NoJob =>
          Digest(running) \in locks /\ ~Queued(Digest(running))

Clear(races) == raced \intersect races = {}

\* No accepted submission is lost without a word: once accept_submission has
\* answered, the files, or later ones, are in a folder some process looks at,
\* or the student was told that these or later ones failed; also when the worker
\* or the generator is killed while it archives them.  The exceptions are what the
\* code leaves open: it was accepted behind the generator's back, recreate_task_pdf
\* put older files over it, or the ensure of compress_new_to_done removed it in a
\* shutdown before the zip was complete.
KeptOrTold ==
    Clear({"behind_generator", "cut_short", "reprocessed"}) =>
        \/ \E upload \in told : upload >= accepted
        \/ \E content \in {new, pid, done} : content >= accepted

\* The done zip never goes back to an older submission, though the job, the
\* generator and the clean-up of failed runs all move folders to it: what replaces
\* it is at least as new, and older than what was accepted last only if the student
\* was told that that failed.  It can be lost in the making of its successor; then
\* that, or a later one, is still in a folder, or the student is told of a failure.
NeverRegresses ==
    [][Clear({"behind_generator", "cut_short", "reprocessed"})' /\ done' # done =>
          IF done' # 0
          THEN /\ done' >= done
               /\ \E upload \in told \union {done'} : upload >= accepted
          ELSE \E content \in {new', pid'} \union told' : content >= done]_vars

\* create_archive! reads the done zip when its job runs, not when the history
\* was asked for; the marker keeps the next submission away until then.  So the
\* history of a timestamp keeps the submission it was made for, unless that was
\* accepted in one of the windows where nothing shows of the work in progress.
HistoryFaithful ==
    Clear({"behind_generator", "behind_job", "doubled"}) =>
        \A i \in DOMAIN history : history[i].kept \in {0, history[i].made}

\* AcceptOverseerJob sets the task's status whatever has happened since it was
\* queued: a verdict is about the submission that was accepted last, or the
\* student was told that that one failed.
VerdictOfLatest ==
    [][/\ Clear({"behind_generator", "behind_job", "behind_overseer", "cut_short",
                "doubled", "reprocessed", "retriggered"})
       /\ pc = "steps" /\ pc' = "apply"
       => accepted \in told \union {history[running.n].kept}]_vars

\* When nobody is at work on the task its PDF shows the files in the done zip,
\* or the student was told that these or later ones failed: a conversion that
\* is interrupted between the zip and the PDF leaves a trace that is followed.
PdfOfDone ==
    /\ Clear({"behind_generator", "doubled", "reprocessed", "traceless"})
    /\ new = 0 /\ pid = 0 /\ inProcess = 0 /\ rake = "idle"
    /\ ~Present(Digest(SubmissionJob))
    => pdf = done \/ \E upload \in told : upload >= done

\* What accept_submission says of itself: "Ensure there is not a submission
\* already in process".  processing_pdf? does not look into the generator's
\* folder, in_process/pid_<n>, so the checks pass while it holds the files.
OneAtATime == [][web = 0 /\ web' # 0 => pid = 0]_vars

----------------------------------------------------------------------------
(* Liveness *)

\* The student is never locked out: whatever crashes leave behind -- an
\* in_process folder, a marker, a pre_queued assessment, a lock -- the jobs, the
\* generator and the maintenance task come to remove, and accept_submission
\* comes to pass its checks.
CanSubmitAgain == []<>CanSubmit

\* Every accepted submission gets its PDF (or a later one does), or the student
\* comes to be told that it, or a later one, failed.
Converted ==
    \A c \in Uploads :
        accepted = c ~>
            \/ pdf >= c
            \/ \E upload \in told : upload >= c
            \/ ~Clear({"behind_generator", "cut_short", "doubled", "reprocessed",
                       "traceless"})

\* An assessment does not stay pre_queued, although its job can raise twice, be
\* lost in a kill or never be enqueued.  Each run of the submission job makes
\* at most one, and a job runs again only after a shutdown.
AssessmentsEnd ==
    \A i \in 1 .. MaxUploads + MaxCrashes : PreQueued(i) ~> ~PreQueued(i)
=============================================================================
