# OnTrack (doubtfire-api) in TLA+

A verification development kept beside the code of `src/`: TLA+ modules for the
parts of the system where several processes meet, TLC configurations that check
them on small instances, and TLAPS proofs for every instance.

Contents: [the system](#the-system) · [modules](#modules) ·
[SubmissionPipeline](#submissionpipeline) ·
[TaskLifecycle](#tasklifecycle) · [GroupSubmissions](#groupsubmissions) ·
[NotificationDigests](#notificationdigests) ·
[CommunicationSets](#communicationsets) · [TurnItIn](#turnitin) · [runs](#runs) · [proofs](#proofs) ·
[what the models show about the code](#what-the-models-show-about-the-code) ·
[not modelled](#not-modelled) · [plan](#plan)

## The system

OnTrack is a Rails/Grape API with Sidekiq workers, a MySQL database, Redis, a
shared file store and two cron-driven rake tasks. Students submit evidence for
tasks, tutors assess it, and a set of asynchronous jobs convert, archive, test
and announce what happened.

| component | state it keeps | operations | hard behaviour | what makes it correct |
| --- | --- | --- | --- | --- |
| Submission pipeline (`task.rb`, `portfolio_evidence.rb`, `submission_history.rb`, `accept_submission_job.rb`, `create_submission_history_job.rb`, `generate_pdfs.rake`, `maintenance.rake`) | folders `new`, `in_process`, `in_process/pid_<n>`, the `done` zip, the PDF, the pending marker, submission histories, queue and locks in Redis | accept, convert, archive, generate, clean up, reprocess | web, worker, generator and clean-up share folders without a common lock; kills and shutdowns at any line | nothing accepted is lost silently, nothing older replaces newer files, each history is of its own submission, nobody is locked out |
| Overseer (`overseer_assessment.rb`, `accept_overseer_job.rb`) | assessments and their status, task status | create, send, run, retry, fail abandoned | verdict minutes after the upload; retry beside clean-up | a verdict is about the submission that counts; assessments end |
| Task lifecycle (`task.rb`, `task_status.rb`, `task_submission.rb`) | status, submission/assessment/completion dates, times assessed, extensions, comments | trigger_transition, submit, engage, assess | requests on stale copies of a row; time passing | closed states stay closed to students; dates and counts agree with the status |
| Extensions (`extension_comment.rb`, `task.rb`) | extension comments, weeks | apply, assess, grant | two assessors; deadline | never beyond the deadline, granted once |
| Prerequisites (`task_prerequisite.rb`) | graph of task definitions | fix cascade | cycles | the cascade ends and reaches every dependent |
| Groups (`group.rb`, `group_submission.rb`, `group_membership.rb`) | memberships, group submissions | create_submission, propagate, add/remove member, switch tutorial | membership changes beside a submission | members of one submission agree |
| Tutorial enrolment (`tutorial_enrolment.rb`) | enrolments | enrol, withdraw | group set constraints | one tutorial per stream |
| Discuss timeout (`unit.rb`, `notify_discuss_timeout_job.rb`) | warning and expiry dates | warn, expire | tutor acting at the same time | warned before expired |
| Notifications (`notification.rb`, `notification_setting.rb`, `send_notification_digest_job.rb`) | delivery ledger, digest slot | notify, poll, send, resolve | crash between delivery and marking | each notification is sent or dropped, at most one digest per slot |
| Communications (`communication/*`, `execute_communication_set*_job.rb`) | rules, schedules | poll, enqueue, allocate, act | retries, rejected jobs | one run per occurrence, one rule per student |
| TurnItIn (`turn_it_in/*`, `tii_*_job.rb`) | actions with retry/error/complete | run, retry, webhook | rate limits, webhook beside poll | an action completes or shows its error |
| Comments and read cursors (`comment_read_cursor.rb`) | high-water mark | advance | concurrent readers | never goes back |
| SCORM (`test_attempt.rb`, `test_attempts_api.rb`) | attempts | start, update, terminate, override | check-then-create | one open attempt, limit kept |
| Moderation and overflow claims (`moderated_task.rb`, `overflow_task_claim.rb`) | claims | claim, release, sample | two tutors | one claimant |
| LMS/D2L/LTI (`lms_integration.rb`, services) | integration state | enable, sync, disable | failure counting beside validation | off stays off until re-enabled |
| Engagement and marking sessions (`engagement_tracker.rb`, `session_tracker.rb`) | sessions | record | no lock on sessions | one session per window |
| Record keeping (units, users, outcomes, notes, imports, downloads, portfolios, plagiarism) | tables | create, update, import | little interaction | -- |

How they interact: a web request changes the task (lifecycle), stages files and
enqueues a job (pipeline); the job converts, may answer with *fix* (lifecycle),
enqueues the history job, which archives and hands to Overseer, whose job sets
the task's status again (lifecycle). The generator (`rake
submission:generate_pdfs`) picks up folders no job owns; `rake
maintenance:cleanup` removes what crashes leave. Every status change of a group
task is propagated to the group's tasks. Comments create notifications; cron
jobs poll digests and communication schedules.

PROJECT.json lists every component with its sources and every hazard at its
line.

## Modules

| module | models | state |
| --- | --- | --- |
| `SubmissionPipeline` | one individual task's submissions through web request, Sidekiq worker, generator, clean-up and staff requests | checked, safety proved |
| `SubmissionPipelineProofs` | theorems about it: types, unique jobs, nothing lost, nothing older | proved |
| `SubmissionPipelineRulesProofs` | theorems about it: the PDF, the histories, Overseer's verdicts | proved |
| `TaskLifecycle` | the status of one individual task, its dates, extensions and discuss timeout, under requests and jobs that save older copies of the row | checked, safety proved |
| `MCTaskLifecycle` | its instances for TLC (symmetric requests) | |
| `TaskLifecycleProofs` | theorems about it: types and what holds in every interleaving | proved |
| `TaskLifecycleRulesProofs` | theorems about it: warnings, due dates and comments, outside the races | proved |
| `GroupSubmissions` | one task handed in by groups: links, files, job and status of the members' tasks while memberships change | checked, safety proved |
| `MCGroupSubmissions` | its instance for TLC (symmetric students and groups) | |
| `GroupSubmissionsProofs` | theorems about it | proved |
| `DigestLedger` | what the e-mail of notifications promises, without jobs | abstract |
| `NotificationDigests` | one user's notifications, settings, digest poll and digest job | checked, implements `DigestLedger`, safety proved |
| `NotificationDigestsProofs` | theorems about it, the refinement among them | proved |
| `CommunicationSets` | a communication set, its rules, its job and its schedule | checked, all of it proved |
| `MCCommunicationSets` | its instance for TLC: two rules | |
| `CommunicationSetsProofs` | theorems about it | proved |
| `TurnItIn` | one file's way through Turnitin: check, web hooks, retries | checked, safety proved |
| `TurnItInProofs` | theorems about it | proved |

The first two models meet at the task's status: in `TaskLifecycle` a verdict of the
Overseer and a failed conversion are requests among others (`OverseerBegins`,
`TutorAsks`), in `SubmissionPipeline` the tutor is one step (`TutorAssess`).
They are not composed: nothing in the folders depends on the dates.
`GroupSubmissions` is the composition of both for several tasks, with what
neither needs for one: status and folders are reduced to what a group tells
apart. The other three share nothing with them but the events that start them
(a notification is recorded, a grade changes, a submission is accepted).

## SubmissionPipeline

**State.** A submission is the number of its upload. Folders and archives hold
the number of the upload whose files are in them, 0 when there is none:

| variable | code |
| --- | --- |
| `uploads`, `web`, `accepted` | calls of `Task#accept_submission`; the one inside it (they exclude each other by the task's row lock); the last one that returned |
| `told` | uploads whose failure reached the student: `pdf_generation_failed` notification, *fix* with a comment |
| `status` | `task_status`, of which four values matter here: what the jobs set, and what a tutor can set meanwhile |
| `history` | `SubmissionHistory` rows with their archive and `OverseerAssessment` |
| `new`, `pid`, `inProcess`, `done`, `pdf`, `pending` | `student_work/new/<id>`, `in_process/pid_<n>/<id>`, `in_process/<id>`, the done zip, the task's PDF, the history marker |
| `queue`, `retries`, `locks` | the default queue, the retry set, the digests of sidekiq-unique-jobs |
| `up`, `running`, `pc`, `got` | the Sidekiq process with its one thread for the default queue (`sidekiq.yml` gives that capsule concurrency 1), its job, where it is, the upload it converts |
| `rake` | where the PDF generator is |
| `raced` | history variable, see below |

**Actions.** The web request is two steps (checks, then staging and enqueue),
because the row lock keeps other requests out but not the worker, the generator
or a reprocess. Each job is cut where another process could notice, or a crash
leaves something else behind: `CompressNew`, `ExtractDone` (the two halves of
`move_files_to_in_process`, between which only the zip has the files),
`MakePdf`, `MarkPending`, `EnqueueHistory`; `Archive`, `CreateAssessment`,
`SendToOverseer`, `ClearPending`; `OverseerStart`, `OverseerVerdict`,
`OverseerApply`. The error paths are actions of their own
(`MoveFilesRejected`, `MoveFilesRaises`, `MakePdfFails`, `SubmissionJobRaises`,
`HistoryJobRaises`, `OverseerRaises`, `AcceptAborted`). `RakeStart` claims the
folder and returns what a dead generator left; `RakeCompress`, `RakeExtract` and
`RakePdf` with `RakeCompressFails` and `RakePdfFails` are the generator's
conversion. The three `ClearAbandoned...` actions are `maintenance:cleanup`.
`Kill`, `Shutdown`, `RakeKilled` and `Restart` are the faults; `ReapLock` is the
orphan reaper. `Reprocess`, `Retrigger` and `TutorAssess` are staff.

A fault inside `compress_new_to_done` leaves the old zip, none, or the new one
(`ZipsLeft`). A kill leaves the folder too. A shutdown runs the method's `ensure`,
which removes the folder whatever has become of the zip; the one of
`convert_submission_to_pdf` clears `in_process`. A signal to the generator is an
exception that `process_new_to_pdf` rescues, so it ends like a failed conversion.

**External parts**, modelled from how the code uses them: Sidekiq's fetch,
retry set, shutdown (job interrupted, `ensure` clauses run, job put back) and
the unique-jobs middleware (`lock: :until_executed`, `on_conflict: :reject`:
the lock is taken at enqueue, kept across a retry, released at the end).

**Abstractions.**
- The age limits (30 minutes for the generator's claim, ten for the clean-up)
  become: not while a step that has just made the artefact is still on its way
  to what protects it (`web = 0`, `pc # "enqueue"`, `pc # "send"`,
  `rake # "pdf"`). A process that hangs longer than these limits without dying
  is outside the model.
- A later write into a folder replaces an earlier one: file names are those of
  the upload requirements, the same in each submission.
- Zipping a folder, unzipping one and moving one are one step each for the other
  processes: that one of them reads a zip while it is being written is left out,
  and a zip that a fault cut off counts as none, or as whole when only its folder
  had still to go. The database commit of the request is one step with its
  enqueue.
- Sidekiq's own inspection APIs answer correctly. One generator runs at a time
  for a task.
- Two submissions do not convert within the same second, so each timestamp is
  used once. Submissions converted by the generator get no history, as in the
  code.
- `in_process_files_for_task` returns an empty list when the folder is gone, so
  a conversion that lost its folder writes an empty PDF (`pdf' = inProcess = 0`).

**Races the code leaves open** are recorded in `raced`, and each property
excuses only the tags it must; removing any tag from a property was tried, and
TLC then finds it violated.

| tag | what happened |
| --- | --- |
| `behind_generator` | a submission was accepted while the generator held the task's files |
| `behind_job` | ... while a submission or history job existed that has nothing in the file store to show for itself |
| `behind_overseer` | ... while an Overseer job existed whose assessment is no longer pre_queued |
| `cut_short` | a shutdown inside `compress_new_to_done` removed the folder before the zip was complete |
| `doubled` | the generator claimed the folder of a queued job during an outage |
| `reprocessed` | reprocess was asked for while files were waiting or being generated |
| `retriggered` | Overseer was sent a history that is not of the latest submission |
| `traceless` | the worker or the generator was killed while only the zip had the files: between zipping and unpacking them, or at the head of a job that was put back |

**Properties.** `JobsUnique`: locks and jobs agree in every interleaving.
`KeptOrTold`: nothing accepted is lost without a word. `NeverRegresses`: the
done zip never goes back, and is lost only while its successor is still in a
folder. `HistoryFaithful`: the history of a timestamp keeps
the submission it was made for. `VerdictOfLatest`: a verdict is about the
latest submission. `PdfOfDone`: at rest, the PDF is that of the done zip.
`CanSubmitAgain`, `Converted`, `AssessmentsEnd`: nobody stays locked out, each
submission is converted or answered for, assessments end.

**Fairness** (`FairSpec`): a request that started ends; Sidekiq is restarted by
its supervisor, works and polls its retry set; the two cron tasks run again and
again. Each is a process with its own schedule, so each gets weak fairness of
its own; the three parts of the clean-up are separate because one cleanup run
executes all three. Nothing is assumed of students, staff, faults or the
reaper.

**Deadlock** is not checked: with the budgets used up and nothing left to do the
model rightly stops.

## TaskLifecycle

**State.** `row` is the task in the database: `status`, `submitted`
(`submission_date`), `assessed` (`assessment_date`), `completed`
(`completion_date`), `times` (`times_assessed`), `extensions`, `discussAt`
(`moved_to_discuss_at`), `warned` and `expired` (`notified_discuss_..._at`).
`lastSaid` is the last comment when it is a status comment, `asked` the
extension comment that awaits its assessment. `requests` holds, for each request
or job under way, who acts, what status is wanted, and **the copy of the row it
loaded**: everything it decides afterwards it decides on that copy, and
`SaveChanges` writes the columns in which its copy differs from what it loaded,
as Active Record does. Time (`now`) is counted in writes, so that no two dates
are equal; 0 is NULL.

**Actions.** `StudentAsks`, `TutorAsks` are `trigger_transition` up to its first
write, with the guards of the API before it; `SayEngaged` then `Engage` are the
comment and the save of `engage`; `Assess` then `Tell` the save and the comment
of `assess`; `Repeat` is the duplicate check that ends the request without a
save. `TutorReuses`/`Reuse` are `reuse_existing_submission_for_feedback`.
`Upload` is `create_submission_and_trigger_state_change` with `submit`, one step
because it runs under the row's lock. `AskExtension`, `AssessorOpens` and
`Reject` are the extension comments; `Grant` (the weeks), `Restore` (the status
of late work that is in time again), `Tell` (its comment) and `Answer` (the
extension comment itself) are what `grant_extension` and its caller write one
after the other, with no lock or transaction around them; `OverseerBegins`, `OverseerSets` the status
the Overseer job gives; `TimeoutLoads`, `Warn`, `ExpireDiscuss`,
`ExpireNothing`, `LeaveDiscuss` the discuss timeout. `Tick` and `Remark` are
time and other comments.

**Bounds and abstractions.** `MaxNow` bounds time and so the writes. At most one
extension request is pending, and none is made while one is assessed; one
Overseer job and one timeout job are under way at a time (a queue each, unique
lock). All staff are one tutor, so the duplicate check ignores who repeats.
The extension inside `assess` is one save with it, and so are the status and
the comment of `reuse_existing_submission_for_feedback`, which the code has in
one transaction. A request that dies between its writes is left out: after the
weeks and before the status it would leave late work that is in time.
`assess` may save here what the validations of task.rb:177-178 and 195-205
would refuse, so there are more behaviours than the code's. A refusal for missing feedback, discussion, stream
lock or overflow claim is a request that was not made. Target date and deadline
stand for the day at whose end anywhere on earth they pass. Teaching breaks and
the last teaching date are left out, as are the rows of TaskSubmission and
TaskEngagement, moderation, quality and grade.

**Races the code leaves open** are recorded in `raced`: a save whose row has
changed since it was loaded adds its actor (`student`, `tutor`, `overseer`,
`timeout`, `assessor`); `crossed` is a comment that came between another's
comment and save; `reused` and `staff_verdict` are statuses staff or Overseer
gave without regard to the due date, as they may.

**Properties.** In every interleaving: `DiscussTracked` (a task in discuss has
the date its timeout counts from), `CountedOnce` (no submission is counted as
assessed twice), `ExtensionsBounded` (the extensions end less than a week past
the deadline). Outside the races each excuses: `ExtensionsKept` (no granted week
is lost), `JudgedByDueDate` (waiting work was in time, `time_exceeded` work was
not, after every order of upload, extension and fix, unless an assessor is about
to take it back), `WarnedInPeriod` (a
warning is of the present stay in discuss), `CommentsAgree` (at rest the last
status comment is the status).

There is no fairness and no liveness here: nothing has to happen to a task.
Deadlock is not checked because time ends at `MaxNow`.

## GroupSubmissions

**State.** Each student has a task of his own. `group` is the active membership,
`link` the `group_submission_id` of the task, `status` one of open, ready and
closed, `subs` and `made` the `GroupSubmission` rows. `done` is the zip of a
group and group submission, `new` the folder of a task; both hold the number of
the upload whose files they are. `queue` and `worker` are the
`AcceptSubmissionJob`s and the serial worker with the group submission **it
loaded**; `req` the request of each student with the one **it loaded** before it
waited for the group's lock.

**Actions.** `Load`, `Accept` (everything in `accept_submission` up to
`create_submission`, under the group's lock), `Place` (files moved, job
enqueued), `Commit` (the rows are seen; of the group submission only the columns
in which it differs from what the request loaded, `Written`), `Abort` (rollback;
files and queue stay), `Refuse`. `Begin`,
`Zip`, `Missing`, `Reject`, `Converted` and `Fix` are the job. `Assess` is a
verdict and its propagation to the linked tasks, `Remark` a comment that makes
the group submission a task does not have (`ensured_group_submission`), `Move`
every change of membership.

**Abstractions.** Of the statuses only what decides who is linked and who
becomes ready is kept. Prerequisites, due dates, contributions other than "none
or some", and the PDF of the members are left out, as is the PDF generator,
which would take the folder of a group's job in an outage as it does for a
single task. Row locks of the database are `RowsFree`: a request that has
written rows keeps others from them until it ends.

**Races the code leaves open** add the group submission they harm to `lapsed`,
each with a comment that says "left open": a job that began before the
transaction that enqueued it committed; members taken from a group submission
the request did not look at; someone who hands in but is not linked; another who
has handed in, since it was loaded, the group submission a request decides on,
with no zip where it is filed now; files placed while the task's job is at work
for what it loaded before; a rollback after the old zip was deleted; a group relinked to an empty group submission; a
member who takes the place of the one who handed in, with files of his own that
wait; an upload with missing files.

**Properties.** `ReadyHasWork`: a task that is ready for feedback has a zip to
look at or files on their way. `OwnGroupsWork`: the zip shown for a task was
handed in by a group the student was in at that time. Neither is about one
request: both are broken only by several members acting on what they loaded.
There is no liveness: nothing need happen. Deadlock is not checked as the bounds
end the model.

## NotificationDigests

**State.** `rows`, `read`, `processed` (`email_processed_at`) and `sent`
(`email_sent_at`) are the notifications of one user, named by their
deduplication key; `creating` those between the two statements of
`create_event`. `wanted`, `frequency`, `nextDigest`, `clearing` are the
settings. `job` and `lock` are the digest jobs and the unique-job lock. `mails`
and `broken` are history: digests that carried a row, and attempts that ended
between the mail and the mark.

**Actions.** Recording (`Create`, `NotMailed`, `CreatorDies`, `GraceEnds`),
using (`MarkRead`, `Reopen`, `Prune`, `ChangeChannels`), settings (`SwitchOff`,
`ProcessPending` after its commit, `SwitchOn`), and the job cut at each
statement that others can see: `Begin`, `Claim`, `Load`, `Skip`, `Deliver`,
`MarkSent`, `RecordSent`, with `Poll`, `Fail` (retried up to `MaxRetries`),
`Kill` (the lock stays) and `Reap`.

**Abstraction.** Time is what has come due. A row is pruned 90 days after it was
read, when neither its request nor a job that loaded it unread can still be
there. A retry is due at any time.

**Abstract specification.** `DigestLedger` knows no polls, jobs or locks: one
sender at a time takes some of what waits, mails only what it took, and settles
it once it was mailed or gives it back. `OneSender` maps the rows that are not
processed to `waiting`, those that are to `settled`, and the batches in the
hands of jobs to `taken`.

**Properties.** `MailedOnce`, `SentWasMailed`, `CopiesNotMailed`, the refinement
`OneSender`, and `WaitingEnds`: while the digest stays on, what waits is mailed,
read or skipped in the end.

**Fairness.** The clock, the five-minute poll, the workers (including their
retries), the reaper, and requests that began: each goes on by itself, so each
has weak fairness. Nobody has to read, reopen or change anything, and faults are
bounded: a mail server that fails for ever sends nothing.

## CommunicationSets

**State.** `grade` is the target grade of each project, the one attribute both a
condition and an action can be about; `convenor` whether the unit has a main
convenor and he an address; `schedule`, `planner` (its job), `clock` (slots that
have come); `job` with what an attempt knows: the grades and the sender it
loaded, the students left over, those still to be acted on, what it did and whom
it skipped; `locks` of the set and of single rules; `copies` the in-app copies of
its e-mails; `events` bounds faults and changes by people. `enqueued`, `refused`
and `passed` (what has become of each slot), `runs` and `broken` are history.

**Actions.** `Execute` (a convenor runs the set or one rule), `Start`,
`ChangeTargetGrade`, `EmailStudent`, `Skip` (no address), `Copy`, `NextAction`,
`NextRule`, `Finish`, `Fail`, `Kill`, `Reap`; the schedule's `SlotComes`,
`Poll`, `Check`, `EnqueueSet`, `MoveOn`, `FailPlan`; `Reschedule`, `SwitchOff`,
`SetGrade` and `SetConvenor` by people.

**Abstractions.** A condition is a set of grades, an action "email" or a new
grade, as every condition is evaluated on the loaded student and every action
changes one. That the unit is inactive is left out. A mail cannot be taken back,
and an attempt that starts over mails again: no property restricts that, only
that it is one job that does (`OneRun`). Without a main convenor every attempt
that has somebody to mail fails, whatever the bound on events.

**Properties.** `RightRule` (the waterfall); `OneRun`: the set, or a rule, is
never run by two jobs at once; `AllActedOn`: a run that ends well has reached
everybody its rules claimed, or says whom it skipped, who then has no address or
nobody to write from; `SlotsServed`: a slot behind the schedule was either
enqueued, or refused while the set's lock was held, or passed over by an edit.
All are safety: nothing promises that a job succeeds.

## TurnItIn

**State.** `entity` is the `TiiSubmission` (status, PDF id), `action` the
`TiiActionUploadSubmission`; `local` what each performer (the check's run, or a
request that handles a web hook) is about to do, with **its copies of both
rows**; `tii` and `events` are Turnitin and its web hooks. `old` stands for the
day that must have passed before the action gives up; `heard` and `doubled` are
history.

**Actions.** `Pick` and `Begin` are `TiiCheckProgressJob`/`TiiActionJob` up to
the first call, `Answer` is `exec_tca_call`, and one action per answer stands
for the method that takes it (`HasId`, `Uploaded`, `PollAgain`, `Processed`,
...), each saving as Active Record does: the attributes that differ from what
was loaded (`Written`). `Arrive`/`Handle` are the web hooks API up to the call
it makes itself. `Trouble` is `handle_error`, `Die` a job or request that dies,
`RetryWithEula`, `AdminRetry`, `AcceptEula`, `DayPasses` the rest.

**External.** Turnitin answers from what it has done; a call may meet "busy"
(also after it was carried out: a time-out) or "refused", each standing for the
error codes the code retries or gives up on. A web hook may be lost (nothing
makes it arrive) or arrive again.

**Assumption.** One job performs the action at a time: the half-hourly check or
an administrator's `TiiActionJob` (`AdminRetry`). Neither has a unique lock; a
check takes minutes and starts every half hour, and an administrator retries an
action that has stopped. Two at once are outside the model (see below for what
they could do).

**Properties.** `NeverAhead`: the status, which decides what a tutor sees, never
says more than Turnitin has done. `HandedInOnce`: a second submission is made at
Turnitin only if the answer to the first was lost. `GetsToRequest`: without any
web hook and whatever is busy, a new submission gets as far as the request for
its report or to an error someone can see. `ReportArrives` is the finding below.

**Fairness.** The check runs every half hour, calls end, a day passes. Only
`SpecTiiWorks` asks Turnitin to finish.

## Runs

| run | bounds | shows |
| --- | --- | --- |
| `pipeline_safety` | 2 uploads, 1 fault, 1 staff request | the safety properties |
| `pipeline_two_faults` | 2 uploads, 2 faults | the same for pairs of faults: shutdown then kill, worker and generator |
| `pipeline_live` | 2 uploads, 1 fault, fair | the liveness properties |
| `pipeline_one_at_a_time` | 2 uploads | **violated**: see below |
| `lifecycle_safety` | 2 requests, 4 writes or ticks; fix, discuss, an Overseer that completes, up to two weeks of extension | all properties of `TaskLifecycle` but `ClosedToStudents` |
| `lifecycle_rules` | 2 requests, 4 writes or ticks; restricted updates, late work to the portfolio, no extension on a fix, the tutor's other requests, a timeout that never warns | the properties those rules bear on |
| `lifecycle_closed` | 2 requests | **violated**: see below |
| `groups` | 2 students, 2 groups, 3 group submissions, 2 uploads, 2 changes, verdicts or failures | the properties of `GroupSubmissions` (3.0M states) |
| `digests` | 2 notifications (one an in-app copy), 2 jobs, 1 retry, 2 faults, 1 reopening | the properties of `NotificationDigests`, `WaitingEnds` under fairness, and that it implements `DigestLedger` |
| `communications` | 2 rules that both match a grade and change it, 2 students of whom one has no address, 2 jobs, 2 slots, 1 retry, 1 fault, 1 change of a grade, the convenor or the schedule | the properties of `CommunicationSets` |
| `turnitin` | 1 web hook at a time, 1 retry before giving up, busy and refused calls, 1 death, repeated hook or administrator's retry | the safety properties of `TurnItIn`, and `GetsToRequest` under fairness |
| `turnitin_no_hooks` | no web hook, no trouble, Turnitin fair | **violated**: see below |

Two uploads are the least that can overtake each other, and a third adds no new
order between two; one fault leaves each artefact behind once, and two are
checked where a second fault changes the answer (`PdfOfDone`). Both flags
(`HistoryRequired`, `OverseerEnabled`) are TRUE: the other settings only cut
the job chain short. The theorems hold for all values.

For `TaskLifecycle` two requests are the least that can save over each other,
and four moments suffice for submit, assess, extend and submit again; with a
target at 1 and the deadline at 3 work can be late, in time after one week and
beyond what two weeks allow. The two lifecycle runs between them take every action and both values of every flag.
The requests are symmetric. What holds in every interleaving is proved for any
number of them.

`groups`: two students are the least that can hand in against each other, leave
each other and relink each other's tasks, and two groups let them meet again;
three group submissions let one be made, replaced and made by a comment. With
two students `SubmitterTask` never has two to choose from, so the symmetry is
sound. What needs more than that is left to the proofs, which hold for any number.
Larger searches had found what these bounds hide: with four students a member
takes another's place, and with more uploads and moves a stale resubmission
leaves a ready task without work (see below; now marked, as `Overtaken`). Two
students with more uploads and events, and three in one group, were checked
completely. `digests`: two jobs are more than the lock should
let be, and a fault in each of two attempts covers crash, retry and crash
again; what holds is proved for any numbers. `communications`: one
event is spent on a failing attempt, a killed worker, a broken plan or a change
by people; the set's own rules change grades between an attempt and its retry,
and without a main convenor attempts fail beyond it. Two slots suffice for a slot
that is missed. A fault and a change together are left to the theorems, which
hold for any list of rules and any numbers of slots and events. `turnitin`: the limit of 48 retries becomes 1:
what matters is that it is passed, before and after the day that is needed too;
one hook beside the run is the least that makes both work on copies, and the
theorems hold for any number.

Each property has a mutant, a plausible mistake in the mapped definition that
TLC finds under the same configuration; the mutants stand in the module next to
what they replace.

## Proofs

`SubmissionPipelineProofs`, for any number of uploads, faults and staff actions
and any flags, from `PipelineAssumption` (the constants have their types) only:

- `TypeCorrect`: `Spec => []TypeOK`. `TypeOK` alone is not inductive: the upload
  a job reports as failed or archives must exist. `IInv` adds `Consistent`: the
  worker is at a place exactly when it has a job, it carries an upload while it
  converts one, and a generator that has claimed holds a folder.
- `UniqueJobs`: `Spec => []JobsUnique`, inductive with `IInv`. A lemma per
  group of actions: enqueueing respects the lock, and a job moves between
  queue, worker and retry set without a second copy.
- `NoneLost`: `Spec => []KeptOrTold`, and `NeverBackwards`: `Spec =>
  NeverRegresses`. Both rest on `Ordered`: while nothing disturbed the task,
  `new` and the generator's folder never both hold files and neither is older
  than the done zip; a request that passed its checks without a generator keeps
  it from claiming until it has staged its files. A shutdown that cuts a zip
  short takes files away but mixes none up, so that part of `Ordered` holds after
  it too (`Unmixed`), and only what was accepted may be gone (`Undisturbed`).
  `KeptOrTold` is the rest of `Ordered`.

`TaskLifecycleProofs`, for any requests, dates, weeks and configured statuses,
from `LifecycleAssumption` (types, a positive week, a target no later than the
deadline):

- The invariant `IInv` says of the row **and of every copy a request holds**
  that it is `Sound`: its dates lie before now, it counts no assessment beyond
  what was submitted when it was loaded (and one less while its submission
  waits), and its extensions are bounded. `TypeOK` and the properties say
  nothing of the copies, so they are not inductive.
- `Changed` is what each request may do to its copy (`AssessedChanges`,
  `ExtendedChanges`, `StatusChanges`, `UploadChanges`), and `MergeSound` the
  core: a `Changed` copy of a `Sound` one, merged column by column into a row
  that has moved on, leaves a `Sound` row. Each action is then a few lines.
- `TypeCorrect`, `AlwaysTracked` (`DiscussTracked`), `CountsOnce`
  (`CountedOnce`), `DeadlineHolds` (`ExtensionsBounded`, with
  `MoreWeeksBounded` for the arithmetic of weeks), and `NoWeekLost`
  (`ExtensionsKept`, inductive with `IInv`: whoever changes the extensions
  either worked on the row as it is or is in `raced`).

`NotificationDigestsProofs`, for any notifications, jobs and bounds, from
`DigestAssumption`: `TypeCorrect`, `MailsOnce`, `SentMeansMailed`,
`CopiesStayInApp` (`CopiesNotMailed`: no setting, loaded copy of the settings
or batch holds a copy), and `ImplementsLedger` (`Spec => OneSender`). The invariant `IInv` adds to `TypeOK`:
`Alone` (at most one job is not idle, and then the lock is taken), that what is
read is processed, `Holds` (what a job holds, by its place) and `Counts`: a row
was mailed no more often than attempts broke off, plus one if it is processed or
in the batch of the job that has delivered and is to mark it. `MailedOnce` alone
says nothing of that job. For the refinement every action maps to a step of the
ledger or leaves it as it is; a job that begins with an empty batch, or skips,
settles nothing it took.

`CommunicationSetsProofs`, for any rules, students, slots and bounds, from
`CommunicationAssumption`: all properties of the run (`TypeCorrect`,
`FirstRuleClaims`, `NoTwoRuns`, `NobodyLeftOut`, `SlotsAreServed`). `PlanInv` says
where the schedule stands while a plan is at work (every slot before `next` has
met its fate, but for those in hand; `runs` has a slot for each plan). `JobsInv`
says of every job which students are left to the rule at hand (`LeftFor`: those no
earlier rule matched), what this attempt has done for those before or skipped
(`Complete`), and which copies the job has made. `LocksInv` adds to `OneRun` that
a job that is queued, runs or waits for its retry holds its lock (`Held`). That
the least rule matching a student exists is well-foundedness of
the naturals (`NatLessThanWellFounded` and `WFMin`, which are about sets and
need no operator parameter).

`TurnItInProofs`, for any number of web hooks handled at once, any troubles,
retries and deaths, from `TurnItInAssumption`: `TypeCorrect`,
`StatusNeverAhead`, `HandedInOnceHolds`. `IInv` adds: each call under way was
made for a status that is still so where it matters, an answer a performer has
in hand is true of Turnitin (`Known`), which never goes back; web hooks on their
way are true (`EventsTrue`); without an id nothing else has begun (`Fresh`); and
an id that was heard is in the run's hands until it is saved (`HeardOnce`).
`OwnStep` is the core: a performer that ends, or calls on, having saved only a
status that has been reached, keeps all of it, however stale its copies are.

`SubmissionPipelineRulesProofs`, from the same assumption and on top of `IInv`:
what each mechanism (marker, folders, assessment status, unique jobs) keeps out
is a part of the way only, and what is proved is that together they leave no gap
but the tagged races. Each invariant holds as long as its tags are not in
`raced`, so a step has to keep it only if it adds none.

- `Orderly`, in every interleaving: each place of the worker belongs to one kind
  of job, only Overseer jobs are retried, `in_process` is behind the zip only
  while newer files are in a folder. `Apart` (`KeptApart`): while the generator
  holds files, or has them in the zip alone, there is no request and no
  submission job, and who unpacks the zip or makes a PDF has what it needs.
- `PdfShowsDone` (`PdfOfDone`) from `Traced`: while the PDF is not that of the
  zip and the student knows nothing, files, a generator or a job are left that
  will change it.
- `HistoriesFaithful` (`HistoryFaithful`) from `Faithful`: from the zip to the end
  of the history job no other submission is let in and no folder holds other
  files than the zip, and a history not yet archived was made for them; a zip
  that a killed generator loses takes nothing of that away.
- `VerdictsAreOfLatest` (`VerdictOfLatest`, an action property) from `Latest`:
  what Overseer jobs, history jobs and the next conversion (`Source`: of `new`, or
  else of the zip) are about is the submission accepted last, or the student was
  told that that one failed.
  Without Overseer there are no such jobs (`NoneDisabled`).

`TaskLifecycleRulesProofs`, from `LifecycleAssumption` and on top of its `IInv`:
`SavedRow` (outside its race a save leaves the copy that was decided on) makes
each rule a matter of what the actions do to one row.

- `WarningsInPeriod` (`WarnedInPeriod`) needs that the timeout has loaded a task
  that was in discuss (`TimeoutInDiscuss`).
- `DueDateJudges` (`JudgedByDueDate`) from `JudgedUnlessRaced`, which adds that
  work that waits was submitted, and `Restores`: an assessor about to take back a
  `time_exceeded` has a copy that is in time; the due date never moves forward with fewer
  weeks (`DueDateGrows`), and what an extension makes of waiting or late work is
  the case with the arithmetic (`ExtendedJudgement`).
- `LastCommentTrue` (`CommentsAgree`) from `CommentInv`: a request about to tell
  tells what it saved, and comment and status differ only while some request is
  between the two.

`GroupSubmissionsProofs`, for any students, groups and bounds, from
`GroupAssumption` (the names for nobody are no student's or group's):
`TypeCorrect`, `ReadyWorkIsThere` (`ReadyHasWork`), `WorkIsOfOwnTeam`
(`OwnGroupsWork`). `IInv` bounds what is linked, loaded or at work by `made`
and says that no student has two jobs. `Tracked` says where the work of a group
submission that has not lapsed is:

- `Works`: it has a zip, or the job of the one who handed it in is queued, or
  the worker has loaded what is still so and has files (`HasFiles`). `Leaves`
  and `Empties`: who takes tasks from it, or deletes it, leaves none that need
  it. `Remembers`: a request of the one who handed it in knows it.
- `Locks`, `Reuses`, `Makes`: what a pending request relies on until it commits:
  its rows are its own, what it reuses it writes as a whole, what it makes
  nobody knows. `PlacedWaits`: its job waits with its files.
- `OwnFiles`, `OwnJob`, `OwnZips`: the files of a group submission, wherever
  they are, were handed in by a team that holds all who are linked to it.

Most steps (moves, verdicts, comments, requests that load, fail or are refused)
place, zip and link nothing but to what has lapsed; `QuietTracked` deals with all
of them at once. What is left is `Accept`, `Place`, `Commit`, `Begin` and the
job, with a lemma each and in it one step for each part of `Tracked`. `Tracked`
was checked with TLC before it was proved.

Only model-checked: everything under fairness (`CanSubmitAgain`, `Converted`,
`AssessmentsEnd`, `WaitingEnds`, `GetsToRequest`), which is out of TLAPS's
reach, and of course what does not hold (the runs that expect a violation).
Every other property of the runs is a theorem.

## What the models show about the code

- `pipeline_one_at_a_time`: `accept_submission` says "Ensure there is not a
  submission already in process" (task.rb:1815), but `processing_pdf?` (task.rb:333) does not look
  into the generator's folder. In the trace a first submission fails to enqueue,
  the generator claims its files, and a second submission is accepted beside it;
  the first conversion then replaces the newer done zip. `NeverRegresses` and
  `KeptOrTold` hold outside this race.
- `compress_new_to_done` removes the new folder in an `ensure` (task.rb:1375): a
  shutdown that interrupts it before the zip is complete deletes files that were
  accepted. The job that is put back converts the older zip without a word
  (`cut_short`), or finds nothing and says that the conversion failed.
- From then until `extract_file_from_done` (task.rb:1433-1443) only the zip has
  the files. A kill there, of the worker or the generator, or of a job put back
  by a shutdown before it has unpacked the zip, leaves no PDF and tells nobody
  (`traceless`): the submission stays in the zip until somebody reprocesses it.
- A shutdown runs the history job's `ensure`, which removes the marker although
  the job is put back: the next submission can then be archived under the
  earlier timestamp (`behind_job`).
- The generator may claim the folder of a queued job while Sidekiq is down; the
  job then converts the done zip a second time (`doubled`).
- `send_to_overseer` guards against queueing twice with `status == :queued`
  (overseer_assessment.rb:165), which the enum never is; the job's lock is what
  prevents it.
- The Overseer job may be failed by the clean-up while it waits for its retry,
  and then overwrite that verdict.

- `lifecycle_closed`: `trigger_transition` means to "Protect closed states from
  student changes" (task.rb:728), but looks at the status the request loaded. A
  student's request that passed it before the tutor completed the task saves
  after it and reopens the task, which keeps its completion date.
- In `assess` the extension branch for discuss, rediscuss and demonstrate
  (task.rb:936) cannot be reached: these are `ready_or_complete?` statuses.
- `staff_assigned_statuses` is `id > 4` and so holds `ready_for_feedback`: with
  `restrict_status_updates` a student's resubmission is taken and dated, and its
  transition refused without a word (`Uploaded`).
- The Overseer job sets the status alone: a task it completes has no completion
  and no assessment date.
- An assessment whose status is the last comment's is swallowed (`Repeat`) even
  when the status has changed since, by a job or a student's stale save.
- A save over a newer row merges columns of two decisions: a warning can outlive
  the stay in discuss it was for, and an extension granted twice at once counts
  once (`ExtensionsKept`).

- `grant_extension` saves the weeks, the status and the comment one by one
  (task.rb:408-412): a tutor who assesses the task between its status and its
  comment leaves a last comment that contradicts the status (`crossed`).

- `turnitin_no_hooks`: the check is there so that "submissions progress through
  turn it in when web hooks fails" (tii_action_upload_submission.rb:121), but
  two of its phases (a report or a PDF that is still in the making) neither set
  the retry flag the run has taken down nor report an error, so the first poll
  that comes too early is the last. With all web hooks and no trouble the report
  arrives; with busy answers it need not, as a run's stale copy can overwrite
  the flag a hook has just set.
- A PDF that Turnitin could not make is assigned to a local variable
  (tii_action_upload_submission.rb:19): the action stops without an error. A
  late web hook sets the status back. Performing a finished action again leaves
  `complete` false.
- HTTP 451 is handled with a misspelt attribute (tii_action.rb:191) and 409 with
  an error code the enum does not have, so both raise; group tasks call
  the query method `Task.group` without arguments, which raises too.
- Two runs of the check at once could make two submissions at Turnitin, and a
  crash between the `TiiSubmission` and its action leaves one nobody performs.
- Notifications recorded while the digest is off stay pending and are mailed
  when it is turned on, though "Nothing is left waiting for a digest that will
  never run" (notification_setting.rb:177); a row read while its digest is
  delivered gets a second `email_processed_at`; a deadline notification that is
  pruned after 90 days can be made and mailed anew. `claim_digest!` may find
  the slot taken and the job goes on: only the unique lock keeps two apart.
- A retry of a set after a rule has changed grades can send a student to a later
  rule than before (`RightRule` is about an attempt), and repeats the e-mails;
  only their in-app copies are made once. Students without an address, and
  everybody when the main convenor has none, are skipped in a run that ends well.
  Without a main convenor each attempt that comes to an e-mail raises, as
  `main_convenor_user` is delegated without `allow_nil` (unit.rb:849): the convenor
  meant to stand in is never asked. A slot whose job is rejected because
  the set is still running is not caught up. A schedule edited between the
  plan's start and its update is overwritten. A rule run by hand has a lock of
  its own and can run beside the set.
- A comment or a status on the task of somebody who has joined a group relinks
  the open tasks of all members to a new, empty group submission; their files
  stay under the old one and the job under way is rejected.
- When two members hand in at once the job of one is rejected, and its failure
  asks the whole group to fix. The group submission a request loaded before it
  waited for the lock is not loaded again, so the check for a submission in
  process can look at the wrong one. A request that fails after the old group
  submission was destroyed has lost its zip for good.
- A student who uploads for his old group, moves and is linked by the new one
  before his job runs has his old files zipped as the new group's, if the member
  who handed in for it has left by then: `submitter_task`
  (group_submission.rb:54) falls back on the first linked task, which may be his.
- A group submission keeps the columns a resubmission does not change from what
  **it** loaded (group.rb:236): when another member has handed it in since, and
  the group has moved on, the row ends with the new group and the other's name.
  The resubmission's job is rejected as not the submitter's, and the zip is
  looked for in the folder of the new group, where it is not: the task is ready
  for feedback with nothing to look at.
- A submission job that is at work when its student hands in again was loaded
  before, and zips the new files for the group submission it knows; the second
  job was rejected as a duplicate.
- Who hands in with a closed task, or gives himself no share, is not linked to
  his own submission, and is refused the next time.

## Not modelled

In the modelled components: test submissions of unit staff, previews, I/O
failures while a request stages its files other than Redis refusing the job, a
submission with missing files (task.rb:1347, for single tasks), the clean-up
that asks for *fix* as the tutor (maintenance.rake:83), what Overseer steps run,
moderation and mails of the pipeline; for groups the generator, extensions
copied onto members in memory (group_submission.rb:34), the tutorial switch
(group.rb:129) and removal of members with their enrolment (group.rb:257); which
event makes which notification, grouping and texts of a digest and the weekly
summaries; staff e-mails, task comments, the log for convenors, unresolved rules
and inactive units of communications; the other kinds of Turnitin action
(groups, attachments, EULA and features, registration of web hooks), deletion
and rate limits across actions.

Other components are listed with their reasons in PROJECT.json. Worth a module
and to come are those of the plan. File, LaTeX and container I/O, record
keeping, imports, downloads and external platforms keep no state worth
interleaving. Hazards of components that are not modelled: session_tracker.rb:41
(a marking session found or created without a lock), lms_integration.rb:88
(failures counted beside a validation), test_attempts_api.rb:132 (two requests
both pass the check for an open SCORM attempt) and comment_read_cursor.rb:18 (only
the check under the lock keeps an older comment from winning).

Of the repository's files only notebooks among the test files and one vendored
script in the views are Python; none of them is the program's own, so a count of
modelled lines over Python alone finds none. What "map" names is Ruby.

## Plan

1. `SubmissionPipeline`, `SubmissionPipelineProofs` -- done.
2. `TaskLifecycle`, `TaskLifecycleProofs` -- done, but for a `StatusLifecycle` specification
   of what each role may do to the status, which the lifecycle implements
   outside its races.
3. `GroupSubmissions`, `GroupSubmissionsProofs` -- done.
4. `NotificationDigests`, `DigestLedger`, `NotificationDigestsProofs` -- done.
5. `CommunicationSets`, `CommunicationSetsProofs` -- done.
6. `TurnItIn`, `TurnItInProofs` -- done for the upload of a submission.
7. `FixCascade`: prerequisites, cycles, termination.
8. `ReadCursor`, `ScormAttempts`, `LmsIntegration`, `MarkingSessions`: small
   modules on row locks and check-then-create.
9. Proofs of the safety properties of all modules (`SubmissionPipelineRulesProofs`,
   `TaskLifecycleRulesProofs`, `GroupSubmissionsProofs` last) -- done. Of what is
   new in 2, 7 and 8: with those modules.
