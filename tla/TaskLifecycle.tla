---------------------------- MODULE TaskLifecycle ----------------------------
(***************************************************************************)
(* The status of one individual task and the dates that go with it.  A web *)
(* request or job loads the task's row, decides on what it loaded, and     *)
(* saves: Active Record writes only the columns it has changed, whatever   *)
(* the row holds by then.  Only an upload works under the row lock.        *)
(*                                                                         *)
(* Time is counted in steps: every write takes one, so that no two dates   *)
(* are equal; 0 is the date that was never set.                            *)
(***************************************************************************)
EXTENDS Integers, FiniteSets

CONSTANTS
    Requests,        \* requests and jobs that can be under way at a time
    StudentTriggers, \* what a student asks for without an upload
    UploadTriggers,  \* what a student asks for with an upload
    StaffTriggers,   \* what a tutor asks for
    OverseerResults, \* statuses the Overseer steps are configured to give
    Target, Deadline, Week, \* the task's target date and its last date
    ResubmitWeeks,   \* unit.extension_weeks_on_resubmit_request
    WarnAfter, ExpireAfter, \* the discuss timeout
    RestrictUpdates, \* task_definition.restrict_status_updates
    LateToPortfolio, \* unit.mark_late_submissions_as_assess_in_portfolio
    MaxNow           \* bound: the last moment

Statuses == {"not_started", "complete", "need_help", "working_on_it",
             "fix_and_resubmit", "feedback_exceeded", "redo", "discuss",
             "ready_for_feedback", "demonstrate", "fail", "time_exceeded",
             "assess_in_portfolio", "attention_required", "rediscuss"}

Engaging == {"not_started", "need_help", "working_on_it", "assess_in_portfolio"}

ASSUME LifecycleAssumption ==
    /\ StudentTriggers \subseteq {"not_started", "need_help", "working_on_it"}
    /\ UploadTriggers \subseteq {"ready_for_feedback", "need_help", "assess_in_portfolio"}
    /\ StaffTriggers \subseteq Statuses /\ OverseerResults \subseteq Statuses
    /\ Target \in Nat /\ Deadline \in Nat /\ Target <= Deadline
    /\ Week \in Nat \ {0} /\ ResubmitWeeks \in Nat
    /\ WarnAfter \in Nat /\ ExpireAfter \in Nat
    /\ RestrictUpdates \in BOOLEAN /\ LateToPortfolio \in BOOLEAN
    /\ MaxNow \in Nat \ {0}

VARIABLES
    row,      \* the task in the database
    lastSaid, \* the last comment, when it is a status comment
    asked,    \* the weeks of the extension comment that awaits its assessment
    requests, \* what each request has loaded and where it is
    now,
    \* history variables
    submissions, \* how often the submission date was set
    promised,    \* the weeks of extension granted in all
    raced        \* who saved what it decided on an older row, and other races

historyVars == <<submissions, promised, raced>>
vars == <<row, lastSaid, asked, requests, now, historyVars>>

----------------------------------------------------------------------------
(* Values *)

Closed == {"complete", "discuss", "rediscuss", "demonstrate",
           "feedback_exceeded", "fail"}

ReadyOrComplete == {"complete", "discuss", "rediscuss", "demonstrate",
                    "ready_for_feedback", "assess_in_portfolio"}

\* staff_assigned_statuses are those with an id above 4, ready_for_feedback among
\* them.
StaffAssigned ==
    Statuses \ {"not_started", "complete", "need_help", "working_on_it"}

Actors == {"student", "tutor", "overseer", "timeout", "assessor"}
Races  == Actors \union {"staff_verdict", "reused", "crossed"}

Times == 0 .. MaxNow

Rows == [status : Statuses, submitted : Times, assessed : Times,
         completed : Times, times : Nat, extensions : Nat,
         discussAt : Times, warned : Times, expired : Times]

NewRow == [status |-> "not_started", submitted |-> 0, assessed |-> 0,
           completed |-> 0, times |-> 0, extensions |-> 0,
           discussAt |-> 0, warned |-> 0, expired |-> 0]

\* The author and status of the last comment; Nothing when another kind of
\* comment came after it.
Nothing == <<"nobody", "not_started">>
Says(who, status) == <<who, status>>

Free == [who |-> "nobody", want |-> "not_started", weeks |-> 0, phase |-> "idle",
         loaded |-> NewRow]
Work == [who : Actors, want : Statuses, weeks : Nat,
         phase : {"say", "save", "restore", "tell", "answer"}, loaded : Rows]

----------------------------------------------------------------------------
(* Dates.  An extension counts from the target date, up to the deadline.   *)

RawDate(extensions) == Target + Week * extensions

DueDate(extensions) ==
    IF extensions = 0 THEN Target
    ELSE IF RawDate(extensions) > Deadline THEN Deadline ELSE RawDate(extensions)

CanApply(extensions) == RawDate(extensions) < Deadline

\* The number of weeks to the deadline, rounded up.
WeeksCanExtend(extensions) == -((RawDate(extensions) - Deadline) \div Week)

MoreThanLeft(extensions, weeks) == extensions + weeks             \* mutant
MoreWeeks(extensions, weeks) ==
    LET most == WeeksCanExtend(extensions)
        granted == IF weeks < most THEN weeks ELSE most
    IN IF granted > 0 THEN extensions + granted ELSE extensions

----------------------------------------------------------------------------
(* What a request does to its copy of the task *)

\* set_discuss_timeout_tracking: before a save that changes the status.
TrackUndated(loaded, copy, t) ==                                    \* mutant
    IF copy.status = loaded.status THEN copy
    ELSE [copy EXCEPT !.discussAt = 0, !.warned = 0, !.expired = 0]
TrackDateOnly(loaded, copy, t) ==                                   \* mutant
    IF copy.status = loaded.status THEN copy
    ELSE [copy EXCEPT !.discussAt = IF copy.status = "discuss" THEN t ELSE 0]
Tracked(loaded, copy, t) ==
    IF copy.status = loaded.status THEN copy
    ELSE [copy EXCEPT !.discussAt = IF copy.status = "discuss" THEN t ELSE 0,
                      !.warned = 0, !.expired = 0]

\* assess: a first assessment of this submission counts, the completion date
\* follows the status, and a fix close to the due date brings an extension.
AssessAgain(copy, status, t) ==                                     \* mutant
    [copy EXCEPT !.status = status, !.times = @ + 1, !.assessed = t,
                 !.submitted = IF @ = 0 THEN t ELSE @]
Assessed(copy, status, t) ==
    LET submitted == IF copy.submitted = 0 THEN t ELSE copy.submitted
        extend == /\ status = "fix_and_resubmit"
                  /\ DueDate(copy.extensions) < t + Week
                  /\ CanApply(copy.extensions)
    IN [copy EXCEPT
            !.status = status,
            !.submitted = submitted,
            !.times = IF copy.assessed = 0 \/ copy.assessed < submitted THEN @ + 1 ELSE @,
            !.assessed = t,
            !.completed = IF status \notin ReadyOrComplete THEN 0
                          ELSE IF @ = 0 THEN t ELSE @,
            !.extensions = IF extend THEN MoreWeeks(@, ResubmitWeeks) ELSE @]

InTime(copy) == copy.submitted <= DueDate(copy.extensions)

LateUnknown == "late"                                               \* mutant
LateStatus == IF LateToPortfolio THEN "assess_in_portfolio" ELSE "time_exceeded"

\* submit: late work is assessed at once, unless it replaces work that was
\* already waiting for feedback.
SubmittedAnyTime(copy, t) ==                                        \* mutant
    [copy EXCEPT !.status = "ready_for_feedback",
                 !.submitted = IF copy.status # "ready_for_feedback" THEN t ELSE @]
Submitted(copy, t) ==
    LET sent == IF copy.status # "ready_for_feedback" \/ copy.submitted = 0
                THEN [copy EXCEPT !.submitted = t] ELSE copy
    IN IF InTime(sent) \/ sent.status = "ready_for_feedback"
       THEN [sent EXCEPT !.status = "ready_for_feedback"]
       ELSE Assessed(sent, LateStatus, t)

\* grant_extension: the weeks are added, and work that was late and no longer is
\* goes back to the tutor.
Extended(copy, weeks) == [copy EXCEPT !.extensions = MoreWeeks(@, weeks)]

StaysLate(copy, longer) == FALSE                                    \* mutant
LateNoMore(copy, longer) ==
    /\ longer.extensions # copy.extensions
    /\ longer.status = "time_exceeded" /\ InTime(longer)

----------------------------------------------------------------------------
(* Requests *)

At(r, phase) == requests[r].phase = phase

\* Overseer jobs run one at a time, and the timeout job is unique.
Alone(who) == \A r \in Requests : requests[r].who # who

Start(r, who, want, phase) ==
    /\ At(r, "idle") /\ now < MaxNow
    /\ requests' = [requests EXCEPT ![r] =
           [who |-> who, want |-> want, weeks |-> IF who = "assessor" THEN asked ELSE 0,
            phase |-> phase, loaded |-> row]]
    /\ UNCHANGED <<row, lastSaid, asked, now, historyVars>>

Continue(r, phase) == requests' = [requests EXCEPT ![r].phase = phase]
FallSilent(r) == requests' = [requests EXCEPT ![r] = Free]         \* mutant
GoOnToTell(r) ==
    requests' = [requests EXCEPT ![r].phase = "tell", ![r].loaded = row']
End(r) == requests' = [requests EXCEPT ![r] = Free]

Comment(r, who) ==
    /\ lastSaid' = Says(who, requests[r].want)
    /\ UNCHANGED <<row, asked, now, historyVars>>

\* save!: only what differs from the loaded row is written.
SaveAll(loaded, copy) == row' = copy                                \* mutant
SaveChanges(loaded, copy) ==
    row' = [column \in DOMAIN row |->
               IF copy[column] # loaded[column] THEN copy[column] ELSE row[column]]

\* A request saves its copy of the task.
Save(r, copy, races) ==
    LET loaded == requests[r].loaded
        tracked == Tracked(loaded, copy, now)
    IN /\ now < MaxNow /\ now' = now + 1
       /\ SaveChanges(loaded, tracked)
       /\ submissions' = IF copy.submitted # loaded.submitted
                         THEN submissions + 1 ELSE submissions
       /\ promised' = promised + copy.extensions - loaded.extensions
       /\ raced' = raced \union races
                   \union (IF row # loaded THEN {requests[r].who} ELSE {})

\* Time passes without a request.
Tick ==
    /\ now < MaxNow /\ now' = now + 1
    /\ UNCHANGED <<row, lastSaid, asked, requests, historyVars>>

\* Anyone adds a comment that is not a status comment.
Remark ==
    /\ lastSaid # Nothing /\ lastSaid' = Nothing
    /\ UNCHANGED <<row, asked, requests, now, historyVars>>

----------------------------------------------------------------------------
(* Students *)

\* What trigger_transition refuses a student.
StudentMay(copy) ==
    /\ ~(RestrictUpdates /\ copy.status \in StaffAssigned)
    /\ copy.status \notin Closed

\* The status is changed without an upload ...
StudentAsks(r) ==
    /\ StudentMay(row)
    /\ \E want \in StudentTriggers : Start(r, "student", want, "say")

\* ... or with one, which runs under the row lock: the row is loaded, changed
\* and saved in one transaction.  The files are taken whatever the status is;
\* the status is left alone when trigger_transition refuses.
Uploaded(want) ==
    LET dated == IF row.status # "ready_for_feedback" \/ row.submitted = 0
                 THEN [row EXCEPT !.submitted = now] ELSE row
    IN IF ~StudentMay(row) THEN dated
       ELSE IF want = "ready_for_feedback" THEN Submitted(dated, now)
       ELSE [dated EXCEPT !.status = want]

Upload ==
    \E want \in UploadTriggers :
        LET sent == Uploaded(want)
        IN /\ now < MaxNow /\ now' = now + 1
           /\ row' = Tracked(row, sent, now)
           /\ lastSaid' = IF ~StudentMay(row) THEN lastSaid
                          ELSE Says(IF sent.status = want THEN "student" ELSE "tutor",
                                    sent.status)
           /\ submissions' = IF sent.submitted # row.submitted
                             THEN submissions + 1 ELSE submissions
           /\ UNCHANGED <<asked, requests, promised, raced>>

\* An extension is asked for, as far as the deadline allows; one at a time, and
\* not while the last one is being assessed.
AskExtension ==
    /\ asked = 0 /\ Alone("assessor")
    /\ \E weeks \in 1 .. WeeksCanExtend(row.extensions) : asked' = weeks
    /\ lastSaid' = Nothing
    /\ UNCHANGED <<row, requests, now, historyVars>>

----------------------------------------------------------------------------
(* Tutors *)

\* The tutor, or a failed conversion in the tutor's name.
TutorAsks(r) ==
    \E want \in StaffTriggers \ {"ready_for_feedback"} :
        /\ want = "rediscuss" => row.status = "discuss"
        /\ Start(r, "tutor", want, IF want \in Engaging THEN "say" ELSE "save")

\* reuse_existing_submission_for_feedback
TutorReuses(r) ==
    /\ "ready_for_feedback" \in StaffTriggers
    /\ row.status # "ready_for_feedback" /\ row.submitted # 0
    /\ Start(r, "tutor", "ready_for_feedback", "save")

\* engage: a status comment, then the save.
SayEngaged(r) ==
    /\ At(r, "say") /\ requests[r].who \in {"student", "tutor"}
    /\ Comment(r, requests[r].who)
    /\ Continue(r, "save")

Engage(r) ==
    LET work == requests[r]
    IN /\ At(r, "save") /\ work.want \in Engaging
       /\ work.who \in {"student", "tutor"}
       /\ Save(r, [work.loaded EXCEPT !.status = work.want],
               IF lastSaid \in {Nothing, Says(work.who, work.want)} THEN {} ELSE {"crossed"})
       /\ End(r)
       /\ UNCHANGED <<lastSaid, asked>>

ReuseSilently(r) ==                                                 \* mutant
    /\ At(r, "save") /\ requests[r].want = "ready_for_feedback"
    /\ Save(r, [requests[r].loaded EXCEPT !.status = "ready_for_feedback"], {"reused"})
    /\ End(r)
    /\ UNCHANGED <<lastSaid, asked>>
Reuse(r) ==
    LET work == requests[r]
    IN /\ At(r, "save") /\ work.want = "ready_for_feedback" /\ work.who = "tutor"
       /\ Save(r, [work.loaded EXCEPT !.status = work.want], {"reused"})
       /\ lastSaid' = Says("tutor", work.want)
       /\ End(r)
       /\ UNCHANGED asked

Assessing(r) ==
    /\ At(r, "save") /\ requests[r].who = "tutor"
    /\ requests[r].want \notin Engaging \union {"ready_for_feedback"}

\* assess: the save, then a status comment ...
Assess(r) ==
    LET work == requests[r]
    IN /\ Assessing(r)
       /\ lastSaid # Says("tutor", work.want)
       /\ Save(r, Assessed(work.loaded, work.want, now),
               IF work.want = "time_exceeded" THEN {"staff_verdict"} ELSE {})
       /\ GoOnToTell(r)
       /\ UNCHANGED <<lastSaid, asked>>

\* ... unless the last comment says so already: then the request succeeds and
\* nothing is saved.
Repeat(r) ==
    /\ Assessing(r)
    /\ lastSaid = Says("tutor", requests[r].want)
    /\ End(r)
    /\ UNCHANGED <<row, lastSaid, asked, now, historyVars>>

\* Tutor, Overseer and assessor comment after the save.
Tell(r) ==
    /\ At(r, "tell")
    /\ lastSaid' = Says("tutor", requests[r].want)
    /\ raced' = IF row # requests[r].loaded
                THEN raced \union {"crossed"} ELSE raced
    /\ IF requests[r].who = "assessor" THEN Continue(r, "answer") ELSE End(r)
    /\ UNCHANGED <<row, asked, now, submissions, promised>>

----------------------------------------------------------------------------
(* assess_extension: two assessors may open the same request.  Nothing      *)
(* holds the saves and the comment of grant_extension together, and the    *)
(* extension comment is answered last.                                     *)

AssessorOpens(r) ==
    /\ asked # 0
    /\ Start(r, "assessor", "ready_for_feedback", "save")

\* The weeks are saved; the request goes on with its own copy of the task.
Grant(r) ==
    LET work == requests[r]
        longer == Extended(work.loaded, work.weeks)
    IN /\ At(r, "save") /\ work.who = "assessor"
       /\ CanApply(work.loaded.extensions)
       /\ Save(r, longer, {})
       /\ requests' = [requests EXCEPT
              ![r].phase = IF LateNoMore(work.loaded, longer) THEN "restore" ELSE "answer",
              ![r].loaded = longer]
       /\ UNCHANGED <<lastSaid, asked>>

\* Late work that is in time again: the status is saved, then told.
Restore(r) ==
    /\ At(r, "restore")
    /\ Save(r, [requests[r].loaded EXCEPT !.status = requests[r].want], {})
    /\ GoOnToTell(r)
    /\ UNCHANGED <<lastSaid, asked>>

Answer(r) ==
    /\ At(r, "answer")
    /\ asked' = 0
    /\ End(r)
    /\ UNCHANGED <<row, lastSaid, now, historyVars>>

Reject(r) ==
    /\ At(r, "save") /\ requests[r].who = "assessor"
    /\ asked' = 0
    /\ End(r)
    /\ UNCHANGED <<row, lastSaid, now, historyVars>>

----------------------------------------------------------------------------
(* AcceptOverseerJob: the status is set on the task it loaded when it began *)

OverseerBegins(r) ==
    /\ Alone("overseer")
    /\ row.submitted # 0
    /\ \E want \in OverseerResults : Start(r, "overseer", want, "save")

OverseerSets(r) ==
    LET work == requests[r]
    IN /\ At(r, "save") /\ work.who = "overseer"
       /\ Save(r, [work.loaded EXCEPT !.status = work.want], {"staff_verdict"})
       /\ GoOnToTell(r)
       /\ UNCHANGED <<lastSaid, asked>>

----------------------------------------------------------------------------
(* NotifyDiscussTimeoutJob: tasks that have been in discuss for a while are *)
(* loaded in batches, then each is warned or expired in a transaction.      *)

TimeoutLoads(r) ==
    /\ Alone("timeout")
    /\ row.status = "discuss" /\ row.discussAt # 0
    /\ row.discussAt + WarnAfter <= now
    /\ Start(r, "timeout", "fix_and_resubmit", "save")

Expired(work) == now > work.loaded.discussAt + ExpireAfter

Warn(r) ==
    LET work == requests[r]
    IN /\ At(r, "save") /\ work.who = "timeout"
       /\ ~Expired(work)
       /\ work.loaded.warned = 0
       /\ Save(r, [work.loaded EXCEPT !.warned = now], {})
       /\ lastSaid' = Nothing
       /\ End(r)
       /\ UNCHANGED asked

\* The expiry date is saved, then the transition clears it again.
ExpireDiscuss(r) ==
    LET work == requests[r]
    IN /\ At(r, "save") /\ work.who = "timeout"
       /\ Expired(work)
       /\ work.loaded.expired = 0
       /\ lastSaid # Says("tutor", "fix_and_resubmit")
       /\ Save(r, Assessed(work.loaded, "fix_and_resubmit", now), {})
       /\ lastSaid' = Nothing
       /\ End(r)
       /\ UNCHANGED asked

\* The transition finds that the last comment says fix already: only the expiry
\* date is saved.
ExpireNothing(r) ==
    LET work == requests[r]
    IN /\ At(r, "save") /\ work.who = "timeout"
       /\ Expired(work)
       /\ work.loaded.expired = 0
       /\ lastSaid = Says("tutor", "fix_and_resubmit")
       /\ Save(r, [work.loaded EXCEPT !.expired = now], {})
       /\ lastSaid' = Nothing
       /\ End(r)
       /\ UNCHANGED asked

LeaveDiscuss(r) ==
    LET work == requests[r]
    IN /\ At(r, "save") /\ work.who = "timeout"
       /\ IF Expired(work) THEN work.loaded.expired # 0 ELSE work.loaded.warned # 0
       /\ End(r)
       /\ UNCHANGED <<row, lastSaid, asked, now, historyVars>>

----------------------------------------------------------------------------
Init ==
    /\ row = NewRow /\ lastSaid = Nothing /\ asked = 0
    /\ requests = [r \in Requests |-> Free]
    /\ now = 1
    /\ submissions = 0 /\ promised = 0 /\ raced = {}

Step(r) ==
    \/ StudentAsks(r) \/ TutorAsks(r) \/ TutorReuses(r) \/ SayEngaged(r)
    \/ Engage(r) \/ Reuse(r) \/ Assess(r) \/ Repeat(r) \/ Tell(r)
    \/ AssessorOpens(r) \/ Grant(r) \/ Restore(r) \/ Answer(r) \/ Reject(r)
    \/ OverseerBegins(r) \/ OverseerSets(r)
    \/ TimeoutLoads(r) \/ Warn(r) \/ ExpireDiscuss(r) \/ ExpireNothing(r)
    \/ LeaveDiscuss(r)

Next == Tick \/ Remark \/ Upload \/ AskExtension \/ \E r \in Requests : Step(r)

Spec == Init /\ [][Next]_vars

----------------------------------------------------------------------------
(* Properties *)

\* Each variable keeps to its range.
TypeOK ==
    /\ row \in Rows
    /\ lastSaid \in {Nothing} \union {"student", "tutor"} \X Statuses
    /\ asked \in Nat
    /\ requests \in [Requests -> Work \union {Free}]
    /\ now \in Times \ {0}
    /\ submissions \in Nat /\ promised \in Nat /\ raced \subseteq Races

Clear(races) == raced \intersect races = {}

\* "Protect closed states from student changes" (trigger_transition): what a
\* student saves leaves the status of a closed task alone.
ClosedToStudents ==
    [][\A r \in Requests :
          /\ requests[r].who = "student" /\ At(r, "save") /\ At(r, "idle")'
          /\ row.status \in Closed
          => row'.status = row.status]_vars

\* A task in discuss has the date it moved there, which the discuss timeout
\* counts from, whoever wrote the row over whatever.
DiscussTracked == row.status = "discuss" => row.discussAt # 0

\* A warning that is on record is one about the present stay in discuss, so that
\* each stay is warned of anew; only a save of an older row can leave it behind
\* or carry it over.
WarnedInPeriod ==
    Clear(Actors) /\ row.warned # 0
    => row.status = "discuss" /\ row.discussAt < row.warned

\* "only a new assessment if it was submitted after last assessment": a task is
\* never counted as assessed more often than it was submitted, even when tutors,
\* the timeout and uploads save over each other.
CountedOnce == row.times <= submissions

\* Work waiting for feedback was in by its due date, and work marked time_exceeded
\* was not, after any extension and resubmission -- unless an assessor is about to
\* take it back, or staff gave the status, reused late work, or changed the
\* extensions on an older row.
JudgedByDueDate ==
    Clear({"tutor", "timeout", "assessor", "reused", "staff_verdict"}) =>
        /\ row.status = "ready_for_feedback" => InTime(row)
        /\ row.status = "time_exceeded" /\ InTime(row)
           => \E r \in Requests : At(r, "restore")

\* Every week that was granted, on request or with a fix, is still on the task --
\* unless one who grants weeks worked on an older row.
ExtensionsKept ==
    Clear({"tutor", "timeout", "assessor"}) => row.extensions = promised

\* Extensions, which add up over requests and fixes and are saved over each
\* other, never go a week beyond what the deadline allows.
ExtensionsBounded == row.extensions # 0 => RawDate(row.extensions) < Deadline + Week

\* When no request is under way the last status comment is the task's status:
\* students and tutors read the one for the other -- unless a request saved an
\* older row or commented between another's comment and save.
CommentsAgree ==
    /\ Clear({"student", "tutor", "overseer", "crossed"})
    /\ \A r \in Requests : At(r, "idle")
    /\ lastSaid # Nothing
    => lastSaid[2] = row.status
=============================================================================
