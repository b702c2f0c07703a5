-------------------------- MODULE CommunicationSets --------------------------
(***************************************************************************)
(* A communication set of a unit: a list of rules, each with a condition on*)
(* the students and actions for those it matches, run by a schedule or by  *)
(* a convenor.  A poll every five minutes enqueues a job for the schedule  *)
(* when its slot is due; that job enqueues the job of the set and moves the*)
(* schedule on; the set's job loads the students once and goes through the *)
(* rules, the first rule that matches a student claiming it.               *)
(*                                                                         *)
(* Conditions and actions are about the target grade, the one thing of a   *)
(* student that both can be about; e-mail stands for the messages to       *)
(* students, sent by the unit's main convenor to those who have an address.*)
(* Time is the number of slots the schedule has had.                       *)
(*                                                                         *)
(* An operator marked "mutant" is not part of the specification: it is a   *)
(* mistake that could be made in the definition that follows it, and one   *)
(* of the properties fails when it takes its place.                        *)
(***************************************************************************)
EXTENDS Integers, Sequences, FiniteSets, FiniteSetsExt

CONSTANTS
    Students,
    NoEmail,     \* students without an e-mail address
    Grades,      \* target grades
    Matches,     \* of each rule, in order: the grades its condition accepts
    Actions,     \* of each rule: a sequence of "email" and grades to change to
    Jobs,        \* job ids (jid): one for each time the set is enqueued
    MaxSlots,    \* bound: slots of the schedule
    MaxRetries,  \* retry: 1 in the code, for the schedule's job and the set's
    MaxEvents    \* bound: exceptions in a job, kills of the worker, and changes of
                 \* target grades, convenors and the schedule, together

Rules == DOMAIN Matches
Slots == 1..MaxSlots
Convenors == {"mailable", "no_email", "none"}

ASSUME CommunicationAssumption ==
    /\ Matches \in Seq(SUBSET Grades) /\ Len(Matches) > 0
    /\ Actions \in [Rules -> Seq(Grades \cup {"email"})]
    /\ \A r \in Rules : Actions[r] # <<>>
    /\ "email" \notin Grades /\ NoEmail \subseteq Students
    /\ {MaxSlots, MaxRetries, MaxEvents} \subseteq Nat

VARIABLES
    grade,     \* target_grade of each project
    convenor,  \* main convenor: "mailable", "no_email", or "none" at all
    clock,     \* slots that have come
    schedule,  \* whether it is active, and its next_run_at: a slot, or 0
    planner,   \* the ExecuteCommunicationSetScheduleJob of the schedule
    job,       \* the ExecuteCommunicationSetJobs
    locks,     \* what their unique-job locks hold: 0 (the set) or a rule
    copies,    \* in-app copies of the e-mails
    events,
    enqueued,  \* history variable: slots after which the schedule enqueued the set,
    refused,   \*   for which its job was rejected, as the set's lock was held,
    passed,    \*   and that a change of the schedule passed over
    runs,      \* history variable: how often the schedule enqueued the set
    broken     \* history variable: plans that ended between the enqueue and the update

fates  == <<enqueued, refused, passed>>
plan   == <<clock, schedule, planner, fates, runs, broken>>
sets   == <<job, locks, copies>>
people == <<grade, convenor>>
vars   == <<people, plan, sets, events>>

-------------------------------------------------------------------------------
(* Allocation: what a rule matches of the students left to it *)

Matching(r, left, seen) == {s \in left : seen[s] \in Matches[r]}

\* Which rule claims a student; 0 if none does.
Claim(g) ==
    LET fits == {r \in Rules : g \in Matches[r]} IN
    IF fits = {} THEN 0 ELSE Min(fits)

-------------------------------------------------------------------------------
(* The jobs of the set *)

\* Something goes wrong, or is changed by people: as often as the bound lets it.
Event == events < MaxEvents /\ events' = events + 1

\* What a job knows: the grades and the sender it loaded, the students left for the
\* rule at hand, those the action is still to reach, the one just mailed, and
\* the results of this attempt: what was done and what was skipped.
NewJob == [pc |-> "new", only |-> 0, attempt |-> 0, rule |-> 1, step |-> 1,
           seen |-> [s \in Students |-> CHOOSE g \in Grades : TRUE],
           left |-> {}, todo |-> {}, mailed |-> {}, acts |-> {}, skipped |-> {},
           sender |-> "none"]

Unused == {j \in Jobs : job[j].pc = "new"}

\* perform_async, rejected while the lock is taken.
Enqueue(only) ==
    IF only \in locks
    THEN UNCHANGED <<job, locks>>
    ELSE /\ Unused # {}
         /\ job' = [job EXCEPT ![CHOOSE j \in Unused : TRUE] =
                       [NewJob EXCEPT !.pc = "queued", !.only = only]]
         /\ locks' = locks \cup {only}

\* A convenor runs the set, or one of its rules.
Execute(only) ==
    /\ Enqueue(only)
    /\ UNCHANGED <<people, plan, copies, events>>

\* mutant: the lock only lasts until the job begins
StartUnlocked(j) ==
    /\ job[j].pc \in {"queued", "retry"}
    /\ job' = [job EXCEPT ![j].pc = "running", ![j].seen = grade,
                          ![j].left = Students, ![j].rule = 1, ![j].step = 1,
                          ![j].todo = Matching(1, Students, grade),
                          ![j].mailed = {}, ![j].acts = {}, ![j].skipped = {},
                          ![j].sender = convenor]
    /\ locks' = locks \ {job[j].only}
    /\ UNCHANGED <<people, plan, copies, events>>

\* The students are loaded once for the attempt, and so is the unit.
Start(j) ==
    /\ job[j].pc \in {"queued", "retry"}
    /\ job' = [job EXCEPT ![j].pc = "running", ![j].seen = grade,
                          ![j].left = Students, ![j].rule = 1, ![j].step = 1,
                          ![j].todo = Matching(1, Students, grade),
                          ![j].mailed = {}, ![j].acts = {}, ![j].skipped = {},
                          ![j].sender = convenor]
    /\ UNCHANGED <<people, plan, locks, copies, events>>

Running(j) == job[j].pc = "running"

\* A rule before the one that was asked for only claims its students.
Executes(j) == job[j].only \in {0, job[j].rule}

Doing(j) == Actions[job[j].rule][job[j].step]

Acted(j, s) == <<job[j].rule, job[j].step, s>>

ChangeTargetGrade(j, s) ==
    /\ Running(j) /\ Executes(j) /\ Doing(j) # "email"
    /\ s \in job[j].todo
    /\ grade' = [grade EXCEPT ![s] = Doing(j)]
    /\ job' = [job EXCEPT ![j].todo = @ \ {s}, ![j].acts = @ \cup {Acted(j, s)}]
    /\ UNCHANGED <<convenor, plan, locks, copies, events>>

\* The action is at e-mails to students, s among those to come.
Mailing(j, s) ==
    /\ Running(j) /\ Executes(j) /\ Doing(j) = "email" /\ job[j].mailed = {}
    /\ s \in job[j].todo

AddressMissing(j, s) == s \in NoEmail \/ job[j].sender = "no_email"

EmailStudent(j, s) ==
    /\ Mailing(j, s) /\ job[j].sender # "none" /\ ~AddressMissing(j, s)
    /\ job' = [job EXCEPT ![j].mailed = {s}]
    /\ UNCHANGED <<people, plan, locks, copies, events>>

\* mutant: a student who cannot be mailed ends the action, as a missing author
\* ends that of comments
SkipRest(j, s) ==
    /\ Mailing(j, s) /\ job[j].sender # "none" /\ AddressMissing(j, s)
    /\ job' = [job EXCEPT ![j].todo = {}, ![j].skipped = @ \cup {Acted(j, s)}]
    /\ UNCHANGED <<people, plan, locks, copies, events>>

\* The address of the student or of the sender is missing: no mail and no copy,
\* and the result says so.
Skip(j, s) ==
    /\ Mailing(j, s) /\ job[j].sender # "none" /\ AddressMissing(j, s)
    /\ job' = [job EXCEPT ![j].todo = @ \ {s}, ![j].skipped = @ \cup {Acted(j, s)}]
    /\ UNCHANGED <<people, plan, locks, copies, events>>

\* create_email_notification, by its deduplication key: a retry keeps the jid
Copy(j, s) ==
    /\ Running(j) /\ s \in job[j].mailed
    /\ copies' = copies \cup {[run |-> j, act |-> Acted(j, s)]}
    /\ job' = [job EXCEPT ![j].mailed = {}, ![j].todo = @ \ {s},
                          ![j].acts = @ \cup {Acted(j, s)}]
    /\ UNCHANGED <<people, plan, locks, events>>

\* All students of the action are done, or the rule does not act in this run.
Done(j) == Running(j) /\ (job[j].todo = {} \/ ~Executes(j))

\* mutant: the matches are looked up again, after the rule's first actions
MatchedAgain(j) == Matching(job[j].rule, job[j].left, grade)

Matched(j) == Matching(job[j].rule, job[j].left, job[j].seen)

NextAction(j) ==
    /\ Done(j) /\ Executes(j)
    /\ job[j].step < Len(Actions[job[j].rule])
    /\ job' = [job EXCEPT ![j].step = @ + 1, ![j].todo = Matched(j)]
    /\ UNCHANGED <<people, plan, locks, copies, events>>

EndOfRule(j) == Executes(j) => job[j].step = Len(Actions[job[j].rule])
LastRule(j) == job[j].rule \in {job[j].only, Len(Matches)}

\* mutant: a rule looks at all students of the set
NextRuleForAll(j) ==
    /\ Done(j) /\ EndOfRule(j) /\ ~LastRule(j)
    /\ job' = [job EXCEPT ![j].rule = @ + 1, ![j].step = 1,
                          ![j].left = job[j].left \ Matched(j),
                          ![j].todo = Matching(job[j].rule + 1, Students, job[j].seen)]
    /\ UNCHANGED <<people, plan, locks, copies, events>>

\* remaining_projects -= matched_projects
NextRule(j) ==
    /\ Done(j) /\ EndOfRule(j) /\ ~LastRule(j)
    /\ LET left == job[j].left \ Matched(j) IN
       job' = [job EXCEPT ![j].rule = @ + 1, ![j].step = 1, ![j].left = left,
                          ![j].todo = Matching(job[j].rule + 1, left, job[j].seen)]
    /\ UNCHANGED <<people, plan, locks, copies, events>>

Finish(j) ==
    /\ Done(j) /\ EndOfRule(j) /\ LastRule(j)
    /\ job' = [job EXCEPT ![j].pc = "done"]
    /\ locks' = locks \ {job[j].only}
    /\ UNCHANGED <<people, plan, copies, events>>

\* The address of a main convenor there is not: main_convenor_user, delegated to
\* him without allow_nil, raises.
NoSender(j) == job[j].sender = "none" /\ \E s \in Students : Mailing(j, s)

Retrying(j) == [NewJob EXCEPT !.pc = "retry", !.only = job[j].only,
                              !.attempt = job[j].attempt + 1]
Dead == [NewJob EXCEPT !.pc = "dead"]

\* An action raises; a job that is to be retried keeps its lock.
Fail(j) ==
    /\ Running(j)
    /\ IF NoSender(j) THEN UNCHANGED events ELSE Event
    /\ IF job[j].attempt < MaxRetries
       THEN /\ job' = [job EXCEPT ![j] = Retrying(j)]
            /\ UNCHANGED locks
       ELSE /\ job' = [job EXCEPT ![j] = Dead]
            /\ locks' = locks \ {job[j].only}
    /\ UNCHANGED <<people, plan, copies>>

\* The worker dies, and the job with it; its lock stays until it is reaped.
Kill(j) ==
    /\ Running(j) /\ Event
    /\ job' = [job EXCEPT ![j] = Dead]
    /\ UNCHANGED <<people, plan, locks, copies>>

Active(j) == job[j].pc \in {"queued", "running", "retry"}

Reap(only) ==
    /\ only \in locks
    /\ \A j \in Jobs : Active(j) => job[j].only # only
    /\ locks' = locks \ {only}
    /\ UNCHANGED <<people, plan, job, copies, events>>

-------------------------------------------------------------------------------
(* The schedule, its poll and its job *)

Due == schedule.active /\ schedule.next # 0 /\ schedule.next <= clock
NoPlan == [pc |-> "none", tries |-> 0, now |-> 0]

\* The slot after a moment; slots that were missed are skipped.
Following(now) == IF now < MaxSlots THEN now + 1 ELSE 0

SlotComes ==
    /\ clock < MaxSlots
    /\ clock' = clock + 1
    /\ UNCHANGED <<people, schedule, planner, fates, runs, broken, sets, events>>

Poll ==
    /\ Due /\ planner.pc = "none"
    /\ planner' = [NoPlan EXCEPT !.pc = "queued"]
    /\ UNCHANGED <<people, clock, schedule, fates, runs, broken, sets, events>>

\* mutant: the slot is claimed first, as a digest's is
CheckAndMoveOn ==
    /\ planner.pc = "queued"
    /\ planner' = IF Due THEN [planner EXCEPT !.pc = "enqueue", !.now = clock] ELSE NoPlan
    /\ schedule' = IF Due THEN [schedule EXCEPT !.next = Following(clock)] ELSE schedule
    /\ UNCHANGED <<people, clock, fates, runs, broken, sets, events>>

Check ==
    /\ planner.pc = "queued"
    /\ planner' = IF Due THEN [planner EXCEPT !.pc = "enqueue", !.now = clock] ELSE NoPlan
    /\ UNCHANGED <<people, clock, schedule, fates, runs, broken, sets, events>>

\* The slots up to the plan's moment that nothing was done for yet.
Unmet == {n \in Slots : n <= planner.now} \ UNION {enqueued, refused, passed}

\* The plan does not notice when the set's job is rejected.
EnqueueSet ==
    /\ planner.pc = "enqueue"
    /\ Enqueue(0)
    /\ IF 0 \in locks
       THEN /\ refused' = refused \cup Unmet
            /\ UNCHANGED <<enqueued, runs>>
       ELSE /\ enqueued' = enqueued \cup Unmet
            /\ runs' = runs + 1
            /\ UNCHANGED refused
    /\ planner' = [planner EXCEPT !.pc = "update"]
    /\ UNCHANGED <<people, clock, schedule, passed, broken, copies, events>>

\* The slot after the moment the job began is written, whatever has become of
\* the schedule since.
MoveOn ==
    /\ planner.pc = "update"
    /\ schedule' = [schedule EXCEPT !.next = Following(planner.now)]
    /\ planner' = NoPlan
    /\ UNCHANGED <<people, clock, fates, runs, broken, sets, events>>

FailPlan ==
    /\ planner.pc \in {"enqueue", "update"} /\ Event
    /\ planner' = IF planner.tries < MaxRetries
                  THEN [NoPlan EXCEPT !.pc = "queued", !.tries = planner.tries + 1] ELSE NoPlan
    /\ broken' = IF planner.pc = "update" THEN broken + 1 ELSE broken
    /\ UNCHANGED <<people, clock, schedule, fates, runs, sets>>

\* A convenor edits the schedule or switches it on: the next slot is worked out anew.
Reschedule ==
    /\ Event
    /\ schedule' = [active |-> TRUE, next |-> Following(clock)]
    /\ passed' = passed \cup ((1..clock) \ UNION {enqueued, refused})
    /\ UNCHANGED <<people, clock, planner, enqueued, refused, runs, broken, sets>>

SwitchOff ==
    /\ schedule.active
    /\ Event
    /\ schedule' = [active |-> FALSE, next |-> 0]
    /\ UNCHANGED <<people, clock, planner, fates, runs, broken, sets>>

\* A student or a tutor changes the target grade.
SetGrade(s, g) ==
    /\ grade[s] # g
    /\ Event
    /\ grade' = [grade EXCEPT ![s] = g]
    /\ UNCHANGED <<convenor, plan, sets>>

\* The unit gets another main convenor, or none.
SetConvenor(c) ==
    /\ convenor # c
    /\ Event
    /\ convenor' = c
    /\ UNCHANGED <<grade, plan, sets>>

-------------------------------------------------------------------------------
Init ==
    /\ grade \in [Students -> Grades]
    /\ convenor = "mailable"
    /\ clock = 0 /\ schedule = [active |-> TRUE, next |-> Following(clock)]
    /\ planner = NoPlan
    /\ job = [j \in Jobs |-> NewJob] /\ locks = {} /\ copies = {}
    /\ events = 0 /\ runs = 0 /\ broken = 0
    /\ enqueued = {} /\ refused = {} /\ passed = {}

Act(j) == \E s \in Students :
    ChangeTargetGrade(j, s) \/ EmailStudent(j, s) \/ Skip(j, s) \/ Copy(j, s)
Perform(j) == Start(j) \/ Act(j) \/ NextAction(j) \/ NextRule(j) \/ Finish(j)
Planning == Check \/ EnqueueSet \/ MoveOn
Convenor == Reschedule \/ SwitchOff \/ \E only \in {0} \cup Rules : Execute(only)

Next ==
    \/ SlotComes \/ Poll \/ Planning \/ FailPlan \/ Convenor
    \/ \E s \in Students, g \in Grades : SetGrade(s, g)
    \/ \E c \in Convenors : SetConvenor(c)
    \/ \E j \in Jobs : Perform(j) \/ Fail(j) \/ Kill(j)
    \/ \E only \in {0} \cup Rules : Reap(only)

Spec == Init /\ [][Next]_vars

-------------------------------------------------------------------------------
(* Properties *)

\* Every variable keeps its range.
TypeOK ==
    /\ grade \in [Students -> Grades]  /\ convenor \in Convenors
    /\ clock \in 0..MaxSlots /\ UNION {enqueued, refused, passed} \subseteq Slots
    /\ schedule \in [active : BOOLEAN, next : 0..MaxSlots]
    /\ planner \in [pc : {"none", "queued", "enqueue", "update"}, tries : 0..MaxRetries,
                   now : 0..MaxSlots]
    /\ \A j \in Jobs : /\ job[j].pc \in {"new", "queued", "running", "retry", "done", "dead"}
                       /\ job[j].only \in {0} \cup Rules /\ job[j].attempt \in 0..MaxRetries
                       /\ job[j].rule \in Rules /\ job[j].step \in 1..Len(Actions[job[j].rule])
                       /\ job[j].todo \cup job[j].mailed \subseteq job[j].left
    /\ locks \subseteq {0} \cup Rules
    /\ events \in 0..MaxEvents
    /\ runs \in Nat /\ broken \in Nat

\* "Allocation is a waterfall" (execute_communication_set_job.rb:18), "first
\* matching rule claims the student" (communication_rules_api.rb:509): within an
\* attempt a student gets the actions of one rule, the first that matched when
\* the students were loaded, though actions and people change grades meanwhile.
RightRule ==
    \A j \in Jobs : \A a \in job[j].acts : a[1] = Claim(job[j].seen[a[3]])

\* A set or a rule is never run by two jobs at once, so that nobody is mailed by
\* both, though convenors and the schedule enqueue it again meanwhile: the lock a
\* job takes when it is enqueued is kept while it runs and waits for its retry,
\* and is reaped only when its job has died.
OneRun ==
    \A i, j \in Jobs : Active(i) /\ Active(j) /\ job[i].only = job[j].only => i = j

\* A run of the set that ends well has done every action for every student its
\* rules claimed, with an in-app copy of every mail, also when attempts before it
\* failed half-way; or its result says that the mail was skipped, and that only
\* for a student or a main convenor without an address.
AllActedOn ==
    \A j \in Jobs : job[j].pc = "done" =>
        \A s \in Students : LET r == Claim(job[j].seen[s]) IN
            (r \in Rules /\ job[j].only \in {0, r}) =>
                \A k \in DOMAIN Actions[r] :
                    \/ /\ <<r, k, s>> \in job[j].acts
                       /\ Actions[r][k] = "email" => [run |-> j, act |-> <<r, k, s>>] \in copies
                    \/ /\ <<r, k, s>> \in job[j].skipped
                       /\ Actions[r][k] = "email" /\ AddressMissing(j, s)

\* Since each slot behind the schedule came, the schedule has enqueued the set, or
\* its job was rejected as the lock of the set was held, or a convenor changed the
\* schedule -- whatever plans raised in between; slots of a schedule that is due
\* still are not behind it.  And the set is enqueued once a slot, but for plans
\* that broke off before the schedule moved on.
SlotsServed ==
    /\ schedule.active /\ ~Due /\ planner.pc = "none" /\ schedule.next # 0
           => 1..(schedule.next - 1) \subseteq UNION {enqueued, refused, passed}
    /\ runs <= clock + broken
===============================================================================
