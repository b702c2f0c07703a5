----------------------- MODULE TaskLifecycleRulesProofs -----------------------
(***************************************************************************)
(* The rules of TaskLifecycle that hold unless a request races: what a     *)
(* warning is about, how work is judged by its due date, and that the last *)
(* status comment tells the status.  They hold for any number of requests, *)
(* any dates and any statuses asked for.                                   *)
(***************************************************************************)
EXTENDS TaskLifecycleProofs

----------------------------------------------------------------------------
(* A save by one who has loaded the present row *)

LEMMA SavedRow ==
    ASSUME IInv, NEW r \in Requests, requests[r] \in Work,
           NEW copy, Changed(requests[r].loaded, copy, now, submissions),
           NEW races, Save(r, copy, races)
    PROVE  LET loaded == requests[r].loaded
           IN /\ copy \in Rows /\ loaded \in Rows /\ row' \in Rows
              /\ raced \subseteq raced' /\ races \subseteq raced' /\ now' = now + 1
              /\ row'.status = IF copy.status # loaded.status THEN copy.status ELSE row.status
              /\ row'.submitted = IF copy.submitted # loaded.submitted
                                  THEN copy.submitted ELSE row.submitted
              /\ row'.extensions = IF copy.extensions # loaded.extensions
                                   THEN copy.extensions ELSE row.extensions
              /\ requests[r].who \notin raced'
                 => row = loaded /\ row' = Tracked(loaded, copy, now)
<1> DEFINE loaded == requests[r].loaded
<1>1. loaded \in Rows /\ copy \in Rows /\ row \in Rows /\ now \in Times
  BY DEF IInv, TypeOK, Work, Changed
<1> DEFINE tracked == Tracked(loaded, copy, now)
<1>2. /\ tracked \in Rows /\ tracked.status = copy.status
      /\ tracked.submitted = copy.submitted /\ tracked.extensions = copy.extensions
  <2> HIDE DEF loaded
  <2> QED
    BY <1>1, TrackedCopy
<1>3. /\ SaveChanges(loaded, tracked) /\ now' = now + 1
      /\ raced' = raced \union races
                  \union (IF row # loaded THEN {requests[r].who} ELSE {})
  BY DEF Save
<1> HIDE DEF loaded, tracked
<1>4. row' \in Rows /\ Merged(loaded, tracked)
  BY <1>1, <1>2, <1>3, SavedColumns
<1>5. row = loaded => row' = tracked
  BY <1>1, <1>2, <1>4 DEF Merged, Rows
<1>6. requests[r].who \notin raced' => row = loaded
  BY <1>3
<1> QED
  BY <1>1, <1>2, <1>3, <1>4, <1>5, <1>6 DEF Merged, loaded, tracked

\* What an assessment and an upload make of the columns the rules are about.
LEMMA AssessedColumns ==
    ASSUME NEW c \in Rows, NEW s, NEW t
    PROVE  /\ Assessed(c, s, t).status = s /\ Assessed(c, s, t).warned = c.warned
           /\ c.submitted # 0 => Assessed(c, s, t).submitted = c.submitted
           /\ s # "fix_and_resubmit" => Assessed(c, s, t).extensions = c.extensions
BY DEF Assessed, Rows

LEMMA UploadedColumns ==
    ASSUME IInv, NEW want \in UploadTriggers
    PROVE  Uploaded(want).warned = row.warned
<1>1. row \in Rows
  BY DEF IInv, TypeOK
<1> QED
  BY <1>1 DEF Uploaded, Submitted, Assessed, Rows

\* The steps of a request that leave the row alone.
LEMMA QuietSteps ==
    ASSUME IInv, NEW r \in Requests,
           \/ StudentAsks(r) \/ TutorAsks(r) \/ TutorReuses(r) \/ SayEngaged(r)
           \/ Repeat(r) \/ Tell(r) \/ AssessorOpens(r) \/ Answer(r) \/ Reject(r)
           \/ OverseerBegins(r) \/ TimeoutLoads(r) \/ LeaveDiscuss(r)
    PROVE  UNCHANGED row /\ raced \subseteq raced' /\ ~At(r, "restore")
BY DEF StudentAsks, TutorAsks, TutorReuses, SayEngaged, Repeat, Assessing, Tell, At,
       AssessorOpens, Answer, Reject, OverseerBegins, TimeoutLoads, LeaveDiscuss, Start,
       Comment, historyVars

\* A request that begins.
Begins(r) ==
    \E who \in Actors, want \in Statuses, phase \in {"say", "save"} :
        /\ Start(r, who, want, phase)
        /\ who = "assessor" => want = "ready_for_feedback"
        /\ who = "timeout" => row.status = "discuss"
        /\ phase = "say" => want \in Engaging

\* The ways a step takes the request that makes it.
LEMMA Moves ==
    ASSUME IInv, NEW r \in Requests, Step(r)
    PROVE  \/ Begins(r) \/ End(r) \/ Grant(r)
           \/ At(r, "say") /\ Continue(r, "save")
           \/ At(r, "tell") /\ Continue(r, "answer")
           \/ At(r, "save") /\ requests[r].who \in {"tutor", "overseer"} /\ GoOnToTell(r)
           \/ At(r, "restore") /\ GoOnToTell(r)
<1>1. CASE StudentAsks(r)
  <2>1. PICK want \in StudentTriggers : Start(r, "student", want, "say")
    BY <1>1 DEF StudentAsks
  <2>2. want \in Engaging /\ want \in Statuses
    BY LifecycleAssumption DEF Engaging, Statuses
  <2> QED
    BY <2>1, <2>2 DEF Begins, Actors
<1>2. CASE TutorAsks(r)
  <2>1. PICK want \in StaffTriggers, phase \in {"say", "save"} :
            Start(r, "tutor", want, phase) /\ (phase = "say" => want \in Engaging)
    BY <1>2 DEF TutorAsks
  <2>2. want \in Statuses
    BY LifecycleAssumption
  <2> QED
    BY <2>1, <2>2 DEF Begins, Actors
<1>3. CASE TutorReuses(r) \/ AssessorOpens(r) \/ TimeoutLoads(r)
  <2>1. \/ Start(r, "tutor", "ready_for_feedback", "save")
        \/ Start(r, "assessor", "ready_for_feedback", "save")
        \/ Start(r, "timeout", "fix_and_resubmit", "save") /\ row.status = "discuss"
    BY <1>3 DEF TutorReuses, AssessorOpens, TimeoutLoads
  <2> QED
    BY <2>1, Values DEF Begins, Actors
<1>4. CASE OverseerBegins(r)
  <2>1. PICK want \in OverseerResults : Start(r, "overseer", want, "save")
    BY <1>4 DEF OverseerBegins
  <2>2. want \in Statuses
    BY LifecycleAssumption
  <2> QED
    BY <2>1, <2>2 DEF Begins, Actors
<1>5. CASE SayEngaged(r) \/ Tell(r)
  BY <1>5 DEF SayEngaged, Tell
<1>6. CASE Assess(r) \/ OverseerSets(r) \/ Restore(r)
  BY <1>6 DEF Assess, Assessing, OverseerSets, Restore
<1>7. CASE \/ Engage(r) \/ Reuse(r) \/ Repeat(r) \/ Answer(r) \/ Reject(r) \/ Warn(r)
           \/ ExpireDiscuss(r) \/ ExpireNothing(r) \/ LeaveDiscuss(r)
  BY <1>7 DEF Engage, Reuse, Repeat, Answer, Reject, Warn, ExpireDiscuss,
              ExpireNothing, LeaveDiscuss
<1> QED
  BY <1>1, <1>2, <1>3, <1>4, <1>5, <1>6, <1>7 DEF Step

\* The other requests stay as they are.
LEMMA OneMoves ==
    ASSUME IInv, NEW r \in Requests, Step(r)
    PROVE  \A q \in Requests \ {r} : requests'[q] = requests[q]
<1>1. requests \in [Requests -> Work \union {Free}]
  BY DEF IInv, TypeOK
<1> QED
  BY <1>1, Moves DEF Begins, Start, End, Grant, Continue, GoOnToTell

----------------------------------------------------------------------------
(* An assessor takes back late work that is in time again *)

Reprieved(c) == c.status = "time_exceeded" /\ InTime(c)

Restores ==
    \A r \in Requests :
        /\ requests[r].who = "assessor" => requests[r].want = "ready_for_feedback"
        /\ At(r, "restore") => /\ requests[r].who = "assessor"
                               /\ Reprieved(requests[r].loaded)

LEMMA RestoresKeeps == IInv /\ Restores /\ [Next]_vars => Restores'
<1> SUFFICES ASSUME IInv, Restores, [Next]_vars, NEW q \in Requests
             PROVE  /\ requests'[q].who = "assessor"
                       => requests'[q].want = "ready_for_feedback"
                    /\ At(q, "restore")' => /\ requests'[q].who = "assessor"
                                            /\ Reprieved(requests'[q].loaded)
  BY DEF Restores, Reprieved, InTime
<1>1. requests \in [Requests -> Work \union {Free}]
  BY DEF IInv, TypeOK
<1>2. CASE UNCHANGED requests
  BY <1>2 DEF Restores, At
<1>3. CASE \E r \in Requests : Step(r)
  <2> PICK r \in Requests : Step(r)
    BY <1>3
  <2>1. CASE q # r
    BY <2>1, OneMoves DEF Restores, At
  <2>2. CASE q = r /\ Begins(r)
    BY <1>1, <2>2 DEF Begins, Start, At
  <2>3. CASE q = r /\ End(r)
    BY <1>1, <2>3 DEF End, At, Free
  <2>4. CASE q = r /\ Grant(r)
    <3> DEFINE work == requests[r]
               longer == Extended(work.loaded, work.weeks)
               phase == IF LateNoMore(work.loaded, longer) THEN "restore" ELSE "answer"
    <3>1. /\ requests' = [requests EXCEPT ![r].phase = phase, ![r].loaded = longer]
          /\ At(r, "save") /\ work.who = "assessor"
      BY <2>4 DEF Grant
    <3>2. work \in Work /\ work.want = "ready_for_feedback"
      BY <3>1, Loaded DEF Restores
    <3>3. phase = "restore" => Reprieved(longer)
      BY DEF LateNoMore, Reprieved
    <3> HIDE DEF longer, phase
    <3>4. /\ requests'[r].who = "assessor" /\ requests'[r].want = "ready_for_feedback"
          /\ requests'[r].phase = phase /\ requests'[r].loaded = longer
      BY <1>1, <3>1, <3>2 DEF Work
    <3> QED
      BY <2>4, <3>3, <3>4 DEF At
  <2>5. CASE q = r /\ (Continue(r, "save") \/ Continue(r, "answer") \/ GoOnToTell(r))
             /\ (At(r, "say") \/ At(r, "tell") \/ At(r, "save") \/ At(r, "restore"))
    <3>1. requests[r] \in Work
      BY <2>5, Loaded
    <3>2. /\ requests'[r].who = requests[r].who /\ requests'[r].want = requests[r].want
          /\ requests'[r].phase \in {"save", "answer", "tell"}
      BY <1>1, <2>5, <3>1 DEF Continue, GoOnToTell, Work
    <3> QED
      BY <2>5, <3>2 DEF Restores, At
  <2> QED
    BY <2>1, <2>2, <2>3, <2>4, <2>5, Moves
<1> QED
  BY <1>2, <1>3 DEF Next, Tick, Remark, Upload, AskExtension, vars

----------------------------------------------------------------------------
(* Warnings are about the present stay in discuss *)

\* The timeout job has loaded a task that was in discuss.
TimeoutInDiscuss ==
    \A r \in Requests :
        requests[r].who = "timeout" => requests[r].loaded.status = "discuss"

LEMMA TimeoutKeeps ==
    IInv /\ Restores /\ TimeoutInDiscuss /\ [Next]_vars => TimeoutInDiscuss'
<1> SUFFICES ASSUME IInv, Restores, TimeoutInDiscuss, [Next]_vars, NEW q \in Requests,
                    requests'[q].who = "timeout"
             PROVE  requests'[q].loaded.status = "discuss"
  BY DEF TimeoutInDiscuss
<1>1. requests \in [Requests -> Work \union {Free}] /\ Free.who = "nobody"
  BY DEF IInv, TypeOK, Free
<1>2. CASE UNCHANGED requests
  BY <1>2 DEF TimeoutInDiscuss
<1>3. CASE \E r \in Requests : Step(r)
  <2> PICK r \in Requests : Step(r)
    BY <1>3
  <2>1. CASE q # r
    BY <2>1, OneMoves DEF TimeoutInDiscuss
  <2>2. CASE q = r /\ Begins(r)
    BY <1>1, <2>2 DEF Begins, Start
  <2>3. CASE q = r /\ End(r)
    BY <1>1, <2>3 DEF End
  <2>4. CASE q = r /\ Grant(r)
    <3>1. requests'[r].who = "assessor"
      BY <1>1, <2>4 DEF Grant
    <3> QED
      BY <2>4, <3>1
  <2>5. CASE q = r /\ (Continue(r, "save") \/ Continue(r, "answer"))
             /\ (At(r, "say") \/ At(r, "tell"))
    <3>1. requests[r] \in Work
      BY <2>5, Loaded
    <3>2. requests'[r].who = requests[r].who /\ requests'[r].loaded = requests[r].loaded
      BY <1>1, <2>5, <3>1 DEF Continue, Work
    <3> QED
      BY <2>5, <3>2 DEF TimeoutInDiscuss
  <2>6. CASE /\ q = r /\ GoOnToTell(r)
             /\ (requests[r].who \in {"tutor", "overseer"} \/ At(r, "restore"))
    <3>1. requests[r].who \in {"tutor", "overseer", "assessor"}
      BY <2>6 DEF Restores
    <3>2. requests'[r].who = requests[r].who
      BY <1>1, <2>6 DEF GoOnToTell
    <3> QED
      BY <2>6, <3>1, <3>2
  <2> QED
    BY <2>1, <2>2, <2>3, <2>4, <2>5, <2>6, Moves
<1> QED
  BY <1>2, <1>3 DEF Next, Tick, Remark, Upload, AskExtension, vars

LEMMA SaveWarns ==
    ASSUME IInv, WarnedInPeriod, NEW r \in Requests, requests[r] \in Work,
           NEW copy, Changed(requests[r].loaded, copy, now, submissions),
           NEW races, Save(r, copy, races),
           \/ copy.warned = requests[r].loaded.warned
           \/ copy.status = "discuss" /\ requests[r].loaded.status = "discuss"
    PROVE  WarnedInPeriod'
<1> SUFFICES ASSUME Clear(Actors)', row'.warned # 0
             PROVE  row'.status = "discuss" /\ row'.discussAt < row'.warned
  BY DEF WarnedInPeriod
<1>1. requests[r].who \in Actors
  BY DEF Work
<1>2. /\ row = requests[r].loaded /\ row' = Tracked(row, copy, now)
      /\ copy \in Rows /\ row \in Rows /\ Clear(Actors)
  BY <1>1, SavedRow DEF Clear
<1>3. copy.status = row.status /\ row' = copy
  BY <1>2 DEF Tracked, Rows
<1>4. row.discussAt < now /\ copy.discussAt = row.discussAt
      /\ copy.warned \in {row.warned, now}
  BY <1>2 DEF IInv, Sound, Dated, Changed
<1>5. CASE copy.warned = row.warned
  BY <1>2, <1>3, <1>4, <1>5 DEF WarnedInPeriod
<1>6. CASE copy.warned # row.warned
  BY <1>2, <1>3, <1>4, <1>6
<1> QED
  BY <1>5, <1>6

LEMMA WarnedStep ==
    ASSUME IInv, TimeoutInDiscuss, WarnedInPeriod, NEW r \in Requests, Step(r)
    PROVE  WarnedInPeriod'
<1> DEFINE work == requests[r]
<1> USE Values
<1>1. CASE \/ StudentAsks(r) \/ TutorAsks(r) \/ TutorReuses(r) \/ SayEngaged(r)
           \/ Repeat(r) \/ Tell(r) \/ AssessorOpens(r) \/ Answer(r) \/ Reject(r)
           \/ OverseerBegins(r) \/ TimeoutLoads(r) \/ LeaveDiscuss(r)
  BY <1>1, QuietSteps DEF WarnedInPeriod, Clear
<1>2. CASE Engage(r) \/ Reuse(r) \/ OverseerSets(r) \/ Restore(r)
  <2>1. PICK races : Save(r, [work.loaded EXCEPT !.status = work.want], races)
    BY <1>2 DEF Engage, Reuse, OverseerSets, Restore
  <2>2. At(r, "save") \/ At(r, "restore")
    BY <1>2 DEF Engage, Reuse, OverseerSets, Restore
  <2>3. [work.loaded EXCEPT !.status = work.want].warned = work.loaded.warned
    BY <2>2, Loaded DEF Rows
  <2> QED
    BY <2>1, <2>2, <2>3, Loaded, StatusChanges, SaveWarns
<1>3. CASE Assess(r)
  <2>1. PICK races : Save(r, Assessed(work.loaded, work.want, now), races)
    BY <1>3 DEF Assess
  <2>2. At(r, "save")
    BY <1>3 DEF Assess, Assessing
  <2> QED
    BY <2>1, <2>2, Loaded, AssessedChanges, AssessedColumns, SaveWarns
<1>4. CASE Grant(r)
  <2> DEFINE longer == Extended(work.loaded, work.weeks)
  <2>1. Save(r, longer, {}) /\ At(r, "save")
    BY <1>4 DEF Grant
  <2>2. /\ work \in Work /\ work.weeks \in Nat /\ Sound(work.loaded, now, submissions)
    BY <2>1, Loaded
  <2>3. /\ Changed(work.loaded, longer, now, submissions)
        /\ longer.warned = work.loaded.warned
    <3> DEFINE loaded == work.loaded
               weeks == work.weeks
    <3>1. /\ Sound(loaded, now, submissions) /\ weeks \in Nat
      BY <2>2
    <3> HIDE DEF loaded, weeks
    <3>2. /\ Changed(loaded, Extended(loaded, weeks), now, submissions)
          /\ Extended(loaded, weeks).warned = loaded.warned
      BY <3>1, ExtendedChanges
    <3> QED
      BY <3>2 DEF loaded, weeks
  <2> HIDE DEF longer
  <2> QED
    BY <2>1, <2>2, <2>3, SaveWarns
<1>5. CASE Warn(r)
  <2>1. /\ Save(r, [work.loaded EXCEPT !.warned = now], {})
        /\ At(r, "save") /\ work.who = "timeout"
    BY <1>5 DEF Warn
  <2>2. work.loaded.status = "discuss"
        /\ [work.loaded EXCEPT !.warned = now].status = work.loaded.status
    BY <2>1, Loaded DEF TimeoutInDiscuss, Rows
  <2> QED
    BY <2>1, <2>2, Loaded, StatusChanges, SaveWarns
<1>6. CASE ExpireDiscuss(r)
  <2>1. Save(r, Assessed(work.loaded, "fix_and_resubmit", now), {}) /\ At(r, "save")
    BY <1>6 DEF ExpireDiscuss
  <2> QED
    BY <2>1, Loaded, AssessedChanges, AssessedColumns, SaveWarns
<1>7. CASE ExpireNothing(r)
  <2>1. Save(r, [work.loaded EXCEPT !.expired = now], {}) /\ At(r, "save")
    BY <1>7 DEF ExpireNothing
  <2>2. [work.loaded EXCEPT !.expired = now].warned = work.loaded.warned
    BY <2>1, Loaded DEF Rows
  <2> QED
    BY <2>1, <2>2, Loaded, StatusChanges, SaveWarns
<1> QED
  BY <1>1, <1>2, <1>3, <1>4, <1>5, <1>6, <1>7 DEF Step

LEMMA WarnedNext ==
    IInv /\ TimeoutInDiscuss /\ WarnedInPeriod /\ [Next]_vars => WarnedInPeriod'
<1> SUFFICES ASSUME IInv, TimeoutInDiscuss, WarnedInPeriod, [Next]_vars
             PROVE  WarnedInPeriod'
  OBVIOUS
<1>1. CASE Tick \/ Remark \/ AskExtension \/ UNCHANGED vars
  BY <1>1 DEF Tick, Remark, AskExtension, vars, historyVars, WarnedInPeriod, Clear
<1>2. CASE Upload
  <2>1. PICK want \in UploadTriggers :
            now < MaxNow /\ row' = Tracked(row, Uploaded(want), now) /\ UNCHANGED raced
    BY <1>2 DEF Upload
  <2> DEFINE sent == Uploaded(want)
  <2>2. /\ sent \in Rows /\ sent.discussAt = row.discussAt /\ sent.warned = row.warned
        /\ row \in Rows
    BY <2>1, UploadChanges, UploadedColumns, Values DEF Changed
  <2> HIDE DEF sent
  <2>3. /\ row'.warned # 0 => sent.status = row.status
        /\ sent.status = row.status => row' = sent
    BY <2>1, <2>2 DEF Tracked, Rows, sent
  <2> QED
    BY <2>1, <2>2, <2>3 DEF WarnedInPeriod, Clear
<1>3. CASE \E r \in Requests : Step(r)
  BY <1>3, WarnedStep
<1> QED
  BY <1>1, <1>2, <1>3 DEF Next

----------------------------------------------------------------------------
(* Work is judged by its due date *)

JudgingRaces == {"tutor", "timeout", "assessor", "reused", "staff_verdict"}

\* How the status of a task goes with its dates; work that has been judged was
\* submitted.
Judged(c) ==
    /\ c.status = "ready_for_feedback" => InTime(c)
    /\ c.status \in {"ready_for_feedback", "time_exceeded"} => c.submitted # 0

JudgedUnlessRaced ==
    Clear(JudgingRaces) =>
        Judged(row) /\ (Reprieved(row) => \E r \in Requests : At(r, "restore"))

\* The due date never moves forward.
LEMMA DueDateGrows ==
    ASSUME NEW e \in Nat, NEW f \in Nat, e <= f
    PROVE  DueDate(e) \in Nat /\ DueDate(f) \in Nat /\ DueDate(e) <= DueDate(f)
<1>1. /\ Week * e \in Nat /\ Week * f \in Nat
  BY LifecycleAssumption, SMTT(30)
<1>2. Week * e <= Week * f
  BY LifecycleAssumption, SMTT(30)
<1>3. RawDate(e) = Target + Week * e /\ RawDate(f) = Target + Week * f
  BY DEF RawDate
<1>4. e # 0 => f # 0
  OBVIOUS
<1> QED
  BY <1>1, <1>2, <1>3, <1>4, LifecycleAssumption DEF DueDate

\* A change that judges the work when it was judged before, and reprieves none.
Judges(c, d) ==
    /\ Judged(c) => Judged(d)
    /\ Reprieved(d) => Reprieved(c)

\* A row is judged as it was when its status, date and extensions are the same, and
\* trivially when its status is another.
LEMMA SameJudgement ==
    ASSUME NEW c, NEW d,
           \/ /\ d.status = c.status /\ d.submitted = c.submitted
              /\ d.extensions = c.extensions
           \/ d.status \notin {"ready_for_feedback", "time_exceeded"}
    PROVE  Judges(c, d)
BY DEF Judges, Judged, Reprieved, InTime

LEMMA TrackedJudgement ==
    ASSUME NEW c \in Rows, NEW d \in Rows, NEW t \in Times
    PROVE  Judges(d, Tracked(c, d, t))
<1> DEFINE tracked == Tracked(c, d, t)
<1>1. /\ tracked.status = d.status /\ tracked.submitted = d.submitted
      /\ tracked.extensions = d.extensions
  BY TrackedCopy
<1> HIDE DEF tracked
<1>2. Judges(d, tracked)
  BY <1>1, SameJudgement
<1> QED
  BY <1>2 DEF tracked

\* More weeks leave work in time that was.
LEMMA ExtendedJudgement ==
    ASSUME NEW c, NEW t \in Times, NEW n \in Nat, NEW w \in Nat, Sound(c, t, n)
    PROVE  LET longer == Extended(c, w)
           IN /\ Judged(c) => Judged(longer)
              /\ Reprieved(longer) => Reprieved(c) \/ LateNoMore(c, longer)
<1> DEFINE longer == Extended(c, w)
<1>1. /\ longer.status = c.status /\ longer.submitted = c.submitted
      /\ c.extensions <= longer.extensions /\ longer \in Rows /\ c \in Rows
  BY ExtendedChanges DEF Sound
<1> HIDE DEF longer
<1>2. InTime(c) => InTime(longer)
  <2>1. /\ c.extensions \in Nat /\ longer.extensions \in Nat /\ c.submitted \in Nat
    BY <1>1 DEF Rows, Times
  <2>2. /\ DueDate(c.extensions) \in Nat /\ DueDate(longer.extensions) \in Nat
        /\ DueDate(c.extensions) <= DueDate(longer.extensions)
    BY <1>1, <2>1, DueDateGrows
  <2> QED
    BY <1>1, <2>1, <2>2 DEF InTime
<1>3. Judged(c) => Judged(longer)
  BY <1>1, <1>2 DEF Judged
<1>4. Reprieved(longer) => Reprieved(c) \/ LateNoMore(c, longer)
  BY <1>1 DEF Reprieved, LateNoMore, InTime
<1> QED
  BY <1>3, <1>4 DEF longer

\* submit judges the work by the date it sets.
LEMMA UploadedJudgement ==
    ASSUME IInv, now < MaxNow, Judged(row), NEW want \in UploadTriggers
    PROVE  Judged(Uploaded(want)) /\ (Reprieved(Uploaded(want)) => Reprieved(row))
<1> DEFINE dated == IF row.status # "ready_for_feedback" \/ row.submitted = 0
                    THEN [row EXCEPT !.submitted = now] ELSE row
           sent == IF dated.status # "ready_for_feedback" \/ dated.submitted = 0
                   THEN [dated EXCEPT !.submitted = now] ELSE dated
<1>1. row \in Rows /\ now \in Nat \ {0} /\ row.submitted < now
  BY DEF IInv, TypeOK, Times, Sound, Dated
<1>2. /\ dated.status = row.status /\ dated.extensions = row.extensions
      /\ row.status = "ready_for_feedback" => dated.submitted = row.submitted
      /\ row.status # "ready_for_feedback" => dated.submitted = now
      /\ dated = [row EXCEPT !.submitted = dated.submitted]
  BY <1>1 DEF Rows, Judged
<1>3. sent = dated /\ dated.submitted # 0
  BY <1>1, <1>2 DEF Rows, Judged
<1>4. dated \in Rows
  BY <1>1, <1>2, Values DEF Rows
<1>5. Judged(dated) /\ (Reprieved(dated) => Reprieved(row))
  <2>1. row.submitted \in Nat /\ DueDate(row.extensions) \in Nat
    BY <1>1, DueDateGrows DEF Rows, Times
  <2> HIDE DEF dated
  <2> QED
    BY <1>1, <1>2, <1>3, <2>1 DEF Judged, Reprieved, InTime
<1>6. CASE ~StudentMay(row)
  BY <1>5, <1>6 DEF Uploaded
<1>7. CASE StudentMay(row) /\ want # "ready_for_feedback"
  <2>1. Uploaded(want) = [dated EXCEPT !.status = want]
    BY <1>7 DEF Uploaded
  <2>2. Uploaded(want).status \notin {"ready_for_feedback", "time_exceeded"}
    BY <1>4, <1>7, <2>1, LifecycleAssumption DEF Rows
  <2> QED
    BY <2>2 DEF Judged, Reprieved
<1>8. CASE StudentMay(row) /\ want = "ready_for_feedback"
  <2>1. Uploaded(want) = Submitted(dated, now)
    BY <1>8 DEF Uploaded
  <2>2. CASE InTime(sent) \/ sent.status = "ready_for_feedback"
    <3> DEFINE ready == [dated EXCEPT !.status = "ready_for_feedback"]
    <3>1. Submitted(dated, now) = ready
      BY <2>2, <1>3 DEF Submitted
    <3>2. /\ ready.status = "ready_for_feedback" /\ ready.submitted = dated.submitted
          /\ ready.extensions = dated.extensions
      BY <1>4 DEF Rows
    <3>3. InTime(dated)
      BY <1>3, <1>5, <2>2 DEF Judged
    <3> HIDE DEF ready, dated
    <3> QED
      BY <2>1, <3>1, <3>2, <3>3, <1>3 DEF Judged, Reprieved, InTime
  <2>3. CASE ~(InTime(sent) \/ sent.status = "ready_for_feedback")
    <3> DEFINE late == Assessed(dated, LateStatus, now)
    <3>1. Submitted(dated, now) = late
      BY <2>3, <1>3 DEF Submitted
    <3>2. LateStatus \notin {"ready_for_feedback", "fix_and_resubmit"}
      BY DEF LateStatus
    <3>3. /\ late.status = LateStatus /\ late.submitted = dated.submitted
          /\ late.extensions = dated.extensions
      <4> HIDE DEF dated
      <4> QED
        BY <1>3, <1>4, <3>2, AssessedColumns
    <3>4. ~InTime(dated)
      BY <1>3, <2>3
    <3> HIDE DEF late, dated
    <3> QED
      BY <2>1, <3>1, <3>2, <3>3, <3>4, <1>3 DEF Judged, Reprieved, InTime
  <2> QED
    BY <2>2, <2>3
<1> QED
  BY <1>6, <1>7, <1>8

\* A save that is judged as it should be, by one who loaded the present row.
LEMMA SaveJudges ==
    ASSUME IInv, JudgedUnlessRaced, NEW r \in Requests, requests[r] \in Work, Step(r),
           requests[r].who \in JudgingRaces,
           NEW copy, Changed(requests[r].loaded, copy, now, submissions),
           NEW races, Save(r, copy, races),
           Judged(requests[r].loaded) => Judged(copy),
           Reprieved(copy) => \/ Reprieved(requests[r].loaded) /\ ~At(r, "restore")
                              \/ At(r, "restore")'
    PROVE  JudgedUnlessRaced'
<1> SUFFICES ASSUME Clear(JudgingRaces)'
             PROVE  /\ Judged(row')
                    /\ Reprieved(row') => \E q \in Requests : At(q, "restore")'
  BY DEF JudgedUnlessRaced, Judged, Reprieved, InTime
<1>1. /\ row = requests[r].loaded /\ row' = Tracked(row, copy, now)
      /\ copy \in Rows /\ row \in Rows /\ now \in Times /\ Clear(JudgingRaces)
  BY SavedRow, Values DEF Clear
<1>2. Judges(copy, row')
  BY <1>1, TrackedJudgement
<1>3. /\ Judged(row) /\ Judged(copy)
      /\ Reprieved(row) => \E q \in Requests : At(q, "restore")
  BY <1>1 DEF JudgedUnlessRaced
<1>4. ASSUME Reprieved(row'), ~At(r, "restore")'
      PROVE  \E q \in Requests : At(q, "restore")'
  <2>1. Reprieved(row) /\ ~At(r, "restore")
    BY <1>1, <1>2, <1>4 DEF Judges
  <2>2. PICK q \in Requests : At(q, "restore")
    BY <1>3, <2>1
  <2>3. requests'[q] = requests[q]
    BY <2>1, <2>2, OneMoves
  <2> QED
    BY <2>2, <2>3 DEF At
<1> QED
  BY <1>2, <1>3, <1>4 DEF Judges

\* A step that leaves the row's judgement alone.
LEMMA JudgementStays ==
    ASSUME IInv, JudgedUnlessRaced, NEW r \in Requests, Step(r), ~At(r, "restore"),
           raced \subseteq raced', Judges(row, row')
    PROVE  JudgedUnlessRaced'
<1> SUFFICES ASSUME Clear(JudgingRaces)'
             PROVE  /\ Judged(row')
                    /\ Reprieved(row') => \E q \in Requests : At(q, "restore")'
  BY DEF JudgedUnlessRaced, Judged, Reprieved, InTime
<1>1. Judged(row) /\ (Reprieved(row) => \E q \in Requests : At(q, "restore"))
  BY DEF JudgedUnlessRaced, Clear
<1>2. \A q \in Requests : At(q, "restore") => At(q, "restore")'
  BY OneMoves DEF At
<1> QED
  BY <1>1, <1>2 DEF Judges

LEMMA JudgedStep ==
    ASSUME IInv, Restores, JudgedUnlessRaced, NEW r \in Requests, Step(r)
    PROVE  JudgedUnlessRaced'
<1> DEFINE work == requests[r]
<1> USE Values
<1>1. CASE \/ StudentAsks(r) \/ TutorAsks(r) \/ TutorReuses(r) \/ SayEngaged(r)
           \/ Repeat(r) \/ Tell(r) \/ AssessorOpens(r) \/ Answer(r) \/ Reject(r)
           \/ OverseerBegins(r) \/ TimeoutLoads(r) \/ LeaveDiscuss(r)
  <2>1. row' = row /\ raced \subseteq raced' /\ ~At(r, "restore")
    BY <1>1, QuietSteps
  <2>2. Judges(row, row')
    BY <2>1, SameJudgement
  <2> QED
    BY <2>1, <2>2, JudgementStays
<1>2. CASE Engage(r)
  <2> DEFINE copy == [work.loaded EXCEPT !.status = work.want]
  <2>1. PICK races : Save(r, copy, races)
    BY <1>2 DEF Engage
  <2>2. At(r, "save") /\ work.want \notin {"ready_for_feedback", "time_exceeded"}
    BY <1>2 DEF Engage, Engaging
  <2>3. /\ copy.status = work.want /\ copy.submitted = work.loaded.submitted
        /\ copy.extensions = work.loaded.extensions
    BY <2>2, Loaded DEF Rows
  <2>4. Changed(work.loaded, copy, now, submissions) /\ work \in Work
    BY <2>2, Loaded, StatusChanges
  <2> HIDE DEF copy
  <2>5. /\ raced \subseteq raced'
        /\ row'.submitted = row.submitted /\ row'.extensions = row.extensions
        /\ row'.status \in {row.status, work.want}
    BY <2>1, <2>3, <2>4, SavedRow
  <2>6. Judges(row, row')
    BY <2>2, <2>5, SameJudgement
  <2>7. ~At(r, "restore")
    BY <2>2 DEF At
  <2> QED
    BY <2>5, <2>6, <2>7, JudgementStays
<1>3. CASE Reuse(r) \/ OverseerSets(r)
  <2>1. PICK races : /\ Save(r, [work.loaded EXCEPT !.status = work.want], races)
                     /\ races \in {{"reused"}, {"staff_verdict"}}
    BY <1>3 DEF Reuse, OverseerSets
  <2>2. races \subseteq raced'
    BY <2>1 DEF Save
  <2> QED
    BY <2>1, <2>2 DEF JudgedUnlessRaced, JudgingRaces, Clear
<1>4. CASE Assess(r)
  <2> DEFINE copy == Assessed(work.loaded, work.want, now)
  <2>1. PICK races : /\ Save(r, copy, races)
                     /\ work.want = "time_exceeded" => races = {"staff_verdict"}
    BY <1>4 DEF Assess
  <2>2. /\ At(r, "save") /\ work.who \in JudgingRaces
        /\ work.want # "ready_for_feedback"
    BY <1>4 DEF Assess, Assessing, JudgingRaces
  <2>3. copy.status = work.want
    BY <2>2, Loaded, AssessedColumns
  <2>4. Changed(work.loaded, copy, now, submissions) /\ work \in Work
    BY <2>2, Loaded, AssessedChanges
  <2> HIDE DEF copy
  <2>5. CASE work.want = "time_exceeded"
    <3>1. "staff_verdict" \in raced'
      BY <2>1, <2>5 DEF Save
    <3> QED
      BY <3>1 DEF JudgedUnlessRaced, JudgingRaces, Clear
  <2>6. CASE work.want # "time_exceeded"
    <3>1. Judged(copy) /\ ~Reprieved(copy)
      BY <2>2, <2>3, <2>6 DEF Judged, Reprieved
    <3> QED
      BY <2>1, <2>2, <2>4, <3>1, SaveJudges
  <2> QED
    BY <2>5, <2>6
<1>5. CASE Grant(r)
  <2> DEFINE longer == Extended(work.loaded, work.weeks)
             phase == IF LateNoMore(work.loaded, longer) THEN "restore" ELSE "answer"
  <2>1. /\ Save(r, longer, {}) /\ At(r, "save") /\ work.who \in JudgingRaces
        /\ requests' = [requests EXCEPT ![r].phase = phase, ![r].loaded = longer]
    BY <1>5 DEF Grant, JudgingRaces
  <2>2. /\ Changed(work.loaded, longer, now, submissions) /\ work \in Work
        /\ Judged(work.loaded) => Judged(longer)
        /\ Reprieved(longer) => Reprieved(work.loaded) \/ LateNoMore(work.loaded, longer)
    BY <2>1, Loaded, ExtendedChanges, ExtendedJudgement
  <2>3. LateNoMore(work.loaded, longer) => phase = "restore"
    OBVIOUS
  <2> HIDE DEF longer, phase
  <2>4. requests'[r].phase = phase /\ ~At(r, "restore")
    BY <2>1, <2>2 DEF IInv, TypeOK, At, Work
  <2>5. Reprieved(longer) => \/ Reprieved(work.loaded) /\ ~At(r, "restore")
                             \/ At(r, "restore")'
    BY <2>2, <2>3, <2>4 DEF At
  <2> QED
    BY <2>1, <2>2, <2>5, SaveJudges
<1>6. CASE Warn(r) \/ ExpireNothing(r)
  <2>1. PICK copy \in {[work.loaded EXCEPT !.warned = now],
                       [work.loaded EXCEPT !.expired = now]} : Save(r, copy, {})
    BY <1>6 DEF Warn, ExpireNothing
  <2>2. At(r, "save") /\ work.who \in JudgingRaces
    BY <1>6 DEF Warn, ExpireNothing, JudgingRaces
  <2>3. /\ copy.status = work.loaded.status /\ copy.submitted = work.loaded.submitted
        /\ copy.extensions = work.loaded.extensions
    BY <2>2, Loaded DEF Rows
  <2>4. Changed(work.loaded, copy, now, submissions) /\ work \in Work
    <3>1. /\ Changed(work.loaded, [work.loaded EXCEPT !.warned = now], now, submissions)
          /\ Changed(work.loaded, [work.loaded EXCEPT !.expired = now], now, submissions)
      BY <2>2, Loaded, StatusChanges
    <3> QED
      BY <2>1, <2>2, <3>1, Loaded
  <2>5. /\ Judged(work.loaded) => Judged(copy)
        /\ Reprieved(copy) => Reprieved(work.loaded) /\ ~At(r, "restore")
    BY <2>2, <2>3, SameJudgement DEF Judges, At
  <2> QED
    BY <2>1, <2>2, <2>4, <2>5, SaveJudges
<1>7. CASE ExpireDiscuss(r)
  <2> DEFINE copy == Assessed(work.loaded, "fix_and_resubmit", now)
  <2>1. /\ Save(r, copy, {}) /\ At(r, "save") /\ work.who \in JudgingRaces
    BY <1>7 DEF ExpireDiscuss, JudgingRaces
  <2>2. copy.status = "fix_and_resubmit"
    BY <2>1, Loaded, AssessedColumns
  <2>3. Changed(work.loaded, copy, now, submissions) /\ work \in Work
    BY <2>1, Loaded, AssessedChanges
  <2> HIDE DEF copy
  <2>4. Judged(copy) /\ ~Reprieved(copy)
    BY <2>2 DEF Judged, Reprieved
  <2> QED
    BY <2>1, <2>3, <2>4, SaveJudges
<1>8. CASE Restore(r)
  <2> DEFINE copy == [work.loaded EXCEPT !.status = work.want]
  <2>1. /\ Save(r, copy, {}) /\ At(r, "restore")
    BY <1>8 DEF Restore
  <2>2. /\ work.who = "assessor" /\ work.want = "ready_for_feedback"
        /\ Reprieved(work.loaded)
    BY <2>1 DEF Restores
  <2>3. /\ copy.status = "ready_for_feedback" /\ copy.submitted = work.loaded.submitted
        /\ copy.extensions = work.loaded.extensions
    BY <2>1, <2>2, Loaded DEF Rows
  <2>4. Changed(work.loaded, copy, now, submissions) /\ work \in Work
    BY <2>1, Loaded, StatusChanges
  <2> HIDE DEF copy
  <2>5. (Judged(work.loaded) => Judged(copy)) /\ ~Reprieved(copy)
    BY <2>2, <2>3 DEF Judged, Reprieved, InTime
  <2>6. work.who \in JudgingRaces
    BY <2>2 DEF JudgingRaces
  <2> QED
    BY <2>1, <2>4, <2>5, <2>6, SaveJudges
<1> QED
  BY <1>1, <1>2, <1>3, <1>4, <1>5, <1>6, <1>7, <1>8 DEF Step

LEMMA JudgedNext ==
    IInv /\ Restores /\ JudgedUnlessRaced /\ [Next]_vars => JudgedUnlessRaced'
<1> SUFFICES ASSUME IInv, Restores, JudgedUnlessRaced, [Next]_vars
             PROVE  JudgedUnlessRaced'
  OBVIOUS
<1>1. CASE Tick \/ Remark \/ AskExtension \/ UNCHANGED vars
  BY <1>1 DEF Tick, Remark, AskExtension, vars, historyVars, JudgedUnlessRaced, Judged,
              Reprieved, InTime, At, Clear
<1>2. CASE Upload
  <2> SUFFICES ASSUME Clear(JudgingRaces)'
               PROVE  /\ Judged(row')
                      /\ Reprieved(row') => \E q \in Requests : At(q, "restore")'
    BY DEF JudgedUnlessRaced, Judged, Reprieved, InTime
  <2>1. PICK want \in UploadTriggers :
            /\ now < MaxNow /\ row' = Tracked(row, Uploaded(want), now)
            /\ UNCHANGED <<raced, requests>>
    BY <1>2 DEF Upload
  <2>2. Uploaded(want) \in Rows /\ row \in Rows /\ now \in Times
    BY <2>1, UploadChanges, Values DEF Changed
  <2>3. Judged(row) /\ (Reprieved(row) => \E q \in Requests : At(q, "restore")')
    BY <2>1 DEF JudgedUnlessRaced, Clear, At
  <2>4. Judged(Uploaded(want)) /\ (Reprieved(Uploaded(want)) => Reprieved(row))
    BY <2>1, <2>3, UploadedJudgement
  <2>5. Judges(Uploaded(want), row')
    BY <2>1, <2>2, TrackedJudgement
  <2> QED
    BY <2>3, <2>4, <2>5 DEF Judges
<1>3. CASE \E r \in Requests : Step(r)
  BY <1>3, JudgedStep
<1> QED
  BY <1>1, <1>2, <1>3 DEF Next

----------------------------------------------------------------------------
(* The last status comment tells the status *)

CommentRaces == {"student", "tutor", "overseer", "crossed"}

\* A request that has said what it has yet to save, or saved what it has yet to
\* say.
Unsaid(r) ==
    \/ At(r, "tell")
    \/ /\ At(r, "save") /\ requests[r].want \in Engaging
       /\ requests[r].who \in {"student", "tutor"}

\* Only an engagement is said before it is saved.
SaysEngagement == \A r \in Requests : At(r, "say") => requests[r].want \in Engaging

\* What a request is about to tell is what it has saved.
TellsItsSave ==
    Clear(CommentRaces) =>
        \A r \in Requests : At(r, "tell") => requests[r].loaded.status = requests[r].want

\* Comment and status differ only while some request is between the two.
AgreeUnlessUnsaid ==
    Clear(CommentRaces) =>
        \/ lastSaid = Nothing \/ lastSaid[2] = row.status
        \/ \E r \in Requests : Unsaid(r)

CommentInv == TellsItsSave /\ AgreeUnlessUnsaid

\* A request that is not the one that moves stays what it was.
LEMMA OthersStay ==
    ASSUME IInv, NEW r \in Requests, NEW work, requests' = [requests EXCEPT ![r] = work]
    PROVE  /\ requests'[r] = work
           /\ \A q \in Requests \ {r} : requests'[q] = requests[q]
           /\ \A q \in Requests \ {r} : Unsaid(q) => Unsaid(q)'
BY DEF IInv, TypeOK, Unsaid, At

\* A request that moves to no telling leaves what the others tell.
LEMMA TellingStays ==
    ASSUME IInv, TellsItsSave, NEW r \in Requests, NEW work, work.phase # "tell",
           requests' = [requests EXCEPT ![r] = work], raced \subseteq raced'
    PROVE  TellsItsSave'
BY OthersStay DEF TellsItsSave, At, Clear

\* A save followed by telling of it.
LEMMA SaveTells ==
    ASSUME IInv, TellsItsSave, NEW r \in Requests, requests[r] \in Work,
           \/ requests[r].who \in {"tutor", "overseer"}
           \/ requests[r].loaded.status # requests[r].want,
           NEW copy, Changed(requests[r].loaded, copy, now, submissions),
           copy.status = requests[r].want,
           NEW races, Save(r, copy, races), GoOnToTell(r)
    PROVE  CommentInv'
<1> DEFINE work == [requests[r] EXCEPT !.phase = "tell", !.loaded = row']
<1>1. requests' = [requests EXCEPT ![r] = work]
  BY DEF GoOnToTell, IInv, TypeOK
<1>2. work.phase = "tell" /\ work.loaded = row' /\ work.want = requests[r].want
  BY DEF Work
<1> HIDE DEF work
<1>3. /\ requests'[r] = work
      /\ \A q \in Requests \ {r} : requests'[q] = requests[q]
  BY <1>1, OthersStay
<1>4. Unsaid(r)'
  BY <1>2, <1>3 DEF Unsaid, At
<1>5. ASSUME Clear(CommentRaces)' PROVE row'.status = requests[r].want
  <2>1. row'.status = IF copy.status # requests[r].loaded.status
                      THEN copy.status ELSE row.status
    BY SavedRow
  <2>2. CASE requests[r].loaded.status # requests[r].want
    BY <2>1, <2>2
  <2>3. CASE requests[r].who \in {"tutor", "overseer"}
    <3>1. requests[r].who \notin raced'
      BY <1>5, <2>3 DEF Clear, CommentRaces
    <3>2. row = requests[r].loaded
      BY <3>1, SavedRow
    <3> QED
      BY <2>1, <3>2
  <2> QED
    BY <2>2, <2>3
<1>6. raced \subseteq raced'
  BY SavedRow
<1>7. TellsItsSave'
  BY <1>2, <1>3, <1>5, <1>6 DEF TellsItsSave, At, Clear
<1> QED
  BY <1>4, <1>7 DEF CommentInv, AgreeUnlessUnsaid

\* A step after which comment and status agree, or agree as they did.
LEMMA AgreementReached ==
    ASSUME IInv, CommentInv, NEW r \in Requests,
           NEW work, work.phase # "tell", requests' = [requests EXCEPT ![r] = work],
           raced \subseteq raced',
           Clear(CommentRaces)' =>
               \/ lastSaid' = Nothing \/ lastSaid'[2] = row'.status
               \/ lastSaid' = lastSaid /\ row'.status = row.status /\ ~Unsaid(r)
    PROVE  CommentInv'
<1>1. TellsItsSave'
  BY TellingStays DEF CommentInv
<1>2. \A q \in Requests \ {r} : Unsaid(q) => Unsaid(q)'
  BY OthersStay
<1>3. AgreeUnlessUnsaid'
  BY <1>2 DEF CommentInv, AgreeUnlessUnsaid, Clear
<1> QED
  BY <1>1, <1>3 DEF CommentInv

LEMMA AgreementAtEnd ==
    ASSUME IInv, CommentInv, NEW r \in Requests, End(r), raced \subseteq raced',
           Clear(CommentRaces)' =>
               \/ lastSaid' = Nothing \/ lastSaid'[2] = row'.status
               \/ lastSaid' = lastSaid /\ row'.status = row.status /\ ~Unsaid(r)
    PROVE  CommentInv'
<1>1. Free.phase # "tell" /\ requests' = [requests EXCEPT ![r] = Free]
  BY DEF Free, End
<1> QED
  BY <1>1, AgreementReached

\* A request begins.
LEMMA BeginningAgrees ==
    ASSUME IInv, CommentInv, NEW r \in Requests,
           NEW who, NEW want, NEW phase \in {"say", "save"}, Start(r, who, want, phase)
    PROVE  CommentInv'
<1> DEFINE work == [who |-> who, want |-> want,
                    weeks |-> IF who = "assessor" THEN asked ELSE 0,
                    phase |-> phase, loaded |-> row]
<1>1. /\ work.phase # "tell" /\ requests' = [requests EXCEPT ![r] = work]
      /\ At(r, "idle") /\ UNCHANGED <<row, lastSaid, raced>>
  BY DEF Start, historyVars
<1> HIDE DEF work
<1>2. TellsItsSave'
  BY <1>1, TellingStays DEF CommentInv
<1>3. ~Unsaid(r) /\ \A q \in Requests \ {r} : Unsaid(q) => Unsaid(q)'
  BY <1>1, OthersStay DEF Unsaid, At
<1>4. AgreeUnlessUnsaid'
  BY <1>1, <1>3 DEF CommentInv, AgreeUnlessUnsaid, Clear
<1> QED
  BY <1>2, <1>4 DEF CommentInv

LEMMA SayKeeps == IInv /\ SaysEngagement /\ [Next]_vars => SaysEngagement'
<1> SUFFICES ASSUME IInv, SaysEngagement, [Next]_vars, NEW q \in Requests, At(q, "say")'
             PROVE  requests'[q].want \in Engaging
  BY DEF SaysEngagement
<1>1. requests \in [Requests -> Work \union {Free}]
  BY DEF IInv, TypeOK
<1>2. CASE UNCHANGED requests
  BY <1>2 DEF SaysEngagement, At
<1>3. CASE \E r \in Requests : Step(r)
  <2> PICK r \in Requests : Step(r)
    BY <1>3
  <2>1. CASE q # r
    BY <2>1, OneMoves DEF SaysEngagement, At
  <2>2. CASE q = r /\ Begins(r)
    BY <1>1, <2>2 DEF Begins, Start, At
  <2>3. CASE q = r /\ End(r)
    BY <1>1, <2>3 DEF End, Free, At
  <2>4. CASE q = r /\ Grant(r)
    <3>1. requests[r] \in Work
      BY <2>4, Loaded DEF Grant
    <3>2. requests'[r].phase # "say"
      BY <1>1, <2>4, <3>1 DEF Grant, Work
    <3> QED
      BY <2>4, <3>2 DEF At
  <2>5. CASE q = r /\ (Continue(r, "save") \/ Continue(r, "answer") \/ GoOnToTell(r))
             /\ (At(r, "say") \/ At(r, "tell") \/ At(r, "save") \/ At(r, "restore"))
    <3>1. requests[r] \in Work
      BY <2>5, Loaded
    <3>2. requests'[r].phase # "say"
      BY <1>1, <2>5, <3>1 DEF Continue, GoOnToTell, Work
    <3> QED
      BY <2>5, <3>2 DEF At
  <2> QED
    BY <2>1, <2>2, <2>3, <2>4, <2>5, Moves
<1> QED
  BY <1>2, <1>3 DEF Next, Tick, Remark, Upload, AskExtension, vars

LEMMA CommentStep ==
    ASSUME IInv, Restores, SaysEngagement, CommentInv, NEW r \in Requests, Step(r)
    PROVE  CommentInv'
<1> DEFINE work == requests[r]
<1> USE Values
<1>1. CASE \/ StudentAsks(r) \/ TutorAsks(r) \/ TutorReuses(r) \/ AssessorOpens(r)
           \/ OverseerBegins(r) \/ TimeoutLoads(r)
  <2>1. \E who, want, phase : phase \in {"say", "save"} /\ Start(r, who, want, phase)
    BY <1>1 DEF StudentAsks, TutorAsks, TutorReuses, AssessorOpens, OverseerBegins,
                TimeoutLoads
  <2> QED
    BY <2>1, BeginningAgrees
<1>2. CASE SayEngaged(r)
  <2> DEFINE later == [work EXCEPT !.phase = "save"]
  <2>1. /\ requests' = [requests EXCEPT ![r] = later] /\ UNCHANGED <<row, raced>>
    BY <1>2 DEF SayEngaged, Continue, Comment, historyVars, IInv, TypeOK
  <2>2. At(r, "say") /\ work.who \in {"student", "tutor"}
    BY <1>2 DEF SayEngaged
  <2>3. /\ later.phase = "save" /\ later.want = work.want /\ later.who = work.who
    BY <2>2, Loaded DEF Work
  <2> HIDE DEF later
  <2>4. TellsItsSave'
    BY <2>1, <2>3, TellingStays DEF CommentInv
  <2>5. Unsaid(r)'
    <3>1. requests'[r] = later
      BY <2>1, OthersStay
    <3>2. work.want \in Engaging
      BY <2>2 DEF SaysEngagement
    <3> QED
      BY <2>2, <2>3, <3>1, <3>2 DEF Unsaid, At
  <2> QED
    BY <2>4, <2>5 DEF CommentInv, AgreeUnlessUnsaid
<1>3. CASE Engage(r)
  <2> DEFINE copy == [work.loaded EXCEPT !.status = work.want]
             races == IF lastSaid \in {Nothing, Says(work.who, work.want)}
                      THEN {} ELSE {"crossed"}
  <2>1. Save(r, copy, races) /\ End(r) /\ At(r, "save") /\ lastSaid' = lastSaid
    BY <1>3 DEF Engage
  <2>2. work.who \in {"student", "tutor"}
    BY <1>3 DEF Engage
  <2>3. /\ copy.status = work.want /\ work \in Work
        /\ Changed(work.loaded, copy, now, submissions)
    BY <2>1, Loaded, StatusChanges DEF Rows
  <2> HIDE DEF copy
  <2>4. /\ raced \subseteq raced' /\ races \subseteq raced' /\ copy \in Rows
        /\ work.who \notin raced' => row' = Tracked(row, copy, now)
    BY <2>1, <2>3, SavedRow
  <2>5. ASSUME Clear(CommentRaces)'
        PROVE  lastSaid' = Nothing \/ lastSaid'[2] = row'.status
    <3>1. lastSaid \in {Nothing, Says(work.who, work.want)}
      BY <2>4, <2>5 DEF Clear, CommentRaces
    <3>2. row' = Tracked(row, copy, now)
      BY <2>2, <2>4, <2>5 DEF Clear, CommentRaces
    <3>3. row'.status = work.want
      BY <2>3, <2>4, <3>2, TrackedCopy
    <3> QED
      BY <2>1, <3>1, <3>3 DEF Says
  <2> QED
    BY <2>1, <2>4, <2>5, AgreementAtEnd
<1>4. CASE Reuse(r)
  <2> DEFINE copy == [work.loaded EXCEPT !.status = work.want]
  <2>1. /\ Save(r, copy, {"reused"}) /\ End(r) /\ At(r, "save") /\ work.who = "tutor"
        /\ lastSaid' = Says("tutor", work.want)
    BY <1>4 DEF Reuse
  <2>2. /\ copy.status = work.want /\ work \in Work
        /\ Changed(work.loaded, copy, now, submissions)
    BY <2>1, Loaded, StatusChanges DEF Rows
  <2> HIDE DEF copy
  <2>3. /\ raced \subseteq raced' /\ copy \in Rows
        /\ work.who \notin raced' => row' = Tracked(row, copy, now)
    BY <2>1, <2>2, SavedRow
  <2>4. ASSUME Clear(CommentRaces)' PROVE lastSaid'[2] = row'.status
    <3>1. row' = Tracked(row, copy, now)
      BY <2>1, <2>3, <2>4 DEF Clear, CommentRaces
    <3>2. row'.status = work.want
      BY <2>2, <2>3, <3>1, TrackedCopy
    <3> QED
      BY <2>1, <3>2 DEF Says
  <2> QED
    BY <2>1, <2>3, <2>4, AgreementAtEnd
<1>5. CASE Assess(r)
  <2>1. PICK races : Save(r, Assessed(work.loaded, work.want, now), races)
    BY <1>5 DEF Assess
  <2>2. At(r, "save") /\ work.who = "tutor" /\ GoOnToTell(r)
    BY <1>5 DEF Assess, Assessing
  <2>3. Assessed(work.loaded, work.want, now).status = work.want
    BY <2>2, Loaded, AssessedColumns
  <2> QED
    BY <2>1, <2>2, <2>3, Loaded, AssessedChanges, SaveTells DEF CommentInv
<1>6. CASE OverseerSets(r)
  <2>1. /\ Save(r, [work.loaded EXCEPT !.status = work.want], {"staff_verdict"})
        /\ At(r, "save") /\ work.who = "overseer" /\ GoOnToTell(r)
    BY <1>6 DEF OverseerSets
  <2>2. [work.loaded EXCEPT !.status = work.want].status = work.want
    BY <2>1, Loaded DEF Rows
  <2> QED
    BY <2>1, <2>2, Loaded, StatusChanges, SaveTells DEF CommentInv
<1>7. CASE Tell(r)
  <2>1. /\ At(r, "tell") /\ lastSaid' = Says("tutor", work.want) /\ row' = row
        /\ (End(r) \/ Continue(r, "answer"))
        /\ raced \subseteq raced'
        /\ row # work.loaded => "crossed" \in raced'
    BY <1>7 DEF Tell
  <2>2. ASSUME Clear(CommentRaces)' PROVE lastSaid'[2] = row'.status
    <3>1. row = work.loaded /\ Clear(CommentRaces)
      BY <2>1, <2>2 DEF Clear, CommentRaces
    <3>2. work.loaded.status = work.want
      BY <2>1, <3>1 DEF CommentInv, TellsItsSave
    <3> QED
      BY <2>1, <3>1, <3>2 DEF Says
  <2>3. CASE End(r)
    BY <2>1, <2>2, <2>3, AgreementAtEnd
  <2>4. CASE Continue(r, "answer")
    <3> DEFINE later == [work EXCEPT !.phase = "answer"]
    <3>1. later.phase # "tell"
      BY <2>1, Loaded DEF Work
    <3>2. requests' = [requests EXCEPT ![r] = later]
      BY <2>4 DEF Continue, IInv, TypeOK
    <3> HIDE DEF later
    <3> QED
      BY <2>1, <2>2, <3>1, <3>2, AgreementReached
  <2> QED
    BY <2>1, <2>3, <2>4
<1>8. CASE Repeat(r) \/ Answer(r) \/ Reject(r) \/ LeaveDiscuss(r)
  <2>1. End(r) /\ UNCHANGED <<row, lastSaid, raced>> /\ ~Unsaid(r)
    BY <1>8 DEF Repeat, Assessing, Answer, Reject, LeaveDiscuss, historyVars, Unsaid, At
  <2> QED
    BY <2>1, AgreementAtEnd
<1>9. CASE Grant(r)
  <2> DEFINE longer == Extended(work.loaded, work.weeks)
             phase == IF LateNoMore(work.loaded, longer) THEN "restore" ELSE "answer"
             later == [work EXCEPT !.phase = phase, !.loaded = longer]
  <2>1. /\ Save(r, longer, {}) /\ At(r, "save") /\ work.who = "assessor"
        /\ requests' = [requests EXCEPT ![r].phase = phase, ![r].loaded = longer]
        /\ lastSaid' = lastSaid
    BY <1>9 DEF Grant
  <2>2. /\ Changed(work.loaded, longer, now, submissions) /\ work \in Work
        /\ longer.status = work.loaded.status
    BY <2>1, Loaded, ExtendedChanges
  <2>3. phase # "tell"
    OBVIOUS
  <2> HIDE DEF longer, phase
  <2>4. later.phase # "tell" /\ requests' = [requests EXCEPT ![r] = later]
    BY <2>1, <2>2, <2>3 DEF IInv, TypeOK, Work
  <2> HIDE DEF later
  <2>5. raced \subseteq raced' /\ row'.status = row.status
    BY <2>1, <2>2, SavedRow
  <2>6. ~Unsaid(r)
    BY <2>1 DEF Unsaid, At
  <2> QED
    BY <2>1, <2>4, <2>5, <2>6, AgreementReached
<1>10. CASE Warn(r) \/ ExpireDiscuss(r) \/ ExpireNothing(r)
  <2>1. PICK copy : Save(r, copy, {})
    BY <1>10 DEF Warn, ExpireDiscuss, ExpireNothing
  <2>2. End(r) /\ lastSaid' = Nothing
    BY <1>10 DEF Warn, ExpireDiscuss, ExpireNothing
  <2>3. raced \subseteq raced'
    BY <2>1 DEF Save
  <2> QED
    BY <2>2, <2>3, AgreementAtEnd
<1>11. CASE Restore(r)
  <2> DEFINE copy == [work.loaded EXCEPT !.status = work.want]
  <2>1. /\ Save(r, copy, {}) /\ At(r, "restore") /\ GoOnToTell(r)
    BY <1>11 DEF Restore
  <2>2. work.loaded.status # work.want
    BY <2>1 DEF Restores, Reprieved
  <2>3. /\ copy.status = work.want /\ work \in Work
        /\ Changed(work.loaded, copy, now, submissions)
    BY <2>1, Loaded, StatusChanges DEF Rows
  <2> HIDE DEF copy
  <2> QED
    BY <2>1, <2>2, <2>3, SaveTells DEF CommentInv
<1> QED
  BY <1>1, <1>2, <1>3, <1>4, <1>5, <1>6, <1>7, <1>8, <1>9, <1>10, <1>11 DEF Step

LEMMA CommentNext ==
    IInv /\ Restores /\ SaysEngagement /\ CommentInv /\ [Next]_vars => CommentInv'
<1> SUFFICES ASSUME IInv, Restores, SaysEngagement, CommentInv, [Next]_vars
             PROVE  CommentInv'
  OBVIOUS
<1>1. CASE Tick \/ Remark \/ AskExtension \/ Upload \/ UNCHANGED vars
  <2>1. UNCHANGED <<requests, raced>>
    BY <1>1 DEF Tick, Remark, AskExtension, Upload, vars, historyVars
  <2>2. TellsItsSave'
    BY <2>1 DEF CommentInv, TellsItsSave, At, Clear
  <2>3. \A q \in Requests : Unsaid(q) => Unsaid(q)'
    BY <2>1 DEF Unsaid, At
  <2>4. \/ lastSaid' = Nothing \/ lastSaid'[2] = row'.status
        \/ lastSaid' = lastSaid /\ row'.status = row.status
    <3>1. CASE Tick \/ Remark \/ AskExtension \/ UNCHANGED vars
      BY <3>1 DEF Tick, Remark, AskExtension, vars
    <3>2. CASE Upload
      <4>1. PICK want \in UploadTriggers :
                /\ now < MaxNow /\ row' = Tracked(row, Uploaded(want), now)
                /\ lastSaid' = IF ~StudentMay(row) THEN lastSaid
                               ELSE Says(IF Uploaded(want).status = want
                                         THEN "student" ELSE "tutor",
                                         Uploaded(want).status)
        BY <3>2 DEF Upload
      <4>2. Uploaded(want) \in Rows /\ row \in Rows /\ now \in Times
        BY <4>1, UploadChanges, Values DEF Changed
      <4>3. row'.status = Uploaded(want).status
        BY <4>1, <4>2, TrackedCopy
      <4>4. ~StudentMay(row) => Uploaded(want).status = row.status
        BY <4>2 DEF Uploaded, Rows
      <4> QED
        BY <4>1, <4>3, <4>4 DEF Says
    <3> QED
      BY <1>1, <3>1, <3>2
  <2>5. AgreeUnlessUnsaid'
    BY <2>1, <2>3, <2>4 DEF CommentInv, AgreeUnlessUnsaid, Clear
  <2> QED
    BY <2>2, <2>5 DEF CommentInv
<1>2. CASE \E r \in Requests : Step(r)
  BY <1>2, CommentStep
<1> QED
  BY <1>1, <1>2 DEF Next

----------------------------------------------------------------------------
(* The theorems *)

\* A warning on record is about the present stay in discuss, unless a request saved
\* what it decided on an older row.
THEOREM WarningsInPeriod == Spec => []WarnedInPeriod
<1>1. Init => Restores /\ TimeoutInDiscuss /\ WarnedInPeriod
  BY DEF Init, Free, NewRow, Restores, At, TimeoutInDiscuss, WarnedInPeriod
<1> QED
  BY <1>1, InitInv, NextInv, RestoresKeeps, TimeoutKeeps, WarnedNext, PTL DEF Spec

\* Work that waits for feedback was in by its due date and work marked
\* time_exceeded was not, through all extensions and resubmissions, unless an
\* assessor is about to take it back, or staff gave the status, reused late work, or
\* changed an older row.
THEOREM DueDateJudges == Spec => []JudgedByDueDate
<1>1. Init => Restores /\ JudgedUnlessRaced
  BY DEF Init, NewRow, Free, Restores, At, JudgedUnlessRaced, Judged, Reprieved
<1>2. JudgedUnlessRaced => JudgedByDueDate
  BY DEF JudgedUnlessRaced, JudgingRaces, Judged, Reprieved, JudgedByDueDate
<1> QED
  BY <1>1, <1>2, InitInv, NextInv, RestoresKeeps, JudgedNext, PTL DEF Spec

\* With no request under way the last status comment is the task's status, unless
\* a request saved an older row or commented between another's comment and save.
THEOREM LastCommentTrue == Spec => []CommentsAgree
<1>1. Init => Restores /\ SaysEngagement /\ CommentInv
  BY DEF Init, Free, Restores, SaysEngagement, CommentInv, TellsItsSave, AgreeUnlessUnsaid, At
<1>2. CommentInv => CommentsAgree
  BY DEF CommentInv, AgreeUnlessUnsaid, CommentRaces, CommentsAgree, Unsaid, At
<1> QED
  BY <1>1, <1>2, InitInv, NextInv, RestoresKeeps, SayKeeps, CommentNext, PTL DEF Spec
=============================================================================
