-------------------------- MODULE TaskLifecycleProofs --------------------------
(***************************************************************************)
(* What holds of TaskLifecycle for any number of requests, any dates and   *)
(* any statuses asked for, however the requests save over each other.      *)
(***************************************************************************)
EXTENDS TaskLifecycle, TLAPS

----------------------------------------------------------------------------
(* The inductive invariant *)

\* No date is later than the last write.
Dated(c, t) == c.submitted < t /\ c.assessed < t /\ c.completed < t
               /\ c.discussAt < t /\ c.warned < t /\ c.expired < t

\* The submission that waits for its assessment has not been counted.
Waiting(c) == c.submitted # 0 /\ c.assessed < c.submitted
Counted(c, n) == c.times <= n /\ (Waiting(c) => c.times < n)

Bounded(c) == c.extensions # 0 => RawDate(c.extensions) < Deadline + Week

\* What is true of the row and of every copy of it that a request holds.
Sound(c, t, n) == c \in Rows /\ Dated(c, t) /\ Counted(c, n) /\ Bounded(c)

IInv ==
    /\ TypeOK
    /\ Sound(row, now, submissions)
    /\ \A r \in Requests : Sound(requests[r].loaded, now, submissions)
    /\ DiscussTracked

\* How a request may change its copy of the task at time t: it leaves the date
\* it moved to discuss to Tracked, sets dates to t, and counts an assessment
\* only with the date.
Changed(loaded, copy, t, n) ==
    /\ copy \in Rows
    /\ copy.discussAt = loaded.discussAt
    /\ copy.submitted \in {loaded.submitted, t}
    /\ copy.completed \in {loaded.completed, t, 0}
    /\ copy.warned \in {loaded.warned, t} /\ copy.expired \in {loaded.expired, t}
    /\ \/ copy.assessed = loaded.assessed /\ copy.times = loaded.times
       \/ /\ copy.assessed = t
          /\ copy.times <= IF copy.submitted # loaded.submitted THEN n + 1 ELSE n
    /\ loaded.extensions <= copy.extensions /\ Bounded(copy)

----------------------------------------------------------------------------
(* Dates and extensions *)

\* An extension never shortens, and ends less than a week past the deadline.
LEMMA MoreWeeksBounded ==
    ASSUME NEW e \in Nat, NEW w \in Nat
    PROVE  /\ MoreWeeks(e, w) \in Nat
           /\ e <= MoreWeeks(e, w)
           /\ MoreWeeks(e, w) # e => RawDate(MoreWeeks(e, w)) < Deadline + Week
<1> DEFINE q == (RawDate(e) - Deadline) \div Week
           granted == IF w < -q THEN w ELSE -q
<1>1. RawDate(e) \in Int /\ Deadline \in Int /\ Week \in Nat \ {0}
  BY LifecycleAssumption DEF RawDate
<1>2. q \in Int /\ RawDate(e) - Deadline < Week * q + Week
  BY <1>1, SMTT(30)
<1>3. MoreWeeks(e, w) = IF granted > 0 THEN e + granted ELSE e
  BY DEF MoreWeeks, WeeksCanExtend
<1>4. granted \in Int
  BY <1>2
<1>5. ASSUME granted > 0 PROVE RawDate(e + granted) < Deadline + Week
  <2>1. Week * granted <= -(Week * q)
    <3>1. granted + q <= 0
      BY <1>2, <1>4
    <3>2. Week * (granted + q) <= 0
      BY <3>1, <1>1, <1>2, <1>4, SMTT(30)
    <3> QED
      BY <3>2, <1>1, <1>2, <1>4, SMTT(30)
  <2>2. RawDate(e + granted) = RawDate(e) + Week * granted
    BY LifecycleAssumption, <1>4, SMTT(30) DEF RawDate
  <2>3. Week * q \in Int /\ Week * granted \in Int /\ RawDate(e + granted) \in Int
    BY <1>1, <1>2, <1>4, <2>2
  <2> QED
    BY <1>1, <1>2, <2>1, <2>2, <2>3
<1> QED
  BY <1>3, <1>4, <1>5

----------------------------------------------------------------------------
(* What requests do to their copies *)

LEMMA TimePasses ==
    ASSUME NEW c, NEW t \in Nat, NEW u \in Nat, NEW n \in Nat, NEW m \in Nat,
           Sound(c, t, n), t <= u, n <= m
    PROVE  Sound(c, u, m)
BY DEF Sound, Dated, Counted, Waiting, Rows, Times

LEMMA AssessedChanges ==
    ASSUME NEW c, NEW t \in Times \ {0}, NEW n \in Nat, NEW s \in Statuses,
           c \in Rows, Counted(c, n), Bounded(c)
    PROVE  Changed(c, Assessed(c, s, t), t, n)
<1> DEFINE a == Assessed(c, s, t)
<1>1. c \in Rows /\ c.extensions \in Nat /\ ResubmitWeeks \in Nat
  BY LifecycleAssumption DEF Rows
<1>2. a.extensions \in {c.extensions, MoreWeeks(c.extensions, ResubmitWeeks)}
  BY <1>1 DEF Assessed, Rows
<1>3. /\ a.extensions \in Nat /\ c.extensions <= a.extensions /\ Bounded(a)
  <2> HIDE DEF a
  <2>1. /\ MoreWeeks(c.extensions, ResubmitWeeks) \in Nat
        /\ c.extensions <= MoreWeeks(c.extensions, ResubmitWeeks)
        /\ MoreWeeks(c.extensions, ResubmitWeeks) # c.extensions
           => RawDate(MoreWeeks(c.extensions, ResubmitWeeks)) < Deadline + Week
    BY <1>1, MoreWeeksBounded
  <2> QED
    BY <1>1, <1>2, <2>1 DEF Bounded
<1>4. /\ a.status = s /\ a.assessed = t /\ a.completed \in {c.completed, t, 0}
      /\ a.submitted = IF c.submitted = 0 THEN t ELSE c.submitted
      /\ a.times = IF c.assessed = 0 \/ c.assessed < a.submitted
                   THEN c.times + 1 ELSE c.times
      /\ a.discussAt = c.discussAt /\ a.warned = c.warned /\ a.expired = c.expired
  BY <1>1 DEF Assessed, Rows
<1>5. a \in Rows
  <2>1. a = [c EXCEPT !.status = a.status, !.submitted = a.submitted, !.times = a.times,
                      !.assessed = a.assessed, !.completed = a.completed,
                      !.extensions = a.extensions]
    BY <1>1 DEF Assessed, Rows
  <2> HIDE DEF a
  <2>2. /\ a.submitted \in Times /\ a.assessed \in Times /\ a.completed \in Times
        /\ a.times \in Nat /\ a.discussAt \in Times /\ a.warned \in Times
        /\ a.expired \in Times /\ a.status \in Statuses
    BY <1>1, <1>4, LifecycleAssumption DEF Rows, Times
  <2>3. \A status \in Statuses, m \in Nat, e \in Nat, d1, d2, d3 \in Times :
            [c EXCEPT !.status = status, !.submitted = d1, !.times = m,
                      !.assessed = d2, !.completed = d3, !.extensions = e] \in Rows
    BY <1>1 DEF Rows
  <2>4. [c EXCEPT !.status = a.status, !.submitted = a.submitted, !.times = a.times,
                  !.assessed = a.assessed, !.completed = a.completed,
                  !.extensions = a.extensions] \in Rows
    BY <2>2, <2>3, <1>3
  <2> QED
    BY <2>1, <2>4, Zenon
<1>6. a.times <= IF a.submitted # c.submitted THEN n + 1 ELSE n
  <2> HIDE DEF a
  <2> QED
    BY <1>1, <1>4 DEF Counted, Waiting, Rows, Times
<1> QED
  BY <1>1, <1>3, <1>4, <1>5, <1>6 DEF Changed, Rows, Times

\* Only the extensions change.
LEMMA ExtendedChanges ==
    ASSUME NEW c, NEW t \in Times, NEW n \in Nat, NEW w \in Nat, Sound(c, t, n)
    PROVE  /\ Changed(c, Extended(c, w), t, n)
           /\ Sound(Extended(c, w), t, n)
           /\ Extended(c, w).status = c.status /\ Extended(c, w).warned = c.warned
           /\ Extended(c, w).submitted = c.submitted
           /\ c.extensions <= Extended(c, w).extensions
<1> DEFINE a == Extended(c, w)
           more == MoreWeeks(c.extensions, w)
<1>1. c \in Rows /\ c.extensions \in Nat
  BY DEF Sound, Rows
<1>2. /\ more \in Nat /\ c.extensions <= more
      /\ more # c.extensions => RawDate(more) < Deadline + Week
  BY <1>1, MoreWeeksBounded
<1>3. a = [c EXCEPT !.extensions = more]
  BY <1>1 DEF Extended, Rows
<1> HIDE DEF a, more
<1>4. /\ a \in Rows /\ a.extensions = more /\ a.status = c.status
      /\ a.submitted = c.submitted /\ a.assessed = c.assessed /\ a.times = c.times
      /\ a.completed = c.completed /\ a.discussAt = c.discussAt
      /\ a.warned = c.warned /\ a.expired = c.expired
  BY <1>1, <1>2, <1>3 DEF Rows
<1>5. Bounded(a)
  BY <1>2, <1>4 DEF Sound, Bounded
<1>6. Changed(c, a, t, n)
  BY <1>2, <1>4, <1>5 DEF Changed
<1>7. Sound(a, t, n)
  BY <1>4, <1>5 DEF Sound, Dated, Counted, Waiting
<1> QED
  BY <1>2, <1>4, <1>6, <1>7 DEF a

\* A change of the status alone, or of the dates of the discuss timeout.
LEMMA StatusChanges ==
    ASSUME NEW c, NEW t \in Times, NEW n \in Nat, NEW s \in Statuses, Sound(c, t, n)
    PROVE  /\ Changed(c, [c EXCEPT !.status = s], t, n)
           /\ Changed(c, [c EXCEPT !.warned = t], t, n)
           /\ Changed(c, [c EXCEPT !.expired = t], t, n)
BY DEF Sound, Changed, Rows, Bounded

----------------------------------------------------------------------------
(* What a save makes of the row *)

\* The row has the columns of the copy that differ from what was loaded.
Merged(loaded, copy) ==
    /\ row'.status = IF copy.status # loaded.status THEN copy.status ELSE row.status
    /\ row'.submitted = IF copy.submitted # loaded.submitted THEN copy.submitted ELSE row.submitted
    /\ row'.assessed = IF copy.assessed # loaded.assessed THEN copy.assessed ELSE row.assessed
    /\ row'.completed = IF copy.completed # loaded.completed THEN copy.completed ELSE row.completed
    /\ row'.times = IF copy.times # loaded.times THEN copy.times ELSE row.times
    /\ row'.extensions = IF copy.extensions # loaded.extensions THEN copy.extensions ELSE row.extensions
    /\ row'.discussAt = IF copy.discussAt # loaded.discussAt THEN copy.discussAt ELSE row.discussAt
    /\ row'.warned = IF copy.warned # loaded.warned THEN copy.warned ELSE row.warned
    /\ row'.expired = IF copy.expired # loaded.expired THEN copy.expired ELSE row.expired

LEMMA SavedColumns ==
    ASSUME NEW loaded \in Rows, NEW copy \in Rows, row \in Rows,
           SaveChanges(loaded, copy)
    PROVE  row' \in Rows /\ Merged(loaded, copy)
BY DEF SaveChanges, Rows, Merged

LEMMA TrackedCopy ==
    ASSUME NEW loaded \in Rows, NEW copy \in Rows, NEW t \in Times
    PROVE  LET tracked == Tracked(loaded, copy, t)
           IN /\ tracked \in Rows
              /\ tracked.status = copy.status /\ tracked.submitted = copy.submitted
              /\ tracked.assessed = copy.assessed /\ tracked.completed = copy.completed
              /\ tracked.times = copy.times /\ tracked.extensions = copy.extensions
              /\ tracked.warned \in {copy.warned, 0} /\ tracked.expired \in {copy.expired, 0}
              /\ tracked.discussAt =
                     IF copy.status = loaded.status THEN copy.discussAt
                     ELSE IF copy.status = "discuss" THEN t ELSE 0
<1>1. 0 \in Times
  BY LifecycleAssumption DEF Times
<1> QED
  BY <1>1 DEF Tracked, Rows

\* A sound change of a sound copy leaves a sound row, whatever the row was changed
\* to since the copy was loaded.
LEMMA MergeSound ==
    ASSUME IInv, now \in Times, submissions \in Nat,
           NEW loaded, Sound(loaded, now, submissions),
           NEW copy, Changed(loaded, copy, now, submissions),
           row' \in Rows, Merged(loaded, Tracked(loaded, copy, now)),
           now' = now + 1,
           submissions' = IF copy.submitted # loaded.submitted
                          THEN submissions + 1 ELSE submissions
    PROVE  Sound(row', now', submissions') /\ DiscussTracked'
<1> DEFINE tracked == Tracked(loaded, copy, now)
<1>1. /\ loaded \in Rows /\ copy \in Rows /\ row \in Rows /\ now \in Nat \ {0}
  BY DEF IInv, TypeOK, Sound, Changed, Times
<1>2. /\ tracked.status = copy.status /\ tracked.submitted = copy.submitted
      /\ tracked.assessed = copy.assessed /\ tracked.completed = copy.completed
      /\ tracked.times = copy.times /\ tracked.extensions = copy.extensions
      /\ tracked.warned \in {copy.warned, 0} /\ tracked.expired \in {copy.expired, 0}
      /\ tracked.discussAt =
             IF copy.status = loaded.status THEN copy.discussAt
             ELSE IF copy.status = "discuss" THEN now ELSE 0
  BY <1>1, TrackedCopy
<1> HIDE DEF tracked
<1>3. Merged(loaded, tracked)
  BY DEF tracked
<1>4. Dated(row, now) /\ Dated(loaded, now)
  BY DEF IInv, Sound
<1>5. Dated(row', now')
  <2>1. row'.submitted <= now /\ row'.assessed <= now /\ row'.completed <= now
    BY <1>1, <1>2, <1>3, <1>4 DEF Merged, Dated, Changed, Rows, Times
  <2>2. row'.warned <= now /\ row'.expired <= now /\ row'.discussAt <= now
    BY <1>1, <1>2, <1>3, <1>4 DEF Merged, Dated, Changed, Rows, Times
  <2> QED
    BY <2>1, <2>2, <1>1 DEF Dated, Rows, Times
<1>6. Counted(row', submissions')
  <2>1. Counted(row, submissions) /\ Counted(loaded, submissions)
    BY DEF IInv, Sound
  <2>2. CASE copy.assessed = loaded.assessed /\ copy.times = loaded.times
    BY <1>1, <1>2, <1>3, <1>4, <2>1, <2>2
       DEF Merged, Dated, Changed, Counted, Waiting, Rows, Times
  <2>3. CASE /\ copy.assessed = now
             /\ copy.times <= IF copy.submitted # loaded.submitted
                              THEN submissions + 1 ELSE submissions
    <3>1. row'.assessed = now /\ row'.submitted <= now
      BY <1>1, <1>2, <1>3, <1>4, <2>3 DEF Merged, Dated, Changed, Rows, Times
    <3>2. row'.times <= submissions'
      BY <1>1, <1>2, <1>3, <2>1, <2>3 DEF Merged, Counted, Rows, Times
    <3> QED
      BY <3>1, <3>2, <1>1 DEF Counted, Waiting, Rows, Times
  <2> QED
    BY <2>2, <2>3 DEF Changed
<1>7. Bounded(row')
  BY <1>2, <1>3 DEF Merged, IInv, Sound, Changed, Bounded
<1>8. row'.status = "discuss" => row'.discussAt # 0
  BY <1>1, <1>2, <1>3, <1>4 DEF Merged, IInv, DiscussTracked, Dated, Changed, Rows, Times
<1> QED
  BY <1>5, <1>6, <1>7, <1>8 DEF Sound, DiscussTracked

LEMMA SaveSound ==
    ASSUME IInv, NEW r \in Requests, requests[r] \in Work,
           NEW copy, Changed(requests[r].loaded, copy, now, submissions),
           NEW races \in SUBSET Races, Save(r, copy, races)
    PROVE  /\ row' \in Rows /\ now' \in Times \ {0} /\ now <= now'
           /\ submissions' \in Nat /\ submissions <= submissions'
           /\ promised' \in Nat /\ raced' \subseteq Races
           /\ Sound(row', now', submissions') /\ DiscussTracked'
<1> DEFINE loaded == requests[r].loaded
           tracked == Tracked(loaded, copy, now)
<1>1. /\ loaded \in Rows /\ copy \in Rows /\ row \in Rows /\ now \in Times \ {0}
      /\ submissions \in Nat /\ promised \in Nat /\ raced \subseteq Races
      /\ requests[r].who \in Actors /\ Sound(loaded, now, submissions)
  BY DEF IInv, TypeOK, Work, Changed
<1>2. tracked \in Rows
  BY <1>1, TrackedCopy
<1>3. SaveChanges(loaded, tracked)
  BY DEF Save
<1>4. row' \in Rows /\ Merged(loaded, tracked)
  <2> HIDE DEF loaded, tracked
  <2> QED
    BY <1>1, <1>2, <1>3, SavedColumns
<1>5. /\ now < MaxNow /\ now' = now + 1
      /\ submissions' = IF copy.submitted # loaded.submitted
                        THEN submissions + 1 ELSE submissions
      /\ promised' = promised + copy.extensions - loaded.extensions
      /\ raced' \subseteq raced \union races \union {requests[r].who}
  BY DEF Save
<1>6. loaded.extensions \in Nat /\ copy.extensions \in Nat
      /\ loaded.extensions <= copy.extensions
  BY <1>1 DEF Rows, Changed
<1>7. promised' \in Nat
  BY <1>1, <1>5, <1>6
<1>8. now' \in Times \ {0} /\ now <= now'
  BY <1>1, <1>5, LifecycleAssumption DEF Times
<1>9. raced' \subseteq Races
  BY <1>1, <1>5 DEF Races
<1>10. Sound(row', now', submissions') /\ DiscussTracked'
  BY <1>1, <1>4, <1>5, MergeSound
<1> QED
  BY <1>1, <1>4, <1>5, <1>7, <1>8, <1>9, <1>10

----------------------------------------------------------------------------
(* What the steps make of the requests *)

RequestsSound(t, n) ==
    /\ requests' \in [Requests -> Work \union {Free}]
    /\ \A r \in Requests : Sound(requests'[r].loaded, t, n)

LEMMA NewRowSound ==
    ASSUME NEW t \in Nat \ {0}, NEW n \in Nat
    PROVE  Sound(NewRow, t, n)
BY LifecycleAssumption DEF Sound, NewRow, Rows, Statuses, Times, Dated, Counted,
                           Waiting, Bounded

LEMMA RequestsKeep ==
    ASSUME IInv, NEW t \in Nat, NEW n \in Nat, now <= t, submissions <= n,
           UNCHANGED requests
    PROVE  RequestsSound(t, n)
<1>1. now \in Nat /\ submissions \in Nat
  BY DEF IInv, TypeOK, Times
<1> QED
  BY <1>1, TimePasses DEF IInv, TypeOK, RequestsSound

\* One request changes; its new copy is sound.
LEMMA RequestChanges ==
    ASSUME IInv, NEW t \in Nat, NEW n \in Nat, now <= t, submissions <= n,
           NEW r \in Requests, NEW work \in Work \union {Free},
           Sound(work.loaded, t, n), requests' = [requests EXCEPT ![r] = work]
    PROVE  RequestsSound(t, n)
<1>1. /\ now \in Nat /\ submissions \in Nat
      /\ requests \in [Requests -> Work \union {Free}]
  BY DEF IInv, TypeOK, Times
<1>2. requests' \in [Requests -> Work \union {Free}]
  BY <1>1
<1>3. ASSUME NEW q \in Requests PROVE Sound(requests'[q].loaded, t, n)
  <2>1. CASE q = r
    BY <1>1, <2>1
  <2>2. CASE q # r
    <3>1. requests'[q] = requests[q]
      BY <1>1, <2>2
    <3>2. Sound(requests[q].loaded, now, submissions)
      BY DEF IInv
    <3> QED
      BY <1>1, <3>1, <3>2, TimePasses
  <2> QED
    BY <2>1, <2>2
<1> QED
  BY <1>2, <1>3 DEF RequestsSound

LEMMA Working ==
    ASSUME IInv, NEW r \in Requests, ~At(r, "idle")
    PROVE  requests[r] \in Work
BY DEF IInv, TypeOK, At, Free

LEMMA EndKeeps ==
    ASSUME IInv, NEW t \in Nat \ {0}, NEW n \in Nat, now <= t, submissions <= n,
           NEW r \in Requests, End(r)
    PROVE  RequestsSound(t, n)
<1>1. Free.loaded = NewRow /\ Free \in Work \union {Free}
  BY DEF Free
<1> QED
  BY <1>1, NewRowSound, RequestChanges DEF End

LEMMA GoOnKeeps ==
    ASSUME IInv, NEW t \in Nat \ {0}, NEW n \in Nat, now <= t, submissions <= n,
           NEW r \in Requests, requests[r] \in Work, row' \in Rows, Sound(row', t, n),
           GoOnToTell(r)
    PROVE  RequestsSound(t, n)
<1> DEFINE work == [requests[r] EXCEPT !.phase = "tell", !.loaded = row']
<1>1. requests \in [Requests -> Work \union {Free}]
  BY DEF IInv, TypeOK
<1>2. work \in Work /\ work.loaded = row'
  BY DEF Work
<1>3. requests' = [requests EXCEPT ![r] = work]
  BY <1>1 DEF GoOnToTell
<1> HIDE DEF work
<1> QED
  BY <1>2, <1>3, RequestChanges

\* The invariant follows from its parts after a step.
LEMMA Together ==
    ASSUME /\ row' \in Rows /\ now' \in Times \ {0}
           /\ submissions' \in Nat /\ promised' \in Nat /\ raced' \subseteq Races
           /\ lastSaid' \in {Nothing} \union {"student", "tutor"} \X Statuses
           /\ asked' \in Nat,
           Sound(row', now', submissions'), DiscussTracked',
           RequestsSound(now', submissions')
    PROVE  IInv'
BY DEF IInv, TypeOK, RequestsSound

----------------------------------------------------------------------------
(* The steps *)

LEMMA UploadChanges ==
    ASSUME IInv, now < MaxNow, NEW want \in UploadTriggers
    PROVE  Changed(row, Uploaded(want), now, submissions)
<1> DEFINE dated == IF row.status # "ready_for_feedback" \/ row.submitted = 0
                    THEN [row EXCEPT !.submitted = now] ELSE row
           sent == IF dated.status # "ready_for_feedback" \/ dated.submitted = 0
                   THEN [dated EXCEPT !.submitted = now] ELSE dated
<1>1. /\ row \in Rows /\ now \in Times \ {0} /\ submissions \in Nat
      /\ Sound(row, now, submissions) /\ now # 0 /\ now \in Nat
  BY DEF IInv, TypeOK, Times
<1>2. /\ dated \in Rows /\ dated = [row EXCEPT !.submitted = dated.submitted]
      /\ dated.submitted \in {row.submitted, now}
  BY <1>1 DEF Rows
<1>3. sent = dated
  BY <1>1, <1>2 DEF Rows
<1>4. Changed(row, dated, now, submissions)
  BY <1>1, <1>2 DEF Changed, Sound, Bounded, Rows
<1>5. ASSUME NEW s \in Statuses
      PROVE  Changed(row, [dated EXCEPT !.status = s], now, submissions)
  BY <1>1, <1>2, <1>4 DEF Changed, Bounded, Rows
<1>6. CASE ~StudentMay(row)
  BY <1>4, <1>6 DEF Uploaded
<1>7. CASE StudentMay(row) /\ want # "ready_for_feedback"
  <2>1. want \in Statuses
    BY LifecycleAssumption DEF Statuses
  <2> QED
    BY <1>5, <1>7, <2>1 DEF Uploaded
<1>8. CASE StudentMay(row) /\ want = "ready_for_feedback"
  <2>1. Uploaded(want) = Submitted(dated, now)
    BY <1>8 DEF Uploaded
  <2>2. CASE InTime(sent) \/ sent.status = "ready_for_feedback"
    <3>1. Submitted(dated, now) = [dated EXCEPT !.status = "ready_for_feedback"]
      BY <2>2, <1>3 DEF Submitted
    <3>2. "ready_for_feedback" \in Statuses
      BY DEF Statuses
    <3> QED
      BY <2>1, <3>1, <3>2, <1>5
  <2>3. CASE ~(InTime(sent) \/ sent.status = "ready_for_feedback")
    <3>1. Submitted(dated, now) = Assessed(dated, LateStatus, now)
      BY <2>3, <1>3 DEF Submitted
    <3>2. LateStatus \in Statuses
      BY DEF LateStatus, Statuses
    <3>3. dated.submitted = now /\ dated.submitted # row.submitted
      BY <2>3, <1>1, <1>2, <1>3 DEF Sound, Dated, Rows, Times
    <3>4. Counted(dated, submissions + 1) /\ Bounded(dated)
      BY <1>1, <1>2, <3>3 DEF Sound, Counted, Waiting, Bounded, Rows, Times
    <3> DEFINE late == Assessed(dated, LateStatus, now)
    <3>5. Changed(dated, late, now, submissions + 1)
      BY <3>2, <3>4, <1>1, <1>2, AssessedChanges
    <3>6. /\ dated.discussAt = row.discussAt /\ dated.completed = row.completed
          /\ dated.warned = row.warned /\ dated.expired = row.expired
          /\ dated.extensions = row.extensions /\ dated.assessed = row.assessed
          /\ dated.times = row.times
      BY <1>1, <1>2 DEF Rows
    <3>7. late.submitted = now /\ late.assessed = now /\ late.times <= submissions + 1
      <4>1. late.submitted = dated.submitted /\ late.assessed = now
        BY <1>1, <1>2, <3>3 DEF Assessed, Rows
      <4> HIDE DEF late
      <4> QED
        BY <4>1, <3>3, <3>5, <3>6, <1>1, <1>2 DEF Changed, Sound, Counted, Rows, Times
    <3>8. Changed(row, late, now, submissions)
      <4> HIDE DEF late, dated
      <4> QED
        BY <3>3, <3>5, <3>6, <3>7, <1>1 DEF Changed
    <3> QED
      BY <2>1, <3>1, <3>8
  <2> QED
    BY <2>2, <2>3
<1> QED
  BY <1>6, <1>7, <1>8

LastSaids == {Nothing} \union {"student", "tutor"} \X Statuses

\* A request goes on with a sound copy of the task that it has saved.
GoesOnWith(r, copy) ==
    /\ Sound(copy, now, submissions)
    /\ \E phase \in {"restore", "answer"} :
           requests' = [requests EXCEPT ![r].phase = phase, ![r].loaded = copy]

LEMMA GoesOnKeeps ==
    ASSUME IInv, NEW t \in Nat \ {0}, NEW n \in Nat, now <= t, submissions <= n,
           NEW r \in Requests, requests[r] \in Work, NEW copy, GoesOnWith(r, copy)
    PROVE  RequestsSound(t, n)
<1>1. PICK phase \in {"restore", "answer"} :
          requests' = [requests EXCEPT ![r].phase = phase, ![r].loaded = copy]
  BY DEF GoesOnWith
<1> DEFINE work == [requests[r] EXCEPT !.phase = phase, !.loaded = copy]
<1>2. /\ requests \in [Requests -> Work \union {Free}] /\ copy \in Rows
      /\ now \in Nat /\ submissions \in Nat
  BY DEF IInv, TypeOK, Times, GoesOnWith, Sound
<1>3. work \in Work /\ work.loaded = copy
  BY <1>2 DEF Work
<1>4. requests' = [requests EXCEPT ![r] = work]
  BY <1>1, <1>2
<1> HIDE DEF work
<1>5. Sound(copy, t, n)
  BY <1>2, TimePasses DEF GoesOnWith
<1> QED
  BY <1>3, <1>4, <1>5, RequestChanges

\* A request saves a sound change and ends, goes on to tell of it, or goes on.
LEMMA SaveKeeps ==
    ASSUME IInv, NEW r \in Requests, requests[r] \in Work,
           NEW copy, Changed(requests[r].loaded, copy, now, submissions),
           NEW races \in SUBSET Races, Save(r, copy, races),
           End(r) \/ GoOnToTell(r) \/ GoesOnWith(r, copy),
           lastSaid' \in LastSaids, asked' \in Nat
    PROVE  IInv'
<1>1. /\ row' \in Rows /\ now' \in Times \ {0} /\ now <= now'
      /\ submissions' \in Nat /\ submissions <= submissions'
      /\ promised' \in Nat /\ raced' \subseteq Races
      /\ Sound(row', now', submissions') /\ DiscussTracked'
  BY SaveSound
<1>2. now' \in Nat \ {0}
  BY <1>1 DEF Times
<1>3. RequestsSound(now', submissions')
  BY <1>1, <1>2, EndKeeps, GoOnKeeps, GoesOnKeeps
<1> QED
  BY <1>1, <1>3, Together DEF LastSaids

\* The row stays as it is.
LEMMA RowKeeps ==
    ASSUME IInv, UNCHANGED <<row, submissions, promised>>,
           now' \in Times, now <= now', raced' \subseteq Races,
           lastSaid' \in LastSaids, asked' \in Nat,
           RequestsSound(now', submissions')
    PROVE  IInv'
<1>1. /\ now \in Nat \ {0} /\ now' \in Nat \ {0} /\ submissions \in Nat
      /\ row' \in Rows /\ promised' \in Nat
      /\ Sound(row, now, submissions)
  BY DEF IInv, TypeOK, Times
<1>2. Sound(row', now', submissions')
  BY <1>1, TimePasses
<1>3. DiscussTracked'
  BY DEF IInv, DiscussTracked
<1> QED
  BY <1>1, <1>2, <1>3, Together DEF LastSaids

LEMMA StartKeeps ==
    ASSUME IInv, NEW r \in Requests, NEW who \in Actors, NEW want \in Statuses,
           NEW phase \in {"say", "save"}, Start(r, who, want, phase)
    PROVE  IInv'
<1> DEFINE work == [who |-> who, want |-> want,
                    weeks |-> IF who = "assessor" THEN asked ELSE 0,
                    phase |-> phase, loaded |-> row]
<1>1. /\ row \in Rows /\ asked \in Nat /\ now \in Times \ {0} /\ now \in Nat
      /\ submissions \in Nat /\ raced \subseteq Races /\ lastSaid \in LastSaids
      /\ Sound(row, now, submissions)
  BY DEF IInv, TypeOK, LastSaids, Times
<1>2. work \in Work /\ work.loaded = row
  BY <1>1 DEF Work
<1>3. /\ requests' = [requests EXCEPT ![r] = work]
      /\ UNCHANGED <<row, lastSaid, asked, now, submissions, promised, raced>>
  BY DEF Start, historyVars
<1> HIDE DEF work
<1>4. RequestsSound(now, submissions)
  <2>1. now <= now /\ submissions <= submissions /\ work \in Work \union {Free}
        /\ Sound(work.loaded, now, submissions)
    BY <1>1, <1>2
  <2> QED
    BY <1>1, <1>3, <2>1, RequestChanges
<1> QED
  BY <1>1, <1>3, <1>4, RowKeeps

\* A request ends, or only its phase changes, and the row stays.
LEMMA LeaveKeeps ==
    ASSUME IInv, NEW r \in Requests, ~At(r, "idle"),
           NEW phase \in {"save", "answer"}, End(r) \/ Continue(r, phase),
           UNCHANGED <<row, now, submissions, promised>>,
           raced' \subseteq Races, lastSaid' \in LastSaids, asked' \in Nat
    PROVE  IInv'
<1>1. /\ now \in Times \ {0} /\ now \in Nat \ {0} /\ submissions \in Nat
      /\ requests \in [Requests -> Work \union {Free}]
      /\ Sound(requests[r].loaded, now, submissions)
  BY DEF IInv, TypeOK, Times
<1>2. CASE End(r)
  <2>1. RequestsSound(now, submissions)
    BY <1>1, <1>2, EndKeeps
  <2> QED
    BY <1>1, <2>1, RowKeeps
<1>3. CASE Continue(r, phase)
  <2> DEFINE work == [requests[r] EXCEPT !.phase = phase]
  <2>1. work \in Work /\ work.loaded = requests[r].loaded
    BY Working DEF Work
  <2>2. requests' = [requests EXCEPT ![r] = work]
    BY <1>1, <1>3 DEF Continue
  <2> HIDE DEF work
  <2>3. RequestsSound(now, submissions)
    <3>1. now <= now /\ submissions <= submissions /\ work \in Work \union {Free}
          /\ Sound(work.loaded, now, submissions)
      BY <1>1, <2>1
    <3> QED
      BY <1>1, <2>2, <3>1, RequestChanges
  <2> QED
    BY <1>1, <2>3, RowKeeps
<1> QED
  BY <1>2, <1>3

LEMMA InitInv == Init => IInv
<1> SUFFICES ASSUME Init PROVE IInv
  OBVIOUS
<1>1. row = NewRow /\ now = 1 /\ submissions = 0
      /\ requests = [r \in Requests |-> Free] /\ Free.loaded = NewRow
  BY DEF Init, Free
<1>2. Sound(NewRow, now, submissions)
  BY <1>1, NewRowSound
<1>3. TypeOK
  BY <1>1, <1>2, LifecycleAssumption DEF Init, TypeOK, Sound, Times, Nothing, Races
<1>4. DiscussTracked
  BY <1>1 DEF DiscussTracked, NewRow
<1> QED
  BY <1>1, <1>2, <1>3, <1>4 DEF IInv

LEMMA Values ==
    ASSUME IInv
    PROVE  /\ row \in Rows /\ lastSaid \in LastSaids /\ Nothing \in LastSaids
           /\ asked \in Nat /\ 0 \in Nat /\ now \in Times \ {0} /\ now \in Times
           /\ now \in Nat /\ submissions \in Nat /\ promised \in Nat
           /\ raced \subseteq Races
           /\ \A s \in Statuses : Says("tutor", s) \in LastSaids
                                  /\ Says("student", s) \in LastSaids
           /\ Statuses # {} /\ "not_started" \in Statuses
           /\ "ready_for_feedback" \in Statuses /\ "fix_and_resubmit" \in Statuses
BY DEF IInv, TypeOK, LastSaids, Says, Times, Statuses

\* What the requests that save have in hand.
LEMMA Loaded ==
    ASSUME IInv, NEW r \in Requests,
           \/ At(r, "say") \/ At(r, "save") \/ At(r, "restore")
           \/ At(r, "tell") \/ At(r, "answer")
    PROVE  /\ requests[r] \in Work /\ ~At(r, "idle")
           /\ requests[r].who \in Actors /\ requests[r].want \in Statuses
           /\ requests[r].weeks \in Nat /\ requests[r].loaded \in Rows
           /\ Sound(requests[r].loaded, now, submissions)
           /\ Counted(requests[r].loaded, submissions) /\ Bounded(requests[r].loaded)
<1>1. ~At(r, "idle")
  BY DEF At
<1>2. requests[r] \in Work
  BY <1>1, Working
<1>3. Sound(requests[r].loaded, now, submissions)
  BY DEF IInv
<1> QED
  BY <1>1, <1>2, <1>3 DEF Work, Sound

LEMMA StepInv ==
    ASSUME IInv, NEW r \in Requests, Step(r)
    PROVE  IInv'
<1> DEFINE work == requests[r]
<1> USE Values
<1>1. CASE StudentAsks(r)
  <2>1. PICK want \in StudentTriggers : Start(r, "student", want, "say")
    BY <1>1 DEF StudentAsks
  <2> QED
    BY <2>1, StartKeeps, LifecycleAssumption DEF Actors, Statuses
<1>2. CASE TutorAsks(r)
  <2>1. PICK want \in StaffTriggers, phase \in {"say", "save"} : Start(r, "tutor", want, phase)
    BY <1>2 DEF TutorAsks
  <2> QED
    BY <2>1, StartKeeps, LifecycleAssumption DEF Actors
<1>3. CASE TutorReuses(r)
  BY <1>3, StartKeeps DEF TutorReuses, Actors
<1>4. CASE SayEngaged(r)
  <2>1. /\ work.want \in Statuses /\ ~At(r, "idle") /\ work.who \in {"student", "tutor"}
        /\ Continue(r, "save") /\ lastSaid' = Says(work.who, work.want)
        /\ UNCHANGED <<row, asked, now, submissions, promised, raced>>
    BY <1>4, Loaded DEF SayEngaged, Comment, historyVars
  <2>2. lastSaid' \in LastSaids
    BY <2>1
  <2> QED
    BY <2>1, <2>2, LeaveKeeps
<1>5. CASE Engage(r)
  <2>1. PICK races \in {{}, {"crossed"}} :
            Save(r, [work.loaded EXCEPT !.status = work.want], races)
    BY <1>5 DEF Engage
  <2>2. races \in SUBSET Races /\ UNCHANGED <<lastSaid, asked>> /\ End(r) /\ At(r, "save")
    BY <1>5 DEF Engage, Races
  <2> QED
    BY <2>1, <2>2, Loaded, StatusChanges, SaveKeeps
<1>6. CASE Reuse(r)
  <2>1. /\ Save(r, [work.loaded EXCEPT !.status = work.want], {"reused"})
        /\ lastSaid' = Says("tutor", work.want) /\ asked' = asked
        /\ End(r) /\ At(r, "save") /\ {"reused"} \in SUBSET Races
    BY <1>6 DEF Reuse, Races
  <2> QED
    BY <2>1, Loaded, StatusChanges, SaveKeeps
<1>7. CASE Assess(r)
  <2>1. PICK races \in {{}, {"staff_verdict"}} :
            Save(r, Assessed(work.loaded, work.want, now), races)
    BY <1>7 DEF Assess
  <2>2. races \in SUBSET Races /\ UNCHANGED <<lastSaid, asked>> /\ GoOnToTell(r)
        /\ At(r, "save")
    BY <1>7 DEF Assess, Assessing, Races
  <2> QED
    BY <2>1, <2>2, Loaded, AssessedChanges, SaveKeeps
<1>8. CASE Repeat(r)
  BY <1>8, Loaded, LeaveKeeps DEF Repeat, Assessing, historyVars
<1>9. CASE Tell(r)
  <2>1. raced' \subseteq Races
    BY <1>9 DEF Tell, Races
  <2>2. lastSaid' = Says("tutor", work.want) /\ At(r, "tell")
        /\ (End(r) \/ Continue(r, "answer"))
        /\ UNCHANGED <<row, asked, now, submissions, promised>>
    BY <1>9 DEF Tell
  <2> QED
    BY <2>1, <2>2, Loaded, LeaveKeeps
<1>10. CASE AssessorOpens(r)
  BY <1>10, StartKeeps DEF AssessorOpens, Actors
<1>11. CASE Grant(r)
  <2> DEFINE longer == Extended(work.loaded, work.weeks)
             phase == IF LateNoMore(work.loaded, longer) THEN "restore" ELSE "answer"
  <2>1. /\ Save(r, longer, {}) /\ {} \in SUBSET Races /\ At(r, "save")
        /\ requests' = [requests EXCEPT ![r].phase = phase, ![r].loaded = longer]
        /\ UNCHANGED <<lastSaid, asked>>
    BY <1>11 DEF Grant
  <2>2. /\ Changed(work.loaded, longer, now, submissions)
        /\ Sound(longer, now, submissions)
    BY <2>1, Loaded, ExtendedChanges
  <2>3. phase \in {"restore", "answer"}
    OBVIOUS
  <2> HIDE DEF longer, phase
  <2>4. GoesOnWith(r, longer)
    BY <2>1, <2>2, <2>3 DEF GoesOnWith
  <2> QED
    BY <2>1, <2>2, <2>4, Loaded, SaveKeeps
<1>12. CASE Reject(r)
  BY <1>12, Loaded, LeaveKeeps DEF Reject, historyVars
<1>13. CASE OverseerBegins(r)
  <2>1. PICK want \in OverseerResults : Start(r, "overseer", want, "save")
    BY <1>13 DEF OverseerBegins
  <2> QED
    BY <2>1, StartKeeps, LifecycleAssumption DEF Actors
<1>14. CASE OverseerSets(r)
  <2>1. /\ Save(r, [work.loaded EXCEPT !.status = work.want], {"staff_verdict"})
        /\ UNCHANGED <<lastSaid, asked>> /\ GoOnToTell(r) /\ At(r, "save")
        /\ {"staff_verdict"} \in SUBSET Races
    BY <1>14 DEF OverseerSets, Races
  <2> QED
    BY <2>1, Loaded, StatusChanges, SaveKeeps
<1>15. CASE TimeoutLoads(r)
  BY <1>15, StartKeeps DEF TimeoutLoads, Actors
<1>16. CASE Warn(r)
  <2>1. /\ Save(r, [work.loaded EXCEPT !.warned = now], {}) /\ {} \in SUBSET Races
        /\ lastSaid' = Nothing /\ asked' = asked /\ End(r) /\ At(r, "save")
    BY <1>16 DEF Warn
  <2> QED
    BY <2>1, Loaded, StatusChanges, SaveKeeps
<1>17. CASE ExpireDiscuss(r)
  <2>1. /\ Save(r, Assessed(work.loaded, "fix_and_resubmit", now), {})
        /\ {} \in SUBSET Races
        /\ lastSaid' = Nothing /\ asked' = asked /\ End(r) /\ At(r, "save")
    BY <1>17 DEF ExpireDiscuss
  <2> QED
    BY <2>1, Loaded, AssessedChanges, SaveKeeps
<1>18. CASE ExpireNothing(r)
  <2>1. /\ Save(r, [work.loaded EXCEPT !.expired = now], {}) /\ {} \in SUBSET Races
        /\ lastSaid' = Nothing /\ asked' = asked /\ End(r) /\ At(r, "save")
    BY <1>18 DEF ExpireNothing
  <2> QED
    BY <2>1, Loaded, StatusChanges, SaveKeeps
<1>19. CASE LeaveDiscuss(r)
  BY <1>19, Loaded, LeaveKeeps DEF LeaveDiscuss, historyVars
<1>20. CASE Restore(r)
  <2>1. /\ Save(r, [work.loaded EXCEPT !.status = work.want], {}) /\ {} \in SUBSET Races
        /\ UNCHANGED <<lastSaid, asked>> /\ GoOnToTell(r) /\ At(r, "restore")
    BY <1>20 DEF Restore
  <2> QED
    BY <2>1, Loaded, StatusChanges, SaveKeeps
<1>21. CASE Answer(r)
  BY <1>21, Loaded, LeaveKeeps DEF Answer, historyVars
<1> QED
  BY <1>1, <1>2, <1>3, <1>4, <1>5, <1>6, <1>7, <1>8, <1>9, <1>10, <1>11, <1>12,
     <1>13, <1>14, <1>15, <1>16, <1>17, <1>18, <1>19, <1>20, <1>21 DEF Step

LEMMA UploadInv ==
    ASSUME IInv, Upload
    PROVE  IInv'
<1> USE Values
<1>1. PICK want \in UploadTriggers :
        LET sent == Uploaded(want)
        IN /\ now < MaxNow /\ now' = now + 1
           /\ row' = Tracked(row, sent, now)
           /\ lastSaid' = IF ~StudentMay(row) THEN lastSaid
                          ELSE Says(IF sent.status = want THEN "student" ELSE "tutor",
                                    sent.status)
           /\ submissions' = IF sent.submitted # row.submitted
                             THEN submissions + 1 ELSE submissions
           /\ UNCHANGED <<asked, requests, promised, raced>>
  BY DEF Upload
<1> DEFINE sent == Uploaded(want)
<1>2. Changed(row, sent, now, submissions)
  BY <1>1, UploadChanges
<1>3. sent \in Rows /\ sent.status \in Statuses
  BY <1>2 DEF Changed, Rows
<1>4. lastSaid' \in LastSaids
  BY <1>1, <1>3
<1>5. row' \in Rows
  BY <1>1, <1>3, TrackedCopy
<1>6. Merged(row, Tracked(row, sent, now))
  BY <1>1, <1>3, TrackedCopy DEF Merged
<1>7. /\ now < MaxNow /\ now' = now + 1
      /\ submissions' = IF sent.submitted # row.submitted
                        THEN submissions + 1 ELSE submissions
      /\ UNCHANGED <<asked, requests, promised, raced>>
  BY <1>1
<1> HIDE DEF sent
<1>8. Sound(row, now, submissions)
  BY DEF IInv
<1>9. Sound(row', now', submissions') /\ DiscussTracked'
  BY <1>2, <1>5, <1>6, <1>7, <1>8, MergeSound
<1>10. /\ now' \in Times \ {0} /\ now' \in Nat /\ now <= now'
       /\ submissions' \in Nat /\ submissions <= submissions'
  BY <1>7, LifecycleAssumption DEF Times
<1>11. RequestsSound(now', submissions')
  BY <1>7, <1>10, RequestsKeep
<1> QED
  BY <1>4, <1>5, <1>7, <1>9, <1>10, <1>11, Together DEF LastSaids

LEMMA NextInv == IInv /\ [Next]_vars => IInv'
<1> SUFFICES ASSUME IInv, [Next]_vars PROVE IInv'
  OBVIOUS
<1> USE Values
<1>1. CASE Tick
  <2>1. /\ now' \in Times /\ now' \in Nat /\ now <= now'
        /\ UNCHANGED <<row, lastSaid, asked, requests, submissions, promised, raced>>
    BY <1>1, LifecycleAssumption DEF Tick, historyVars, Times
  <2>2. RequestsSound(now', submissions')
    BY <2>1, RequestsKeep
  <2> QED
    BY <2>1, <2>2, RowKeeps
<1>2. CASE Remark \/ AskExtension \/ UNCHANGED vars
  <2>1. /\ lastSaid' \in LastSaids /\ now' = now /\ raced' = raced
        /\ UNCHANGED <<row, submissions, promised, requests>>
    BY <1>2 DEF Remark, AskExtension, vars, historyVars
  <2>2. asked' \in Nat
    <3>1. CASE AskExtension
      BY <3>1, LifecycleAssumption DEF AskExtension, WeeksCanExtend, RawDate, Rows
    <3> QED
      BY <1>2, <3>1 DEF Remark, vars
  <2>3. RequestsSound(now', submissions')
    BY <2>1, RequestsKeep
  <2> QED
    BY <2>1, <2>2, <2>3, RowKeeps
<1>3. CASE Upload
  BY <1>3, UploadInv
<1>4. CASE \E r \in Requests : Step(r)
  BY <1>4, StepInv
<1> QED
  BY <1>1, <1>2, <1>3, <1>4 DEF Next

----------------------------------------------------------------------------
(* The weeks that were granted *)

LEMMA SaveKeepsWeeks ==
    ASSUME IInv, ExtensionsKept, NEW r \in Requests, requests[r] \in Work,
           NEW copy, Changed(requests[r].loaded, copy, now, submissions),
           NEW races, Save(r, copy, races),
           \/ requests[r].who \in {"tutor", "timeout", "assessor"}
           \/ copy.extensions = requests[r].loaded.extensions
    PROVE  ExtensionsKept'
<1> DEFINE loaded == requests[r].loaded
           tracked == Tracked(loaded, copy, now)
<1>1. /\ loaded \in Rows /\ copy \in Rows /\ row \in Rows /\ now \in Times
      /\ promised \in Nat
  BY DEF IInv, TypeOK, Work, Changed
<1>2. tracked \in Rows /\ tracked.extensions = copy.extensions
  BY <1>1, TrackedCopy
<1>3. SaveChanges(loaded, tracked)
  BY DEF Save
<1>4. row'.extensions = IF copy.extensions # loaded.extensions
                        THEN copy.extensions ELSE row.extensions
  <2> HIDE DEF loaded, tracked
  <2> QED
    BY <1>1, <1>2, <1>3, SavedColumns DEF Merged
<1>5. /\ promised' = promised + copy.extensions - loaded.extensions
      /\ raced \subseteq raced'
      /\ row # loaded => requests[r].who \in raced'
  BY DEF Save
<1>6. /\ row.extensions \in Nat /\ loaded.extensions \in Nat /\ copy.extensions \in Nat
  BY <1>1 DEF Rows
<1>7. CASE copy.extensions = loaded.extensions
  <2>1. promised' = promised /\ row'.extensions = row.extensions
    BY <1>1, <1>4, <1>5, <1>6, <1>7
  <2> QED
    BY <1>5, <2>1 DEF ExtensionsKept, Clear
<1>8. CASE requests[r].who \in {"tutor", "timeout", "assessor"}
           /\ copy.extensions # loaded.extensions
  <2> SUFFICES ASSUME Clear({"tutor", "timeout", "assessor"})'
               PROVE  row'.extensions = promised'
    BY DEF ExtensionsKept
  <2>1. row = loaded /\ Clear({"tutor", "timeout", "assessor"})
    BY <1>5, <1>8 DEF Clear
  <2>2. row.extensions = promised
    BY <2>1 DEF ExtensionsKept
  <2> QED
    BY <1>1, <1>4, <1>5, <1>6, <1>8, <2>1, <2>2
<1> QED
  BY <1>7, <1>8

LEMMA KeptStays ==
    ASSUME ExtensionsKept, UNCHANGED promised, row'.extensions = row.extensions,
           raced \subseteq raced'
    PROVE  ExtensionsKept'
BY DEF ExtensionsKept, Clear

LEMMA WeeksStep ==
    ASSUME IInv, ExtensionsKept, NEW r \in Requests, Step(r)
    PROVE  ExtensionsKept'
<1> DEFINE work == requests[r]
<1> USE Values
<1>1. CASE \/ StudentAsks(r) \/ TutorAsks(r) \/ TutorReuses(r) \/ SayEngaged(r)
           \/ Repeat(r) \/ Tell(r) \/ AssessorOpens(r) \/ Answer(r) \/ Reject(r)
           \/ OverseerBegins(r) \/ TimeoutLoads(r) \/ LeaveDiscuss(r)
  <2>1. UNCHANGED <<row, promised>> /\ raced \subseteq raced'
    BY <1>1 DEF StudentAsks, TutorAsks, TutorReuses, SayEngaged, Repeat, Tell,
                AssessorOpens, Answer, Reject, OverseerBegins, TimeoutLoads,
                LeaveDiscuss, Start, Comment, historyVars
  <2> QED
    BY <2>1, KeptStays
<1>2. CASE Engage(r) \/ Reuse(r) \/ OverseerSets(r) \/ Restore(r)
  <2>1. PICK races : Save(r, [work.loaded EXCEPT !.status = work.want], races)
    BY <1>2 DEF Engage, Reuse, OverseerSets, Restore
  <2>2. At(r, "save") \/ At(r, "restore")
    BY <1>2 DEF Engage, Reuse, OverseerSets, Restore
  <2>3. [work.loaded EXCEPT !.status = work.want].extensions = work.loaded.extensions
    BY <2>2, Loaded DEF Rows
  <2> QED
    BY <2>1, <2>2, <2>3, Loaded, StatusChanges, SaveKeepsWeeks
<1>3. CASE Assess(r)
  <2>1. PICK races : Save(r, Assessed(work.loaded, work.want, now), races)
    BY <1>3 DEF Assess
  <2>2. At(r, "save") /\ work.who = "tutor"
    BY <1>3 DEF Assess, Assessing
  <2> QED
    BY <2>1, <2>2, Loaded, AssessedChanges, SaveKeepsWeeks
<1>4. CASE Grant(r)
  <2>1. /\ Save(r, Extended(work.loaded, work.weeks), {})
        /\ At(r, "save") /\ work.who = "assessor"
    BY <1>4 DEF Grant
  <2> QED
    BY <2>1, Loaded, ExtendedChanges, SaveKeepsWeeks
<1>5. CASE Warn(r)
  <2>1. /\ Save(r, [work.loaded EXCEPT !.warned = now], {})
        /\ At(r, "save") /\ work.who = "timeout"
    BY <1>5 DEF Warn
  <2> QED
    BY <2>1, Loaded, StatusChanges, SaveKeepsWeeks
<1>6. CASE ExpireDiscuss(r)
  <2>1. /\ Save(r, Assessed(work.loaded, "fix_and_resubmit", now), {})
        /\ At(r, "save") /\ work.who = "timeout"
    BY <1>6 DEF ExpireDiscuss
  <2> QED
    BY <2>1, Loaded, AssessedChanges, SaveKeepsWeeks
<1>7. CASE ExpireNothing(r)
  <2>1. /\ Save(r, [work.loaded EXCEPT !.expired = now], {})
        /\ At(r, "save") /\ work.who = "timeout"
    BY <1>7 DEF ExpireNothing
  <2> QED
    BY <2>1, Loaded, StatusChanges, SaveKeepsWeeks
<1> QED
  BY <1>1, <1>2, <1>3, <1>4, <1>5, <1>6, <1>7 DEF Step

\* An upload dates and judges the work; it grants nothing.
LEMMA UploadGrantsNothing ==
    ASSUME IInv, NEW want \in UploadTriggers
    PROVE  Uploaded(want).extensions = row.extensions
<1>1. row \in Rows /\ LateStatus # "fix_and_resubmit"
  BY DEF IInv, TypeOK, LateStatus
<1> QED
  BY <1>1 DEF Uploaded, Submitted, Assessed, Rows

LEMMA WeeksNext == IInv /\ ExtensionsKept /\ [Next]_vars => ExtensionsKept'
<1> SUFFICES ASSUME IInv, ExtensionsKept, [Next]_vars PROVE ExtensionsKept'
  OBVIOUS
<1>1. CASE Tick \/ Remark \/ AskExtension \/ UNCHANGED vars
  <2>1. UNCHANGED <<row, promised, raced>>
    BY <1>1 DEF Tick, Remark, AskExtension, vars, historyVars
  <2> QED
    BY <2>1, KeptStays
<1>2. CASE Upload
  <2>1. PICK want \in UploadTriggers :
            /\ now < MaxNow /\ row' = Tracked(row, Uploaded(want), now)
            /\ UNCHANGED <<promised, raced>>
    BY <1>2 DEF Upload
  <2>2. Uploaded(want) \in Rows
    BY <2>1, UploadChanges DEF Changed
  <2>3. Uploaded(want).extensions = row.extensions
    BY <2>1, UploadGrantsNothing
  <2>4. row'.extensions = Uploaded(want).extensions
    BY <2>1, <2>2, TrackedCopy, Values
  <2> QED
    BY <2>1, <2>3, <2>4, KeptStays
<1>3. CASE \E r \in Requests : Step(r)
  BY <1>3, WeeksStep
<1> QED
  BY <1>1, <1>2, <1>3 DEF Next

----------------------------------------------------------------------------
(* The theorems *)

\* Every variable keeps its range, for any number of requests and any dates.
THEOREM TypeCorrect == Spec => []TypeOK
<1>1. IInv => TypeOK
  BY DEF IInv
<1> QED
  BY <1>1, InitInv, NextInv, PTL DEF Spec

\* A task in discuss always has the date the discuss timeout counts from, whoever
\* saved what over it.
THEOREM AlwaysTracked == Spec => []DiscussTracked
<1>1. IInv => DiscussTracked
  BY DEF IInv
<1> QED
  BY <1>1, InitInv, NextInv, PTL DEF Spec

\* No submission is counted as assessed twice, however tutors, the timeout and
\* uploads save over each other.
THEOREM CountsOnce == Spec => []CountedOnce
<1>1. IInv => CountedOnce
  BY DEF IInv, Sound, Counted, CountedOnce
<1> QED
  BY <1>1, InitInv, NextInv, PTL DEF Spec

\* However extensions are granted, and whatever grants overwrite each other, the
\* task ends less than a week past its deadline.
THEOREM DeadlineHolds == Spec => []ExtensionsBounded
<1>1. IInv => ExtensionsBounded
  BY DEF IInv, Sound, Bounded, ExtensionsBounded
<1> QED
  BY <1>1, InitInv, NextInv, PTL DEF Spec

\* Every week that was granted stays on the task unless one who grants weeks saved
\* what it decided on an older row: no student, upload or Overseer job takes one.
THEOREM NoWeekLost == Spec => []ExtensionsKept
<1>1. Init => ExtensionsKept
  BY DEF Init, NewRow, ExtensionsKept
<1> QED
  BY <1>1, InitInv, NextInv, WeeksNext, PTL DEF Spec
=============================================================================
