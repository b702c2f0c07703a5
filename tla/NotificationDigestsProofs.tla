----------------------- MODULE NotificationDigestsProofs -----------------------
(***************************************************************************)
(* What holds of NotificationDigests for any notifications, jobs, retries, *)
(* faults and changes of mind: mails are counted, and the digest implements*)
(* its ledger.                                                             *)
(***************************************************************************)
EXTENDS NotificationDigests, TLAPS

----------------------------------------------------------------------------
(* The inductive invariant *)

Present(j) == job[j].pc # "none"

\* The unique job: whoever is there is alone and holds the lock.
Alone ==
    /\ \A i, j \in Jobs : Present(i) /\ Present(j) => i = j
    /\ \A j \in Jobs : Present(j) => lock

\* What a job r holds in a place, of rows that exist.
Holds(r) ==
    /\ r.batch # {} => r.pc \in {"skip", "deliver", "mark"}
    /\ r.pc \in {"deliver", "mark"} => r.batch # {}
    /\ r.batch \subseteq rows

\* Between its mail and its mark a notification has one mail more than the
\* attempts that broke off; before, and while it waits, it has not.
Carried(n) == \E j \in Jobs : At(j, "mark") /\ n \in job[j].batch
InBatch(n) == \E j \in Jobs : job[j].pc \in {"skip", "deliver"} /\ n \in job[j].batch
Counts(n) ==
    /\ n \notin rows => mails[n] = 0
    /\ mails[n] <= 1 + broken[n]
    /\ n \notin processed /\ ~Carried(n) => mails[n] <= broken[n]
    /\ InBatch(n) => mails[n] <= broken[n]
    /\ Carried(n) \/ n \in sent => mails[n] > 0

IInv ==
    /\ TypeOK
    /\ Alone
    /\ read \subseteq processed
    /\ \A j \in Jobs : Holds(job[j])
    /\ \A n \in Notifications : Counts(n)

----------------------------------------------------------------------------
(* Lemmas on the jobs *)

LEMMA NoJobTyped == NoJob \in JobRecords
BY DigestAssumption DEF NoJob, JobRecords, Working

\* Nothing is recorded, and no job is queued.
THEOREM InitIInv == Init => IInv
<1> SUFFICES ASSUME Init PROVE IInv
  OBVIOUS
<1>1. TypeOK
  <2>1. rows \cup ready \cup wanted \subseteq Notifications
        /\ read \cup processed \cup sent \cup creating \subseteq rows
    BY DigestAssumption DEF Init
  <2>2. job \in [Jobs -> JobRecords]
    BY NoJobTyped DEF Init
  <2>3. mails \in [Notifications -> Nat] /\ broken \in [Notifications -> Nat]
    BY DEF Init
  <2>4. clearing \in BOOLEAN /\ lock \in BOOLEAN
    BY Zenon DEF Init
  <2>5. faults = 0 /\ reopens = 0
    BY DEF Init
  <2>6. faults \in 0..MaxFaults /\ reopens \in 0..MaxReopens
    BY <2>5, DigestAssumption
  <2>7. frequency \in {"on", "off"} /\ nextDigest \in {"none", "due", "later"}
    BY DEF Init
  <2>8. QED
    BY <2>1, <2>2, <2>3, <2>4, <2>6, <2>7 DEF TypeOK
<1>2. Alone /\ read \subseteq processed
  BY DEF Init, Alone, Present, NoJob
<1>3. \A j \in Jobs : Holds(job[j])
  BY DEF Init, Holds, NoJob
<1>4. \A n \in Notifications : Counts(n)
  BY DEF Init, Counts, Carried, InBatch, At, NoJob
<1> QED BY <1>1, <1>2, <1>3, <1>4 DEF IInv

----------------------------------------------------------------------------
(* Steps of the user and of those who record notifications *)

LEMMA QuietStep ==
    ASSUME IInv, TypeOK',
           UNCHANGED <<job, lock, mails, broken, sent>>,
           rows \subseteq rows', processed \subseteq processed',
           read' \subseteq processed'
    PROVE  IInv'
<1>1. Alone'
  BY DEF IInv, Alone, Present
<1>2. \A j \in Jobs : Holds(job[j])'
  BY DEF IInv, Holds
<1>3. \A n \in Notifications : Counts(n)'
  <2> SUFFICES ASSUME NEW n \in Notifications PROVE Counts(n)'
    OBVIOUS
  <2>1. Carried(n)' = Carried(n) /\ InBatch(n)' = InBatch(n)
    BY DEF Carried, InBatch, At
  <2>2. Counts(n) /\ mails[n] \in Nat /\ broken[n] \in Nat
    BY DEF IInv, TypeOK
  <2>3. QED
    BY <2>1, <2>2 DEF Counts
<1> QED BY <1>1, <1>2, <1>3 DEF IInv

LEMMA RecordingKeeps ==
    ASSUME IInv, NEW n \in Notifications, Recording(n)
    PROVE  IInv'
<1>1. CASE Create(n)
  <2>1. TypeOK'
    BY <1>1 DEF IInv, TypeOK, Create, jobVars, userVars
  <2>2. QED
    BY <1>1, <2>1, QuietStep DEF IInv, Create, jobVars
<1>2. CASE NotMailed(n)
  <2>1. TypeOK'
    BY <1>2 DEF IInv, TypeOK, NotMailed, jobVars, userVars
  <2>2. QED
    BY <1>2, <2>1, QuietStep DEF IInv, NotMailed, jobVars
<1>3. CASE CreatorDies(n)
  <2>1. TypeOK'
    BY <1>3, DigestAssumption DEF IInv, TypeOK, CreatorDies, jobVars, userVars
  <2>2. QED
    BY <1>3, <2>1, QuietStep DEF IInv, CreatorDies, jobVars
<1>4. CASE GraceEnds(n)
  <2>1. TypeOK'
    BY <1>4 DEF IInv, TypeOK, GraceEnds, rowVars, jobVars, userVars
  <2>2. QED
    BY <1>4, <2>1, QuietStep DEF IInv, GraceEnds, rowVars, jobVars
<1> QED BY <1>1, <1>2, <1>3, <1>4 DEF Recording

\* A pruned row is in nobody's hands.
LEMMA PruneKeeps ==
    ASSUME IInv, NEW n \in Notifications, Prune(n)
    PROVE  IInv'
<1>1. TypeOK'
  BY DEF IInv, TypeOK, Prune, jobVars, userVars
<1>2. Alone'
  BY DEF IInv, Alone, Present, Prune, jobVars
<1>3. (read \subseteq processed)'
  BY DEF IInv, Prune
<1>4. \A j \in Jobs : Holds(job[j])'
  BY DEF IInv, Holds, Prune, jobVars
<1>5. \A k \in Notifications : Counts(k)'
  <2> SUFFICES ASSUME NEW k \in Notifications PROVE Counts(k)'
    OBVIOUS
  <2>1. Carried(k)' = Carried(k) /\ InBatch(k)' = InBatch(k)
    BY DEF Carried, InBatch, At, Prune, jobVars
  <2>2. ~Carried(n) /\ ~InBatch(n)
    BY DEF Carried, InBatch, Prune
  <2>3. Counts(k) /\ mails \in [Notifications -> Nat] /\ broken \in [Notifications -> Nat]
    BY DEF IInv, TypeOK
  <2>4. QED
    BY <2>1, <2>2, <2>3 DEF Counts, Prune
<1> QED BY <1>1, <1>2, <1>3, <1>4, <1>5 DEF IInv

LEMMA UsingKeeps ==
    ASSUME IInv, NEW n \in Notifications, Using(n)
    PROVE  IInv'
<1>1. CASE MarkRead(n)
  <2>1. TypeOK'
    BY <1>1 DEF IInv, TypeOK, MarkRead, jobVars, userVars
  <2>2. QED
    BY <1>1, <2>1, QuietStep DEF IInv, MarkRead, jobVars
<1>2. CASE Reopen(n)
  <2>1. TypeOK'
    BY <1>2, DigestAssumption DEF IInv, TypeOK, Reopen, jobVars, userVars
  <2>2. QED
    BY <1>2, <2>1, QuietStep DEF IInv, Reopen, jobVars
<1>3. CASE Prune(n)
  BY <1>3, PruneKeeps
<1>4. CASE ChangeChannels(n)
  <2>1. TypeOK'
    BY <1>4 DEF IInv, TypeOK, ChangeChannels, rowVars, jobVars
  <2>2. QED
    BY <1>4, <2>1, QuietStep DEF IInv, ChangeChannels, rowVars, jobVars
<1> QED BY <1>1, <1>2, <1>3, <1>4 DEF Using

LEMMA SettingsKeep ==
    ASSUME IInv, Settings \/ SlotComes
    PROVE  IInv'
<1>1. CASE SwitchOff
  <2>1. TypeOK'
    BY <1>1 DEF IInv, TypeOK, SwitchOff, rowVars, jobVars
  <2>2. QED
    BY <1>1, <2>1, QuietStep DEF IInv, SwitchOff, rowVars, jobVars
<1>2. CASE ProcessPending
  <2>1. TypeOK'
    BY <1>2 DEF IInv, TypeOK, ProcessPending, Waiting, jobVars
  <2>2. QED
    BY <1>2, <2>1, QuietStep DEF IInv, ProcessPending, jobVars
<1>3. CASE SwitchOn
  <2>1. TypeOK'
    BY <1>3 DEF IInv, TypeOK, SwitchOn, rowVars, jobVars
  <2>2. QED
    BY <1>3, <2>1, QuietStep DEF IInv, SwitchOn, rowVars, jobVars
<1>4. CASE SlotComes
  <2>1. TypeOK'
    BY <1>4 DEF IInv, TypeOK, SlotComes, rowVars, jobVars, userVars
  <2>2. QED
    BY <1>4, <2>1, QuietStep DEF IInv, SlotComes, rowVars, jobVars
<1> QED BY <1>1, <1>2, <1>3, <1>4 DEF Settings

----------------------------------------------------------------------------
(* Steps of the one job there is *)

LEMMA Sole ==
    ASSUME Alone, \A i \in Jobs : Holds(job[i]), NEW j \in Jobs, Present(j)
    PROVE  \A i \in Jobs : i # j => job[i].pc = "none" /\ job[i].batch = {}
BY DEF Alone, Present, Holds

\* What becomes of a job and its lock leaves it alone.
LEMMA JobAlone ==
    ASSUME IInv, NEW j \in Jobs, Present(j), NEW r \in JobRecords,
           job' = [job EXCEPT ![j] = r], r.pc # "none" => lock' = lock
    PROVE  Alone'
<1>1. job \in [Jobs -> JobRecords]
  BY DEF IInv, TypeOK
<1>2. \A i \in Jobs : i # j => job'[i].pc = "none"
  BY <1>1, Sole DEF IInv
<1>3. job'[j] = r
  BY <1>1
<1> QED BY <1>2, <1>3 DEF IInv, Alone, Present

LEMMA JobHolds ==
    ASSUME IInv, NEW j \in Jobs, Present(j), NEW r \in JobRecords,
           job' = [job EXCEPT ![j] = r], rows' = rows, Holds(r)
    PROVE  \A i \in Jobs : Holds(job[i])'
<1>1. job \in [Jobs -> JobRecords]
  BY DEF IInv, TypeOK
<1> QED BY <1>1 DEF IInv, Holds

\* Before and after the step, what is carried is what the job carries.
LEMMA JobCarries ==
    ASSUME IInv, NEW j \in Jobs, Present(j), NEW r \in JobRecords,
           job' = [job EXCEPT ![j] = r], NEW n
    PROVE  /\ Carried(n) <=> At(j, "mark") /\ n \in job[j].batch
           /\ InBatch(n) <=> job[j].pc \in {"skip", "deliver"} /\ n \in job[j].batch
           /\ Carried(n)' <=> r.pc = "mark" /\ n \in r.batch
           /\ InBatch(n)' <=> r.pc \in {"skip", "deliver"} /\ n \in r.batch
<1>1. job \in [Jobs -> JobRecords]
  BY DEF IInv, TypeOK
<1>2. \A i \in Jobs : i # j => job[i].pc = "none" /\ job'[i] = job[i]
  BY <1>1, Sole DEF IInv
<1>3. job'[j] = r
  BY <1>1
<1> QED BY <1>2, <1>3 DEF Carried, InBatch, At

\* A step with the job that mails nothing and breaks nothing off.
LEMMA JobStep ==
    ASSUME IInv, NEW j \in Jobs, Present(j), NEW r \in JobRecords,
           job' = [job EXCEPT ![j] = r], r.pc # "none" => lock' = lock,
           TypeOK', Holds(r),
           UNCHANGED <<rows, read, sent, mails, broken>>,
           processed \subseteq processed',
           ~At(j, "mark"), r.pc # "mark",
           r.batch \subseteq job[j].batch \/ r.batch \cap processed = {}
    PROVE  IInv'
<1>1. Alone' /\ \A i \in Jobs : Holds(job[i])'
  BY JobAlone, JobHolds
<1>2. (read \subseteq processed)'
  BY DEF IInv
<1>3. \A n \in Notifications : Counts(n)'
  <2> SUFFICES ASSUME NEW n \in Notifications PROVE Counts(n)'
    OBVIOUS
  <2>1. ~Carried(n) /\ ~Carried(n)'
    BY JobCarries DEF At
  <2>2. InBatch(n)' => InBatch(n) \/ n \notin processed
    <3>1. InBatch(n)' <=> r.pc \in {"skip", "deliver"} /\ n \in r.batch
      BY JobCarries
    <3>2. InBatch(n) <=> job[j].pc \in {"skip", "deliver"} /\ n \in job[j].batch
      BY JobCarries
    <3>3. n \in job[j].batch => job[j].pc \in {"skip", "deliver"}
      BY DEF IInv, Holds, At
    <3> QED BY <3>1, <3>2, <3>3
  <2>3. Counts(n) /\ mails[n] \in Nat /\ broken[n] \in Nat
    BY DEF IInv, TypeOK
  <2>4. QED
    BY <2>1, <2>2, <2>3 DEF Counts
<1> QED BY <1>1, <1>2, <1>3 DEF IInv

LEMMA PollKeeps == ASSUME IInv, Poll PROVE IInv'
<1> DEFINE c == CHOOSE i \in Idle : TRUE
<1>1. job' = [job EXCEPT ![c] = Enqueued] /\ c \in Idle /\ ~lock /\ lock' = TRUE
  BY DEF Poll
<1> HIDE DEF c
<1>2. c \in Jobs /\ job \in [Jobs -> JobRecords]
  BY <1>1 DEF Idle, IInv, TypeOK
<1>3. Enqueued \in JobRecords /\ Enqueued.pc = "queued" /\ Enqueued.batch = {}
  BY NoJobTyped DEF Enqueued, NoJob, JobRecords, Working
<1>4. \A i \in Jobs : job[i].pc = "none" /\ job[i].batch = {}
  BY <1>1 DEF IInv, Alone, Present, Holds
<1>5. \A i \in Jobs : job'[i] = IF i = c THEN Enqueued ELSE job[i]
  BY <1>1, <1>2
<1>6. TypeOK'
  <2>1. job' \in [Jobs -> JobRecords]
    BY <1>1, <1>2, <1>3
  <2>2. lock' \in BOOLEAN
    BY <1>1
  <2>3. QED
    BY <2>1, <2>2 DEF Poll, JobOnly, rowVars, userVars, IInv, TypeOK
<1>7. Alone'
  BY <1>1, <1>4, <1>5 DEF Alone, Present
<1>8. (read \subseteq processed)' /\ \A j \in Jobs : Holds(job[j])'
  BY <1>3, <1>4, <1>5 DEF IInv, Poll, JobOnly, rowVars, Holds
<1>9. \A n \in Notifications : Counts(n)'
  <2> SUFFICES ASSUME NEW n \in Notifications PROVE Counts(n)'
    OBVIOUS
  <2>1. ~Carried(n) /\ ~InBatch(n) /\ ~Carried(n)' /\ ~InBatch(n)'
    BY <1>3, <1>4, <1>5 DEF Carried, InBatch, At
  <2>2. QED
    BY <2>1 DEF IInv, Counts, Poll, JobOnly, rowVars
<1> QED BY <1>6, <1>7, <1>8, <1>9 DEF IInv

LEMMA ReapKeeps == ASSUME IInv, Reap PROVE IInv'
<1>1. TypeOK'
  <2>1. lock' \in BOOLEAN
    BY DEF Reap
  <2>2. QED
    BY <2>1 DEF Reap, JobOnly, rowVars, userVars, IInv, TypeOK
<1>2. \A i \in Jobs : job'[i].pc = "none"
  BY DEF Reap, Idle, At
<1>3. Alone'
  BY <1>2 DEF Alone, Present
<1>4. (read \subseteq processed)' /\ \A j \in Jobs : Holds(job[j])'
  BY DEF IInv, Reap, JobOnly, rowVars, Holds
<1>5. \A n \in Notifications : Counts(n)'
  BY DEF IInv, Reap, JobOnly, rowVars, Counts, Carried, InBatch, At
<1> QED BY <1>1, <1>3, <1>4, <1>5 DEF IInv

\* A finished job is NoJob, whatever it was.
LEMMA FinishedStep ==
    ASSUME IInv, NEW j \in Jobs, Present(j), Finished(j), ~At(j, "mark"),
           UNCHANGED <<rows, read, sent, creating, ready, userVars, nextDigest,
                       faults, reopens, mails, broken>>,
           processed \subseteq processed', processed' \subseteq rows
    PROVE  IInv'
<1>1. job' = [job EXCEPT ![j] = NoJob] /\ lock' = FALSE
  BY DEF Finished
<1>2. NoJob \in JobRecords /\ NoJob.pc = "none" /\ NoJob.batch = {}
  BY NoJobTyped DEF NoJob
<1>3. TypeOK'
  <2>1. job' \in [Jobs -> JobRecords]
    BY <1>1, <1>2 DEF IInv, TypeOK
  <2>2. lock' \in BOOLEAN
    BY <1>1
  <2>3. QED
    BY <2>1, <2>2 DEF userVars, IInv, TypeOK
<1>4. Holds(NoJob)
  BY <1>2 DEF Holds
<1> QED BY <1>1, <1>2, <1>3, <1>4, JobStep

LEMMA BeginKeeps == ASSUME IInv, NEW j \in Jobs, Begin(j) PROVE IInv'
<1>1. Present(j) /\ ~At(j, "mark") /\ job[j] \in JobRecords
  BY DEF Begin, Present, At, IInv, TypeOK
<1>2. CASE frequency = "off"
  BY <1>1, <1>2, FinishedStep DEF Begin, JobOnly, rowVars, IInv, TypeOK
<1>3. CASE frequency # "off"
  <2> DEFINE r == [job[j] EXCEPT !.pc = "claim", !.saw = nextDigest, !.wants = wanted]
  <2>1. job' = [job EXCEPT ![j] = r] /\ lock' = lock
    BY <1>3 DEF Begin
  <2>2. r \in JobRecords /\ r.pc = "claim" /\ r.batch = job[j].batch
    BY <1>1 DEF JobRecords, Working, IInv, TypeOK
  <2>3. Holds(r)
    BY <1>1, <2>2 DEF Begin, IInv, Holds
  <2> HIDE DEF r
  <2>4. TypeOK'
    BY <2>1, <2>2 DEF Begin, JobOnly, rowVars, userVars, IInv, TypeOK
  <2>5. QED
    BY <1>1, <2>1, <2>2, <2>3, <2>4, JobStep DEF Begin, JobOnly, rowVars
<1> QED BY <1>2, <1>3

LEMMA ClaimKeeps == ASSUME IInv, NEW j \in Jobs, Claim(j) PROVE IInv'
<1>1. Present(j) /\ ~At(j, "mark") /\ job[j] \in JobRecords
  BY DEF Claim, Present, At, IInv, TypeOK
<1> DEFINE r == [job[j] EXCEPT !.pc = "load", !.saw = "none"]
<1>2. job' = [job EXCEPT ![j] = r] /\ lock' = lock
  BY DEF Claim
<1>3. r \in JobRecords /\ r.pc = "load" /\ r.batch = job[j].batch
  BY <1>1 DEF JobRecords, Working
<1>4. Holds(r)
  BY <1>1, <1>3 DEF Claim, At, IInv, Holds
<1> HIDE DEF r
<1>5. TypeOK'
  BY <1>2, <1>3 DEF Claim, JobOnly, rowVars, userVars, IInv, TypeOK
<1> QED BY <1>1, <1>2, <1>3, <1>4, <1>5, JobStep DEF Claim, JobOnly, rowVars

LEMMA LoadKeeps == ASSUME IInv, NEW j \in Jobs, Load(j) PROVE IInv'
<1>1. Present(j) /\ ~At(j, "mark") /\ job[j] \in JobRecords
  BY DEF Load, Present, At, IInv, TypeOK
<1> DEFINE found == Waiting \cap ready
           carry == found \cap job[j].wants
           skip == found \ job[j].wants
           r == [job[j] EXCEPT !.pc = "skip", !.batch = carry, !.skipped = skip,
                               !.wants = {}]
<1>2. job' = [job EXCEPT ![j] = r] /\ lock' = lock
  BY DEF Load
<1>3. found \subseteq Notifications /\ found \subseteq rows /\ found \cap processed = {}
  BY DEF Waiting, IInv, TypeOK
<1>4. r \in JobRecords /\ r.pc = "skip" /\ r.batch \subseteq found
  <2>1. carry \in SUBSET Notifications /\ skip \in SUBSET Notifications
        /\ carry \subseteq found
    BY <1>3
  <2> HIDE DEF carry, skip, found
  <2>2. QED
    BY <1>1, <2>1 DEF JobRecords, Working
<1> HIDE DEF found, carry, skip, r
<1>5. Holds(r)
  BY <1>3, <1>4 DEF Holds
<1>6. TypeOK'
  <2>1. job' \in [Jobs -> JobRecords]
    BY <1>2, <1>4 DEF IInv, TypeOK
  <2>2. UNCHANGED <<rows, read, processed, sent, creating, ready, wanted, frequency,
                    clearing, nextDigest, faults, reopens, mails, broken>>
    BY DEF Load, JobOnly, rowVars, userVars
  <2>3. QED
    BY <1>2, <2>1, <2>2 DEF IInv, TypeOK
<1>7. r.batch \cap processed = {}
  BY <1>3, <1>4
<1> QED BY <1>1, <1>2, <1>4, <1>5, <1>6, <1>7, JobStep DEF Load, JobOnly, rowVars

LEMMA SkipKeeps == ASSUME IInv, NEW j \in Jobs, Skip(j) PROVE IInv'
<1>1. Present(j) /\ ~At(j, "mark") /\ job[j] \in JobRecords
  BY DEF Skip, Present, At, IInv, TypeOK
<1>2. processed \subseteq processed' /\ processed' \subseteq rows
  BY DEF Skip, IInv, TypeOK
<1>3. CASE job[j].batch = {}
  BY <1>1, <1>2, <1>3, FinishedStep DEF Skip
<1>4. CASE job[j].batch # {}
  <2> DEFINE r == [job[j] EXCEPT !.pc = "deliver", !.skipped = {}]
  <2>1. job' = [job EXCEPT ![j] = r] /\ lock' = lock
    BY <1>4 DEF Skip
  <2>2. r \in JobRecords /\ r.pc = "deliver" /\ r.batch = job[j].batch
    BY <1>1 DEF JobRecords, Working
  <2>3. Holds(r)
    BY <1>4, <2>2 DEF IInv, Holds
  <2> HIDE DEF r
  <2>4. TypeOK'
    BY <1>2, <2>1, <2>2 DEF Skip, userVars, IInv, TypeOK
  <2>5. QED
    BY <1>1, <1>2, <2>1, <2>2, <2>3, <2>4, JobStep DEF Skip
<1> QED BY <1>3, <1>4

LEMMA RecordSentKeeps == ASSUME IInv, NEW j \in Jobs, RecordSent(j) PROVE IInv'
<1>1. Present(j) /\ ~At(j, "mark")
  BY DEF RecordSent, Present, At
<1> QED BY <1>1, FinishedStep DEF RecordSent, JobOnly, rowVars, IInv, TypeOK

----------------------------------------------------------------------------
(* Mailing, marking and breaking off *)

LEMMA DeliverKeeps == ASSUME IInv, NEW j \in Jobs, Deliver(j) PROVE IInv'
<1>1. Present(j) /\ job[j] \in JobRecords /\ At(j, "deliver")
  BY DEF Deliver, Present, At, IInv, TypeOK
<1> DEFINE r == [job[j] EXCEPT !.pc = "mark"]
<1>2. job' = [job EXCEPT ![j] = r] /\ lock' = lock
  BY DEF Deliver
<1>3. r \in JobRecords /\ r.pc = "mark" /\ r.batch = job[j].batch
  BY <1>1 DEF JobRecords, Working
<1> HIDE DEF r
<1>4. Holds(r)
  BY <1>1, <1>3 DEF IInv, Holds, At
<1>5. TypeOK'
  <2>1. mails' \in [Notifications -> Nat]
    BY DEF Deliver, IInv, TypeOK
  <2>2. job' \in [Jobs -> JobRecords]
    BY <1>2, <1>3 DEF IInv, TypeOK
  <2>3. QED
    BY <1>2, <2>1, <2>2 DEF Deliver, JobOnly, rowVars, userVars, IInv, TypeOK
<1>6. Alone' /\ \A i \in Jobs : Holds(job[i])'
  BY <1>1, <1>2, <1>3, <1>4, JobAlone, JobHolds DEF Deliver, JobOnly, rowVars
<1>7. (read \subseteq processed)'
  BY DEF Deliver, JobOnly, rowVars, IInv
<1>8. \A n \in Notifications : Counts(n)'
  <2> SUFFICES ASSUME NEW n \in Notifications PROVE Counts(n)'
    OBVIOUS
  <2>1. ~Carried(n) /\ (InBatch(n) <=> n \in job[j].batch)
    BY <1>1, <1>2, <1>3, JobCarries DEF At
  <2>2. ~InBatch(n)' /\ (Carried(n)' <=> n \in job[j].batch)
    BY <1>1, <1>2, <1>3, JobCarries
  <2>3. mails'[n] = (IF n \in job[j].batch THEN mails[n] + 1 ELSE mails[n])
        /\ UNCHANGED <<rows, processed, sent, broken>>
    BY DEF Deliver, JobOnly, rowVars
  <2>4. n \in job[j].batch => n \in rows
    BY DEF IInv, Holds
  <2>5. Counts(n) /\ mails[n] \in Nat /\ broken[n] \in Nat
    BY DEF IInv, TypeOK
  <2>6. QED
    BY <2>1, <2>2, <2>3, <2>4, <2>5 DEF Counts
<1> QED BY <1>5, <1>6, <1>7, <1>8 DEF IInv

LEMMA MarkSentKeeps == ASSUME IInv, NEW j \in Jobs, MarkSent(j) PROVE IInv'
<1>1. Present(j) /\ job[j] \in JobRecords /\ At(j, "mark") /\ job[j].batch \subseteq rows
  BY DEF MarkSent, Present, At, IInv, TypeOK, Holds
<1> DEFINE r == [job[j] EXCEPT !.pc = "record", !.batch = {}]
<1>2. job' = [job EXCEPT ![j] = r] /\ lock' = lock
  BY DEF MarkSent
<1>3. r \in JobRecords /\ r.pc = "record" /\ r.batch = {}
  BY <1>1 DEF JobRecords, Working
<1> HIDE DEF r
<1>4. Holds(r)
  BY <1>3 DEF Holds
<1>5. TypeOK'
  <2>1. job' \in [Jobs -> JobRecords]
    BY <1>2, <1>3 DEF IInv, TypeOK
  <2>2. processed' \cup sent' \subseteq rows
    BY DEF MarkSent, IInv, TypeOK
  <2>3. QED
    BY <1>2, <2>1, <2>2 DEF MarkSent, userVars, IInv, TypeOK
<1>6. Alone' /\ \A i \in Jobs : Holds(job[i])'
  BY <1>1, <1>2, <1>3, <1>4, JobAlone, JobHolds DEF MarkSent
<1>7. (read \subseteq processed)'
  BY DEF MarkSent, IInv
<1>8. \A n \in Notifications : Counts(n)'
  <2> SUFFICES ASSUME NEW n \in Notifications PROVE Counts(n)'
    OBVIOUS
  <2>1. ~InBatch(n) /\ (Carried(n) <=> n \in job[j].batch)
    BY <1>1, <1>2, <1>3, JobCarries DEF At
  <2>2. ~InBatch(n)' /\ ~Carried(n)'
    BY <1>1, <1>2, <1>3, JobCarries
  <2>3. /\ n \in processed' <=> n \in processed \/ n \in job[j].batch
        /\ n \in sent' <=> n \in sent \/ n \in job[j].batch
        /\ UNCHANGED <<rows, mails, broken>>
    BY <1>1 DEF MarkSent
  <2>4. Counts(n) /\ mails[n] \in Nat /\ broken[n] \in Nat
    BY DEF IInv, TypeOK
  <2>5. QED
    BY <2>1, <2>2, <2>3, <2>4 DEF Counts
<1> QED BY <1>5, <1>6, <1>7, <1>8 DEF IInv

\* A job that is thrown off: to be retried, or gone.
LEMMA BrokenStep ==
    ASSUME IInv, NEW j \in Jobs, Present(j), NEW r \in JobRecords,
           job' = [job EXCEPT ![j] = r], r.pc # "none" => lock' = lock, lock' \in BOOLEAN,
           r.pc \in {"none", "retry"}, r.batch = {}, Breaks(j),
           faults < MaxFaults, faults' = faults + 1,
           UNCHANGED <<rowVars, ready, userVars, nextDigest, reopens, mails>>
    PROVE  IInv'
<1>1. broken' = [n \in Notifications |->
          IF At(j, "mark") /\ n \in job[j].batch THEN broken[n] + 1 ELSE broken[n]]
  BY DEF Breaks
<1>2. TypeOK'
  <2>1. broken' \in [Notifications -> Nat]
    BY <1>1 DEF IInv, TypeOK
  <2>2. job' \in [Jobs -> JobRecords]
    BY DEF IInv, TypeOK
  <2>3. faults' \in 0..MaxFaults
    BY DigestAssumption DEF IInv, TypeOK
  <2>4. QED
    BY <2>1, <2>2, <2>3 DEF rowVars, userVars, IInv, TypeOK
<1>3. Holds(r)
  BY DEF Holds
<1>4. Alone' /\ \A i \in Jobs : Holds(job[i])'
  BY <1>3, JobAlone, JobHolds DEF rowVars
<1>5. \A n \in Notifications : Counts(n)'
  <2> SUFFICES ASSUME NEW n \in Notifications PROVE Counts(n)'
    OBVIOUS
  <2>1. Carried(n) <=> At(j, "mark") /\ n \in job[j].batch
    BY JobCarries
  <2>2. ~InBatch(n)' /\ ~Carried(n)'
    BY JobCarries
  <2>3. broken'[n] = (IF Carried(n) THEN broken[n] + 1 ELSE broken[n])
        /\ UNCHANGED <<rows, processed, sent, mails>>
    BY <1>1, <2>1 DEF rowVars
  <2>4. Counts(n) /\ mails[n] \in Nat /\ broken[n] \in Nat
    BY DEF IInv, TypeOK
  <2>5. QED
    BY <2>2, <2>3, <2>4 DEF Counts
<1> QED BY <1>2, <1>4, <1>5 DEF IInv, rowVars

LEMMA FailKeeps == ASSUME IInv, NEW j \in Jobs, Fail(j) PROVE IInv'
<1>1. Present(j) /\ job[j] \in JobRecords /\ lock \in BOOLEAN
  BY DEF Fail, Working, Present, IInv, TypeOK
<1>2. CASE job[j].attempt < MaxRetries
  <2> DEFINE r == [NoJob EXCEPT !.pc = "retry", !.attempt = job[j].attempt + 1]
  <2>1. job' = [job EXCEPT ![j] = r] /\ lock' = lock
    BY <1>2 DEF Fail
  <2>2. r \in JobRecords /\ r.pc = "retry" /\ r.batch = {}
    <3>1. job[j].attempt + 1 \in 0..MaxRetries
      BY <1>1, <1>2, DigestAssumption DEF JobRecords
    <3>2. QED
      BY <3>1, NoJobTyped DEF NoJob, JobRecords, Working
  <2> HIDE DEF r
  <2>3. QED
    BY <1>1, <2>1, <2>2, BrokenStep DEF Fail
<1>3. CASE ~(job[j].attempt < MaxRetries)
  <2>1. job' = [job EXCEPT ![j] = NoJob] /\ lock' = FALSE
    BY <1>3 DEF Fail, Finished
  <2>2. NoJob \in JobRecords /\ NoJob.pc = "none" /\ NoJob.batch = {}
    BY NoJobTyped DEF NoJob
  <2>3. QED
    BY <1>1, <2>1, <2>2, BrokenStep DEF Fail
<1> QED BY <1>2, <1>3

LEMMA KillKeeps == ASSUME IInv, NEW j \in Jobs, Kill(j) PROVE IInv'
<1>1. Present(j) /\ lock \in BOOLEAN
  BY DEF Kill, Working, Present, IInv, TypeOK
<1>2. NoJob \in JobRecords /\ NoJob.pc = "none" /\ NoJob.batch = {}
  BY NoJobTyped DEF NoJob
<1> QED BY <1>1, <1>2, BrokenStep DEF Kill

----------------------------------------------------------------------------
(* The invariant and what follows from it *)

\* Every step of requests, the poll, the jobs and the reaper keeps the invariant.
THEOREM NextIInv == IInv /\ [Next]_vars => IInv'
<1> SUFFICES ASSUME IInv, [Next]_vars PROVE IInv'
  OBVIOUS
<1>1. CASE \E n \in Notifications : Recording(n) \/ Using(n)
  BY <1>1, RecordingKeeps, UsingKeeps
<1>2. CASE Settings \/ SlotComes
  BY <1>2, SettingsKeep
<1>3. CASE Poll
  BY <1>3, PollKeeps
<1>4. CASE Reap
  BY <1>4, ReapKeeps
<1>5. ASSUME NEW j \in Jobs, Perform(j) PROVE IInv'
  BY <1>5, BeginKeeps, ClaimKeeps, LoadKeeps, SkipKeeps, DeliverKeeps,
     MarkSentKeeps, RecordSentKeeps DEF Perform
<1>6. ASSUME NEW j \in Jobs, Fail(j) \/ Kill(j) PROVE IInv'
  BY <1>6, FailKeeps, KillKeeps
<1>7. CASE UNCHANGED vars
  <2>1. TypeOK'
    BY <1>7 DEF vars, rowVars, userVars, jobVars, IInv, TypeOK
  <2>2. QED
    BY <1>7, <2>1, QuietStep DEF vars, rowVars, jobVars, IInv
<1> QED BY <1>1, <1>2, <1>3, <1>4, <1>5, <1>6, <1>7 DEF Next

\* The inductive invariant holds throughout.
THEOREM SpecIInv == Spec => []IInv
BY InitIInv, NextIInv, PTL DEF Spec

\* Every variable keeps its range, for any notifications, jobs and bounds.
THEOREM TypeCorrect == Spec => []TypeOK
<1>1. IInv => TypeOK
  BY DEF IInv
<1> QED BY <1>1, SpecIInv, PTL

\* A notification is mailed once, and once more for each attempt of the job
\* that broke off between delivering the digest and marking its rows.
THEOREM MailsOnce == Spec => []MailedOnce
<1>1. IInv => MailedOnce
  BY DEF IInv, TypeOK, Counts, MailedOnce
<1> QED BY <1>1, SpecIInv, PTL

\* What the ledger says was mailed, was mailed.
THEOREM SentMeansMailed == Spec => []SentWasMailed
<1>1. IInv => SentWasMailed
  BY DEF IInv, TypeOK, Counts, SentWasMailed
<1> QED BY <1>1, SpecIInv, PTL

----------------------------------------------------------------------------
(* In-app copies of e-mails *)

\* No setting asks for a mail of a copy, and no job has one in its batch.
Unmailed ==
    /\ InAppCopies \cap wanted = {}
    /\ \A j \in Jobs : (job[j].wants \cup job[j].batch) \cap InAppCopies = {}
    /\ CopiesNotMailed

\* A job that holds no copies, whatever becomes of its place.
LEMMA JobUnmailed ==
    ASSUME TypeOK, Unmailed, NEW j \in Jobs, NEW r,
           (r.wants \cup r.batch) \cap InAppCopies = {},
           job' = [job EXCEPT ![j] = r], UNCHANGED <<wanted, mails>>
    PROVE  Unmailed'
<1>1. job \in [Jobs -> JobRecords]
  BY DEF TypeOK
<1>2. \A i \in Jobs : job'[i] = IF i = j THEN r ELSE job[i]
  BY <1>1
<1> QED BY <1>2 DEF Unmailed, CopiesNotMailed

\* From the settings a job loads to the batch it mails, no copy gets in.
LEMMA PerformUnmailed ==
    ASSUME TypeOK, Unmailed, NEW j \in Jobs, Perform(j)
    PROVE  Unmailed'
<1>1. /\ job \in [Jobs -> JobRecords] /\ job[j] \in JobRecords
      /\ NoJob.wants = {} /\ NoJob.batch = {}
  BY DEF TypeOK, NoJob
<1>2. (job[j].wants \cup job[j].batch) \cap InAppCopies = {}
  BY DEF Unmailed
<1>3. CASE Begin(j)
  <2>1. UNCHANGED <<wanted, mails>>
    BY <1>3 DEF Begin, JobOnly, userVars
  <2> DEFINE r == [job[j] EXCEPT !.pc = "claim", !.saw = nextDigest, !.wants = wanted]
  <2>2. job' = [job EXCEPT ![j] = NoJob] \/ job' = [job EXCEPT ![j] = r]
    BY <1>1, <1>3 DEF Begin, Finished
  <2>3. r.wants = wanted /\ r.batch = job[j].batch
    BY <1>1 DEF JobRecords
  <2>4. (r.wants \cup r.batch) \cap InAppCopies = {}
    BY <1>2, <2>3 DEF Unmailed
  <2> HIDE DEF r
  <2>5. QED
    BY <1>1, <2>1, <2>2, <2>4, JobUnmailed
<1>4. CASE Claim(j)
  <2> DEFINE r == [job[j] EXCEPT !.pc = "load", !.saw = "none"]
  <2>1. job' = [job EXCEPT ![j] = r] /\ UNCHANGED <<wanted, mails>>
    BY <1>1, <1>4 DEF Claim, JobOnly, userVars
  <2>2. r.wants = job[j].wants /\ r.batch = job[j].batch
    BY <1>1 DEF JobRecords
  <2> HIDE DEF r
  <2>3. QED
    BY <1>2, <2>1, <2>2, JobUnmailed
<1>5. CASE Load(j)
  <2> DEFINE found == Waiting \cap ready
             r == [job[j] EXCEPT !.pc = "skip", !.batch = found \cap job[j].wants,
                                 !.skipped = found \ job[j].wants, !.wants = {}]
  <2>1. job' = [job EXCEPT ![j] = r] /\ UNCHANGED <<wanted, mails>>
    BY <1>1, <1>5 DEF Load, JobOnly, userVars
  <2>2. r.wants = {} /\ r.batch \subseteq job[j].wants
    BY <1>1 DEF JobRecords
  <2> HIDE DEF r
  <2>3. QED
    BY <1>2, <2>1, <2>2, JobUnmailed
<1>6. CASE Skip(j)
  <2> DEFINE r == [job[j] EXCEPT !.pc = "deliver", !.skipped = {}]
  <2>1. UNCHANGED <<wanted, mails>>
        /\ (job' = [job EXCEPT ![j] = NoJob] \/ job' = [job EXCEPT ![j] = r])
    BY <1>1, <1>6 DEF Skip, Finished, userVars
  <2>2. r.wants = job[j].wants /\ r.batch = job[j].batch
    BY <1>1 DEF JobRecords
  <2> HIDE DEF r
  <2>3. QED
    BY <1>1, <1>2, <2>1, <2>2, JobUnmailed
<1>7. CASE Deliver(j)
  <2>1. /\ job' = [job EXCEPT ![j].pc = "mark"] /\ UNCHANGED wanted
        /\ \A n \in Notifications : n \notin job[j].batch => mails'[n] = mails[n]
    BY <1>7 DEF Deliver, JobOnly, userVars
  <2>2. \A i \in Jobs : job'[i].wants = job[i].wants /\ job'[i].batch = job[i].batch
    BY <1>1, <2>1 DEF JobRecords
  <2>3. CopiesNotMailed'
    BY <1>2, <2>1, DigestAssumption DEF Unmailed, CopiesNotMailed
  <2>4. QED
    BY <2>1, <2>2, <2>3 DEF Unmailed
<1>8. CASE MarkSent(j)
  <2> DEFINE r == [job[j] EXCEPT !.pc = "record", !.batch = {}]
  <2>1. job' = [job EXCEPT ![j] = r] /\ UNCHANGED <<wanted, mails>>
    BY <1>1, <1>8 DEF MarkSent, userVars
  <2>2. r.wants = job[j].wants /\ r.batch = {}
    BY <1>1 DEF JobRecords
  <2> HIDE DEF r
  <2>3. QED
    BY <1>2, <2>1, <2>2, JobUnmailed
<1>9. CASE RecordSent(j)
  <2>1. job' = [job EXCEPT ![j] = NoJob] /\ UNCHANGED <<wanted, mails>>
    BY <1>9 DEF RecordSent, Finished, JobOnly, userVars
  <2>2. QED
    BY <1>1, <2>1, JobUnmailed
<1> QED BY <1>3, <1>4, <1>5, <1>6, <1>7, <1>8, <1>9 DEF Perform

\* A job that ends or starts again holds nothing.
LEMMA EmptyUnmailed ==
    ASSUME TypeOK, Unmailed, NEW j \in Jobs, Poll \/ Fail(j) \/ Kill(j) \/ Reap
    PROVE  Unmailed'
<1>1. /\ NoJob.wants = {} /\ NoJob.batch = {}
      /\ Enqueued.wants = {} /\ Enqueued.batch = {}
  BY DEF NoJob, Enqueued
<1>2. CASE Poll
  <2>1. PICK i \in Jobs : job' = [job EXCEPT ![i] = Enqueued]
    BY <1>2 DEF Poll, Idle
  <2>2. UNCHANGED <<wanted, mails>>
    BY <1>2 DEF Poll, JobOnly, userVars
  <2>3. QED
    BY <1>1, <2>1, <2>2, JobUnmailed
<1>3. CASE Fail(j) \/ Kill(j)
  <2> DEFINE r == [NoJob EXCEPT !.pc = "retry", !.attempt = job[j].attempt + 1]
  <2>1. r.wants = {} /\ r.batch = {}
    BY DEF NoJob
  <2>2. /\ job' = [job EXCEPT ![j] = r] \/ job' = [job EXCEPT ![j] = NoJob]
        /\ UNCHANGED <<wanted, mails>>
    BY <1>3 DEF Fail, Kill, Finished, userVars
  <2> HIDE DEF r
  <2>3. QED
    BY <1>1, <2>1, <2>2, JobUnmailed
<1>4. CASE Reap
  BY <1>4 DEF Reap, JobOnly, userVars, Unmailed, CopiesNotMailed
<1> QED BY <1>2, <1>3, <1>4

\* An in-app copy of an e-mail is never mailed by a digest: also when the digest
\* finds it between the two statements that record it, or the second never ran.
THEOREM CopiesStayInApp == Spec => []CopiesNotMailed
<1>1. Init => Unmailed
  BY DigestAssumption DEF Init, Unmailed, CopiesNotMailed, NoJob
<1>2. IInv /\ Unmailed /\ [Next]_vars => Unmailed'
  <2> SUFFICES ASSUME IInv, Unmailed, [Next]_vars PROVE Unmailed'
    OBVIOUS
  <2>0. TypeOK
    BY DEF IInv
  <2>1. ASSUME NEW n \in Notifications, Recording(n) \/ Using(n) PROVE Unmailed'
    <3>1. CASE Prune(n)
      <4>1. /\ mails' = [mails EXCEPT ![n] = 0] /\ mails \in [Notifications -> Nat]
            /\ UNCHANGED <<wanted, job>>
        BY <2>0, <3>1 DEF Prune, userVars, jobVars, TypeOK
      <4>2. CopiesNotMailed'
        BY <4>1, DigestAssumption DEF Unmailed, CopiesNotMailed
      <4>3. QED
        BY <4>1, <4>2 DEF Unmailed
    <3>2. CASE ChangeChannels(n)
      BY <3>2 DEF ChangeChannels, jobVars, Unmailed, CopiesNotMailed
    <3>3. CASE Recording(n) \/ MarkRead(n) \/ Reopen(n)
      <4>1. UNCHANGED <<wanted, job, mails>>
        BY <3>3 DEF Recording, Create, NotMailed, CreatorDies, GraceEnds, MarkRead,
           Reopen, userVars, jobVars
      <4>2. QED
        BY <4>1 DEF Unmailed, CopiesNotMailed
    <3>4. QED
      BY <2>1, <3>1, <3>2, <3>3 DEF Using
  <2>2. CASE Settings \/ SlotComes \/ UNCHANGED vars
    <3>1. UNCHANGED <<wanted, job, mails>>
      BY <2>2 DEF Settings, SwitchOff, ProcessPending, SwitchOn, SlotComes, vars,
         userVars, jobVars
    <3>2. QED
      BY <3>1 DEF Unmailed, CopiesNotMailed
  <2>3. CASE Reap
    BY <2>3 DEF Reap, JobOnly, userVars, Unmailed, CopiesNotMailed
  <2>4. CASE Poll
    <3>1. PICK j \in Jobs : TRUE
      BY <2>4 DEF Poll, Idle
    <3>2. QED
      BY <2>0, <2>4, EmptyUnmailed
  <2>5. ASSUME NEW j \in Jobs, Perform(j) \/ Fail(j) \/ Kill(j) PROVE Unmailed'
    BY <2>0, <2>5, PerformUnmailed, EmptyUnmailed
  <2>6. QED
    BY <2>1, <2>2, <2>3, <2>4, <2>5 DEF Next
<1>3. Unmailed => CopiesNotMailed
  BY DEF Unmailed
<1> QED BY <1>1, <1>2, <1>3, SpecIInv, PTL DEF Spec

----------------------------------------------------------------------------
(* The digest implements its ledger *)

LedgerStep == [Ledger!Next]_(Ledger!ledger)

\* What is taken is what the one job holds.
LEMMA TakenOfJob ==
    ASSUME IInv, NEW j \in Jobs, Present(j), NEW r \in JobRecords,
           job' = [job EXCEPT ![j] = r]
    PROVE  Taken = job[j].batch /\ Taken' = r.batch
<1>1. job \in [Jobs -> JobRecords]
  BY DEF IInv, TypeOK
<1>2. \A i \in Jobs : i # j => job[i].batch = {} /\ job'[i] = job[i]
  BY <1>1, Sole DEF IInv
<1>3. job'[j] = r
  BY <1>1
<1> QED BY <1>2, <1>3 DEF Taken

LEMMA LedgerStutters ==
    ASSUME UNCHANGED <<rows, processed, mails>>, Taken' = Taken
    PROVE  LedgerStep
BY DEF LedgerStep, Ledger!ledger

\* More rows are processed by something else than a mark.
LEMMA LedgerSettles ==
    ASSUME IInv, IInv', UNCHANGED <<rows, mails>>, Taken' = Taken,
           processed \subseteq processed'
    PROVE  LedgerStep
<1>1. processed' \subseteq rows /\ rows \subseteq Notifications
  BY DEF IInv, TypeOK
<1>2. CASE processed' = processed
  BY <1>2, LedgerStutters
<1>3. CASE processed' # processed
  <2> DEFINE S == processed' \ processed
  <2>1. Ledger!Settle(S)
    BY <1>1, <1>3 DEF Ledger!Settle
  <2>2. S \in SUBSET Notifications
    BY <1>1
  <2>3. QED
    BY <2>1, <2>2 DEF LedgerStep, Ledger!Next
<1> QED BY <1>2, <1>3

LEMMA LedgerGivesBack ==
    ASSUME UNCHANGED <<rows, processed, mails>>, Taken' = {}
    PROVE  LedgerStep
<1>1. CASE Taken = {}
  BY <1>1, LedgerStutters
<1>2. CASE Taken # {}
  BY <1>2 DEF LedgerStep, Ledger!Next, Ledger!GiveBack
<1> QED BY <1>1, <1>2

LEMMA UserImplements ==
    ASSUME IInv, IInv', NEW n \in Notifications, Recording(n) \/ Using(n)
    PROVE  LedgerStep
<1>1. CASE Create(n)
  <2>1. Taken' = Taken
    BY <1>1 DEF Create, jobVars, Taken
  <2>2. n \notin rows /\ n \notin processed /\ mails[n] = 0
    BY <1>1 DEF Create, IInv, TypeOK, Counts
  <2>3. rows' = rows \cup {n} /\ processed' = processed /\ mails' = mails
    BY <1>1 DEF Create
  <2>4. Ledger!Record(n)
    BY <2>1, <2>2, <2>3 DEF Ledger!Record
  <2>5. QED
    BY <2>4 DEF LedgerStep, Ledger!Next
<1>2. CASE Prune(n)
  <2>1. Taken' = Taken /\ n \notin Taken
    BY <1>2 DEF Prune, jobVars, Taken
  <2>2. n \in processed /\ mails \in [Notifications -> Nat]
        /\ rows \subseteq Notifications
    BY <1>2 DEF Prune, IInv, TypeOK
  <2>3. rows' = rows \ {n} /\ processed' = processed \ {n}
        /\ mails' = [mails EXCEPT ![n] = 0]
    BY <1>2 DEF Prune
  <2>4. Ledger!Forget(n)
    BY <2>1, <2>2, <2>3 DEF Ledger!Forget
  <2>5. QED
    BY <2>4 DEF LedgerStep, Ledger!Next
<1>3. CASE NotMailed(n)
  BY <1>3, LedgerSettles DEF NotMailed, jobVars, Taken
<1>4. CASE CreatorDies(n)
  BY <1>4, LedgerStutters DEF CreatorDies, jobVars, Taken
<1>5. CASE GraceEnds(n)
  BY <1>5, LedgerStutters DEF GraceEnds, rowVars, jobVars, Taken
<1>6. CASE MarkRead(n)
  BY <1>6, LedgerSettles DEF MarkRead, jobVars, Taken
<1>7. CASE Reopen(n)
  BY <1>7, LedgerStutters DEF Reopen, jobVars, Taken
<1>8. CASE ChangeChannels(n)
  BY <1>8, LedgerStutters DEF ChangeChannels, rowVars, jobVars, Taken
<1> QED BY <1>1, <1>2, <1>3, <1>4, <1>5, <1>6, <1>7, <1>8 DEF Recording, Using

LEMMA SettingsImplement ==
    ASSUME IInv, IInv', Settings \/ SlotComes
    PROVE  LedgerStep
<1>1. CASE SwitchOff
  BY <1>1, LedgerStutters DEF SwitchOff, rowVars, jobVars, Taken
<1>2. CASE ProcessPending
  BY <1>2, LedgerSettles DEF ProcessPending, jobVars, Taken
<1>3. CASE SwitchOn
  BY <1>3, LedgerStutters DEF SwitchOn, rowVars, jobVars, Taken
<1>4. CASE SlotComes
  BY <1>4, LedgerStutters DEF SlotComes, rowVars, jobVars, Taken
<1> QED BY <1>1, <1>2, <1>3, <1>4 DEF Settings

LEMMA PollImplements ==
    ASSUME IInv, Poll \/ Reap
    PROVE  LedgerStep
<1>1. CASE Poll
  <2> DEFINE c == CHOOSE i \in Idle : TRUE
  <2>1. job' = [job EXCEPT ![c] = Enqueued] /\ c \in Idle /\ ~lock
    BY <1>1 DEF Poll
  <2> HIDE DEF c
  <2>2. c \in Jobs /\ job \in [Jobs -> JobRecords]
    BY <2>1 DEF Idle, IInv, TypeOK
  <2>3. \A i \in Jobs : job[i].batch = {}
    BY <2>1 DEF IInv, Alone, Present, Holds
  <2>4. \A i \in Jobs : job'[i] = IF i = c THEN Enqueued ELSE job[i]
    BY <2>1, <2>2
  <2>5. Enqueued.batch = {}
    BY DEF Enqueued, NoJob
  <2>6. Taken = {} /\ Taken' = {}
    BY <2>3, <2>4, <2>5 DEF Taken
  <2>7. QED
    BY <1>1, <2>6, LedgerStutters DEF Poll, JobOnly, rowVars
<1>2. CASE Reap
  BY <1>2, LedgerStutters DEF Reap, JobOnly, rowVars, Taken
<1> QED BY <1>1, <1>2

LEMMA PerformImplements ==
    ASSUME IInv, IInv', NEW j \in Jobs, Perform(j)
    PROVE  LedgerStep
<1>1. job[j] \in JobRecords /\ job \in [Jobs -> JobRecords] /\ Holds(job[j])
  BY DEF IInv, TypeOK
<1>2. Present(j)
  BY DEF Perform, Begin, Claim, Load, Skip, Deliver, MarkSent, RecordSent, At, Present
<1>3. ASSUME NEW r, job' = [job EXCEPT ![j] = r]
      PROVE  Taken = job[j].batch /\ Taken' = r.batch
  <2>1. r \in JobRecords
    <3>1. job' \in [Jobs -> JobRecords] /\ job'[j] = r
      BY <1>1, <1>3 DEF IInv, TypeOK
    <3>2. QED
      BY <3>1
  <2>2. QED
    BY <1>2, <1>3, <2>1, TakenOfJob
<1>4. NoJob.batch = {}
  BY DEF NoJob
<1>5. CASE Begin(j)
  <2>1. CASE frequency = "off"
    <3>1. Taken' = {}
      BY <1>3, <1>4, <1>5, <2>1 DEF Begin, Finished
    <3>2. QED
      BY <1>5, <3>1, LedgerGivesBack DEF Begin, JobOnly, rowVars
  <2>2. CASE frequency # "off"
    <3> DEFINE r == [job[j] EXCEPT !.pc = "claim", !.saw = nextDigest, !.wants = wanted]
    <3>1. job' = [job EXCEPT ![j] = r]
      BY <1>5, <2>2 DEF Begin
    <3>2. r.batch = job[j].batch
      BY <1>1 DEF JobRecords
    <3> HIDE DEF r
    <3>3. Taken' = Taken
      BY <1>3, <3>1, <3>2
    <3>4. QED
      BY <1>5, <3>3, LedgerStutters DEF Begin, JobOnly, rowVars
  <2>3. QED
    BY <2>1, <2>2
<1>6. CASE Claim(j)
  <2> DEFINE r == [job[j] EXCEPT !.pc = "load", !.saw = "none"]
  <2>1. job' = [job EXCEPT ![j] = r]
    BY <1>6 DEF Claim
  <2>2. r.batch = job[j].batch
    BY <1>1 DEF JobRecords
  <2> HIDE DEF r
  <2>3. Taken' = Taken
    BY <1>3, <2>1, <2>2
  <2>4. QED
    BY <1>6, <2>3, LedgerStutters DEF Claim, JobOnly, rowVars
<1>7. CASE Load(j)
  <2> DEFINE found == Waiting \cap ready
             carry == found \cap job[j].wants
             skip == found \ job[j].wants
             r == [job[j] EXCEPT !.pc = "skip", !.batch = carry, !.skipped = skip,
                                 !.wants = {}]
  <2>1. job' = [job EXCEPT ![j] = r]
        /\ UNCHANGED <<rows, processed, mails>>
    BY <1>7 DEF Load, JobOnly, rowVars
  <2>2. carry \subseteq rows \ processed
    BY DEF Waiting
  <2>3. r.batch = carry
    BY <1>1 DEF JobRecords
  <2>4. job[j].batch = {}
    BY <1>1, <1>7 DEF Load, At, Holds
  <2> HIDE DEF carry, found, skip, r
  <2>5. Taken = {} /\ Taken' = carry
    BY <1>3, <2>1, <2>3, <2>4
  <2>6. CASE carry = {}
    BY <2>1, <2>5, <2>6, LedgerStutters
  <2>7. CASE carry # {}
    <3>1. Ledger!Take(carry)
      BY <2>1, <2>2, <2>5, <2>7 DEF Ledger!Take
    <3>2. carry \in SUBSET Notifications
      BY <2>2 DEF IInv, TypeOK
    <3>3. QED
      BY <3>1, <3>2 DEF LedgerStep, Ledger!Next
  <2>8. QED
    BY <2>6, <2>7
<1>8. CASE Skip(j)
  <2>1. UNCHANGED <<rows, mails>> /\ processed \subseteq processed'
    BY <1>8 DEF Skip
  <2>2. CASE job[j].batch = {}
    <3>1. Taken' = Taken
      BY <1>3, <1>4, <1>8, <2>2 DEF Skip, Finished
    <3>2. QED
      BY <2>1, <3>1, LedgerSettles
  <2>3. CASE job[j].batch # {}
    <3> DEFINE r == [job[j] EXCEPT !.pc = "deliver", !.skipped = {}]
    <3>1. job' = [job EXCEPT ![j] = r]
      BY <1>8, <2>3 DEF Skip
    <3>2. r.batch = job[j].batch
      BY <1>1 DEF JobRecords
    <3> HIDE DEF r
    <3>3. Taken' = Taken
      BY <1>3, <3>1, <3>2
    <3>4. QED
      BY <2>1, <3>3, LedgerSettles
  <2>4. QED
    BY <2>2, <2>3
<1>9. CASE Deliver(j)
  <2> DEFINE r == [job[j] EXCEPT !.pc = "mark"]
  <2>1. job' = [job EXCEPT ![j] = r]
    BY <1>9 DEF Deliver
  <2>2. r.batch = job[j].batch
    BY <1>1 DEF JobRecords
  <2> HIDE DEF r
  <2>3. Taken = job[j].batch /\ Taken' = job[j].batch
    BY <1>3, <2>1, <2>2
  <2>4. UNCHANGED <<rows, processed>> /\ job[j].batch # {} /\ job[j].batch \subseteq rows
    BY <1>1, <1>9 DEF Deliver, JobOnly, rowVars, Holds, At
  <2>5. \A n \in rows : mails[n] \in Nat
        /\ mails'[n] = (IF n \in job[j].batch THEN mails[n] + 1 ELSE mails[n])
    BY <1>9 DEF Deliver, IInv, TypeOK
  <2>6. \A n \in rows : mails'[n] > 0 <=> mails[n] > 0 \/ n \in job[j].batch
    BY <2>5
  <2>7. Ledger!Mail
    BY <2>3, <2>4, <2>6 DEF Ledger!Mail
  <2>8. QED
    BY <2>7 DEF LedgerStep, Ledger!Next
<1>10. CASE MarkSent(j)
  <2> DEFINE r == [job[j] EXCEPT !.pc = "record", !.batch = {}]
  <2>1. job' = [job EXCEPT ![j] = r]
    BY <1>10 DEF MarkSent
  <2>2. r.batch = {}
    BY <1>1 DEF JobRecords
  <2> HIDE DEF r
  <2>3. Taken = job[j].batch /\ Taken' = {}
    BY <1>3, <2>1, <2>2
  <2>4. job[j].batch # {} /\ job[j].batch \subseteq rows
    BY <1>1, <1>10 DEF MarkSent, Holds, At
  <2>5. rows' = rows /\ mails' = mails /\ processed' = processed \cup job[j].batch
    BY <1>10, <2>4 DEF MarkSent
  <2>6. \A n \in job[j].batch : n \in rows /\ mails[n] > 0
    <3> SUFFICES ASSUME NEW n \in job[j].batch PROVE n \in rows /\ mails[n] > 0
      OBVIOUS
    <3>1. Carried(n) /\ n \in Notifications
      BY <1>10, <2>4 DEF MarkSent, Carried, IInv, TypeOK
    <3>2. QED
      BY <2>4, <3>1 DEF IInv, Counts
  <2>7. Ledger!Conclude
    BY <2>3, <2>4, <2>5, <2>6 DEF Ledger!Conclude
  <2>8. QED
    BY <2>7 DEF LedgerStep, Ledger!Next
<1>11. CASE RecordSent(j)
  <2>1. Taken' = {}
    BY <1>3, <1>4, <1>11 DEF RecordSent, Finished
  <2>2. QED
    BY <1>11, <2>1, LedgerGivesBack DEF RecordSent, JobOnly, rowVars
<1> QED BY <1>5, <1>6, <1>7, <1>8, <1>9, <1>10, <1>11 DEF Perform

LEMMA BreakingOffImplements ==
    ASSUME IInv, IInv', NEW j \in Jobs, Fail(j) \/ Kill(j)
    PROVE  LedgerStep
<1>1. Present(j) /\ UNCHANGED <<rows, processed, mails>>
  BY DEF Fail, Kill, Working, Present, rowVars
<1>2. job \in [Jobs -> JobRecords] /\ job' \in [Jobs -> JobRecords]
  BY DEF IInv, TypeOK
<1> DEFINE again == [NoJob EXCEPT !.pc = "retry", !.attempt = job[j].attempt + 1]
<1>3. job' = [job EXCEPT ![j] = again] \/ job' = [job EXCEPT ![j] = NoJob]
  BY DEF Fail, Kill, Finished
<1>4. again.batch = {} /\ NoJob.batch = {}
  BY DEF NoJob
<1> HIDE DEF again
<1>5. PICK r : job' = [job EXCEPT ![j] = r] /\ r.batch = {}
  BY <1>3, <1>4
<1>6. r \in JobRecords
  <2>1. job'[j] = r
    BY <1>2, <1>5
  <2>2. QED
    BY <1>2, <2>1
<1>7. Taken' = {}
  BY <1>1, <1>5, <1>6, TakenOfJob
<1> QED BY <1>1, <1>7, LedgerGivesBack

LEMMA StepImplements == IInv /\ IInv' /\ [Next]_vars => LedgerStep
<1> SUFFICES ASSUME IInv, IInv', [Next]_vars PROVE LedgerStep
  OBVIOUS
<1>1. CASE \E n \in Notifications : Recording(n) \/ Using(n)
  BY <1>1, UserImplements
<1>2. CASE Settings \/ SlotComes
  BY <1>2, SettingsImplement
<1>3. CASE Poll \/ Reap
  BY <1>3, PollImplements
<1>4. CASE \E j \in Jobs : Perform(j) \/ Fail(j) \/ Kill(j)
  BY <1>4, PerformImplements, BreakingOffImplements
<1>5. CASE UNCHANGED vars
  BY <1>5, LedgerStutters DEF vars, rowVars, jobVars, Taken
<1> QED BY <1>1, <1>2, <1>3, <1>4, <1>5 DEF Next

\* The digest with its polls, retries, kills and reaper implements one sender
\* at a time, that mails what it took and settles what it mailed.
THEOREM ImplementsLedger == Spec => OneSender
<1>1. Init => Ledger!Init
  BY DEF Init, Ledger!Init, Taken, NoJob
<1>2. IInv /\ IInv' /\ [Next]_vars => [Ledger!Next]_(Ledger!ledger)
  BY StepImplements DEF LedgerStep
<1> QED BY <1>1, <1>2, SpecIInv, PTL DEF Spec, OneSender, Ledger!Spec
============================================================================
