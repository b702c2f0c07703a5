------------------------- MODULE NotificationDigests -------------------------
(***************************************************************************)
(* The notifications of one user and the digest that mails them.  Requests *)
(* and jobs all over the system record notifications; the user reads and   *)
(* reopens them, chooses which kinds are mailed and turns the digest on    *)
(* and off; a poll every five minutes enqueues a job when the digest is    *)
(* due, and the job claims the slot, loads what waits, mails it and marks  *)
(* it.  Jobs can fail, be retried and be killed; only the unique-job lock  *)
(* keeps two of them apart.                                                *)
(*                                                                         *)
(* A notification is named by its deduplication key.  Time is what has     *)
(* come due: the slot of the digest, and the e-mail of a notification with *)
(* a grace period.                                                         *)
(*                                                                         *)
(* An operator marked "mutant" is not part of the specification: it is a   *)
(* mistake that could be made in the definition that follows it, and one   *)
(* of the properties fails when it takes its place.                        *)
(***************************************************************************)
EXTENDS Integers, FiniteSets

CONSTANTS
    Notifications, \* deduplication keys
    InAppCopies,   \* those of kind communication_email: already sent as mail
    Jobs,          \* SendNotificationDigestJobs that can be in Redis at once
    MaxRetries,    \* retry: 5 in the code
    MaxFaults,     \* bound: exceptions in a job and kills of the worker
    MaxReopens     \* bound: notifications the user reopens

ASSUME DigestAssumption ==
    /\ InAppCopies \subseteq Notifications
    /\ MaxRetries \in Nat /\ MaxFaults \in Nat /\ MaxReopens \in Nat

VARIABLES
    rows,       \* notifications in the database
    read,       \* rows with read_at
    processed,  \* rows with email_processed_at
    sent,       \* rows with email_sent_at
    ready,      \* keys whose email_not_before has passed
    creating,   \* rows saved by a create_event that has yet to look at channels
    wanted,     \* keys whose kind and unit are mailed by the user's settings
    frequency,  \* digest_frequency, "off" or any other ("on")
    nextDigest, \* next_digest_at: "none", "due" or "later"
    clearing,   \* the digest was turned off, its after_commit is to come
    job,        \* the digest jobs in the queue, on a worker or to be retried
    lock,       \* the digest of the unique job is taken in Redis
    faults, reopens,
    mails,      \* history variable: digests that carried a row
    broken      \* history variable: attempts that ended between mail and mark

rowVars  == <<rows, read, processed, sent, creating>>
userVars == <<wanted, frequency, clearing>>
jobVars  == <<job, lock>>
vars == <<rowVars, ready, userVars, nextDigest, jobVars, faults, reopens,
          mails, broken>>

Waiting == {n \in rows : n \notin read /\ n \notin processed}

-------------------------------------------------------------------------------
(* Jobs *)

Working == {"claim", "load", "skip", "deliver", "mark", "record"}
NoJob == [pc |-> "none", attempt |-> 0, saw |-> "none", wants |-> {},
          skipped |-> {}, batch |-> {}]

At(j, place) == job[j].pc = place
Idle == {j \in Jobs : At(j, "none")}

Finished(j) ==
    /\ job' = [job EXCEPT ![j] = NoJob]
    /\ lock' = FALSE

\* What a job, a mail and a mark leave alone.
JobOnly == UNCHANGED <<rowVars, ready, userVars, faults, reopens, broken>>

-------------------------------------------------------------------------------
(* Recording, reading and pruning notifications *)

\* create_event up to its save!: the digest may see the row before the
\* second statement has processed it.
Create(n) ==
    /\ n \notin rows
    /\ rows' = rows \cup {n}
    /\ creating' = IF n \in wanted THEN creating ELSE creating \cup {n}
    /\ UNCHANGED <<read, processed, sent, ready, userVars, nextDigest, jobVars,
                   faults, reopens, mails, broken>>

NotMailed(n) ==
    /\ n \in creating
    /\ creating' = creating \ {n}
    /\ processed' = processed \cup {n}
    /\ UNCHANGED <<rows, read, sent, ready, userVars, nextDigest, jobVars,
                   faults, reopens, mails, broken>>

CreatorDies(n) ==
    /\ n \in creating
    /\ faults < MaxFaults
    /\ faults' = faults + 1
    /\ creating' = creating \ {n}
    /\ UNCHANGED <<rows, read, processed, sent, ready, userVars, nextDigest,
                   jobVars, reopens, mails, broken>>

GraceEnds(n) ==
    /\ n \notin ready
    /\ ready' = ready \cup {n}
    /\ UNCHANGED <<rowVars, userVars, nextDigest, jobVars, faults, reopens,
                   mails, broken>>

MarkRead(n) ==
    /\ n \in rows \ read
    /\ read' = read \cup {n}
    /\ processed' = processed \cup {n}
    /\ UNCHANGED <<rows, sent, creating, ready, userVars, nextDigest, jobVars,
                   faults, reopens, mails, broken>>

\* mutant: the e-mail comes back with the notification
ReopenAll(n) ==
    /\ n \in rows \cap read
    /\ reopens < MaxReopens
    /\ reopens' = reopens + 1
    /\ read' = read \ {n}
    /\ processed' = processed \ {n}
    /\ UNCHANGED <<rows, sent, creating, ready, userVars, nextDigest, jobVars,
                   faults, mails, broken>>

Reopen(n) ==
    /\ n \in rows \cap read
    /\ reopens < MaxReopens
    /\ reopens' = reopens + 1
    /\ read' = read \ {n}
    /\ UNCHANGED <<rows, processed, sent, creating, ready, userVars, nextDigest,
                   jobVars, faults, mails, broken>>

\* Ninety days after it was read: no job that loaded it unread is still there,
\* nor the request that recorded it.
Prune(n) ==
    /\ n \in (rows \cap read) \ creating
    /\ \A j \in Jobs : n \notin job[j].batch \cup job[j].skipped
    /\ rows' = rows \ {n}
    /\ read' = read \ {n}
    /\ processed' = processed \ {n}
    /\ sent' = sent \ {n}
    /\ mails' = [mails EXCEPT ![n] = 0]
    /\ broken' = [broken EXCEPT ![n] = 0]
    /\ UNCHANGED <<creating, ready, userVars, nextDigest, jobVars, faults, reopens>>

-------------------------------------------------------------------------------
(* The user's settings *)

ChangeChannels(n) ==
    /\ n \notin InAppCopies
    /\ wanted' = IF n \in wanted THEN wanted \ {n} ELSE wanted \cup {n}
    /\ UNCHANGED <<rowVars, ready, frequency, clearing, nextDigest, jobVars,
                   faults, reopens, mails, broken>>

SwitchOff ==
    /\ frequency = "on"
    /\ frequency' = "off"
    /\ nextDigest' = "none"
    /\ clearing' = TRUE
    /\ UNCHANGED <<rowVars, ready, wanted, jobVars, faults, reopens, mails, broken>>

\* process_pending_notifications, after the commit
ProcessPending ==
    /\ clearing
    /\ clearing' = FALSE
    /\ processed' = processed \cup Waiting
    /\ UNCHANGED <<rows, read, sent, creating, ready, wanted, frequency,
                   nextDigest, jobVars, faults, reopens, mails, broken>>

SwitchOn ==
    /\ frequency = "off" /\ ~clearing
    /\ frequency' = "on"
    /\ nextDigest' = "later"
    /\ UNCHANGED <<rowVars, ready, wanted, clearing, jobVars, faults, reopens,
                   mails, broken>>

SlotComes ==
    /\ nextDigest = "later"
    /\ nextDigest' = "due"
    /\ UNCHANGED <<rowVars, ready, userVars, jobVars, faults, reopens, mails, broken>>

-------------------------------------------------------------------------------
(* The poll and the digest job *)

Enqueued == [NoJob EXCEPT !.pc = "queued"]

\* A second job of the setting is rejected while the lock is taken.
Poll ==
    /\ frequency = "on" /\ nextDigest = "due"
    /\ ~lock
    /\ Idle # {}
    /\ LET j == CHOOSE i \in Idle : TRUE IN job' = [job EXCEPT ![j] = Enqueued]
    /\ lock' = TRUE
    /\ JobOnly /\ UNCHANGED <<nextDigest, mails>>

Begin(j) ==
    /\ job[j].pc \in {"queued", "retry"}
    /\ IF frequency = "off"
       THEN Finished(j)
       ELSE /\ job' = [job EXCEPT ![j].pc = "claim", ![j].saw = nextDigest,
                                  ![j].wants = wanted]
            /\ UNCHANGED lock
    /\ JobOnly /\ UNCHANGED <<nextDigest, mails>>

\* mutant: the slot is used up and none is set
ClaimForGood(j) ==
    /\ At(j, "claim")
    /\ nextDigest' = IF job[j].saw = "later" THEN nextDigest ELSE "none"
    /\ job' = [job EXCEPT ![j].pc = "load", ![j].saw = "none"]
    /\ JobOnly /\ UNCHANGED <<lock, mails>>

\* claim_digest! decides on the setting the job loaded; a slot that is taken
\* already does not stop the job.
Claim(j) ==
    /\ At(j, "claim")
    /\ nextDigest' = IF job[j].saw = "later" THEN nextDigest ELSE "later"
    /\ job' = [job EXCEPT ![j].pc = "load", ![j].saw = "none"]
    /\ JobOnly /\ UNCHANGED <<lock, mails>>

\* mutant: all that waits is delivered, wanted or not
LoadAll(j) ==
    /\ At(j, "load")
    /\ job' = [job EXCEPT ![j].pc = "skip", ![j].batch = Waiting \cap ready,
                          ![j].wants = {}]
    /\ JobOnly /\ UNCHANGED <<lock, nextDigest, mails>>

Load(j) ==
    /\ At(j, "load")
    /\ LET found == Waiting \cap ready IN
       job' = [job EXCEPT ![j].pc = "skip",
                          ![j].batch = found \cap job[j].wants,
                          ![j].skipped = found \ job[j].wants,
                          ![j].wants = {}]
    /\ JobOnly /\ UNCHANGED <<lock, nextDigest, mails>>

\* mutant: what was skipped is marked as sent
SkipAsSent(j) ==
    /\ At(j, "skip")
    /\ processed' = processed \cup (job[j].skipped \cap rows)
    /\ sent' = sent \cup (job[j].skipped \cap rows)
    /\ IF job[j].batch = {}
       THEN Finished(j)
       ELSE /\ job' = [job EXCEPT ![j].pc = "deliver", ![j].skipped = {}]
            /\ UNCHANGED lock
    /\ UNCHANGED <<rows, read, creating, ready, userVars, nextDigest,
                   faults, reopens, mails, broken>>

Skip(j) ==
    /\ At(j, "skip")
    /\ processed' = processed \cup (job[j].skipped \cap rows)
    /\ IF job[j].batch = {}
       THEN Finished(j)
       ELSE /\ job' = [job EXCEPT ![j].pc = "deliver", ![j].skipped = {}]
            /\ UNCHANGED lock
    /\ UNCHANGED <<rows, read, sent, creating, ready, userVars, nextDigest,
                   faults, reopens, mails, broken>>

\* mutant: a delivery that fails is logged, and the job goes on
DeliverQuietly(j) ==
    /\ At(j, "deliver")
    /\ job' = [job EXCEPT ![j].pc = "mark"]
    /\ JobOnly /\ UNCHANGED <<lock, nextDigest, mails>>

Deliver(j) ==
    /\ At(j, "deliver")
    /\ job' = [job EXCEPT ![j].pc = "mark"]
    /\ mails' = [n \in Notifications |->
                    IF n \in job[j].batch THEN mails[n] + 1 ELSE mails[n]]
    /\ JobOnly /\ UNCHANGED <<lock, nextDigest>>

MarkSent(j) ==
    /\ At(j, "mark")
    /\ processed' = processed \cup (job[j].batch \cap rows)
    /\ sent' = sent \cup (job[j].batch \cap rows)
    /\ job' = [job EXCEPT ![j].pc = "record", ![j].batch = {}]
    /\ UNCHANGED <<rows, read, creating, ready, userVars, nextDigest, lock,
                   faults, reopens, mails, broken>>

RecordSent(j) ==
    /\ At(j, "record")
    /\ Finished(j)
    /\ JobOnly /\ UNCHANGED <<nextDigest, mails>>

\* An attempt ends between the mail and the mark.
Breaks(j) == broken' = [n \in Notifications |->
    IF At(j, "mark") /\ n \in job[j].batch THEN broken[n] + 1 ELSE broken[n]]

\* mutant: a job that keeps failing is retried for ever
FailAgain(j) ==
    /\ job[j].pc \in Working
    /\ faults < MaxFaults
    /\ faults' = faults + 1
    /\ job' = [job EXCEPT ![j] = [NoJob EXCEPT !.pc = "retry",
                                              !.attempt = job[j].attempt + 1]]
    /\ Breaks(j)
    /\ UNCHANGED <<rowVars, ready, userVars, nextDigest, lock, reopens, mails>>

Fail(j) ==
    /\ job[j].pc \in Working
    /\ faults < MaxFaults
    /\ faults' = faults + 1
    /\ IF job[j].attempt < MaxRetries
       THEN /\ job' = [job EXCEPT ![j] = [NoJob EXCEPT !.pc = "retry",
                                                       !.attempt = job[j].attempt + 1]]
            /\ UNCHANGED lock
       ELSE Finished(j)
    /\ Breaks(j)
    /\ UNCHANGED <<rowVars, ready, userVars, nextDigest, reopens, mails>>

\* A killed worker loses the job and leaves its lock in Redis.
Kill(j) ==
    /\ job[j].pc \in Working
    /\ faults < MaxFaults
    /\ faults' = faults + 1
    /\ job' = [job EXCEPT ![j] = NoJob]
    /\ Breaks(j)
    /\ UNCHANGED <<rowVars, ready, userVars, nextDigest, lock, reopens, mails>>

Reap ==
    /\ lock /\ Idle = Jobs
    /\ lock' = FALSE
    /\ JobOnly /\ UNCHANGED <<job, nextDigest, mails>>

-------------------------------------------------------------------------------
Init ==
    /\ rows = {} /\ read = {} /\ processed = {} /\ sent = {} /\ creating = {}
    /\ ready \in SUBSET Notifications
    /\ wanted = Notifications \ InAppCopies
    /\ frequency = "on" /\ nextDigest = "later" /\ clearing = FALSE
    /\ job = [j \in Jobs |-> NoJob] /\ lock = FALSE
    /\ faults = 0 /\ reopens = 0
    /\ mails = [n \in Notifications |-> 0]
    /\ broken = [n \in Notifications |-> 0]

Recording(n) == Create(n) \/ NotMailed(n) \/ CreatorDies(n) \/ GraceEnds(n)
Using(n) == MarkRead(n) \/ Reopen(n) \/ Prune(n) \/ ChangeChannels(n)
Settings == SwitchOff \/ ProcessPending \/ SwitchOn
Perform(j) == \/ Begin(j) \/ Claim(j) \/ Load(j) \/ Skip(j) \/ Deliver(j)
              \/ MarkSent(j) \/ RecordSent(j)

Next ==
    \/ \E n \in Notifications : Recording(n) \/ Using(n)
    \/ Settings \/ SlotComes \/ Poll \/ Reap
    \/ \E j \in Jobs : Perform(j) \/ Fail(j) \/ Kill(j)

\* The clock, the poll, the workers and the reaper go on; a saved request
\* finishes.  Nobody is bound to read, reopen or change a setting.
Fairness ==
    /\ \A n \in Notifications : WF_vars(GraceEnds(n)) /\ WF_vars(NotMailed(n))
    /\ WF_vars(SlotComes) /\ WF_vars(Poll) /\ WF_vars(Reap)
    /\ WF_vars(ProcessPending)
    /\ \A j \in Jobs : WF_vars(Perform(j))

Spec == Init /\ [][Next]_vars /\ Fairness

-------------------------------------------------------------------------------
(* Properties *)

JobRecords == [pc : Working \cup {"none", "queued", "retry"},
               attempt : 0..MaxRetries,
               saw : {"none", "due", "later"},
               wants : SUBSET Notifications,
               skipped : SUBSET Notifications,
               batch : SUBSET Notifications]

\* Every variable keeps its range.
TypeOK ==
    /\ rows \cup ready \cup wanted \subseteq Notifications
    /\ read \cup processed \cup sent \cup creating \subseteq rows
    /\ frequency \in {"on", "off"} /\ nextDigest \in {"none", "due", "later"}
    /\ clearing \in BOOLEAN /\ lock \in BOOLEAN
    /\ job \in [Jobs -> JobRecords]
    /\ faults \in 0..MaxFaults /\ reopens \in 0..MaxReopens
    /\ mails \in [Notifications -> Nat] /\ broken \in [Notifications -> Nat]

\* "Keep email_processed_at unchanged so manually reopening a comment never
\* resends email" (notification.rb:395), and "Anything that raises after this
\* point leaves the notifications unprocessed, so they roll into the next
\* digest" (send_notification_digest_job.rb:20): whatever is read, reopened,
\* switched, polled and retried, a notification is mailed at most once, and
\* once more for each attempt that broke off between the mail and the mark.
MailedOnce == \A n \in rows : mails[n] <= 1 + broken[n]

\* The ledger does not claim a mail that never went out: a notification with
\* email_sent_at was part of a delivered digest, whatever failed on the way.
SentWasMailed == \A n \in sent : mails[n] > 0

\* "Record an in-app copy without passing it through the notification email
\* channel, which would send the recipient the same message twice"
\* (notification.rb:168): also when a digest loads the copy between the two
\* statements that record it, or the second never runs.
CopiesNotMailed == \A n \in InAppCopies : mails[n] = 0

\* "Nothing was delivered, so the notification waits for the next digest"
\* (notification_jobs_test.rb:324): while the digest stays on, what waits is
\* mailed, read or skipped in the end, whatever job failed or was killed.
WaitingEnds ==
    \A n \in Notifications :
        (n \in Waiting /\ frequency = "on") ~> (n \notin Waiting \/ frequency = "off")

-------------------------------------------------------------------------------
(* The digest implements its ledger: the rows are the notifications, what a *)
(* job holds between its query and its mark is what the sender has taken.   *)

Taken == UNION {job[j].batch : j \in Jobs}

Ledger == INSTANCE DigestLedger WITH
    waiting <- rows \ processed,
    settled <- processed,
    taken   <- Taken,
    mailed  <- {n \in rows : mails[n] > 0}

\* Polls, retries, kills and the reaper amount to one sender at a time, which
\* mails only what it took and settles only what it mailed; a notification
\* that is settled never waits again.
OneSender == Ledger!Spec
===============================================================================
