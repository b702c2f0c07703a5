------------------------------- MODULE TurnItIn -------------------------------
(***************************************************************************)
(* One file of a task submission on its way through Turnitin.  The job     *)
(* that accepted the submission performs the action once; after that the   *)
(* half-hourly check performs it while its retry flag is set, Turnitin's   *)
(* web hooks move it on from the side, and an administrator may retry it.  *)
(* Every performer works on its own copy of two rows - the TiiSubmission   *)
(* and the TiiAction - around calls that take time, and a save writes back *)
(* only the attributes the copy changed.                                   *)
(*                                                                         *)
(* One job performs the action at a time ("run"); web hooks are handled    *)
(* beside it.  Turnitin itself is external: it processes the file, makes   *)
(* the report and its PDF when asked, and sends an event as each is done.  *)
(*                                                                         *)
(* An operator marked "mutant" is not part of the specification: it is a   *)
(* mistake that could be made in the definition that follows it, and one   *)
(* of the properties fails when it takes its place.                        *)
(***************************************************************************)
EXTENDS Integers

CONSTANTS
    Hooks,      \* requests that can be handling a web hook at once
    MaxRetries, \* 48 in the code
    Troubles,   \* what a call can meet: a subset of {"busy", "refused"}
    MaxEvents   \* bound: together, jobs and requests that die, web hooks that
                \* arrive again and retries an administrator asks for

ASSUME TurnItInAssumption ==
    /\ "run" \notin Hooks
    /\ Troubles \subseteq {"busy", "refused"}
    /\ MaxRetries \in Nat /\ MaxEvents \in Nat

VARIABLES
    entity,  \* the TiiSubmission: its status, and whether it has a PDF id
    action,  \* the TiiAction
    old,     \* a day has passed since complete_at or created_at
    eula,    \* the student, the tutor or the convenor has accepted the EULA
    asked,   \* a TiiActionJob of an administrator is queued
    local,   \* what each performer is about to do, and its copies
    tii,     \* Turnitin: the file, the report, the PDF
    events,  \* web hooks on their way
    happened, \* how many of the bounded events there were
    heard,   \* history variable: Turnitin's answer with the id was not lost
    doubled  \* history variable: a second submission was made at Turnitin

rows  == <<entity, action, old>>
world == <<tii, events, heard, doubled>>
vars  == <<rows, eula, asked, local, world, happened>>

Performers == Hooks \cup {"run"}

-------------------------------------------------------------------------------
(* The rows, copies of them, and saves *)

Statuses == {"created", "has_id", "uploaded", "submission_complete",
             "similarity_report_requested", "similarity_report_complete",
             "similarity_pdf_requested", "similarity_pdf_available",
             "similarity_pdf_downloaded", "complete_low_similarity"}
Final == {"similarity_pdf_downloaded", "complete_low_similarity"}

NewAction == [retry |-> TRUE, complete |-> FALSE, error |-> "none", retries |-> 0]
NewEntity == [status |-> "created", pdf |-> FALSE]

\* An idle performer has no copies; a call is named for its method.
Calls == {"create", "upload", "submission", "request", "result", "pdf",
          "pdf_status", "download"}
Idle == [pc |-> "idle", call |-> "none", reply |-> "none",
         was |-> NewAction, now |-> NewAction, ent |-> NewEntity]

\* Rails writes the attributes that differ from what was loaded.
Written(row, was, now) ==
    [f \in DOMAIN row |-> IF now[f] = was[f] THEN row[f] ELSE now[f]]

Rescheduled(a) == [a EXCEPT !.retries = 0, !.error = "none", !.retry = TRUE]
Finished(a)    == [a EXCEPT !.retries = 0, !.complete = TRUE]
Failed(a, e)   == [a EXCEPT !.error = e]

\* mutant: there is always another try
RetriedForEver(a) == [a EXCEPT !.retries = @ + 1, !.retry = TRUE]

\* retry_request; the counter stops one past the limit, as more changes nothing.
Retried(a) ==
    LET n == IF a.retries > MaxRetries THEN a.retries ELSE a.retries + 1 IN
    IF n > MaxRetries /\ old
    THEN [a EXCEPT !.retries = n, !.error = "excessive"]
    ELSE [a EXCEPT !.retries = n, !.retry = TRUE]

\* A performer is done: what it changed since its last save is saved.
Ends(p, a) ==
    /\ action' = Written(action, local[p].was, a)
    /\ local' = [local EXCEPT ![p] = Idle]

\* It saves what it has and makes another call.
GoesOn(p, a, e, c) ==
    /\ action' = Written(action, local[p].was, a)
    /\ local' = [local EXCEPT ![p] = [pc |-> "call", call |-> c, reply |-> "none",
                                      was |-> a, now |-> a, ent |-> e]]

Moved(p, s) == [local[p].ent EXCEPT !.status = s]
SavesEntity(p, e) == entity' = Written(entity, local[p].ent, e)

-------------------------------------------------------------------------------
(* Performing the action: TiiAction#perform and #run *)

FirstCall ==
    [s \in Statuses \ Final |->
        CASE s = "created"                     -> "create"
          [] s = "has_id"                      -> "upload"
          [] s = "uploaded"                    -> "submission"
          [] s = "submission_complete"         -> "request"
          [] s = "similarity_report_requested" -> "result"
          [] s = "similarity_report_complete"  -> "pdf"
          [] s = "similarity_pdf_requested"    -> "pdf_status"
          [] s = "similarity_pdf_available"    -> "download"]

\* The check has the action in the list it loaded, or a TiiActionJob found it.
Pick ==
    /\ local["run"].pc = "idle"
    /\ (action.retry /\ ~action.complete) \/ asked
    /\ asked' = FALSE
    /\ local' = [local EXCEPT !["run"] =
                    [Idle EXCEPT !.pc = "picked", !.was = action, !.now = action]]
    /\ UNCHANGED <<rows, eula, world, happened>>

\* The entity is loaded when it is first needed.
Begin ==
    /\ local["run"].pc = "picked"
    /\ LET was == local["run"].was
           a == [was EXCEPT !.retry = FALSE, !.complete = FALSE,
                            !.error = IF was.retry THEN "none" ELSE was.error]
       IN  \/ /\ a.error # "none" \/ entity.status \in Final
              /\ Ends("run", a)
           \/ /\ a.error = "none" /\ entity.status = "created" /\ ~eula
              /\ Ends("run", Failed(a, "eula"))
           \/ /\ a.error = "none" /\ entity.status \notin Final
              /\ entity.status = "created" => eula
              /\ local' = [local EXCEPT !["run"] =
                              [pc |-> "call", call |-> FirstCall[entity.status],
                               reply |-> "none", was |-> was, now |-> a, ent |-> entity]]
              /\ UNCHANGED action
    /\ UNCHANGED <<entity, old, eula, asked, world, happened>>

\* check_and_retry_submissions_with_updated_eula
RetryWithEula ==
    /\ eula
    /\ action.error = "eula" /\ ~action.retry /\ ~action.complete
    /\ entity.status = "created"
    /\ action' = Rescheduled(action)
    /\ UNCHANGED <<entity, old, eula, asked, local, world, happened>>

\* An administrator's retry is refused while the flag is set.
AdminRetry ==
    /\ ~action.retry
    /\ happened < MaxEvents
    /\ happened' = happened + 1
    /\ action' = Rescheduled(action)
    /\ asked' = TRUE
    /\ UNCHANGED <<entity, old, eula, local, world>>

AcceptEula ==
    /\ ~eula
    /\ eula' = TRUE
    /\ UNCHANGED <<rows, asked, local, world, happened>>

DayPasses ==
    /\ ~old
    /\ old' = TRUE
    /\ UNCHANGED <<entity, action, eula, asked, local, world, happened>>

-------------------------------------------------------------------------------
(* Turnitin *)

NewTii == [file |-> "none", report |-> "none", match |-> "low", pdf |-> "none"]

\* What Turnitin makes for a call; asked again it keeps what it has.
Effect(c) ==
    CASE c = "create"  -> [NewTii EXCEPT !.file = "created"]
      [] c = "upload"  -> [tii EXCEPT !.file = IF @ = "created" THEN "processing" ELSE @]
      [] c = "request" -> [tii EXCEPT !.report = IF @ = "none" THEN "processing" ELSE @]
      [] c = "pdf"     -> [tii EXCEPT !.pdf = IF @ = "none" THEN "pending" ELSE @]
      [] OTHER         -> tii

\* A file that is there already is a conflict.
ReplyTo(c) ==
    CASE c = "upload"     -> IF tii.file = "created" THEN "ok" ELSE "refused"
      [] c = "submission" -> tii.file
      [] c = "result"     -> IF tii.report = "complete" THEN tii.match ELSE "processing"
      [] c = "pdf_status" -> tii.pdf
      [] c = "download"   -> IF tii.pdf = "ready" THEN "ok" ELSE "refused"
      [] OTHER            -> "ok"

Answers(p, r) == local' = [local EXCEPT ![p].pc = "answered", ![p].reply = r]

Made(c, r) ==
    /\ heard'   = IF c = "create" THEN r = "ok" ELSE heard
    /\ doubled' = (doubled \/ (c = "create" /\ heard))

\* A call is carried out; a time-out may hide that it was.
Answer(p) ==
    /\ local[p].pc = "call"
    /\ LET c == local[p].call IN
       \/ \E r \in {ReplyTo(c)} \cup (Troubles \cap {"busy"}) :
             /\ Answers(p, r) /\ Made(c, r)
             /\ tii' = Effect(c)
       \/ \E r \in Troubles :
             /\ Answers(p, r)
             /\ UNCHANGED <<tii, heard, doubled>>
    /\ UNCHANGED <<rows, eula, asked, events, happened>>

FileDone ==
    /\ tii.file = "processing"
    /\ \E r \in {"file_complete", "file_failed"} :
          /\ tii' = [tii EXCEPT !.file = r]
          /\ events' = events \cup {r}
    /\ UNCHANGED <<rows, eula, asked, local, happened, heard, doubled>>

ReportDone ==
    /\ tii.report = "processing"
    /\ \E r \in {"high", "low"} :
          /\ tii' = [tii EXCEPT !.report = "complete", !.match = r]
          /\ events' = events \cup {r}
    /\ UNCHANGED <<rows, eula, asked, local, happened, heard, doubled>>

PdfDone ==
    /\ tii.pdf = "pending"
    /\ \E r \in {"ready", "failed"} :
          /\ tii' = [tii EXCEPT !.pdf = r]
          /\ events' = events \cup {r}
    /\ UNCHANGED <<rows, eula, asked, local, happened, heard, doubled>>

-------------------------------------------------------------------------------
(* What a performer does with an answer: exec_tca_call and the methods of   *)
(* TiiActionUploadSubmission                                                *)

\* handle_error: the run is over, with another try if the service is busy.
Trouble(p) ==
    /\ local[p].pc = "answered" /\ local[p].reply \in {"busy", "refused"}
    /\ LET a == Failed(local[p].now, local[p].reply) IN
       Ends(p, IF local[p].reply = "busy" THEN Retried(a) ELSE a)
    /\ UNCHANGED <<entity, old, eula, asked, world, happened>>

Got(p, call, replies) ==
    /\ local[p].pc = "answered" /\ local[p].call = call
    /\ local[p].reply \in replies

\* mutant: the id is kept in memory until the file is uploaded
HasIdUnsaved(p) ==
    /\ Got(p, "create", {"ok"})
    /\ GoesOn(p, Rescheduled(local[p].now), local[p].ent, "upload")
    /\ UNCHANGED <<entity, old, eula, asked, world, happened>>

HasId(p) ==
    /\ Got(p, "create", {"ok"})
    /\ SavesEntity(p, Moved(p, "has_id"))
    /\ GoesOn(p, Rescheduled(local[p].now), Moved(p, "has_id"), "upload")
    /\ UNCHANGED <<old, eula, asked, world, happened>>

Uploaded(p) ==
    /\ Got(p, "upload", {"ok"})
    /\ SavesEntity(p, Moved(p, "uploaded"))
    /\ Ends(p, Rescheduled(local[p].now))
    /\ UNCHANGED <<old, eula, asked, world, happened>>

\* mutant: wait for the web hook
WaitForHook(p) ==
    /\ Got(p, "submission", {"processing"})
    /\ Ends(p, local[p].now)
    /\ UNCHANGED <<entity, old, eula, asked, world, happened>>

\* The file is still being processed; the check asks again.
PollAgain(p) ==
    /\ Got(p, "submission", {"processing"})
    /\ Ends(p, Retried(local[p].now))
    /\ UNCHANGED <<entity, old, eula, asked, world, happened>>

Processed(p) ==
    /\ Got(p, "submission", {"file_complete"})
    /\ SavesEntity(p, Moved(p, "submission_complete"))
    /\ GoesOn(p, Rescheduled(local[p].now), Moved(p, "submission_complete"), "request")
    /\ UNCHANGED <<old, eula, asked, world, happened>>

NotProcessed(p) ==
    /\ Got(p, "submission", {"file_failed"})
    /\ Ends(p, [Failed(local[p].now, "refused") EXCEPT !.complete = FALSE])
    /\ UNCHANGED <<entity, old, eula, asked, world, happened>>

Requested(p) ==
    /\ Got(p, "request", {"ok"})
    /\ SavesEntity(p, Moved(p, "similarity_report_requested"))
    /\ Ends(p, Rescheduled(local[p].now))
    /\ UNCHANGED <<old, eula, asked, world, happened>>

\* Neither sets the retry flag that the run has taken down.
NothingYet(p) ==
    /\ Got(p, "result", {"processing"}) \/ Got(p, "pdf_status", {"pending", "failed"})
    /\ Ends(p, local[p].now)
    /\ UNCHANGED <<entity, old, eula, asked, world, happened>>

\* mutant: whatever comes back is a report
AnyReport(p) ==
    /\ Got(p, "result", {"high", "processing"})
    /\ SavesEntity(p, Moved(p, "similarity_report_complete"))
    /\ GoesOn(p, Rescheduled(local[p].now), Moved(p, "similarity_report_complete"), "pdf")
    /\ UNCHANGED <<old, eula, asked, world, happened>>

HighReport(p) ==
    /\ Got(p, "result", {"high"})
    /\ SavesEntity(p, Moved(p, "similarity_report_complete"))
    /\ GoesOn(p, Rescheduled(local[p].now), Moved(p, "similarity_report_complete"), "pdf")
    /\ UNCHANGED <<old, eula, asked, world, happened>>

LowReport(p) ==
    /\ Got(p, "result", {"low"})
    /\ SavesEntity(p, Moved(p, "complete_low_similarity"))
    /\ Ends(p, Finished(local[p].now))
    /\ UNCHANGED <<old, eula, asked, world, happened>>

PdfRequested(p) ==
    /\ Got(p, "pdf", {"ok"})
    /\ SavesEntity(p, [status |-> "similarity_pdf_requested", pdf |-> TRUE])
    /\ Ends(p, Rescheduled(local[p].now))
    /\ UNCHANGED <<old, eula, asked, world, happened>>

PdfAvailable(p) ==
    /\ Got(p, "pdf_status", {"ready"})
    /\ SavesEntity(p, Moved(p, "similarity_pdf_available"))
    /\ GoesOn(p, [local[p].now EXCEPT !.retries = 0],
              Moved(p, "similarity_pdf_available"), "download")
    /\ old' = FALSE
    /\ UNCHANGED <<eula, asked, world, happened>>

Downloaded(p) ==
    /\ Got(p, "download", {"ok"})
    /\ SavesEntity(p, Moved(p, "similarity_pdf_downloaded"))
    /\ Ends(p, Finished(local[p].now))
    /\ UNCHANGED <<old, eula, asked, world, happened>>

Record(p) ==
    \/ Trouble(p) \/ HasId(p) \/ Uploaded(p)
    \/ PollAgain(p) \/ Processed(p) \/ NotProcessed(p)
    \/ Requested(p) \/ NothingYet(p) \/ HighReport(p) \/ LowReport(p)
    \/ PdfRequested(p) \/ PdfAvailable(p) \/ Downloaded(p)

\* A job or a request dies, and its copies with it.
Die(p) ==
    /\ local[p].pc # "idle"
    /\ happened < MaxEvents
    /\ happened' = happened + 1
    /\ local' = [local EXCEPT ![p] = Idle]
    /\ heard' = IF Got(p, "create", {"ok"}) THEN FALSE ELSE heard
    /\ UNCHANGED <<rows, eula, asked, tii, events, doubled>>

-------------------------------------------------------------------------------
(* Web hooks: turn_it_in_hooks_api.rb, up to the first call a handler makes *)

\* The handler has saved the status s and the action a, and calls on.
Handling(h, s, a, c) ==
    /\ entity' = [entity EXCEPT !.status = s]
    /\ action' = a
    /\ local' = [local EXCEPT ![h] = [pc |-> "call", call |-> c, reply |-> "none",
                                      was |-> a, now |-> a, ent |-> entity']]

Handle(h, e) ==
    \/ /\ e = "file_complete"
       /\ Handling(h, "submission_complete", Rescheduled(action), "request")
       /\ UNCHANGED old
    \/ /\ e = "file_failed"
       /\ action' = [Failed(action, "refused") EXCEPT !.complete = FALSE]
       /\ UNCHANGED <<entity, old, local>>
    \/ /\ e = "high"
       /\ Handling(h, "similarity_report_complete", Rescheduled(action), "pdf")
       /\ UNCHANGED old
    \/ /\ e = "low"
       /\ entity' = [entity EXCEPT !.status = "complete_low_similarity"]
       /\ action' = Finished(action)
       /\ UNCHANGED <<old, local>>
    \/ /\ e = "ready" /\ entity.pdf
       /\ Handling(h, "similarity_pdf_available", [action EXCEPT !.retries = 0], "download")
       /\ old' = FALSE
    \/ /\ e = "ready" /\ ~entity.pdf
       /\ entity' = [entity EXCEPT !.status = "similarity_pdf_available"]
       /\ action' = [action EXCEPT !.retries = 0]
       /\ old' = FALSE
       /\ UNCHANGED local
    \/ /\ e = "failed"
       /\ UNCHANGED <<rows, local>>

\* A web hook arrives, for the last time or not.  One that is lost is one that
\* never arrives: no fairness is asked of this action.
Arrive(h, e) ==
    /\ local[h].pc = "idle"
    /\ e \in events
    /\ Handle(h, e)
    /\ \/ /\ events' = events \ {e}
          /\ UNCHANGED happened
       \/ /\ happened < MaxEvents
          /\ happened' = happened + 1
          /\ UNCHANGED events
    /\ UNCHANGED <<eula, asked, tii, heard, doubled>>

-------------------------------------------------------------------------------
Events == {"file_complete", "file_failed", "high", "low", "ready", "failed"}

Init ==
    /\ entity = NewEntity /\ action = NewAction /\ old = FALSE
    /\ eula \in BOOLEAN /\ asked = FALSE
    /\ local = [p \in Performers |-> Idle]
    /\ tii = NewTii /\ events = {}
    /\ happened = 0
    /\ heard = FALSE /\ doubled = FALSE

People == AdminRetry \/ AcceptEula
TiiNext == FileDone \/ ReportDone \/ PdfDone

Next ==
    \/ Pick \/ Begin \/ RetryWithEula \/ People \/ DayPasses \/ TiiNext
    \/ \E p \in Performers : Answer(p) \/ Record(p) \/ Die(p)
    \/ \E h \in Hooks, e \in Events : Arrive(h, e)

\* The check runs every half hour, calls end, a day passes.  Nothing makes
\* Turnitin finish, a web hook arrive or an administrator look.
Fairness ==
    /\ WF_vars(Pick) /\ WF_vars(Begin) /\ WF_vars(RetryWithEula) /\ WF_vars(DayPasses)
    /\ \A p \in Performers : WF_vars(Answer(p)) /\ WF_vars(Record(p))

Spec == Init /\ [][Next]_vars /\ Fairness

\* Turnitin does its part as well.
SpecTiiWorks == Spec /\ WF_vars(FileDone) /\ WF_vars(ReportDone) /\ WF_vars(PdfDone)

-------------------------------------------------------------------------------
(* Properties *)

Actions == [retry : BOOLEAN, complete : BOOLEAN, retries : 0..(MaxRetries + 1),
            error : {"none", "eula", "busy", "refused", "excessive"}]
Entities == [status : Statuses, pdf : BOOLEAN]
Replies == {"none", "ok", "created", "processing", "pending"}
           \cup Events \cup {"busy", "refused"}

\* Every variable keeps its range.
TypeOK ==
    /\ entity \in Entities /\ action \in Actions
    /\ {old, eula, asked, heard, doubled} \subseteq BOOLEAN
    /\ local \in [Performers -> [pc : {"idle", "picked", "call", "answered"},
                                 call : Calls \cup {"none"}, reply : Replies,
                                 was : Actions, now : Actions, ent : Entities]]
    /\ tii \in [file : {"none", "created", "processing", "file_complete", "file_failed"},
                report : {"none", "processing", "complete"},
                match : {"high", "low"},
                pdf : {"none", "pending", "ready", "failed"}]
    /\ events \subseteq Events
    /\ happened \in 0..MaxEvents

Reached(s) ==
    CASE s \in {"created", "has_id"} -> TRUE
      [] s = "uploaded" -> tii.file \notin {"none", "created"}
      [] s = "submission_complete" -> tii.file = "file_complete"
      [] s = "similarity_report_requested" -> tii.report # "none"
      [] s \in {"similarity_report_complete", "complete_low_similarity"} ->
             tii.report = "complete"
      [] s = "similarity_pdf_requested" -> tii.pdf # "none"
      [] OTHER -> tii.pdf = "ready"

\* The status, which decides what a tutor is shown (tii_submission.rb:57), is
\* never ahead of Turnitin: whatever hooks and checks write from stale copies,
\* calls that failed or timed out, and performers that died.
NeverAhead == Reached(entity.status)

\* A file is handed to Turnitin a second time only if the answer to the first
\* was lost: the id is saved before the file is uploaded, whatever fails or
\* dies after that.
HandedInOnce == ~doubled

GaveUp == action.error \in {"eula", "refused", "excessive"}

\* "polling in case of the need to retry actions"
\* (tii_action_upload_submission.rb:120): a new submission gets as far as the
\* request for its report, or to an error somebody can see, even if no web hook
\* arrives and Turnitin never answers anything but "busy" or "processing".
GetsToRequest ==
    entity.status = "created"
        ~> (entity.status \notin {"created", "has_id", "uploaded", "submission_complete"}
            \/ GaveUp)

\* "This will ensure submissions progress through turn it in when web hooks
\* fails" (tii_action_upload_submission.rb:121): if Turnitin finishes its work,
\* the report gets here or the action shows an error.
ReportArrives ==
    entity.status = "created" ~> (entity.status \in Final \/ GaveUp \/ tii.pdf = "failed")
===============================================================================
