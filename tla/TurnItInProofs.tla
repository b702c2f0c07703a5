----------------------------- MODULE TurnItInProofs -----------------------------
(***************************************************************************)
(* What holds of TurnItIn for any number of web hooks handled at once, any *)
(* troubles, retries and deaths: the status is never ahead of Turnitin, and*)
(* a file is handed in twice only if the first answer was lost.            *)
(***************************************************************************)
EXTENDS TurnItIn, TLAPS

----------------------------------------------------------------------------
(* Types *)

LocalRecords == [pc : {"idle", "picked", "call", "answered"},
                 call : Calls \cup {"none"}, reply : Replies,
                 was : Actions, now : Actions, ent : Entities]
TiiRecords == [file : {"none", "created", "processing", "file_complete", "file_failed"},
               report : {"none", "processing", "complete"},
               match : {"high", "low"},
               pdf : {"none", "pending", "ready", "failed"}]

LEMMA RetriesAre == MaxRetries \in Nat /\ 0 \in 0..(MaxRetries + 1)
BY TurnItInAssumption

LEMMA WrittenAction ==
    ASSUME NEW row \in Actions, NEW was \in Actions, NEW now \in Actions
    PROVE  Written(row, was, now) \in Actions
BY DEF Written, Actions

LEMMA WrittenEntity ==
    ASSUME NEW row \in Entities, NEW was \in Entities, NEW now \in Entities
    PROVE  /\ Written(row, was, now) \in Entities
           /\ Written(row, was, now).status =
                 IF now.status = was.status THEN row.status ELSE now.status
BY DEF Written, Entities

LEMMA ActionsMade ==
    ASSUME NEW a \in Actions, NEW e \in {"none", "eula", "busy", "refused", "excessive"}
    PROVE  /\ Rescheduled(a) \in Actions /\ Finished(a) \in Actions
           /\ Failed(a, e) \in Actions /\ Retried(a) \in Actions
           /\ [a EXCEPT !.retries = 0] \in Actions
           /\ [a EXCEPT !.retry = FALSE, !.complete = FALSE, !.error = e] \in Actions
           /\ [Failed(a, e) EXCEPT !.complete = FALSE] \in Actions
<1>1. Rescheduled(a) \in Actions /\ Finished(a) \in Actions /\ Failed(a, e) \in Actions
      /\ [a EXCEPT !.retries = 0] \in Actions
      /\ [a EXCEPT !.retry = FALSE, !.complete = FALSE, !.error = e] \in Actions
  BY RetriesAre DEF Rescheduled, Finished, Failed, Actions
<1>2. [Failed(a, e) EXCEPT !.complete = FALSE] \in Actions
  BY <1>1 DEF Actions
<1>3. Retried(a) \in Actions
  <2> DEFINE n == IF a.retries > MaxRetries THEN a.retries ELSE a.retries + 1
  <2>1. n \in 0..(MaxRetries + 1)
    BY RetriesAre DEF Actions
  <2>2. Retried(a) = IF n > MaxRetries /\ old
                     THEN [a EXCEPT !.retries = n, !.error = "excessive"]
                     ELSE [a EXCEPT !.retries = n, !.retry = TRUE]
    BY DEF Retried
  <2> HIDE DEF n
  <2>3. [a EXCEPT !.retries = n, !.error = "excessive"] \in Actions
        /\ [a EXCEPT !.retries = n, !.retry = TRUE] \in Actions
    BY <2>1 DEF Actions
  <2>4. QED
    BY <2>2, <2>3
<1> QED BY <1>1, <1>2, <1>3

LEMMA IdleTyped == Idle \in LocalRecords /\ NewAction \in Actions /\ NewEntity \in Entities
<1>1. NewAction \in Actions /\ NewEntity \in Entities
  BY RetriesAre DEF NewAction, NewEntity, Actions, Entities, Statuses
<1>2. "none" \in Replies
  BY DEF Replies
<1> QED BY <1>1, <1>2 DEF Idle, LocalRecords

LEMMA LocalTyped ==
    ASSUME TypeOK, NEW p \in Performers
    PROVE  /\ local \in [Performers -> LocalRecords]
           /\ local[p] \in LocalRecords
           /\ local[p].was \in Actions /\ local[p].now \in Actions /\ local[p].ent \in Entities
           /\ entity \in Entities /\ action \in Actions
<1>1. local \in [Performers -> LocalRecords] /\ entity \in Entities /\ action \in Actions
  BY DEF TypeOK, LocalRecords
<1>2. local[p] \in LocalRecords
  BY <1>1
<1> QED BY <1>1, <1>2 DEF LocalRecords

\* What a performer leaves behind as it ends or calls on.
LEMMA EndsTyped ==
    ASSUME TypeOK, NEW p \in Performers, NEW a \in Actions, Ends(p, a)
    PROVE  action' \in Actions /\ local' \in [Performers -> LocalRecords]
<1>1. action' = Written(action, local[p].was, a) /\ local' = [local EXCEPT ![p] = Idle]
  BY DEF Ends
<1> QED BY <1>1, LocalTyped, WrittenAction, IdleTyped

LEMMA GoesOnTyped ==
    ASSUME TypeOK, NEW p \in Performers, NEW a \in Actions, NEW e \in Entities,
           NEW c \in Calls, GoesOn(p, a, e, c)
    PROVE  action' \in Actions /\ local' \in [Performers -> LocalRecords]
<1> DEFINE l == [pc |-> "call", call |-> c, reply |-> "none", was |-> a, now |-> a, ent |-> e]
<1>1. action' = Written(action, local[p].was, a) /\ local' = [local EXCEPT ![p] = l]
  BY DEF GoesOn
<1>2. "none" \in Replies
  BY DEF Replies
<1>3. l \in LocalRecords
  BY <1>2 DEF LocalRecords
<1> HIDE DEF l
<1> QED BY <1>1, <1>3, LocalTyped, WrittenAction

LEMMA SavedTyped ==
    ASSUME TypeOK, NEW p \in Performers, NEW e \in Entities, SavesEntity(p, e)
    PROVE  /\ entity' \in Entities
           /\ entity'.status = IF e.status = local[p].ent.status THEN entity.status ELSE e.status
BY LocalTyped, WrittenEntity DEF SavesEntity

LEMMA MovedTyped ==
    ASSUME TypeOK, NEW p \in Performers, NEW s \in Statuses
    PROVE  Moved(p, s) \in Entities /\ Moved(p, s).status = s
BY LocalTyped DEF Moved, Entities

----------------------------------------------------------------------------
(* The inductive invariant *)

\* What an answer that is not trouble says of Turnitin.
Known(c, r) ==
    /\ c = "upload" /\ r = "ok" => tii.file \notin {"none", "created"}
    /\ c = "submission" /\ r = "file_complete" => tii.file = "file_complete"
    /\ c = "request" /\ r = "ok" => tii.report # "none"
    /\ c = "result" /\ r \in {"high", "low"} => tii.report = "complete"
    /\ c = "pdf" /\ r = "ok" => tii.pdf # "none"
    /\ c = "pdf_status" /\ r = "ready" => tii.pdf = "ready"
    /\ c = "download" /\ r = "ok" => tii.pdf = "ready"

\* Only the run creates, and it does so while the entity has no id.
LocalOK(p, l) ==
    /\ p # "run" => l.pc # "picked" /\ l.call # "create"
    /\ l.pc \in {"call", "answered"} => /\ l.call # "none"
                                        /\ l.call = "create" <=> entity.status = "created"
                                        /\ l.call = "create" => l.ent.status = "created"
    /\ l.pc = "answered" => Known(l.call, l.reply)

\* Without an id nothing has been uploaded, nor asked for.
Fresh ==
    entity.status = "created" =>
        tii.file \in {"none", "created"} /\ tii.report = "none" /\ tii.pdf = "none"
        /\ events = {}

EventsTrue ==
    /\ "file_complete" \in events => tii.file = "file_complete"
    /\ "high" \in events \/ "low" \in events => tii.report = "complete"
    /\ "ready" \in events => tii.pdf = "ready"

\* The id was answered: the run has it in hand, or it is saved.
HeardOnce ==
    /\ ~doubled
    /\ heard /\ entity.status = "created" => Got("run", "create", {"ok"})

IInv ==
    /\ TypeOK
    /\ \A p \in Performers : LocalOK(p, local[p])
    /\ Fresh /\ EventsTrue /\ NeverAhead /\ HeardOnce

\* A new file is not with Turnitin, and nothing is under way.
THEOREM InitIInv == Init => IInv
<1> SUFFICES ASSUME Init PROVE IInv
  OBVIOUS
<1>1. TypeOK
  <2>1. entity \in Entities /\ action \in Actions /\ local \in [Performers -> LocalRecords]
    BY IdleTyped DEF Init
  <2>2. {old, eula, asked, heard, doubled} \subseteq BOOLEAN
    BY Zenon DEF Init
  <2>3. tii \in TiiRecords
    BY DEF Init, NewTii, TiiRecords
  <2>4. happened \in 0..MaxEvents /\ events \subseteq Events
    BY TurnItInAssumption DEF Init
  <2>5. QED
    BY <2>1, <2>2, <2>3, <2>4 DEF TypeOK, LocalRecords, TiiRecords
<1>2. \A p \in Performers : LocalOK(p, local[p])
  BY DEF Init, LocalOK, Idle
<1>3. Fresh /\ EventsTrue /\ NeverAhead /\ HeardOnce
  BY DEF Init, NewEntity, NewTii, Fresh, EventsTrue, NeverAhead, Reached, HeardOnce
<1> QED BY <1>1, <1>2, <1>3 DEF IInv

\* A step that leaves the performers and Turnitin alone.
LEMMA QuietStep ==
    ASSUME IInv, TypeOK', UNCHANGED <<entity, local, world>>
    PROVE  IInv'
BY DEF IInv, world, LocalOK, Known, Fresh, EventsTrue, NeverAhead, Reached, HeardOnce, Got

\* A performer takes a step on its side: what it saves of the status is so.
LEMMA OwnStep ==
    ASSUME IInv, TypeOK', NEW p \in Performers, NEW l \in LocalRecords,
           local' = [local EXCEPT ![p] = l],
           tii' = tii, events' \subseteq events, doubled' = doubled,
           \/ entity'.status = entity.status
           \/ entity'.status # "created" /\ Reached(entity'.status),
           entity.status = "created" => p = "run" \/ entity'.status = "created",
           heard' /\ entity'.status = "created" => heard /\ p # "run",
           l.pc # "answered", l.pc = "picked" => p = "run",
           l.call = "create" => p = "run",
           l.pc = "call" => /\ l.call # "none"
                            /\ l.call = "create" <=> entity'.status = "created"
                            /\ l.call = "create" => l.ent.status = "created"
    PROVE  IInv'
<1>1. local \in [Performers -> LocalRecords] /\ "run" \in Performers
  BY LocalTyped DEF Performers, IInv
<1>2. ASSUME NEW q \in Performers PROVE LocalOK(q, local[q])'
  <2>1. CASE q = p
    <3>1. local'[q] = l
      BY <1>1, <2>1
    <3>2. QED
      BY <2>1, <3>1 DEF LocalOK
  <2>2. CASE q # p
    <3>1. local'[q] = local[q] /\ LocalOK(q, local[q])
      BY <1>1, <2>2 DEF IInv
    <3>2. CASE local[q].pc \in {"call", "answered"}
      <4>1. entity'.status = "created" <=> entity.status = "created"
        BY <2>2, <3>1, <3>2 DEF LocalOK
      <4>2. QED
        BY <3>1, <4>1 DEF LocalOK, Known
    <3>3. CASE local[q].pc \notin {"call", "answered"}
      BY <3>1, <3>3 DEF LocalOK
    <3>4. QED
      BY <3>2, <3>3
  <2>3. QED
    BY <2>1, <2>2
<1>3. Fresh'
  BY DEF IInv, Fresh
<1>4. EventsTrue'
  BY DEF IInv, EventsTrue
<1>5. NeverAhead'
  BY DEF IInv, NeverAhead, Reached
<1>6. HeardOnce'
  <2>1. ~doubled'
    BY DEF IInv, HeardOnce
  <2>2. ASSUME heard', entity'.status = "created" PROVE Got("run", "create", {"ok"})'
    <3>1. heard /\ p # "run" /\ entity.status = "created"
      BY <2>2
    <3>2. Got("run", "create", {"ok"}) /\ local'["run"] = local["run"]
      BY <1>1, <3>1 DEF IInv, HeardOnce
    <3>3. QED
      BY <3>2 DEF Got
  <2>3. QED
    BY <2>1, <2>2 DEF HeardOnce
<1> QED BY <1>2, <1>3, <1>4, <1>5, <1>6 DEF IInv

----------------------------------------------------------------------------
(* What a performer does with an answer *)

LEMMA TypesTogether ==
    ASSUME entity' \in Entities, action' \in Actions,
           local' \in [Performers -> LocalRecords],
           old' \in BOOLEAN, eula' \in BOOLEAN, asked' \in BOOLEAN,
           heard' \in BOOLEAN, doubled' \in BOOLEAN,
           tii' \in TiiRecords, events' \subseteq Events, happened' \in 0..MaxEvents
    PROVE  TypeOK'
<1>1. ({old, eula, asked, heard, doubled} \subseteq BOOLEAN)'
  BY Zenon
<1> QED BY <1>1 DEF TypeOK, LocalRecords, TiiRecords

LEMMA TypesApart ==
    ASSUME TypeOK
    PROVE  /\ entity \in Entities /\ action \in Actions
           /\ local \in [Performers -> LocalRecords]
           /\ old \in BOOLEAN /\ eula \in BOOLEAN /\ asked \in BOOLEAN
           /\ heard \in BOOLEAN /\ doubled \in BOOLEAN
           /\ tii \in TiiRecords /\ events \subseteq Events /\ happened \in 0..MaxEvents
<1>1. old \in BOOLEAN /\ eula \in BOOLEAN /\ asked \in BOOLEAN
      /\ heard \in BOOLEAN /\ doubled \in BOOLEAN
  BY Zenon DEF TypeOK
<1> QED BY <1>1 DEF TypeOK, LocalRecords, TiiRecords

\* It ends, having saved a status that has been reached, or none.
LEMMA EndsStep ==
    ASSUME IInv, NEW p \in Performers, NEW a \in Actions, Ends(p, a),
           UNCHANGED <<eula, asked, world, happened>>, old' \in BOOLEAN,
           ~Got(p, "create", {"ok"}),
           \/ UNCHANGED entity
           \/ /\ entity.status # "created"
              /\ \E e \in Entities : /\ SavesEntity(p, e)
                                     /\ e.status # "created" /\ Reached(e.status)
    PROVE  IInv'
<1>1. local' = [local EXCEPT ![p] = Idle] /\ Idle \in LocalRecords
      /\ Idle.pc = "idle" /\ Idle.call = "none"
  BY IdleTyped DEF Ends, Idle
<1>2. action' \in Actions /\ local' \in [Performers -> LocalRecords]
  BY EndsTyped DEF IInv
<1>3. /\ entity' \in Entities
      /\ \/ entity'.status = entity.status
         \/ entity'.status # "created" /\ Reached(entity'.status)
      /\ entity.status = "created" <=> entity'.status = "created"
  <2>1. CASE UNCHANGED entity
    BY <2>1, TypesApart DEF IInv
  <2>2. ASSUME entity.status # "created",
               NEW e \in Entities, SavesEntity(p, e), e.status # "created", Reached(e.status)
        PROVE  <1>3!1 /\ <1>3!2 /\ <1>3!3
    BY <2>2, SavedTyped DEF IInv
  <2>3. QED
    BY <2>1, <2>2
<1>4. TypeOK'
  BY <1>2, <1>3, TypesApart, TypesTogether DEF IInv, world
<1>5. heard' /\ entity'.status = "created" => heard /\ p # "run"
  BY <1>3 DEF IInv, HeardOnce, world
<1> QED BY <1>1, <1>3, <1>4, <1>5, OwnStep DEF world

\* It saves a status that has been reached and calls on.
LEMMA GoesOnStep ==
    ASSUME IInv, NEW p \in Performers, NEW a \in Actions, NEW e \in Entities,
           NEW c \in Calls \ {"create"}, GoesOn(p, a, e, c), SavesEntity(p, e),
           UNCHANGED <<eula, asked, world, happened>>, old' \in BOOLEAN,
           e.status # "created", Reached(e.status),
           entity.status = "created" => p = "run" /\ local[p].ent.status = "created"
    PROVE  IInv'
<1> DEFINE l == [pc |-> "call", call |-> c, reply |-> "none", was |-> a, now |-> a, ent |-> e]
<1>1. local' = [local EXCEPT ![p] = l] /\ l.pc = "call" /\ l.call = c
  BY DEF GoesOn
<1>2. l \in LocalRecords
  BY DEF LocalRecords, Replies
<1> HIDE DEF l
<1>3. action' \in Actions /\ local' \in [Performers -> LocalRecords]
  BY GoesOnTyped DEF IInv
<1>4. /\ entity' \in Entities
      /\ entity'.status = entity.status \/ entity'.status = e.status
      /\ entity'.status # "created"
  BY SavedTyped DEF IInv
<1>5. TypeOK'
  BY <1>3, <1>4, TypesApart, TypesTogether DEF IInv, world
<1>6. c # "none" /\ c # "create"
  BY DEF Calls
<1> QED BY <1>1, <1>2, <1>4, <1>5, <1>6, OwnStep DEF world

LEMMA TroubleKeeps == ASSUME IInv, NEW p \in Performers, Trouble(p) PROVE IInv'
<1> DEFINE b == Failed(local[p].now, local[p].reply)
           a == IF local[p].reply = "busy" THEN Retried(b) ELSE b
<1>1. local[p].now \in Actions /\ old \in BOOLEAN
  BY LocalTyped, TypesApart DEF IInv
<1>2. b \in Actions
  BY <1>1, ActionsMade DEF Trouble
<1> HIDE DEF b
<1>3. a \in Actions /\ Ends(p, a)
  BY <1>2, ActionsMade DEF Trouble, b
<1> HIDE DEF a
<1>4. ~Got(p, "create", {"ok"})
  BY DEF Trouble, Got
<1> QED BY <1>1, <1>3, <1>4, EndsStep DEF Trouble

\* What is known of a performer that got an answer.
LEMMA GotIs ==
    ASSUME IInv, NEW p \in Performers, NEW call, NEW replies, Got(p, call, replies)
    PROVE  /\ local[p].call = call /\ local[p].reply \in replies
           /\ local[p].now \in Actions /\ Known(call, local[p].reply)
           /\ call = "create" <=> entity.status = "created"
           /\ call = "create" => p = "run" /\ local[p].ent.status = "created"
           /\ call # "create" => ~Got(p, "create", {"ok"})
           /\ old \in BOOLEAN
<1>1. LocalOK(p, local[p]) /\ local[p].now \in Actions /\ old \in BOOLEAN
  BY LocalTyped, TypesApart DEF IInv
<1> QED BY <1>1 DEF LocalOK, Got

\* Answers after which the status moves on and the run is over.
LEMMA MoveAndEnd ==
    ASSUME IInv, NEW p \in Performers, NEW call, NEW replies, Got(p, call, replies),
           call # "create", NEW e \in Entities, SavesEntity(p, e),
           e.status # "created", Reached(e.status),
           NEW a \in Actions, Ends(p, a), old' \in BOOLEAN,
           UNCHANGED <<eula, asked, world, happened>>
    PROVE  IInv'
<1>1. entity.status # "created" /\ ~Got(p, "create", {"ok"})
  BY GotIs
<1> QED BY <1>1, EndsStep

LEMMA MoveAndGoOn ==
    ASSUME IInv, NEW p \in Performers, NEW call, NEW replies, Got(p, call, replies),
           NEW e \in Entities, SavesEntity(p, e),
           e.status # "created", Reached(e.status),
           NEW a \in Actions, NEW c \in Calls \ {"create"}, GoesOn(p, a, e, c),
           old' \in BOOLEAN,
           UNCHANGED <<eula, asked, world, happened>>
    PROVE  IInv'
BY GotIs, GoesOnStep

LEMMA RecordKeeps == ASSUME IInv, NEW p \in Performers, Record(p) PROVE IInv'
<1>0. /\ local[p].now \in Actions /\ old \in BOOLEAN
      /\ Rescheduled(local[p].now) \in Actions /\ Finished(local[p].now) \in Actions
      /\ [local[p].now EXCEPT !.retries = 0] \in Actions
      /\ [Failed(local[p].now, "refused") EXCEPT !.complete = FALSE] \in Actions
      /\ Retried(local[p].now) \in Actions
  BY LocalTyped, TypesApart, ActionsMade DEF IInv
<1>1. CASE Trouble(p)
  BY <1>1, TroubleKeeps
<1>2. CASE HasId(p)
  <2>1. Moved(p, "has_id") \in Entities /\ Moved(p, "has_id").status = "has_id"
    BY MovedTyped DEF IInv, Statuses
  <2>2. Reached("has_id") /\ "upload" \in Calls \ {"create"}
    BY DEF Reached, Calls
  <2>3. QED
    BY <1>0, <1>2, <2>1, <2>2, MoveAndGoOn DEF HasId
<1>3. CASE Uploaded(p)
  <2>1. Moved(p, "uploaded") \in Entities /\ Moved(p, "uploaded").status = "uploaded"
    BY MovedTyped DEF IInv, Statuses
  <2>2. Got(p, "upload", {"ok"})
    BY <1>3 DEF Uploaded
  <2>3. Reached("uploaded")
    BY <2>2, GotIs DEF Known, Reached
  <2>4. QED
    BY <1>0, <1>3, <2>1, <2>2, <2>3, MoveAndEnd DEF Uploaded
<1>4. CASE PollAgain(p)
  <2>1. ~Got(p, "create", {"ok"})
    BY <1>4, GotIs DEF PollAgain
  <2>2. QED
    BY <1>0, <1>4, <2>1, EndsStep DEF PollAgain
<1>5. CASE Processed(p)
  <2>1. Moved(p, "submission_complete") \in Entities
        /\ Moved(p, "submission_complete").status = "submission_complete"
    BY MovedTyped DEF IInv, Statuses
  <2>2. Got(p, "submission", {"file_complete"}) /\ "request" \in Calls \ {"create"}
    BY <1>5 DEF Processed, Calls
  <2>3. Reached("submission_complete")
    BY <2>2, GotIs DEF Known, Reached
  <2>4. QED
    BY <1>0, <1>5, <2>1, <2>2, <2>3, MoveAndGoOn DEF Processed
<1>6. CASE NotProcessed(p)
  <2>1. ~Got(p, "create", {"ok"})
    BY <1>6, GotIs DEF NotProcessed
  <2>2. QED
    BY <1>0, <1>6, <2>1, EndsStep DEF NotProcessed
<1>7. CASE Requested(p)
  <2>1. Moved(p, "similarity_report_requested") \in Entities
        /\ Moved(p, "similarity_report_requested").status = "similarity_report_requested"
    BY MovedTyped DEF IInv, Statuses
  <2>2. Got(p, "request", {"ok"})
    BY <1>7 DEF Requested
  <2>3. Reached("similarity_report_requested")
    BY <2>2, GotIs DEF Known, Reached
  <2>4. QED
    BY <1>0, <1>7, <2>1, <2>2, <2>3, MoveAndEnd DEF Requested
<1>8. CASE NothingYet(p)
  <2>1. ~Got(p, "create", {"ok"})
    BY <1>8, GotIs DEF NothingYet
  <2>2. QED
    BY <1>0, <1>8, <2>1, EndsStep DEF NothingYet
<1>9. CASE HighReport(p)
  <2>1. Moved(p, "similarity_report_complete") \in Entities
        /\ Moved(p, "similarity_report_complete").status = "similarity_report_complete"
    BY MovedTyped DEF IInv, Statuses
  <2>2. Got(p, "result", {"high"}) /\ "pdf" \in Calls \ {"create"}
    BY <1>9 DEF HighReport, Calls
  <2>3. Reached("similarity_report_complete")
    BY <2>2, GotIs DEF Known, Reached
  <2>4. QED
    BY <1>0, <1>9, <2>1, <2>2, <2>3, MoveAndGoOn DEF HighReport
<1>10. CASE LowReport(p)
  <2>1. Moved(p, "complete_low_similarity") \in Entities
        /\ Moved(p, "complete_low_similarity").status = "complete_low_similarity"
    BY MovedTyped DEF IInv, Statuses
  <2>2. Got(p, "result", {"low"})
    BY <1>10 DEF LowReport
  <2>3. Reached("complete_low_similarity")
    BY <2>2, GotIs DEF Known, Reached
  <2>4. QED
    BY <1>0, <1>10, <2>1, <2>2, <2>3, MoveAndEnd DEF LowReport
<1>11. CASE PdfRequested(p)
  <2> DEFINE e == [status |-> "similarity_pdf_requested", pdf |-> TRUE]
  <2>1. e \in Entities /\ e.status = "similarity_pdf_requested"
    BY DEF Entities, Statuses
  <2>2. Got(p, "pdf", {"ok"}) /\ SavesEntity(p, e)
    BY <1>11 DEF PdfRequested
  <2>3. Reached("similarity_pdf_requested")
    BY <2>2, GotIs DEF Known, Reached
  <2> HIDE DEF e
  <2>4. QED
    BY <1>0, <1>11, <2>1, <2>2, <2>3, MoveAndEnd DEF PdfRequested
<1>12. CASE PdfAvailable(p)
  <2>1. Moved(p, "similarity_pdf_available") \in Entities
        /\ Moved(p, "similarity_pdf_available").status = "similarity_pdf_available"
    BY MovedTyped DEF IInv, Statuses
  <2>2. Got(p, "pdf_status", {"ready"}) /\ "download" \in Calls \ {"create"}
    BY <1>12 DEF PdfAvailable, Calls
  <2>3. Reached("similarity_pdf_available")
    BY <2>2, GotIs DEF Known, Reached
  <2>4. old' \in BOOLEAN
    BY <1>12 DEF PdfAvailable
  <2>5. QED
    BY <1>0, <1>12, <2>1, <2>2, <2>3, <2>4, MoveAndGoOn DEF PdfAvailable
<1>13. CASE Downloaded(p)
  <2>1. Moved(p, "similarity_pdf_downloaded") \in Entities
        /\ Moved(p, "similarity_pdf_downloaded").status = "similarity_pdf_downloaded"
    BY MovedTyped DEF IInv, Statuses
  <2>2. Got(p, "download", {"ok"})
    BY <1>13 DEF Downloaded
  <2>3. Reached("similarity_pdf_downloaded")
    BY <2>2, GotIs DEF Known, Reached
  <2>4. QED
    BY <1>0, <1>13, <2>1, <2>2, <2>3, MoveAndEnd DEF Downloaded
<1> QED BY <1>1, <1>2, <1>3, <1>4, <1>5, <1>6, <1>7, <1>8, <1>9, <1>10, <1>11, <1>12, <1>13
        DEF Record

----------------------------------------------------------------------------
(* Picking, beginning and dying *)

LEMMA RunIs == "run" \in Performers /\ \A h \in Hooks : h # "run" /\ h \in Performers
BY TurnItInAssumption DEF Performers

LEMMA PickKeeps == ASSUME IInv, Pick PROVE IInv'
<1> DEFINE l == [Idle EXCEPT !.pc = "picked", !.was = action, !.now = action]
<1>1. /\ local' = [local EXCEPT !["run"] = l] /\ asked' = FALSE
      /\ UNCHANGED <<rows, eula, world, happened>>
      /\ local["run"].pc = "idle"
  BY DEF Pick
<1>2. action \in Actions /\ local \in [Performers -> LocalRecords]
  BY LocalTyped, RunIs DEF IInv
<1>3. l \in LocalRecords /\ l.pc = "picked" /\ l.call = "none"
  BY <1>2, IdleTyped DEF Idle, LocalRecords
<1> HIDE DEF l
<1>4. TypeOK'
  <2>1. local' \in [Performers -> LocalRecords] /\ asked' \in BOOLEAN
    BY <1>1, <1>2, <1>3
  <2>2. QED
    BY <1>1, <2>1, TypesApart, TypesTogether DEF IInv, rows, world
<1>5. ~(heard /\ entity.status = "created")
  BY <1>1 DEF IInv, HeardOnce, Got
<1> QED BY <1>1, <1>3, <1>4, <1>5, RunIs, OwnStep DEF rows, world

\* The check performs the action, or finds that there is nothing to do.
LEMMA BeginKeeps == ASSUME IInv, Begin PROVE IInv'
<1> DEFINE was == local["run"].was
           a == [was EXCEPT !.retry = FALSE, !.complete = FALSE,
                            !.error = IF was.retry THEN "none" ELSE was.error]
<1>1. /\ was \in Actions /\ local \in [Performers -> LocalRecords] /\ entity \in Entities
      /\ old \in BOOLEAN
  BY LocalTyped, RunIs, TypesApart DEF IInv
<1>2. a \in Actions
  BY <1>1 DEF Actions
<1>3. /\ local["run"].pc = "picked" /\ UNCHANGED <<entity, old, eula, asked, world, happened>>
      /\ ~Got("run", "create", {"ok"})
  BY DEF Begin, Got
<1>4. ~(heard /\ entity.status = "created")
  BY <1>3 DEF IInv, HeardOnce
<1> DEFINE l == [pc |-> "call", call |-> FirstCall[entity.status], reply |-> "none",
                 was |-> was, now |-> a, ent |-> entity]
<1>5. \/ Ends("run", a) \/ Ends("run", Failed(a, "eula"))
      \/ /\ entity.status \notin Final
         /\ local' = [local EXCEPT !["run"] = l]
         /\ UNCHANGED action
  BY DEF Begin
<1>6. Failed(a, "eula") \in Actions
  BY <1>2, ActionsMade
<1> HIDE DEF a, was
<1>7. ASSUME NEW b \in Actions, Ends("run", b) PROVE IInv'
  BY <1>1, <1>3, <1>7, RunIs, EndsStep
<1>8. ASSUME entity.status \notin Final, local' = [local EXCEPT !["run"] = l], UNCHANGED action
      PROVE  IInv'
  <2>1. entity.status \in Statuses \ Final
    BY <1>1, <1>8 DEF Entities
  <2>2. /\ FirstCall[entity.status] \in Calls
        /\ FirstCall[entity.status] = "create" <=> entity.status = "created"
    BY <2>1 DEF FirstCall, Calls, Statuses, Final
  <2>3. "none" \in Replies
    BY DEF Replies
  <2>4. l \in LocalRecords /\ l.pc = "call" /\ l.call = FirstCall[entity.status]
        /\ l.ent = entity
    BY <1>1, <1>2, <2>2, <2>3 DEF LocalRecords
  <2> HIDE DEF l
  <2>5. local' \in [Performers -> LocalRecords]
    BY <1>1, <1>8, <2>4
  <2>6. TypeOK'
    BY <1>3, <1>8, <2>5, TypesApart, TypesTogether DEF IInv, world
  <2>7. l.call # "none"
    BY <2>2, <2>4 DEF Calls
  <2>8. QED
    BY <1>3, <1>4, <1>8, <2>2, <2>4, <2>6, <2>7, RunIs, OwnStep DEF world
<1> QED BY <1>2, <1>5, <1>6, <1>7, <1>8

LEMMA DieKeeps == ASSUME IInv, NEW p \in Performers, Die(p) PROVE IInv'
<1>1. /\ local' = [local EXCEPT ![p] = Idle]
      /\ heard' = IF Got(p, "create", {"ok"}) THEN FALSE ELSE heard
      /\ UNCHANGED <<rows, eula, asked, tii, events, doubled>>
      /\ happened < MaxEvents /\ happened' = happened + 1
  BY DEF Die
<1>2. Idle \in LocalRecords /\ Idle.pc = "idle" /\ Idle.call = "none"
  BY IdleTyped DEF Idle
<1>3. TypeOK'
  <2>1. happened' \in 0..MaxEvents
    BY <1>1, TypesApart, TurnItInAssumption DEF IInv
  <2>2. heard' \in BOOLEAN
    BY <1>1, TypesApart DEF IInv
  <2>3. local' \in [Performers -> LocalRecords]
    BY <1>1, <1>2, TypesApart DEF IInv
  <2>4. QED
    BY <1>1, <2>1, <2>2, <2>3, TypesApart, TypesTogether DEF IInv, rows
<1>4. heard' /\ entity'.status = "created" => heard /\ p # "run"
  BY <1>1 DEF IInv, HeardOnce, rows
<1> QED BY <1>1, <1>2, <1>3, <1>4, OwnStep DEF rows

LEMMA OthersKeep ==
    ASSUME IInv, RetryWithEula \/ People \/ DayPasses
    PROVE  IInv'
<1>1. UNCHANGED <<entity, local, world>>
  BY DEF RetryWithEula, People, AdminRetry, AcceptEula, DayPasses, rows
<1>2. action' \in Actions
  BY TypesApart, ActionsMade DEF IInv, RetryWithEula, People, AdminRetry, AcceptEula,
     DayPasses, rows
<1>3. old' \in BOOLEAN /\ eula' \in BOOLEAN /\ asked' \in BOOLEAN
  BY TypesApart, Zenon DEF IInv, RetryWithEula, People, AdminRetry, AcceptEula, DayPasses, rows
<1>4. happened' \in 0..MaxEvents
  BY TypesApart, TurnItInAssumption DEF IInv, RetryWithEula, People, AdminRetry, AcceptEula,
     DayPasses
<1>5. TypeOK'
  BY <1>1, <1>2, <1>3, <1>4, TypesApart, TypesTogether DEF IInv, world
<1> QED BY <1>1, <1>5, QuietStep

----------------------------------------------------------------------------
(* Turnitin and its web hooks *)

\* Turnitin goes on: what was reached stays so.
TiiGrows ==
    /\ tii.file \notin {"none", "created"} => tii'.file \notin {"none", "created"}
    /\ tii.file = "file_complete" => tii'.file = "file_complete"
    /\ tii.report # "none" => tii'.report # "none"
    /\ tii.report = "complete" => tii'.report = "complete"
    /\ tii.pdf # "none" => tii'.pdf # "none"
    /\ tii.pdf = "ready" => tii'.pdf = "ready"

LEMMA TiiStep ==
    ASSUME IInv, TypeOK', UNCHANGED <<entity, local, heard, doubled>>,
           entity.status # "created", TiiGrows, EventsTrue'
    PROVE  IInv'
<1>1. \A p \in Performers : LocalOK(p, local[p])'
  BY DEF IInv, LocalOK, Known, TiiGrows
<1>2. NeverAhead'
  BY DEF IInv, NeverAhead, Reached, TiiGrows
<1> QED BY <1>1, <1>2 DEF IInv, Fresh, HeardOnce

LEMMA TiiKeeps == ASSUME IInv, TiiNext PROVE IInv'
<1>1. tii \in TiiRecords /\ events \subseteq Events
  BY TypesApart DEF IInv
<1>2. CASE FileDone
  <2>1. PICK r \in {"file_complete", "file_failed"} :
           tii' = [tii EXCEPT !.file = r] /\ events' = events \cup {r}
    BY <1>2 DEF FileDone
  <2>2. tii.file = "processing" /\ UNCHANGED <<rows, eula, asked, local, happened, heard, doubled>>
    BY <1>2 DEF FileDone
  <2>3. tii' \in TiiRecords /\ tii'.file = r /\ tii'.report = tii.report /\ tii'.pdf = tii.pdf
    BY <1>1, <2>1 DEF TiiRecords
  <2>4. TypeOK'
    <3>1. events' \subseteq Events
      BY <1>1, <2>1 DEF Events
    <3>2. QED
      BY <2>2, <2>3, <3>1, TypesApart, TypesTogether DEF IInv, rows
  <2>5. EventsTrue'
    BY <2>1, <2>2, <2>3 DEF IInv, EventsTrue
  <2>6. QED
    BY <2>2, <2>3, <2>4, <2>5, TiiStep DEF IInv, Fresh, rows, TiiGrows
<1>3. CASE ReportDone
  <2>1. PICK r \in {"high", "low"} :
           tii' = [tii EXCEPT !.report = "complete", !.match = r] /\ events' = events \cup {r}
    BY <1>3 DEF ReportDone
  <2>2. tii.report = "processing"
        /\ UNCHANGED <<rows, eula, asked, local, happened, heard, doubled>>
    BY <1>3 DEF ReportDone
  <2>3. tii' \in TiiRecords /\ tii'.report = "complete" /\ tii'.file = tii.file
        /\ tii'.pdf = tii.pdf
    BY <1>1, <2>1 DEF TiiRecords
  <2>4. TypeOK'
    <3>1. events' \subseteq Events
      BY <1>1, <2>1 DEF Events
    <3>2. QED
      BY <2>2, <2>3, <3>1, TypesApart, TypesTogether DEF IInv, rows
  <2>5. EventsTrue'
    BY <2>1, <2>2, <2>3 DEF IInv, EventsTrue
  <2>6. QED
    BY <2>2, <2>3, <2>4, <2>5, TiiStep DEF IInv, Fresh, rows, TiiGrows
<1>4. CASE PdfDone
  <2>1. PICK r \in {"ready", "failed"} :
           tii' = [tii EXCEPT !.pdf = r] /\ events' = events \cup {r}
    BY <1>4 DEF PdfDone
  <2>2. tii.pdf = "pending" /\ UNCHANGED <<rows, eula, asked, local, happened, heard, doubled>>
    BY <1>4 DEF PdfDone
  <2>3. tii' \in TiiRecords /\ tii'.pdf = r /\ tii'.file = tii.file /\ tii'.report = tii.report
    BY <1>1, <2>1 DEF TiiRecords
  <2>4. TypeOK'
    <3>1. events' \subseteq Events
      BY <1>1, <2>1 DEF Events
    <3>2. QED
      BY <2>2, <2>3, <3>1, TypesApart, TypesTogether DEF IInv, rows
  <2>5. EventsTrue'
    BY <2>1, <2>2, <2>3 DEF IInv, EventsTrue
  <2>6. QED
    BY <2>2, <2>3, <2>4, <2>5, TiiStep DEF IInv, Fresh, rows, TiiGrows
<1> QED BY <1>2, <1>3, <1>4 DEF TiiNext
\* What a call other than "create" does at Turnitin, and what it answers.
LEMMA EffectIs ==
    ASSUME tii \in TiiRecords, NEW c \in Calls \ {"create"}, tii' = Effect(c)
    PROVE  tii' \in TiiRecords /\ TiiGrows
<1>1. CASE c = "upload"
  BY <1>1 DEF Effect, TiiRecords, TiiGrows
<1>2. CASE c = "request"
  BY <1>2 DEF Effect, TiiRecords, TiiGrows
<1>3. CASE c = "pdf"
  BY <1>3 DEF Effect, TiiRecords, TiiGrows
<1>4. CASE c \notin {"upload", "request", "pdf"}
  BY <1>4 DEF Effect, TiiGrows
<1> QED BY <1>1, <1>2, <1>3, <1>4

LEMMA ReplyIs ==
    ASSUME tii \in TiiRecords, NEW c \in Calls
    PROVE  ReplyTo(c) \in Replies
BY DEF ReplyTo, TiiRecords, Replies, Events, Calls

LEMMA ReplyKnown ==
    ASSUME tii \in TiiRecords, NEW c \in Calls \ {"create"}, tii' = Effect(c),
           NEW r, r = ReplyTo(c)
    PROVE  Known(c, r)'
<1>1. CASE c = "upload"
  BY <1>1 DEF Effect, ReplyTo, Known, TiiRecords
<1>2. CASE c = "request"
  BY <1>2 DEF Effect, ReplyTo, Known, TiiRecords
<1>3. CASE c = "pdf"
  BY <1>3 DEF Effect, ReplyTo, Known, TiiRecords
<1>4. CASE c \in {"submission", "result", "pdf_status", "download"}
  <2>1. tii' = tii
    BY <1>4 DEF Effect
  <2>2. QED
    BY <1>4, <2>1 DEF ReplyTo, Known, TiiRecords
<1> QED BY <1>1, <1>2, <1>3, <1>4 DEF Calls

LEMMA AnswerKeeps == ASSUME IInv, NEW p \in Performers, Answer(p) PROVE IInv'
<1>1. /\ local[p] \in LocalRecords /\ local \in [Performers -> LocalRecords]
      /\ tii \in TiiRecords /\ LocalOK(p, local[p])
      /\ UNCHANGED <<rows, eula, asked, events, happened>> /\ local[p].pc = "call"
  BY LocalTyped, TypesApart DEF IInv, Answer
<1>2. PICK c \in Calls : /\ local[p].call = c
                         /\ c = "create" <=> entity.status = "created"
                         /\ c = "create" => p = "run" /\ local[p].ent.status = "created"
  BY <1>1 DEF LocalOK, LocalRecords
<1>3. PICK r \in {ReplyTo(c)} \cup {"busy", "refused"} :
         /\ Answers(p, r)
         /\ \/ /\ Made(c, r) /\ tii' = Effect(c) /\ r \in {ReplyTo(c), "busy"}
            \/ /\ UNCHANGED <<tii, heard, doubled>> /\ r \in {"busy", "refused"}
  BY <1>2, TurnItInAssumption DEF Answer
<1> DEFINE l == [local[p] EXCEPT !.pc = "answered", !.reply = r]
<1>4. local' = [local EXCEPT ![p] = l]
  BY <1>3 DEF Answers
<1>5. r \in Replies
  BY <1>1, <1>2, <1>3, ReplyIs DEF Replies
<1>6. l \in LocalRecords /\ l.pc = "answered" /\ l.reply = r /\ l.call = c
      /\ l.ent = local[p].ent
  BY <1>1, <1>2, <1>5 DEF LocalRecords
<1> HIDE DEF l
<1>7. \A q \in Performers : local'[q] = IF q = p THEN l ELSE local[q]
  BY <1>1, <1>4
<1>8. tii' \in TiiRecords /\ heard' \in BOOLEAN /\ doubled' \in BOOLEAN => TypeOK'
  <2>1. local' \in [Performers -> LocalRecords]
    BY <1>1, <1>4, <1>6
  <2>2. QED
    BY <1>1, <2>1, TypesApart, TypesTogether DEF IInv, rows
<1>9. CASE c = "create"
  <2>1. p = "run" /\ entity.status = "created" /\ entity' = entity
    BY <1>1, <1>2, <1>9 DEF rows
  <2>2. ~heard /\ ~doubled
    BY <1>1, <2>1 DEF IInv, HeardOnce, Got
  <2>3. tii' = tii \/ tii' = [NewTii EXCEPT !.file = "created"]
    BY <1>3, <1>9 DEF Effect
  <2>4. tii' \in TiiRecords /\ tii'.file \in {"none", "created"}
        /\ tii'.report = "none" /\ tii'.pdf = "none" /\ events' = {}
    BY <1>1, <2>1, <2>3 DEF NewTii, TiiRecords, IInv, Fresh
  <2>5. heard' \in BOOLEAN /\ ~doubled' /\ (heard' => r = "ok")
    <3>1. CASE Made(c, r)
      BY <1>9, <2>2, <3>1, Zenon DEF Made
    <3>2. CASE UNCHANGED <<tii, heard, doubled>>
      BY <2>2, <3>2, TypesApart DEF IInv
    <3>3. QED
      BY <1>3, <3>1, <3>2
  <2>6. doubled' \in BOOLEAN
    BY <1>3, TypesApart, Zenon DEF Made, IInv
  <2>7. ASSUME NEW q \in Performers PROVE LocalOK(q, local[q])'
    <3>1. CASE q = p
      BY <1>2, <1>6, <1>7, <1>9, <2>1, <3>1 DEF LocalOK, Known
    <3>2. CASE q # p
      <4>1. local'[q] = local[q] /\ LocalOK(q, local[q]) /\ q # "run"
        BY <1>7, <2>1, <3>2 DEF IInv
      <4>2. local[q].pc \notin {"call", "answered"}
        BY <2>1, <4>1 DEF LocalOK
      <4>3. QED
        BY <4>1, <4>2 DEF LocalOK
    <3>3. QED
      BY <3>1, <3>2
  <2>8. HeardOnce'
    BY <1>6, <1>7, <1>9, <2>1, <2>5, RunIs DEF HeardOnce, Got
  <2>9. Fresh' /\ EventsTrue' /\ NeverAhead'
    BY <2>1, <2>4 DEF Fresh, EventsTrue, NeverAhead, Reached
  <2>10. QED
    BY <1>8, <2>4, <2>5, <2>6, <2>7, <2>8, <2>9 DEF IInv
<1>10. CASE c # "create"
  <2>1. entity.status # "created" /\ entity' = entity /\ events' = events
    BY <1>1, <1>2, <1>10 DEF rows
  <2>2. tii' \in TiiRecords /\ TiiGrows
    <3>1. CASE tii' = Effect(c)
      BY <1>1, <1>2, <1>10, <3>1, EffectIs
    <3>2. CASE tii' = tii
      BY <1>1, <3>2 DEF TiiGrows
    <3>3. QED
      BY <1>3, <3>1, <3>2
  <2>3. UNCHANGED <<heard, doubled>>
    <3>1. doubled \in BOOLEAN
      BY TypesApart DEF IInv
    <3>2. CASE Made(c, r)
      BY <1>10, <3>1, <3>2, Zenon DEF Made, IInv, HeardOnce
    <3>3. CASE UNCHANGED <<tii, heard, doubled>>
      BY <3>3
    <3>4. QED
      BY <1>3, <3>2, <3>3
  <2>4. Known(c, r)'
    <3>1. CASE r = ReplyTo(c) /\ tii' = Effect(c)
      BY <1>1, <1>2, <1>10, <3>1, ReplyKnown
    <3>2. CASE r \in {"busy", "refused"}
      BY <3>2 DEF Known
    <3>3. QED
      BY <1>3, <3>1, <3>2
  <2>5. ASSUME NEW q \in Performers PROVE LocalOK(q, local[q])'
    <3>1. CASE q = p
      <4>1. local'[q] = l /\ l.call # "create" /\ l.call # "none" /\ entity'.status # "created"
        BY <1>6, <1>7, <1>10, <2>1, <3>1 DEF Calls
      <4>2. Known(local[q].call, local[q].reply)'
        BY <1>6, <2>4, <4>1
      <4>3. QED
        BY <1>6, <4>1, <4>2 DEF LocalOK
    <3>2. CASE q # p
      <4>1. local'[q] = local[q] /\ LocalOK(q, local[q])
        BY <1>7, <3>2 DEF IInv
      <4>2. QED
        BY <2>1, <2>2, <4>1 DEF LocalOK, Known, TiiGrows
    <3>3. QED
      BY <3>1, <3>2
  <2>6. TypeOK'
    BY <1>8, <2>2, <2>3, TypesApart DEF IInv
  <2>7. NeverAhead' /\ Fresh' /\ HeardOnce'
    BY <2>1, <2>2, <2>3 DEF IInv, NeverAhead, Reached, Fresh, HeardOnce, TiiGrows
  <2>8. EventsTrue'
    BY <2>1, <2>2 DEF IInv, EventsTrue, TiiGrows
  <2>9. QED
    BY <2>5, <2>6, <2>7, <2>8 DEF IInv
<1> QED BY <1>9, <1>10

\* The handler of a web hook: it saves a status that has been reached.
LEMMA ArriveStep ==
    ASSUME IInv, NEW h \in Hooks, NEW l \in LocalRecords,
           entity.status # "created", entity' \in Entities,
           UNCHANGED <<eula, asked, tii, heard, doubled>>, old' \in BOOLEAN,
           events' \subseteq events, happened' \in 0..MaxEvents,
           action' \in Actions, local' = [local EXCEPT ![h] = l],
           \/ entity'.status = entity.status
           \/ entity'.status # "created" /\ Reached(entity'.status),
           l.pc \in {"idle", "call"}, l.call # "create",
           l.pc = "call" => l.call # "none"
    PROVE  IInv'
<1>1. local' \in [Performers -> LocalRecords]
  BY RunIs, TypesApart DEF IInv
<1>2. TypeOK'
  BY <1>1, TypesApart, TypesTogether DEF IInv
<1>3. entity'.status # "created" /\ h \in Performers
  BY RunIs
<1> QED BY <1>2, <1>3, OwnStep

\* A handler that makes a call of its own.
LEMMA HandlingStep ==
    ASSUME IInv, NEW h \in Hooks, NEW s \in Statuses \ {"created"}, NEW a \in Actions,
           NEW c \in Calls \ {"create"}, Handling(h, s, a, c),
           entity.status # "created", Reached(s), old' \in BOOLEAN,
           UNCHANGED <<eula, asked, tii, heard, doubled>>,
           events' \subseteq events, happened' \in 0..MaxEvents
    PROVE  IInv'
<1>1. entity' \in Entities /\ entity'.status = s /\ action' = a
  BY TypesApart DEF Handling, IInv, Entities
<1>2. PICK l \in LocalRecords : /\ local' = [local EXCEPT ![h] = l]
                                /\ l.pc = "call" /\ l.call = c
  <2> DEFINE l == [pc |-> "call", call |-> c, reply |-> "none",
                   was |-> a, now |-> a, ent |-> entity']
  <2>1. l \in LocalRecords /\ l.pc = "call" /\ l.call = c
    BY <1>1 DEF LocalRecords, Replies
  <2>2. local' = [local EXCEPT ![h] = l]
    BY DEF Handling
  <2> HIDE DEF l
  <2>3. QED
    BY <2>1, <2>2
<1>3. c # "create" /\ c # "none"
  BY DEF Calls
<1> QED BY <1>1, <1>2, <1>3, ArriveStep

LEMMA ArriveKeeps ==
    ASSUME IInv, NEW h \in Hooks, NEW e \in Events, Arrive(h, e)
    PROVE  IInv'
<1>1. /\ e \in events /\ Handle(h, e) /\ local[h].pc = "idle"
      /\ UNCHANGED <<eula, asked, tii, heard, doubled>>
  BY DEF Arrive
<1>2. entity.status # "created"
  BY <1>1 DEF IInv, Fresh
<1>3. events' \subseteq events /\ happened' \in 0..MaxEvents
  BY TypesApart, TurnItInAssumption DEF Arrive, IInv
<1>4. /\ entity \in Entities /\ action \in Actions /\ old \in BOOLEAN /\ h \in Performers
      /\ local \in [Performers -> LocalRecords] /\ local[h] \in LocalRecords
  BY TypesApart, RunIs DEF IInv
<1>5. LocalOK(h, local[h]) /\ h # "run"
  BY <1>4, RunIs DEF IInv
<1>6. local[h].call # "create"
  BY <1>5 DEF LocalOK
<1>7. /\ Rescheduled(action) \in Actions /\ Finished(action) \in Actions
      /\ [action EXCEPT !.retries = 0] \in Actions
      /\ [Failed(action, "refused") EXCEPT !.complete = FALSE] \in Actions
  BY <1>4, ActionsMade
<1>8. EventsTrue
  BY DEF IInv
<1>9. {"request", "pdf", "download"} \subseteq Calls \ {"create"}
  BY DEF Calls
<1>10. ASSUME local' = local, action' \in Actions, old' \in BOOLEAN, entity' \in Entities,
              \/ entity'.status = entity.status
              \/ entity'.status # "created" /\ Reached(entity'.status)
       PROVE  IInv'
  <2>1. local' = [local EXCEPT ![h] = local[h]]
    BY <1>4, <1>10
  <2>2. QED
    BY <1>1, <1>2, <1>3, <1>4, <1>6, <1>10, <2>1, ArriveStep
<1>11. CASE /\ e = "file_complete"
            /\ Handling(h, "submission_complete", Rescheduled(action), "request")
            /\ UNCHANGED old
  <2>1. Reached("submission_complete")
    BY <1>1, <1>8, <1>11 DEF EventsTrue, Reached
  <2>2. "submission_complete" \in Statuses \ {"created"}
    BY DEF Statuses
  <2>3. QED
    BY <1>1, <1>2, <1>3, <1>4, <1>7, <1>9, <1>11, <2>1, <2>2, HandlingStep
<1>12. CASE /\ e = "file_failed"
            /\ action' = [Failed(action, "refused") EXCEPT !.complete = FALSE]
            /\ UNCHANGED <<entity, old, local>>
  BY <1>4, <1>7, <1>10, <1>12
<1>13. CASE /\ e = "high"
            /\ Handling(h, "similarity_report_complete", Rescheduled(action), "pdf")
            /\ UNCHANGED old
  <2>1. Reached("similarity_report_complete")
    BY <1>1, <1>8, <1>13 DEF EventsTrue, Reached
  <2>2. "similarity_report_complete" \in Statuses \ {"created"}
    BY DEF Statuses
  <2>3. QED
    BY <1>1, <1>2, <1>3, <1>4, <1>7, <1>9, <1>13, <2>1, <2>2, HandlingStep
<1>14. CASE /\ e = "low"
            /\ entity' = [entity EXCEPT !.status = "complete_low_similarity"]
            /\ action' = Finished(action)
            /\ UNCHANGED <<old, local>>
  <2>1. Reached("complete_low_similarity")
    BY <1>1, <1>8, <1>14 DEF EventsTrue, Reached
  <2>2. entity' \in Entities /\ entity'.status = "complete_low_similarity"
    BY <1>4, <1>14 DEF Entities, Statuses
  <2>3. QED
    BY <1>4, <1>7, <1>10, <1>14, <2>1, <2>2
<1>15. CASE /\ e = "ready" /\ old' = FALSE
            /\ Handling(h, "similarity_pdf_available", [action EXCEPT !.retries = 0],
                        "download")
  <2>1. Reached("similarity_pdf_available")
    BY <1>1, <1>8, <1>15 DEF EventsTrue, Reached
  <2>2. "similarity_pdf_available" \in Statuses \ {"created"} /\ old' \in BOOLEAN
    BY <1>15 DEF Statuses
  <2>3. QED
    BY <1>1, <1>2, <1>3, <1>7, <1>9, <1>15, <2>1, <2>2, HandlingStep
<1>16. CASE /\ e = "ready" /\ old' = FALSE
            /\ entity' = [entity EXCEPT !.status = "similarity_pdf_available"]
            /\ action' = [action EXCEPT !.retries = 0]
            /\ UNCHANGED local
  <2>1. Reached("similarity_pdf_available")
    BY <1>1, <1>8, <1>16 DEF EventsTrue, Reached
  <2>2. entity' \in Entities /\ entity'.status = "similarity_pdf_available"
    BY <1>4, <1>16 DEF Entities, Statuses
  <2>3. QED
    BY <1>7, <1>10, <1>16, <2>1, <2>2
<1>17. CASE e = "failed" /\ UNCHANGED <<rows, local>>
  BY <1>4, <1>10, <1>17 DEF rows
<1> QED BY <1>1, <1>11, <1>12, <1>13, <1>14, <1>15, <1>16, <1>17 DEF Handle

----------------------------------------------------------------------------
(* The theorems *)

\* Every step of a run, a web hook, Turnitin or an administrator keeps the
\* invariant.
THEOREM NextIInv == IInv /\ [Next]_vars => IInv'
<1> SUFFICES ASSUME IInv, [Next]_vars PROVE IInv'
  OBVIOUS
<1>1. CASE Next
  <2>1. CASE Pick \/ Begin
    BY <2>1, PickKeeps, BeginKeeps
  <2>2. CASE RetryWithEula \/ People \/ DayPasses
    BY <2>2, OthersKeep
  <2>3. CASE TiiNext
    BY <2>3, TiiKeeps
  <2>4. ASSUME NEW p \in Performers, Answer(p) \/ Record(p) \/ Die(p)
        PROVE  IInv'
    BY <2>4, AnswerKeeps, RecordKeeps, DieKeeps
  <2>5. ASSUME NEW h \in Hooks, NEW e \in Events, Arrive(h, e)
        PROVE  IInv'
    BY <2>5, ArriveKeeps
  <2>6. QED
    BY <1>1, <2>1, <2>2, <2>3, <2>4, <2>5 DEF Next
<1>2. CASE UNCHANGED vars
  <2>1. UNCHANGED <<entity, action, old, eula, asked, local, world, happened>>
        /\ UNCHANGED <<tii, events, heard, doubled>>
    BY <1>2 DEF vars, rows, world
  <2>2. TypeOK'
    BY <2>1, TypesApart, TypesTogether DEF IInv
  <2>3. QED
    BY <2>1, <2>2, QuietStep
<1> QED BY <1>1, <1>2

\* The inductive invariant holds throughout.
THEOREM SpecIInv == Spec => []IInv
BY InitIInv, NextIInv, PTL DEF Spec

\* Every row, copy and answer keeps its range, whatever Turnitin, its web
\* hooks and the checks do together.
THEOREM TypeCorrect == Spec => []TypeOK
<1>1. IInv => TypeOK
  BY DEF IInv
<1> QED BY <1>1, SpecIInv, PTL

\* The status of a TiiSubmission, which decides what a tutor is shown, is never
\* ahead of what Turnitin has done: for any number of web hooks handled at
\* once, any retries and any deaths.
THEOREM StatusNeverAhead == Spec => []NeverAhead
<1>1. IInv => NeverAhead
  BY DEF IInv
<1> QED BY <1>1, SpecIInv, PTL

\* While the answer with its id was not lost, a file is handed to Turnitin
\* once, whatever fails or dies after that.
THEOREM HandedInOnceHolds == Spec => []HandedInOnce
<1>1. IInv => HandedInOnce
  BY DEF IInv, HeardOnce, HandedInOnce
<1> QED BY <1>1, SpecIInv, PTL
============================================================================
