--------------------------- MODULE GroupSubmissions ---------------------------
(***************************************************************************)
(* One task that students hand in as a group.  Each student has a task of  *)
(* his own; a GroupSubmission links the tasks of those who share a piece of*)
(* work, names who handed it in, and gives the path of its zip.  A member's*)
(* request loads his task, waits for the lock of the group, links the      *)
(* tasks, places the files under his own task, enqueues a job and commits; *)
(* the serial submission worker zips what it finds.  Students change groups*)
(* meanwhile, tutors assess, and a comment on a task without a group       *)
(* submission makes one.                                                   *)
(*                                                                         *)
(* Uploads are numbered as their files are placed.  A task is "open" when  *)
(* work is asked for, "ready" for feedback, or "closed": complete, feedback*)
(* exceeded or failed.                                                     *)
(*                                                                         *)
(* An operator marked "mutant" is not part of the specification: it is a   *)
(* mistake that could be made in the definition that follows it, and one   *)
(* of the properties fails when it takes its place.                        *)
(***************************************************************************)
EXTENDS Integers, Sequences, FiniteSets

CONSTANTS
    Students, Groups,
    NoGroup,     \* a student without an active membership
    MaxSubs,     \* bound: group submissions ever created
    MaxUploads,  \* bound: uploads accepted
    MaxEvents    \* bound: together, changes of groups, verdicts of a tutor and
                 \* requests that fail between the link and the commit

ASSUME GroupAssumption ==
    /\ NoGroup \notin Groups /\ {"none", "nobody"} \cap Students = {}
    /\ {MaxSubs, MaxUploads, MaxEvents} \subseteq Nat

VARIABLES
    group,    \* the active membership of each student
    link,     \* group_submission_id of each task; 0 is none
    status,   \* of each task
    subs,     \* the GroupSubmissions: for which group, handed in by whom
    made,     \* how many group submissions were created
    done,     \* the zips, by group and group submission: an upload, or 0
    new,      \* the files in new/<task id>: an upload, or 0
    queue,    \* AcceptSubmissionJobs
    worker,   \* the serial worker: its place, its task, the link it loaded
    req,      \* the request of each student
    uploads,  \* how many were accepted
    events,   \* how many of the bounded events there were
    team,     \* history variable: who was in the group when an upload was accepted
    lapsed    \* history variable: group submissions that lost their files in a
              \* way the code leaves open, each marked where it happens

tables == <<group, link, status, subs, made>>
files  == <<done, new>>
jobs   == <<queue, worker>>
bounds == <<uploads, events>>
vars   == <<tables, files, jobs, req, bounds, team, lapsed>>

Ids == 1..MaxSubs
Members(g) == {t \in Students : group[t] = g}
Linked(lk, id) == {t \in Students : lk[t] = id}

Happens == events < MaxEvents /\ events' = events + 1

-------------------------------------------------------------------------------
(* What a loaded task knows of its group submission: the association is     *)
(* loaded with the task, and asked again only for its tasks.                *)

NoSub == [id |-> 0, group |-> NoGroup, by |-> "nobody"]
SubOf(s) == IF link[s] = 0 THEN NoSub
            ELSE [id |-> link[s], group |-> subs[link[s]].group, by |-> subs[link[s]].by]

\* submitter_task: that of the one who handed it in if it is linked still, or
\* the first that is; none if there is none.
SubmitterTask(sub) ==
    LET linked == Linked(link, sub.id) IN
    CASE sub.id = 0 \/ linked = {} -> {}
      [] sub.id # 0 /\ sub.by \in linked -> {sub.by}
      [] OTHER -> {CHOOSE t \in linked : TRUE}

InProcess(t) == new[t] # 0 \/ (worker.at = "zipped" /\ worker.task = t)

\* processing_pdf?
Processing(s, sub) ==
    IF sub.id = 0 THEN InProcess(s) ELSE \E t \in SubmitterTask(sub) : InProcess(t)

-------------------------------------------------------------------------------
(* Requests of students *)

Pending(p) == req[p].pc \in {"accepted", "placed"}
NoRequest == [pc |-> "idle", sub |-> NoSub, to |-> 0, group |-> NoGroup,
              team |-> {}, rows |-> {}, ready |-> {}, gone |-> 0]

\* The rows a transaction has written are locked until it ends.
RowsFree(S) == \A p \in Students : Pending(p) => S \cap (req[p].rows \cup req[p].ready) = {}
GroupFree(g) == \A p \in Students : Pending(p) => req[p].group # g

Load(s) ==
    /\ req[s].pc = "idle"
    /\ group[s] # NoGroup
    /\ req' = [req EXCEPT ![s] = [NoRequest EXCEPT !.pc = "loaded", !.sub = SubOf(s)]]
    /\ UNCHANGED <<tables, files, jobs, bounds, team, lapsed>>

\* Being in process, out of the group, or left without linked tasks.
Refuse(s) ==
    /\ req[s].pc = "loaded"
    /\ \/ group[s] = NoGroup
       \/ Processing(s, req[s].sub)
       \/ req[s].sub.id # 0 /\ SubmitterTask(req[s].sub) = {}
    /\ req' = [req EXCEPT ![s] = NoRequest]
    /\ UNCHANGED <<tables, files, jobs, bounds, team, lapsed>>

\* mutant: only asks whether all contributors are there already
SomeComposition(sub, share, members) == sub.id # 0 /\ share \subseteq Linked(link, sub.id)

\* ~__different_project_composition__; a share of 0 always makes a difference.
SameComposition(sub, share, members) ==
    sub.id # 0 /\ share = members /\ Linked(link, sub.id) = members

\* mutant: the old group submission goes in any case
GoesAnyway(sub, to, lk) == sub.id \notin {0, to}

\* old_gs.destroy! if old_gs.projects.count.zero?
Goes(sub, to, lk) == sub.id \notin {0, to} /\ Linked(lk, sub.id) = {}

\* accept_submission as far as create_submission: under the group's lock, in a
\* transaction that sees the database as of now.  Members with a share are
\* linked unless their tasks are closed; the zip of a group submission without
\* tasks is deleted at once.
Accept(s, share) ==
    /\ req[s].pc = "loaded"
    /\ LET g == group[s]  sub == req[s].sub  members == Members(g)
           same == SameComposition(sub, share, members)
           to == IF same THEN sub.id ELSE made + 1
           rows == {t \in share : status[t] # "closed"}
           lk == [t \in Students |-> IF t \in rows THEN to ELSE link[t]]
           gone == Goes(sub, to, lk)
       IN  /\ g # NoGroup /\ GroupFree(g) /\ RowsFree(members)
           /\ share \subseteq members /\ share # {}
           /\ ~Processing(s, sub)
           /\ sub.id # 0 => SubmitterTask(sub) # {}
           /\ uploads < MaxUploads
           /\ to \in Ids
           /\ made' = IF same THEN made ELSE to
           /\ req' = [req EXCEPT ![s] =
                 [pc |-> "accepted", sub |-> sub, to |-> to, group |-> g, team |-> members,
                  rows |-> rows, ready |-> {t \in Linked(lk, to) : status[t] # "closed"},
                  gone |-> IF gone THEN sub.id ELSE 0]]
           /\ done' = IF gone THEN [done EXCEPT ![sub.group][sub.id] = 0] ELSE done
    /\ UNCHANGED <<group, link, status, subs, new, jobs, bounds, team, lapsed>>

\* mutant: the job of a task is not unique
EnqueuedAgain(s) == Append(queue, s)

\* A task has one job until that is executed; a second is rejected.
Enqueued(s) == IF s \in {queue[i] : i \in DOMAIN queue} \/ worker.task = s
               THEN queue ELSE Append(queue, s)

\* The files move to new/<task id>, and the job is enqueued, before the
\* transaction commits.
Place(s) ==
    /\ req[s].pc = "accepted"
    /\ uploads < MaxUploads
    /\ uploads' = uploads + 1
    /\ new' = [new EXCEPT ![s] = uploads + 1]
    /\ team' = [team EXCEPT ![uploads + 1] = req[s].team]
    /\ queue' = Enqueued(s)
    /\ req' = [req EXCEPT ![s].pc = "placed"]
    \* left open: the task's job is at work, for what it loaded before
    /\ lapsed' = IF worker.task = s THEN lapsed \cup ({req[s].to, worker.sub.id} \ {0}) ELSE lapsed
    /\ UNCHANGED <<tables, done, worker, events>>

\* What the submitter changes of the group submission as he loaded it; the rest
\* is not written.
Written(s, r, row) ==
    [group |-> IF r.to = r.sub.id /\ r.sub.group = r.group THEN row.group ELSE r.group,
     by    |-> IF r.to = r.sub.id /\ r.sub.by = s THEN row.by ELSE s]

\* Another handed in, since the request loaded it, the group submission it
\* looked at, and as it is filed now it has no zip.
Overtaken(r) ==
    /\ r.sub.id # 0 /\ r.sub.by # subs[r.sub.id].by
    /\ done[subs'[r.sub.id].group][r.sub.id] = 0

\* The rows are written and the locks released; a status that was ready stays.
Commit(s) ==
    /\ req[s].pc = "placed"
    /\ LET r == req[s]  row == Written(s, r, subs[r.to]) IN
       /\ subs' = [subs EXCEPT ![r.to] = row]
       /\ link' = [t \in Students |-> IF t \in r.rows THEN r.to ELSE link[t]]
       /\ status' = [t \in Students |-> IF t \in r.ready THEN "ready" ELSE status[t]]
       \* left open: members are taken from group submissions the one who hands
       \* in did not look at, he has no part in his own, or another has handed
       \* in what he did look at, and his files are not zipped
       /\ lapsed' = lapsed \cup ({link[t] : t \in r.rows} \ {r.sub.id, r.to})
                           \cup (IF s \in r.rows THEN {} ELSE {r.to, link[s]} \ {0})
                           \cup (IF Overtaken(r) THEN {r.sub.id} ELSE {})
    /\ req' = [req EXCEPT ![s] = NoRequest]
    /\ UNCHANGED <<group, made, files, jobs, bounds, team>>

\* The request fails and the database is rolled back; what happened to the
\* files and the queue has happened.
Abort(s) ==
    /\ Pending(s)
    /\ Happens
    \* left open: the zip is deleted, the files are placed
    /\ lapsed' = lapsed \cup ({req[s].gone, req[s].sub.id} \ {0})
    /\ req' = [req EXCEPT ![s] = NoRequest]
    /\ UNCHANGED <<tables, files, jobs, uploads, team>>

-------------------------------------------------------------------------------
(* Verdicts, and the group submission that is made when there is none *)

\* ensured_group_submission by a task of s that has none: the open tasks of
\* the group are linked to a new one, from whichever they had.
Ensured(s, st) ==
    /\ made < MaxSubs
    /\ made' = made + 1
    /\ subs' = [subs EXCEPT ![made + 1] = [group |-> group[s], by |-> s]]
    /\ link' = [t \in Students |-> IF group[t] = group[s] /\ st[t] # "closed"
                                   THEN made + 1 ELSE link[t]]
    \* left open: the files of the group are under the one before, and a job
    \* for that one may be rejected
    /\ lapsed' = lapsed \cup {made + 1} \cup {link[t] : t \in Members(group[s])}

Mates(s) == {t \in Students : t = s \/ group[t] = group[s] \/ (link[t] = link[s] /\ link[s] # 0)}

\* A status by a tutor, or in his name, on a task loaded with the link id; it
\* is passed on to the linked tasks that are not closed.
Judge(s, id, v) ==
    LET own == [status EXCEPT ![s] = v]
        spread(lk, i) == [t \in Students |-> IF lk[t] = i /\ own[t] # "closed" THEN v ELSE own[t]]
    IN  /\ RowsFree(Mates(s))
        /\ IF id = 0 /\ group[s] # NoGroup
           THEN Ensured(s, own) /\ status' = spread(link', made')
           ELSE /\ status' = IF id = 0 THEN own ELSE spread(link, id)
                /\ UNCHANGED <<link, subs, made, lapsed>>

Assess(s, v) ==
    /\ Happens
    /\ Judge(s, link[s], v)
    /\ UNCHANGED <<group, files, jobs, req, uploads, team>>

\* A comment with the task that was loaded.
Remark(s) ==
    /\ req[s].pc = "loaded" /\ req[s].sub.id = 0
    /\ group[s] # NoGroup /\ RowsFree(Mates(s))
    /\ Ensured(s, status)
    /\ req' = [req EXCEPT ![s] = NoRequest]
    /\ UNCHANGED <<group, status, files, jobs, bounds, team>>

\* Memberships change without the group's lock.
Move(s, g) ==
    /\ g # group[s]
    /\ Happens
    /\ group' = [group EXCEPT ![s] = g]
    /\ UNCHANGED <<link, status, subs, made, files, jobs, req, uploads, team, lapsed>>

-------------------------------------------------------------------------------
(* The worker: AcceptSubmissionJob, convert_submission_to_pdf *)

Resting == [at |-> "rest", task |-> "none", sub |-> NoSub]

\* The job loads the task and its group submission as they are committed.
\* left open: it can begin before the transaction that enqueued it commits.
Begin ==
    /\ worker.at = "rest" /\ queue # <<>>
    /\ LET s == Head(queue) IN
       /\ worker' = [at |-> "begun", task |-> s, sub |-> SubOf(s)]
       /\ lapsed' = IF Pending(s) THEN lapsed \cup ({req[s].to, link[s]} \ {0}) ELSE lapsed
    /\ queue' = Tail(queue)
    /\ UNCHANGED <<tables, files, req, bounds, team>>

\* "Multiple team member submissions received at the same time"
IsSubmitter(s, sub) == SubmitterTask(sub) = {s}

Zip ==
    LET s == worker.task  sub == worker.sub IN
    /\ worker.at = "begun" /\ IsSubmitter(s, sub)
    /\ done' = IF new[s] = 0 THEN done ELSE [done EXCEPT ![sub.group][sub.id] = new[s]]
    /\ new' = [new EXCEPT ![s] = 0]
    /\ worker' = IF done'[sub.group][sub.id] = 0 THEN Resting ELSE [worker EXCEPT !.at = "zipped"]
    \* left open: who handed it in is linked no more, and a member who was
    \* linked while his own files waited takes his place
    /\ lapsed' = IF new[s] = 0 \/ sub.by = s THEN lapsed ELSE lapsed \cup {sub.id}
    /\ UNCHANGED <<tables, queue, req, bounds, team>>

\* The files are not what the task asks for: they are removed and the student
\* is notified, no more.
Missing ==
    LET s == worker.task IN
    /\ worker.at = "begun" /\ IsSubmitter(s, worker.sub)
    /\ new[s] # 0
    /\ new' = [new EXCEPT ![s] = 0]
    /\ worker' = Resting
    \* left open: the task stays ready for feedback
    /\ lapsed' = lapsed \cup {worker.sub.id}
    /\ UNCHANGED <<tables, done, queue, req, bounds, team>>

\* The files of another than the submitter are removed; without any group
\* submission the job fails before it looks at them.
Reject ==
    LET s == worker.task  sub == worker.sub IN
    /\ worker.at = "begun" /\ ~IsSubmitter(s, sub)
    /\ new' = IF sub.id # 0 /\ SubmitterTask(sub) # {} THEN [new EXCEPT ![s] = 0] ELSE new
    /\ worker' = [worker EXCEPT !.at = "failed"]
    /\ UNCHANGED <<tables, done, queue, req, bounds, team, lapsed>>

Converted ==
    /\ worker.at = "zipped"
    /\ \E at \in {"rest", "failed"} :
          worker' = IF at = "rest" THEN Resting ELSE [worker EXCEPT !.at = "failed"]
    /\ UNCHANGED <<tables, files, queue, req, bounds, team, lapsed>>

\* The task, and those linked to it, are to be fixed.
Fix ==
    /\ worker.at = "failed"
    /\ Judge(worker.task, worker.sub.id, "open")
    /\ worker' = Resting
    /\ UNCHANGED <<group, files, queue, req, bounds, team>>

-------------------------------------------------------------------------------
Init ==
    /\ group \in [Students -> Groups \cup {NoGroup}]
    /\ link = [s \in Students |-> 0] /\ status = [s \in Students |-> "open"]
    /\ subs = [i \in Ids |-> [group |-> NoGroup, by |-> "nobody"]] /\ made = 0
    /\ done = [g \in Groups \cup {NoGroup} |-> [i \in Ids |-> 0]]
    /\ new = [s \in Students |-> 0]
    /\ queue = <<>> /\ worker = Resting
    /\ req = [s \in Students |-> NoRequest]
    /\ uploads = 0 /\ events = 0
    /\ team = [u \in 1..MaxUploads |-> {}] /\ lapsed = {}

Request(s) == \/ Load(s) \/ Refuse(s) \/ Place(s) \/ Commit(s) \/ Abort(s) \/ Remark(s)
              \/ \E share \in SUBSET Students : Accept(s, share)
Work == Begin \/ Zip \/ Missing \/ Reject \/ Converted \/ Fix

Next ==
    \/ \E s \in Students : Request(s)
    \/ \E s \in Students, v \in {"open", "closed"} : Assess(s, v)
    \/ \E s \in Students, g \in Groups \cup {NoGroup} : Move(s, g)
    \/ Work

Spec == Init /\ [][Next]_vars

-------------------------------------------------------------------------------
(* Properties *)

Subs == [id : 0..MaxSubs, group : Groups \cup {NoGroup}, by : Students \cup {"nobody"}]

\* Every variable keeps its range, and nobody has two jobs.
TypeOK ==
    /\ group \in [Students -> Groups \cup {NoGroup}]
    /\ link \in [Students -> 0..made] /\ made \in 0..MaxSubs
    /\ status \in [Students -> {"open", "ready", "closed"}]
    /\ subs \in [Ids -> [group : Groups \cup {NoGroup}, by : Students \cup {"nobody"}]]
    /\ done \in [Groups \cup {NoGroup} -> [Ids -> 0..uploads]]
    /\ new \in [Students -> 0..uploads] /\ uploads \in 0..MaxUploads /\ events \in 0..MaxEvents
    /\ worker \in [at : {"rest", "begun", "zipped", "failed"},
                   task : Students \cup {"none"}, sub : Subs]
    /\ queue \in Seq(Students)
    /\ \A i, k \in DOMAIN queue : queue[i] = queue[k] => i = k
    /\ \A s \in Students : req[s] \in
          [pc : {"idle", "loaded", "accepted", "placed"}, sub : Subs, to : 0..MaxSubs,
           group : Groups \cup {NoGroup}, team : SUBSET Students,
           rows : SUBSET Students, ready : SUBSET Students, gone : 0..MaxSubs]
    /\ lapsed \subseteq 0..MaxSubs

DoneOf(id) == done[subs[id].group][id]

\* A task that is ready for feedback has work to look at, or work on its way:
\* through requests that loaded their tasks before others submitted, changes
\* of groups, closed tasks, relinked members and rejected jobs.
ReadyHasWork ==
    \A s \in Students : status[s] = "ready" =>
        \/ link[s] \in lapsed \cup {req[p].gone : p \in {q \in Students : Pending(q)}}
        \/ link[s] # 0 /\ DoneOf(link[s]) # 0
        \/ \E t \in Linked(link, link[s]) : new[t] # 0

\* The work that is shown for a task was handed in by a group the student was
\* in at the time: nobody is shown, or judged on, what others handed in after
\* he left them.
OwnGroupsWork ==
    \A s \in Students :
        (link[s] # 0 /\ link[s] \notin lapsed /\ DoneOf(link[s]) # 0)
            => s \in team[DoneOf(link[s])]
===============================================================================
