------------------------ MODULE GroupSubmissionsProofs ------------------------
(***************************************************************************)
(* Proofs about GroupSubmissions, for any students, groups and bounds.     *)
(*                                                                         *)
(* TypeCorrect is first.  ReadyHasWork and OwnGroupsWork need to know, for *)
(* each group submission that has not lapsed, where its files are: waiting *)
(* in new/ with a job of the one who handed it in, in the hands of the     *)
(* worker, or zipped; and who may yet link, unlink or delete it (Tracked). *)
(***************************************************************************)
EXTENDS GroupSubmissions, SequenceTheorems, TLAPS

Places == Groups \cup {NoGroup}
Names  == Students \cup {"nobody"}

Requests == [pc : {"idle", "loaded", "accepted", "placed"}, sub : Subs, to : 0..MaxSubs,
             group : Places, team : SUBSET Students,
             rows : SUBSET Students, ready : SUBSET Students, gone : 0..MaxSubs]

\* TypeOK by the variables it is about, and what it needs to be inductive: a job
\* is about a student's task, a request on its way to commit has a group
\* submission to link to, and none has loaded one that was not made.
TablesOK ==
    /\ group \in [Students -> Places]
    /\ link \in [Students -> 0..made] /\ made \in 0..MaxSubs
    /\ status \in [Students -> {"open", "ready", "closed"}]
    /\ subs \in [Ids -> [group : Places, by : Names]]

FilesOK ==
    /\ done \in [Places -> [Ids -> 0..uploads]]
    /\ new \in [Students -> 0..uploads] /\ uploads \in 0..MaxUploads
    /\ team \in [1..MaxUploads -> SUBSET Students]

Jobs == [at : {"rest", "begun", "zipped", "failed"}, task : Students \cup {"none"}, sub : Subs]

JobsOK ==
    /\ worker \in Jobs
    /\ worker.at # "rest" => worker.task \in Students
    /\ queue \in Seq(Students)
    /\ \A i, k \in DOMAIN queue : queue[i] = queue[k] => i = k

RequestsOK ==
    /\ req \in [Students -> Requests]
    /\ \A p \in Students : /\ Pending(p) => req[p].to \in 1..made
                           /\ req[p].sub.id \in 0..made

BoundsOK == events \in 0..MaxEvents /\ lapsed \subseteq 0..MaxSubs

IInv == TablesOK /\ FilesOK /\ JobsOK /\ RequestsOK /\ BoundsOK

LEMMA IInvTypeOK == IInv => TypeOK
BY DEF IInv, TablesOK, FilesOK, JobsOK, RequestsOK, BoundsOK, TypeOK, Requests, Places,
       Names, Jobs

LEMMA Bounds ==
    /\ MaxSubs \in Nat /\ MaxUploads \in Nat /\ MaxEvents \in Nat
    /\ Ids = 1..MaxSubs /\ 0 \notin Ids
BY GroupAssumption DEF Ids

LEMMA RequestFacts ==
    /\ NoSub \in Subs /\ NoRequest \in Requests /\ NoRequest.pc = "idle"
    /\ \A sub \in Subs : /\ [NoRequest EXCEPT !.pc = "loaded", !.sub = sub] \in Requests
                         /\ [NoRequest EXCEPT !.pc = "loaded", !.sub = sub].pc = "loaded"
                         /\ [NoRequest EXCEPT !.pc = "loaded", !.sub = sub].sub = sub
                         /\ sub.id \in 0..MaxSubs /\ sub.group \in Places
    /\ \A r \in Requests : /\ [r EXCEPT !.pc = "placed"] \in Requests
                           /\ [r EXCEPT !.pc = "placed"].to = r.to
                           /\ [r EXCEPT !.pc = "placed"].sub = r.sub
                           /\ r.to \in 0..MaxSubs /\ r.sub \in Subs /\ r.group \in Places
                           /\ r.team \subseteq Students /\ r.gone \in 0..MaxSubs
                           /\ r.rows \subseteq Students /\ r.ready \subseteq Students
<1>1. NoSub \in Subs
  BY Bounds DEF NoSub, Subs
<1>2. NoRequest \in Requests /\ NoRequest.pc = "idle"
  BY <1>1, Bounds DEF NoRequest, Requests, Places
<1>3. ASSUME NEW sub \in Subs
      PROVE  /\ [NoRequest EXCEPT !.pc = "loaded", !.sub = sub] \in Requests
             /\ [NoRequest EXCEPT !.pc = "loaded", !.sub = sub].pc = "loaded"
             /\ [NoRequest EXCEPT !.pc = "loaded", !.sub = sub].sub = sub
  BY <1>2 DEF NoRequest, Requests
<1>4. \A sub \in Subs : sub.id \in 0..MaxSubs /\ sub.group \in Places
  BY DEF Subs, Places
<1>5. ASSUME NEW r \in Requests
      PROVE  /\ [r EXCEPT !.pc = "placed"] \in Requests
             /\ [r EXCEPT !.pc = "placed"].to = r.to
             /\ [r EXCEPT !.pc = "placed"].sub = r.sub
             /\ r.to \in 0..MaxSubs /\ r.sub \in Subs /\ r.group \in Places
             /\ r.team \subseteq Students /\ r.gone \in 0..MaxSubs
             /\ r.rows \subseteq Students /\ r.ready \subseteq Students
  BY DEF Requests
<1> QED
  BY <1>1, <1>2, <1>3, <1>4, <1>5

LEMMA SubOfType ==
    ASSUME TablesOK, NEW s \in Students
    PROVE  SubOf(s) \in Subs /\ SubOf(s).id = link[s] /\ link[s] \in 0..made
<1>1. link[s] \in 0..made /\ link[s] \in 0..MaxSubs /\ (link[s] # 0 => link[s] \in Ids)
  BY Bounds DEF TablesOK
<1>2. CASE link[s] = 0
  BY <1>1, <1>2, RequestFacts DEF SubOf, NoSub
<1>3. CASE link[s] # 0
  <2>1. subs[link[s]].group \in Places /\ subs[link[s]].by \in Names
    BY <1>1, <1>3 DEF TablesOK
  <2> QED
    BY <1>1, <1>3, <2>1 DEF SubOf, Subs, Names, Places
<1> QED
  BY <1>2, <1>3

LEMMA SubmitterHasWork ==
    ASSUME NEW sub, SubmitterTask(sub) # {} PROVE sub.id # 0
BY DEF SubmitterTask

\* A student without a job goes to the end of the queue.
LEMMA EnqueuedUnique ==
    ASSUME NEW s \in Students, queue \in Seq(Students),
           \A i, k \in DOMAIN queue : queue[i] = queue[k] => i = k
    PROVE  /\ Enqueued(s) \in Seq(Students)
           /\ \A i, k \in DOMAIN Enqueued(s) : Enqueued(s)[i] = Enqueued(s)[k] => i = k
<1>1. CASE s \in {queue[i] : i \in DOMAIN queue} \/ worker.task = s
  BY <1>1 DEF Enqueued
<1>2. CASE ~(s \in {queue[i] : i \in DOMAIN queue} \/ worker.task = s)
  <2> DEFINE longer == Append(queue, s)
  <2>1. Enqueued(s) = longer
    BY <1>2 DEF Enqueued
  <2>2. /\ longer \in Seq(Students) /\ Len(queue) \in Nat
        /\ DOMAIN longer = 1..(Len(queue) + 1) /\ DOMAIN queue = 1..Len(queue)
        /\ \A i \in 1..Len(queue) : longer[i] = queue[i]
        /\ longer[Len(queue) + 1] = s
    BY AppendProperties
  <2>3. \A i \in DOMAIN longer : i \in DOMAIN queue \/ i = Len(queue) + 1
    BY <2>2
  <2> HIDE DEF longer
  <2>4. \A i, k \in DOMAIN longer : longer[i] = longer[k] => i = k
    BY <1>2, <2>2, <2>3
  <2> QED
    BY <2>1, <2>2, <2>4
<1> QED
  BY <1>1, <1>2

LEMMA TailUnique ==
    ASSUME queue \in Seq(Students), queue # <<>>,
           \A i, k \in DOMAIN queue : queue[i] = queue[k] => i = k
    PROVE  /\ Head(queue) \in Students /\ Tail(queue) \in Seq(Students)
           /\ \A i, k \in DOMAIN Tail(queue) : Tail(queue)[i] = Tail(queue)[k] => i = k
           /\ \A i \in DOMAIN Tail(queue) : Tail(queue)[i] # Head(queue)
           /\ \A i \in DOMAIN queue : \/ queue[i] = Head(queue)
                                      \/ \E k \in DOMAIN Tail(queue) : Tail(queue)[k] = queue[i]
           /\ \A k \in DOMAIN Tail(queue) : \E i \in DOMAIN queue : Tail(queue)[k] = queue[i]
<1>1. /\ Len(queue) \in Nat /\ Len(queue) > 0 /\ Head(queue) = queue[1]
      /\ DOMAIN queue = 1..Len(queue) /\ DOMAIN Tail(queue) = 1..(Len(queue) - 1)
      /\ \A i \in 1..(Len(queue) - 1) : Tail(queue)[i] = queue[i + 1]
      /\ Head(queue) \in Students /\ Tail(queue) \in Seq(Students)
  BY HeadTailProperties
<1>2. /\ \A i \in 1..(Len(queue) - 1) : i + 1 \in 1..Len(queue) /\ i + 1 # 1
      /\ \A i, k \in 1..(Len(queue) - 1) : i + 1 = k + 1 => i = k
      /\ \A i \in 1..Len(queue) : i = 1 \/ (i - 1 \in 1..(Len(queue) - 1) /\ (i - 1) + 1 = i)
      /\ 1 \in 1..Len(queue)
  BY <1>1
<1>3. ASSUME NEW i \in DOMAIN queue, queue[i] # Head(queue)
      PROVE  \E k \in DOMAIN Tail(queue) : Tail(queue)[k] = queue[i]
  <2>1. i - 1 \in DOMAIN Tail(queue) /\ Tail(queue)[i - 1] = queue[i]
    BY <1>1, <1>2, <1>3
  <2> QED
    BY <2>1
<1> QED
  BY <1>1, <1>2, <1>3

\* The zip of one group submission changes.
LEMMA DoneUpdate ==
    ASSUME FilesOK, NEW g \in Places, NEW id \in Ids, NEW u \in 0..uploads
    PROVE  /\ [done EXCEPT ![g][id] = u] \in [Places -> [Ids -> 0..uploads]]
           /\ [done EXCEPT ![g][id] = u][g][id] = u
           /\ \A h \in Places, k \in Ids :
                 <<h, k>> # <<g, id>> => [done EXCEPT ![g][id] = u][h][k] = done[h][k]
<1>1. done \in [Places -> [Ids -> 0..uploads]]
  BY DEF FilesOK
<1>2. done[g] \in [Ids -> 0..uploads]
  BY <1>1
<1>3. [done[g] EXCEPT ![id] = u] \in [Ids -> 0..uploads]
  BY <1>2
<1>4. [done EXCEPT ![g][id] = u] = [done EXCEPT ![g] = [done[g] EXCEPT ![id] = u]]
  BY <1>1
<1> QED
  BY <1>1, <1>2, <1>3, <1>4

-------------------------------------------------------------------------------
(* The inductive invariant, step by step                                    *)

LEMMA InitIInv == Init => IInv
<1> SUFFICES ASSUME Init PROVE IInv
  OBVIOUS
<1> USE Bounds DEF Init
<1>1. Resting.at = "rest" /\ Resting \in Jobs
  BY RequestFacts DEF Resting, Jobs
<1>2. \A s \in Students : req[s] = NoRequest
  OBVIOUS
<1>3. RequestsOK
  <2>1. req \in [Students -> Requests]
    BY RequestFacts
  <2>2. NoRequest.sub.id = 0 /\ NoRequest.pc = "idle" /\ 0 \in 0..made
    BY DEF NoRequest, NoSub
  <2> QED
    BY <1>2, <2>1, <2>2 DEF RequestsOK, Pending
<1>4. JobsOK
  BY <1>1 DEF JobsOK
<1>5. TablesOK /\ FilesOK /\ BoundsOK
  BY DEF TablesOK, FilesOK, BoundsOK, Places, Names
<1> QED
  BY <1>3, <1>4, <1>5 DEF IInv

\* What a step that moves one request has to give it, and none of the others.
LEMMA RequestMoves ==
    ASSUME IInv, NEW s \in Students, NEW r \in Requests,
           req' = [req EXCEPT ![s] = r],
           made' \in made..MaxSubs,
           r.pc \in {"accepted", "placed"} => r.to \in 1..made',
           r.sub.id \in 0..made'
    PROVE  RequestsOK'
<1>1. /\ req \in [Students -> Requests] /\ made \in Nat
      /\ \A p \in Students : /\ Pending(p) => req[p].to \in 1..made
                             /\ req[p].sub.id \in 0..made
  BY Bounds DEF IInv, TablesOK, RequestsOK
<1>2. /\ req' \in [Students -> Requests] /\ req'[s] = r
      /\ \A p \in Students : p # s => req'[p] = req[p]
  BY <1>1
<1>3. (\A n \in 1..made : n \in 1..made') /\ (\A n \in 0..made : n \in 0..made')
  BY <1>1
<1> QED
  BY <1>1, <1>2, <1>3 DEF Pending, RequestsOK

LEMMA RequestEnds ==
    ASSUME IInv, NEW s \in Students, req' = [req EXCEPT ![s] = NoRequest],
           made' \in made..MaxSubs
    PROVE  RequestsOK'
<1>1. NoRequest \in Requests /\ NoRequest.pc = "idle" /\ NoRequest.sub.id = 0
  BY RequestFacts DEF NoRequest, NoSub
<1>2. 0 \in 0..made'
  BY Bounds DEF IInv, TablesOK
<1> QED
  BY <1>1, <1>2, RequestMoves

LEMMA RequestsStay ==
    ASSUME IInv, UNCHANGED req, made' \in made..MaxSubs PROVE RequestsOK'
<1>1. made \in Nat
  BY Bounds DEF IInv, TablesOK
<1>2. (\A n \in 1..made : n \in 1..made') /\ (\A n \in 0..made : n \in 0..made')
  BY <1>1
<1> QED
  BY <1>1, <1>2 DEF Pending, IInv, RequestsOK

LEMMA SameParts ==
    /\ TablesOK /\ UNCHANGED tables => TablesOK'
    /\ FilesOK /\ UNCHANGED <<files, uploads, team>> => FilesOK'
    /\ JobsOK /\ UNCHANGED jobs => JobsOK'
    /\ RequestsOK /\ UNCHANGED <<req, made>> => RequestsOK'
    /\ BoundsOK /\ UNCHANGED <<events, lapsed>> => BoundsOK'
    /\ made \in 0..MaxSubs => made \in made..MaxSubs
BY Bounds DEF TablesOK, FilesOK, JobsOK, RequestsOK, BoundsOK, Pending, tables, files, jobs

LEMMA LoadRefuseIInv ==
    ASSUME IInv, NEW s \in Students, Load(s) \/ Refuse(s) PROVE IInv'
<1>1. UNCHANGED <<tables, files, jobs, uploads, events, team, lapsed, made>>
  BY DEF Load, Refuse, tables, bounds
<1>2. made' \in made..MaxSubs
  BY <1>1, SameParts DEF IInv, TablesOK
<1>3. RequestsOK'
  <2>1. CASE Load(s)
    <3> DEFINE r == [NoRequest EXCEPT !.pc = "loaded", !.sub = SubOf(s)]
    <3>1. r \in Requests /\ r.pc = "loaded" /\ r.sub.id \in 0..made'
      BY <1>1, SubOfType, RequestFacts DEF IInv
    <3>2. req' = [req EXCEPT ![s] = r]
      BY <2>1 DEF Load
    <3> HIDE DEF r
    <3> QED
      BY <1>2, <3>1, <3>2, RequestMoves
  <2>2. CASE Refuse(s)
    BY <1>2, <2>2, RequestEnds DEF Refuse
  <2> QED
    BY <2>1, <2>2
<1> QED
  BY <1>1, <1>3, SameParts DEF IInv

LEMMA AcceptIInv ==
    ASSUME IInv, NEW s \in Students, NEW share \in SUBSET Students, Accept(s, share)
    PROVE  IInv'
<1> DEFINE sub == req[s].sub
           same == SameComposition(sub, share, Members(group[s]))
           to == IF same THEN sub.id ELSE made + 1
           rows == {t \in share : status[t] # "closed"}
           lk == [t \in Students |-> IF t \in rows THEN to ELSE link[t]]
           gone == Goes(sub, to, lk)
           ready == {t \in Linked(lk, to) : status[t] # "closed"}
           r == [pc |-> "accepted", sub |-> sub, to |-> to, group |-> group[s],
                 team |-> Members(group[s]), rows |-> rows, ready |-> ready,
                 gone |-> IF gone THEN sub.id ELSE 0]
<1>1. /\ req[s].pc = "loaded" /\ to \in Ids
      /\ made' = IF same THEN made ELSE to
      /\ req' = [req EXCEPT ![s] = r]
      /\ done' = IF gone THEN [done EXCEPT ![sub.group][sub.id] = 0] ELSE done
      /\ UNCHANGED <<group, link, status, subs, new, jobs, bounds, team, lapsed>>
  BY DEF Accept
<1>2. same => sub.id # 0
  BY DEF SameComposition
<1>3. gone => sub.id # 0
  BY DEF Goes
<1>4. /\ rows \subseteq Students /\ Members(group[s]) \subseteq Students
      /\ ready \subseteq Students
  BY DEF Members, Linked
<1> HIDE DEF same, rows, lk, gone, ready
<1>5. /\ sub \in Subs /\ sub.id \in 0..MaxSubs /\ sub.group \in Places
      /\ sub.id \in 0..made /\ made \in 0..MaxSubs /\ group[s] \in Places
  BY RequestFacts DEF IInv, RequestsOK, TablesOK
<1>6. made' \in made..MaxSubs /\ to \in 1..made'
  BY <1>1, <1>2, <1>5, Bounds
<1>7. r \in Requests /\ r.pc = "accepted" /\ r.to = to /\ r.sub = sub
  <2>1. to \in 0..MaxSubs /\ (IF gone THEN sub.id ELSE 0) \in 0..MaxSubs
    BY <1>1, <1>5, Bounds
  <2> HIDE DEF to, sub
  <2> QED
    BY <1>4, <1>5, <2>1 DEF Requests
<1>8. r.sub.id \in 0..made'
  BY <1>5, <1>6, <1>7, Bounds
<1>9. RequestsOK'
  <2> HIDE DEF r, to, sub
  <2> QED
    BY <1>1, <1>6, <1>7, <1>8, RequestMoves
<1>10. TablesOK'
  <2>1. link \in [Students -> 0..made']
    BY <1>5, <1>6 DEF IInv, TablesOK
  <2>2. made' \in 0..MaxSubs
    BY <1>5, <1>6, Bounds
  <2> QED
    BY <1>1, <2>1, <2>2 DEF IInv, TablesOK
<1>11. FilesOK'
  <2>1. gone => sub.id \in Ids
    BY <1>3, <1>5, Bounds
  <2> HIDE DEF sub
  <2>2. done' \in [Places -> [Ids -> 0..uploads]]
    <3>1. 0 \in 0..uploads
      BY Bounds DEF IInv, FilesOK
    <3> QED
      BY <1>1, <1>5, <2>1, <3>1, DoneUpdate DEF IInv, FilesOK
  <2> QED
    BY <1>1, <2>2 DEF IInv, FilesOK, bounds
<1> QED
  BY <1>1, <1>9, <1>10, <1>11, SameParts DEF IInv, BoundsOK, bounds

LEMMA PlaceIInv ==
    ASSUME IInv, NEW s \in Students, Place(s) PROVE IInv'
<1>1. /\ uploads < MaxUploads /\ uploads' = uploads + 1
      /\ new' = [new EXCEPT ![s] = uploads + 1]
      /\ team' = [team EXCEPT ![uploads + 1] = req[s].team]
      /\ queue' = Enqueued(s)
      /\ req' = [req EXCEPT ![s].pc = "placed"] /\ req[s].pc = "accepted"
      /\ lapsed' = IF worker.task = s THEN lapsed \cup ({req[s].to, worker.sub.id} \ {0})
                                      ELSE lapsed
      /\ UNCHANGED <<tables, made, done, worker, events>>
  BY DEF Place, tables
<1>2. made' \in made..MaxSubs
  BY <1>1, SameParts DEF IInv, TablesOK
<1>3. /\ req[s] \in Requests /\ req[s].to \in 1..made /\ req[s].sub.id \in 0..made
      /\ req[s].team \subseteq Students /\ req[s].to \in 0..MaxSubs
  BY <1>1, RequestFacts DEF IInv, RequestsOK, Pending
<1>4. RequestsOK'
  <2> DEFINE r == [req[s] EXCEPT !.pc = "placed"]
  <2>1. r \in Requests /\ r.to = req[s].to /\ r.sub = req[s].sub
    BY <1>3, RequestFacts
  <2>2. req' = [req EXCEPT ![s] = r]
    BY <1>1
  <2> HIDE DEF r
  <2> QED
    BY <1>1, <1>2, <1>3, <2>1, <2>2, RequestMoves
<1>5. FilesOK'
  <2>1. /\ uploads \in Nat /\ uploads' \in 0..MaxUploads /\ uploads + 1 \in 0..uploads'
        /\ \A u \in 0..uploads : u \in 0..uploads'
    BY <1>1, Bounds DEF IInv, FilesOK
  <2>2. new' \in [Students -> 0..uploads']
    BY <1>1, <2>1 DEF IInv, FilesOK
  <2>3. done \in [Places -> [Ids -> 0..uploads']]
    <3>1. \A g \in Places : done[g] \in [Ids -> 0..uploads']
      BY <2>1 DEF IInv, FilesOK
    <3> QED
      BY <3>1 DEF IInv, FilesOK
  <2>4. team' \in [1..MaxUploads -> SUBSET Students]
    BY <1>1, <1>3 DEF IInv, FilesOK
  <2> QED
    BY <1>1, <2>1, <2>2, <2>3, <2>4 DEF FilesOK
<1>6. JobsOK'
  BY <1>1, EnqueuedUnique DEF IInv, JobsOK
<1>7. BoundsOK'
  <2>1. worker.sub.id \in 0..MaxSubs
    BY RequestFacts DEF IInv, JobsOK, Jobs
  <2> QED
    BY <1>1, <1>3, <2>1 DEF IInv, BoundsOK
<1> QED
  BY <1>1, <1>4, <1>5, <1>6, <1>7, SameParts DEF IInv

LEMMA CommitIInv ==
    ASSUME IInv, NEW s \in Students, Commit(s) PROVE IInv'
<1> DEFINE r == req[s]
           row == Written(s, r, subs[r.to])
<1>1. /\ r.pc = "placed"
      /\ subs' = [subs EXCEPT ![r.to] = row]
      /\ link' = [t \in Students |-> IF t \in r.rows THEN r.to ELSE link[t]]
      /\ status' = [t \in Students |-> IF t \in r.ready THEN "ready" ELSE status[t]]
      /\ lapsed' = lapsed \cup ({link[t] : t \in r.rows} \ {r.sub.id, r.to})
                          \cup (IF s \in r.rows THEN {} ELSE {r.to, link[s]} \ {0})
                          \cup (IF Overtaken(r) THEN {r.sub.id} ELSE {})
      /\ req' = [req EXCEPT ![s] = NoRequest]
      /\ UNCHANGED <<group, made, files, jobs, bounds, team>>
  BY DEF Commit
<1>2. /\ r \in Requests /\ r.to \in 1..made /\ r.group \in Places
      /\ r.rows \subseteq Students /\ r.to \in 0..MaxSubs /\ r.sub.id \in 0..MaxSubs
  BY <1>1, RequestFacts DEF IInv, RequestsOK, Pending
<1>8. row \in [group : Places, by : Names]
  <2>1. r.to \in Ids
    BY <1>2, Bounds DEF IInv, TablesOK
  <2>2. subs[r.to] \in [group : Places, by : Names]
    BY <2>1 DEF IInv, TablesOK
  <2> QED
    BY <1>2, <2>2 DEF Written, Names
<1> HIDE DEF r, row
<1>3. TablesOK'
  <2>1. r.to \in Ids /\ r.to \in 0..made
    BY <1>2, Bounds DEF IInv, TablesOK
  <2>3. subs' \in [Ids -> [group : Places, by : Names]]
    BY <1>1, <1>8, <2>1 DEF IInv, TablesOK
  <2>4. link' \in [Students -> 0..made']
    BY <1>1, <2>1 DEF IInv, TablesOK
  <2>5. status' \in [Students -> {"open", "ready", "closed"}]
    BY <1>1 DEF IInv, TablesOK
  <2> QED
    BY <1>1, <2>3, <2>4, <2>5 DEF IInv, TablesOK
<1>4. RequestsOK'
  <2>1. made' \in made..MaxSubs
    BY <1>1, SameParts DEF IInv, TablesOK
  <2> QED
    BY <1>1, <2>1, RequestEnds
<1>5. BoundsOK'
  <2>1. \A t \in Students : link[t] \in 0..MaxSubs
    BY Bounds DEF IInv, TablesOK
  <2> QED
    BY <1>1, <1>2, <2>1 DEF IInv, BoundsOK, bounds
<1> QED
  BY <1>1, <1>3, <1>4, <1>5, SameParts DEF IInv, bounds

LEMMA AbortIInv ==
    ASSUME IInv, NEW s \in Students, Abort(s) PROVE IInv'
<1>1. /\ events < MaxEvents /\ events' = events + 1
      /\ lapsed' = lapsed \cup ({req[s].gone, req[s].sub.id} \ {0})
      /\ req' = [req EXCEPT ![s] = NoRequest]
      /\ UNCHANGED <<tables, made, files, jobs, uploads, team>>
  BY DEF Abort, Happens, tables
<1>2. req[s].gone \in 0..MaxSubs /\ req[s].sub.id \in 0..MaxSubs
  BY RequestFacts DEF IInv, RequestsOK
<1>3. RequestsOK'
  BY <1>1, RequestEnds, SameParts DEF IInv, TablesOK
<1>4. BoundsOK'
  <2>1. events' \in 0..MaxEvents
    BY <1>1, Bounds DEF IInv, BoundsOK
  <2> QED
    BY <1>1, <1>2, <2>1 DEF IInv, BoundsOK
<1> QED
  BY <1>1, <1>3, <1>4, SameParts DEF IInv

\* A new group submission is linked, and statuses are passed on.
LEMMA EnsuredOK ==
    ASSUME IInv, NEW s \in Students, NEW st, Ensured(s, st), UNCHANGED group,
           status' \in [Students -> {"open", "ready", "closed"}]
    PROVE  TablesOK' /\ made' \in made..MaxSubs /\ lapsed' \subseteq 0..MaxSubs
<1>1. /\ made < MaxSubs /\ made' = made + 1
      /\ subs' = [subs EXCEPT ![made + 1] = [group |-> group[s], by |-> s]]
      /\ link' = [t \in Students |-> IF group[t] = group[s] /\ st[t] # "closed"
                                     THEN made + 1 ELSE link[t]]
      /\ lapsed' = lapsed \cup {made + 1} \cup {link[t] : t \in Members(group[s])}
  BY DEF Ensured
<1>2. /\ made \in Nat /\ made + 1 \in Ids /\ made' \in made..MaxSubs /\ made' \in 0..MaxSubs
      /\ made + 1 \in 0..made' /\ \A n \in 0..made : n \in 0..made' /\ n \in 0..MaxSubs
  BY <1>1, Bounds DEF IInv, TablesOK
<1>3. subs' \in [Ids -> [group : Places, by : Names]]
  <2>1. [group |-> group[s], by |-> s] \in [group : Places, by : Names]
    BY DEF IInv, TablesOK, Names
  <2> QED
    BY <1>1, <2>1 DEF IInv, TablesOK
<1>4. link' \in [Students -> 0..made']
  BY <1>1, <1>2 DEF IInv, TablesOK
<1>5. lapsed' \subseteq 0..MaxSubs
  <2>1. Members(group[s]) \subseteq Students
    BY DEF Members
  <2>2. \A t \in Members(group[s]) : link[t] \in 0..MaxSubs
    BY <1>2, <2>1 DEF IInv, TablesOK
  <2> QED
    BY <1>1, <1>2, <2>2 DEF IInv, BoundsOK
<1> QED
  BY <1>2, <1>3, <1>4, <1>5 DEF IInv, TablesOK

LEMMA JudgeOK ==
    ASSUME IInv, NEW s \in Students, NEW id, NEW v \in {"open", "closed"}, Judge(s, id, v),
           UNCHANGED group
    PROVE  TablesOK' /\ made' \in made..MaxSubs /\ lapsed' \subseteq 0..MaxSubs
<1> DEFINE own == [status EXCEPT ![s] = v]
           spread(lk, i) == [t \in Students |-> IF lk[t] = i /\ own[t] # "closed"
                                                THEN v ELSE own[t]]
<1>1. own \in [Students -> {"open", "ready", "closed"}]
  BY DEF IInv, TablesOK
<1>2. \A lk, i : spread(lk, i) \in [Students -> {"open", "ready", "closed"}]
  <2> HIDE DEF own
  <2> QED
    BY <1>1
<1>3. CASE id = 0 /\ group[s] # NoGroup
  <2>1. Ensured(s, own) /\ status' = spread(link', made')
    BY <1>3 DEF Judge
  <2> HIDE DEF own, spread
  <2> QED
    BY <1>2, <2>1, EnsuredOK
<1>4. CASE ~(id = 0 /\ group[s] # NoGroup)
  <2>1. /\ status' = IF id = 0 THEN own ELSE spread(link, id)
        /\ UNCHANGED <<link, subs, made, lapsed>>
    BY <1>4 DEF Judge
  <2> HIDE DEF own, spread
  <2>2. status' \in [Students -> {"open", "ready", "closed"}]
    BY <1>1, <1>2, <2>1
  <2> QED
    BY <2>1, <2>2, SameParts DEF IInv, TablesOK, BoundsOK
<1> QED
  BY <1>3, <1>4

LEMMA StaffIInv ==
    ASSUME IInv, NEW s \in Students,
           (\E v \in {"open", "closed"} : Assess(s, v)) \/ Remark(s)
             \/ \E g \in Places : Move(s, g)
    PROVE  IInv'
<1>1. CASE \E v \in {"open", "closed"} : Assess(s, v)
  <2> PICK v \in {"open", "closed"} : Assess(s, v)
    BY <1>1
  <2>1. /\ events < MaxEvents /\ events' = events + 1 /\ Judge(s, link[s], v)
        /\ UNCHANGED <<group, files, jobs, req, uploads, team>>
    BY DEF Assess, Happens
  <2>2. TablesOK' /\ made' \in made..MaxSubs /\ lapsed' \subseteq 0..MaxSubs
    BY <2>1, JudgeOK
  <2>3. events' \in 0..MaxEvents
    BY <2>1, Bounds DEF IInv, BoundsOK
  <2> QED
    BY <2>1, <2>2, <2>3, RequestsStay, SameParts DEF IInv, BoundsOK
<1>2. CASE Remark(s)
  <2>1. /\ Ensured(s, status) /\ req' = [req EXCEPT ![s] = NoRequest]
        /\ UNCHANGED <<group, status, files, jobs, uploads, events, team>>
    BY <1>2 DEF Remark, bounds
  <2>2. TablesOK' /\ made' \in made..MaxSubs /\ lapsed' \subseteq 0..MaxSubs
    BY <2>1, EnsuredOK DEF IInv, TablesOK
  <2> QED
    BY <2>1, <2>2, RequestEnds, SameParts DEF IInv, BoundsOK
<1>3. CASE \E g \in Places : Move(s, g)
  <2>1. PICK g \in Places :
          /\ events < MaxEvents /\ events' = events + 1
          /\ group' = [group EXCEPT ![s] = g]
          /\ UNCHANGED <<link, status, subs, made, files, jobs, req, uploads, team, lapsed>>
    BY <1>3 DEF Move, Happens
  <2>2. TablesOK'
    BY <2>1 DEF IInv, TablesOK
  <2>3. events' \in 0..MaxEvents
    BY <2>1, Bounds DEF IInv, BoundsOK
  <2> QED
    BY <2>1, <2>2, <2>3, SameParts DEF IInv, BoundsOK
<1> QED
  BY <1>1, <1>2, <1>3

LEMMA WorkIInv == ASSUME IInv, Work PROVE IInv'
<1>a. Resting \in Jobs /\ Resting.at = "rest"
  BY RequestFacts DEF Resting, Jobs
<1>b. ASSUME NEW at \in {"begun", "zipped", "failed"}
      PROVE  /\ [worker EXCEPT !.at = at] \in Jobs /\ [worker EXCEPT !.at = at].task = worker.task
  BY DEF IInv, JobsOK, Jobs
<1>c. /\ worker.sub \in Subs /\ worker.sub.id \in 0..MaxSubs /\ worker.sub.group \in Places
  BY RequestFacts DEF IInv, JobsOK, Jobs
<1>d. ASSUME NEW s, IsSubmitter(s, worker.sub) PROVE worker.sub.id \in Ids
  BY <1>c, <1>d, Bounds, SubmitterHasWork DEF IsSubmitter
<1>1. CASE Begin
  <2>1. /\ worker' = [at |-> "begun", task |-> Head(queue), sub |-> SubOf(Head(queue))]
        /\ lapsed' = IF Pending(Head(queue))
                     THEN lapsed \cup ({req[Head(queue)].to, link[Head(queue)]} \ {0})
                     ELSE lapsed
        /\ queue # <<>> /\ queue' = Tail(queue)
        /\ UNCHANGED <<tables, files, req, made, uploads, events, team>>
    BY <1>1 DEF Begin, bounds, tables
  <2>2. /\ Head(queue) \in Students /\ Tail(queue) \in Seq(Students)
        /\ \A i, k \in DOMAIN Tail(queue) : Tail(queue)[i] = Tail(queue)[k] => i = k
    BY <2>1, TailUnique DEF IInv, JobsOK
  <2>3. SubOf(Head(queue)) \in Subs /\ link[Head(queue)] \in 0..made
    BY <2>2, SubOfType DEF IInv
  <2>4. worker' \in Jobs /\ worker'.task \in Students
    BY <2>1, <2>2, <2>3 DEF Jobs
  <2>5. JobsOK'
    BY <2>1, <2>2, <2>4 DEF JobsOK
  <2>6. lapsed' \subseteq 0..MaxSubs
    <3>1. req[Head(queue)].to \in 0..MaxSubs /\ link[Head(queue)] \in 0..MaxSubs
      <4>1. req[Head(queue)].to \in 0..MaxSubs
        BY <2>2, RequestFacts DEF IInv, RequestsOK
      <4>2. link[Head(queue)] \in 0..MaxSubs
        BY <2>3, Bounds DEF IInv, TablesOK
      <4> QED
        BY <4>1, <4>2
    <3> QED
      BY <2>1, <3>1 DEF IInv, BoundsOK
  <2> QED
    BY <2>1, <2>5, <2>6, SameParts DEF IInv, BoundsOK
<1>2. CASE Zip
  <2> DEFINE s == worker.task  sub == worker.sub
  <2>1. /\ worker.at = "begun" /\ IsSubmitter(s, sub)
        /\ done' = IF new[s] = 0 THEN done ELSE [done EXCEPT ![sub.group][sub.id] = new[s]]
        /\ new' = [new EXCEPT ![s] = 0]
        /\ worker' \in {Resting, [worker EXCEPT !.at = "zipped"]}
        /\ lapsed' \in {lapsed, lapsed \cup {sub.id}}
        /\ UNCHANGED <<tables, queue, req, made, uploads, events, team>>
    BY <1>2 DEF Zip, bounds, tables
  <2>2. s \in Students /\ sub.id \in Ids /\ new[s] \in 0..uploads /\ 0 \in 0..uploads
    BY <2>1, <1>d, Bounds DEF IInv, JobsOK, FilesOK
  <2>3. FilesOK'
    <3>1. done' \in [Places -> [Ids -> 0..uploads]]
      BY <1>c, <2>1, <2>2, DoneUpdate DEF IInv, FilesOK
    <3> QED
      BY <2>1, <2>2, <3>1 DEF IInv, FilesOK
  <2>4. JobsOK'
    BY <1>a, <1>b, <2>1, <2>2 DEF IInv, JobsOK
  <2>5. BoundsOK'
    BY <1>c, <2>1 DEF IInv, BoundsOK
  <2> QED
    BY <2>1, <2>3, <2>4, <2>5, SameParts DEF IInv
<1>3. CASE Missing \/ Reject \/ Converted
  <2>1. /\ new' \in {new, [new EXCEPT ![worker.task] = 0]}
        /\ worker' \in {Resting, [worker EXCEPT !.at = "failed"]}
        /\ lapsed' \in {lapsed, lapsed \cup {worker.sub.id}}
        /\ worker.at # "rest"
        /\ UNCHANGED <<tables, done, queue, req, made, uploads, events, team>>
    BY <1>3 DEF Missing, Reject, Converted, bounds, tables, files
  <2>2. worker.task \in Students /\ 0 \in 0..uploads
    BY <2>1, Bounds DEF IInv, JobsOK, FilesOK
  <2>3. FilesOK'
    BY <2>1, <2>2 DEF IInv, FilesOK
  <2>4. JobsOK'
    BY <1>a, <1>b, <2>1, <2>2 DEF IInv, JobsOK
  <2>5. BoundsOK'
    BY <1>c, <2>1 DEF IInv, BoundsOK
  <2> QED
    BY <2>1, <2>3, <2>4, <2>5, SameParts DEF IInv
<1>4. CASE Fix
  <2>1. /\ worker.at = "failed" /\ Judge(worker.task, worker.sub.id, "open")
        /\ worker' = Resting
        /\ UNCHANGED <<group, files, queue, req, uploads, events, team>>
    BY <1>4 DEF Fix, bounds
  <2>2. TablesOK' /\ made' \in made..MaxSubs /\ lapsed' \subseteq 0..MaxSubs
    BY <2>1, JudgeOK DEF IInv, JobsOK
  <2>3. JobsOK'
    BY <1>a, <2>1 DEF IInv, JobsOK
  <2> QED
    BY <2>1, <2>2, <2>3, RequestsStay, SameParts DEF IInv, BoundsOK
<1> QED
  BY <1>1, <1>2, <1>3, <1>4 DEF Work

LEMMA NextIInv == IInv /\ [Next]_vars => IInv'
<1> SUFFICES ASSUME IInv, [Next]_vars PROVE IInv'
  OBVIOUS
<1>1. ASSUME NEW s \in Students, Request(s) PROVE IInv'
  BY <1>1, LoadRefuseIInv, AcceptIInv, PlaceIInv, CommitIInv, AbortIInv, StaffIInv DEF Request
<1>2. CASE UNCHANGED vars
  <2>1. UNCHANGED <<tables, files, jobs, req, made, uploads, events, team, lapsed>>
    BY <1>2 DEF vars, bounds, tables
  <2> QED
    BY <2>1, SameParts DEF IInv
<1> QED
  BY <1>1, <1>2, StaffIInv, WorkIInv DEF Next, Places

\* Type correctness of the group submissions (TypeOK), for any students and
\* groups: however their requests, moves and verdicts interleave with the
\* worker, no task is linked to a group submission that was never made, and no
\* student has two jobs.
THEOREM TypeCorrect == Spec => []TypeOK
<1> QED
  BY InitIInv, NextIInv, IInvTypeOK, PTL DEF Spec

-------------------------------------------------------------------------------
(* Where work is: the invariant behind ReadyHasWork and OwnGroupsWork.      *)

Queued(t) == \E i \in DOMAIN queue : queue[i] = t

\* A pending request makes its group submission, or reuses the one it loaded.
Fresh(p) == req[p].to # req[p].sub.id

\* A group submission nothing is said of: it lapsed, or a pending request has
\* taken its last task and deleted its zip.
Gone(id) == \E p \in Students : Pending(p) /\ req[p].gone = id
Dead(id) == id \in lapsed \/ Gone(id)

\* Only commits make tasks ready, and only linked ones.
Readies == \A t \in Students : status[t] = "ready" => link[t] # 0

\* The rows of pending requests are of different open tasks of the team.
Locked(p) ==
    /\ req[p].ready = req[p].rows /\ req[p].rows \subseteq req[p].team
    /\ \A t \in req[p].rows : status[t] # "closed"
    /\ req[p].gone \in {0, req[p].sub.id}
    /\ req[p].gone # 0 => Fresh(p)
Locks ==
    /\ \A p \in Students : Pending(p) => Locked(p)
    /\ \A p, q \in Students : (Pending(p) /\ Pending(q) /\ p # q)
                                 => \A t \in req[p].rows : t \notin req[q].rows

\* Who reuses a group submission writes it, but for closed tasks, as a whole.
ReusesOwn(p) ==
    /\ \A t \in req[p].rows : link[t] = req[p].to
    /\ \A t \in Students : link[t] = req[p].to => t \in req[p].team
    /\ req[p].rows # {} => \A t \in Students :
          link[t] = req[p].to => t \in req[p].rows \/ status[t] = "closed"
Reuses == \A p \in Students : (Pending(p) /\ ~Fresh(p)) => ReusesOwn(p)

\* Nobody knows the group submission a pending request makes, and nothing is
\* in the folder of one that is not made.
Unknown(id) ==
    /\ \A t \in Students : link[t] # id /\ req[t].sub.id # id
    /\ worker.sub.id # id
    /\ \A g \in Places : done[g][id] = 0
Makes ==
    /\ \A p \in Students : (Pending(p) /\ Fresh(p)) => Unknown(req[p].to)
    /\ \A p, q \in Students : (Pending(p) /\ Pending(q) /\ p # q /\ Fresh(p))
                                 => req[q].to # req[p].to
    /\ \A id \in Ids : id > made => \A g \in Places : done[g][id] = 0

\* A group submission that is to go loses all its tasks with the commit.
Empties ==
    \A p \in Students : (Pending(p) /\ req[p].gone \notin lapsed \cup {0})
        => \A t \in Students : link[t] = req[p].gone => t \in req[p].rows

\* A job, queued or begun, has files and no second one.
HasFiles ==
    /\ worker.sub.id \in 0..made
    /\ \A t \in Students : Queued(t) => t # worker.task /\ new[t] # 0
    /\ worker.at = "begun" => new[worker.task] # 0

\* What a request has placed waits for its commit.
PlacedWaits ==
    \A p \in Students : (req[p].pc = "placed" /\ req[p].to \notin lapsed)
        => Queued(p) /\ team[new[p]] = req[p].team

\* Tasks are taken from a group submission only when its files are zipped.
Leaves ==
    \A p \in Students :
      (/\ Pending(p) /\ Fresh(p)
       /\ req[p].sub.id # 0 /\ ~Dead(req[p].sub.id)
       /\ req[p].sub.by = subs[req[p].sub.id].by
       /\ \E t \in req[p].rows : link[t] = req[p].sub.id)
      => DoneOf(req[p].sub.id) # 0

\* The job of the one who handed it in waits, or has loaded what is so still.
AtWork(id) == /\ worker.at = "begun" /\ worker.task = subs[id].by
              /\ worker.sub.id = id /\ worker.sub.group = subs[id].group
              /\ worker.sub.by = subs[id].by
Coming(id) == \E b \in Students : subs[id].by = b /\ link[b] = id /\ (Queued(b) \/ AtWork(id))

\* A group submission with tasks has a zip, or it comes.
Works == \A id \in 1..made : (~Dead(id) /\ \E t \in Students : link[t] = id)
                                => DoneOf(id) # 0 \/ Coming(id)

\* A request of the one who handed in a group submission has loaded it.
Remembers ==
    \A p \in Students :
       (req[p].pc # "idle" /\ link[p] \notin lapsed \cup {0} /\ subs[link[p]].by = p)
          => req[p].sub.id = link[p]

\* Files that wait, are at work or are zipped for a group submission were
\* handed in by all who are linked to it.
OwnFiles ==
    \A id \in 1..made : \A b \in Students :
       (/\ id \notin lapsed /\ subs[id].by = b /\ link[b] = id /\ new[b] # 0
        /\ ~(req[b].pc = "placed" /\ req[b].to # id))
       => \A t \in Students : link[t] = id => t \in team[new[b]]
OwnJob ==
    (/\ worker.at = "begun" /\ worker.sub.by = worker.task
     /\ worker.sub.id \notin lapsed \cup {0} /\ link[worker.task] = worker.sub.id)
    => \A t \in Students : link[t] = worker.sub.id => t \in team[new[worker.task]]
OwnZips ==
    \A id \in 1..made : \A g \in Places :
       (id \notin lapsed /\ done[g][id] # 0)
       => \A t \in Students : link[t] = id => t \in team[done[g][id]]

Tracked ==
    /\ Readies /\ Locks /\ Reuses /\ Makes /\ Empties /\ HasFiles /\ PlacedWaits
    /\ Leaves /\ Works /\ Remembers /\ OwnFiles /\ OwnJob /\ OwnZips

Inv == IInv /\ Tracked

-------------------------------------------------------------------------------
LEMMA TypeFacts ==
    ASSUME IInv
    PROVE  /\ made \in Nat /\ made <= MaxSubs /\ uploads \in Nat
           /\ \A t \in Students : /\ link[t] \in 0..made /\ new[t] \in 0..uploads
                                  /\ link[t] # 0 => link[t] \in 1..made
                                  /\ req[t] \in Requests /\ req[t].sub.id \in 0..made
                                  /\ Pending(t) => req[t].to \in 1..made
                                  /\ req[t].to \in 0..MaxSubs
           /\ \A id \in 1..made : /\ id \in Ids
                                  /\ subs[id].group \in Places /\ subs[id].by \in Names
                                  /\ \A g \in Places : done[g][id] \in 0..uploads
           /\ worker.sub.group \in Places
<1>1. /\ made \in Nat /\ made <= MaxSubs /\ uploads \in Nat
  BY Bounds DEF IInv, TablesOK, FilesOK
<1>2. ASSUME NEW t \in Students
      PROVE  /\ link[t] \in 0..made /\ new[t] \in 0..uploads
             /\ link[t] # 0 => link[t] \in 1..made
             /\ req[t] \in Requests /\ req[t].sub.id \in 0..made
             /\ Pending(t) => req[t].to \in 1..made
             /\ req[t].to \in 0..MaxSubs
  <2>1. link[t] \in 0..made /\ new[t] \in 0..uploads /\ (link[t] # 0 => link[t] \in 1..made)
    BY <1>1 DEF IInv, TablesOK, FilesOK
  <2> QED
    BY <2>1, RequestFacts DEF IInv, RequestsOK
<1>3. ASSUME NEW id \in 1..made
      PROVE  /\ id \in Ids
             /\ subs[id].group \in Places /\ subs[id].by \in Names
             /\ \A g \in Places : done[g][id] \in 0..uploads
  <2>1. id \in Ids
    BY <1>1, Bounds
  <2> QED
    BY <2>1 DEF IInv, TablesOK, FilesOK
<1>4. worker.sub.group \in Places
  BY RequestFacts DEF IInv, JobsOK, Jobs
<1> QED
  BY <1>1, <1>2, <1>3, <1>4

LEMMA NobodyIsAStudent == \A t \in Students : t # "none" /\ t # "nobody"
BY GroupAssumption

\* What is coming is in the folder of the one who handed it in.
LEMMA ComingHasFiles ==
    ASSUME IInv, HasFiles, NEW id, Coming(id)
    PROVE  subs[id].by \in Students /\ link[subs[id].by] = id /\ new[subs[id].by] # 0
BY DEF HasFiles, Coming, AtWork

LEMMA TrackedWorks ==
    ASSUME IInv, Tracked PROVE ReadyHasWork /\ OwnGroupsWork
<1>1. ASSUME NEW s \in Students, status[s] = "ready",
             link[s] \notin lapsed \cup {req[p].gone : p \in {q \in Students : Pending(q)}}
      PROVE  \/ link[s] # 0 /\ DoneOf(link[s]) # 0
             \/ \E t \in Linked(link, link[s]) : new[t] # 0
  <2>1. link[s] # 0 /\ link[s] \in 1..made
    BY <1>1, TypeFacts DEF Tracked, Readies
  <2>2. ~Dead(link[s])
    BY <1>1 DEF Dead, Gone
  <2>3. DoneOf(link[s]) # 0 \/ Coming(link[s])
    BY <2>1, <2>2 DEF Tracked, Works
  <2> QED
    BY <2>1, <2>3, ComingHasFiles DEF Tracked, Linked
<1>2. ASSUME NEW s \in Students, link[s] # 0, link[s] \notin lapsed, DoneOf(link[s]) # 0
      PROVE  s \in team[DoneOf(link[s])]
  <2>1. link[s] \in 1..made /\ subs[link[s]].group \in Places
    BY <1>2, TypeFacts
  <2> QED
    BY <1>2, <2>1 DEF Tracked, OwnZips, DoneOf
<1>3. ReadyHasWork
  BY <1>1 DEF ReadyHasWork
<1> QED
  BY <1>2, <1>3 DEF OwnGroupsWork

LEMMA InitTracked == Init => Tracked
<1> SUFFICES ASSUME Init PROVE Tracked
  OBVIOUS
<1>1. /\ NoRequest.pc = "idle" /\ NoRequest.sub.id = 0
      /\ Resting.at = "rest" /\ Resting.sub.id = 0
  BY DEF NoRequest, NoSub, Resting
<1>2. /\ made = 0 /\ queue = <<>> /\ worker = Resting
      /\ \A t \in Students : /\ link[t] = 0 /\ status[t] = "open" /\ new[t] = 0
                             /\ req[t] = NoRequest /\ ~Pending(t) /\ req[t].pc = "idle"
      /\ \A g \in Places, id \in Ids : done[g][id] = 0
  BY <1>1 DEF Init, Pending, Places
<1>3. \A t : ~Queued(t)
  BY <1>2 DEF Queued
<1>4. ~\E id \in 1..made : TRUE
  BY <1>2
<1>5. Readies /\ Locks /\ Reuses /\ Makes /\ Empties /\ PlacedWaits /\ Leaves /\ Remembers
  BY <1>1, <1>2 DEF Readies, Locks, Reuses, Makes, Empties, PlacedWaits, Leaves, Remembers
<1>6. HasFiles /\ OwnJob
  BY <1>1, <1>2, <1>3 DEF HasFiles, OwnJob
<1>7. Works /\ OwnFiles /\ OwnZips
  BY <1>4 DEF Works, OwnFiles, OwnZips
<1> QED
  BY <1>5, <1>6, <1>7 DEF Tracked

-------------------------------------------------------------------------------
(* Steps that place, zip and link nothing but to what has lapsed            *)

QuietTables ==
    /\ lapsed \subseteq lapsed'
    /\ made' = made \/ (made' = made + 1 /\ made' \in lapsed')
    /\ \A id \in 1..made : subs'[id] = subs[id]
    /\ \A t \in Students : \/ link'[t] = link[t]
                           \/ made' = made + 1 /\ link'[t] = made' /\ link[t] \in lapsed'
    /\ \A t \in Students : status'[t] = "ready" => status[t] = "ready"
    /\ \A p \in Students : Pending(p) =>
          /\ \A t \in req[p].rows : link'[t] = link[t] /\ status'[t] # "closed"
          /\ (~Fresh(p) /\ req[p].rows # {}) =>
                \A t \in Students : link[t] = req[p].to =>
                   t \in req[p].rows \/ status'[t] = "closed"
QuietJobs ==
    \/ worker' = worker
    \/ worker.at # "begun" /\ worker' \in {Resting, [worker EXCEPT !.at = "failed"]}
QuietRequests ==
    \A p \in Students :
       \/ req'[p] = req[p]
       \/ /\ req'[p].pc \in {"idle", "loaded"} /\ req'[p].sub.id \in {0, link[p]}
          /\ req'[p].pc = "loaded" => req'[p].sub.id = link'[p]
          /\ Pending(p) => {req[p].gone, req[p].sub.id} \subseteq lapsed' \cup {0}
Quiet == QuietTables /\ QuietJobs /\ QuietRequests /\ UNCHANGED <<done, new, queue, team>>

LEMMA QuietTracked ==
    ASSUME Inv, Quiet PROVE Tracked'
<1>1. /\ lapsed \subseteq lapsed'
      /\ done' = done /\ new' = new /\ queue' = queue /\ team' = team
      /\ made' = made \/ (made' = made + 1 /\ made' \in lapsed')
      /\ \A id \in 1..made : subs'[id] = subs[id]
      /\ \A t \in Students : \/ link'[t] = link[t]
                             \/ made' = made + 1 /\ link'[t] = made' /\ link[t] \in lapsed'
  BY DEF Quiet, QuietTables, QuietRequests
<1>2. \A p \in Students :
          \/ req'[p] = req[p]
          \/ /\ req'[p].pc \in {"idle", "loaded"} /\ req'[p].sub.id \in {0, link[p]}
             /\ req'[p].pc = "loaded" => req'[p].sub.id = link'[p]
             /\ Pending(p) => {req[p].gone, req[p].sub.id} \subseteq lapsed' \cup {0}
  BY DEF Quiet, QuietTables, QuietRequests
<1>3. /\ worker'.at = "begun" => worker' = worker
      /\ worker'.sub.id \in {worker.sub.id, 0}
      /\ worker'.task \in {worker.task, "none"}
      /\ worker' = worker \/ worker.at # "begun"
  <2>1. Resting.at = "rest" /\ Resting.sub.id = 0 /\ Resting.task = "none"
    BY DEF Resting, NoSub
  <2>2. LET w == [worker EXCEPT !.at = "failed"]
        IN  w.at = "failed" /\ w.sub = worker.sub /\ w.task = worker.task
    BY DEF Inv, IInv, JobsOK, Jobs
  <2> QED
    BY <2>1, <2>2 DEF Quiet, QuietJobs
<1>4. /\ \A t \in Students : status'[t] = "ready" => status[t] = "ready"
      /\ \A p \in Students : Pending(p) =>
          /\ \A t \in req[p].rows : link'[t] = link[t] /\ status'[t] # "closed"
          /\ (~Fresh(p) /\ req[p].rows # {}) =>
                \A t \in Students : link[t] = req[p].to =>
                   t \in req[p].rows \/ status'[t] = "closed"
  BY DEF Quiet, QuietTables, QuietRequests
<1>5. /\ made \in Nat
      /\ \A t \in Students : /\ link[t] \in 0..made /\ (link[t] # 0 => link[t] \in 1..made)
                             /\ req[t].sub.id \in 0..made
                             /\ Pending(t) => req[t].to \in 1..made
                             /\ req[t].rows \subseteq Students
  BY TypeFacts, RequestFacts DEF Inv
<1>6. \A p \in Students : Pending(p)' => Pending(p) /\ req'[p] = req[p]
  BY <1>2 DEF Pending
<1>7. \A p \in Students : /\ Fresh(p)' /\ Pending(p)' => Fresh(p)
                          /\ ~Fresh(p)' /\ Pending(p)' => ~Fresh(p)
  BY <1>6 DEF Fresh
<1>8. \A id \in 1..made, t \in Students :
         /\ link'[t] = id => link[t] = id
         /\ link[t] = id /\ id \notin lapsed' => link'[t] = id
  BY <1>1, <1>5
<1>9. \A id : id # 0 /\ ~Dead(id)' => ~Dead(id) /\ id \notin lapsed /\ id \notin lapsed'
  <2> SUFFICES ASSUME NEW id, id # 0, ~Dead(id)', Dead(id) PROVE FALSE
    BY <1>1 DEF Dead
  <2>1. id \notin lapsed' /\ id \notin lapsed
    BY <1>1 DEF Dead
  <2>2. PICK p \in Students : Pending(p) /\ req[p].gone = id
    BY <2>1 DEF Dead, Gone
  <2>3. req'[p] # req[p]
    BY <2>2 DEF Dead, Gone, Pending
  <2> QED
    BY <1>2, <2>1, <2>2, <2>3
<1>10. \A t : Queued(t)' <=> Queued(t)
  BY <1>1 DEF Queued
<1>11. Readies'
  <2> SUFFICES ASSUME NEW t \in Students, status'[t] = "ready" PROVE link'[t] # 0
    BY DEF Readies
  <2>1. link[t] # 0
    BY <1>4 DEF Inv, Tracked, Readies
  <2> QED
    BY <1>1, <1>5, <2>1
<1>12. Locks'
  <2>1. ASSUME NEW p \in Students, Pending(p)' PROVE Locked(p)'
    <3>1. Locked(p) /\ Pending(p) /\ req'[p] = req[p]
      BY <1>6, <2>1 DEF Inv, Tracked, Locks
    <3> QED
      BY <1>4, <3>1 DEF Locked, Fresh
  <2> QED
    BY <1>6, <2>1 DEF Inv, Tracked, Locks
<1>13. Reuses'
  <2> SUFFICES ASSUME NEW p \in Students, Pending(p)', ~Fresh(p)' PROVE ReusesOwn(p)'
    BY DEF Reuses
  <2>1. ReusesOwn(p) /\ Pending(p) /\ ~Fresh(p) /\ req'[p] = req[p] /\ req[p].to \in 1..made
    BY <1>5, <1>6, <1>7 DEF Inv, Tracked, Reuses
  <2>2. \A t \in Students : link'[t] = req[p].to => link[t] = req[p].to
    BY <1>8, <2>1
  <2> QED
    BY <1>4, <2>1, <2>2 DEF ReusesOwn
<1>14. Makes'
  <2>1. ASSUME NEW p \in Students, Pending(p)', Fresh(p)' PROVE Unknown(req[p].to)'
    <3>1. Unknown(req[p].to) /\ req[p].to \in 1..made
      BY <1>5, <1>6, <1>7, <2>1 DEF Inv, Tracked, Makes
    <3>2. \A t \in Students : link'[t] # req[p].to /\ req'[t].sub.id # req[p].to
      BY <1>2, <1>5, <1>8, <3>1 DEF Unknown
    <3>3. worker'.sub.id # req[p].to /\ (\A g \in Places : done'[g][req[p].to] = 0)
      BY <1>1, <1>3, <1>5, <3>1 DEF Unknown
    <3>4. req'[p].to = req[p].to
      BY <1>6, <2>1
    <3> QED
      BY <3>2, <3>3, <3>4 DEF Unknown
  <2>3. \A id \in Ids : id > made' => id > made
    BY <1>1, <1>5, Bounds
  <2>5. ASSUME NEW p \in Students, NEW q \in Students, Pending(p)', Pending(q)', p # q, Fresh(p)'
        PROVE  req'[q].to # req'[p].to
    BY <1>6, <1>7, <2>5 DEF Inv, Tracked, Makes
  <2>8. \A id \in Ids : id > made' => \A g \in Places : done'[g][id] = 0
    BY <1>1, <2>3 DEF Inv, Tracked, Makes
  <2> QED
    BY <2>1, <2>5, <2>8 DEF Makes
<1>15. Empties'
  <2> SUFFICES ASSUME NEW p \in Students, Pending(p)', req'[p].gone \notin lapsed' \cup {0},
                      NEW t \in Students, link'[t] = req'[p].gone
               PROVE  t \in req'[p].rows
    BY DEF Empties
  <2>1. /\ Pending(p) /\ req'[p] = req[p] /\ req[p].gone \notin lapsed \cup {0}
        /\ req[p].gone \in {0, req[p].sub.id}
    BY <1>1, <1>6 DEF Inv, Tracked, Locks, Locked
  <2>2. req[p].gone \in 1..made
    BY <1>5, <2>1
  <2>3. link[t] = req[p].gone
    BY <1>8, <2>1, <2>2
  <2> QED
    BY <2>1, <2>3 DEF Inv, Tracked, Empties
<1>16. HasFiles'
  <2>1. worker'.sub.id \in 0..made'
    BY <1>1, <1>3, <1>5 DEF Inv, Tracked, HasFiles
  <2> QED
    BY <1>1, <1>3, <1>10, <2>1, NobodyIsAStudent DEF Inv, Tracked, HasFiles
<1>17. PlacedWaits'
  <2> SUFFICES ASSUME NEW p \in Students, req'[p].pc = "placed", req'[p].to \notin lapsed'
               PROVE  Queued(p)' /\ team'[new'[p]] = req'[p].team
    BY DEF PlacedWaits
  <2>1. req'[p] = req[p]
    BY <1>2
  <2> QED
    BY <1>1, <1>10, <2>1 DEF Inv, Tracked, PlacedWaits
<1>18. Leaves'
  <2> SUFFICES ASSUME NEW p \in Students, Pending(p)', Fresh(p)', req'[p].sub.id # 0,
                      (~Dead(req[p].sub.id))', req'[p].sub.by = subs'[req'[p].sub.id].by,
                      NEW t \in req'[p].rows, link'[t] = req'[p].sub.id
               PROVE  DoneOf(req[p].sub.id)' # 0
    BY DEF Leaves
  <2>1. /\ Pending(p) /\ req'[p] = req[p] /\ Fresh(p) /\ ~Dead(req[p].sub.id)
        /\ req[p].sub.id \in 1..made /\ t \in Students
    BY <1>5, <1>6, <1>7, <1>9
  <2>2. subs'[req[p].sub.id] = subs[req[p].sub.id] /\ link[t] = req[p].sub.id
    BY <1>1, <1>8, <2>1
  <2>3. DoneOf(req[p].sub.id) # 0
    BY <2>1, <2>2 DEF Inv, Tracked, Leaves
  <2> QED
    BY <1>1, <2>1, <2>2, <2>3 DEF DoneOf
<1>19. Works'
  <2> SUFFICES ASSUME NEW id \in 1..made', ~Dead(id)', NEW t \in Students, link'[t] = id
               PROVE  DoneOf(id)' # 0 \/ Coming(id)'
    BY DEF Works
  <2>1. id \notin lapsed'
    BY DEF Dead
  <2>2. id \in 1..made /\ id # 0
    BY <1>1, <1>5, <2>1
  <2>3. ~Dead(id) /\ link[t] = id /\ subs'[id] = subs[id]
    BY <1>1, <1>8, <1>9, <2>2
  <2>4. CASE DoneOf(id) # 0
    BY <1>1, <2>3, <2>4 DEF DoneOf
  <2>5. CASE Coming(id)
    <3>1. PICK b \in Students : subs[id].by = b /\ link[b] = id /\ (Queued(b) \/ AtWork(id))
      BY <2>5 DEF Coming
    <3>2. link'[b] = id /\ subs'[id].by = b
      BY <1>8, <2>1, <2>2, <2>3, <3>1
    <3>3. Queued(b)' \/ AtWork(id)'
      BY <1>3, <1>10, <2>3, <3>1 DEF AtWork
    <3> QED
      BY <3>1, <3>2, <3>3 DEF Coming
  <2> QED
    BY <2>2, <2>3, <2>4, <2>5 DEF Inv, Tracked, Works
<1>20. Remembers'
  <2> SUFFICES ASSUME NEW p \in Students, req'[p].pc # "idle", link'[p] \notin lapsed' \cup {0},
                      subs'[link'[p]].by = p
               PROVE  req'[p].sub.id = link'[p]
    BY DEF Remembers
  <2>1. link'[p] = link[p] /\ link[p] \in 1..made /\ link[p] \notin lapsed \cup {0}
    BY <1>1, <1>5
  <2>2. subs[link[p]].by = p
    BY <1>1, <2>1
  <2>3. CASE req'[p] = req[p]
    BY <2>1, <2>2, <2>3 DEF Inv, Tracked, Remembers
  <2>4. CASE req'[p] # req[p]
    BY <1>2, <2>4
  <2> QED
    BY <2>3, <2>4
<1>21. OwnFiles'
  <2> SUFFICES ASSUME NEW id \in 1..made', NEW b \in Students, id \notin lapsed',
                      subs'[id].by = b, link'[b] = id, new'[b] # 0,
                      ~(req'[b].pc = "placed" /\ req'[b].to # id),
                      NEW t \in Students, link'[t] = id
               PROVE  t \in team'[new'[b]]
    BY DEF OwnFiles
  <2>1. id \in 1..made /\ id # 0 /\ id \notin lapsed
    BY <1>1, <1>5
  <2>2. subs[id].by = b /\ link[b] = id /\ link[t] = id
    BY <1>1, <1>8, <2>1
  <2>3. ~(req[b].pc = "placed" /\ req[b].to # id)
    <3> SUFFICES ASSUME req[b].pc = "placed", req'[b] # req[b] PROVE FALSE
      OBVIOUS
    <3>1. req[b].sub.id = id
      BY <2>1, <2>2 DEF Inv, Tracked, Remembers
    <3>2. Pending(b)
      BY DEF Pending
    <3> QED
      BY <1>2, <2>1, <3>1, <3>2
  <2> QED
    BY <1>1, <2>1, <2>2, <2>3 DEF Inv, Tracked, OwnFiles
<1>22. OwnJob'
  <2> SUFFICES ASSUME worker'.at = "begun", worker'.sub.by = worker'.task,
                      worker'.sub.id \notin lapsed' \cup {0},
                      link'[worker'.task] = worker'.sub.id,
                      NEW t \in Students, link'[t] = worker'.sub.id
               PROVE  t \in team'[new'[worker'.task]]
    BY DEF OwnJob
  <2>1. worker' = worker /\ worker.task \in Students
    BY <1>3 DEF Inv, IInv, JobsOK
  <2>2. worker.sub.id \in 1..made
    BY <1>5, <2>1 DEF Inv, Tracked, HasFiles
  <2>3. link[worker.task] = worker.sub.id /\ link[t] = worker.sub.id
    BY <1>8, <2>1, <2>2
  <2> QED
    BY <1>1, <2>1, <2>2, <2>3 DEF Inv, Tracked, OwnJob
<1>23. OwnZips'
  <2> SUFFICES ASSUME NEW id \in 1..made', NEW g \in Places, id \notin lapsed',
                      done'[g][id] # 0, NEW t \in Students, link'[t] = id
               PROVE  t \in team'[done'[g][id]]
    BY DEF OwnZips
  <2>1. id \in 1..made /\ id \notin lapsed
    BY <1>1, <1>5
  <2>2. link[t] = id
    BY <1>8, <2>1
  <2> QED
    BY <1>1, <2>1, <2>2 DEF Inv, Tracked, OwnZips
<1> QED
  BY <1>11, <1>12, <1>13, <1>14, <1>15, <1>16, <1>17, <1>18, <1>19, <1>20, <1>21, <1>22, <1>23
     DEF Tracked

LEMMA SameTables ==
    ASSUME Inv, UNCHANGED <<link, subs, made>>, lapsed \subseteq lapsed',
           \A t \in Students : status'[t] = "ready" => status[t] = "ready",
           \A p \in Students : Pending(p) => \A t \in req[p].rows : status'[t] # "closed",
           \A p \in Students : (Pending(p) /\ ~Fresh(p) /\ req[p].rows # {}) =>
                \A t \in Students : link[t] = req[p].to =>
                   t \in req[p].rows \/ status'[t] = "closed"
    PROVE  QuietTables
BY RequestFacts DEF QuietTables

LEMMA TablesStay ==
    ASSUME Inv, UNCHANGED <<link, status, subs, made>>, lapsed \subseteq lapsed'
    PROVE  QuietTables
<1>1. \A p \in Students : Pending(p) => \A t \in req[p].rows : status[t] # "closed"
  BY DEF Inv, Tracked, Locks, Locked
<1>2. \A p \in Students : (Pending(p) /\ ~Fresh(p)) => ReusesOwn(p)
  BY DEF Inv, Tracked, Reuses
<1> QED
  BY <1>1, <1>2, SameTables DEF ReusesOwn

\* Whom a verdict or a new group submission reaches, and whom the locks keep out.
LEMMA MatesFree ==
    ASSUME Inv, NEW s \in Students, RowsFree(Mates(s)), NEW p \in Students, Pending(p)
    PROVE  /\ \A t \in req[p].rows : /\ t \in Students /\ t # s /\ group[t] # group[s]
                                     /\ link[s] # 0 => link[t] # link[s]
                                     /\ status[t] # "closed" /\ link[t] \in 0..made
           /\ (~Fresh(p) /\ req[p].rows # {}) =>
                 /\ link[s] # req[p].to
                 /\ \A t \in Students : link[t] = req[p].to =>
                       t \in req[p].rows \/ status[t] = "closed"
<1>1. Locked(p) /\ (~Fresh(p) => ReusesOwn(p))
  BY DEF Inv, Tracked, Locks, Reuses
<1>2. Mates(s) \cap req[p].rows = {}
  BY DEF RowsFree
<1>3. req[p].rows \subseteq Students /\ req[p].to \in 1..made
  BY TypeFacts, RequestFacts DEF Inv
<1>4. \A t \in req[p].rows : /\ t \in Students /\ t # s /\ group[t] # group[s]
                             /\ link[s] # 0 => link[t] # link[s]
  BY <1>2, <1>3 DEF Mates
<1>5. \A t \in req[p].rows : status[t] # "closed" /\ link[t] \in 0..made
  BY <1>1, <1>3, TypeFacts DEF Inv, Locked
<1>6. ASSUME ~Fresh(p), req[p].rows # {}
      PROVE  /\ link[s] # req[p].to
             /\ \A t \in Students : link[t] = req[p].to =>
                   t \in req[p].rows \/ status[t] = "closed"
  <2>1. PICK t \in req[p].rows : link[t] = req[p].to
    BY <1>1, <1>6 DEF ReusesOwn
  <2>2. req[p].to # 0
    BY <1>3
  <2> QED
    BY <1>1, <1>4, <1>6, <2>1, <2>2 DEF ReusesOwn
<1> QED
  BY <1>4, <1>5, <1>6

LEMMA EnsuredQuiet ==
    ASSUME Inv, NEW s \in Students, NEW st, Ensured(s, st), RowsFree(Mates(s)),
           \A t \in Students : status'[t] = "ready" => status[t] = "ready",
           \A t \in Students : t # s /\ group[t] # group[s] => status'[t] = status[t],
           \A t \in Students : t # s /\ status[t] = "closed" => status'[t] = "closed"
    PROVE  QuietTables
<1>1. /\ made' = made + 1
      /\ subs' = [subs EXCEPT ![made + 1] = [group |-> group[s], by |-> s]]
      /\ link' = [t \in Students |-> IF group[t] = group[s] /\ st[t] # "closed"
                                     THEN made + 1 ELSE link[t]]
      /\ lapsed' = lapsed \cup {made + 1} \cup {link[t] : t \in Members(group[s])}
  BY DEF Ensured
<1>2. \A id \in 1..made : subs'[id] = subs[id]
  BY <1>1, TypeFacts DEF Inv, IInv, TablesOK
<1>3. \A t \in Students : link'[t] = link[t] \/ (link'[t] = made' /\ link[t] \in lapsed')
  BY <1>1 DEF Members
<1>4. ASSUME NEW p \in Students, Pending(p)
      PROVE  /\ \A t \in req[p].rows : link'[t] = link[t] /\ status'[t] # "closed"
             /\ (~Fresh(p) /\ req[p].rows # {}) =>
                   \A t \in Students : link[t] = req[p].to =>
                      t \in req[p].rows \/ status'[t] = "closed"
  BY <1>1, <1>4, MatesFree
<1> QED
  BY <1>1, <1>2, <1>3, <1>4 DEF QuietTables

LEMMA JudgeQuiet ==
    ASSUME Inv, NEW s \in Students, NEW id, NEW v \in {"open", "closed"}, Judge(s, id, v),
           id = link[s] \/ v = "open"
    PROVE  QuietTables
<1> DEFINE own == [status EXCEPT ![s] = v]
           spread(lk, i) == [t \in Students |-> IF lk[t] = i /\ own[t] # "closed"
                                                THEN v ELSE own[t]]
<1>1. /\ own \in [Students -> {"open", "ready", "closed"}] /\ own[s] = v
      /\ \A t \in Students : t # s => own[t] = status[t]
  BY DEF Inv, IInv, TablesOK
<1>2. \A lk, i : \A t \in Students :
         spread(lk, i)[t] = IF lk[t] = i /\ own[t] # "closed" THEN v ELSE own[t]
  <2> HIDE DEF own
  <2> QED
    OBVIOUS
<1>3. RowsFree(Mates(s))
  BY DEF Judge
<1>4. CASE id = 0 /\ group[s] # NoGroup
  <2>1. Ensured(s, own) /\ status' = spread(link', made')
    BY <1>4 DEF Judge
  <2>2. \A t \in Students : group[t] # group[s] => link'[t] # made'
    BY <2>1, TypeFacts DEF Ensured, Inv
  <2> HIDE DEF own, spread
  <2>3. /\ \A t \in Students : status'[t] = "ready" => status[t] = "ready"
        /\ \A t \in Students : t # s /\ group[t] # group[s] => status'[t] = status[t]
        /\ \A t \in Students : t # s /\ status[t] = "closed" => status'[t] = "closed"
    BY <1>1, <1>2, <2>1, <2>2
  <2> QED
    BY <1>3, <2>1, <2>3, EnsuredQuiet
<1>5. CASE ~(id = 0 /\ group[s] # NoGroup)
  <2>1. /\ status' = IF id = 0 THEN own ELSE spread(link, id)
        /\ UNCHANGED <<link, subs, made, lapsed>>
    BY <1>5 DEF Judge
  <2> HIDE DEF own, spread
  <2>2. \A t \in Students : status'[t] = "ready" => status[t] = "ready"
    BY <1>1, <1>2, <2>1
  <2>3. \A t \in Students : t # s /\ status[t] = "closed" => status'[t] = "closed"
    BY <1>1, <1>2, <2>1
  <2>4. ASSUME NEW p \in Students, Pending(p)
        PROVE  \A t \in req[p].rows : status'[t] # "closed"
    BY <1>1, <1>2, <1>3, <2>1, <2>4, MatesFree
  <2>5. ASSUME NEW p \in Students, Pending(p), ~Fresh(p), req[p].rows # {}
        PROVE  \A t \in Students : link[t] = req[p].to =>
                  t \in req[p].rows \/ status'[t] = "closed"
    BY <1>3, <2>3, <2>5, MatesFree
  <2> QED
    BY <2>1, <2>2, <2>4, <2>5, SameTables
<1> QED
  BY <1>4, <1>5

LEMMA RequestEndsQuiet ==
    ASSUME Inv, NEW s \in Students, req' = [req EXCEPT ![s] = NoRequest],
           Pending(s) => {req[s].gone, req[s].sub.id} \subseteq lapsed' \cup {0}
    PROVE  QuietRequests
<1>1. req \in [Students -> Requests] /\ NoRequest.pc = "idle" /\ NoRequest.sub.id = 0
  BY RequestFacts DEF Inv, IInv, RequestsOK, NoRequest, NoSub
<1> QED
  BY <1>1 DEF QuietRequests

LEMMA RequestsAreQuiet ==
    ASSUME Inv, NEW s \in Students, Load(s) \/ Refuse(s) \/ Abort(s) \/ Remark(s)
    PROVE  Quiet
<1>1. CASE Load(s)
  <2> DEFINE r == [NoRequest EXCEPT !.pc = "loaded", !.sub = SubOf(s)]
  <2>1. r.pc = "loaded" /\ r.sub.id = link[s] /\ req[s].pc = "idle"
    BY <1>1, SubOfType, RequestFacts DEF Inv, IInv, Load
  <2>2. req' = [req EXCEPT ![s] = r]
    BY <1>1 DEF Load
  <2> HIDE DEF r
  <2>3. UNCHANGED <<link, status, subs, made, lapsed, done, new, queue, worker, team>>
    BY <1>1 DEF Load, tables, files, jobs
  <2>4. req \in [Students -> Requests]
    BY DEF Inv, IInv, RequestsOK
  <2>5. QuietRequests
    BY <2>1, <2>2, <2>3, <2>4 DEF QuietRequests, Pending
  <2> QED
    BY <2>3, <2>5, TablesStay DEF Quiet, QuietJobs
<1>2. CASE Refuse(s)
  <2>1. /\ UNCHANGED <<link, status, subs, made, lapsed, done, new, queue, worker, team>>
        /\ req' = [req EXCEPT ![s] = NoRequest] /\ req[s].pc = "loaded"
    BY <1>2 DEF Refuse, tables, files, jobs
  <2> QED
    BY <2>1, RequestEndsQuiet, TablesStay DEF Quiet, QuietJobs, Pending
<1>3. CASE Abort(s)
  <2>1. /\ UNCHANGED <<link, status, subs, made, done, new, queue, worker, team>>
        /\ req' = [req EXCEPT ![s] = NoRequest]
        /\ lapsed' = lapsed \cup ({req[s].gone, req[s].sub.id} \ {0})
    BY <1>3 DEF Abort, tables, files, jobs
  <2> QED
    BY <2>1, RequestEndsQuiet, TablesStay DEF Quiet, QuietJobs
<1>4. CASE Remark(s)
  <2>1. /\ UNCHANGED <<status, done, new, queue, worker, team>>
        /\ req' = [req EXCEPT ![s] = NoRequest] /\ req[s].pc = "loaded"
        /\ Ensured(s, status) /\ RowsFree(Mates(s))
    BY <1>4 DEF Remark, files, jobs
  <2> QED
    BY <2>1, RequestEndsQuiet, EnsuredQuiet DEF Quiet, QuietJobs, Pending
<1> QED
  BY <1>1, <1>2, <1>3, <1>4

LEMMA OthersAreQuiet ==
    ASSUME Inv,
           \/ \E s \in Students, v \in {"open", "closed"} : Assess(s, v)
           \/ \E s \in Students, g \in Places : Move(s, g)
           \/ Converted \/ Fix \/ UNCHANGED vars
    PROVE  Quiet
<1>1. CASE \E s \in Students, v \in {"open", "closed"} : Assess(s, v)
  <2>1. PICK s \in Students, v \in {"open", "closed"} :
           /\ Judge(s, link[s], v)
           /\ UNCHANGED <<done, new, queue, worker, team, req>>
    BY <1>1 DEF Assess, files, jobs
  <2> QED
    BY <2>1, JudgeQuiet DEF Quiet, QuietJobs, QuietRequests
<1>2. CASE Converted \/ UNCHANGED vars \/ \E s \in Students, g \in Places : Move(s, g)
  <2>1. /\ UNCHANGED <<link, status, subs, made, lapsed, done, new, queue, team, req>>
        /\ QuietJobs
    BY <1>2 DEF Converted, Move, tables, files, jobs, vars, QuietJobs
  <2> QED
    BY <2>1, TablesStay DEF Quiet, QuietRequests
<1>3. CASE Fix
  <2>1. /\ worker.at = "failed" /\ Judge(worker.task, worker.sub.id, "open")
        /\ worker' = Resting /\ UNCHANGED <<done, new, queue, team, req>>
    BY <1>3 DEF Fix, files
  <2>2. worker.task \in Students
    BY <2>1 DEF Inv, IInv, JobsOK
  <2> QED
    BY <2>1, <2>2, JudgeQuiet DEF Quiet, QuietJobs, QuietRequests
<1> QED
  BY <1>1, <1>2, <1>3

-------------------------------------------------------------------------------
(* The steps of an upload                                                   *)

\* What is said of other requests and of group submissions when one request
\* takes hold: it knows no more than it knew, and its rows are its own.
LEMMA AcceptTracked ==
    ASSUME Inv, NEW s \in Students, NEW share \in SUBSET Students, Accept(s, share)
    PROVE  Tracked'
<1> DEFINE sub == req[s].sub
           members == Members(group[s])
           same == SameComposition(sub, share, members)
           to == IF same THEN sub.id ELSE made + 1
           rows == {t \in share : status[t] # "closed"}
           lk == [t \in Students |-> IF t \in rows THEN to ELSE link[t]]
           gone == Goes(sub, to, lk)
           ready == {t \in Linked(lk, to) : status[t] # "closed"}
           r == [pc |-> "accepted", sub |-> sub, to |-> to, group |-> group[s],
                 team |-> members, rows |-> rows, ready |-> ready,
                 gone |-> IF gone THEN sub.id ELSE 0]
<1>1. /\ req[s].pc = "loaded" /\ RowsFree(members) /\ share \subseteq members
      /\ ~Processing(s, sub)
      /\ made' = IF same THEN made ELSE to
      /\ req' = [req EXCEPT ![s] = r]
      /\ done' = IF gone THEN [done EXCEPT ![sub.group][sub.id] = 0] ELSE done
      /\ to \in Ids
      /\ UNCHANGED <<link, status, subs, new, queue, worker, team, lapsed>>
  BY DEF Accept, jobs
<1>2. /\ made \in Nat
      /\ \A t \in Students : /\ link[t] \in 0..made /\ (link[t] # 0 => link[t] \in 1..made)
                             /\ req[t].sub.id \in 0..made
                             /\ Pending(t) => req[t].to \in 1..made
                             /\ req[t].rows \subseteq Students
  BY TypeFacts, RequestFacts DEF Inv
<1>3. /\ same => to = sub.id /\ share = members /\ sub.id # 0
              /\ \A t \in Students : link[t] = sub.id <=> t \in members
      /\ ~same => to = made + 1
      /\ gone => sub.id # 0 /\ sub.id # to /\ \A t \in Students : lk[t] # sub.id
  BY DEF SameComposition, Goes, Linked, Members
<1>4. /\ \A t : t \in rows <=> t \in share /\ status[t] # "closed"
      /\ \A t \in Students : lk[t] = IF t \in rows THEN to ELSE link[t]
      /\ rows \subseteq Students /\ members \subseteq Students
      /\ \A t : t \in ready <=> t \in Students /\ lk[t] = to /\ status[t] # "closed"
  BY DEF Linked, Members
<1>5. /\ r.pc = "accepted" /\ r.sub = sub /\ r.to = to /\ r.team = members
      /\ r.rows = rows /\ r.ready = ready /\ r.gone = (IF gone THEN sub.id ELSE 0)
  OBVIOUS
<1>6. sub.id \in 0..made /\ sub.group \in Places /\ sub = req[s].sub
  BY <1>2, RequestFacts, TypeFacts DEF Inv
<1> HIDE DEF sub, members, same, to, rows, lk, gone, ready, r
<1>7. /\ req'[s] = r /\ \A p \in Students : p # s => req'[p] = req[p]
      /\ Pending(s)' /\ ~Pending(s)
      /\ \A p \in Students : p # s => (Pending(p)' <=> Pending(p)) /\ (Fresh(p)' <=> Fresh(p))
      /\ Fresh(s)' <=> ~same
      /\ \A t \in Students : req'[t].sub = req[t].sub
  <2>1. req'[s] = r /\ \A p \in Students : p # s => req'[p] = req[p]
    BY <1>1 DEF Inv, IInv, RequestsOK
  <2>2. to # sub.id <=> ~same
    BY <1>2, <1>3, <1>6
  <2> QED
    BY <1>1, <1>5, <1>6, <2>1, <2>2 DEF Pending, Fresh
<1>8. /\ \A g \in Places, id \in Ids : done'[g][id] = done[g][id] \/
            (gone /\ id = sub.id /\ done'[g][id] = 0)
  <2>1. gone => sub.id \in Ids
    BY <1>2, <1>3, <1>6, TypeFacts, Bounds DEF Inv
  <2>2. 0 \in 0..uploads
    BY TypeFacts DEF Inv
  <2> QED
    BY <1>1, <1>6, <2>1, <2>2, DoneUpdate DEF Inv, IInv
<1>9. /\ \A id : ~Dead(id)' => ~Dead(id)
      /\ \A id : gone /\ id = sub.id => Dead(id)'
      /\ made' = made \/ made' = made + 1
      /\ made \in 0..made'
  <2>1. gone => r.gone = sub.id
    BY <1>5
  <2>2. ASSUME NEW id, Dead(id) PROVE Dead(id)'
    BY <1>1, <1>7, <2>2 DEF Dead, Gone
  <2>3. ASSUME NEW id, gone, id = sub.id PROVE Dead(id)'
    BY <1>7, <2>1, <2>3 DEF Dead, Gone
  <2>4. (made' = made \/ made' = made + 1) /\ made \in 0..made'
    BY <1>1, <1>2, <1>3
  <2> QED
    BY <2>2, <2>3, <2>4
<1>10. \A t : Queued(t)' <=> Queued(t)
  BY <1>1 DEF Queued
<1>11. Readies' /\ OwnJob'
  BY <1>1 DEF Inv, Tracked, Readies, OwnJob
<1>12. Locks'
  <2>1. r.ready = r.rows
    <3>1. CASE same
      BY <1>3, <1>4, <1>5, <3>1
    <3>2. CASE ~same
      <4>1. \A t \in Students : link[t] # to
        BY <1>2, <1>3, <3>2
      <4> QED
        BY <1>3, <1>4, <1>5, <3>2, <4>1
    <3> QED
      BY <3>1, <3>2
  <2>2. /\ r.rows \subseteq r.team /\ \A t \in r.rows : status[t] # "closed"
        /\ r.gone \in {0, r.sub.id} /\ (r.gone # 0 => r.to # r.sub.id)
    BY <1>1, <1>3, <1>4, <1>5
  <2>3. Locked(s)'
    BY <1>1, <1>7, <2>1, <2>2 DEF Locked, Fresh
  <2>4. \A p \in Students : Pending(p) /\ p # s => Locked(p)'
    BY <1>1, <1>7 DEF Inv, Tracked, Locks, Locked
  <2>5. \A q \in Students : Pending(q) => \A t \in r.rows : t \notin req[q].rows
    BY <1>1, <2>2, <1>5 DEF RowsFree
  <2>6. \A p, q \in Students : (Pending(p)' /\ Pending(q)' /\ p # q)
                                 => \A t \in req'[p].rows : t \notin req'[q].rows
    BY <1>7, <2>5 DEF Inv, Tracked, Locks
  <2> QED
    BY <1>7, <2>3, <2>4, <2>6 DEF Locks
<1>13. Reuses'
  <2>1. ASSUME same PROVE ReusesOwn(s)'
    BY <1>1, <1>3, <1>4, <1>5, <1>7, <2>1 DEF ReusesOwn
  <2>2. \A p \in Students : p # s /\ Pending(p) /\ ~Fresh(p) => ReusesOwn(p)'
    BY <1>1, <1>7 DEF Inv, Tracked, Reuses, ReusesOwn
  <2> QED
    BY <1>7, <2>1, <2>2 DEF Reuses
<1>14. Makes'
  <2>1. \A id \in Ids : id > made => \A g \in Places : done'[g][id] = 0
    BY <1>8 DEF Inv, Tracked, Makes
  <2>2. ASSUME ~same PROVE Unknown(req[s].to)'
    <3>1. to = made + 1 /\ to \in Ids /\ req'[s].to = to
      BY <1>1, <1>3, <1>5, <1>7, <2>2
    <3>2. /\ \A t \in Students : link[t] # to /\ req[t].sub.id # to
          /\ worker.sub.id # to
      BY <1>2, <3>1 DEF Inv, Tracked, HasFiles
    <3>3. \A g \in Places : done'[g][to] = 0
      BY <1>2, <2>1, <3>1
    <3> QED
      BY <1>1, <1>7, <3>1, <3>2, <3>3 DEF Unknown
  <2>3. ASSUME NEW p \in Students, p # s, Pending(p), Fresh(p)
        PROVE  Unknown(req[p].to)' /\ to # req[p].to
    <3>1. Unknown(req[p].to) /\ req[p].to \in 1..made /\ req[p].to \in Ids
      BY <1>2, <2>3, TypeFacts DEF Inv, Tracked, Makes
    <3>2. \A g \in Places : done'[g][req[p].to] = 0
      BY <1>8, <3>1 DEF Unknown
    <3>3. req'[p].to = req[p].to
      BY <1>7, <2>3
    <3>4. Unknown(req[p].to)'
      BY <1>1, <1>7, <3>1, <3>2, <3>3 DEF Unknown
    <3>5. to # req[p].to
      BY <1>2, <1>3, <1>6, <3>1 DEF Unknown
    <3> QED
      BY <3>4, <3>5
  <2>4. ASSUME NEW p \in Students, Pending(p)', Fresh(p)' PROVE Unknown(req[p].to)'
    BY <1>7, <2>2, <2>3, <2>4
  <2>5. ASSUME NEW p \in Students, NEW q \in Students, Pending(p)', Pending(q)', p # q, Fresh(p)'
        PROVE  req'[q].to # req'[p].to
    <3>1. CASE p = s
      <4>1. req'[p].to = made + 1
        BY <1>3, <1>5, <1>7, <2>5, <3>1
      <4>2. req'[q].to \in 1..made
        BY <1>2, <1>7, <2>5, <3>1
      <4> QED
        BY <1>2, <4>1, <4>2
    <3>2. CASE q = s
      BY <1>5, <1>7, <2>3, <2>5, <3>2
    <3>3. CASE p # s /\ q # s
      BY <1>7, <2>5, <3>3 DEF Inv, Tracked, Makes
    <3> QED
      BY <3>1, <3>2, <3>3
  <2>6. \A id \in Ids : id > made' => id > made
    BY <1>2, <1>9, Bounds
  <2> QED
    BY <2>1, <2>4, <2>5, <2>6 DEF Makes
<1>15. Empties'
  <2>1. gone => \A t \in Students : link[t] = sub.id => t \in rows
    BY <1>3, <1>4
  <2>2. \A t \in Students : r.gone # 0 /\ link[t] = r.gone => t \in r.rows
    BY <1>5, <2>1
  <2>3. \A p \in Students : p # s => (Pending(p)' <=> Pending(p)) /\ req'[p] = req[p]
    BY <1>7
  <2> QED
    BY <1>1, <1>7, <2>2, <2>3 DEF Inv, Tracked, Empties
<1>16. HasFiles'
  <2>1. worker.sub.id \in 0..made'
    BY <1>2, <1>9 DEF Inv, Tracked, HasFiles
  <2> QED
    BY <1>1, <1>10, <2>1 DEF Inv, Tracked, HasFiles
<1>17. PlacedWaits'
  <2> SUFFICES ASSUME NEW p \in Students, req'[p].pc = "placed", req'[p].to \notin lapsed'
               PROVE  Queued(p)' /\ team'[new'[p]] = req'[p].team
    BY DEF PlacedWaits
  <2>1. req'[p] = req[p]
    BY <1>5, <1>7
  <2> QED
    BY <1>1, <1>10, <2>1 DEF Inv, Tracked, PlacedWaits
<1>18. \A id \in 1..made : ~Dead(id)' => (DoneOf(id)' = DoneOf(id))
  <2> SUFFICES ASSUME NEW id \in 1..made, ~Dead(id)' PROVE DoneOf(id)' = DoneOf(id)
    OBVIOUS
  <2>1. id \in Ids /\ subs[id].group \in Places /\ subs' = subs
    BY <1>1, TypeFacts DEF Inv
  <2>2. ~(gone /\ id = sub.id)
    BY <1>9
  <2> QED
    BY <1>8, <2>1, <2>2 DEF DoneOf
<1>19. Leaves'
  <2> SUFFICES ASSUME NEW p \in Students, Pending(p)', Fresh(p)', req'[p].sub.id # 0,
                      (~Dead(req[p].sub.id))', req'[p].sub.by = subs'[req'[p].sub.id].by,
                      NEW t \in req'[p].rows, link'[t] = req'[p].sub.id
               PROVE  DoneOf(req[p].sub.id)' # 0
    BY DEF Leaves
  <2>1. /\ req'[p].sub = req[p].sub /\ req[p].sub.id \in 1..made /\ ~Dead(req[p].sub.id)
        /\ link[t] = req[p].sub.id /\ req[p].sub.by = subs[req[p].sub.id].by
    BY <1>1, <1>2, <1>7, <1>9
  <2>2. CASE p # s
    <3>1. Pending(p) /\ Fresh(p) /\ t \in req[p].rows
      BY <1>7, <2>2
    <3>2. DoneOf(req[p].sub.id) # 0
      BY <2>1, <3>1 DEF Inv, Tracked, Leaves
    <3> QED
      BY <1>18, <2>1, <3>2
  <2>3. CASE p = s
    <3>1. t \in Students
      BY <1>4, <1>5, <1>7, <2>3
    <3>2. DoneOf(sub.id) # 0 \/ Coming(sub.id)
      BY <1>6, <2>1, <2>3, <3>1 DEF Inv, Tracked, Works
    <3>3. CASE Coming(sub.id)
      <4>1. /\ subs[sub.id].by \in Students /\ link[subs[sub.id].by] = sub.id
            /\ new[subs[sub.id].by] # 0
        BY <3>3, ComingHasFiles DEF Inv, Tracked
      <4>2. sub.by = subs[sub.id].by /\ sub.id # 0
        BY <1>6, <2>1, <2>3
      <4>3. SubmitterTask(sub) = {sub.by}
        BY <4>1, <4>2 DEF SubmitterTask, Linked
      <4>4. Processing(s, sub)
        BY <4>1, <4>2, <4>3 DEF Processing, InProcess
      <4> QED
        BY <1>1, <4>4
    <3>4. CASE DoneOf(sub.id) # 0
      BY <1>6, <1>18, <2>1, <2>3, <3>4
    <3> QED
      BY <3>2, <3>3, <3>4
  <2> QED
    BY <2>2, <2>3
<1>20. \A id \in 1..made' : id \in 1..made \/ \A t \in Students : link[t] # id
  BY <1>2, <1>9
<1>21. Works'
  <2> SUFFICES ASSUME NEW id \in 1..made', ~Dead(id)', NEW t \in Students, link'[t] = id
               PROVE  DoneOf(id)' # 0 \/ Coming(id)'
    BY DEF Works
  <2>1. id \in 1..made /\ link[t] = id /\ ~Dead(id)
    BY <1>1, <1>9, <1>20
  <2>2. Coming(id) => Coming(id)'
    BY <1>1, <1>10 DEF Coming, AtWork
  <2> QED
    BY <1>18, <2>1, <2>2 DEF Inv, Tracked, Works
<1>22. Remembers'
  BY <1>1, <1>7 DEF Inv, Tracked, Remembers
<1>23. OwnFiles'
  <2> SUFFICES ASSUME NEW id \in 1..made', NEW b \in Students, id \notin lapsed',
                      subs'[id].by = b, link'[b] = id, new'[b] # 0,
                      ~(req'[b].pc = "placed" /\ req'[b].to # id),
                      NEW t \in Students, link'[t] = id
               PROVE  t \in team'[new'[b]]
    BY DEF OwnFiles
  <2>1. id \in 1..made
    BY <1>1, <1>20
  <2>2. ~(req[b].pc = "placed" /\ req[b].to # id)
    BY <1>1, <1>7
  <2> QED
    BY <1>1, <2>1, <2>2 DEF Inv, Tracked, OwnFiles
<1>24. OwnZips'
  <2> SUFFICES ASSUME NEW id \in 1..made', NEW g \in Places, id \notin lapsed',
                      done'[g][id] # 0, NEW t \in Students, link'[t] = id
               PROVE  t \in team'[done'[g][id]]
    BY DEF OwnZips
  <2>1. id \in 1..made /\ id \in Ids
    BY <1>1, <1>20, TypeFacts DEF Inv
  <2>2. done'[g][id] = done[g][id]
    BY <1>8, <2>1
  <2> QED
    BY <1>1, <2>1, <2>2 DEF Inv, Tracked, OwnZips
<1> QED
  BY <1>11, <1>12, <1>13, <1>14, <1>15, <1>16, <1>17, <1>19, <1>21, <1>22, <1>23, <1>24
     DEF Tracked

LEMMA EnqueuedQueued ==
    ASSUME IInv, NEW s \in Students, queue' = Enqueued(s)
    PROVE  /\ \A t : Queued(t)' => Queued(t) \/ (t = s /\ worker.task # s)
           /\ \A t : Queued(t) => Queued(t)'
           /\ worker.task # s => Queued(s)'
<1>1. CASE s \in {queue[i] : i \in DOMAIN queue} \/ worker.task = s
  BY <1>1 DEF Enqueued, Queued
<1>2. CASE ~(s \in {queue[i] : i \in DOMAIN queue} \/ worker.task = s)
  <2>1. queue' = Append(queue, s) /\ queue \in Seq(Students)
    BY <1>2 DEF Enqueued, IInv, JobsOK
  <2>2. /\ Len(queue) \in Nat /\ DOMAIN queue = 1..Len(queue)
        /\ DOMAIN Append(queue, s) = 1..(Len(queue) + 1)
        /\ \A i \in 1..Len(queue) : Append(queue, s)[i] = queue[i]
        /\ Append(queue, s)[Len(queue) + 1] = s
    BY <2>1, AppendProperties
  <2> DEFINE longer == Append(queue, s)
  <2>3. /\ \A i \in DOMAIN longer : i \in DOMAIN queue \/ i = Len(queue) + 1
        /\ \A i \in DOMAIN queue : i \in DOMAIN longer
        /\ Len(queue) + 1 \in DOMAIN longer
    BY <2>2
  <2>4. /\ \A i \in DOMAIN queue : longer[i] = queue[i]
        /\ longer[Len(queue) + 1] = s /\ queue' = longer
    BY <2>1, <2>2
  <2> HIDE DEF longer
  <2> QED
    BY <1>2, <2>3, <2>4 DEF Queued
<1> QED
  BY <1>1, <1>2

LEMMA PlaceTracked ==
    ASSUME Inv, NEW s \in Students, Place(s) PROVE Tracked'
<1> DEFINE u == uploads + 1
<1>1. /\ req[s].pc = "accepted" /\ req' = [req EXCEPT ![s].pc = "placed"]
      /\ uploads < MaxUploads /\ new' = [new EXCEPT ![s] = u]
      /\ team' = [team EXCEPT ![u] = req[s].team]
      /\ queue' = Enqueued(s)
      /\ lapsed' = IF worker.task = s THEN lapsed \cup ({req[s].to, worker.sub.id} \ {0})
                                      ELSE lapsed
      /\ UNCHANGED <<link, status, subs, made, done, worker>>
  BY DEF Place, tables
<1>2. /\ uploads \in Nat /\ u \in 1..MaxUploads
      /\ \A t \in Students : new[t] \in 0..uploads /\ req[t].to \in 0..MaxSubs
      /\ \A t \in Students : Pending(t) => req[t].to \in 1..made
      /\ \A id \in 1..made : \A g \in Places : done[g][id] \in 0..uploads
  BY <1>1, TypeFacts, Bounds DEF Inv
<1>3. /\ \A p \in Students : p # s => req'[p] = req[p]
      /\ req'[s] = [req[s] EXCEPT !.pc = "placed"] /\ req[s] \in Requests
  BY <1>1, TypeFacts DEF Inv, IInv, RequestsOK
<1>4. \A p \in Students :
         /\ req'[p].sub = req[p].sub /\ req'[p].to = req[p].to /\ req'[p].team = req[p].team
         /\ req'[p].rows = req[p].rows /\ req'[p].ready = req[p].ready
         /\ req'[p].gone = req[p].gone
         /\ req'[p].pc = IF p = s THEN "placed" ELSE req[p].pc
  BY <1>3 DEF Requests
<1>5. /\ \A p \in Students : /\ Pending(p)' <=> Pending(p)
                             /\ Fresh(p)' <=> Fresh(p)
      /\ Pending(s)
  BY <1>1, <1>4 DEF Pending, Fresh
<1>6. /\ new'[s] = u /\ \A t \in Students : t # s => new'[t] = new[t]
      /\ \A t \in Students : new'[t] = 0 => new[t] = 0
  BY <1>1, <1>2 DEF Inv, IInv, FilesOK
<1>7. /\ team'[u] = req[s].team
      /\ \A n \in 1..uploads : team'[n] = team[n]
      /\ \A n \in 0..uploads : n # 0 => team'[n] = team[n]
  BY <1>1, <1>2 DEF Inv, IInv, FilesOK
<1>8. /\ lapsed \subseteq lapsed'
      /\ worker.task = s => /\ req[s].to \in lapsed'
                            /\ worker.sub.id \in lapsed' \cup {0}
  <2>1. req[s].to # 0
    BY <1>2, <1>5
  <2> QED
    BY <1>1, <2>1
<1>9. /\ \A t : Queued(t)' => Queued(t) \/ (t = s /\ worker.task # s)
      /\ \A t : Queued(t) => Queued(t)'
      /\ worker.task # s => Queued(s)'
  BY <1>1, EnqueuedQueued DEF Inv
<1>10. \A id : ~Dead(id)' => ~Dead(id)
  BY <1>4, <1>5, <1>8 DEF Dead, Gone
<1> HIDE DEF u
<1>11. Readies'
  BY <1>1 DEF Inv, Tracked, Readies
<1>12. Locks'
  <2>1. \A p \in Students : Pending(p) => Locked(p)'
    BY <1>1, <1>4, <1>5 DEF Inv, Tracked, Locks, Locked
  <2> QED
    BY <1>4, <1>5, <2>1 DEF Inv, Tracked, Locks
<1>13. Reuses'
  <2>1. \A p \in Students : Pending(p) /\ ~Fresh(p) => ReusesOwn(p)'
    BY <1>1, <1>4, <1>5 DEF Inv, Tracked, Reuses, ReusesOwn
  <2> QED
    BY <1>5, <2>1 DEF Reuses
<1>14. Makes'
  <2>1. \A p \in Students : Pending(p) /\ Fresh(p) => Unknown(req[p].to)'
    BY <1>1, <1>4, <1>5 DEF Inv, Tracked, Makes, Unknown
  <2>2. \A p, q \in Students : (Pending(p)' /\ Pending(q)' /\ p # q /\ Fresh(p)')
                                  => req'[q].to # req'[p].to
    BY <1>4, <1>5 DEF Inv, Tracked, Makes
  <2> QED
    BY <1>1, <1>5, <2>1, <2>2 DEF Inv, Tracked, Makes
<1>15. Empties'
  BY <1>1, <1>4, <1>5, <1>8 DEF Inv, Tracked, Empties
<1>16. HasFiles'
  BY <1>1, <1>6, <1>9, <1>2 DEF Inv, IInv, JobsOK, Tracked, HasFiles
<1>17. PlacedWaits'
  <2> SUFFICES ASSUME NEW p \in Students, req'[p].pc = "placed", req'[p].to \notin lapsed'
               PROVE  Queued(p)' /\ team'[new'[p]] = req'[p].team
    BY DEF PlacedWaits
  <2>1. CASE p = s
    BY <1>4, <1>6, <1>7, <1>8, <1>9, <2>1
  <2>2. CASE p # s
    <3>1. Queued(p) /\ team[new[p]] = req[p].team
      BY <1>4, <1>8, <2>2 DEF Inv, Tracked, PlacedWaits
    <3>2. new[p] # 0
      BY <3>1 DEF Inv, Tracked, HasFiles
    <3> QED
      BY <1>2, <1>4, <1>6, <1>7, <1>9, <2>2, <3>1, <3>2
  <2> QED
    BY <2>1, <2>2
<1>18. Leaves'
  <2> SUFFICES ASSUME NEW p \in Students, Pending(p)', Fresh(p)', req'[p].sub.id # 0,
                      (~Dead(req[p].sub.id))', req'[p].sub.by = subs'[req'[p].sub.id].by,
                      NEW t \in req'[p].rows, link'[t] = req'[p].sub.id
               PROVE  DoneOf(req[p].sub.id)' # 0
    BY DEF Leaves
  <2>1. DoneOf(req[p].sub.id) # 0
    BY <1>1, <1>4, <1>5, <1>10 DEF Inv, Tracked, Leaves
  <2> QED
    BY <1>1, <1>4, <2>1 DEF DoneOf
<1>19. Works'
  <2> SUFFICES ASSUME NEW id \in 1..made, ~Dead(id)', NEW t \in Students, link[t] = id
               PROVE  DoneOf(id)' # 0 \/ Coming(id)'
    BY <1>1 DEF Works
  <2>1. DoneOf(id) # 0 \/ Coming(id)
    BY <1>10 DEF Inv, Tracked, Works
  <2>2. Coming(id) => Coming(id)'
    BY <1>1, <1>9 DEF Coming, AtWork
  <2> QED
    BY <1>1, <2>1, <2>2 DEF DoneOf
<1>20. Remembers'
  <2>1. \A p \in Students : req'[p].pc # "idle" => req[p].pc # "idle"
    BY <1>1, <1>4
  <2> QED
    BY <1>1, <1>4, <1>8, <2>1 DEF Inv, Tracked, Remembers
<1>21. OwnFiles'
  <2> SUFFICES ASSUME NEW id \in 1..made, NEW b \in Students, id \notin lapsed',
                      subs[id].by = b, link[b] = id, new'[b] # 0,
                      ~(req'[b].pc = "placed" /\ req'[b].to # id),
                      NEW t \in Students, link[t] = id
               PROVE  t \in team'[new'[b]]
    BY <1>1 DEF OwnFiles
  <2>1. CASE b = s
    <3>1. req[s].to = id
      BY <1>4, <2>1
    <3>2. ~Fresh(s)
      BY <1>5, <2>1, <3>1 DEF Inv, Tracked, Makes, Unknown
    <3>3. t \in req[s].team
      BY <1>5, <3>1, <3>2 DEF Inv, Tracked, Reuses, ReusesOwn
    <3> QED
      BY <1>6, <1>7, <2>1, <3>3
  <2>2. CASE b # s
    <3>1. new'[b] = new[b] /\ new[b] \in 0..uploads /\ req'[b] = req[b]
      BY <1>2, <1>3, <1>6, <2>2
    <3>2. t \in team[new[b]]
      BY <1>8, <3>1 DEF Inv, Tracked, OwnFiles
    <3> QED
      BY <1>7, <3>1, <3>2
  <2> QED
    BY <2>1, <2>2
<1>22. OwnJob'
  <2> SUFFICES ASSUME worker.at = "begun", worker.sub.by = worker.task,
                      worker.sub.id \notin lapsed' \cup {0},
                      link[worker.task] = worker.sub.id,
                      NEW t \in Students, link[t] = worker.sub.id
               PROVE  t \in team'[new'[worker.task]]
    BY <1>1 DEF OwnJob
  <2>1. worker.task \in Students /\ worker.task # s
    BY <1>8 DEF Inv, IInv, JobsOK
  <2>2. t \in team[new[worker.task]] /\ new[worker.task] # 0
    BY <1>8 DEF Inv, Tracked, OwnJob, HasFiles
  <2> QED
    BY <1>2, <1>6, <1>7, <2>1, <2>2
<1>23. OwnZips'
  <2> SUFFICES ASSUME NEW id \in 1..made, NEW g \in Places, id \notin lapsed',
                      done[g][id] # 0, NEW t \in Students, link[t] = id
               PROVE  t \in team'[done[g][id]]
    BY <1>1 DEF OwnZips
  <2>1. t \in team[done[g][id]]
    BY <1>8 DEF Inv, Tracked, OwnZips
  <2> QED
    BY <1>2, <1>7, <2>1
<1> QED
  BY <1>11, <1>12, <1>13, <1>14, <1>15, <1>16, <1>17, <1>18, <1>19, <1>20, <1>21, <1>22, <1>23
     DEF Tracked

LEMMA CommitTracked ==
    ASSUME Inv, NEW s \in Students, Commit(s) PROVE Tracked'
<1> DEFINE r == req[s]
           to == r.to
           old == r.sub.id
           row == Written(s, r, subs[to])
<1>1. /\ r.pc = "placed" /\ req' = [req EXCEPT ![s] = NoRequest]
      /\ subs' = [subs EXCEPT ![to] = row]
      /\ link' = [t \in Students |-> IF t \in r.rows THEN to ELSE link[t]]
      /\ status' = [t \in Students |-> IF t \in r.ready THEN "ready" ELSE status[t]]
      /\ lapsed' = lapsed \cup ({link[t] : t \in r.rows} \ {old, to})
                          \cup (IF s \in r.rows THEN {} ELSE {to, link[s]} \ {0})
                          \cup (IF Overtaken(r) THEN {old} ELSE {})
      /\ UNCHANGED <<made, done, new, queue, worker, team>>
  BY DEF Commit, files, jobs
<1>2. /\ made \in Nat
      /\ \A t \in Students : /\ link[t] \in 0..made /\ (link[t] # 0 => link[t] \in 1..made)
                             /\ req[t].sub.id \in 0..made
                             /\ Pending(t) => req[t].to \in 1..made
                             /\ req[t].rows \subseteq Students
      /\ \A id \in 1..made : id \in Ids
  BY TypeFacts, RequestFacts DEF Inv
<1>3. Pending(s) /\ to \in 1..made /\ to # 0 /\ old \in 0..made /\ r.rows \subseteq Students
  BY <1>1, <1>2 DEF Pending
<1>4. /\ Locked(s) /\ r.ready = r.rows
      /\ \A t \in r.rows : status[t] # "closed" /\ t \in r.team
      /\ Fresh(s) <=> to # old
      /\ Fresh(s) => Unknown(to)
      /\ to = old => ReusesOwn(s)
      /\ r.gone \in {0, old} /\ (r.gone # 0 => to # old)
  BY <1>3 DEF Inv, Tracked, Locks, Locked, Reuses, Makes, Fresh
<1>5. /\ row.by = s \/ (row.by = subs[to].by /\ to = old /\ r.sub.by = s)
      /\ subs'[to] = row
      /\ \A id \in 1..made : id # to => subs'[id] = subs[id]
  BY <1>1, <1>2, <1>3 DEF Written, Inv, IInv, TablesOK
<1>6. /\ \A t \in Students : link'[t] = IF t \in r.rows THEN to ELSE link[t]
      /\ \A t \in Students : status'[t] = IF t \in r.rows THEN "ready" ELSE status[t]
  BY <1>1, <1>4
<1>7. /\ lapsed \subseteq lapsed'
      /\ \A t \in r.rows : link[t] \in {old, to} \cup lapsed'
      /\ s \notin r.rows => to \in lapsed' /\ link[s] \in lapsed' \cup {0}
      /\ (/\ old # 0 /\ old \notin lapsed' /\ r.sub.by # subs[old].by)
            => done[subs'[old].group][old] # 0
  BY <1>1, <1>3 DEF Overtaken
<1>8. /\ \A p \in Students : Pending(p)' => p # s
      /\ \A p \in Students : p # s => /\ req'[p] = req[p] /\ (Pending(p)' <=> Pending(p))
                                      /\ (Fresh(p)' <=> Fresh(p))
      /\ req'[s] = NoRequest /\ NoRequest.pc = "idle" /\ NoRequest.sub.id = 0
  <2>1. req'[s] = NoRequest /\ \A p \in Students : p # s => req'[p] = req[p]
    BY <1>1 DEF Inv, IInv, RequestsOK
  <2>2. NoRequest.pc = "idle" /\ NoRequest.sub.id = 0
    BY DEF NoRequest, NoSub
  <2> QED
    BY <2>1, <2>2 DEF Pending, Fresh
<1>9. s \in r.rows => to \in lapsed \/ (Queued(s) /\ team[new[s]] = r.team)
  BY <1>1 DEF Inv, Tracked, PlacedWaits
<1> HIDE DEF row, to, old
\* Who is linked to what: only the group submission that is made gains tasks.
<1>10. /\ \A id \in 1..made, t \in Students : id # to /\ link'[t] = id
             => link[t] = id /\ t \notin r.rows
       /\ to = old => \A t \in Students : link'[t] = to <=> link[t] = to
       /\ to # old => \A t \in Students : link'[t] = to => t \in r.rows
       /\ \A id \in 1..made, t \in Students :
             id \notin {to, old} /\ id \notin lapsed' /\ link[t] = id => link'[t] = id
  <2>1. to = old => \A t \in r.rows : link[t] = to
    BY <1>4 DEF ReusesOwn, to
  <2>2. to # old => \A t \in Students : link[t] # to
    BY <1>4 DEF Unknown
  <2> QED
    BY <1>3, <1>6, <1>7, <2>1, <2>2
\* What is said of one that gains none holds of fewer tasks.
<1>11. ASSUME NEW id \in 1..made, id # to \/ to = old, NEW t \in Students, link'[t] = id
       PROVE  link[t] = id
  BY <1>10, <1>11
<1>12. \A id \in 1..made : (id = r.gone /\ id \notin lapsed) => \A t \in Students : link'[t] # id
  <2> SUFFICES ASSUME NEW id \in 1..made, id = r.gone, id \notin lapsed,
                      NEW t \in Students, link'[t] = id
               PROVE  FALSE
    OBVIOUS
  <2>1. id # to /\ id # 0
    BY <1>4
  <2>2. link[t] = id /\ t \notin r.rows
    BY <1>10, <2>1
  <2> QED
    BY <1>3, <2>1, <2>2 DEF Inv, Tracked, Empties
<1>13. \A id : ~Dead(id)' => id \notin lapsed' /\ id \notin lapsed /\ (~Dead(id) \/ id = r.gone)
  <2> SUFFICES ASSUME NEW id, ~Dead(id)', Dead(id) PROVE id = r.gone
    BY <1>7 DEF Dead
  <2>1. PICK p \in Students : Pending(p) /\ req[p].gone = id
    BY <1>7 DEF Dead, Gone
  <2>2. p = s
    BY <1>8, <2>1 DEF Dead, Gone
  <2> QED
    BY <2>1, <2>2
<1>14. \A t : Queued(t)' <=> Queued(t)
  BY <1>1 DEF Queued
<1>15. \A q \in Students : Pending(q) /\ q # s =>
          /\ Locked(q) /\ (~Fresh(q) => ReusesOwn(q)) /\ (Fresh(q) => Unknown(req[q].to))
          /\ \A t \in req[q].rows : t \in Students /\ t \notin r.rows
          /\ Fresh(q) => to # req[q].to
          /\ Fresh(s) => req[q].sub.id # to /\ req[q].to # to
          /\ req[q].to \in 1..made
  BY <1>2, <1>3, <1>4 DEF Inv, Tracked, Locks, Reuses, Makes, Unknown, to
<1>16. Readies'
  BY <1>3, <1>6 DEF Inv, Tracked, Readies
<1>17. Locks'
  <2>1. \A q \in Students : Pending(q) /\ q # s => Locked(q)'
    BY <1>6, <1>8, <1>15 DEF Locked
  <2> QED
    BY <1>8, <2>1 DEF Inv, Tracked, Locks
<1>18. Reuses'
  <2> SUFFICES ASSUME NEW q \in Students, q # s, Pending(q), ~Fresh(q) PROVE ReusesOwn(q)'
    BY <1>8 DEF Reuses
  <2>1. ReusesOwn(q) /\ req'[q] = req[q]
    BY <1>8, <1>15
  <2>2. req[q].to # to \/ to = old
    BY <1>4, <1>15
  <2>3. \A t \in Students : link'[t] = req[q].to => link[t] = req[q].to
    BY <1>11, <1>15, <2>2
  <2>4. \A t \in req[q].rows : link'[t] = req[q].to
    BY <1>6, <1>15, <2>1 DEF ReusesOwn
  <2>5. \A t \in Students : status[t] = "closed" => status'[t] = "closed"
    BY <1>4, <1>6
  <2> QED
    BY <2>1, <2>3, <2>4, <2>5 DEF ReusesOwn
<1>19. Makes'
  <2>1. ASSUME NEW q \in Students, q # s, Pending(q), Fresh(q) PROVE Unknown(req[q].to)'
    <3>1. Unknown(req[q].to) /\ req[q].to \in 1..made /\ to # req[q].to /\ req'[q] = req[q]
      BY <1>8, <1>15, <2>1
    <3>2. \A t \in Students : link'[t] # req[q].to /\ req'[t].sub.id # req[q].to
      BY <1>2, <1>8, <1>10, <3>1 DEF Unknown
    <3> QED
      BY <1>1, <3>1, <3>2 DEF Unknown
  <2>2. \A p, q \in Students : (Pending(p)' /\ Pending(q)' /\ p # q /\ Fresh(p)')
                                  => req'[q].to # req'[p].to
    BY <1>8 DEF Inv, Tracked, Makes
  <2> QED
    BY <1>1, <1>8, <2>1, <2>2 DEF Inv, Tracked, Makes
<1>20. Empties'
  <2> SUFFICES ASSUME NEW q \in Students, q # s, Pending(q), req[q].gone \notin lapsed' \cup {0},
                      NEW t \in Students, link'[t] = req[q].gone
               PROVE  t \in req[q].rows
    BY <1>8 DEF Empties
  <2>1. req[q].gone \in 1..made /\ req[q].gone = req[q].sub.id
    BY <1>2, <1>15 DEF Locked
  <2>2. req[q].gone # to \/ to = old
    BY <1>4, <1>15, <2>1
  <2>3. link[t] = req[q].gone
    BY <1>11, <2>1, <2>2
  <2> QED
    BY <1>7, <2>3 DEF Inv, Tracked, Empties
<1>21. HasFiles'
  BY <1>1, <1>14 DEF Inv, Tracked, HasFiles
<1>22. PlacedWaits'
  <2> SUFFICES ASSUME NEW p \in Students, req'[p].pc = "placed", req'[p].to \notin lapsed'
               PROVE  Queued(p)' /\ team'[new'[p]] = req'[p].team
    BY DEF PlacedWaits
  <2>1. req'[p] = req[p]
    BY <1>8
  <2> QED
    BY <1>1, <1>7, <1>14, <2>1 DEF Inv, Tracked, PlacedWaits
<1>23. Leaves'
  <2> SUFFICES ASSUME NEW q \in Students, q # s, Pending(q), Fresh(q), req[q].sub.id # 0,
                      (~Dead(req[q].sub.id))', req[q].sub.by = subs'[req[q].sub.id].by,
                      NEW t \in req[q].rows, link'[t] = req[q].sub.id
               PROVE  DoneOf(req[q].sub.id)' # 0
    BY <1>8 DEF Leaves
  <2> DEFINE id == req[q].sub.id
  <2>1. id \in 1..made /\ t \in Students /\ t \notin r.rows /\ req'[q] = req[q]
    BY <1>2, <1>8, <1>15
  <2>2. id \notin lapsed' /\ id \notin lapsed /\ (~Dead(id) \/ id = r.gone)
    BY <1>8, <1>13
  <2>3. ~Dead(id)
    BY <1>12, <2>1, <2>2
  <2>4. link[t] = id
    BY <1>6, <2>1
  <2>5. CASE id # to
    <3>1. subs'[id] = subs[id]
      BY <1>5, <2>1, <2>5
    <3>2. DoneOf(id) # 0
      BY <2>3, <2>4, <3>1 DEF Inv, Tracked, Leaves
    <3> QED
      BY <1>1, <2>1, <3>1, <3>2 DEF DoneOf
  <2>6. CASE id = to
    <3>1. ReusesOwn(s) /\ s \in r.rows
      BY <1>4, <1>7, <1>15, <2>2, <2>6
    <3>2. status[t] = "closed"
      BY <2>1, <2>4, <2>6, <3>1 DEF ReusesOwn, to
    <3> QED
      BY <1>15, <3>2 DEF Locked
  <2> QED
    BY <2>5, <2>6
<1>24. Works'
  <2> SUFFICES ASSUME NEW id \in 1..made, ~Dead(id)', NEW t \in Students, link'[t] = id
               PROVE  DoneOf(id)' # 0 \/ Coming(id)'
    BY <1>1 DEF Works
  <2>1. id \notin lapsed' /\ id \notin lapsed
    BY <1>13
  <2>2. ~Dead(id)
    BY <1>12, <1>13
  <2>3. CASE id = to
    <3>1. s \in r.rows /\ Queued(s) /\ link'[s] = id
      BY <1>6, <1>7, <1>9, <2>1, <2>3
    <3>2. CASE row.by = s
      BY <1>5, <1>14, <2>3, <3>1, <3>2 DEF Coming
    <3>3. CASE row.by # s
      <4>1. to = old /\ r.sub.by # subs[old].by
        BY <1>5, <3>3
      <4>2. done[subs'[to].group][to] # 0
        BY <1>3, <1>7, <2>1, <2>3, <4>1
      <4> QED
        BY <1>1, <2>3, <4>2 DEF DoneOf
    <3> QED
      BY <3>2, <3>3
  <2>4. CASE id # to
    <3>1. subs'[id] = subs[id] /\ link[t] = id
      BY <1>5, <1>10, <2>4
    <3>2. DoneOf(id) # 0 \/ Coming(id)
      BY <2>2, <3>1 DEF Inv, Tracked, Works
    <3>3. CASE DoneOf(id) # 0
      BY <1>1, <3>1, <3>3 DEF DoneOf
    <3>4. CASE Coming(id)
      <4>1. PICK b \in Students : subs[id].by = b /\ link[b] = id /\ (Queued(b) \/ AtWork(id))
        BY <3>4 DEF Coming
      <4>2. Queued(b)' \/ AtWork(id)'
        BY <1>1, <1>14, <3>1, <4>1 DEF AtWork
      <4>3. CASE link'[b] = id
        BY <3>1, <4>1, <4>2, <4>3 DEF Coming
      <4>4. CASE link'[b] # id
        <5>1. b \in r.rows /\ id = old /\ old # 0
          BY <1>6, <1>10, <2>1, <2>4, <4>1, <4>4
        <5>2. CASE r.sub.by = subs[old].by
          <6>1. DoneOf(old) # 0
            BY <1>3, <1>4, <2>2, <2>4, <4>1, <5>1, <5>2 DEF Inv, Tracked, Leaves, old, to
          <6> QED
            BY <1>1, <3>1, <5>1, <6>1 DEF DoneOf
        <5>3. CASE r.sub.by # subs[old].by
          BY <1>1, <1>7, <2>1, <5>1, <5>3 DEF DoneOf
        <5> QED
          BY <5>2, <5>3
      <4> QED
        BY <4>3, <4>4
    <3> QED
      BY <3>2, <3>3, <3>4
  <2> QED
    BY <2>3, <2>4
<1>25. Remembers'
  <2> SUFFICES ASSUME NEW p \in Students, req'[p].pc # "idle", link'[p] \notin lapsed' \cup {0},
                      subs'[link'[p]].by = p
               PROVE  req'[p].sub.id = link'[p]
    BY DEF Remembers
  <2>1. p # s /\ req'[p] = req[p]
    BY <1>8
  <2>2. link'[p] \in 1..made
    BY <1>2, <1>3, <1>6
  <2>3. CASE link'[p] = to
    <3>1. row.by = p
      BY <1>5, <2>3
    <3>2. to = old /\ row.by = subs[to].by
      BY <1>5, <2>1, <3>1
    <3>3. link[p] = to
      BY <1>10, <2>3, <3>2
    <3> QED
      BY <1>7, <2>1, <2>3, <3>1, <3>2, <3>3 DEF Inv, Tracked, Remembers
  <2>4. CASE link'[p] # to
    <3>1. link[p] = link'[p] /\ subs'[link'[p]] = subs[link'[p]]
      BY <1>5, <1>10, <2>2, <2>4
    <3> QED
      BY <1>7, <2>1, <3>1 DEF Inv, Tracked, Remembers
  <2> QED
    BY <2>3, <2>4
<1>26. OwnFiles'
  <2> SUFFICES ASSUME NEW id \in 1..made, NEW b \in Students, id \notin lapsed',
                      subs'[id].by = b, link'[b] = id, new[b] # 0,
                      ~(req'[b].pc = "placed" /\ req'[b].to # id),
                      NEW t \in Students, link'[t] = id
               PROVE  t \in team[new[b]]
    BY <1>1 DEF OwnFiles
  <2>1. id \notin lapsed
    BY <1>7
  <2>2. CASE id = to /\ b = s
    <3>1. team[new[s]] = r.team
      BY <1>7, <1>9, <2>1, <2>2
    <3>2. t \in r.team
      <4>1. CASE to = old
        <5>1. link[t] = to
          BY <1>10, <2>2, <4>1
        <5> QED
          BY <1>4, <4>1, <5>1 DEF ReusesOwn, to
      <4>2. CASE to # old
        BY <1>4, <1>10, <2>2, <4>2
      <4> QED
        BY <4>1, <4>2
    <3> QED
      BY <2>2, <3>1, <3>2
  <2>3. CASE b # s
    <3>1. id = to => to = old /\ subs[to].by = b
      BY <1>5, <2>3
    <3>2. subs[id].by = b /\ link[b] = id /\ link[t] = id
      BY <1>5, <1>11, <3>1
    <3>3. req'[b] = req[b]
      BY <1>8, <2>3
    <3> QED
      BY <2>1, <3>2, <3>3 DEF Inv, Tracked, OwnFiles
  <2>4. CASE id # to /\ b = s
    <3>1. s \notin r.rows /\ link[s] = id /\ id # 0
      BY <1>10, <2>4
    <3> QED
      BY <1>7, <3>1
  <2> QED
    BY <2>2, <2>3, <2>4
<1>27. OwnJob'
  <2> SUFFICES ASSUME worker.at = "begun", worker.sub.by = worker.task,
                      worker.sub.id \notin lapsed' \cup {0},
                      link'[worker.task] = worker.sub.id,
                      NEW t \in Students, link'[t] = worker.sub.id
               PROVE  t \in team[new[worker.task]]
    BY <1>1 DEF OwnJob
  <2>1. worker.task \in Students /\ worker.sub.id \in 1..made
    BY <1>2 DEF Inv, IInv, JobsOK, Tracked, HasFiles
  <2>2. worker.sub.id # to \/ to = old
    BY <1>4 DEF Unknown
  <2>3. link[worker.task] = worker.sub.id /\ link[t] = worker.sub.id
    BY <1>11, <2>1, <2>2
  <2> QED
    BY <1>7, <2>3 DEF Inv, Tracked, OwnJob
<1>28. OwnZips'
  <2> SUFFICES ASSUME NEW id \in 1..made, NEW g \in Places, id \notin lapsed',
                      done[g][id] # 0, NEW t \in Students, link'[t] = id
               PROVE  t \in team[done[g][id]]
    BY <1>1 DEF OwnZips
  <2>1. id # to \/ to = old
    BY <1>4 DEF Unknown
  <2>2. link[t] = id
    BY <1>11, <2>1
  <2> QED
    BY <1>7, <2>2 DEF Inv, Tracked, OwnZips
<1> QED
  BY <1>16, <1>17, <1>18, <1>19, <1>20, <1>21, <1>22, <1>23, <1>24, <1>25, <1>26, <1>27, <1>28
     DEF Tracked

-------------------------------------------------------------------------------
(* The worker's steps                                                       *)

LEMMA BeginTracked == ASSUME Inv, Begin PROVE Tracked'
<1> DEFINE s == Head(queue)
<1>1. /\ worker.at = "rest" /\ queue # <<>> /\ queue' = Tail(queue)
      /\ worker' = [at |-> "begun", task |-> s, sub |-> SubOf(s)]
      /\ lapsed' = IF Pending(s) THEN lapsed \cup ({req[s].to, link[s]} \ {0}) ELSE lapsed
      /\ UNCHANGED <<link, status, subs, made, done, new, req, team>>
  BY DEF Begin, tables, files
<1>2. /\ s \in Students
      /\ \A i \in DOMAIN Tail(queue) : Tail(queue)[i] # s
      /\ \A i \in DOMAIN queue : \/ queue[i] = s
                                 \/ \E k \in DOMAIN Tail(queue) : Tail(queue)[k] = queue[i]
      /\ \A k \in DOMAIN Tail(queue) : \E i \in DOMAIN queue : Tail(queue)[k] = queue[i]
      /\ \E i \in DOMAIN queue : queue[i] = s
  <2>1. queue \in Seq(Students) /\ \A i, k \in DOMAIN queue : queue[i] = queue[k] => i = k
    BY DEF Inv, IInv, JobsOK
  <2>2. 1 \in DOMAIN queue /\ queue[1] = s
    BY <1>1, <2>1, HeadTailProperties
  <2> QED
    BY <1>1, <2>1, <2>2, TailUnique
<1> HIDE DEF s
<1>3. /\ \A t : Queued(t)' => Queued(t) /\ t # s
      /\ \A t : Queued(t) /\ t # s => Queued(t)'
      /\ Queued(s)
  BY <1>1, <1>2 DEF Queued
<1>4. /\ worker'.at = "begun" /\ worker'.task = s /\ worker'.sub = SubOf(s)
      /\ SubOf(s).id = link[s] /\ link[s] \in 0..made
      /\ link[s] # 0 => /\ SubOf(s).group = subs[link[s]].group
                        /\ SubOf(s).by = subs[link[s]].by /\ link[s] \in 1..made
  <2>1. SubOf(s).id = link[s] /\ link[s] \in 0..made /\ (link[s] # 0 => link[s] \in 1..made)
    BY <1>2, SubOfType, TypeFacts DEF Inv, IInv
  <2>2. link[s] # 0 => SubOf(s).group = subs[link[s]].group /\ SubOf(s).by = subs[link[s]].by
    BY DEF SubOf
  <2> QED
    BY <1>1, <2>1, <2>2
<1>5. /\ lapsed \subseteq lapsed'
      /\ Pending(s) => req[s].to \in lapsed' /\ link[s] \in lapsed' \cup {0}
  <2>1. Pending(s) => req[s].to # 0
    BY <1>2, TypeFacts DEF Inv
  <2> QED
    BY <1>1, <2>1
<1>6. \A p : /\ Pending(p)' <=> Pending(p)
             /\ Fresh(p)' <=> Fresh(p)
  BY <1>1 DEF Pending, Fresh
<1>7. \A id : ~Dead(id)' => ~Dead(id) /\ id \notin lapsed'
  BY <1>1, <1>5, <1>6 DEF Dead, Gone
<1>8. Readies' /\ Locks' /\ Reuses' /\ Empties' /\ Remembers'
  <2>1. Readies' /\ Locks'
    BY <1>1, <1>6 DEF Inv, Tracked, Readies, Locks, Locked
  <2>2. Reuses'
    BY <1>1, <1>6 DEF Inv, Tracked, Reuses, ReusesOwn
  <2>3. Empties' /\ Remembers'
    BY <1>1, <1>5, <1>6 DEF Inv, Tracked, Empties, Remembers
  <2> QED
    BY <2>1, <2>2, <2>3
<1>9. Makes'
  <2>1. ASSUME NEW p \in Students, Pending(p), Fresh(p) PROVE Unknown(req[p].to)'
    <3>1. Unknown(req[p].to)
      BY <2>1 DEF Inv, Tracked, Makes
    <3> QED
      BY <1>1, <1>2, <1>4, <3>1 DEF Unknown
  <2> QED
    BY <1>1, <1>6, <2>1 DEF Inv, Tracked, Makes
<1>10. HasFiles'
  <2>1. new[s] # 0
    BY <1>2, <1>3 DEF Inv, Tracked, HasFiles
  <2> QED
    BY <1>1, <1>3, <1>4, <2>1 DEF Inv, Tracked, HasFiles
<1>11. PlacedWaits'
  <2> SUFFICES ASSUME NEW p \in Students, req[p].pc = "placed", req[p].to \notin lapsed'
               PROVE  Queued(p)' /\ team[new[p]] = req[p].team
    BY <1>1 DEF PlacedWaits
  <2>1. p # s
    BY <1>5 DEF Pending
  <2> QED
    BY <1>3, <1>5, <2>1 DEF Inv, Tracked, PlacedWaits
<1>12. Leaves'
  <2> SUFFICES ASSUME NEW p \in Students, Pending(p), Fresh(p), req[p].sub.id # 0,
                      (~Dead(req[p].sub.id))', req[p].sub.by = subs[req[p].sub.id].by,
                      NEW t \in req[p].rows, link[t] = req[p].sub.id
               PROVE  DoneOf(req[p].sub.id)' # 0
    BY <1>1, <1>6 DEF Leaves
  <2>1. ~Dead(req[p].sub.id)
    BY <1>1, <1>7
  <2>2. DoneOf(req[p].sub.id) # 0
    BY <2>1 DEF Inv, Tracked, Leaves
  <2> QED
    BY <1>1, <2>2 DEF DoneOf
<1>13. Works'
  <2> SUFFICES ASSUME NEW id \in 1..made, ~Dead(id)', NEW t \in Students, link[t] = id
               PROVE  DoneOf(id)' # 0 \/ Coming(id)'
    BY <1>1 DEF Works
  <2>1. DoneOf(id) # 0 \/ Coming(id)
    BY <1>7 DEF Inv, Tracked, Works
  <2>2. ASSUME Coming(id) PROVE Coming(id)'
    <3>1. PICK b \in Students : subs[id].by = b /\ link[b] = id /\ (Queued(b) \/ AtWork(id))
      BY <2>2 DEF Coming
    <3>2. Queued(b)
      BY <1>1, <3>1 DEF AtWork
    <3>3. Queued(b)' \/ AtWork(id)'
      BY <1>1, <1>3, <1>4, <3>1, <3>2 DEF AtWork
    <3> QED
      BY <1>1, <3>1, <3>3 DEF Coming
  <2> QED
    BY <1>1, <2>1, <2>2 DEF DoneOf
<1>14. OwnFiles' /\ OwnZips'
  BY <1>1, <1>5 DEF Inv, Tracked, OwnFiles, OwnZips
<1>15. OwnJob'
  <2> SUFFICES ASSUME worker'.sub.by = s, link[s] \notin lapsed' \cup {0},
                      NEW t \in Students, link[t] = link[s]
               PROVE  t \in team[new[s]]
    BY <1>1, <1>4 DEF OwnJob
  <2>1. link[s] \in 1..made /\ subs[link[s]].by = s /\ link[s] \notin lapsed
    BY <1>4, <1>5
  <2>2. req[s].pc # "placed"
    BY <1>5 DEF Pending
  <2>3. new[s] # 0
    BY <1>2, <1>3 DEF Inv, Tracked, HasFiles
  <2> QED
    BY <1>2, <2>1, <2>2, <2>3 DEF Inv, Tracked, OwnFiles
<1> QED
  BY <1>8, <1>9, <1>10, <1>11, <1>12, <1>13, <1>14, <1>15 DEF Tracked

\* The one who is the submitter of what his job has loaded is linked to it, and
\* who handed it in and is linked is the submitter.
LEMMA SubmitterLinked ==
    ASSUME NEW s \in Students, NEW sub
    PROVE  /\ IsSubmitter(s, sub) => sub.id # 0 /\ link[s] = sub.id
           /\ sub.id # 0 /\ sub.by = s /\ link[s] = sub.id => IsSubmitter(s, sub)
<1>1. Linked(link, sub.id) \subseteq Students
      /\ \A t \in Students : t \in Linked(link, sub.id) <=> link[t] = sub.id
  BY DEF Linked
<1>2. ASSUME IsSubmitter(s, sub) PROVE sub.id # 0 /\ link[s] = sub.id
  <2> DEFINE linked == Linked(link, sub.id)
  <2>1. SubmitterTask(sub) = {s}
    BY <1>2 DEF IsSubmitter
  <2>2. sub.id # 0 /\ linked # {}
    BY <2>1 DEF SubmitterTask
  <2>3. s \in linked
    <3>1. CASE sub.by \in linked
      BY <2>1, <2>2, <3>1 DEF SubmitterTask
    <3>2. CASE sub.by \notin linked
      <4>1. SubmitterTask(sub) = {CHOOSE t \in linked : TRUE}
        BY <2>2, <3>2 DEF SubmitterTask
      <4>2. (CHOOSE t \in linked : TRUE) \in linked
        BY <2>2
      <4> QED
        BY <2>1, <4>1, <4>2
    <3> QED
      BY <3>1, <3>2
  <2> QED
    BY <1>1, <2>2, <2>3
<1>3. ASSUME sub.id # 0, sub.by = s, link[s] = sub.id PROVE IsSubmitter(s, sub)
  <2>1. s \in Linked(link, sub.id)
    BY <1>1, <1>3
  <2> QED
    BY <1>3, <2>1 DEF IsSubmitter, SubmitterTask
<1> QED
  BY <1>2, <1>3

\* A job that has looked at its files: they are gone from the folder they
\* waited in, or the job failed and has none.
Looked(s) ==
    /\ worker.at = "begun" /\ s = worker.task /\ lapsed \subseteq lapsed'
    /\ new' = new \/ new' = [new EXCEPT ![s] = 0]
    /\ worker'.at # "begun" /\ worker'.sub.id \in {0, worker.sub.id}
    /\ worker'.task \in {s, "none"}
    /\ UNCHANGED <<link, status, subs, made, queue, req, team>>

LEMMA LookedTracked ==
    ASSUME Inv, NEW s \in Students, Looked(s),
           done' = done \/ (/\ worker.sub.id \in 1..made /\ new[s] # 0
                            /\ link[s] = worker.sub.id
                            /\ done' = [done EXCEPT ![worker.sub.group][worker.sub.id] = new[s]]
                            /\ worker.sub.by = s \/ worker.sub.id \in lapsed'),
           \A id \in 1..made : AtWork(id) /\ link[s] = id /\ id \notin lapsed' => DoneOf(id)' # 0
    PROVE  Tracked'
<1>1. /\ worker.at = "begun" /\ s = worker.task /\ lapsed \subseteq lapsed'
      /\ new' = new \/ new' = [new EXCEPT ![s] = 0]
      /\ worker'.at # "begun" /\ worker'.sub.id \in {0, worker.sub.id}
      /\ worker'.task \in {s, "none"}
      /\ link' = link /\ status' = status /\ subs' = subs /\ made' = made /\ queue' = queue
      /\ req' = req /\ team' = team
  BY DEF Looked
<1>2. /\ made \in Nat
      /\ \A id \in 1..made : /\ id \in Ids /\ subs[id].group \in Places
      /\ \A t \in Students : Pending(t) => req[t].to \in 1..made
      /\ worker.sub.group \in Places /\ new[s] \in 0..uploads
      /\ \A t \in Students : t # s => new'[t] = new[t]
      /\ new'[s] = new[s] \/ new'[s] = 0
  BY <1>1, TypeFacts DEF Inv, IInv, FilesOK
\* The zip of another group submission stays, and none is lost.
<1>3. /\ \A g \in Places, id \in Ids :
            \/ done'[g][id] = done[g][id]
            \/ /\ id = worker.sub.id /\ id \in 1..made /\ done'[g][id] = new[s] /\ new[s] # 0
               /\ link[s] = id /\ (worker.sub.by = s \/ id \in lapsed')
      /\ \A id \in 1..made : DoneOf(id) # 0 => DoneOf(id)' # 0
  <2>1. \A g \in Places, id \in Ids :
            \/ done'[g][id] = done[g][id]
            \/ /\ id = worker.sub.id /\ id \in 1..made /\ done'[g][id] = new[s] /\ new[s] # 0
               /\ link[s] = id /\ (worker.sub.by = s \/ id \in lapsed')
    <3>1. CASE done' = done
      BY <3>1
    <3>2. CASE done' # done
      BY <1>2, <3>2, DoneUpdate DEF Inv, IInv
    <3> QED
      BY <3>1, <3>2
  <2>2. ASSUME NEW id \in 1..made, DoneOf(id) # 0 PROVE DoneOf(id)' # 0
    <3>1. id \in Ids /\ subs[id].group \in Places
      BY <1>2
    <3> QED
      BY <1>1, <2>1, <2>2, <3>1 DEF DoneOf
  <2> QED
    BY <2>1, <2>2
<1>4. \A t \in Students : Queued(t) => t # s /\ new'[t] = new[t]
  BY <1>1, <1>2 DEF Inv, Tracked, HasFiles
<1>5. \A p : /\ Pending(p)' <=> Pending(p)
             /\ Fresh(p)' <=> Fresh(p)
             /\ Queued(p)' <=> Queued(p)
             /\ Dead(p)' => Dead(p) \/ p \in lapsed'
             /\ ~Dead(p)' => ~Dead(p) /\ p \notin lapsed'
  BY <1>1 DEF Pending, Fresh, Queued, Dead, Gone
<1>6. Readies' /\ Locks' /\ Reuses' /\ Empties' /\ Remembers'
  <2>1. Readies' /\ Locks'
    BY <1>1, <1>5 DEF Inv, Tracked, Readies, Locks, Locked
  <2>2. Reuses'
    BY <1>1, <1>5 DEF Inv, Tracked, Reuses, ReusesOwn
  <2>3. Empties' /\ Remembers'
    BY <1>1, <1>5 DEF Inv, Tracked, Empties, Remembers
  <2> QED
    BY <2>1, <2>2, <2>3
<1>7. Makes'
  <2>1. ASSUME NEW p \in Students, Pending(p), Fresh(p) PROVE Unknown(req[p].to)'
    <3>1. Unknown(req[p].to) /\ req[p].to \in Ids /\ req[p].to # 0
      BY <1>2, <2>1 DEF Inv, Tracked, Makes
    <3>2. \A g \in Places : done'[g][req[p].to] = 0
      BY <1>3, <3>1 DEF Unknown
    <3> QED
      BY <1>1, <3>1, <3>2 DEF Unknown
  <2>2. \A id \in Ids : id > made => \A g \in Places : done'[g][id] = 0
    BY <1>2, <1>3 DEF Inv, Tracked, Makes
  <2> QED
    BY <1>1, <1>5, <2>1, <2>2 DEF Inv, Tracked, Makes
<1>8. HasFiles'
  <2>1. worker'.sub.id \in 0..made
    BY <1>1, <1>2 DEF Inv, Tracked, HasFiles
  <2> QED
    BY <1>1, <1>4, <1>5, <2>1, NobodyIsAStudent DEF Inv, Tracked, HasFiles
<1>9. PlacedWaits'
  BY <1>1, <1>4, <1>5 DEF Inv, Tracked, PlacedWaits
<1>10. Leaves'
  <2> SUFFICES ASSUME NEW p \in Students, Pending(p), Fresh(p), req[p].sub.id # 0,
                      (~Dead(req[p].sub.id))', req[p].sub.by = subs[req[p].sub.id].by,
                      NEW t \in req[p].rows, link[t] = req[p].sub.id
               PROVE  DoneOf(req[p].sub.id)' # 0
    BY <1>1, <1>5 DEF Leaves
  <2>1. ~Dead(req[p].sub.id) /\ req[p].sub.id \in 1..made
    <3>1. req[p].sub.id \in 0..made
      BY TypeFacts DEF Inv
    <3> QED
      BY <1>1, <1>2, <1>5, <3>1
  <2>2. DoneOf(req[p].sub.id) # 0
    BY <2>1 DEF Inv, Tracked, Leaves
  <2> QED
    BY <1>1, <1>3, <2>1, <2>2
<1>11. Works'
  <2> SUFFICES ASSUME NEW id \in 1..made, ~Dead(id)', NEW t \in Students, link[t] = id
               PROVE  DoneOf(id)' # 0 \/ Coming(id)'
    BY <1>1 DEF Works
  <2>1. ~Dead(id) /\ id \notin lapsed'
    BY <1>5
  <2>2. CASE DoneOf(id) # 0
    BY <1>3, <2>2
  <2>3. CASE Coming(id)
    <3>1. PICK b \in Students : subs[id].by = b /\ link[b] = id /\ (Queued(b) \/ AtWork(id))
      BY <2>3 DEF Coming
    <3>2. CASE Queued(b)
      BY <1>1, <1>5, <3>1, <3>2 DEF Coming
    <3>3. CASE AtWork(id)
      <4>1. b = s
        BY <1>1, <3>1, <3>3 DEF AtWork
      <4> QED
        BY <2>1, <3>1, <3>3, <4>1
    <3> QED
      BY <3>1, <3>2, <3>3
  <2> QED
    BY <2>1, <2>2, <2>3 DEF Inv, Tracked, Works
<1>12. OwnFiles'
  <2> SUFFICES ASSUME NEW id \in 1..made, NEW b \in Students, id \notin lapsed',
                      subs[id].by = b, link[b] = id, new'[b] # 0,
                      ~(req[b].pc = "placed" /\ req[b].to # id),
                      NEW t \in Students, link[t] = id
               PROVE  t \in team[new'[b]]
    BY <1>1 DEF OwnFiles
  <2>1. new'[b] = new[b] /\ id \notin lapsed
    BY <1>1, <1>2
  <2> QED
    BY <2>1 DEF Inv, Tracked, OwnFiles
<1>13. OwnJob'
  BY <1>1 DEF OwnJob
<1>14. OwnZips'
  <2> SUFFICES ASSUME NEW id \in 1..made, NEW g \in Places, id \notin lapsed',
                      done'[g][id] # 0, NEW t \in Students, link[t] = id
               PROVE  t \in team[done'[g][id]]
    BY <1>1 DEF OwnZips
  <2>1. id \in Ids /\ id \notin lapsed /\ id # 0
    BY <1>1, <1>2
  <2>2. CASE done'[g][id] = done[g][id]
    BY <2>1, <2>2 DEF Inv, Tracked, OwnZips
  <2>3. CASE done'[g][id] # done[g][id]
    <3>1. id = worker.sub.id /\ done'[g][id] = new[s] /\ link[s] = id /\ worker.sub.by = s
      BY <1>3, <2>1, <2>3
    <3> QED
      BY <1>1, <2>1, <3>1 DEF Inv, Tracked, OwnJob
  <2> QED
    BY <2>2, <2>3
<1> QED
  BY <1>6, <1>7, <1>8, <1>9, <1>10, <1>11, <1>12, <1>13, <1>14 DEF Tracked

LEMMA JobTracked ==
    ASSUME Inv, Zip \/ Missing \/ Reject PROVE Tracked'
<1> DEFINE s == worker.task  sub == worker.sub
<1>1. worker.at = "begun" /\ s \in Students /\ new[s] # 0
  BY DEF Zip, Missing, Reject, Inv, IInv, JobsOK, Tracked, HasFiles
<1>2. /\ \A at \in {"zipped", "failed"} :
            LET w == [worker EXCEPT !.at = at]
            IN  w.at = at /\ w.sub = worker.sub /\ w.task = worker.task
      /\ Resting.at = "rest" /\ Resting.sub.id = 0 /\ Resting.task = "none"
  BY DEF Inv, IInv, JobsOK, Jobs, Resting, NoSub
<1>3. /\ sub.group \in Places /\ new[s] \in 0..uploads /\ made \in Nat
      /\ \A id \in 1..made : id \in Ids /\ subs[id].group \in Places
      /\ sub.id # 0 => sub.id \in 1..made
  <2>1. sub.id \in 0..made
    BY DEF Inv, Tracked, HasFiles
  <2> QED
    BY <1>1, <2>1, TypeFacts DEF Inv
<1>4. CASE Zip
  <2>1. /\ IsSubmitter(s, sub)
        /\ done' = [done EXCEPT ![sub.group][sub.id] = new[s]]
        /\ new' = [new EXCEPT ![s] = 0]
        /\ worker' = IF done'[sub.group][sub.id] = 0
                     THEN Resting ELSE [worker EXCEPT !.at = "zipped"]
        /\ lapsed' = IF sub.by = s THEN lapsed ELSE lapsed \cup {sub.id}
        /\ UNCHANGED <<link, status, subs, made, queue, req, team>>
    BY <1>1, <1>4 DEF Zip, tables
  <2>2. sub.id \in 1..made /\ link[s] = sub.id
    BY <1>1, <1>3, <2>1, SubmitterLinked
  <2>3. done'[sub.group][sub.id] = new[s]
    BY <1>3, <2>1, <2>2, DoneUpdate DEF Inv, IInv
  <2>4. Looked(s)
    BY <1>1, <1>2, <2>1 DEF Looked
  <2>5. \A id \in 1..made : AtWork(id) => DoneOf(id)' # 0
    BY <1>1, <2>1, <2>3 DEF AtWork, DoneOf
  <2>6. sub.by = s \/ sub.id \in lapsed'
    BY <2>1
  <2> QED
    BY <1>1, <2>1, <2>2, <2>4, <2>5, <2>6, LookedTracked
<1>5. CASE Missing
  <2>1. /\ new' = [new EXCEPT ![s] = 0] /\ worker' = Resting
        /\ lapsed' = lapsed \cup {sub.id}
        /\ UNCHANGED <<link, status, subs, made, done, queue, req, team>>
    BY <1>5 DEF Missing, tables
  <2>2. Looked(s)
    BY <1>1, <1>2, <2>1 DEF Looked
  <2>3. \A id \in 1..made : AtWork(id) => id \in lapsed'
    BY <2>1 DEF AtWork
  <2> QED
    BY <1>1, <2>1, <2>2, <2>3, LookedTracked
<1>6. CASE Reject
  <2>1. /\ ~IsSubmitter(s, sub)
        /\ new' = new \/ new' = [new EXCEPT ![s] = 0]
        /\ worker' = [worker EXCEPT !.at = "failed"]
        /\ UNCHANGED <<link, status, subs, made, done, queue, req, team, lapsed>>
    BY <1>6 DEF Reject, tables
  <2>2. Looked(s)
    BY <1>1, <1>2, <2>1 DEF Looked
  <2>3. \A id \in 1..made : ~(AtWork(id) /\ link[s] = id)
    BY <1>1, <1>3, <2>1, SubmitterLinked DEF AtWork
  <2> QED
    BY <1>1, <2>1, <2>2, <2>3, LookedTracked
<1> QED
  BY <1>4, <1>5, <1>6

LEMMA NextTracked == Inv /\ [Next]_vars => Tracked'
<1> SUFFICES ASSUME Inv, [Next]_vars PROVE Tracked'
  OBVIOUS
<1>1. ASSUME NEW s \in Students, Request(s) PROVE Tracked'
  BY <1>1, RequestsAreQuiet, QuietTracked, AcceptTracked, PlaceTracked, CommitTracked
     DEF Request
<1>2. CASE Work
  BY <1>2, BeginTracked, JobTracked, OthersAreQuiet, QuietTracked DEF Work
<1> QED
  BY <1>1, <1>2, OthersAreQuiet, QuietTracked DEF Next, Places

LEMMA InvHolds == Spec => []Inv
<1>1. Init => Inv
  BY InitIInv, InitTracked DEF Inv
<1>2. Inv /\ [Next]_vars => Inv'
  BY NextIInv, NextTracked DEF Inv
<1> QED
  BY <1>1, <1>2, PTL DEF Spec

\* A task of a group that is ready for feedback has work to look at, or work on
\* its way (ReadyHasWork): for any students, groups, uploads, moves and
\* verdicts, and any order of requests on stale copies and jobs.
THEOREM ReadyWorkIsThere == Spec => []ReadyHasWork
<1>1. Inv => ReadyHasWork
  BY TrackedWorks DEF Inv
<1> QED
  BY <1>1, InvHolds, PTL

\* The work shown for a task was handed in by a team the student was in
\* (OwnGroupsWork): for any students, groups, uploads, moves and verdicts, and
\* any order of requests on stale copies and jobs.
THEOREM WorkIsOfOwnTeam == Spec => []OwnGroupsWork
<1>1. Inv => OwnGroupsWork
  BY TrackedWorks DEF Inv
<1> QED
  BY <1>1, InvHolds, PTL

===============================================================================
