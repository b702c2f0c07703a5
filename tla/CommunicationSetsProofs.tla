------------------------ MODULE CommunicationSetsProofs ------------------------
(***************************************************************************)
(* What holds of CommunicationSets for any rules, students, jobs, slots,   *)
(* retries and faults: the waterfall, the completeness of a run that ends  *)
(* well, the locks and the slots of the schedule.                          *)
(***************************************************************************)
EXTENDS CommunicationSets, WellFoundedInduction, TLAPS

----------------------------------------------------------------------------
(* The rule that claims a student *)

LEMMA RulesAre == /\ Rules = 1..Len(Matches) /\ Len(Matches) \in Nat /\ 1 \in Rules
                  /\ Len(Matches) \in Rules /\ Rules \subseteq Nat /\ 0 \notin Rules
BY CommunicationAssumption DEF Rules

LEMMA ActionsAre ==
    ASSUME NEW r \in Rules
    PROVE  /\ Len(Actions[r]) \in Nat /\ 1 <= Len(Actions[r])
           /\ DOMAIN Actions[r] = 1..Len(Actions[r])
           /\ \A k \in 1..Len(Actions[r]) : Actions[r][k] \in Grades \cup {"email"}
<1>1. Actions[r] \in Seq(Grades \cup {"email"}) /\ Actions[r] # <<>>
  BY CommunicationAssumption
<1> QED BY <1>1

Less == {ss \in Nat \X Nat : ss[1] < ss[2]}

LEMMA LessWellFounded == IsWellFoundedOn(Less, Nat)
BY NatLessThanWellFounded DEF OpToRel, Less

LEMMA LeastRule ==
    ASSUME NEW S, S \subseteq Nat, S # {}
    PROVE  Min(S) \in S /\ \A y \in S : Min(S) <= y
<1>1. PICK x \in S : \A y \in S : ~(<<y, x>> \in Less)
  BY LessWellFounded, WFMin
<1>2. \A y \in S : x <= y
  <2> SUFFICES ASSUME NEW y \in S PROVE x <= y
    OBVIOUS
  <2>1. x \in Nat /\ y \in Nat /\ ~(<<y, x>> \in Less)
    BY <1>1
  <2>2. y < x => <<y, x>> \in Less
    BY <2>1 DEF Less
  <2>3. QED
    BY <2>1, <2>2
<1> QED BY <1>2 DEF Min

LEMMA ClaimIs ==
    ASSUME NEW g
    PROVE  /\ Claim(g) \in {0} \cup Rules
           /\ Claim(g) = 0 => \A r \in Rules : g \notin Matches[r]
           /\ Claim(g) \in Rules => g \in Matches[Claim(g)]
           /\ \A r \in Rules : g \in Matches[r] => Claim(g) \in Rules /\ Claim(g) <= r
<1> DEFINE fits == {r \in Rules : g \in Matches[r]}
<1>1. Claim(g) = IF fits = {} THEN 0 ELSE Min(fits)
  BY DEF Claim
<1>2. fits \subseteq Nat
  BY RulesAre
<1>3. CASE fits = {}
  BY <1>1, <1>3, RulesAre
<1>4. CASE fits # {}
  <2>1. Min(fits) \in fits /\ \A y \in fits : Min(fits) <= y
    BY <1>2, <1>4, LeastRule
  <2>2. QED
    BY <1>1, <1>4, <2>1, RulesAre
<1> QED BY <1>3, <1>4

\* The students a rule claims, and those left for it by the rules before.
Claimed(r, seen) == {s \in Students : Claim(seen[s]) = r}
LeftFor(r, seen) == {s \in Students : Claim(seen[s]) = 0 \/ Claim(seen[s]) >= r}

\* The waterfall: matching what is left is claiming.
LEMMA MatchingClaims ==
    ASSUME NEW r \in Rules, NEW seen
    PROVE  /\ Matching(r, LeftFor(r, seen), seen) = Claimed(r, seen)
           /\ LeftFor(r, seen) \ Claimed(r, seen) = LeftFor(r + 1, seen)
<1>1. \A s \in Students : s \in Matching(r, LeftFor(r, seen), seen) <=> s \in Claimed(r, seen)
  BY ClaimIs, RulesAre DEF Matching, Claimed, LeftFor
<1>2. \A s \in Students : Claim(seen[s]) \in Nat /\ r \in Nat
  BY ClaimIs, RulesAre
<1>3. \A s \in Students :
         s \in LeftFor(r, seen) \ Claimed(r, seen) <=> s \in LeftFor(r + 1, seen)
  BY <1>2, RulesAre DEF Claimed, LeftFor
<1> QED BY <1>1, <1>3 DEF Matching, Claimed, LeftFor

LEMMA AllLeftAtFirst == ASSUME NEW seen PROVE LeftFor(1, seen) = Students
BY ClaimIs, RulesAre DEF LeftFor

----------------------------------------------------------------------------
(* The schedule *)

PlanTypes ==
    /\ clock \in 0..MaxSlots /\ UNION {enqueued, refused, passed} \subseteq Slots
    /\ schedule \in [active : BOOLEAN, next : 0..MaxSlots]
    /\ planner \in [pc : {"none", "queued", "enqueue", "update"}, tries : 0..MaxRetries,
                    now : 0..MaxSlots]
    /\ events \in 0..MaxEvents
    /\ runs \in Nat /\ broken \in Nat

\* What became of each slot.
Met == UNION {enqueued, refused, passed}

\* The schedule is at most one slot ahead, and the slots before one to come were
\* met.
SlotBefore ==
    /\ schedule.next <= clock + 1 /\ planner.now <= clock
    /\ schedule.active /\ schedule.next > clock => 1..(schedule.next - 1) \subseteq Met
    /\ planner.pc = "update" => 1..planner.now \subseteq Met

\* Every run of the set that is not broken off has a slot of its own behind the
\* slot to come.
RunsHaveSlots ==
    /\ runs <= broken + clock
    /\ schedule.next # 0 /\ planner.pc # "update" => runs <= broken + schedule.next - 1
    /\ schedule.next # 0 /\ planner.pc = "update" => runs <= broken + schedule.next
    /\ planner.pc = "enqueue" => runs + 1 <= broken + planner.now
    /\ planner.pc = "update" => runs <= broken + planner.now

PlanInv == PlanTypes /\ SlotBefore /\ RunsHaveSlots

LEMMA BoundsAre == MaxSlots \in Nat /\ MaxRetries \in Nat /\ MaxEvents \in Nat
BY CommunicationAssumption

LEMMA FollowingIs ==
    ASSUME NEW now \in 0..MaxSlots
    PROVE  /\ Following(now) \in 0..MaxSlots
           /\ Following(now) <= now + 1
           /\ Following(now) # 0 => Following(now) = now + 1
BY BoundsAre DEF Following

LEMMA InitPlanInv == Init => PlanInv
<1> SUFFICES ASSUME Init PROVE PlanInv
  OBVIOUS
<1>1. PlanTypes
  <2>1. 0 \in 0..MaxSlots /\ 0 \in 0..MaxRetries /\ 0 \in 0..MaxEvents
    BY BoundsAre
  <2>2. schedule \in [active : BOOLEAN, next : 0..MaxSlots]
    BY <2>1, FollowingIs DEF Init
  <2>3. planner \in [pc : {"none", "queued", "enqueue", "update"}, tries : 0..MaxRetries,
                     now : 0..MaxSlots]
    BY <2>1 DEF Init, NoPlan
  <2>4. QED
    BY <2>1, <2>2, <2>3 DEF Init, PlanTypes
<1>2. schedule.next <= 1 /\ planner.now = 0 /\ planner.pc = "none" /\ schedule.next \in Nat
  BY BoundsAre DEF Init, Following, NoPlan
<1>3. SlotBefore /\ RunsHaveSlots
  BY <1>1, <1>2 DEF Init, SlotBefore, RunsHaveSlots
<1> QED BY <1>1, <1>3 DEF PlanInv

\* Steps that are no concern of the schedule.
LEMMA MetKept == ASSUME UNCHANGED fates PROVE Met' = Met
BY DEF Met, fates

LEMMA PlanKept ==
    ASSUME PlanInv, UNCHANGED plan, events' \in 0..MaxEvents
    PROVE  PlanInv'
BY MetKept DEF PlanInv, PlanTypes, SlotBefore, RunsHaveSlots, plan, fates

LEMMA EventStep == ASSUME PlanInv, Event PROVE events' \in 0..MaxEvents
BY BoundsAre DEF PlanInv, PlanTypes, Event

LEMMA PlanningKeeps == ASSUME PlanInv, SlotComes \/ Poll \/ Planning PROVE PlanInv'
<1>0. /\ clock \in 0..MaxSlots /\ runs \in Nat /\ broken \in Nat
      /\ schedule.next \in 0..MaxSlots /\ schedule.active \in BOOLEAN
      /\ planner.now \in 0..MaxSlots /\ planner.tries \in 0..MaxRetries
      /\ 0 \in 0..MaxSlots /\ 0 \in 0..MaxRetries /\ MaxSlots \in Nat
  BY BoundsAre DEF PlanInv, PlanTypes
<1>1. CASE SlotComes
  <2>1. /\ clock < MaxSlots /\ clock' = clock + 1
        /\ UNCHANGED <<schedule, planner, fates, runs, broken, events>>
    BY <1>1 DEF SlotComes
  <2>2. Met' = Met
    BY <2>1, MetKept
  <2>3. PlanTypes'
    BY <1>0, <2>1 DEF PlanInv, PlanTypes, fates
  <2>4. SlotBefore' /\ RunsHaveSlots'
    BY <1>0, <2>1, <2>2 DEF PlanInv, SlotBefore, RunsHaveSlots
  <2>5. QED
    BY <2>3, <2>4 DEF PlanInv
<1>2. CASE Poll
  <2>1. planner' = [pc |-> "queued", tries |-> 0, now |-> 0]
        /\ UNCHANGED <<clock, schedule, fates, runs, broken, events>>
        /\ planner.pc = "none"
    BY <1>2 DEF Poll, NoPlan
  <2>2. PlanTypes'
    BY <1>0, <2>1 DEF PlanInv, PlanTypes, fates
  <2>3. SlotBefore' /\ RunsHaveSlots'
    BY <1>0, <2>1, MetKept DEF PlanInv, SlotBefore, RunsHaveSlots
  <2>4. QED
    BY <2>2, <2>3 DEF PlanInv
<1>3. CASE Check
  <2>1. UNCHANGED <<clock, schedule, fates, runs, broken, events>>
        /\ planner.pc = "queued"
    BY <1>3 DEF Check
  <2>2. CASE Due
    <3>1. planner' = [planner EXCEPT !.pc = "enqueue", !.now = clock]
      BY <1>3, <2>2 DEF Check
    <3>2. PlanTypes' /\ planner'.pc = "enqueue" /\ planner'.now = clock
      BY <1>0, <2>1, <3>1 DEF PlanInv, PlanTypes, fates
    <3>3. schedule.next # 0 /\ schedule.next <= clock
      BY <2>2 DEF Due
    <3>4. SlotBefore' /\ RunsHaveSlots'
      BY <1>0, <2>1, <3>2, <3>3, MetKept DEF PlanInv, SlotBefore, RunsHaveSlots
    <3>5. QED
      BY <3>2, <3>4 DEF PlanInv
  <2>3. CASE ~Due
    <3>1. planner' = [pc |-> "none", tries |-> 0, now |-> 0]
      BY <1>3, <2>3 DEF Check, NoPlan
    <3>2. PlanTypes'
      BY <1>0, <2>1, <3>1 DEF PlanInv, PlanTypes, fates
    <3>3. SlotBefore' /\ RunsHaveSlots'
      BY <1>0, <2>1, <3>1, MetKept DEF PlanInv, SlotBefore, RunsHaveSlots
    <3>4. QED
      BY <3>2, <3>3 DEF PlanInv
  <2>4. QED
    BY <2>2, <2>3
<1>4. CASE EnqueueSet
  <2>1. /\ UNCHANGED <<clock, schedule, broken, events>>
        /\ planner.pc = "enqueue" /\ planner' = [planner EXCEPT !.pc = "update"]
        /\ passed' = passed
        /\ \/ refused' = refused \cup Unmet /\ UNCHANGED <<enqueued, runs>>
           \/ enqueued' = enqueued \cup Unmet /\ runs' = runs + 1 /\ refused' = refused
    BY <1>4 DEF EnqueueSet
  <2>2. Met' = Met \cup Unmet /\ Met \subseteq Met' /\ runs' \in {runs, runs + 1}
    BY <2>1 DEF Met
  <2>3. 1..planner.now \subseteq Met' /\ Met' \subseteq Slots
    <3>1. Met' \subseteq Slots
      BY <2>2 DEF PlanInv, PlanTypes, Met, Unmet
    <3>2. ASSUME NEW n \in 1..planner.now PROVE n \in Met \cup Unmet
      <4>1. n \in Slots /\ n <= planner.now
        BY <1>0, <3>2 DEF Slots
      <4>2. QED
        BY <4>1 DEF Met, Unmet
    <3>3. QED
      BY <2>2, <3>1, <3>2
  <2>4. PlanTypes' /\ planner'.pc = "update" /\ planner'.now = planner.now
    BY <1>0, <2>1, <2>2, <2>3 DEF PlanInv, PlanTypes, Met
  <2>5. SlotBefore'
    BY <1>0, <2>1, <2>2, <2>3, <2>4 DEF PlanInv, SlotBefore
  <2>6. RunsHaveSlots'
    <3>1. /\ schedule' = schedule /\ clock' = clock /\ broken' = broken
          /\ planner'.pc = "update" /\ planner'.now = planner.now /\ planner.now <= clock
          /\ runs + 1 <= broken + planner.now
          /\ schedule.next # 0 => runs <= broken + schedule.next - 1
      BY <2>1, <2>4 DEF PlanInv, RunsHaveSlots, SlotBefore
    <3>2. CASE runs' = runs
      BY <1>0, <3>1, <3>2 DEF RunsHaveSlots
    <3>3. CASE runs' = runs + 1
      BY <1>0, <3>1, <3>3 DEF RunsHaveSlots
    <3>4. QED
      BY <2>2, <3>2, <3>3
  <2>7. QED
    BY <2>4, <2>5, <2>6 DEF PlanInv
<1>5. CASE MoveOn
  <2> DEFINE f == Following(planner.now)
  <2>1. /\ UNCHANGED <<clock, fates, runs, broken, events>>
        /\ planner.pc = "update" /\ planner' = [pc |-> "none", tries |-> 0, now |-> 0]
        /\ schedule' = [schedule EXCEPT !.next = f]
    BY <1>5 DEF MoveOn, NoPlan
  <2>2. f \in 0..MaxSlots /\ f <= planner.now + 1 /\ (f # 0 => f = planner.now + 1)
    BY <1>0, FollowingIs
  <2> HIDE DEF f
  <2>3. PlanTypes' /\ schedule'.next = f /\ schedule'.active = schedule.active
    BY <1>0, <2>1, <2>2 DEF PlanInv, PlanTypes, fates
  <2>4. SlotBefore' /\ RunsHaveSlots'
    BY <1>0, <2>1, <2>2, <2>3, MetKept DEF PlanInv, SlotBefore, RunsHaveSlots
  <2>5. QED
    BY <2>3, <2>4 DEF PlanInv
<1> QED BY <1>1, <1>2, <1>3, <1>4, <1>5 DEF Planning

LEMMA SumGrows ==
    ASSUME NEW a \in Nat, NEW b \in Nat, NEW c \in Nat, NEW d \in Nat, a <= b + c, b <= d
    PROVE  a <= d + c
OBVIOUS

LEMMA FailPlanKeeps == ASSUME PlanInv, FailPlan PROVE PlanInv'
<1>0. /\ clock \in 0..MaxSlots /\ runs \in Nat /\ broken \in Nat
      /\ schedule.next \in 0..MaxSlots
      /\ planner.now \in 0..MaxSlots /\ planner.tries \in 0..MaxRetries
      /\ 0 \in 0..MaxSlots /\ 0 \in 0..MaxRetries /\ MaxSlots \in Nat /\ MaxRetries \in Nat
  BY BoundsAre DEF PlanInv, PlanTypes
<1>1. UNCHANGED <<clock, schedule, fates, runs>> /\ events' \in 0..MaxEvents
  BY EventStep DEF FailPlan
<1>2. \E place \in {"none", "queued"}, n \in 0..MaxRetries :
         planner' = [pc |-> place, tries |-> n, now |-> 0]
  <2>1. CASE planner.tries < MaxRetries
    <3>1. planner' = [pc |-> "queued", tries |-> planner.tries + 1, now |-> 0]
      BY <2>1 DEF FailPlan, NoPlan
    <3>2. planner.tries + 1 \in 0..MaxRetries
      BY <1>0, <2>1
    <3>3. QED
      BY <3>1, <3>2
  <2>2. CASE ~(planner.tries < MaxRetries)
    <3>1. planner' = [pc |-> "none", tries |-> 0, now |-> 0]
      BY <2>2 DEF FailPlan, NoPlan
    <3>2. QED
      BY <1>0, <3>1
  <2>3. QED
    BY <2>1, <2>2
<1>3. broken' \in Nat /\ broken' >= broken /\ (planner.pc = "update" => broken' = broken + 1)
  BY <1>0 DEF FailPlan
<1>4. PlanTypes'
  BY <1>0, <1>1, <1>2, <1>3 DEF PlanInv, PlanTypes, fates
<1>5. planner'.pc \in {"none", "queued"} /\ planner'.now = 0
  BY <1>2
<1>6. SlotBefore'
  BY <1>0, <1>1, <1>5, MetKept DEF PlanInv, SlotBefore
<1>7. RunsHaveSlots'
  <2>1. runs <= broken' + clock
    <3>1. runs <= broken + clock
      BY DEF PlanInv, RunsHaveSlots
    <3>2. clock \in Nat /\ runs \in Nat /\ broken \in Nat
      BY <1>0
    <3>3. broken' \in Nat /\ broken <= broken'
      BY <1>3
    <3>4. QED
      BY <3>1, <3>2, <3>3, SumGrows
  <2>2. schedule.next # 0 => runs <= broken' + schedule.next - 1
    <3>1. CASE planner.pc = "update"
      BY <1>0, <1>3, <3>1 DEF PlanInv, RunsHaveSlots
    <3>2. CASE planner.pc # "update"
      BY <1>0, <1>3, <3>2 DEF PlanInv, RunsHaveSlots
    <3>3. QED
      BY <3>1, <3>2
  <2>3. QED
    BY <1>1, <1>5, <2>1, <2>2 DEF RunsHaveSlots
<1> QED BY <1>4, <1>6, <1>7 DEF PlanInv

LEMMA ConvenorKeepsPlan ==
    ASSUME PlanInv, Reschedule \/ SwitchOff
    PROVE  PlanInv'
<1>0. /\ clock \in 0..MaxSlots /\ runs \in Nat /\ broken \in Nat
      /\ planner.now \in 0..MaxSlots /\ 0 \in 0..MaxSlots /\ MaxSlots \in Nat
  BY BoundsAre DEF PlanInv, PlanTypes
<1>1. CASE Reschedule
  <2> DEFINE f == Following(clock)
  <2>1. /\ schedule' = [active |-> TRUE, next |-> f]
        /\ passed' = passed \cup ((1..clock) \ UNION {enqueued, refused})
        /\ UNCHANGED <<clock, planner, enqueued, refused, runs, broken>>
    BY <1>1 DEF Reschedule
  <2>2. f \in 0..MaxSlots /\ f <= clock + 1 /\ (f # 0 => f = clock + 1)
    BY <1>0, FollowingIs
  <2>3. events' \in 0..MaxEvents
    BY <1>1, EventStep DEF Reschedule
  <2> HIDE DEF f
  <2>7. 1..clock \subseteq Met' /\ Met' \subseteq Slots /\ Met \subseteq Met'
    <3>1. 1..clock \subseteq Slots /\ Met \subseteq Slots
      BY <1>0 DEF Slots, Met, PlanInv, PlanTypes
    <3>2. QED
      BY <2>1, <3>1 DEF Met
  <2>4. PlanTypes'
    BY <1>0, <2>1, <2>2, <2>3, <2>7 DEF PlanInv, PlanTypes, Met
  <2>5. SlotBefore' /\ RunsHaveSlots'
    BY <1>0, <2>1, <2>2, <2>7 DEF PlanInv, SlotBefore, RunsHaveSlots
  <2>6. QED
    BY <2>4, <2>5 DEF PlanInv
<1>2. CASE SwitchOff
  <2>1. schedule' = [active |-> FALSE, next |-> 0]
        /\ UNCHANGED <<clock, planner, fates, runs, broken>>
    BY <1>2 DEF SwitchOff
  <2>2. events' \in 0..MaxEvents
    BY <1>2, EventStep DEF SwitchOff
  <2>3. PlanTypes'
    BY <1>0, <2>1, <2>2 DEF PlanInv, PlanTypes, fates
  <2>4. SlotBefore' /\ RunsHaveSlots'
    BY <1>0, <2>1, MetKept DEF PlanInv, SlotBefore, RunsHaveSlots
  <2>5. QED
    BY <2>3, <2>4 DEF PlanInv
<1> QED BY <1>1, <1>2

LEMMA PlanStep == PlanInv /\ [Next]_vars => PlanInv'
<1> SUFFICES ASSUME PlanInv, [Next]_vars PROVE PlanInv'
  OBVIOUS
<1>0. events \in 0..MaxEvents
  BY DEF PlanInv, PlanTypes
<1>1. CASE SlotComes \/ Poll \/ Planning
  BY <1>1, PlanningKeeps
<1>2. CASE FailPlan
  BY <1>2, FailPlanKeeps
<1>3. CASE Reschedule \/ SwitchOff
  BY <1>3, ConvenorKeepsPlan
<1>4. ASSUME NEW only, Execute(only) \/ Reap(only) PROVE PlanInv'
  BY <1>0, <1>4, PlanKept DEF Execute, Reap
<1>5. ASSUME NEW s, NEW g, SetGrade(s, g) PROVE PlanInv'
  BY <1>0, <1>5, EventStep, PlanKept DEF SetGrade
<1>9. ASSUME NEW c, SetConvenor(c) PROVE PlanInv'
  BY <1>0, <1>9, EventStep, PlanKept DEF SetConvenor
<1>6. ASSUME NEW j, Perform(j) PROVE PlanInv'
  BY <1>0, <1>6, PlanKept DEF Perform, Act, Start, ChangeTargetGrade, EmailStudent, Skip,
     Copy, NextAction, NextRule, Finish
<1>7. ASSUME NEW j, Fail(j) \/ Kill(j) PROVE PlanInv'
  BY <1>0, <1>7, EventStep, PlanKept DEF Fail, Kill
<1>8. CASE UNCHANGED vars
  BY <1>0, <1>8, PlanKept DEF vars
<1> QED BY <1>1, <1>2, <1>3, <1>4, <1>5, <1>6, <1>7, <1>8, <1>9 DEF Next, Convenor

\* For each slot behind the schedule the set was enqueued, or rejected while its
\* lock was held, or a convenor changed the schedule; and the set is enqueued once
\* a slot, but for plans that broke off.
THEOREM SlotsAreServed == Spec => []SlotsServed
<1>1. PlanInv => SlotsServed
  <2> SUFFICES ASSUME PlanInv PROVE SlotsServed
    OBVIOUS
  <2>1. clock \in Nat /\ runs \in Nat /\ broken \in Nat /\ schedule.next \in Nat
    BY BoundsAre DEF PlanInv, PlanTypes
  <2>2. QED
    BY <2>1 DEF PlanInv, SlotBefore, RunsHaveSlots, SlotsServed, Due, Met
<1> QED BY <1>1, InitPlanInv, PlanStep, PTL DEF Spec

----------------------------------------------------------------------------
(* The jobs of the set *)

Triples == Rules \X Nat \X Students

JobRecords == [pc : {"new", "queued", "running", "retry", "done", "dead"},
               only : {0} \cup Rules, attempt : 0..MaxRetries,
               rule : Rules, step : Nat, seen : [Students -> Grades],
               left : SUBSET Students, todo : SUBSET Students,
               mailed : SUBSET Students, acts : SUBSET Triples,
               skipped : SUBSET Triples, sender : Convenors]

\* The k-th action of rule q has reached s, with its copy if it is an e-mail, or
\* was skipped for want of an address.
HasReached(j, r, cs, q, k, s) ==
    \/ /\ <<q, k, s>> \in r.acts
       /\ Actions[q][k] = "email" => [run |-> j, act |-> <<q, k, s>>] \in cs
    \/ /\ <<q, k, s>> \in r.skipped
       /\ Actions[q][k] = "email" /\ (s \in NoEmail \/ r.sender = "no_email")

\* What has been done so far for the students that are claimed.
Passed(r, q, k, s) ==
    \/ q < r.rule
    \/ q = r.rule /\ k < r.step
    \/ q = r.rule /\ k = r.step /\ s \notin r.todo

Progress(j, r, cs) ==
    \A s \in Students, q \in Rules : \A k \in 1..Len(Actions[q]) :
        q = Claim(r.seen[s]) /\ r.only \in {0, q} /\ Passed(r, q, k, s)
            => HasReached(j, r, cs, q, k, s)

Complete(j, r, cs) ==
    \A s \in Students, q \in Rules : \A k \in 1..Len(Actions[q]) :
        q = Claim(r.seen[s]) /\ r.only \in {0, q} => HasReached(j, r, cs, q, k, s)

\* What a job r holds, with the copies cs there are.
RecordOK(j, r, cs) ==
    /\ r.step \in 1..Len(Actions[r.rule])
    /\ r.todo \subseteq r.left /\ r.mailed \subseteq r.todo
    /\ r.mailed # {} => r.only \in {0, r.rule} /\ Actions[r.rule][r.step] = "email"
    /\ r.pc = "running" => /\ r.left = LeftFor(r.rule, r.seen)
                           /\ r.todo \subseteq Claimed(r.rule, r.seen)
                           /\ Progress(j, r, cs)
    /\ r.pc = "done" => Complete(j, r, cs)
    /\ \A a \in r.acts : a[1] = Claim(r.seen[a[3]])

CopyRecords == [run : Jobs, act : Triples]

JobsInv ==
    /\ grade \in [Students -> Grades] /\ convenor \in Convenors
    /\ job \in [Jobs -> JobRecords]
    /\ locks \subseteq {0} \cup Rules
    /\ copies \subseteq CopyRecords
    /\ \A j \in Jobs : RecordOK(j, job[j], copies)

\* A job that was not begun, or has nothing any more.
Blank(r) ==
    /\ r.rule = 1 /\ r.step = 1
    /\ r.left = {} /\ r.todo = {} /\ r.mailed = {} /\ r.acts = {}

LEMMA BlankOK ==
    ASSUME NEW r, Blank(r), r.pc \notin {"running", "done"}, NEW j, NEW cs
    PROVE  RecordOK(j, r, cs)
<1>1. 1 \in 1..Len(Actions[1])
  BY RulesAre, ActionsAre
<1> QED BY <1>1 DEF Blank, RecordOK

LEMMA NewJobBlank ==
    ASSUME grade \in [Students -> Grades]
    PROVE  NewJob \in JobRecords /\ Blank(NewJob) /\ NewJob.pc = "new"
<1> DEFINE blind == [s \in Students |-> CHOOSE g \in Grades : TRUE]
<1>1. blind \in [Students -> Grades]
  <2> SUFFICES ASSUME NEW s \in Students PROVE (CHOOSE g \in Grades : TRUE) \in Grades
    OBVIOUS
  <2>1. grade[s] \in Grades
    OBVIOUS
  <2>2. QED
    BY <2>1
<1>2. NewJob = [pc |-> "new", only |-> 0, attempt |-> 0, rule |-> 1, step |-> 1,
                seen |-> blind, left |-> {}, todo |-> {}, mailed |-> {}, acts |-> {},
                skipped |-> {}, sender |-> "none"]
  BY DEF NewJob
<1> HIDE DEF blind
<1>3. 0 \in 0..MaxRetries /\ 1 \in Rules /\ "none" \in Convenors
  BY BoundsAre, RulesAre DEF Convenors
<1> QED BY <1>1, <1>2, <1>3 DEF JobRecords, Blank

\* No job has begun.
THEOREM InitJobsInv == Init => JobsInv
<1> SUFFICES ASSUME Init PROVE JobsInv
  OBVIOUS
<1>1. /\ grade \in [Students -> Grades] /\ locks = {} /\ copies = {}
      /\ job = [j \in Jobs |-> NewJob] /\ convenor \in Convenors
  BY DEF Init, Convenors
<1>2. NewJob \in JobRecords /\ Blank(NewJob) /\ NewJob.pc = "new"
  BY <1>1, NewJobBlank
<1>3. \A j \in Jobs : RecordOK(j, NewJob, copies)
  BY <1>2, BlankOK
<1> QED BY <1>1, <1>2, <1>3 DEF JobsInv

\* More copies harm nobody.
LEMMA MoreCopies ==
    ASSUME NEW j, NEW r, NEW cs, NEW ds, cs \subseteq ds, RecordOK(j, r, cs)
    PROVE  RecordOK(j, r, ds)
BY DEF RecordOK, Progress, Complete, HasReached

\* A step of one job.
LEMMA OneJob ==
    ASSUME JobsInv, NEW j \in Jobs, NEW r \in JobRecords,
           job' = [job EXCEPT ![j] = r], RecordOK(j, r, copies'),
           grade' \in [Students -> Grades], convenor' \in Convenors,
           locks' \subseteq {0} \cup Rules,
           copies \subseteq copies', copies' \subseteq CopyRecords
    PROVE  JobsInv'
<1>1. job \in [Jobs -> JobRecords]
  BY DEF JobsInv
<1>2. job' \in [Jobs -> JobRecords]
  BY <1>1
<1>3. ASSUME NEW i \in Jobs PROVE RecordOK(i, job'[i], copies')
  <2>1. CASE i = j
    BY <1>1, <2>1
  <2>2. CASE i # j
    <3>1. job'[i] = job[i] /\ RecordOK(i, job[i], copies)
      BY <1>1, <2>2 DEF JobsInv
    <3>2. QED
      BY <3>1, MoreCopies
  <2>3. QED
    BY <2>1, <2>2
<1> QED BY <1>2, <1>3 DEF JobsInv

\* Steps that are no concern of the jobs.
LEMMA JobsKept ==
    ASSUME JobsInv, UNCHANGED <<job, copies>>, grade' \in [Students -> Grades],
           convenor' \in Convenors, locks' \subseteq {0} \cup Rules
    PROVE  JobsInv'
BY DEF JobsInv

LEMMA EnqueueKeeps ==
    ASSUME JobsInv, NEW only \in {0} \cup Rules, Enqueue(only), UNCHANGED <<people, copies>>
    PROVE  JobsInv'
<1>1. CASE only \in locks
  BY <1>1, JobsKept DEF Enqueue, JobsInv, people
<1>2. CASE only \notin locks
  <2> DEFINE c == CHOOSE j \in Unused : TRUE
             r == [NewJob EXCEPT !.pc = "queued", !.only = only]
  <2>1. job' = [job EXCEPT ![c] = r] /\ c \in Unused /\ locks' = locks \cup {only}
    BY <1>2 DEF Enqueue
  <2> HIDE DEF c
  <2>2. c \in Jobs
    BY <2>1 DEF Unused
  <2>3. NewJob \in JobRecords /\ Blank(NewJob)
    BY NewJobBlank DEF JobsInv
  <2>4. r \in JobRecords /\ Blank(r) /\ r.pc = "queued"
    BY <2>3 DEF JobRecords, Blank
  <2> HIDE DEF r
  <2>5. RecordOK(c, r, copies')
    BY <2>4, BlankOK
  <2>6. QED
    BY <2>1, <2>2, <2>4, <2>5, OneJob DEF JobsInv, people
<1> QED BY <1>1, <1>2

LEMMA StartKeeps == ASSUME JobsInv, NEW j \in Jobs, Start(j) PROVE JobsInv'
<1> DEFINE first == Matching(1, Students, grade)
           r == [job[j] EXCEPT !.pc = "running", !.seen = grade, !.left = Students,
                               !.rule = 1, !.step = 1, !.todo = first,
                               !.mailed = {}, !.acts = {}, !.skipped = {},
                               !.sender = convenor]
<1>1. job' = [job EXCEPT ![j] = r] /\ UNCHANGED <<people, locks, copies>>
  BY DEF Start
<1>2. job[j] \in JobRecords /\ grade \in [Students -> Grades] /\ convenor \in Convenors
  BY DEF JobsInv
<1>3. first = Claimed(1, grade) /\ LeftFor(1, grade) = Students
  BY MatchingClaims, AllLeftAtFirst, RulesAre
<1>4. first \subseteq Students
  BY DEF Matching
<1> HIDE DEF first
<1>5. r \in JobRecords
  BY <1>2, <1>4, RulesAre DEF JobRecords
<1>6. /\ r.pc = "running" /\ r.seen = grade /\ r.left = Students /\ r.rule = 1 /\ r.step = 1
      /\ r.todo = first /\ r.mailed = {} /\ r.acts = {}
  BY <1>2 DEF JobRecords
<1> HIDE DEF r
<1>7. Progress(j, r, copies')
  BY <1>3, <1>6, RulesAre DEF Progress, Passed, Claimed
<1>8. RecordOK(j, r, copies')
  <2>1. 1 \in 1..Len(Actions[1])
    BY RulesAre, ActionsAre
  <2>2. QED
    BY <1>3, <1>4, <1>6, <1>7, <2>1 DEF RecordOK
<1> QED BY <1>1, <1>2, <1>5, <1>8, OneJob DEF JobsInv, people

\* A running job and the rule it is at.
LEMMA RunningIs ==
    ASSUME JobsInv, NEW j \in Jobs, Running(j)
    PROVE  /\ job[j] \in JobRecords /\ job[j].rule \in Rules
           /\ job[j].step \in 1..Len(Actions[job[j].rule])
           /\ job[j].left = LeftFor(job[j].rule, job[j].seen)
           /\ job[j].todo \subseteq job[j].left
           /\ job[j].todo \subseteq Claimed(job[j].rule, job[j].seen)
           /\ job[j].mailed \subseteq job[j].todo
           /\ Progress(j, job[j], copies)
           /\ \A a \in job[j].acts : a[1] = Claim(job[j].seen[a[3]])
           /\ Matched(j) = Claimed(job[j].rule, job[j].seen)
           /\ Matched(j) \subseteq job[j].left
<1>1. job[j] \in JobRecords /\ RecordOK(j, job[j], copies)
  BY DEF JobsInv
<1>2. job[j].rule \in Rules
  BY <1>1 DEF JobRecords
<1>3. job[j].left = LeftFor(job[j].rule, job[j].seen)
  BY <1>1 DEF RecordOK, Running
<1>4. Matched(j) = Claimed(job[j].rule, job[j].seen)
  BY <1>2, <1>3, MatchingClaims DEF Matched
<1>5. Matched(j) \subseteq job[j].left
  BY DEF Matched, Matching
<1> QED BY <1>1, <1>2, <1>3, <1>4, <1>5 DEF RecordOK, Running

\* One more student has been reached by the action at hand.
LEMMA ReachedStep ==
    ASSUME JobsInv, NEW j \in Jobs, Running(j), NEW s \in job[j].todo,
           NEW r \in JobRecords, job' = [job EXCEPT ![j] = r],
           r.pc = "running", r.only = job[j].only, r.rule = job[j].rule,
           r.step = job[j].step, r.seen = job[j].seen, r.left = job[j].left,
           r.sender = job[j].sender, r.todo = job[j].todo \ {s}, r.mailed = {},
           job[j].acts \subseteq r.acts, r.acts \subseteq job[j].acts \cup {Acted(j, s)},
           job[j].skipped \subseteq r.skipped,
           grade' \in [Students -> Grades], convenor' = convenor, locks' = locks,
           copies \subseteq copies', copies' \subseteq CopyRecords,
           HasReached(j, r, copies', job[j].rule, job[j].step, s)
    PROVE  JobsInv'
<1>1. /\ job[j].rule \in Rules /\ job[j].step \in 1..Len(Actions[job[j].rule])
      /\ job[j].left = LeftFor(job[j].rule, job[j].seen)
      /\ job[j].todo \subseteq job[j].left
      /\ job[j].todo \subseteq Claimed(job[j].rule, job[j].seen)
      /\ \A a \in job[j].acts : a[1] = Claim(job[j].seen[a[3]])
  BY RunningIs
<1>2. Acted(j, s) = <<r.rule, r.step, s>> /\ s \in Students
  BY <1>1 DEF Acted, Claimed
<1>3. Claim(r.seen[s]) = r.rule
  BY <1>1 DEF Claimed
<1>4. Progress(j, r, copies')
  <2> SUFFICES ASSUME NEW x \in Students, NEW q \in Rules, NEW k \in 1..Len(Actions[q]),
                      q = Claim(r.seen[x]), r.only \in {0, q}, Passed(r, q, k, x)
               PROVE  HasReached(j, r, copies', q, k, x)
    BY DEF Progress
  <2>1. CASE Passed(job[j], q, k, x)
    <3>1. HasReached(j, job[j], copies, q, k, x)
      BY <2>1, RunningIs DEF Progress
    <3>2. QED
      BY <3>1 DEF HasReached
  <2>2. CASE ~Passed(job[j], q, k, x)
    <3>1. q = r.rule /\ k = r.step /\ x = s
      BY <2>2 DEF Passed
    <3>2. QED
      BY <3>1
  <2>3. QED
    BY <2>1, <2>2
<1>5. \A a \in r.acts : a[1] = Claim(r.seen[a[3]])
  BY <1>1, <1>2, <1>3
<1>6. RecordOK(j, r, copies')
  BY <1>1, <1>4, <1>5 DEF RecordOK
<1> QED BY <1>6, OneJob DEF JobsInv

LEMMA ActedTriple ==
    ASSUME JobsInv, NEW j \in Jobs, Running(j), NEW s \in Students
    PROVE  Acted(j, s) \in Triples /\ Acted(j, s) = <<job[j].rule, job[j].step, s>>
BY RunningIs DEF Acted, Triples

LEMMA ChangeTargetGradeKeeps ==
    ASSUME JobsInv, NEW j \in Jobs, NEW s \in Students, ChangeTargetGrade(j, s)
    PROVE  JobsInv'
<1> DEFINE more == job[j].acts \cup {Acted(j, s)}
           less == job[j].todo \ {s}
           r == [job[j] EXCEPT !.todo = less, !.acts = more]
<1>1. /\ Running(j) /\ s \in job[j].todo /\ Doing(j) # "email"
      /\ UNCHANGED <<convenor, locks, copies>>
  BY DEF ChangeTargetGrade
<1>2. job' = [job EXCEPT ![j] = r]
  BY DEF ChangeTargetGrade
<1>3. /\ job[j] \in JobRecords /\ job[j].rule \in Rules
      /\ job[j].step \in 1..Len(Actions[job[j].rule])
      /\ RecordOK(j, job[j], copies)
  BY <1>1, RunningIs DEF JobsInv
<1>4. grade' \in [Students -> Grades]
  <2>1. Doing(j) \in Grades
    BY <1>1, <1>3, ActionsAre DEF Doing
  <2>2. QED
    BY <2>1 DEF ChangeTargetGrade, JobsInv
<1>5. job[j].mailed = {}
  BY <1>1, <1>3 DEF RecordOK, Doing
<1>6. less \in SUBSET Students /\ more \in SUBSET Triples
  BY <1>1, <1>3, ActedTriple DEF JobRecords
<1>7. Acted(j, s) \in more /\ Acted(j, s) = <<job[j].rule, job[j].step, s>>
  BY <1>1, ActedTriple
<1> HIDE DEF less, more
<1>8. /\ r \in JobRecords /\ r.pc = job[j].pc /\ r.only = job[j].only
      /\ r.rule = job[j].rule /\ r.step = job[j].step /\ r.seen = job[j].seen
      /\ r.left = job[j].left /\ r.todo = less /\ r.mailed = job[j].mailed
      /\ r.acts = more /\ r.skipped = job[j].skipped /\ r.sender = job[j].sender
  BY <1>3, <1>6 DEF JobRecords
<1> HIDE DEF r
<1>9. copies' \subseteq CopyRecords /\ copies \subseteq copies' /\ job[j].pc = "running"
  BY <1>1 DEF JobsInv, Running
<1>10. HasReached(j, r, copies', job[j].rule, job[j].step, s)
  BY <1>1, <1>7, <1>8 DEF HasReached, Doing
<1> USE DEF less, more
<1> QED BY <1>1, <1>2, <1>4, <1>5, <1>8, <1>9, <1>10, ReachedStep

LEMMA SkipKeeps ==
    ASSUME JobsInv, NEW j \in Jobs, NEW s \in Students, Skip(j, s)
    PROVE  JobsInv'
<1> DEFINE more == job[j].skipped \cup {Acted(j, s)}
           less == job[j].todo \ {s}
           r == [job[j] EXCEPT !.todo = less, !.skipped = more]
<1>1. /\ Running(j) /\ s \in job[j].todo /\ Doing(j) = "email" /\ job[j].mailed = {}
      /\ UNCHANGED <<people, locks, copies>>
      /\ s \in NoEmail \/ job[j].sender = "no_email"
  BY DEF Skip, Mailing, AddressMissing
<1>2. job' = [job EXCEPT ![j] = r]
  BY DEF Skip
<1>3. /\ job[j] \in JobRecords /\ job[j].rule \in Rules
      /\ job[j].step \in 1..Len(Actions[job[j].rule])
  BY <1>1, RunningIs
<1>4. less \in SUBSET Students /\ more \in SUBSET Triples
  BY <1>1, <1>3, ActedTriple DEF JobRecords
<1>5. <<job[j].rule, job[j].step, s>> \in more
  BY <1>1, ActedTriple
<1> HIDE DEF less, more
<1>6. /\ r \in JobRecords /\ r.pc = job[j].pc /\ r.only = job[j].only
      /\ r.rule = job[j].rule /\ r.step = job[j].step /\ r.seen = job[j].seen
      /\ r.left = job[j].left /\ r.todo = less /\ r.mailed = job[j].mailed
      /\ r.acts = job[j].acts /\ r.skipped = more /\ r.sender = job[j].sender
  BY <1>3, <1>4 DEF JobRecords
<1> HIDE DEF r
<1>7. /\ copies' \subseteq CopyRecords /\ copies \subseteq copies' /\ job[j].pc = "running"
      /\ grade' \in [Students -> Grades] /\ convenor' = convenor
  BY <1>1 DEF JobsInv, Running, people
<1>8. HasReached(j, r, copies', job[j].rule, job[j].step, s)
  BY <1>1, <1>5, <1>6 DEF HasReached, Doing
<1> USE DEF less, more
<1> QED BY <1>1, <1>2, <1>6, <1>7, <1>8, ReachedStep

LEMMA EmailStudentKeeps ==
    ASSUME JobsInv, NEW j \in Jobs, NEW s \in Students, EmailStudent(j, s)
    PROVE  JobsInv'
<1> DEFINE r == [job[j] EXCEPT !.mailed = {s}]
<1>1. /\ Running(j) /\ s \in job[j].todo /\ Doing(j) = "email" /\ Executes(j)
      /\ UNCHANGED <<people, locks, copies>>
      /\ job' = [job EXCEPT ![j] = r]
  BY DEF EmailStudent, Mailing
<1>2. job[j] \in JobRecords /\ RecordOK(j, job[j], copies)
  BY DEF JobsInv
<1>3. /\ r \in JobRecords /\ r.pc = job[j].pc /\ r.only = job[j].only
      /\ r.rule = job[j].rule /\ r.step = job[j].step /\ r.seen = job[j].seen
      /\ r.left = job[j].left /\ r.todo = job[j].todo /\ r.mailed = {s}
      /\ r.acts = job[j].acts /\ r.skipped = job[j].skipped /\ r.sender = job[j].sender
  BY <1>2 DEF JobRecords
<1> HIDE DEF r
<1>4. RecordOK(j, r, copies')
  <2>1. r.only \in {0, r.rule} /\ Actions[r.rule][r.step] = "email" /\ r.pc = "running"
    BY <1>1, <1>3 DEF Executes, Doing, Running
  <2>2. Progress(j, r, copies')
    <3> SUFFICES ASSUME NEW x \in Students, NEW q \in Rules, NEW k \in 1..Len(Actions[q]),
                        q = Claim(r.seen[x]), r.only \in {0, q}, Passed(r, q, k, x)
                 PROVE  HasReached(j, r, copies', q, k, x)
      BY DEF Progress
    <3>1. Progress(j, job[j], copies) /\ Passed(job[j], q, k, x)
      BY <1>1, <1>3, RunningIs DEF Passed
    <3>2. HasReached(j, job[j], copies, q, k, x)
      BY <1>3, <3>1 DEF Progress
    <3>3. QED
      BY <1>1, <1>3, <3>2 DEF HasReached
  <2>3. QED
    BY <1>1, <1>2, <1>3, <2>1, <2>2 DEF RecordOK
<1> QED BY <1>1, <1>3, <1>4, OneJob DEF JobsInv, people

LEMMA CopyKeeps ==
    ASSUME JobsInv, NEW j \in Jobs, NEW s \in Students, Copy(j, s)
    PROVE  JobsInv'
<1> DEFINE more == job[j].acts \cup {Acted(j, s)}
           less == job[j].todo \ {s}
           c == [run |-> j, act |-> Acted(j, s)]
           r == [job[j] EXCEPT !.mailed = {}, !.todo = less, !.acts = more]
<1>1. /\ Running(j) /\ s \in job[j].mailed
      /\ UNCHANGED <<people, locks>> /\ copies' = copies \cup {c}
  BY DEF Copy
<1>2. job' = [job EXCEPT ![j] = r]
  BY DEF Copy
<1>3. /\ job[j] \in JobRecords /\ job[j].rule \in Rules
      /\ job[j].step \in 1..Len(Actions[job[j].rule])
      /\ s \in job[j].todo
  BY <1>1, RunningIs
<1>4. Acted(j, s) \in Triples /\ Acted(j, s) = <<job[j].rule, job[j].step, s>>
  BY <1>1, ActedTriple
<1>5. less \in SUBSET Students /\ more \in SUBSET Triples
  BY <1>3, <1>4 DEF JobRecords
<1>6. c \in CopyRecords
  BY <1>4 DEF CopyRecords
<1> HIDE DEF less, more, c
<1>7. /\ r \in JobRecords /\ r.pc = job[j].pc /\ r.only = job[j].only
      /\ r.rule = job[j].rule /\ r.step = job[j].step /\ r.seen = job[j].seen
      /\ r.left = job[j].left /\ r.todo = less /\ r.mailed = {}
      /\ r.acts = more /\ r.skipped = job[j].skipped /\ r.sender = job[j].sender
  BY <1>3, <1>5 DEF JobRecords
<1> HIDE DEF r
<1>8. /\ copies' \subseteq CopyRecords /\ copies \subseteq copies' /\ c \in copies'
      /\ job[j].pc = "running" /\ grade' \in [Students -> Grades] /\ convenor' = convenor
  BY <1>1, <1>6 DEF JobsInv, Running, people
<1>9. HasReached(j, r, copies', job[j].rule, job[j].step, s)
  <2> USE DEF more, c
  <2> QED BY <1>4, <1>7, <1>8 DEF HasReached
<1> USE DEF less, more
<1> QED BY <1>1, <1>2, <1>3, <1>7, <1>8, <1>9, ReachedStep

\* An action that is done for all its students, or not in this run at all.
LEMMA ActionDone ==
    ASSUME JobsInv, NEW j \in Jobs, Done(j), NEW x \in Students, NEW q \in Rules,
           NEW k \in 1..Len(Actions[q]), q = Claim(job[j].seen[x]),
           job[j].only \in {0, q},
           q < job[j].rule \/ (q = job[j].rule /\ k <= job[j].step)
    PROVE  HasReached(j, job[j], copies, q, k, x)
<1>1. /\ job[j].rule \in Rules /\ job[j].step \in 1..Len(Actions[job[j].rule])
      /\ Progress(j, job[j], copies)
  BY RunningIs DEF Done
<1>2. q = job[j].rule => job[j].todo = {}
  BY DEF Done, Executes
<1>3. Passed(job[j], q, k, x)
  BY <1>1, <1>2 DEF Passed
<1> QED BY <1>1, <1>3 DEF Progress

LEMMA NextActionKeeps == ASSUME JobsInv, NEW j \in Jobs, NextAction(j) PROVE JobsInv'
<1> DEFINE again == Matched(j)
           further == job[j].step + 1
           r == [job[j] EXCEPT !.step = further, !.todo = again]
<1>1. /\ Done(j) /\ Running(j) /\ Executes(j) /\ job[j].step < Len(Actions[job[j].rule])
      /\ UNCHANGED <<people, locks, copies>> /\ job[j].todo = {}
      /\ job' = [job EXCEPT ![j] = r]
  BY DEF NextAction, Done
<1>2. /\ job[j] \in JobRecords /\ job[j].rule \in Rules
      /\ job[j].step \in 1..Len(Actions[job[j].rule])
      /\ job[j].left = LeftFor(job[j].rule, job[j].seen)
      /\ again = Claimed(job[j].rule, job[j].seen) /\ again \subseteq job[j].left
      /\ job[j].mailed = {}
      /\ \A a \in job[j].acts : a[1] = Claim(job[j].seen[a[3]])
  BY <1>1, RunningIs
<1>3. further \in 1..Len(Actions[job[j].rule]) /\ further = job[j].step + 1
  BY <1>1, <1>2, ActionsAre
<1>4. again \in SUBSET Students /\ further \in Nat
  BY <1>2, <1>3 DEF JobRecords
<1> HIDE DEF again, further
<1>5. /\ r \in JobRecords /\ r.pc = job[j].pc /\ r.only = job[j].only
      /\ r.rule = job[j].rule /\ r.step = further /\ r.seen = job[j].seen
      /\ r.left = job[j].left /\ r.todo = again /\ r.mailed = job[j].mailed
      /\ r.acts = job[j].acts /\ r.skipped = job[j].skipped /\ r.sender = job[j].sender
  BY <1>2, <1>4 DEF JobRecords
<1> HIDE DEF r
<1>6. Progress(j, r, copies')
  <2> SUFFICES ASSUME NEW x \in Students, NEW q \in Rules, NEW k \in 1..Len(Actions[q]),
                      q = Claim(r.seen[x]), r.only \in {0, q}, Passed(r, q, k, x)
               PROVE  HasReached(j, r, copies', q, k, x)
    BY DEF Progress
  <2>1. q < job[j].rule \/ (q = job[j].rule /\ k < further)
    BY <1>2, <1>5 DEF Passed, Claimed
  <2>2. q < job[j].rule \/ (q = job[j].rule /\ k <= job[j].step)
    BY <1>2, <1>3, <2>1
  <2>3. HasReached(j, job[j], copies, q, k, x)
    BY <1>1, <1>5, <2>2, ActionDone
  <2>4. QED
    BY <1>1, <1>5, <2>3 DEF HasReached
<1>7. RecordOK(j, r, copies')
  BY <1>1, <1>2, <1>3, <1>5, <1>6 DEF RecordOK, Running
<1> QED BY <1>1, <1>5, <1>7, OneJob DEF JobsInv, people

LEMMA NextRuleKeeps == ASSUME JobsInv, NEW j \in Jobs, NextRule(j) PROVE JobsInv'
<1> DEFINE rest == job[j].left \ Matched(j)
           further == job[j].rule + 1
           theirs == Matching(further, rest, job[j].seen)
           r == [job[j] EXCEPT !.rule = further, !.step = 1, !.left = rest,
                               !.todo = theirs]
<1>1. /\ Done(j) /\ Running(j) /\ EndOfRule(j) /\ ~LastRule(j)
      /\ UNCHANGED <<people, locks, copies>>
  BY DEF NextRule, Done
<1>2. job' = [job EXCEPT ![j] = r]
  BY DEF NextRule
<1>3. /\ job[j] \in JobRecords /\ job[j].rule \in Rules
      /\ job[j].left = LeftFor(job[j].rule, job[j].seen)
      /\ job[j].todo \subseteq Claimed(job[j].rule, job[j].seen)
      /\ job[j].mailed \subseteq job[j].todo
      /\ Matched(j) = Claimed(job[j].rule, job[j].seen)
      /\ \A a \in job[j].acts : a[1] = Claim(job[j].seen[a[3]])
  BY <1>1, RunningIs
<1>4. further \in Rules /\ further = job[j].rule + 1
  BY <1>1, <1>3, RulesAre DEF LastRule
<1>5. rest = LeftFor(further, job[j].seen)
  BY <1>3, MatchingClaims
<1>6. theirs = Claimed(further, job[j].seen) /\ theirs \subseteq rest
  BY <1>4, <1>5, MatchingClaims DEF Matching
<1>7. job[j].mailed = {}
  <2>1. RecordOK(j, job[j], copies)
    BY DEF JobsInv
  <2>2. job[j].mailed # {} => Executes(j)
    BY <2>1 DEF RecordOK, Executes
  <2>3. QED
    BY <1>1, <1>3, <2>2 DEF Done
<1>8. rest \in SUBSET Students /\ theirs \in SUBSET Students
  BY <1>3, <1>6 DEF JobRecords
<1> HIDE DEF rest, further, theirs
<1>9. /\ r \in JobRecords /\ r.pc = job[j].pc /\ r.only = job[j].only
      /\ r.rule = further /\ r.step = 1 /\ r.seen = job[j].seen
      /\ r.left = rest /\ r.todo = theirs /\ r.mailed = job[j].mailed
      /\ r.acts = job[j].acts /\ r.skipped = job[j].skipped /\ r.sender = job[j].sender
  BY <1>3, <1>4, <1>8 DEF JobRecords
<1> HIDE DEF r
<1>10. Progress(j, r, copies')
  <2> SUFFICES ASSUME NEW x \in Students, NEW q \in Rules, NEW k \in 1..Len(Actions[q]),
                      q = Claim(r.seen[x]), r.only \in {0, q}, Passed(r, q, k, x)
               PROVE  HasReached(j, r, copies', q, k, x)
    BY DEF Progress
  <2>1. q < further
    BY <1>6, <1>9 DEF Passed, Claimed
  <2>2. q < job[j].rule \/ q = job[j].rule
    BY <1>3, <1>4, <2>1, RulesAre
  <2>3. q = job[j].rule => k <= job[j].step
    BY <1>1, <1>9 DEF EndOfRule, Executes
  <2>4. HasReached(j, job[j], copies, q, k, x)
    BY <1>1, <1>9, <2>2, <2>3, ActionDone
  <2>5. QED
    BY <1>1, <1>9, <2>4 DEF HasReached
<1>11. RecordOK(j, r, copies')
  <2>1. 1 \in 1..Len(Actions[further])
    BY <1>4, ActionsAre
  <2>2. QED
    BY <1>1, <1>3, <1>5, <1>6, <1>7, <1>9, <1>10, <2>1 DEF RecordOK, Running
<1> QED BY <1>1, <1>2, <1>9, <1>11, OneJob DEF JobsInv, people

LEMMA FinishKeeps == ASSUME JobsInv, NEW j \in Jobs, Finish(j) PROVE JobsInv'
<1> DEFINE r == [job[j] EXCEPT !.pc = "done"]
<1>1. /\ Done(j) /\ Running(j) /\ EndOfRule(j) /\ LastRule(j)
      /\ UNCHANGED <<people, copies>> /\ locks' \subseteq locks
      /\ job' = [job EXCEPT ![j] = r]
  BY DEF Finish, Done
<1>2. job[j] \in JobRecords /\ RecordOK(j, job[j], copies) /\ job[j].rule \in Rules
  BY <1>1, RunningIs DEF JobsInv
<1>3. /\ r \in JobRecords /\ r.pc = "done" /\ r.only = job[j].only
      /\ r.rule = job[j].rule /\ r.step = job[j].step /\ r.seen = job[j].seen
      /\ r.left = job[j].left /\ r.todo = job[j].todo /\ r.mailed = job[j].mailed
      /\ r.acts = job[j].acts /\ r.skipped = job[j].skipped /\ r.sender = job[j].sender
  BY <1>2 DEF JobRecords
<1> HIDE DEF r
<1>4. Complete(j, r, copies')
  <2> SUFFICES ASSUME NEW x \in Students, NEW q \in Rules, NEW k \in 1..Len(Actions[q]),
                      q = Claim(r.seen[x]), r.only \in {0, q}
               PROVE  HasReached(j, r, copies', q, k, x)
    BY DEF Complete
  <2>1. q < job[j].rule \/ q = job[j].rule
    <3>1. CASE job[j].rule = job[j].only
      BY <1>2, <1>3, <3>1, RulesAre
    <3>2. CASE job[j].rule = Len(Matches)
      BY <3>2, RulesAre
    <3>3. QED
      BY <1>1, <3>1, <3>2 DEF LastRule
  <2>2. q = job[j].rule => k <= job[j].step
    BY <1>1, <1>3 DEF EndOfRule, Executes
  <2>3. HasReached(j, job[j], copies, q, k, x)
    BY <1>1, <1>3, <2>1, <2>2, ActionDone
  <2>4. QED
    BY <1>1, <1>3, <2>3 DEF HasReached
<1>5. RecordOK(j, r, copies')
  BY <1>2, <1>3, <1>4 DEF RecordOK
<1> QED BY <1>1, <1>3, <1>5, OneJob DEF JobsInv, people

LEMMA FailKeeps == ASSUME JobsInv, NEW j \in Jobs, Fail(j) \/ Kill(j) PROVE JobsInv'
<1>1. /\ UNCHANGED <<people, copies>> /\ locks' \subseteq locks
      /\ \/ job' = [job EXCEPT ![j] = Dead]
         \/ job' = [job EXCEPT ![j] = Retrying(j)] /\ job[j].attempt < MaxRetries
  BY DEF Fail, Kill
<1>2. job[j] \in JobRecords /\ NewJob \in JobRecords /\ Blank(NewJob)
  BY NewJobBlank DEF JobsInv
<1>3. CASE job' = [job EXCEPT ![j] = Dead]
  <2>1. Dead \in JobRecords /\ Blank(Dead) /\ Dead.pc = "dead"
    BY <1>2 DEF Dead, JobRecords, Blank
  <2>2. RecordOK(j, Dead, copies')
    BY <2>1, BlankOK
  <2>3. QED
    BY <1>1, <1>3, <2>1, <2>2, OneJob DEF JobsInv, people
<1>4. CASE job' = [job EXCEPT ![j] = Retrying(j)] /\ job[j].attempt < MaxRetries
  <2>1. job[j].attempt + 1 \in 0..MaxRetries /\ job[j].only \in {0} \cup Rules
    BY <1>2, <1>4, BoundsAre DEF JobRecords
  <2>2. Retrying(j) \in JobRecords /\ Blank(Retrying(j)) /\ Retrying(j).pc = "retry"
    BY <1>2, <2>1 DEF Retrying, JobRecords, Blank
  <2>3. RecordOK(j, Retrying(j), copies')
    BY <2>2, BlankOK
  <2>4. QED
    BY <1>1, <1>4, <2>2, <2>3, OneJob DEF JobsInv, people
<1> QED BY <1>1, <1>3, <1>4

\* Every step keeps what is known of the jobs of a set.
THEOREM JobsStep == JobsInv /\ [Next]_vars => JobsInv'
<1> SUFFICES ASSUME JobsInv, [Next]_vars PROVE JobsInv'
  OBVIOUS
<1>0. /\ grade \in [Students -> Grades] /\ convenor \in Convenors
      /\ locks \subseteq {0} \cup Rules
  BY DEF JobsInv
<1>1. CASE SlotComes \/ Poll \/ FailPlan \/ Reschedule \/ SwitchOff
  BY <1>0, <1>1, JobsKept DEF SlotComes, Poll, FailPlan, Reschedule, SwitchOff,
     sets, people
<1>2. CASE Planning
  <2>1. CASE Check \/ MoveOn
    BY <1>0, <2>1, JobsKept DEF Check, MoveOn, sets, people
  <2>2. CASE EnqueueSet
    BY <2>2, EnqueueKeeps DEF EnqueueSet
  <2>3. QED
    BY <1>2, <2>1, <2>2 DEF Planning
<1>3. ASSUME NEW only \in {0} \cup Rules, Execute(only) PROVE JobsInv'
  BY <1>3, EnqueueKeeps DEF Execute
<1>4. ASSUME NEW only \in {0} \cup Rules, Reap(only) PROVE JobsInv'
  BY <1>0, <1>4, JobsKept DEF Reap, people
<1>5. ASSUME NEW s \in Students, NEW g \in Grades, SetGrade(s, g) PROVE JobsInv'
  <2>1. grade' \in [Students -> Grades]
    BY <1>0, <1>5 DEF SetGrade
  <2>2. QED
    BY <1>0, <1>5, <2>1, JobsKept DEF SetGrade, sets
<1>9. ASSUME NEW c \in Convenors, SetConvenor(c) PROVE JobsInv'
  BY <1>0, <1>9, JobsKept DEF SetConvenor, sets
<1>6. ASSUME NEW j \in Jobs, Perform(j) PROVE JobsInv'
  <2>1. ASSUME NEW s \in Students, \/ ChangeTargetGrade(j, s) \/ EmailStudent(j, s)
                                   \/ Skip(j, s) \/ Copy(j, s)
        PROVE  JobsInv'
    BY <2>1, ChangeTargetGradeKeeps, EmailStudentKeeps, SkipKeeps, CopyKeeps
  <2>2. QED
    BY <1>6, <2>1, StartKeeps, NextActionKeeps, NextRuleKeeps, FinishKeeps DEF Perform, Act
<1>7. ASSUME NEW j \in Jobs, Fail(j) \/ Kill(j) PROVE JobsInv'
  BY <1>7, FailKeeps
<1>8. CASE UNCHANGED vars
  BY <1>0, <1>8, JobsKept DEF vars, sets, people
<1> QED BY <1>1, <1>2, <1>3, <1>4, <1>5, <1>6, <1>7, <1>8, <1>9 DEF Next, Convenor

\* What is known of the jobs of a set holds throughout.
THEOREM SpecJobsInv == Spec => []JobsInv
BY InitJobsInv, JobsStep, PTL DEF Spec

----------------------------------------------------------------------------
(* The locks of the jobs *)

\* A job that is to run, runs or waits for its retry holds the lock of what it runs.
Held == \A j \in Jobs : Active(j) => job[j].only \in locks

LocksInv == Held /\ OneRun

\* Steps that touch no job and no lock one of them holds.
LEMMA LocksKept ==
    ASSUME LocksInv, job' = job, \A j \in Jobs : Active(j) => job[j].only \in locks'
    PROVE  LocksInv'
BY DEF LocksInv, Held, OneRun, Active

\* A step of one job.
OthersKept(j) == \A i \in Jobs : i # j => job'[i] = job[i]

\* A job that was active goes on, and its lock stays.
LEMMA GoesOn ==
    ASSUME LocksInv, NEW j \in Jobs, Active(j), OthersKept(j),
           job'[j].only = job[j].only, locks' = locks
    PROVE  LocksInv'
<1>1. \A i \in Jobs : Active(i)' => Active(i) /\ job'[i].only = job[i].only
  BY DEF Active, OthersKept
<1> QED BY <1>1 DEF LocksInv, Held, OneRun

\* A job ends, and its lock is released or left to the reaper.
LEMMA Ends ==
    ASSUME LocksInv, NEW j \in Jobs, Active(j), OthersKept(j),
           job'[j].pc \in {"done", "dead"}, locks \ {job[j].only} \subseteq locks'
    PROVE  LocksInv'
<1>1. \A i \in Jobs : Active(i)' => i # j /\ Active(i) /\ job'[i].only = job[i].only
  BY DEF Active, OthersKept
<1>2. \A i \in Jobs : Active(i)' => job[i].only # job[j].only
  BY <1>1 DEF LocksInv, OneRun
<1> QED BY <1>1, <1>2 DEF LocksInv, Held, OneRun

LEMMA EnqueueLocks ==
    ASSUME JobsInv, LocksInv, NEW only, Enqueue(only)
    PROVE  LocksInv'
<1>1. CASE only \in locks
  BY <1>1, LocksKept DEF Enqueue, LocksInv, Held
<1>2. CASE only \notin locks
  <2> DEFINE c == CHOOSE j \in Unused : TRUE
             r == [NewJob EXCEPT !.pc = "queued", !.only = only]
  <2>1. job' = [job EXCEPT ![c] = r] /\ c \in Unused /\ locks' = locks \cup {only}
    BY <1>2 DEF Enqueue
  <2>2. r.only = only /\ r.pc = "queued"
    BY DEF NewJob
  <2> HIDE DEF c, r
  <2>3. c \in Jobs /\ job \in [Jobs -> JobRecords]
    BY <2>1 DEF Unused, JobsInv
  <2>4. \A i \in Jobs : job'[i] = IF i = c THEN r ELSE job[i]
    BY <2>1, <2>3
  <2>5. \A i \in Jobs : Active(i)' /\ i # c => Active(i) /\ job'[i].only = job[i].only
    BY <2>4 DEF Active
  <2>6. \A i \in Jobs : Active(i) => job[i].only # only
    BY <1>2 DEF LocksInv, Held
  <2>7. QED
    BY <2>1, <2>2, <2>3, <2>4, <2>5, <2>6 DEF LocksInv, Held, OneRun
<1> QED BY <1>1, <1>2

LEMMA PerformLocks ==
    ASSUME JobsInv, LocksInv, NEW j \in Jobs, Perform(j) \/ Fail(j) \/ Kill(j)
    PROVE  LocksInv'
<1>1. job \in [Jobs -> JobRecords] /\ job[j] \in JobRecords
  BY DEF JobsInv
<1>2. CASE Start(j)
  <2>1. Active(j) /\ OthersKept(j) /\ job'[j].only = job[j].only /\ locks' = locks
    BY <1>1, <1>2 DEF Start, Active, OthersKept, JobRecords
  <2>2. QED
    BY <2>1, GoesOn
<1>3. ASSUME NEW s \in Students,
             ChangeTargetGrade(j, s) \/ EmailStudent(j, s) \/ Skip(j, s) \/ Copy(j, s)
      PROVE  LocksInv'
  <2>1. OthersKept(j) /\ job'[j].only = job[j].only
    BY <1>1, <1>3 DEF ChangeTargetGrade, EmailStudent, Skip, Copy, OthersKept, JobRecords
  <2>2. Active(j) /\ locks' = locks
    BY <1>3 DEF ChangeTargetGrade, EmailStudent, Skip, Copy, Mailing, Running, Active
  <2>3. QED
    BY <2>1, <2>2, GoesOn
<1>4. CASE NextAction(j) \/ NextRule(j)
  <2>1. OthersKept(j) /\ job'[j].only = job[j].only
    BY <1>1, <1>4 DEF NextAction, NextRule, OthersKept, JobRecords
  <2>2. Active(j) /\ locks' = locks
    BY <1>4 DEF NextAction, NextRule, Done, Running, Active
  <2>3. QED
    BY <2>1, <2>2, GoesOn
<1>5. CASE Finish(j)
  <2>1. OthersKept(j) /\ job'[j].pc = "done" /\ locks' = locks \ {job[j].only}
    BY <1>1, <1>5 DEF Finish, OthersKept, JobRecords
  <2>2. Active(j)
    BY <1>5 DEF Finish, Done, Running, Active
  <2>3. QED
    BY <2>1, <2>2, Ends
<1>6. CASE Fail(j) /\ job[j].attempt < MaxRetries
  <2>1. job' = [job EXCEPT ![j] = Retrying(j)] /\ locks' = locks /\ Running(j)
    BY <1>6 DEF Fail
  <2>2. Retrying(j).only = job[j].only
    BY DEF Retrying, NewJob
  <2>3. Active(j) /\ OthersKept(j) /\ job'[j].only = job[j].only
    BY <1>1, <2>1, <2>2 DEF Running, Active, OthersKept
  <2>4. QED
    BY <2>1, <2>3, GoesOn
<1>7. CASE Kill(j) \/ (Fail(j) /\ ~(job[j].attempt < MaxRetries))
  <2>1. /\ job' = [job EXCEPT ![j] = Dead] /\ Running(j)
        /\ locks' = locks \/ locks' = locks \ {job[j].only}
    BY <1>7 DEF Fail, Kill
  <2>2. Dead.pc = "dead"
    BY DEF Dead, NewJob
  <2>3. Active(j) /\ OthersKept(j) /\ job'[j].pc = "dead" /\ locks \ {job[j].only} \subseteq locks'
    BY <1>1, <2>1, <2>2 DEF Running, Active, OthersKept
  <2>4. QED
    BY <2>3, Ends
<1> QED BY <1>2, <1>3, <1>4, <1>5, <1>6, <1>7 DEF Perform, Act

LEMMA LocksStep == JobsInv /\ LocksInv /\ [Next]_vars => LocksInv'
<1> SUFFICES ASSUME JobsInv, LocksInv, [Next]_vars PROVE LocksInv'
  OBVIOUS
<1>0. \A j \in Jobs : Active(j) => job[j].only \in locks
  BY DEF LocksInv, Held
<1>1. CASE SlotComes \/ Poll \/ Check \/ MoveOn \/ FailPlan \/ Reschedule \/ SwitchOff
  BY <1>0, <1>1, LocksKept DEF SlotComes, Poll, Check, MoveOn, FailPlan, Reschedule,
     SwitchOff, sets
<1>2. CASE EnqueueSet
  BY <1>2, EnqueueLocks DEF EnqueueSet
<1>3. ASSUME NEW only, Execute(only) PROVE LocksInv'
  BY <1>3, EnqueueLocks DEF Execute
<1>4. ASSUME NEW only, Reap(only) PROVE LocksInv'
  <2>1. job' = job /\ locks' = locks \ {only} /\ \A j \in Jobs : Active(j) => job[j].only # only
    BY <1>4 DEF Reap
  <2>2. QED
    BY <1>0, <2>1, LocksKept
<1>5. ASSUME NEW s, NEW g, SetGrade(s, g) PROVE LocksInv'
  BY <1>0, <1>5, LocksKept DEF SetGrade, sets
<1>6. ASSUME NEW c, SetConvenor(c) PROVE LocksInv'
  BY <1>0, <1>6, LocksKept DEF SetConvenor, sets
<1>7. ASSUME NEW j \in Jobs, Perform(j) \/ Fail(j) \/ Kill(j) PROVE LocksInv'
  BY <1>7, PerformLocks
<1>8. CASE UNCHANGED vars
  BY <1>0, <1>8, LocksKept DEF vars, sets
<1> QED BY <1>1, <1>2, <1>3, <1>4, <1>5, <1>6, <1>7, <1>8 DEF Next, Planning, Convenor

\* No two jobs run the same set or rule at once, over retries, kills and reaping.
THEOREM NoTwoRuns == Spec => []OneRun
<1>1. Init => LocksInv
  <2> SUFFICES ASSUME Init PROVE \A j \in Jobs : ~Active(j)
    BY DEF LocksInv, Held, OneRun
  <2>1. QED
    BY DEF Init, NewJob, Active
<1>2. LocksInv => OneRun
  BY DEF LocksInv
<1> QED BY <1>1, <1>2, SpecJobsInv, LocksStep, PTL DEF Spec

\* Every variable keeps its range, for any rules, students and bounds.
THEOREM TypeCorrect == Spec => []TypeOK
<1>1. JobsInv /\ PlanInv => TypeOK
  <2> SUFFICES ASSUME JobsInv, PlanInv PROVE TypeOK
    OBVIOUS
  <2>1. ASSUME NEW j \in Jobs
        PROVE  /\ job[j].pc \in {"new", "queued", "running", "retry", "done", "dead"}
               /\ job[j].only \in {0} \cup Rules /\ job[j].attempt \in 0..MaxRetries
               /\ job[j].rule \in Rules /\ job[j].step \in 1..Len(Actions[job[j].rule])
               /\ job[j].todo \cup job[j].mailed \subseteq job[j].left
    <3>1. job[j] \in JobRecords /\ RecordOK(j, job[j], copies)
      BY DEF JobsInv
    <3>2. QED
      BY <3>1 DEF JobRecords, RecordOK
  <2>2. QED
    BY <2>1 DEF JobsInv, PlanInv, PlanTypes, TypeOK
<1> QED BY <1>1, SpecJobsInv, InitPlanInv, PlanStep, PTL DEF Spec

\* The waterfall: within an attempt a student gets the actions of the first rule
\* that matched when the students were loaded.
THEOREM FirstRuleClaims == Spec => []RightRule
<1>1. JobsInv => RightRule
  BY DEF JobsInv, RecordOK, RightRule
<1> QED BY <1>1, SpecJobsInv, PTL

\* A run that ends well has done every action for every student it claimed, or
\* says that the mail was skipped for want of an address.
THEOREM NobodyLeftOut == Spec => []AllActedOn
<1>1. JobsInv => AllActedOn
  <2> SUFFICES ASSUME JobsInv, NEW j \in Jobs, job[j].pc = "done", NEW s \in Students,
                      Claim(job[j].seen[s]) \in Rules,
                      job[j].only \in {0, Claim(job[j].seen[s])},
                      NEW k \in DOMAIN Actions[Claim(job[j].seen[s])]
               PROVE  LET r == Claim(job[j].seen[s]) IN
                      \/ /\ <<r, k, s>> \in job[j].acts
                         /\ Actions[r][k] = "email"
                               => [run |-> j, act |-> <<r, k, s>>] \in copies
                      \/ /\ <<r, k, s>> \in job[j].skipped
                         /\ Actions[r][k] = "email" /\ AddressMissing(j, s)
    BY DEF AllActedOn
  <2> DEFINE r == Claim(job[j].seen[s])
  <2>1. Complete(j, job[j], copies)
    BY DEF JobsInv, RecordOK
  <2>2. k \in 1..Len(Actions[r])
    BY ActionsAre
  <2>3. HasReached(j, job[j], copies, r, k, s)
    BY <2>1, <2>2 DEF Complete
  <2>4. QED
    BY <2>3 DEF HasReached, AddressMissing
<1> QED BY <1>1, SpecJobsInv, PTL
============================================================================
