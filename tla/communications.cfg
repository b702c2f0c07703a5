\* A set of two rules, its schedule and convenors who run it, a student without an
\* address, and a job that fails or dies or a grade, convenor or schedule that changes.
CONSTANTS
    Students = {s1, s2}
    NoEmail = {s2}
    Grades = {"pass", "credit"}
    Matches <- MCMatches
    Actions <- MCActions
    Jobs = {j1, j2}
    MaxSlots = 2
    MaxRetries = 1
    MaxEvents = 1
SPECIFICATION Spec
INVARIANTS
    TypeOK
    RightRule
    OneRun
    AllActedOn
    SlotsServed
CHECK_DEADLOCK FALSE
