SPECIFICATION Spec
CONSTANTS
    Requests = {r1, r2}
    r1 = r1
    r2 = r2
    StudentTriggers = {"not_started"}
    UploadTriggers = {"ready_for_feedback", "need_help"}
    StaffTriggers = {"ready_for_feedback", "working_on_it", "discuss", "rediscuss", "time_exceeded"}
    OverseerResults = {}
    Target = 2
    Deadline = 3
    Week = 1
    ResubmitWeeks = 0
    WarnAfter = 0
    ExpireAfter = 0
    RestrictUpdates = TRUE
    LateToPortfolio = TRUE
    MaxNow = 5
SYMMETRY Symmetry
CHECK_DEADLOCK FALSE
INVARIANTS
 CountedOnce
 JudgedByDueDate
 CommentsAgree
