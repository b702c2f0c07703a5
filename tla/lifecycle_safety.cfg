SPECIFICATION Spec
CONSTANTS
    Requests = {r1, r2}
    r1 = r1
    r2 = r2
    StudentTriggers = {"working_on_it"}
    UploadTriggers = {"ready_for_feedback"}
    StaffTriggers = {"fix_and_resubmit", "discuss"}
    OverseerResults = {"complete"}
    Target = 1
    Deadline = 3
    Week = 1
    ResubmitWeeks = 1
    WarnAfter = 1
    ExpireAfter = 2
    RestrictUpdates = FALSE
    LateToPortfolio = FALSE
    MaxNow = 5
SYMMETRY Symmetry
CHECK_DEADLOCK FALSE
INVARIANTS
 TypeOK
 DiscussTracked
 WarnedInPeriod
 CountedOnce
 JudgedByDueDate
 ExtensionsKept
 ExtensionsBounded
 CommentsAgree
