SPECIFICATION Spec
CONSTANTS
    Requests = {r1, r2}
    r1 = r1
    r2 = r2
    StudentTriggers = {"working_on_it"}
    UploadTriggers = {"ready_for_feedback"}
    StaffTriggers = {"complete"}
    OverseerResults = {"complete"}
    Target = 2
    Deadline = 4
    Week = 1
    ResubmitWeeks = 1
    WarnAfter = 1
    ExpireAfter = 2
    RestrictUpdates = FALSE
    LateToPortfolio = FALSE
    MaxNow = 5
CHECK_DEADLOCK FALSE
PROPERTIES
 ClosedToStudents
