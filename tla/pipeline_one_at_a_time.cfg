SPECIFICATION Spec
CONSTANTS
    MaxUploads = 2
    MaxCrashes = 0
    MaxStaffActs = 0
    HistoryRequired = TRUE
    OverseerEnabled = TRUE
CHECK_DEADLOCK FALSE
PROPERTY OneAtATime
