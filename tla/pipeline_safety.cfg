SPECIFICATION Spec
CONSTANTS
    MaxUploads = 2
    MaxCrashes = 1
    MaxStaffActs = 1
    HistoryRequired = TRUE
    OverseerEnabled = TRUE
CHECK_DEADLOCK FALSE
INVARIANTS
    TypeOK
    JobsUnique
    KeptOrTold
    HistoryFaithful
PROPERTIES
    NeverRegresses
    VerdictOfLatest
