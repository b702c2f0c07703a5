SPECIFICATION Spec
CONSTANTS
    MaxUploads = 2
    MaxCrashes = 2
    MaxStaffActs = 0
    HistoryRequired = TRUE
    OverseerEnabled = TRUE
CHECK_DEADLOCK FALSE
INVARIANTS
    KeptOrTold
    PdfOfDone
