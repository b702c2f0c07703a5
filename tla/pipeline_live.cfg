SPECIFICATION FairSpec
CONSTANTS
    MaxUploads = 2
    MaxCrashes = 1
    MaxStaffActs = 0
    HistoryRequired = TRUE
    OverseerEnabled = TRUE
CHECK_DEADLOCK FALSE
PROPERTIES
    CanSubmitAgain
    Converted
    AssessmentsEnd
