\* The service answers every call and finishes its work, nothing dies, and
\* no web hook arrives: the check is to see the file through.
CONSTANTS
    Hooks = {}
    MaxRetries = 1
    Troubles = {}
    MaxEvents = 0
SPECIFICATION SpecTiiWorks
PROPERTIES
    ReportArrives
CHECK_DEADLOCK FALSE
