SPECIFICATION Spec
CONSTANTS
    Notifications = {n1, n2}
    InAppCopies = {n2}
    Jobs = {j1, j2}
    MaxRetries = 1
    MaxFaults = 2
    MaxReopens = 1
INVARIANTS
    TypeOK
    MailedOnce
    SentWasMailed
    CopiesNotMailed
PROPERTIES
    WaitingEnds
    OneSender
CHECK_DEADLOCK FALSE
