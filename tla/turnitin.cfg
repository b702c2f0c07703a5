\* A file on its way through Turnitin: the service may be busy or refuse at any
\* call, web hooks may be lost, and one more thing goes wrong on the way.
CONSTANTS
    Hooks = {h1}
    MaxRetries = 1
    Troubles = {"busy", "refused"}
    MaxEvents = 1
SPECIFICATION Spec
INVARIANTS
    TypeOK
    NeverAhead
    HandedInOnce
PROPERTIES
    GetsToRequest
CHECK_DEADLOCK FALSE
