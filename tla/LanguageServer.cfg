\* Requests, cancellations, restarts and documents of a language server.
SPECIFICATION Servers
CONSTANTS
    Caller = {c1, c2}
    Operation = {definition}
    MaxPending = 2
    MaxId = 3
    MaxSession = 2
    Nobody = Nobody
    Document = {d1, d2}
    MaxVersion = 2
CHECK_DEADLOCK FALSE
INVARIANTS
    ServersTypeOK
    RightAnswer
    CapabilitiesOfThisServer
    InStep
PROPERTIES
    NothingHangs
