SPECIFICATION Spec
CONSTANTS
    MaxAttempts = 2
    Target = 1
    MaxCrashes = 0
    Later = 2
    Requests <- OperatorRequests
    Routers <- AppOnly
PROPERTY KeepsObjective
