SPECIFICATION Spec
CONSTANTS
    MaxAttempts = 1
    Target = 2
    MaxCrashes = 1
    Later = 1
    Requests <- RouterRequests
    Routers <- AppAndScript
PROPERTY KeepsObjective
