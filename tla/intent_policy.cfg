SPECIFICATION Spec
CONSTANTS
    MaxAttempts = 2
    Target = 2
    MaxCrashes = 1
    Later = 0
    Requests <- PolicyRequests
    Routers <- AppOnly
INVARIANTS TypeOK MissedHasNoOrder ClaimPrecedesApproval
PROPERTY KeepsObjective
