SPECIFICATION Spec
CONSTANTS
    NumLegs = 1
    MaxOid = 2
    Approved <- OneShare
    Procs = {"app", "script"}
INVARIANTS TypeOK SingleLiveOrder ClosedRowNotLive
PROPERTIES EvidenceNeverErased
CHECK_DEADLOCK FALSE
