SPECIFICATION FairSpec
CONSTANTS
    NumLegs = 1
    MaxOid = 2
    Approved <- TwoShares
    Procs = {"app"}
INVARIANTS LiveOrderTracked ExecutedWithinApproval
PROPERTIES ClaimResolvedByBroker FillsReachLedger
CHECK_DEADLOCK FALSE
