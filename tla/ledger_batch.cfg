SPECIFICATION Spec
CONSTANTS
    NumLegs = 2
    MaxOid = 2
    Approved <- TwoLegs
    Procs = {"app"}
PROPERTIES UncertainBlocksRouting
CHECK_DEADLOCK FALSE
