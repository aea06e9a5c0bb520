SPECIFICATION Spec
CONSTANTS
  o1 = o1
  Execs <- MCExecs
  Orders <- MCOrders
  OrderOf <- MCOrderOf
  Correctable <- MCCorrectable
  SessionEnds <- MCSessionEnds
  MaxTime = 2
  MaxBaselines = 2
  MaxBusy = 2
INVARIANT FoldedUnchanged
PROPERTIES CompactionKeepsBooks NoBaselineOverConflict
