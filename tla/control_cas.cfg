SPECIFICATION FairSpec
CONSTANTS
  k1 = k1
  k2 = k2
  c1 = c1
  c2 = c2
  c3 = c3
  a = a
  b = b
  Keys = {k1, k2}
  LegacyKey = k1
  Changes = {c1, c2, c3}
  Content <- MCContent
  Apps = {a, b}
  Scripts = {}
  Legacy = legacy
  NoChange = no_change
  NoKey = no_key
  LastTime = 8
  MaxRevision = 2
INVARIANT HeldAreReplayed
PROPERTIES KeepsLifecycle NeverBackdated InterruptedQueueRecovered
CHECK_DEADLOCK FALSE
