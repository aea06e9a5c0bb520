SPECIFICATION FairSpec
CONSTANTS
    LastDay = 2
    MonthEnds = {1}
    Threshold = 2
    MaxChanges = 1
INVARIANTS TypeOK CurrentMeansCurrent
PROPERTIES ValuedOnFreshMatch CompletesInOrder MarketDataArrives BacklogDrains LatestIsRevalued
