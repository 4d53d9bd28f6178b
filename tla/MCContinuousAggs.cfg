CONSTANTS
    IntMin <- MinInt
    IntMax = 7
    Bucket = 2
    Point <- FewPoints
    c1 = c1
    c2 = c2
    w1 = w1
    w2 = w2
    Cagg = {c1, c2}
    Lag <- TwoLags
    Ignore <- TwoIgnores
    MaxInterval = 4
    Writer = {w1}
    Isolation = {"read", "snapshot"}
    MaxTxn = 1
    MaxRows = 2
    Clock = {3, 6}
    OlderThan = {2}
    JobsFail = TRUE
SPECIFICATION Spec
INVARIANTS
    TypeOK
    NoLostInvalidation
    MaterializedBelowThreshold
    
PROPERTY WatermarksAdvance
CHECK_DEADLOCK FALSE
