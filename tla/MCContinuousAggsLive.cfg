CONSTANTS
    IntMin <- MinInt
    IntMax = 7
    Bucket = 2
    Point <- Points
    c1 = c1
    c2 = c2
    w1 = w1
    w2 = w2
    Cagg = {c1, c2}
    Lag <- TwoLags
    Ignore <- TwoIgnores
    MaxInterval = 4
    Writer = {w1}
    Isolation = {"read"}
    MaxTxn = 1
    MaxRows = 1
    Clock = {5, 6}
    OlderThan = {2}
    JobsFail = FALSE
SPECIFICATION FairSpec
 
PROPERTIES  CatchesUp
CHECK_DEADLOCK FALSE
