SPECIFICATION FairSpec
CONSTANTS
    Runs = {r1}
    NumFeatures = 1
    Knobs <- MCKnobs
    Tasks = {t1, t2}
    NoRun = norun
    ManualOps = {"init", "verify", "stop"}
    DefaultRetries = 1
    MaxRequests = 3
    MaxMishaps = 1
PROPERTIES WorkEnds
CHECK_DEADLOCK FALSE
