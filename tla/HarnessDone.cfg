SPECIFICATION Spec
CONSTANTS
    Runs = {r1, r2}
    NumFeatures = 1
    Knobs <- MCKnobs
    Tasks = {t1, t2}
    NoRun = norun
    ManualOps = {}
    DefaultRetries = 1
    MaxRequests = 3
    MaxMishaps = 0
PROPERTIES DoneMeansGreen
CHECK_DEADLOCK FALSE
