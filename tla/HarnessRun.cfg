SPECIFICATION Spec
CONSTANTS
    Runs = {r1, r2}
    NumFeatures = 2
    Knobs <- MCKnobs
    Tasks = {t1, t2}
    NoRun = norun
    ManualOps = {"init", "verify", "stop"}
    DefaultRetries = 1
    MaxRequests = 3
    MaxMishaps = 1
SYMMETRY Symmetry
INVARIANTS OneDriver DoneWasGated RestIsHonest KnobsSurvive DiskIsCurrent
CHECK_DEADLOCK FALSE
