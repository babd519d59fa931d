CONSTANTS
    Sources = {z1}
    BuildRequests = {w1}
    Operations = {"upload", "run"}
    MaxBuilds = 1
    OtherRowIDs = {0}
    MayDisconnect = TRUE
    MayCrash = FALSE
SPECIFICATION FairSpec
PROPERTY RunningAlwaysFinishes
CHECK_DEADLOCK FALSE
