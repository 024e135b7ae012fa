CONSTANTS
    Urls = {"pull/1", "pull/2"}
    Stall = 2
    CheckEvery = 2
    OutCap = 2
    ErrCap = 1
    Budget = 3
    Threshold = 8
    Escalated = {"security"}
    Confidences = {0, 8}
    Categories = {"security", "style"}
    MaxFindings = 2
SPECIFICATION Spec
INVARIANT TypeOK
INVARIANT ResultIsComplete
 
PROPERTY OnlyTheSilentAreKilled
PROPERTY ReadingEnds
CHECK_DEADLOCK FALSE
