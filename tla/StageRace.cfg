\* The stage of one competition: two requests of its manager.
SPECIFICATION StageAlone
CONSTANTS
    NULL = NULL
    Candidates = {c1}  Finalizers = {f1}  MaxScore = 0
    Performers = {p1, p2}  StageCalls = {s1, s2}
    MaxSlots = 2  MaxStageFaults = 0
INVARIANT
    SlotsFollowPerformer
CHECK_DEADLOCK FALSE
