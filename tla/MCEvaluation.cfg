SPECIFICATION Spec
CONSTANTS
    Races <- MCRaces
    ScheduledStart <- MCScheduledStart
    CaptureTimes <- MCCaptureTimes
    SettleTimes <- MCSettleTimes
    Contested = {2}
    Outcomes = {"1-2-3", "2-1-3"}
    BASELINE = "phase32"
    OtherEngine = "other"
    MIN_RACES = 5
    LastTime = 7
    MaxRecords = 3
    MaxTrainings = 2
INVARIANT EvaluationIsHonest
INVARIANT LoadedWhole
PROPERTY DisputeNotOutvoted
CHECK_DEADLOCK FALSE
