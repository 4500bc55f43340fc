SPECIFICATION Spec
CONSTANTS
    Counts = {7}
    Outcomes = {o1, o2}
    HELD_STATUSES = {dead_heat}
    MAX_SNAPSHOTS = 2
    Lead = 2
    MaxClock = 2
    MaxKeys = 3
    MaxRestarts = 2
    MaxRestores = 1
INVARIANT AnsweredSurvives
INVARIANT SessionNeverLocksItself
INVARIANT ReviewIsFaithful
CHECK_DEADLOCK FALSE
