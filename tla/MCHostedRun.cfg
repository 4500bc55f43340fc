SPECIFICATION HostedSpecWithRecovery
CONSTANTS
    t1 = t1
    t2 = t2
    w1 = w1
    r1 = r1
    r2 = r2
    NoWorker = NoWorker
    TaskIds = {t1, t2}
    Trusted = {t1}
    MaxAttempts <- MCMaxAttempts
    Workers = {w1}
    LeaseSeconds = {2}
    Progress <- MCProgress
    InitProgress = "unstarted"
    Activities <- MCActivities
    MaxLag = 0
    MaxRevision = 16
    MaxNow = 3
    Runs = {r1, r2}
    WorkerId <- MCWorkerId
    Expected <- MCExpected
    Claims <- MCClaims
    LeaseLength = 2
    Margin = 1
    Slack = 1
    OwnerStatuses = {"queued"}
    OwnerStates = {"unstarted"}
    MaxOwnerSaves = 1
    MaxCreated = 1
SYMMETRY MCSymmetry
INVARIANT OneExecutionPerTask
INVARIANT ForeignWorkOnlyBlocked
INVARIANT ReadsAreGuarded
INVARIANT EvidenceIsSound
PROPERTY LeasedProgressMonotone
CHECK_DEADLOCK FALSE
