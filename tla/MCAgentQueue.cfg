SPECIFICATION QueueSpec
CONSTANTS
    t1 = t1
    w1 = w1
    w2 = w2
    NoWorker = NoWorker
    TaskIds = {t1}
    Trusted = {t1}
    MaxAttempts <- MCMaxAttempts
    Workers = {w1, w2}
    LeaseSeconds = {1, 2}
    Progress = {0, 1}
    InitProgress = 0
    Activities <- MCActivities
    MaxLag = 1
    MaxRevision = 5
    MaxNow = 3
SYMMETRY MCSymmetry
INVARIANT QueueInv
INVARIANT FencedWrites
INVARIANT LedgerGapFree
PROPERTY LiveLeaseOnlyHolderWrites
PROPERTY ExpiredLeaseNeverRequeued
CHECK_DEADLOCK FALSE
