SPECIFICATION TrustedSpec
CONSTANTS
    t1 = t1
    t2 = t2
    h1 = h1
    h2 = h2
    h3 = h3
    i1 = i1
    w1 = w1
    w2 = w2
    w3 = w3
    w4 = w4
    NoWorker = NoWorker
    TaskIds = {t1, t2}
    Trusted = {t1, t2}
    MaxAttempts <- MCMaxAttempts
    Workers = {w1, w2, w3, w4}
    LeaseSeconds = {1}
    Progress <- MCProgress
    InitProgress = "unstarted"
    Activities = {}
    MaxLag = 0
    MaxRevision = 7
    MaxNow = 2
    Hosts = {h1, h2, h3}
    Target <- MCTarget
    Inspectors = {i1}
    WorkerOf <- MCWorkerOf
    LeaseLength = 1
    MaxRequeues = 1
INVARIANT ApprovalSpentOnce
INVARIANT SingleActiveTrustedRun
CHECK_DEADLOCK FALSE
