SPECIFICATION FairSpec
CONSTANTS
    sandbox = sandbox
    search = search
    unlimitedSandbox = unlimitedSandbox
    unlimitedSearch = unlimitedSearch
    a1 = a1
    a2 = a2
    b1 = b1
    b2 = b2
    b3 = b3
    u1 = u1
    u2 = u2
    Executors = {sandbox, search, unlimitedSandbox, unlimitedSearch}
    RateLimit <- Limits
    Limited = {sandbox, search}
    Checking = {search, unlimitedSearch}
    NumWorkers = 2
    ReleaseThreads = 1
    Calls = {a1, b1, b2, u1, u2}
    ExecutorOf <- Executor
CHECK_DEADLOCK FALSE
INVARIANTS
    PermitsConserved
    CountIsNearLimit
PROPERTIES
    ImplementsThrottle
    EveryCallEnds
    EverythingIsReturned
