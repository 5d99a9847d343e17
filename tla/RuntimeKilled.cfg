SPECIFICATION Spec
CONSTANTS
    server = server
    worker = worker
    pool = pool
    watcher = watcher
    signal1 = signal1
    signal2 = signal2
    logger = logger
    Tasks <- MCServer
    Runnables <- MCServer
    Disposables <- MCServer
    JobCount <- MCServerJobs
    Logger = logger
    Watcher = watcher
    Signals <- MCOneSignal
INVARIANTS
    KillDisposes
CHECK_DEADLOCK FALSE
