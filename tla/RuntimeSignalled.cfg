SPECIFICATION FairSpec
CONSTANTS
    server = server
    worker = worker
    pool = pool
    watcher = watcher
    signal1 = signal1
    signal2 = signal2
    logger = logger
    Tasks <- MCTasks
    Runnables <- MCRunnables
    Disposables <- MCDisposables
    JobCount <- MCJobCount
    Logger = logger
    Watcher = watcher
    Signals <- MCTwoSignals
INVARIANTS
    KillIsClean
    ExitCodeIsTrue
PROPERTIES
    DisposedOnce
    ProcessEnds
CHECK_DEADLOCK FALSE
