\* Programs of two and three contexts, on two carriers but for one on three.
SPECIFICATION RuntimeSpec
CONSTANTS
    k0 = k0
    k1 = k1
    k2 = k2
    mx = mx
    rm = rm
    sem = sem
    MaxContexts = 3
    Primary = k0
    NoCarrier = NoCarrier
    AffinityScanWindow = 2
    MaxWindows = 1
    Mutexes = {mx}
    ReentrantMutexes = {rm}
    Semaphores = {sem}
    InitialPermits = 0
    MaxPermits = 1
    MaxHold = 2
    Carriers = {k0, k1, k2}
    Programs <- RuntimePrograms
SYMMETRY Symmetry
INVARIANTS
    DispatchedOnce
    NoRunnableLost
    JoinersHaveAWaker
    ResultBeforeResume
    CountersExact
    WorkIsAnnounced
    NoSilentHang
    HostOutcomeIsTrue
    WindowsComeHome
    OneFreezeWindow
    ParkedIoHasOneWaker
    NoGrantLost
    NobodyWaitsForAFreeOne
    NoReturnWithoutGrant
PROPERTIES
    DeadlockReportIsTrue
    DispatchWaitsForWindows
\* A suspended window can hide a deadlock: NoSilentHang says when all may sleep.
CHECK_DEADLOCK FALSE
