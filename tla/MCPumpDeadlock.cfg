\* Two contexts that join each other from inside windows.
SPECIFICATION RuntimeSpec
CONSTANTS
    k0 = k0
    k1 = k1
    k2 = k2
    mx = mx
    rm = rm
    sem = sem
    MaxContexts = 2
    Primary = k0
    NoCarrier = NoCarrier
    AffinityScanWindow = 2
    MaxWindows = 1
    Mutexes = {mx}
    ReentrantMutexes = {rm}
    Semaphores = {sem}
    InitialPermits = 0
    MaxPermits = 1
    MaxHold = 2
    Carriers = {k0, k1, k2}
    Programs <- WindowPrograms
INVARIANT DeadlockIsReported
CHECK_DEADLOCK FALSE
