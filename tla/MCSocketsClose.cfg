SPECIFICATION Spec
CONSTANTS
    c1 = c1
    c2 = c2
    c3 = c3
    f1 = f1
    f2 = f2
    Users = {c1, c2, c3}
    NoWaiter = NoWaiter
    Fds = {f1, f2}
    NoFd = NoFd
    MaxSlots = 2
    MaxOpens = 2
    Generations = 4
    WriteLength = 2
    Programs <- StreamPrograms
INVARIANT
    DeferredClose
CHECK_DEADLOCK FALSE
