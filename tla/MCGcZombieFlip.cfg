\* A carrier abandoned while it waits inside BeginExecuting.
CONSTANTS
    Threads = {t1, t2}
    NoThread = NoThread
    MaxRegistrations = 3
    MaxStops = 1
    MaxResets = 1
    DetachedAt = {"begin", "running"}
SPECIFICATION Spec
PROPERTY ZombieTouchesNothing
