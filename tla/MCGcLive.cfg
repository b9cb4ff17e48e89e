\* Liveness of the rendezvous (no symmetry: it is unsound for liveness).
CONSTANTS
    Threads = {t1, t2}
    NoThread = NoThread
    MaxRegistrations = 2
    MaxStops = 2
    MaxResets = 0
    DetachedAt = {}
SPECIFICATION FairSpec
PROPERTIES
    StopCompletes
    WaitersReleased
