\* Three contexts that sleep, or get each other's results (no symmetry: liveness).
SPECIFICATION FairSpec
CONSTANTS
    k0 = k0
    k1 = k1
    MaxContexts = 3
    Carriers = {k0, k1}
    Primary = k0
    NoCarrier = NoCarrier
    AffinityScanWindow = 8
    MaxWindows = 0
    Programs <- LivePrograms
PROPERTIES
    QueuedIsDispatched
    WaitersResume
