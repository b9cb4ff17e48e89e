\* Two contexts that only compute, under fair threads.
SPECIFICATION FairSpec
CONSTANTS
    k0 = k0
    k1 = k1
    MaxContexts = 2
    Carriers = {k0, k1}
    Primary = k0
    NoCarrier = NoCarrier
    AffinityScanWindow = 8
    MaxWindows = 0
    Programs <- ComputePrograms
PROPERTY ProgramEnds
