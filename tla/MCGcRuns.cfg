\* Two runs: carriers of the first may be abandoned anywhere but inside
\* BeginExecuting's wait, an initiation or a collection.
CONSTANTS
    Threads = {t1, t2, t3}
    NoThread = NoThread
    MaxRegistrations = 3
    MaxStops = 1
    MaxResets = 1
    DetachedAt = {"idle", "running", "arrive", "await", "wait", "notify", "reenter", "regil", "leave"}
SPECIFICATION Spec
INVARIANTS
    TypeOK
    NoBytecodeDuringCollection
    OneCollectorPerStop
    CountMatchesBits
    FreeListExact
    NoTripwire
PROPERTY ZombieTouchesNothing
SYMMETRY ThreadSymmetry
