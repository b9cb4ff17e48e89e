\* Three contexts, a class and a static local, one failure.
CONSTANTS
    main = main
    c1 = c1
    c2 = c2
    class = class
    local = local
    Contexts = {main, c1, c2}
    Owners = {class, local}
    SlotOwners = {local}
    Main = main
    NoOwnerCtx = NoOwnerCtx
    NoTarget = NoTarget
    Programs <- MCPrograms
    MaxFailures = 1
SPECIFICATION StaticInitSpec
INVARIANTS
    OneInitializer
PROPERTIES
    PassesAreEarned
    GateWaitersResume
CHECK_DEADLOCK FALSE
