\* An unbounded channel and one with a single place, three contexts, two distinguishable values.
CONSTANTS
    Contexts = {c1, c2, c3}
    Values = {v, w}
    Capacities = {0, 1}
    MaxBuffered = 2
    NoValue = NoValue
SPECIFICATION ChannelSpec
INVARIANTS
    WaitersFaceAnEmptyBuffer
    OneWakePerPark
PROPERTY ImplementsBoundedChannel
\* Everybody may end up waiting for everybody: that is a program's own doing.
CHECK_DEADLOCK FALSE
