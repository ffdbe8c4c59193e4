\* Aligned timestamps after a tick was missed.
SPECIFICATION Safety
CONSTANTS
    o1 = o1
    o2 = o2
    Observers = {o1}
    PollPeriod = 2
    ExportPeriod = 2
    Capacity = 1
    Sink = "stdout"
    StartSystem = 1
    MaxInstant = 8
    MaxTime = 6
    name = name
    host = host
    other = other
    x = x
    y = y
    Named <- MCNamed
    FreeKeys = {name, other, Empty}
    Values = {x, y, Empty}
    Empty = Empty
    None = None
    MaxFree = 0
INVARIANTS
    AlignedIsTheTick
\* The clock is bounded: the system stops.
CHECK_DEADLOCK FALSE
