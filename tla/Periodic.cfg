\* Two observers on a grid of two, exports every three, a channel of one batch; time for two batches.
SPECIFICATION Spec
CONSTRAINT Bound
CONSTANTS
    o1 = o1
    o2 = o2
    Observers = {o1, o2}
    PollPeriod = 2
    ExportPeriod = 3
    Capacity = 1
    Sink = "otel"
    StartSystem = 1
    MaxInstant = 8
    MaxTime = 6
    name = name
    host = host
    other = other
    x = x
    y = y
    Named <- MCNamed
    FreeKeys = {name, other, Empty}
    Values = {x, y, Empty}
    Empty = Empty
    None = None
    MaxFree = 3
INVARIANTS
    TypeOK
    OncePerTick
    AlignedNotAhead
    LeaveInOrderAndOnce
    RequestsNameTheResource
PROPERTIES
    NothingVanishes
    DropReturns
\* The clock is bounded: the system stops.
CHECK_DEADLOCK FALSE
