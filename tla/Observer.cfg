SPECIFICATION Safety
CONSTANTS
    u1 = u1
    u2 = u2
    u3 = u3
    u4 = u4
    x1 = x1
    x2 = x2
    d1 = d1
    d2 = d2
    g1 = g1
    r1 = r1
    direct = direct
    delta = delta
    drain1 = drain1
    drain2 = drain2
    watch = watch
    trace = trace
    Keys = {1, 2}
    Attributes <- MCAttributes
    Updates = {u1, u2, u3, u4, x1, x2, d1, d2, g1, r1}
    Op <- MCOp
    Key <- MCKey
    Amount <- MCAmount
    Fingerprints = {"two"}
    Fingerprint <- MCFingerprint
    NeedsAlias <- MCNeedsAlias
    Observers = {direct, delta, drain1, drain2, watch, trace}
    Mode <- MCMode
    Sink <- MCSink
    Align <- MCAlign
    Boundaries <- MCBoundaries
    Starts <- MCStarts
    Period = 2
    MaxDelay = 5
    Worlds <- MCWorlds
    MaxI64 = 2
    MaxU32 = 1
    MaxNanos = 9
    Modulus = 16
    DayLength = 8
    None = None
    NoTime = NoTime
    Infinity = Infinity
    Blank = Blank
INVARIANTS
    TypeOK
    NothingInvented
    NothingMissed
    DropsAreUnrepresentable
    TimesIncrease
    TextReadable
    DrainedOnceOrLate
\* Updates are made once and observations are bounded: the system stops.
CHECK_DEADLOCK FALSE
