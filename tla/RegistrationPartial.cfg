\* A call of a collection fails half way and is tried again.
SPECIFICATION Safety
CONSTANTS
    g1 = g1
    g2 = g2
    h1 = h1
    prom = prom
    per = per
    a1 = a1
    a2 = a2
    a3 = a3
    a4 = a4
    d1 = d1
    d2 = d2
    p1 = p1
    Sources = {g1, g2, h1}
    Id <- MCId
    Kind <- MCKind
    Collectors = {prom, per}
    Periodic = {per}
    Tuples <- Both
    Calls = {a1, a4}
    Src <- MCSrc
    Via <- MCVia
    None = None
INVARIANTS
    HeldOnceByEach
\* Every call is made once: the system stops.
CHECK_DEADLOCK FALSE
