\* Two writers and a scan, or a writer and two scans, in every mix.
SPECIFICATION Spec
CONSTRAINT Bound
CONSTANTS
    a1 = a1
    a2 = a2
    sub1 = sub1
    r1 = r1
    t1 = t1
    t2 = t2
    Adds = {a1, a2}
    Subs = {sub1}
    Reads = {r1}
    Takes = {t1, t2}
    First = First
    NoGen = NoGen
    NaN = NaN
    Modulus = 4
    Boundaries <- MCBoundaries
    Values = {1, 2}
INVARIANTS
    TypeOK
    HistogramInv
    ConsistentSnapshot
    BucketsAddUpToCount
    SettledUpdatesAreSeen
    DrainedOnce
PROPERTIES
    ImplementsPromise
    CallsReturn
\* Every call is made once; the system stops when all have returned.
CHECK_DEADLOCK FALSE
