\* Calls and drains in every mix of Scenarios.
SPECIFICATION Spec
CONSTRAINT Bound
CONSTANTS
    a21 = a21
    b21 = b21
    a12 = a12
    a211 = a211
    a1 = a1
    a312 = a312
    a231 = a231
    r12 = r12
    add0 = add0
    set0 = set0
    reset0 = reset0
    t1 = t1
    t2 = t2
    v1 = v1
    k1 = k1
    Calls = {a21, b21, a12, a211, a1, r12, add0, set0, reset0}
    Op <- MCOp
    Attrs <- MCAttrs
    Drains = {t1, t2, v1, k1}
    Kind <- MCKind
    NoAttr = NoAttr
    Nobody = Nobody
INVARIANTS
    TypeOK
    BucketMapInv
    OneSeriesPerAttributeSet
    AttributedCallsConserved
    FreshCallsAreLive
    SettledWritesAreFlagged
    CountIsTableSize
PROPERTIES
    CallsReturn
\* Every call is made once; the system stops when all have returned.
CHECK_DEADLOCK FALSE
