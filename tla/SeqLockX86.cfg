\* Two writers and a reader; every read-modify-write a full barrier.
SPECIFICATION Spec
CONSTANTS
    Writers = {w1, w2}
    Readers = {r1}
    FieldsAreRelaxed = FALSE
INVARIANT ReturnsConsistentPair
\* Every call is made once; the system stops when all have returned.
CHECK_DEADLOCK FALSE
