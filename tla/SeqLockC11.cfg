\* Two writers and a reader; the memory orders of the source.
SPECIFICATION Spec
CONSTANTS
    Writers = {w1, w2}
    Readers = {r1}
    FieldsAreRelaxed = TRUE
INVARIANT ReturnsConsistentPair
\* Every call is made once; the system stops when all have returned.
CHECK_DEADLOCK FALSE
