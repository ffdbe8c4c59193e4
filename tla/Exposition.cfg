\* Scrapes of two sources race additions and updates.
SPECIFICATION Safety
CONSTRAINT Bound
CONSTANTS
    Sources = {"h a", "h a too", "h a, other", "h a.sum", "g a_count", "g a:count",
               "c a", "c a.total", "g a.total", "c", "h 9"}
    Id <- MCId
    Kind <- MCKind
    Attrs = {"none", "k", "k number", "no value", "le", "clash", "no key"}
    KeyValues <- MCKeyValues
    NonFinite = {"h 9"}
    Infinite = Infinite
    Amounts = {1, 3}
    Boundaries <- MCBoundaries
    Modulus = 16
    Precision = 4
    MaxSources = 2
    MaxPoints = 2
    MaxValue = 2
    None = None
INVARIANTS
    TypeOK
    ValidExposition
    FamiliesAreOneMetric
    NothingHidden
    CollisionsAreReal
\* One scrape: the system stops.
CHECK_DEADLOCK FALSE
