SPECIFICATION LedgerSpec
CONSTANTS
    Paths = {p1, p2}
    Digests = {d1, d2}
    NoDigest = none
    HISTORY_CAPACITY = 3
    MANIFEST_CAPACITY = 2
SYMMETRY Symmetry
CONSTRAINT SpoiltBound
INVARIANTS RowsBacked WithinCapacity
PROPERTIES VersionsKept AbsentIsTrue RowsStay
