SPECIFICATION FileSpec
CONSTANTS
    Values = {empty, v1, v2}
    Empty = empty
    Absent = absent
    Torn = torn
PROPERTY ImplementsDurable
