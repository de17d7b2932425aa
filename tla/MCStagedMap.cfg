CONSTANTS
    MapPaths = {m1}
    Startup = startup
    Payloads = {d1, d2}
    Serials = {s1, s2}
    None = none
    Absent = absent
    Torn = torn
    Chunks = 2
    MaxUploads = 3
    MaxFaults = 3
SPECIFICATION Spec
SYMMETRY Symmetry
INVARIANTS StagedIsAnUpload OverStaysOver SourceStable
