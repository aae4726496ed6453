SPECIFICATION Spec
CONSTANTS
    Operations = {o1, o2}
    Durations = {1, 2}
    Reports = {r1}
    Payloads = {one, other}
    Width = 2
    Buckets = 2
    FirstTime = 1
    MaxTime = 4
    MaxDenials = 1
    None = None
SYMMETRY Symmetry
CHECK_DEADLOCK FALSE
INVARIANTS
    ReportAddsUp
    PercentilesExact
    AckedReportStands
