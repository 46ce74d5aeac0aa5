SPECIFICATION Spec
CONSTANTS
    Kinds = {"list"}
    MaxRows = 4
    MaxAdded = 1
    MaxMoved = 1
    Page = 3
    MaxLimit = 2
    Default = 1
    Failures = FALSE
INVARIANTS ExportWritesEachRow
CHECK_DEADLOCK FALSE
