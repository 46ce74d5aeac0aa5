SPECIFICATION Spec
CONSTANTS
    Kinds = {"list", "direct", "whole"}
    MaxRows = 5
    MaxAdded = 2
    MaxMoved = 1
    Page = 3
    MaxLimit = 2
    Default = 1
    Failures = TRUE
INVARIANTS TypeOK ConnHeldWhileWriting MissesBounded RepeatsBounded
PROPERTIES ExportEnds
CHECK_DEADLOCK FALSE
