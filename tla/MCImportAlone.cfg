SPECIFICATION Spec
CONSTANTS
    i1 = i1 i2 = i2 k1 = k1 k2 = k2 v1 = v1 v2 = v2
    Kinds = {"loose", "unique", "merge"}
    OverlapKinds = {"loose", "unique", "merge"}
    Importer <- AloneImporter
    Key <- MCKey
    Val <- MCVal
    Uploads <- MCUploads
    Bad = Bad
    Blank = Blank
    MaxRows = 1
    MaxId = 2
    MaxImports = 2
PROPERTY ImportEnds
CHECK_DEADLOCK FALSE
