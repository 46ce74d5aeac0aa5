SPECIFICATION Spec
CONSTANTS
    i1 = i1 i2 = i2 k1 = k1 k2 = k2 v1 = v1 v2 = v2
    Kinds = {"merge"}
    OverlapKinds = {"merge"}
    Importer <- MCImporter
    Key <- MCKey
    Val <- MCVal
    Uploads <- MCUploads
    Bad = Bad
    Blank = Blank
    MaxRows = 1
    MaxId = 2
    MaxImports = 2
SYMMETRY Symmetry
PROPERTY CreateRejectsDuplicates
CHECK_DEADLOCK FALSE
