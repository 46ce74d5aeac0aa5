SPECIFICATION Spec
CONSTANTS
    Materi = {m1}
    Statuses = {belum, tuntas}
    Belum = belum
    Nilai = {v}
    Months = {7, 9}
    Notes = {w}
    Blank = blank
    Slots = {s1, s2}
    MaxActs = 2
    MaxId = 8
    AgeGroups = {a, b}
    Items = {i1}
    MaxWrites = 2
    Reports = {a, b}
    Posts = {s1, s2}
    NoReport = none
INVARIANTS
    GrTypeOK GridSettles EditsStick
    KurTypeOK KurSettles
    RecordedOnce
    FrTypeOK 
PROPERTIES
    RoundTrip MateriStays 
SYMMETRY Symmetry
