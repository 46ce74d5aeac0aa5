SPECIFICATION Spec
CONSTANTS
    s1 = s1 s2 = s2 t1 = t1 u1 = u1 k1 = k1 k2 = k2 m1 = m1 m2 = m2
    a1 = a1 a2 = a2 p1 = p1 p2 = p2 c1 = c1 c2 = c2
    None = None
    Student <- MCStudent
    Teacher <- MCTeacher
    User <- MCUser
    Tingkat <- MCTingkat
    Materi <- MCMateri
    Attendance <- MCAttendance
    Mark <- MCMark
    Slot <- MCSlot
    Client <- MCClient
    SeedTingkat <- MCSeedTingkat
    SeedMateri <- MCSeedMateri
SYMMETRY Symmetry
INVARIANTS TypeOK RefIntegrity UniqueKeys
PROPERTIES AttendanceKept MarkLossExplained
