SPECIFICATION RecSpec
CONSTANTS
    Ids = {a, b}
    Pages = {p1, p2}
    None = none
    New = new
    MaxClock = 3
    MaxLoad = 2
    MaxFlights = 2
    MaxEntries = 3
INVARIANTS RecTypeOK OwnWritesShown FormKnowsOwnSaves FormOfOpenRecord
PROPERTIES TypedInputKept NeverBack
SYMMETRY Symmetry
