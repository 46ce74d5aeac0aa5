SPECIFICATION Spec
CONSTANTS
    TabSet = {t1}
    Users = {u1, u2}
    Nobody = nobody
    MaxPath = 4
    MetaMissed = FALSE
INVARIANTS TypeOK 
PROPERTIES GuardsSettle Untrapped
