CONSTANTS
    h1 = h1
    h2 = h2
    c1 = c1
    c2 = c2
    NULL = NULL
    Handlers = {h1, h2}
    Claims = {c1}
    Reserves = {0, 1}
    MaxCrashes = 0
SPECIFICATION Spec
SYMMETRY Symmetry
INVARIANTS
    EntriesOnce
PROPERTIES
    StepsInOrder
