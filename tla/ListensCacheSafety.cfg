SPECIFICATION Spec
CONSTANTS
    Listens = {1, 2}
    Pages <- OnePage
    Readers = {r1, r2}
    Changers = {c1, c2}
    MaxChanges = 2
    MaxFailures = 1
    None = None
SYMMETRY BothSymm
INVARIANTS PagesFresh CountNotAhead
CHECK_DEADLOCK FALSE
