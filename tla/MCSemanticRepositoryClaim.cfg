SPECIFICATION Spec
CONSTANTS
    Publishers = {p1, p2}
    Editions = {e1, e2}
    Parts = {f1, f2}
    Nothing = Nothing
SYMMETRY Symmetry
INVARIANTS OnePublication
