SPECIFICATION Spec
CONSTANTS
    Readers = {r1, r2}
    Identities = {i1}
    Vocabularies = {v1, v2}
    Attempts = 2
    MaxFiles = 2
    MaxCommits = 0
    MaxHalts = 0
    MaxMoves = 3
    Nothing = Nothing
SYMMETRY Symmetry
INVARIANTS StoreMatchesSnapshot
