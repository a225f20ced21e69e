SPECIFICATION Spec
CONSTANTS
    Readers = {r1, r2}
    Identities = {i1}
    Vocabularies = {v1, v2}
    Attempts = 2
    MaxFiles = 2
    MaxCommits = 1
    MaxHalts = 0
    MaxMoves = 0
    Nothing = Nothing
SYMMETRY Symmetry
INVARIANTS StoreMatchesSnapshot ServedIsCurrent
PROPERTIES NoSpuriousUnavailable
