SPECIFICATION Spec
CONSTANTS
    Readers = {r1, r2}
    Identities = {i1, i2}
    Vocabularies = {v1}
    Attempts = 3
    MaxFiles = 2
    MaxCommits = 0
    MaxHalts = 0
    MaxMoves = 3
    Nothing = Nothing
SYMMETRY Symmetry
INVARIANTS AuthorityMatchesSnapshot RetriesAreEarned
