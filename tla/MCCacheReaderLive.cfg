SPECIFICATION FairSpec
CONSTANTS
    Readers = {r1, r2}
    Identities = {i1}
    Vocabularies = {v1}
    Attempts = 2
    MaxFiles = 1
    MaxCommits = 1
    MaxHalts = 1
    MaxMoves = 0
    Nothing = Nothing
PROPERTIES LockReleased
