SPECIFICATION FilesSpec
CONSTANTS
    Readers = {r1}
    Assets = {a1, a2}
    MaxFiles = 2
    NoJournal = NoJournal
SYMMETRY Symmetry
INVARIANTS RestartSafe
