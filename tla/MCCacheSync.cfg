SPECIFICATION SynchroniserSpec
CONSTANTS
    Runs = {r1, r2}
    Sources = {s1, s2}
    MaxGeneration = 3
    MaxExtras = 2
    Nothing = Nothing
    Ids = {1, 2, 3, 4}
    BatchSize = 2
    NoChapter = 0
    Threads = {t1, t2}
    Nobody = Nobody
    NoAssertion = NoAssertion
    Lifetimes = {2, 4, 6, 8}
    Margin = 4
    MinRefresh = 2
    MaxClock = 10
SYMMETRY Symmetry
CONSTRAINT Small
INVARIANTS OneGeneration PartsOfTheirTime SectionsAreClosure HonestNotRefused
PROPERTIES StaleOnlyWhenOvertaken NoExpiredHeader HeadersInOrder
