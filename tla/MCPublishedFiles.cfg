SPECIFICATION PublishedSpec
CONSTANTS
    Publishers = {p1, p2, p3}
    Editions = {e1, e2}
    Parts = {f1, f2}
    Nothing = Nothing
    Visitors = {v1, v2}
    Unheld = Unheld
    Readers = {r1, r2}
    Assets = {a1, a2}
    MaxFiles = 3
    NoJournal = NoJournal
SYMMETRY Symmetry
CONSTRAINT Small
INVARIANTS PromiseKept AnswersTrue ServedAsPublished ReadersNeverTorn
PROPERTIES NeverReplaced ImplementsAtomicCache ImplementsWriteOnce
