SPECIFICATION Spec
CONSTANTS
    Workers = {w1, w2}
    Browsers = {b1, b2}
    States = {s1, s2}
    Cookies = {c1, c2}
    NoCookie = NoCookie
    Tokens = {t1, t2}
    PendingLifetime = 2
    MaxPending = 1
    MaxTime = 3
SYMMETRY Symmetry
INVARIANTS OneSessionPerAuthorization GrantedToItsBrowser PendingBound
PROPERTIES ImplementsOneUse NoSpuriousRefusal
