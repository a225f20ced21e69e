SPECIFICATION Spec
CONSTANTS
    Workers = {w1, w2}
    Owners = {o1, o2}
    Tokens = {t1, t2, t3}
    Issuers = {i1, i2}
    SessionLifetime = 1
    MaxSessions = 1
    MaxTime = 1
SYMMETRY Symmetry
INVARIANTS SessionBound
PROPERTIES LogoutIsFinal AcceptedWasGranted NoSpuriousLogout
