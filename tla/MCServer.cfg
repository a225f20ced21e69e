SPECIFICATION ServerSpec
CONSTANTS
    Callbacks = {c1, c2}
    Keys = {k1, k2}
    NoKey = NoKey
    NoKeys = NoKeys
    KeysLifetime = 1
    MaxKeysTime = 2
    IndexRequests = {r1, r2}
    MaxRelease = 1
    NoIndex = NoIndex
    Unlocked = Unlocked
    StoreUsers = {u1, u2, u3}
    Inodes = {n1, n2, n3}
    NoFile = NoFile
    Free = Free
SYMMETRY Symmetry
INVARIANTS SteadyKeyKnown KeysAgeBound IndexOfTheRequest TablesUnlessBlind
