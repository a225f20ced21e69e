SPECIFICATION EncounterSpec
CONSTANTS
    s1 = s1
    s2 = s2
    t1 = t1
    t2 = t2
    t3 = t3
    SourceOrder <- TwoSources
    Creatures = {c1, c2}
    ImmunitySteps = 2
    MaxStep = 3
    NoSave = NoSave
    Targets = {g1, g2}
    PathLength = 2
    MaxTargets = 2
    Rolls = {1, 2}
    Defences = {d1, d2}
    None = None
    Width = 5
    Height = 2
    MaxRun = 3
    Footprint <- Wide
    Blocked = {}
    CreatureOrder <- ThreeCreatures
    OtherFootprint <- Shapes
    TooLarge = {t3}
    MaxMoves = 1
    Gone = Gone
    NoActivity = NoActivity
SYMMETRY Symmetry
INVARIANTS QueueSound NobodyEscapes TrampledOnce PreviewCurrent TramplesItsPath
PROPERTIES ImmuneForAMinute BestRunTaken
CHECK_DEADLOCK FALSE
