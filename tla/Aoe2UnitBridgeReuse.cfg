SPECIFICATION Spec
CONSTANTS
    UnitId = {u1, u2}
    FeatureId = {}
    Corpses = {}
    OwnCorpses = {}
    Kind <- MCKind
    Def = {"mapped"}
    ReusePages = {TRUE}
    MaxPages = 2
    MaxEvents = 3
INVARIANTS
    EveryUnitShown
SYMMETRY MCSymmetry
