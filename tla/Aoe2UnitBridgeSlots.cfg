SPECIFICATION Spec
CONSTANTS
    UnitId = {u1, u2}
    FeatureId = {f1, f2}
    Corpses = {f1}
    OwnCorpses = {f2}
    Kind <- MCKind
    Def = {"mapped", "broken", "native"}
    ReusePages = {TRUE, FALSE}
    MaxPages = 3
    MaxEvents = 3
INVARIANTS
    TypeOK ActiveListsAgree InstancesOwned NoGhost EveryCorpseShown ShownIfPagesStay
SYMMETRY MCSymmetry
