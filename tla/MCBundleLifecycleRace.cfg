CONSTANTS
    d1 = d1
    d2 = d2
    l1 = l1
    l2 = l2
    f = f
    Missing = Missing
    Docs <- TwoDocs
    Live <- TwoLive
    Fixtures <- OneFixture
    Alone = {"rebase"}
    MaxStages = 2
    MaxEdits = 1
SYMMETRY MCSymmetry
SPECIFICATION Spec
CHECK_DEADLOCK FALSE
INVARIANTS
    OnlyApprovedIsPublished
