CONSTANTS
    Keys = {k1, k2}
    Hashes = {ha, hb}
    NoHash = NoHash
    MaxHeight = 3
    EventDepths = {0, 2}
    DefaultDepth = 1
    MaxDepth = 2
    MaxNotices = 1
SPECIFICATION Spec
INVARIANTS TypeOK HeadIsTop NoticesNameRetracted NothingOverdue
PROPERTIES DroppedKeysRetracted RetractedIsTerminal ConfirmedIsBuried UpdatesMirrorStates
SYMMETRY KeySymmetry
