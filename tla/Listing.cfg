SPECIFICATION Spec
CONSTANTS
    r1 = r1
    r2 = r2
    r3 = r3
    r4 = r4
    Resources = {r1, r2, r3, r4}
    Named = {r1, r2, r3}
    Keys = {1, 2, 3, 4}
    Configs <- AllConfigs
    MaxChanges = 2
SYMMETRY Rows
INVARIANT IInv
INVARIANT EarlyEndHasCause
INVARIANT OnlyTiesMissed
INVARIANT NoneGivenTwice
INVARIANT OffsetShiftBounded
PROPERTY CursorAdvances
