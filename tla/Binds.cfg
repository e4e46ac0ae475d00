SPECIFICATION Spec
CONSTANTS
    Half = 16
    Ulp = 4
    ArgNames = {"x", "y"}
    ParamLists <- Lists
    Numbers <- Edges
    PageSizes = {1, 2}
INVARIANT BindsPositional
INVARIANT AllOrNothing
INVARIANT OffsetNeverAnother
