SPECIFICATION Spec
CONSTANTS
    RowLimits = {1, 2, 3, 5}
    ByteLimits = {1, 2, 4, 7, 20}
    Matches <- SmallMatches
INVARIANT LongestFittingPrefix
INVARIANT TruncatedIsExact
INVARIANT UnmarkedIsWhole
INVARIANT Inv
