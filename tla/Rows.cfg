SPECIFICATION Spec
CONSTANTS
    Columns <- AllColumns
    Names = {1, 2}
    Uri = 2
    Cells = {0, 1}
    Limits = {0, 1, 2}
INVARIANT ValuesStayApart
INVARIANT SuggestionsAreCells
INVARIANT CursorRoundTrips
