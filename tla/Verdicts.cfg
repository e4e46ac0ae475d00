SPECIFICATION Spec
CONSTANTS
    c1 = c1
    c2 = c2
    n1 = n1
    Names = {n1}
    Calls = {c1, c2}
    Specs <- OneSpec
    Texts <- AllTexts
    MaxGens = 2
    HostInstalled = TRUE
INVARIANT VerdictFitsLabel
