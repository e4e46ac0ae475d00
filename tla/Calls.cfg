SPECIFICATION Spec
CONSTANTS
    c1 = c1
    c2 = c2
    n1 = n1
    Names = {n1}
    Calls = {c1, c2}
    Specs <- CallSpecs
    Texts <- Transport
    MaxGens = 2
    HostInstalled = TRUE
SYMMETRY CallSymmetry
INVARIANT IInv
INVARIANT ReadOnlyBindingNeverWrites
INVARIANT RegisteredIsRunnable
INVARIANT OneProfilePerCall
INVARIANT SessionsAccounted
INVARIANT ObservedOnce
PROPERTY CallPromise
