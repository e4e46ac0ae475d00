SPECIFICATION FairSpec
CONSTANTS
    m = m
    n = n
    r1 = r1
    r2 = r2
    c1 = c1
    c2 = c2
    Names = {m, n}
    ArgNames = {"schema", "id"}
    Registrations = {r1, r2}
    Calls = {c1, c2}
    Profiles <- TwoProfiles
INVARIANT IInv
INVARIANT SchemasOfProfile
INVARIANT SchemaNeverAnothers
PROPERTY RegistrationEnds
