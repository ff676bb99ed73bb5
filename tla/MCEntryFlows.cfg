SPECIFICATION Spec
CONSTANTS
    t1 = t1
    t2 = t2
    s1 = s1
    s2 = s2
    Tokens <- MCTokens
    SelfHosted <- MCServers
    Cloud = Cloud
    Accounts = {"own", "other"}
    Own = "own"
    NoProfile = NoProfile
    NoAccount = NoAccount
SYMMETRY Symmetry
INVARIANTS
    SessionsAreOwned
    StoredProfileIsUsed
    OnlyOwnEntities
PROPERTIES
    StoredProfileWasValidated
