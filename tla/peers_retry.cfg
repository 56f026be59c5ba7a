SPECIFICATION Spec
CONSTANTS
    PubKeys = {k1, k2}
    MaxIndex = 2
    PurgeRange = 2
    Resets = FALSE
    MaxKeys = 5
    MaxFailures = 2
    MaxCrashes = 2
    Undefined = Undefined
    Unwritten = Unwritten
INVARIANT KnownIsAuthorized
PROPERTY EveryPeerJoins
