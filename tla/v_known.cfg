SPECIFICATION SafetySpec
CONSTANTS
    PubKeys = {k1, k2}
    MaxIndex = 2
    PurgeRange = 2
    Resets = TRUE
    MaxKeys = 1
    MaxFailures = 0
    MaxCrashes = 1
    Undefined = Undefined
    Unwritten = Unwritten
INVARIANT KnownIsAuthorized
