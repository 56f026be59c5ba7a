SPECIFICATION SafetySpec
CONSTANTS
    PubKeys = {k1, k2, k3}
    MaxIndex = 2
    PurgeRange = 1
    Resets = TRUE
    MaxKeys = 3
    MaxFailures = 2
    MaxCrashes = 2
    Undefined = Undefined
    Unwritten = Unwritten
SYMMETRY PeerSymmetry
INVARIANTS TypeOK AuthorizedWasPaired RowsNeverSwapped KeyOfOneRun
PROPERTY OnlyResetRevokes
