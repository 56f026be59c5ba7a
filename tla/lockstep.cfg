CONSTANTS
    Client = Client
    Server = Server
    Secrets = {s1, s2, s3, s4, s5, s6}
    NoSecret = NoSecret
    Payloads = {d1, d2}
    Window = 1
    Rekeying = TRUE
    AgreementMayFail = TRUE
    MayBeLate = FALSE
SPECIFICATION PollingSpec
INVARIANTS
    TypeOK
    LockstepInv
    ThreadsExcludeEachOther
    OpensAtFirstTry
PROPERTIES
    SwitchesToPeerKey
    LinkSafety
    LinkDelivers
    RekeyingCompletes
    SecretsForgotten
