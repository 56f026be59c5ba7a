CONSTANTS
    Client = Client
    Server = Server
    Secrets = {s1, s2, s3, s4}
    NoSecret = NoSecret
    Payloads = {d1}
    Window = 2
    Rekeying = TRUE
    AgreementMayFail = FALSE
    MayBeLate = FALSE
SPECIFICATION PollingSpec
CHECK_DEADLOCK FALSE
PROPERTY RekeyingCompletesUnderTraffic
