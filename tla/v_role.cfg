CONSTANTS
    Client = Client
    Server = Server
    Secrets = {s1, s2, s3, s4, s5, s6}
    NoSecret = NoSecret
    Payloads = {d1}
    Window = 1
    Rekeying = TRUE
    AgreementMayFail = FALSE
    MayBeLate = TRUE
SPECIFICATION SafetySpec
SYMMETRY SecretSymmetry
INVARIANT RoleIsBool
