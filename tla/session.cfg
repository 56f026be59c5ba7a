CONSTANTS
    Client = Client
    Server = Server
    MaxSessions = 3
    MayDie = TRUE
SPECIFICATION Spec
INVARIANTS TypeOK NoSpuriousReset
PROPERTIES DeviceLossEndsSession SessionsEndTogether ExitIsHonoured ResetReturns
