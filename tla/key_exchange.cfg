CONSTANTS
    Client = Client
    Server = Server
    Addresses = {1, 2}
SPECIFICATION Spec
CHECK_DEADLOCK FALSE
INVARIANTS KeyMeansMutualTrust CrashHasCause
PROPERTIES EveryExchangeEnds TrustedPeersGetKey NobodyStartsAlone
