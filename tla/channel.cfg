CONSTANTS
    TimestampSize = 1
    SeqNumSize = 2
    MacSize = 1
    SecretSize = 1
    Base = 4
    HeaderSize = 2
    NonceSize = 1
    DataSize = 1
    Second = 2
    MaxSent = 3
    MaxRepeats = 1
    MaxSkew = 3
    MaxTicks = 5
    TornModes = {"seq-num"}
SPECIFICATION Spec
INVARIANTS FramesKept EveryPacketOpens NoncesNeverShared OnceInOrder LateForCause
PROPERTIES EverySentIsRead
CHECK_DEADLOCK FALSE
