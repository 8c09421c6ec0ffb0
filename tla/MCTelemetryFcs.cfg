\* Packets whose checksum may begin with a flag or an escape.
SPECIFICATION Spec
CONSTANTS
    ByteMod = 4
    WordMod = 16
    FLAG = 2
    ESCAPE = 3
    PACKET_FCS_INITIAL = 15
    fcs_step <- MCFcsStep
    cb_raises <- MCCallbackRaises
    FlagRun = 4
    MAX_PACKET_LEN = 12
    MAX_PACKET = 2
    Alphabet = {0, 1, 2, 3}
    MCByteBits = 2
    MCPolynomial = 12
    Packets <- FcsPackets
    IsrPackets <- ShortPackets
INVARIANTS UncutArrives
