\* Packets whose length and first checksum byte need no escape.
SPECIFICATION Spec
CONSTANTS
    ByteMod = 8
    WordMod = 64
    FLAG = 6
    ESCAPE = 7
    PACKET_FCS_INITIAL = 63
    fcs_step <- MCFcsStep
    cb_raises <- MCCallbackRaises
    FlagRun = 4
    MAX_PACKET_LEN = 4
    MAX_PACKET = 2
    Alphabet = {0, 6, 7}
    MCByteBits = 3
    MCPolynomial = 48
    Packets <- PlainPackets
    IsrPackets <- ShortPackets
INVARIANTS DeframerTypeOK AccumulatorFits PreemptorArrives UncutArrives ExceptionsNeedATear
