\* Any stream of bytes.
SPECIFICATION Spec
CONSTANTS
    ByteMod = 3
    WordMod = 64
    FLAG = 1
    ESCAPE = 2
    PACKET_FCS_INITIAL = 1
    fcs_step <- MCFcsStep
    PACKET_MAX_PAYLOAD_LENGTH = 3
    RX_BUF_LEN = 11
INVARIANTS TypeOK InPlace PayloadFits OverlongHasWrapped
\* A byte stored past the end of rx_buf is undefined behaviour: the model stops.
CHECK_DEADLOCK FALSE
