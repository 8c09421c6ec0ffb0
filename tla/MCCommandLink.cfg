\* Commands of up to one byte, two errors in a poll that sends one, one in a poll that does
\* not, and any number of polls.
SPECIFICATION Spec
CONSTANTS
    ByteMod = 4
    WordMod = 64
    FLAG = 2
    ESCAPE = 3
    PACKET_FCS_INITIAL = 15
    fcs_step <- MCFcsStep
    FlagRun = 4
    PACKET_MAX_PAYLOAD_LENGTH = 2
    RX_BUF_LEN = 8
    Preamble = 3
    Padding = 4
    MAX_HITS = 2
    MAX_IDLE_HITS = 1
    MAX_COMMAND = 1
    Commands <- MCCommands
INVARIANTS UntouchedIsObeyed PaddedIsPrompt
\* A byte stored past the end of rx_buf is undefined behaviour: the model stops.
CHECK_DEADLOCK FALSE
