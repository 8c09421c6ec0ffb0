\* A clean channel, a user who comes and goes: the DAC turned on after the digit was heard.
SPECIFICATION Spec
CONSTANTS
    InteractionTimeout = 3
    IntrospectionTimeout = 5
    NONE = "NONE"
    N_PI_DIGITS = 3
    PI_DIGITS <- MCDigits
    Presence = {TRUE, FALSE}
    Noise = {}
    Threshold = 1
    Loudest = 1
    SlowMain = FALSE
INVARIANTS HeardMeansStopped
