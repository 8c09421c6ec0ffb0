\* A clean channel, a user who stays.
SPECIFICATION Spec
CONSTANTS
    InteractionTimeout = 3
    IntrospectionTimeout = 5
    NONE = "NONE"
    N_PI_DIGITS = 3
    PI_DIGITS <- MCDigits
    Presence = {TRUE}
    Noise = {}
    Threshold = 1
    Loudest = 1
    SlowMain = FALSE
INVARIANTS NeverWrong HeardMeansStopped
PROPERTIES RecitesForever
