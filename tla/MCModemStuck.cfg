\* A clean channel, a user who comes and goes: a tone that is never turned off.
SPECIFICATION Spec
CONSTANTS
    InteractionTimeout = 3
    IntrospectionTimeout = 5
    NONE = "NONE"
    N_PI_DIGITS = 3
    PI_DIGITS <- MCDigits
    Presence = {TRUE, FALSE}
    Noise = {}
    Threshold = 1
    Loudest = 1
    SlowMain = FALSE
PROPERTIES EverySendEnds
