\* A noisy channel, a user who comes and goes, a main loop of any speed.
SPECIFICATION Spec
CONSTANTS
    InteractionTimeout = 3
    IntrospectionTimeout = 5
    NONE = "NONE"
    N_PI_DIGITS = 3
    PI_DIGITS <- MCDigits
    Presence = {TRUE, FALSE}
    Noise = {"3", "1"}
    Threshold = 1
    Loudest = 1
    SlowMain = TRUE
INVARIANTS TypeOK OnAirIsExpected SilentUnlessBored
PROPERTIES RestartResets
