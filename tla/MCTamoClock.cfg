\* The real timeouts; a 4-bit clock that wraps every 16 seconds.
SPECIFICATION Spec
CONSTANTS
    InteractionTimeout = 3
    IntrospectionTimeout = 5
    ClockMod = 16
    PollsPerSecond = 3
    BlinkEvery = 2
INVARIANTS TypeOK NeverWraps LightsTellMood
PROPERTIES ImplementsMood StayingBores LeavingSaddens BoredBlinks
