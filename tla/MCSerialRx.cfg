\* Halves of two bytes, a serbuf of three halves, and time for it to overflow.
SPECIFICATION Spec
CONSTANTS
    Half = 2
    SERBUFLEN = 6
    MAX_BYTES = 14
INVARIANTS TypeOK LessThanTwoHalvesBehind
PROPERTIES EveryByteOnce NeverTwice ImplementsLine Drains
