---------------------------- MODULE PiReciter ----------------------------
(* The pure logic of src/code/src/pi_reciter.c over its one static variable, *)
(* digit_cursor, here the first argument of each operation.                  *)
EXTENDS Dtmf

CONSTANTS N_PI_DIGITS,     \* how many digits are memorized (128)
          PI_DIGITS        \* the digits, indexed from 0

\* The cursor's value after a wrong digit, 0xFF.
WRONG == 255

\* The digits are DTMF symbols; none of them is NONE.  digit_cursor is a uint8_t and
\* 0xFF is taken.
ASSUME ReciterAssumption ==
    /\ N_PI_DIGITS \in 1 .. WRONG - 1
    /\ PI_DIGITS \in [0 .. N_PI_DIGITS - 1 -> Symbols]
    /\ NONE \notin Symbols

Cursors == 0 .. N_PI_DIGITS \cup {WRONG}

---------------------------------------------------------------------------

pi_reciter_next_digit(digit_cursor) ==
    IF digit_cursor = WRONG THEN "A"
    ELSE IF digit_cursor = N_PI_DIGITS THEN "#"
    ELSE PI_DIGITS[digit_cursor]

Rx(cursor, status) == [cursor |-> cursor, status |-> status]

\* Mutant: exhaustion is noticed when it happens, but no longer afterwards.
NoEndCheck(digit_cursor, pi_i) ==
    IF digit_cursor = WRONG THEN Rx(WRONG, "WRONG_DIGIT")
    ELSE IF digit_cursor = N_PI_DIGITS THEN Rx(N_PI_DIGITS + 1, "OKAY")
    ELSE IF pi_i # PI_DIGITS[digit_cursor] THEN Rx(WRONG, "WRONG_DIGIT")
    ELSE Rx(digit_cursor + 1, "OKAY")

\* The received digit pi_i against the expected one: the new cursor and the
\* status returned.  The last good digit already answers EXHAUSTED.
pi_reciter_rx_digit(digit_cursor, pi_i) ==
    IF digit_cursor = WRONG THEN Rx(WRONG, "WRONG_DIGIT")
    ELSE IF digit_cursor = N_PI_DIGITS THEN Rx(N_PI_DIGITS, "EXHAUSTED")
    ELSE IF pi_i # PI_DIGITS[digit_cursor] THEN Rx(WRONG, "WRONG_DIGIT")
    ELSE IF digit_cursor + 1 = N_PI_DIGITS THEN Rx(N_PI_DIGITS, "EXHAUSTED")
    ELSE Rx(digit_cursor + 1, "OKAY")

===========================================================================
