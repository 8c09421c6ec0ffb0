------------------------------ MODULE Dtmf ------------------------------
(* The pure logic of src/code/src/dtmf.c.  A tone is its index in dtmf_tones, *)
(* the rows' before the columns'; a buffer is what the filter finds in it:    *)
(* the magnitude of each tone.                                               *)
EXTENDS Integers

CONSTANT NONE           \* DTMF_SYMBOL_NONE

Rows  == 0 .. 3
Cols  == 4 .. 7
Tones == Rows \cup Cols

\* The keypad, row by row, and the 0 that ends the C string.
dtmf_symbols ==
    <<"1", "2", "3", "A", "4", "5", "6", "B", "7", "8", "9", "C", "*", "0", "#", "D", "NUL">>

Symbols == {dtmf_symbols[i] : i \in 1 .. 16}

\* best_row and best_col where no tone was found, 0xFF.
NO_TONE == 255

---------------------------------------------------------------------------

\* The two tones of a symbol.  No caller passes NULL.
dtmf_get_tones(symbol) ==
    IF symbol \notin Symbols THEN [status |-> "SYMBOL_NOT_FOUND"]
    ELSE LET i == CHOOSE n \in 0 .. 15 : dtmf_symbols[n + 1] = symbol
         IN  [status |-> "OKAY", row |-> i \div 4, col |-> 4 + (i % 4)]

\* i may be as large as the 0 at the string's end.
decode_symbol(row, col) ==
    LET i == 4 * row + col
    IN  IF i > 16 THEN NONE ELSE dtmf_symbols[i + 1]

\* The first of the strongest of these tones, if any is there at all.
Best(mag, tones) ==
    IF \A k \in tones : mag[k] = 0 THEN NO_TONE
    ELSE CHOOSE k \in tones : \A other \in tones :
            mag[other] <= mag[k] /\ (other < k => mag[other] < mag[k])

Magnitude(mag, k) == IF k = NO_TONE THEN 0 ELSE mag[k]

\* The symbol dtmf_process finds in a buffer.  best_col - 4 is passed as a uint8_t.
dtmf_process(mag, threshold) ==
    LET row == Best(mag, Rows)
        col == Best(mag, Cols)
    IN  IF Magnitude(mag, row) < threshold \/ Magnitude(mag, col) < threshold THEN NONE
        ELSE decode_symbol(row, (col - 4) % 256)

===========================================================================
