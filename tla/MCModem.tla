----------------------------- MODULE MCModem -----------------------------
(* Modem with a pi of a few digits, the first two of them equal as the       *)
(* "33" and "88" of the real one.                                            *)
EXTENDS Modem

MCDigits == [i \in 0 .. N_PI_DIGITS - 1 |-> IF i = 2 THEN "1" ELSE "3"]

===========================================================================
