------------------------------- MODULE Fcs -------------------------------
(* The step of the frame check sequence (fcs_step in src/code/src/packet.c,   *)
(* the inner loop of Framer.fcs in arghdlc.py), for any width of a byte and    *)
(* any polynomial.                                                            *)
EXTENDS Naturals, Sequences, SequencesExt, Bitwise

CONSTANTS ByteBits,     \* 8
          Polynomial    \* 0x8408

\* One bit of the byte x into crc.
Shift(crc, x) ==
    IF crc % 2 # x % 2 THEN (crc \div 2) ^^ Polynomial ELSE crc \div 2

\* The byte x, least significant bit first, into crc.
fcs_of(x, crc) ==
    FoldLeft(LAMBDA acc, bit : Shift(acc, x \div 2 ^ bit), crc,
             [i \in 1 .. ByteBits |-> i - 1])

===========================================================================
