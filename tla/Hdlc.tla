------------------------------ MODULE Hdlc ------------------------------
(* What both ends of the serial link share: the byte values of the framing    *)
(* (src/code/src/packet.h, arghdlc.py's Framer) and the step of the checksum. *)
(* ByteMod stands for 256 and WordMod for 2^16.                                *)
EXTENDS Naturals

CONSTANTS ByteMod, WordMod,
          FLAG,                     \* PACKET_FLAG, '~'
          ESCAPE,                   \* PACKET_ESCAPE, '}'
          PACKET_FCS_INITIAL,
          fcs_step(_, _)            \* fcs_step(x, crc): Fcs.tla

Bytes == 0 .. ByteMod - 1
Words == 0 .. WordMod - 1

\* Flag and escape are two bytes, a length of two bytes fits in a word, and so
\* does the checksum.
ASSUME HdlcAssumption ==
    /\ ByteMod \in Nat /\ WordMod \in Nat
    /\ ByteMod * ByteMod <= WordMod
    /\ FLAG \in Bytes /\ ESCAPE \in Bytes /\ FLAG # ESCAPE
    /\ PACKET_FCS_INITIAL \in Words
    /\ \A x \in Bytes, crc \in Words : fcs_step(x, crc) \in Words

\* (w & 0xFF00) >> 8 and w & 0xFF
HighByte(w) == w \div ByteMod
LowByte(w)  == w % ByteMod

===========================================================================
