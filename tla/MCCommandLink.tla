-------------------------- MODULE MCCommandLink --------------------------
(* Commands of up to MAX_COMMAND bytes over a byte of two bits: 0, 1, the flag *)
(* 2 and the escape 3.  The checksum has four bits.                            *)
EXTENDS CommandLink

CONSTANT MAX_COMMAND

\* A reflected CRC-4 over bytes of two bits; and packet.c's over those of eight.
Small == INSTANCE Fcs WITH ByteBits <- 2, Polynomial <- 12
Real  == INSTANCE Fcs WITH ByteBits <- 8, Polynomial <- 33800
MCFcsStep(x, crc) == Small!fcs_of(x, crc)

\* test_string_sets in test_packet.c: "", "0" and "00".
ASSUME FcsAsTested ==
    /\ Real!fcs_of(48, 65535) = 15876
    /\ Real!fcs_of(48, 15876) = 30617
    /\ Real!fcs_of(48, 30617) = 14524

MCCommands == [payload : SeqOf(Bytes, MAX_COMMAND), address : {1}, control : {FLAG}]

===========================================================================
