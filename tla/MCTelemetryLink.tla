------------------------- MODULE MCTelemetryLink -------------------------
(* Packets of up to MAX_PACKET bytes of Alphabet, over bytes of MCByteBits     *)
(* bits; the checksum has twice as many.                                       *)
EXTENDS TelemetryLink

CONSTANTS MAX_PACKET, Alphabet, MCByteBits, MCPolynomial

Small == INSTANCE Fcs WITH ByteBits <- MCByteBits, Polynomial <- MCPolynomial
\* frame_cb for the address 1 of log lines and for others, where 0 stands for the
\* families 'E' and 'A', whose handlers look at a second byte.
MCCallbackRaises(address, payload) ==
    address # 1 /\ (payload = << >> \/ payload = <<0>>)

MCFcsStep(x, crc) == Small!fcs_of(x, crc)

AnyPackets == [payload : SeqOf(Alphabet, MAX_PACKET), address : {1}, command : {0}]

PlainPackets  == {p \in AnyPackets : Sound(p)}
ShortPackets  == {p \in PlainPackets : Len(p.payload) <= 1}
FcsPackets    == {p \in AnyPackets : LengthIsPlain(p)}

===========================================================================
