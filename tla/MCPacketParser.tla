-------------------------- MODULE MCPacketParser --------------------------
(* PacketParser fed with any bytes.  Bytes are 0, the flag and the escape;    *)
(* lengths up to 8 can be declared, up to 3 are legal.  No property of this    *)
(* run looks at the checksum, so one of two values will do.                    *)
EXTENDS PacketParser

MCFcsStep(x, crc) == (x + crc) % 2

===========================================================================
