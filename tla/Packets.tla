----------------------------- MODULE Packets -----------------------------
(* The tether's packet classes (packets/): a packet is a list of fields that  *)
(* struct.pack writes one after the other, most significant byte first.  A    *)
(* message is a record of the payload's two letters and the bytes after them. *)
EXTENDS Integers, SequencesExt

CONSTANT ByteMod        \* the number of values of a byte

ASSUME ByteAssumption == ByteMod \in Nat \ {0, 1}

WordMod == ByteMod * ByteMod

\* PacketFieldTypes
UINT8_T  == 1
UINT16_T == 2
UINT32_T == 4
BYTES    == UINT8_T     \* one by one, as the prefix counts them

\* PacketField(fname, ftype), and with length = None
Field(fname, ftype) == [fname |-> fname, ftype |-> ftype, is_varlength |-> FALSE]
Varlength(fname, ftype, lengthtype) ==
    [fname |-> fname, ftype |-> ftype, is_varlength |-> TRUE, lengthtype |-> lengthtype]

EchoRequestPacket ==
    [family |-> "E", type |-> "Q", fields |-> <<Varlength("content", BYTES, UINT16_T)>>]
SysResetPacket == [family |-> "R", type |-> "Q", fields |-> << >>]
DACStartPacket == [family |-> "D", type |-> "S", fields |-> << >>]
DACStopPacket  == [family |-> "D", type |-> "T", fields |-> << >>]

DACConfigPacket ==
    [family |-> "D", type |-> "C",
     fields |-> <<Field("prescaler", UINT16_T), Field("period", UINT32_T),
                  Field("scale", UINT8_T), Field("points_per_wave", UINT16_T),
                  Field("num_waves", UINT8_T), Field("theta0_u8", UINT8_T)>>]

ADCConfigPacket ==
    [family |-> "A", type |-> "C",
     fields |-> <<Field("prescaler", UINT16_T), Field("period", UINT32_T),
                  Field("num_points", UINT16_T), Field("sample_width", UINT8_T),
                  Field("sample_time", UINT16_T),
                  Varlength("channels", UINT8_T, UINT8_T)>>]

\* The number of values of so many bytes.
Values(width) ==
    CASE width = 0 -> 1
      [] width = 1 -> ByteMod
      [] width = 2 -> WordMod
      [] width = 3 -> WordMod * ByteMod
      [] width = 4 -> WordMod * WordMod

BigEndian(v, width) == [i \in 1 .. width |-> (v \div Values(width - i)) % ByteMod]

\* pack_str and pack_vals: a field of any length has its length before it.
PackField(f, value) ==
    IF f.is_varlength
    THEN BigEndian(Len(value), f.lengthtype)
           \o FlattenSeq([i \in 1 .. Len(value) |-> BigEndian(value[i], f.ftype)])
    ELSE BigEndian(value, f.ftype)

\* struct.pack raises an exception for a value its field cannot hold.  (It does for
\* an empty content, too; the content of echo.py is not empty.)
Packable(cls, values) ==
    \A i \in DOMAIN cls.fields :
        LET f == cls.fields[i]
            v == values[f.fname]
        IN  IF f.is_varlength
            THEN /\ Len(v) < Values(f.lengthtype)
                 /\ \A j \in 1 .. Len(v) : v[j] \in 0 .. Values(f.ftype) - 1
            ELSE v \in 0 .. Values(f.ftype) - 1

pack(cls, values) ==
    [family |-> cls.family, type |-> cls.type,
     data |-> FlattenSeq([i \in DOMAIN cls.fields |->
                             PackField(cls.fields[i], values[cls.fields[i].fname])])]

===========================================================================
