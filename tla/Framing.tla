----------------------------- MODULE Framing -----------------------------
(* What goes on the wire: packet_frame and packet_send of src/code/src/       *)
(* packet.c, and Framer.frame of arghdlc.py, which frames the commands.       *)
EXTENDS Hdlc, Sequences, SequencesExt

CONSTANT FlagRun    \* how many flags packet_send sends around a frame (4)

---------------------------------------------------------------------------

\* add_escaped, for one byte and for many
Escaped(v)  == IF v \in {FLAG, ESCAPE} THEN <<ESCAPE, v>> ELSE <<v>>

\* What the loop has written after each byte of s.
Escapes(s) ==
    LET written[n \in 0 .. Len(s)] ==
            IF n = 0 THEN << >> ELSE written[n - 1] \o Escaped(s[n])
    IN  written

EscapeAll(s) == Escapes(s)[Len(s)]

BigEndian(w) == <<HighByte(w), LowByte(w)>>

\* crc after each byte of s
Checksums(s) ==
    LET crc[n \in 0 .. Len(s)] ==
            IF n = 0 THEN PACKET_FCS_INITIAL ELSE fcs_step(s[n], crc[n - 1])
    IN  crc

packet_fcs(s) == Checksums(s)[Len(s)]

Run(n) == [i \in 1 .. n |-> FLAG]

---------------------------------------------------------------------------
(* The target: packet.c                                                      *)

\* The length is escaped into the two bytes left for it: an escape in it makes
\* it run over the first bytes of the body.
LengthOver(body) ==
    LET length == EscapeAll(BigEndian(Len(body)))
    IN  SubSeq(length \o SubSeq(body, Len(length) - 1, Len(body)), 1, 2 + Len(body))

\* The checksum covers as many bytes as there are in the length and the body,
\* plus two for address and command, however many these take.
packet_frame(buf, address, command) ==
    LET body    == EscapeAll(buf)
        covered == EscapeAll(<<address, command>>) \o LengthOver(body)
        fcs     == packet_fcs(SubSeq(covered, 1, Len(body) + 4))
    IN  <<FLAG>> \o covered \o EscapeAll(BigEndian(fcs)) \o <<FLAG>>

\* Mutant: the link is left to idle by its own means.
SendsBareFrame(buf, address, command) == packet_frame(buf, address, command)

packet_send(buf, address, command) ==
    Run(FlagRun) \o packet_frame(buf, address, command) \o Run(FlagRun)

---------------------------------------------------------------------------
(* The tether: arghdlc.py                                                    *)

\* Mutant: the length counts the payload before it is escaped.
UnescapedLength(payload, address, control) ==
    LET covered == EscapeAll(<<address, control>> \o BigEndian(Len(payload)))
                       \o EscapeAll(payload)
    IN  <<FLAG>> \o covered \o EscapeAll(BigEndian(packet_fcs(covered))) \o <<FLAG>>

Framer_frame(payload, address, control) ==
    LET body    == EscapeAll(payload)
        covered == EscapeAll(<<address, control>> \o BigEndian(Len(body))) \o body
    IN  <<FLAG>> \o covered \o EscapeAll(BigEndian(packet_fcs(covered))) \o <<FLAG>>

===========================================================================
