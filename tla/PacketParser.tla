--------------------------- MODULE PacketParser ---------------------------
(* packet_rx_byte of src/code/src/packet.c: the parser main() feeds with     *)
(* every byte the console receives.  addr, control, pktlen and fcs_expected   *)
(* only repeat bytes of rx_buf, and are operators here.                       *)
EXTENDS Hdlc, Sequences

CONSTANTS PACKET_MAX_PAYLOAD_LENGTH,    \* 1016
          RX_BUF_LEN                    \* the size of packet_rx_buf, 1024

VARIABLES state, saw_escape, bytes_rem, fcs,
          rx_buf,       \* what is stored so far; buf_cursor is its length
          report        \* the callback made by the last byte

vars == <<state, saw_escape, bytes_rem, fcs, rx_buf, report>>

\* Flag, address, control, two bytes of length, two of FCS, and the flag that ends it.
PACKET_FRAMING_OVERHEAD == 8

\* The payload limit leaves room for the overhead, and the buffer is far
\* smaller than the range of the 16-bit counters.
ASSUME ParserAssumption ==
    /\ PACKET_MAX_PAYLOAD_LENGTH \in Nat
    /\ RX_BUF_LEN \in Nat
    /\ PACKET_MAX_PAYLOAD_LENGTH + PACKET_FRAMING_OVERHEAD <= RX_BUF_LEN
    /\ 2 * RX_BUF_LEN < WordMod

States == {"IDLE", "WAIT_ADDR", "WAIT_CONTROL", "WAIT_LENGTH_HI", "WAIT_LENGTH_LO",
           "IN_BODY", "WAIT_CKSUM_HI", "WAIT_CKSUM_LO"}

---------------------------------------------------------------------------

addr    == rx_buf[2]
control == rx_buf[3]
pktlen  == rx_buf[4] * ByteMod + rx_buf[5]

\* A callback: who is called, with which buffer, buflen and fcs_match.
NoCall == [to |-> "nobody", payload |-> << >>, addr |-> 0, control |-> 0, match |-> FALSE]
Call(to) == [NoCall EXCEPT !.to = to]

\* Mutant: the counter is signed.
Signed == bytes_rem - 1

\* bytes_rem-- on a uint16_t
Decremented == IF bytes_rem = 0 THEN WordMod - 1 ELSE bytes_rem - 1

\* "All bytes go into the checksum except IDLE flags and the checksums
\* themselves.  This includes all escaping."
Stepped(c) == IF state \in {"IDLE", "WAIT_CKSUM_HI", "WAIT_CKSUM_LO"} THEN fcs
              ELSE fcs_step(c, fcs)

\* parser_reset
ParserReset ==
    /\ state' = "IDLE"
    /\ bytes_rem' = 0
    /\ rx_buf' = << >>
    /\ fcs' = PACKET_FCS_INITIAL
    /\ saw_escape' = FALSE

\* An escape that is not itself escaped.
Escape(c) ==
    /\ ~saw_escape /\ c = ESCAPE
    /\ saw_escape' = TRUE
    /\ bytes_rem' = IF state = "IN_BODY" THEN Decremented ELSE bytes_rem
    /\ fcs' = Stepped(c)
    /\ report' = NoCall
    /\ UNCHANGED <<state, rx_buf>>

\* The link idles on flags.
IdleFlag(c) ==
    /\ ~saw_escape /\ c = FLAG /\ state = "WAIT_ADDR"
    /\ report' = NoCall
    /\ UNCHANGED <<state, saw_escape, bytes_rem, fcs, rx_buf>>

\* Noise on an idle line is dropped.
Noise(c) ==
    /\ state = "IDLE" /\ c # FLAG /\ (saw_escape \/ c # ESCAPE)
    /\ saw_escape' = FALSE
    /\ report' = NoCall
    /\ UNCHANGED <<state, bytes_rem, fcs, rx_buf>>

\* Mutant: an interrupted frame's bytes stay in the buffer.
KeepsInterrupted(c) ==
    /\ c = FLAG
    /\ state # "WAIT_ADDR" /\ (state = "IDLE" \/ ~saw_escape)
    /\ report' = IF state = "IDLE" THEN NoCall ELSE Call("interrupted")
    /\ state' = "WAIT_ADDR"
    /\ saw_escape' = FALSE
    /\ bytes_rem' = WordMod - 1
    /\ rx_buf' = IF Len(rx_buf) < RX_BUF_LEN THEN Append(rx_buf, FLAG) ELSE rx_buf
    /\ fcs' = PACKET_FCS_INITIAL

\* A flag begins a new frame: on an idle line even an escaped one, inside a
\* frame (after parser_reset) any unescaped one.
StartFrame(c) ==
    /\ c = FLAG
    /\ \/ state = "IDLE" /\ report' = NoCall
       \/ state \notin {"IDLE", "WAIT_ADDR"} /\ ~saw_escape /\ report' = Call("interrupted")
    /\ state' = "WAIT_ADDR"
    /\ saw_escape' = FALSE
    /\ bytes_rem' = WordMod - 1     \* 0 in IDLE and after parser_reset, less one
    /\ rx_buf' = <<FLAG>>
    /\ fcs' = PACKET_FCS_INITIAL

\* A byte of a frame: not idle, and neither an unescaped flag nor an unescaped
\* escape.  Storing it at RX_BUF_LEN or beyond would be undefined; the model
\* stops short of it.
Stored(c) ==
    /\ state # "IDLE" /\ (saw_escape \/ c \notin {FLAG, ESCAPE})
    /\ Len(rx_buf) < RX_BUF_LEN

\* The next state and the counter once c is stored.
Advance(c, next, rem) ==
    /\ Stored(c)
    /\ state' = next
    /\ saw_escape' = FALSE
    /\ bytes_rem' = rem
    /\ fcs' = Stepped(c)
    /\ rx_buf' = Append(rx_buf, c)
    /\ report' = NoCall

Header(c) ==
    \/ state = "WAIT_ADDR"      /\ Advance(c, "WAIT_CONTROL", Decremented)
    \/ state = "WAIT_CONTROL"   /\ Advance(c, "WAIT_LENGTH_HI", Decremented)
    \/ state = "WAIT_LENGTH_HI" /\ Advance(c, "WAIT_LENGTH_LO", Decremented)

Length(c) == rx_buf[4] * ByteMod + c

\* Mutant: the length is not checked.
AnyLength(c) ==
    /\ state = "WAIT_LENGTH_LO"
    /\ Advance(c, IF Length(c) = 0 THEN "WAIT_CKSUM_HI" ELSE "IN_BODY", Length(c))

LengthLo(c) ==
    /\ state = "WAIT_LENGTH_LO" /\ Length(c) <= PACKET_MAX_PAYLOAD_LENGTH
    /\ Advance(c, IF Length(c) = 0 THEN "WAIT_CKSUM_HI" ELSE "IN_BODY", Length(c))

TooLong(c) ==
    /\ state = "WAIT_LENGTH_LO" /\ Length(c) > PACKET_MAX_PAYLOAD_LENGTH
    /\ Stored(c)
    /\ report' = Call("too_long")
    /\ ParserReset

Body(c) ==
    /\ state = "IN_BODY"
    /\ Advance(c, IF Decremented = 0 THEN "WAIT_CKSUM_HI" ELSE "IN_BODY", Decremented)

ChecksumHi(c) == state = "WAIT_CKSUM_HI" /\ Advance(c, "WAIT_CKSUM_LO", Decremented)

\* What lies between the header and the checksum, once its last byte is stored: from
\* rx_buf + 5, buf_cursor - PACKET_FRAMING_OVERHEAD + 1 bytes.
Payload ==
    LET buf_cursor == Len(rx_buf) + 1
    IN  SubSeq(rx_buf, 6, 5 + (buf_cursor - PACKET_FRAMING_OVERHEAD + 1))

ChecksumLo(c) ==
    /\ state = "WAIT_CKSUM_LO"
    /\ Stored(c)
    /\ report' = [to |-> "handler", payload |-> Payload,
                  addr |-> addr, control |-> control,
                  match |-> fcs = rx_buf[Len(rx_buf)] * ByteMod + c]
    /\ ParserReset

packet_rx_byte(c) ==
    \/ Escape(c) \/ IdleFlag(c) \/ Noise(c) \/ StartFrame(c)
    \/ Header(c) \/ LengthLo(c) \/ TooLong(c) \/ Body(c) \/ ChecksumHi(c) \/ ChecksumLo(c)

\* parser_setup
Init ==
    /\ state = "IDLE" /\ saw_escape = FALSE /\ bytes_rem = 0
    /\ fcs = PACKET_FCS_INITIAL /\ rx_buf = << >> /\ report = NoCall

Next == \E c \in Bytes : packet_rx_byte(c)

Spec == Init /\ [][Next]_vars

---------------------------------------------------------------------------
(* Properties, whatever bytes arrive.                                        *)

Calls == [to : {"nobody", "handler", "too_long", "interrupted"}, payload : Seq(Bytes),
          addr : Bytes, control : Bytes, match : BOOLEAN]

TypeOK ==
    /\ state \in States
    /\ saw_escape \in BOOLEAN
    /\ bytes_rem \in Words
    /\ fcs \in Words
    /\ rx_buf \in Seq(Bytes)
    /\ report \in Calls

\* However frames are cut short, interrupted or run together, each field is
\* read from its own place of the frame: buf_cursor always stands where the
\* state says, so that buf_cursor - PACKET_FRAMING_OVERHEAD + 1 never underflows.
InPlace ==
    /\ state = "IDLE" => rx_buf = << >>
    /\ state = "WAIT_ADDR" => rx_buf = <<FLAG>>
    /\ state = "WAIT_CONTROL" => Len(rx_buf) = 2
    /\ state = "WAIT_LENGTH_HI" => Len(rx_buf) = 3
    /\ state = "WAIT_LENGTH_LO" => Len(rx_buf) = 4
    /\ state \in {"IN_BODY", "WAIT_CKSUM_HI"} => Len(rx_buf) >= 5
    /\ state = "WAIT_CKSUM_LO" => Len(rx_buf) >= 6

\* No stream of bytes makes the parser hand over a payload longer than the
\* frame declared, or than the limit: the two places where bytes_rem goes down,
\* and its wrap-around, never add up to that.
PayloadFits ==
    /\ state = "WAIT_CKSUM_HI" => Len(rx_buf) - 5 <= pktlen
    /\ state = "WAIT_CKSUM_LO" => Len(rx_buf) - 6 <= pktlen
    /\ Len(report.payload) <= PACKET_MAX_PAYLOAD_LENGTH

\* Once rx_buf holds more than the longest frame there is, the parser is in a body
\* whose counter has wrapped around, and which cannot end before the buffer does: but
\* for a flag, the next bytes are stored past its end.
OverlongHasWrapped ==
    Len(rx_buf) + 1 >= PACKET_MAX_PAYLOAD_LENGTH + PACKET_FRAMING_OVERHEAD =>
        state = "IN_BODY" /\ bytes_rem > RX_BUF_LEN - Len(rx_buf)

\* packet.c:211: "If a frame is going to be too long, we abort it and return
\* the parser to IDLE."
TooLongAborted ==
    state = "IN_BODY" => Len(rx_buf) - 5 < PACKET_MAX_PAYLOAD_LENGTH

===========================================================================
