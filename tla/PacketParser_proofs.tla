----------------------- MODULE PacketParser_proofs -----------------------
(* Proofs about PacketParser, for any stream of bytes, any size of the buffer *)
(* and any checksum.                                                          *)
EXTENDS PacketParser, Integers, SequenceTheorems, TLAPS

LEMMA Sizes ==
    /\ WordMod \in Nat /\ WordMod > 0
    /\ PACKET_MAX_PAYLOAD_LENGTH \in Nat /\ RX_BUF_LEN \in Nat
    /\ PACKET_MAX_PAYLOAD_LENGTH + 8 <= RX_BUF_LEN
    /\ 2 * RX_BUF_LEN < WordMod
BY HdlcAssumption, ParserAssumption DEF PACKET_FRAMING_OVERHEAD

LEMMA SharedBytes ==
    /\ FLAG \in Bytes /\ ESCAPE \in Bytes /\ 0 \in Bytes
    /\ PACKET_FCS_INITIAL \in Words
    /\ \A x \in Bytes, crc \in Words : fcs_step(x, crc) \in Words
BY HdlcAssumption DEF Bytes

USE Sizes DEF Words

Body5 == {"IN_BODY", "WAIT_CKSUM_HI", "WAIT_CKSUM_LO"}

Stored5 == Len(rx_buf) - 5

\* A length within the limit has been accepted before a body is read.
Declared == state \in Body5 => pktlen <= PACKET_MAX_PAYLOAD_LENGTH

\* In a body bytes_rem still bounds what is to come, or it has wrapped around:
\* then it takes half the range of a word to bring it back to 0, as no byte
\* stored costs more than two (itself and its escape).
CountInv ==
    state = "IN_BODY" =>
        \/ Stored5 + bytes_rem <= pktlen
        \/ bytes_rem + 2 * Stored5 >= WordMod
        \/ saw_escape /\ bytes_rem + 2 * Stored5 + 1 >= WordMod

IInv == TypeOK /\ InPlace /\ Declared /\ CountInv /\ PayloadFits

---------------------------------------------------------------------------

LEMMA DecrementedFacts ==
    ASSUME TypeOK
    PROVE  /\ Decremented \in Words
           /\ \/ bytes_rem = 0 /\ Decremented = WordMod - 1
              \/ bytes_rem # 0 /\ Decremented = bytes_rem - 1
BY DEF Decremented, TypeOK

LEMMA SteppedType ==
    ASSUME TypeOK, NEW c \in Bytes
    PROVE  Stepped(c) \in Words
BY SharedBytes DEF Stepped, TypeOK

LEMMA NoCallType ==
    /\ NoCall \in Calls /\ NoCall.payload = << >>
    /\ \A to \in {"too_long", "interrupted"} :
          Call(to) \in Calls /\ Call(to).payload = << >>
<1>1. 0 \in Bytes
  BY SharedBytes
<1>2. << >> \in Seq(Bytes)
  OBVIOUS
<1>3. FALSE \in BOOLEAN
  OBVIOUS
<1>4. NoCall \in Calls /\ NoCall.payload = << >>
  BY <1>1, <1>2, <1>3 DEF NoCall, Calls
<1>5. ASSUME NEW to \in {"too_long", "interrupted"}
      PROVE  Call(to) \in Calls /\ Call(to).payload = << >>
  BY <1>4 DEF Call, Calls
<1> QED BY <1>4, <1>5

LEMMA InitInv == Init => IInv
<1> SUFFICES ASSUME Init PROVE IInv
  OBVIOUS
<1>1. saw_escape \in BOOLEAN
  BY DEF Init
<1>2. rx_buf \in Seq(Bytes) /\ Len(rx_buf) = 0
  BY DEF Init
<1>3. TypeOK
  BY <1>1, <1>2, NoCallType, SharedBytes DEF Init, TypeOK, States
<1>4. InPlace /\ Declared /\ CountInv /\ PayloadFits
  BY <1>2, NoCallType DEF Init, InPlace, Declared, CountInv, PayloadFits, Body5
<1> QED BY <1>3, <1>4 DEF IInv

\* What lies between the five bytes of the header and the two of the checksum,
\* the second of which is not stored yet.
LEMMA PayloadCut ==
    ASSUME NEW S, NEW s, NEW k \in Nat, k >= 6,
           \A i \in 6 .. k + 1 - 2 : s[i] \in S
    PROVE  SubSeq(s, 6, k + 1 - 2) \in Seq(S) /\ Len(SubSeq(s, 6, k + 1 - 2)) = k - 6
<1> DEFINE n == k + 1 - 2
<1>1. n \in Int /\ 6 \in Int
  OBVIOUS
<1>2. n - 6 + 1 = k - 6 /\ (6 <= n \/ k = 6)
  OBVIOUS
<1> HIDE DEF n
<1>3. SubSeq(s, 6, n) \in Seq(S) /\ Len(SubSeq(s, 6, n)) = IF 6 <= n THEN n - 6 + 1 ELSE 0
  <2>1. \A i \in 6 .. n : s[i] \in S
    BY DEF n
  <2> QED BY <1>1, <2>1, SubSeqProperties
<1>4. Len(SubSeq(s, 6, n)) = k - 6
  BY <1>2, <1>3
<1> QED BY <1>3, <1>4 DEF n

\* Every reset of the parser, by a frame that ends in whatever way, restores
\* the invariant.
LEMMA ResetInv ==
    ASSUME ParserReset, report' \in Calls,
           Len(report'.payload) <= PACKET_MAX_PAYLOAD_LENGTH
    PROVE  IInv'
<1>1. saw_escape' \in BOOLEAN
  BY DEF ParserReset
<1>2. rx_buf' \in Seq(Bytes) /\ Len(rx_buf') = 0
  BY DEF ParserReset
<1>3. TypeOK'
  BY <1>1, <1>2, SharedBytes DEF ParserReset, TypeOK, States
<1>4. InPlace' /\ Declared' /\ CountInv' /\ PayloadFits'
  BY <1>2 DEF ParserReset, InPlace, Declared, CountInv, PayloadFits, Body5
<1> QED BY <1>3, <1>4 DEF IInv

\* Storing a byte keeps the bytes, hence the header's fields, that are there.
LEMMA AdvanceFacts ==
    ASSUME TypeOK, NEW c \in Bytes, NEW next \in States, NEW rem \in Words,
           Advance(c, next, rem)
    PROVE  /\ TypeOK'
           /\ state' = next /\ bytes_rem' = rem /\ ~saw_escape'
           /\ Len(rx_buf') = Len(rx_buf) + 1 /\ Len(rx_buf') <= RX_BUF_LEN
           /\ Len(rx_buf) >= 5 => pktlen' = pktlen
           /\ Len(rx_buf) = 4 => pktlen' = Length(c)
           /\ report'.payload = << >>
<1>1. rx_buf' = Append(rx_buf, c) /\ Len(rx_buf) < RX_BUF_LEN
  BY DEF Advance, Stored
<1>2. /\ rx_buf' \in Seq(Bytes) /\ Len(rx_buf') = Len(rx_buf) + 1
      /\ Len(rx_buf') <= RX_BUF_LEN
      /\ \A i \in 1 .. Len(rx_buf) : rx_buf'[i] = rx_buf[i]
      /\ rx_buf'[Len(rx_buf) + 1] = c
  BY <1>1, AppendProperties DEF TypeOK
<1>3. Len(rx_buf) >= 5 => pktlen' = pktlen
  <2> SUFFICES ASSUME Len(rx_buf) >= 5 PROVE pktlen' = pktlen
    OBVIOUS
  <2>1. 4 \in 1 .. Len(rx_buf) /\ 5 \in 1 .. Len(rx_buf)
    BY DEF TypeOK
  <2>2. rx_buf'[4] = rx_buf[4] /\ rx_buf'[5] = rx_buf[5]
    BY <1>2, <2>1
  <2> QED BY <2>2 DEF pktlen
<1>4. Len(rx_buf) = 4 => pktlen' = Length(c)
  BY <1>2 DEF pktlen, Length, TypeOK
<1>5. saw_escape' \in BOOLEAN /\ ~saw_escape'
  BY DEF Advance
<1>6. /\ state' = next /\ bytes_rem' = rem
      /\ fcs' = Stepped(c) /\ report' = NoCall
  BY DEF Advance
<1>7. TypeOK'
  BY <1>2, <1>5, <1>6, SteppedType, NoCallType DEF TypeOK
<1> QED BY <1>2, <1>3, <1>4, <1>5, <1>6, <1>7, NoCallType

LEMMA PktlenType ==
    ASSUME TypeOK, Len(rx_buf) >= 5
    PROVE  pktlen \in Int
<1>1. 4 \in 1 .. Len(rx_buf) /\ 5 \in 1 .. Len(rx_buf)
  BY DEF TypeOK
<1>2. rx_buf[4] \in Bytes /\ rx_buf[5] \in Bytes
  BY <1>1, ElementOfSeq DEF TypeOK
<1>3. rx_buf[4] \in Nat /\ rx_buf[5] \in Nat
  BY <1>2 DEF Bytes
<1>4. ByteMod \in Nat
  BY HdlcAssumption
<1> HIDE Sizes
<1> QED BY <1>3, <1>4 DEF pktlen

---------------------------------------------------------------------------
(* One lemma per arm of packet_rx_byte.                                      *)

LEMMA EscapeInv ==
    ASSUME IInv, NEW c \in Bytes, Escape(c)
    PROVE  IInv'
<1>1. TypeOK /\ InPlace /\ Declared /\ CountInv /\ PayloadFits
  BY DEF IInv
<1>2. /\ ~saw_escape /\ saw_escape' = TRUE
      /\ bytes_rem' = IF state = "IN_BODY" THEN Decremented ELSE bytes_rem
      /\ fcs' = Stepped(c) /\ report' = NoCall /\ UNCHANGED <<state, rx_buf>>
  BY DEF Escape
<1>3. saw_escape' \in BOOLEAN /\ bytes_rem' \in Words
  BY <1>1, <1>2, DecrementedFacts DEF TypeOK
<1>4. TypeOK'
  BY <1>1, <1>2, <1>3, SteppedType, NoCallType DEF TypeOK
<1>5. pktlen' = pktlen
  BY <1>2 DEF pktlen
<1>6. InPlace' /\ Declared' /\ PayloadFits'
  BY <1>1, <1>2, <1>5, NoCallType DEF InPlace, Declared, PayloadFits
<1>7. CountInv'
  <2> SUFFICES ASSUME state = "IN_BODY" PROVE CountInv'
    BY <1>2 DEF CountInv
  <2>1. Len(rx_buf) >= 5 /\ Len(rx_buf) \in Nat /\ bytes_rem \in Words /\ pktlen \in Int
    BY <1>1, PktlenType DEF InPlace, TypeOK
  <2>2. \/ Stored5 + bytes_rem <= pktlen
        \/ bytes_rem + 2 * Stored5 >= WordMod
    BY <1>1, <1>2 DEF CountInv
  <2>3. bytes_rem' = Decremented /\ Stored5' = Stored5
    BY <1>2 DEF Stored5
  <2>4. \/ Stored5 + bytes_rem' <= pktlen
        \/ bytes_rem' + 2 * Stored5 + 1 >= WordMod
    BY <1>1, <2>1, <2>2, <2>3, DecrementedFacts DEF Stored5
  <2> QED BY <1>2, <1>5, <2>3, <2>4 DEF CountInv
<1> QED BY <1>4, <1>6, <1>7 DEF IInv

LEMMA IdleInv ==
    ASSUME IInv, NEW c \in Bytes, IdleFlag(c) \/ Noise(c)
    PROVE  IInv'
<1>1. TypeOK /\ InPlace /\ Declared /\ CountInv /\ PayloadFits
  BY DEF IInv
<1>2. /\ state \in {"IDLE", "WAIT_ADDR"} /\ saw_escape' \in BOOLEAN /\ report' = NoCall
      /\ UNCHANGED <<state, bytes_rem, fcs, rx_buf>>
  BY <1>1 DEF IdleFlag, Noise, TypeOK
<1>3. TypeOK'
  BY <1>1, <1>2, NoCallType DEF TypeOK
<1>4. InPlace' /\ Declared' /\ CountInv' /\ PayloadFits'
  BY <1>1, <1>2, NoCallType DEF InPlace, Declared, CountInv, PayloadFits, Body5
<1> QED BY <1>3, <1>4 DEF IInv

LEMMA StartFrameInv ==
    ASSUME IInv, NEW c \in Bytes, StartFrame(c)
    PROVE  IInv'
<1>1. report' \in Calls /\ report'.payload = << >>
  BY NoCallType DEF StartFrame
<1>2. /\ state' = "WAIT_ADDR" /\ saw_escape' = FALSE /\ bytes_rem' = WordMod - 1
      /\ rx_buf' = <<FLAG>> /\ fcs' = PACKET_FCS_INITIAL
  BY DEF StartFrame
<1>3. saw_escape' \in BOOLEAN
  BY <1>2
<1>4. bytes_rem' \in Words
  BY <1>2
<1>5. rx_buf' \in Seq(Bytes) /\ Len(rx_buf') = 1
  BY <1>2, SharedBytes
<1>6. TypeOK'
  BY <1>1, <1>2, <1>3, <1>4, <1>5, SharedBytes DEF TypeOK, States
<1>7. InPlace' /\ Declared' /\ CountInv' /\ PayloadFits'
  BY <1>1, <1>2, <1>5 DEF InPlace, Declared, CountInv, PayloadFits, Body5
<1> QED BY <1>6, <1>7 DEF IInv

LEMMA HeaderInv ==
    ASSUME IInv, NEW c \in Bytes, Header(c)
    PROVE  IInv'
<1>1. TypeOK /\ InPlace
  BY DEF IInv
<1>2. PICK next \in {"WAIT_CONTROL", "WAIT_LENGTH_HI", "WAIT_LENGTH_LO"} :
        /\ Advance(c, next, Decremented)
        /\ \/ state = "WAIT_ADDR" /\ next = "WAIT_CONTROL"
           \/ state = "WAIT_CONTROL" /\ next = "WAIT_LENGTH_HI"
           \/ state = "WAIT_LENGTH_HI" /\ next = "WAIT_LENGTH_LO"
  BY DEF Header
<1>3. TypeOK' /\ state' = next /\ Len(rx_buf') = Len(rx_buf) + 1 /\ report'.payload = << >>
  BY <1>1, <1>2, AdvanceFacts, DecrementedFacts DEF States
<1>4. Len(report'.payload) = 0
  BY <1>3
<1>5. InPlace'
  <2>1. state = "WAIT_ADDR" => Len(rx_buf) = 1
    BY <1>1 DEF InPlace
  <2>2. state = "WAIT_CONTROL" => Len(rx_buf) = 2
    BY <1>1 DEF InPlace
  <2>3. state = "WAIT_LENGTH_HI" => Len(rx_buf) = 3
    BY <1>1 DEF InPlace
  <2>4. \/ state' = "WAIT_CONTROL" /\ Len(rx_buf') = 2
        \/ state' = "WAIT_LENGTH_HI" /\ Len(rx_buf') = 3
        \/ state' = "WAIT_LENGTH_LO" /\ Len(rx_buf') = 4
    <3>1. CASE state = "WAIT_ADDR" /\ next = "WAIT_CONTROL"
      <4>1. Len(rx_buf) = 1
        BY <2>1, <3>1
      <4> QED BY <1>3, <3>1, <4>1
    <3>2. CASE state = "WAIT_CONTROL" /\ next = "WAIT_LENGTH_HI"
      <4>1. Len(rx_buf) = 2
        BY <2>2, <3>2
      <4> QED BY <1>3, <3>2, <4>1
    <3>3. CASE state = "WAIT_LENGTH_HI" /\ next = "WAIT_LENGTH_LO"
      <4>1. Len(rx_buf) = 3
        BY <2>3, <3>3
      <4> QED BY <1>3, <3>3, <4>1
    <3> QED BY <1>2, <3>1, <3>2, <3>3
  <2> QED BY <2>4 DEF InPlace
<1>6. Declared' /\ CountInv' /\ PayloadFits'
  BY <1>2, <1>3, <1>4 DEF Declared, CountInv, PayloadFits, Body5
<1> QED BY <1>3, <1>5, <1>6 DEF IInv

LEMMA LengthInv ==
    ASSUME IInv, NEW c \in Bytes, LengthLo(c)
    PROVE  IInv'
<1>1. TypeOK /\ InPlace
  BY DEF IInv
<1> DEFINE next == IF Length(c) = 0 THEN "WAIT_CKSUM_HI" ELSE "IN_BODY"
<1>2. /\ state = "WAIT_LENGTH_LO" /\ Length(c) <= PACKET_MAX_PAYLOAD_LENGTH
      /\ Advance(c, next, Length(c))
  BY DEF LengthLo
<1>3. Len(rx_buf) = 4
  BY <1>1, <1>2 DEF InPlace
<1>4. rx_buf[4] \in Bytes
  <2>1. rx_buf \in Seq(Bytes) /\ 4 \in 1 .. Len(rx_buf)
    BY <1>1, <1>3 DEF TypeOK
  <2> QED BY <2>1, ElementOfSeq
<1>5. Length(c) \in Nat
  BY <1>4, HdlcAssumption, SMTT(30) DEF Length, Bytes
<1>6. Length(c) \in Words
  BY <1>2, <1>5
<1>7. next \in States /\ next \in {"WAIT_CKSUM_HI", "IN_BODY"}
  BY DEF States
<1> HIDE DEF next
<1>8. /\ TypeOK' /\ state' = next /\ bytes_rem' = Length(c)
      /\ Len(rx_buf') = 5 /\ pktlen' = Length(c) /\ report'.payload = << >>
  BY <1>1, <1>2, <1>3, <1>6, <1>7, AdvanceFacts
<1>9. InPlace' /\ Declared' /\ CountInv' /\ PayloadFits'
  BY <1>2, <1>5, <1>7, <1>8 DEF InPlace, Declared, CountInv, PayloadFits, Body5, Stored5
<1> QED BY <1>8, <1>9 DEF IInv

LEMMA BodyInv ==
    ASSUME IInv, NEW c \in Bytes, Body(c)
    PROVE  IInv'
<1>1. TypeOK /\ InPlace /\ Declared /\ CountInv
  BY DEF IInv
<1> DEFINE next == IF Decremented = 0 THEN "WAIT_CKSUM_HI" ELSE "IN_BODY"
<1>2. state = "IN_BODY" /\ Advance(c, next, Decremented)
  BY DEF Body
<1>3. Len(rx_buf) >= 5 /\ pktlen <= PACKET_MAX_PAYLOAD_LENGTH
  BY <1>1, <1>2 DEF InPlace, Declared, Body5
<1>4. next \in States
  BY DEF States
<1>5. /\ TypeOK' /\ state' = next /\ bytes_rem' = Decremented /\ ~saw_escape'
      /\ Len(rx_buf') = Len(rx_buf) + 1 /\ Len(rx_buf') <= RX_BUF_LEN
      /\ pktlen' = pktlen /\ report'.payload = << >>
  BY <1>1, <1>2, <1>3, <1>4, AdvanceFacts, DecrementedFacts
<1>6. pktlen \in Int
  BY <1>1, <1>3, PktlenType
<1>7. bytes_rem \in Words /\ Len(rx_buf) \in Nat
  BY <1>1 DEF TypeOK
<1>8. \/ Stored5 + bytes_rem <= pktlen
      \/ bytes_rem + 2 * Stored5 + 1 >= WordMod
  BY <1>1, <1>2, <1>6, <1>7 DEF CountInv, Stored5
<1>9. \/ bytes_rem = 0 /\ Decremented = WordMod - 1
      \/ bytes_rem # 0 /\ Decremented = bytes_rem - 1
  BY <1>1, DecrementedFacts
<1>10. CASE Decremented = 0
  <2>1. state' = "WAIT_CKSUM_HI"
    BY <1>5, <1>10
  <2>2. Len(rx_buf') - 5 <= pktlen'
    BY <1>3, <1>5, <1>6, <1>7, <1>8, <1>9, <1>10 DEF Stored5
  <2>3. InPlace' /\ Declared' /\ CountInv' /\ PayloadFits'
    BY <1>3, <1>5, <2>1, <2>2, <1>6, <1>7 DEF InPlace, Declared, CountInv, PayloadFits, Body5
  <2> QED BY <1>5, <2>3 DEF IInv
<1>11. CASE Decremented # 0
  <2>1. state' = "IN_BODY"
    BY <1>5, <1>11
  <2>2. \/ Stored5' + bytes_rem' <= pktlen'
        \/ bytes_rem' + 2 * Stored5' >= WordMod
    BY <1>3, <1>5, <1>6, <1>7, <1>8, <1>9, <1>11 DEF Stored5
  <2>3. CountInv'
    BY <1>5, <2>2 DEF CountInv
  <2>4. InPlace' /\ Declared' /\ PayloadFits'
    BY <1>3, <1>5, <2>1, <1>7 DEF InPlace, Declared, PayloadFits, Body5
  <2> QED BY <1>5, <2>3, <2>4 DEF IInv
<1> QED BY <1>10, <1>11

LEMMA ChecksumHiInv ==
    ASSUME IInv, NEW c \in Bytes, ChecksumHi(c)
    PROVE  IInv'
<1>1. TypeOK /\ InPlace /\ Declared /\ PayloadFits
  BY DEF IInv
<1>2. state = "WAIT_CKSUM_HI" /\ Advance(c, "WAIT_CKSUM_LO", Decremented)
  BY DEF ChecksumHi
<1>3. Len(rx_buf) >= 5 /\ Len(rx_buf) - 5 <= pktlen /\ pktlen <= PACKET_MAX_PAYLOAD_LENGTH
  BY <1>1, <1>2 DEF InPlace, PayloadFits, Declared, Body5
<1>4. /\ TypeOK' /\ state' = "WAIT_CKSUM_LO" /\ Len(rx_buf') = Len(rx_buf) + 1
      /\ pktlen' = pktlen /\ report'.payload = << >>
  BY <1>1, <1>2, <1>3, AdvanceFacts, DecrementedFacts DEF States
<1>5. Len(rx_buf) \in Nat
  BY <1>1 DEF TypeOK
<1>6. InPlace' /\ Declared' /\ CountInv' /\ PayloadFits'
  BY <1>3, <1>4, <1>5 DEF InPlace, Declared, CountInv, PayloadFits, Body5
<1> QED BY <1>4, <1>6 DEF IInv

LEMMA EndInv ==
    ASSUME IInv, NEW c \in Bytes, TooLong(c) \/ ChecksumLo(c)
    PROVE  IInv'
<1>1. TypeOK /\ InPlace /\ Declared /\ PayloadFits
  BY DEF IInv
<1>2. CASE TooLong(c)
  BY <1>2, NoCallType, ResetInv DEF TooLong
<1>3. CASE ChecksumLo(c)
  <2> DEFINE payload == Payload
             match   == fcs = rx_buf[Len(rx_buf)] * ByteMod + c
  <2>1. /\ state = "WAIT_CKSUM_LO" /\ ParserReset
        /\ report' = [to |-> "handler", payload |-> payload, addr |-> addr,
                      control |-> control, match |-> match]
    BY <1>3 DEF ChecksumLo
  <2>2. /\ Len(rx_buf) >= 6 /\ Len(rx_buf) - 6 <= pktlen
        /\ pktlen <= PACKET_MAX_PAYLOAD_LENGTH
    BY <1>1, <2>1 DEF InPlace, PayloadFits, Declared, Body5
  <2>3. rx_buf \in Seq(Bytes) /\ Len(rx_buf) \in Nat
    BY <1>1 DEF TypeOK
  <2>4. payload \in Seq(Bytes) /\ Len(payload) = Len(rx_buf) - 6
    <3> DEFINE k == Len(rx_buf)
    <3>1. \A i \in 6 .. k + 1 - 2 : rx_buf[i] \in Bytes
      BY <2>3, ElementOfSeq
    <3>2. k \in Nat /\ k >= 6
      BY <2>2, <2>3
    <3>4. payload = SubSeq(rx_buf, 6, k + 1 - 2)
      <4>1. 5 + ((k + 1) - 8 + 1) = k + 1 - 2
        BY <3>2
      <4> QED BY <4>1, Zenon DEF Payload, PACKET_FRAMING_OVERHEAD, k
    <3> HIDE DEF k, payload
    <3>3. /\ SubSeq(rx_buf, 6, k + 1 - 2) \in Seq(Bytes)
          /\ Len(SubSeq(rx_buf, 6, k + 1 - 2)) = k - 6
      BY <3>1, <3>2, PayloadCut
    <3> QED BY <3>3, <3>4, Zenon DEF k
  <2>5. addr \in Bytes /\ control \in Bytes
    <3>1. 2 \in 1 .. Len(rx_buf) /\ 3 \in 1 .. Len(rx_buf)
      BY <2>2, <2>3
    <3> QED BY <2>3, <3>1, ElementOfSeq DEF addr, control
  <2>6. match \in BOOLEAN
    OBVIOUS
  <2>7. pktlen \in Int
    BY <1>1, <2>2, <2>3, PktlenType
  <2> HIDE DEF payload, match
  <2>8. report' \in Calls /\ report'.payload = payload
    BY <2>1, <2>4, <2>5, <2>6 DEF Calls
  <2>9. Len(report'.payload) <= PACKET_MAX_PAYLOAD_LENGTH
    BY <2>2, <2>3, <2>4, <2>7, <2>8
  <2> QED BY <2>1, <2>8, <2>9, ResetInv
<1> QED BY <1>2, <1>3

LEMMA NextInv == IInv /\ [Next]_vars => IInv'
<1> SUFFICES ASSUME IInv, [Next]_vars PROVE IInv'
  OBVIOUS
<1>1. ASSUME NEW c \in Bytes, packet_rx_byte(c) PROVE IInv'
  BY <1>1, EscapeInv, IdleInv, StartFrameInv, HeaderInv, LengthInv, BodyInv,
     ChecksumHiInv, EndInv DEF packet_rx_byte
<1>2. CASE UNCHANGED vars
  BY <1>2 DEF vars, IInv, TypeOK, InPlace, Declared, CountInv, PayloadFits, pktlen, Stored5
<1> QED BY <1>1, <1>2 DEF Next

---------------------------------------------------------------------------
(* The theorems.                                                             *)

LEMMA Invariance == Spec => []IInv
BY InitInv, NextInv, PTL DEF Spec

\* The parser's state keeps its types for any stream of bytes: the 16-bit counter and
\* checksum stay words, and what is handed over consists of bytes that were stored.
THEOREM TypeCorrect == Spec => []TypeOK
<1>1. IInv => TypeOK
  BY DEF IInv
<1> QED BY <1>1, Invariance, PTL

\* Each field of a frame is read from its place, and the payload length that is
\* handed over (packet.c, buf_cursor - PACKET_FRAMING_OVERHEAD + 1) never
\* underflows, for any stream of bytes.
THEOREM FieldsInPlace == Spec => []InPlace
<1>1. IInv => InPlace
  BY DEF IInv
<1> QED BY <1>1, Invariance, PTL

\* No stream of bytes makes the parser hand over a payload longer than the frame
\* declared or than PACKET_MAX_PAYLOAD_LENGTH, although bytes_rem can wrap
\* around: it would take half of 2^16 bytes to bring it back to 0.
THEOREM PayloadBounded == Spec => []PayloadFits
<1>1. IInv => PayloadFits
  BY DEF IInv
<1> QED BY <1>1, Invariance, PTL

\* The model stores nothing past the end of rx_buf: it stops where the C would.
BufInv == Len(rx_buf) <= RX_BUF_LEN

LEMMA BufNext == IInv /\ BufInv /\ [Next]_vars => BufInv'
<1> SUFFICES ASSUME IInv, BufInv, [Next]_vars PROVE BufInv'
  OBVIOUS
<1>1. ASSUME ParserReset PROVE BufInv'
  <2>1. Len(rx_buf') = 0
    BY <1>1 DEF ParserReset
  <2> QED BY <2>1 DEF BufInv
<1>2. ASSUME NEW c \in Bytes, NEW next, NEW rem, Advance(c, next, rem) PROVE BufInv'
  <2>1. rx_buf' = Append(rx_buf, c) /\ Len(rx_buf) < RX_BUF_LEN
    BY <1>2 DEF Advance, Stored
  <2>2. rx_buf \in Seq(Bytes)
    BY DEF IInv, TypeOK
  <2>3. Len(rx_buf') = Len(rx_buf) + 1 /\ Len(rx_buf) \in Nat
    BY <2>1, <2>2, AppendProperties
  <2> QED BY <2>1, <2>3 DEF BufInv
<1>3. ASSUME NEW c \in Bytes, packet_rx_byte(c) PROVE BufInv'
  <2>1. CASE Escape(c) \/ IdleFlag(c) \/ Noise(c)
    <3>1. rx_buf' = rx_buf
      BY <2>1 DEF Escape, IdleFlag, Noise
    <3> QED BY <3>1 DEF BufInv
  <2>2. CASE StartFrame(c)
    <3>1. Len(rx_buf') = 1
      BY <2>2 DEF StartFrame
    <3> QED BY <3>1 DEF BufInv
  <2>3. CASE Header(c) \/ LengthLo(c) \/ Body(c) \/ ChecksumHi(c)
    BY <1>2, <2>3, Zenon DEF Header, LengthLo, Body, ChecksumHi
  <2>4. CASE TooLong(c) \/ ChecksumLo(c)
    BY <1>1, <2>4, Zenon DEF TooLong, ChecksumLo
  <2> QED BY <1>3, <2>1, <2>2, <2>3, <2>4, Zenon DEF packet_rx_byte
<1>4. CASE UNCHANGED vars
  BY <1>4 DEF vars, BufInv
<1> QED BY <1>3, <1>4 DEF Next

\* A frame that is longer than any frame may be is a body whose bytes_rem has wrapped
\* around: every other place in which a byte is stored (packet.c:320) is within the
\* buffer.  Of that body the buffer's end comes before its own, so that nothing but a
\* flag keeps packet_rx_byte from storing past it.
THEOREM OverlongFramesWrapped == Spec => []OverlongHasWrapped
<1>1. Init => BufInv
  <2>1. Init => Len(rx_buf) = 0
    BY DEF Init
  <2> QED BY <2>1 DEF BufInv
<1>2. IInv /\ BufInv => OverlongHasWrapped
  <2> SUFFICES ASSUME IInv, BufInv, Len(rx_buf) >= PACKET_MAX_PAYLOAD_LENGTH + 7
               PROVE  state = "IN_BODY" /\ bytes_rem > RX_BUF_LEN - Len(rx_buf)
    <3>1. Len(rx_buf) \in Nat
      BY DEF IInv, TypeOK
    <3>2. Len(rx_buf) + 1 >= PACKET_MAX_PAYLOAD_LENGTH + PACKET_FRAMING_OVERHEAD
            => Len(rx_buf) >= PACKET_MAX_PAYLOAD_LENGTH + 7
      BY <3>1 DEF PACKET_FRAMING_OVERHEAD
    <3> QED BY <3>2 DEF OverlongHasWrapped
  <2>1. /\ Len(rx_buf) \in Nat /\ Len(rx_buf) <= RX_BUF_LEN /\ bytes_rem \in Words
        /\ state \in States
    BY DEF IInv, TypeOK, BufInv
  <2>2. /\ pktlen \in Int
        /\ state \in Body5 => pktlen <= PACKET_MAX_PAYLOAD_LENGTH
    BY <2>1, PktlenType DEF IInv, Declared
  <2>3. state = "IN_BODY"
    <3>1. state \notin {"IDLE", "WAIT_ADDR", "WAIT_CONTROL", "WAIT_LENGTH_HI", "WAIT_LENGTH_LO"}
      <4>1. state = "IDLE" => Len(rx_buf) = 0
        BY DEF IInv, InPlace
      <4>2. state = "WAIT_ADDR" => Len(rx_buf) = 1
        BY DEF IInv, InPlace
      <4>3. /\ state = "WAIT_CONTROL" => Len(rx_buf) = 2
            /\ state = "WAIT_LENGTH_HI" => Len(rx_buf) = 3
            /\ state = "WAIT_LENGTH_LO" => Len(rx_buf) = 4
        BY DEF IInv, InPlace
      <4>5. Len(rx_buf) \notin 0 .. 4
        <5>1. ASSUME NEW l \in Nat, l >= PACKET_MAX_PAYLOAD_LENGTH + 7 PROVE l \notin 0 .. 4
          BY <5>1, Sizes
        <5> QED BY <2>1, <5>1
      <4>6. 0 \in 0 .. 4 /\ 1 \in 0 .. 4 /\ 2 \in 0 .. 4 /\ 3 \in 0 .. 4 /\ 4 \in 0 .. 4
        OBVIOUS
      <4> QED BY <4>1, <4>2, <4>3, <4>5, <4>6, Zenon
    <3>2. state # "WAIT_CKSUM_HI" /\ state # "WAIT_CKSUM_LO"
      BY <2>1, <2>2 DEF IInv, PayloadFits, Body5
    <3> QED BY <2>1, <3>1, <3>2 DEF States
  <2>4. \/ Len(rx_buf) - 5 + bytes_rem <= pktlen
        \/ bytes_rem + 2 * (Len(rx_buf) - 5) + 1 >= WordMod
    BY <2>1, <2>2, <2>3 DEF IInv, CountInv, Stored5
  <2>5. bytes_rem > RX_BUF_LEN - Len(rx_buf)
    BY <2>1, <2>2, <2>3, <2>4 DEF Body5
  <2> QED BY <2>3, <2>5
<1> QED BY <1>1, <1>2, BufNext, Invariance, PTL DEF Spec

===========================================================================
