------------------------- MODULE TelemetryLink_proofs -------------------------
(* Proofs about the target's way back: first about the Deframer alone, for any *)
(* stream of bytes, any limit and any callback, then about TelemetryLink, for  *)
(* any packets, at any interleaving of main's calls of packet_send with those  *)
(* of interrupt handlers and with the script's ends and beginnings.            *)
EXTENDS TelemetryLink, Framing_proofs

---------------------------------------------------------------------------
(* The Deframer's types and bounds.                                            *)

\* What the numbers are.
LEMMA Numbers ==
    /\ MAX_PACKET_LEN \in Nat
    /\ FLAG \in Bytes /\ ESCAPE \in Bytes /\ FLAG # ESCAPE /\ 0 \in Bytes
    /\ Bytes \subseteq Nat
    /\ \A b \in Bytes : b * ByteMod \in Nat
<1>1. ByteMod \in Nat
  BY HdlcAssumption
<1>2. FLAG \in Bytes /\ ESCAPE \in Bytes /\ FLAG # ESCAPE
  BY HdlcAssumption
<1>3. 0 \in Bytes /\ Bytes \subseteq Nat
  BY <1>1, <1>2 DEF Bytes
<1>4. \A b \in Bytes : b * ByteMod \in Nat
  BY <1>1, <1>3
<1> QED BY <1>2, <1>3, <1>4, MaxPacketAssumption

\* The body that is being read was accepted.
Accepted == state = "IN_BODY" => cur_len <= MAX_PACKET_LEN

IInv == DeframerTypeOK /\ AccumulatorFits /\ Accepted

---------------------------------------------------------------------------

\* What has been accumulated of a packet that begins.
LEMMA EmptyPayload == << >> \in Seq(Bytes) /\ Len(<< >>) = 0
OBVIOUS

\* A new Deframer has accumulated nothing and accepted nothing.
LEMMA InitInv == DeframerInit => IInv
<1> SUFFICES ASSUME DeframerInit PROVE IInv
  OBVIOUS
<1> USE Numbers, EmptyPayload DEF DeframerInit
<1>1. saw_escape \in BOOLEAN
  OBVIOUS
<1>2. DeframerTypeOK
  BY <1>1 DEF DeframerTypeOK, States
<1>3. AccumulatorFits /\ Accepted
  BY DEF AccumulatorFits, Accepted
<1> QED BY <1>2, <1>3 DEF IInv

\* An escape counts in a body, but never below -1.
LEMMA EscapeInv ==
    ASSUME IInv, NEW b \in Bytes, EscapeFound(b)
    PROVE  IInv'
<1>1. Less(body_rem) \in Nat \cup {-1} /\ (Less(body_rem) <= body_rem)
  BY DEF IInv, DeframerTypeOK, Less
<1>2. DeframerTypeOK'
  <2>1. saw_escape' \in BOOLEAN
    BY DEF EscapeFound
  <2>2. body_rem' \in Nat \cup {-1}
    BY <1>1 DEF EscapeFound, IInv, DeframerTypeOK
  <2> QED BY <2>1, <2>2 DEF IInv, DeframerTypeOK, EscapeFound
<1>3. AccumulatorFits'
  <2>1. body_rem' <= body_rem
    BY <1>1 DEF EscapeFound, IInv, DeframerTypeOK
  <2>2. Len(accumulator) \in Nat
    BY DEF IInv, DeframerTypeOK
  <2> QED BY <2>1, <2>2, <1>2 DEF EscapeFound, IInv, DeframerTypeOK, AccumulatorFits
<1>4. Accepted'
  BY DEF EscapeFound, IInv, Accepted
<1> QED BY <1>2, <1>3, <1>4 DEF IInv

\* A header's byte, but for the length's last, leaves the accumulator empty.
LEMMA HeaderInv ==
    ASSUME IInv, NEW b \in Bytes,
           Interrupted(b) \/ Idle(b) \/ Address(b) \/ Control(b) \/ LengthHi(b)
    PROVE  IInv'
<1> USE Numbers, EmptyPayload
<1>1. CASE Interrupted(b)
  <2>1. saw_escape' \in BOOLEAN
    BY <1>1 DEF Interrupted, Reset
  <2>2. DeframerTypeOK'
    BY <1>1, <2>1 DEF IInv, DeframerTypeOK, Interrupted, Reset, States
  <2>3. AccumulatorFits' /\ Accepted'
    BY <1>1 DEF AccumulatorFits, Accepted, Interrupted, Reset
  <2> QED BY <2>2, <2>3 DEF IInv
<1>2. CASE Idle(b)
  BY <1>2 DEF IInv, DeframerTypeOK, AccumulatorFits, Accepted, Idle, Plain, States
<1>3. CASE Address(b)
  BY <1>3 DEF IInv, DeframerTypeOK, AccumulatorFits, Accepted, Address, Plain, States
<1>4. CASE Control(b)
  BY <1>4 DEF IInv, DeframerTypeOK, AccumulatorFits, Accepted, Control, Plain, States
<1>5. CASE LengthHi(b)
  <2>1. cur_len' \in Nat
    BY <1>5 DEF LengthHi
  <2> QED
    BY <1>5, <2>1
       DEF IInv, DeframerTypeOK, AccumulatorFits, Accepted, LengthHi, Plain, States
<1> QED BY <1>1, <1>2, <1>3, <1>4, <1>5

\* A length is accepted only up to the limit; a body begins empty.
LEMMA LengthInv ==
    ASSUME IInv, NEW b \in Bytes, LengthLo(b)
    PROVE  IInv'
<1>1. cur_len' \in Nat /\ body_rem' = cur_len'
  BY Numbers DEF LengthLo, IInv, DeframerTypeOK
<1>2. accumulator = << >> /\ accumulator' = accumulator
  BY DEF LengthLo, Plain, IInv, AccumulatorFits
<1>3. \/ state' = "IDLE" /\ got' = TooLong
      \/ state' = "IN_BODY" /\ got' = Nothing /\ cur_len' <= MAX_PACKET_LEN
  <2>1. CASE cur_len + b > MAX_PACKET_LEN
    BY <2>1 DEF LengthLo
  <2>2. CASE ~(cur_len + b > MAX_PACKET_LEN)
    <3>1. cur_len + b \in Nat
      BY Numbers DEF IInv, DeframerTypeOK
    <3>2. cur_len + b <= MAX_PACKET_LEN
      BY <2>2, <3>1, Numbers
    <3> QED BY <2>2, <3>2 DEF LengthLo
  <2> QED BY <2>1, <2>2
<1>4. DeframerTypeOK'
  <2>1. saw_escape' \in BOOLEAN
    BY DEF LengthLo, Plain
  <2> QED BY <1>1, <1>2, <1>3, <2>1 DEF LengthLo, IInv, DeframerTypeOK, States
<1>5. AccumulatorFits' /\ Accepted'
  <2>1. accumulator' = << >>
    BY <1>2
  <2>2. Len(accumulator') = 0
    BY <2>1, EmptyPayload
  <2>3. MAX_PACKET_LEN \in Nat
    BY Numbers
  <2>4. 0 <= MAX_PACKET_LEN
    BY <2>3
  <2>5. 0 + cur_len' <= cur_len'
    <3>1. \A n \in Nat : 0 + n <= n
      OBVIOUS
    <3> QED BY <1>1, <3>1
  <2>6. AccumulatorFits'
    BY <1>1, <2>1, <2>2, <2>4, <2>5 DEF AccumulatorFits
  <2>7. Accepted'
    BY <1>3 DEF Accepted
  <2> QED BY <2>6, <2>7
<1> QED BY <1>4, <1>5 DEF IInv

\* The only step that adds to the accumulator takes as much from body_rem.
LEMMA BodyInv ==
    ASSUME IInv, NEW b \in Bytes, Body(b)
    PROVE  IInv'
<1> USE Numbers
<1>1. CASE /\ body_rem > 0
           /\ body_rem' = body_rem - 1 /\ accumulator' = Append(accumulator, b)
           /\ UNCHANGED state
  <2>1. accumulator \in Seq(Bytes) /\ body_rem \in Nat /\ cur_len \in Nat
    BY <1>1 DEF IInv, DeframerTypeOK
  <2>2. /\ accumulator' \in Seq(Bytes)
        /\ Len(accumulator') = Len(accumulator) + 1
    BY <1>1, <2>1
  <2>3. Len(accumulator) \in Nat
    BY <2>1
  <2>4. state = "IN_BODY" /\ state' = "IN_BODY" /\ cur_len' = cur_len
    BY <1>1 DEF Body, Plain
  <2>5. DeframerTypeOK'
    <3>1. saw_escape' \in BOOLEAN
      BY DEF Body, Plain
    <3>2. body_rem' \in Nat
      BY <1>1, <2>1
    <3> QED BY <2>2, <3>1, <3>2 DEF Body, IInv, DeframerTypeOK
  <2>6. Len(accumulator) + body_rem <= cur_len /\ cur_len <= MAX_PACKET_LEN
    BY <2>4 DEF IInv, AccumulatorFits, Accepted
  <2>7. AccumulatorFits' /\ Accepted'
    BY <1>1, <2>1, <2>2, <2>3, <2>4, <2>6 DEF AccumulatorFits, Accepted
  <2> QED BY <2>5, <2>7 DEF IInv
<1>2. CASE body_rem = 0 /\ state' = "WAIT_CKSUM_LO" /\ UNCHANGED <<body_rem, accumulator>>
  BY <1>2 DEF Body, Plain, IInv, DeframerTypeOK, AccumulatorFits, Accepted, States
<1>3. CASE body_rem < 0 /\ UNCHANGED <<state, body_rem, accumulator>>
  BY <1>3 DEF Body, Plain, IInv, DeframerTypeOK, AccumulatorFits, Accepted, States
<1> QED BY <1>1, <1>2, <1>3 DEF Body

\* The checksum adds nothing to the accumulator, and ends the packet.
LEMMA ChecksumInv ==
    ASSUME IInv, NEW b \in Bytes, Checksum(b)
    PROVE  IInv'
<1> USE Numbers, EmptyPayload
<1>1. CASE /\ got' = Frame(cur_addr, cur_control, accumulator)
           /\ state' = "IDLE"
           /\ Reset
  <2>1. /\ got'.what = "frame" /\ got'.address \in Bytes /\ got'.control \in Bytes
        /\ got'.payload \in Seq(Bytes)
    BY <1>1 DEF Frame, IInv, DeframerTypeOK
  <2>2. saw_escape' \in BOOLEAN
    BY <1>1 DEF Reset
  <2> QED
    BY <1>1, <2>1, <2>2 DEF Reset, IInv, DeframerTypeOK, AccumulatorFits, Accepted, States
<1>2. CASE /\ got' = Raised
           /\ UNCHANGED <<state, cur_addr, cur_control, cur_len, body_rem, accumulator>>
  BY <1>2 DEF Checksum, Plain, IInv, DeframerTypeOK, AccumulatorFits, Accepted, States
<1> QED BY <1>1, <1>2 DEF Checksum

\* Every byte keeps the three parts together.
LEMMA StepInv ==
    ASSUME IInv, [DeframerNext]_deframer
    PROVE  IInv'
<1>1. CASE UNCHANGED deframer
  BY <1>1 DEF deframer, IInv, DeframerTypeOK, AccumulatorFits, Accepted
<1>2. CASE DeframerNext
  <2>1. PICK b \in Bytes : rx_byte(b)
    BY <1>2 DEF DeframerNext
  <2> QED
    BY <2>1, EscapeInv, HeaderInv, LengthInv, BodyInv, ChecksumInv DEF rx_byte
<1> QED BY <1>1, <1>2

\* So they hold throughout.
LEMMA Inductive == DeframerSpec => []IInv
BY InitInv, StepInv, PTL DEF DeframerSpec

---------------------------------------------------------------------------

\* For every stream of bytes the Deframer's variables keep their types.
THEOREM TypeCorrect == DeframerSpec => []DeframerTypeOK
<1>1. IInv => DeframerTypeOK
  BY DEF IInv
<1> QED BY <1>1, Inductive, PTL

\* For every stream of bytes and every limit nothing of one packet becomes part
\* of another, and no packet grows beyond what it declared or may have.
THEOREM AccumulatorBounded == DeframerSpec => []AccumulatorFits
<1>1. IInv => AccumulatorFits
  BY DEF IInv
<1> QED BY <1>1, Inductive, PTL

\* A flag that is not escaped brings the Deframer, wherever it stands, to the
\* beginning of a packet with nothing of the last one left; if it was escaped,
\* the next one will.  This is what the runs of flags around a packet rely on.
Resynchronized ==
    rx_byte(FLAG) =>
        IF saw_escape THEN ~saw_escape'
        ELSE state' = "WAIT_ADDR" /\ accumulator' = << >> /\ ~saw_escape'

\* A byte that is a flag makes the Deframer wait for an address, unless it is
\* escaped.
LEMMA FlagStep ==
    ASSUME IInv
    PROVE  Resynchronized
<1> SUFFICES ASSUME rx_byte(FLAG)
             PROVE  IF saw_escape THEN ~saw_escape'
                    ELSE state' = "WAIT_ADDR" /\ accumulator' = << >> /\ ~saw_escape'
  BY DEF Resynchronized
<1>0. FLAG # ESCAPE
  BY Numbers
<1>1. CASE Interrupted(FLAG)
  BY <1>1 DEF Interrupted, Reset
<1>2. CASE Idle(FLAG) \/ Address(FLAG)
  BY <1>2 DEF Idle, Address, Plain, IInv, AccumulatorFits
<1>3. CASE Control(FLAG) \/ LengthHi(FLAG) \/ LengthLo(FLAG) \/ Body(FLAG) \/ Checksum(FLAG)
  BY <1>3 DEF Control, LengthHi, LengthLo, Body, Checksum, Plain
<1>4. ~EscapeFound(FLAG)
  BY <1>0 DEF EscapeFound
<1> QED BY <1>1, <1>2, <1>3, <1>4 DEF rx_byte

\* It does so for every stream of bytes, every limit and every frame_cb.
THEOREM FlagResynchronizes == DeframerSpec => [][Resynchronized]_deframer
BY Inductive, FlagStep, PTL DEF DeframerSpec

---------------------------------------------------------------------------
(* The parts of a packet: its header, and the bytes between the flags without  *)
(* (Bare) and with (Raw) their escapes.                                        *)

Top(p)  == <<p.address, p.command>> \o BigEndian(Len(Stuffed(p)))
Bare(p) == Content(Top(p), p.payload, FcsOf(p))
Raw(p)  == EscapeAll(Bare(p))

\* How much of Raw(p) the first n bytes of Bare(p) take up.
Upto(p, n) == Len(Escapes(Bare(p))[n])

\* Header and payload.
Size(p) == 4 + Len(p.payload)

\* What precedes Raw(p) on the wire.
Lead == FlagRun + 1

Senders == Packets \cup IsrPackets

SoundPackets == \A p \in Senders : Sound(p)

\* The fields of a packet are bytes.
LEMMA PacketType ==
    ASSUME SoundPackets, NEW p \in Senders
    PROVE  /\ p.payload \in Seq(Bytes) /\ p.payload \in Seq(Nat) /\ Len(p.payload) \in Nat
           /\ p.address \in Bytes /\ p.command \in Bytes
           /\ p.address \in Nat /\ p.command \in Nat /\ p.address # FLAG
           /\ p = [payload |-> p.payload, address |-> p.address, command |-> p.command]
           /\ Stuffed(p) \in Seq(Bytes) /\ Stuffed(p) \in Seq(Nat) /\ Len(Stuffed(p)) \in Nat
           /\ Size(p) \in Nat /\ Size(p) >= 4
<1>1. p \in [payload : Seq(Bytes), address : Bytes, command : Bytes] /\ p.address # FLAG
  BY DEF SoundPackets, Sound, LengthIsPlain, SumIsPlain
<1>2. p.payload \in Seq(Bytes) /\ p.address \in Bytes /\ p.command \in Bytes
  BY <1>1
<1>3. Bytes \subseteq Nat
  BY DEF Bytes
<1>4. p.payload \in Seq(Nat) /\ Len(p.payload) \in Nat
  BY <1>2, <1>3, SeqMonotonic, LenProperties
<1>5. p = [payload |-> p.payload, address |-> p.address, command |-> p.command]
  BY <1>1
<1>6. Stuffed(p) \in Seq(Bytes)
  BY <1>2, EscapedBytes DEF Stuffed
<1>7. Stuffed(p) \in Seq(Nat) /\ Len(Stuffed(p)) \in Nat
  BY <1>3, <1>6, SeqMonotonic, LenProperties
<1>8. Size(p) \in Nat /\ Size(p) >= 4
  BY <1>4 DEF Size
<1> QED BY <1>1, <1>2, <1>3, <1>4, <1>5, <1>6, <1>7, <1>8

\* A length that needs no escape stays in the two bytes left for it.
LEMMA LengthFits ==
    ASSUME NEW s \in Seq(Nat), HighByte(Len(s)) \notin {FLAG, ESCAPE},
           LowByte(Len(s)) \notin {FLAG, ESCAPE}
    PROVE  /\ EscapeAll(BigEndian(Len(s))) = BigEndian(Len(s))
           /\ LengthOver(s) = BigEndian(Len(s)) \o s
<1> DEFINE N == Len(s)
           x == HighByte(N)
           y == LowByte(N)
           b == BigEndian(N)
           t == b \o s
<1>1. N \in Nat
  OBVIOUS
<1>2. x \in Nat /\ y \in Nat /\ b = <<x, y>>
  BY <1>1, TwoBytes
<1> HIDE DEF x, y
<1>3. EscapeAll(<<x, y>>) = <<x, y>>
  BY <1>2, PlainEscapes DEF x, y
<1>4. EscapeAll(b) = b
  BY <1>2, <1>3
<1>5. b \in Seq(Nat) /\ Len(b) = 2
  BY <1>1, BigEndianType
<1>6. SubSeq(s, Len(b) - 1, N) = s
  <2>1. Len(b) - 1 = 1
    BY <1>5
  <2>2. SubSeq(s, 1, Len(s)) = s
    BY SubSeqFull
  <2> QED BY <2>1, <2>2
<1>7. SubSeq(t, 1, 2 + N) = t
  <2> HIDE DEF b
  <2>1. t \in Seq(Nat) /\ Len(t) = Len(b) + Len(s)
    <3>1. b \in Seq(Nat)
      BY <1>5
    <3> QED BY <3>1, Joined
  <2>2. Len(t) = 2 + N
    BY <1>5, <2>1
  <2> HIDE DEF t
  <2>3. SubSeq(t, 1, Len(t)) = t
    BY <2>1, SubSeqFull
  <2> QED BY <2>2, <2>3
<1>8. LengthOver(s) = SubSeq(EscapeAll(b) \o SubSeq(s, Len(EscapeAll(b)) - 1, N), 1, 2 + N)
  BY DEF LengthOver
<1> HIDE DEF N, b
<1>9. LengthOver(s) = SubSeq(b \o s, 1, 2 + N)
  BY <1>4, <1>6, <1>8
<1> QED BY <1>4, <1>7, <1>9 DEF t, b, N

\* The header, byte by byte.
LEMMA TopFacts ==
    ASSUME SoundPackets, NEW p \in Senders
    PROVE  /\ Top(p) \in Seq(Nat) /\ Len(Top(p)) = 4
           /\ Top(p)[1] = p.address /\ Top(p)[2] = p.command
           /\ Top(p)[3] = HighByte(Len(Stuffed(p))) /\ Top(p)[4] = LowByte(Len(Stuffed(p)))
<1> DEFINE x == HighByte(Len(Stuffed(p)))
           y == LowByte(Len(Stuffed(p)))
           a == p.address
           c == p.command
           h == Top(p)
<1>1. a \in Nat /\ c \in Nat /\ Len(Stuffed(p)) \in Nat
  BY PacketType
<1>2. x \in Nat /\ y \in Nat /\ BigEndian(Len(Stuffed(p))) = <<x, y>>
  BY <1>1, TwoBytes
<1>3. h = <<a, c, x, y>>
  BY <1>2, FourBytes DEF Top
<1> HIDE DEF x, y, a, c, h
<1>4. h \in Seq(Nat) /\ Len(h) = 4 /\ h[1] = a /\ h[2] = c /\ h[3] = x /\ h[4] = y
  BY <1>1, <1>2, <1>3
<1> QED BY <1>4 DEF x, y, a, c, h

\* What the checksum is computed from, and that it is a number.
LEMMA FcsType ==
    ASSUME SoundPackets, NEW p \in Senders
    PROVE  /\ FcsOf(p) \in Nat
           /\ EscapeAll(<<p.address, p.command>>) \o LengthOver(Stuffed(p))
                = EscapeAll(Top(p)) \o Stuffed(p)
<1> DEFINE s == Stuffed(p)
           N == Len(s)
           b == BigEndian(N)
           a == <<p.address, p.command>>
           e == EscapeAll(a)
           v == e \o (b \o s)
           n == N + 4
<1>1. /\ s \in Seq(Bytes) /\ s \in Seq(Nat) /\ N \in Nat
      /\ p.address \in Bytes /\ p.command \in Bytes
  BY PacketType
<1>2. N < ByteMod * ByteMod /\ HighByte(N) \notin {FLAG, ESCAPE} /\ LowByte(N) \notin {FLAG, ESCAPE}
  BY DEF SoundPackets, Sound, LengthIsPlain, SumIsPlain
<1>3. EscapeAll(b) = b /\ LengthOver(s) = b \o s
  BY <1>1, <1>2, LengthFits
<1>4. b \in Seq(Bytes) /\ b \in Seq(Nat)
  <2>1. HighByte(N) \in Bytes /\ LowByte(N) \in Bytes /\ b = <<HighByte(N), LowByte(N)>>
    BY <1>1, <1>2, TwoBytes
  <2>2. b \in Seq(Nat)
    BY <1>1, BigEndianType
  <2> HIDE DEF N
  <2> QED BY <2>1, <2>2
<1>5. a \in Seq(Bytes) /\ a \in Seq(Nat)
  BY <1>1 DEF Bytes
<1>6. e \in Seq(Bytes) /\ e \in Seq(Nat)
  BY <1>5, EscapedBytes, EscapeAllType
<1> HIDE DEF s, a, b, e, N
<1>7. v \in Seq(Bytes)
  <2>1. b \o s \in Seq(Bytes)
    BY <1>1, <1>4, ConcatProperties
  <2> QED BY <1>6, <2>1, ConcatProperties
<1>8. EscapeAll(Top(p)) \o s = v
  <2>1. Top(p) = a \o b
    BY DEF Top, a, b, N, s
  <2>2. EscapeAll(a \o b) = e \o b
    BY <1>3, <1>4, <1>5, EscapesOfConcat DEF e
  <2>3. (e \o b) \o s = e \o (b \o s)
    BY <1>1, <1>4, <1>6, Associative
  <2> QED BY <2>1, <2>2, <2>3
<1>9. FcsOf(p) = packet_fcs(SubSeq(v, 1, n))
  BY <1>3 DEF FcsOf, s, N, a, e
<1> DEFINE u == SubSeq(v, 1, n)
<1> HIDE DEF v
<1>10. Len(v) \in Nat
  BY <1>7
<1>11. u \in Seq(Bytes)
  <2>1. Len(v) = (Len(e) + 2) + N
    <3>1. Len(b) = 2
      BY <1>1, BigEndianType DEF b
    <3>2. Len(b \o s) = Len(b) + Len(s) /\ b \o s \in Seq(Nat)
      BY <1>1, <1>4, Joined
    <3> DEFINE w == b \o s
    <3> HIDE DEF w
    <3>3. w \in Seq(Nat) /\ e \in Seq(Nat) /\ Len(w) = Len(b) + Len(s)
      BY <1>6, <3>2 DEF w
    <3>4. Len(e \o w) = Len(e) + Len(w)
      BY <3>3, Joined
    <3>5. Len(e) \in Nat /\ Len(s) = N /\ N \in Nat
      BY <1>1, <1>6 DEF N
    <3>6. Len(v) = Len(e) + Len(w)
      BY <3>4 DEF v, w
    <3>7. \A i, j, k, l, m \in Nat : m = i + k /\ k = 2 + l => m = (i + 2) + l
      OBVIOUS
    <3>8. Len(w) = 2 + N /\ Len(w) \in Nat /\ Len(e) \in Nat
      BY <3>1, <3>3, <3>5
    <3> QED BY <1>10, <3>5, <3>6, <3>7, <3>8
  <2>2. Len(e) \in Nat /\ Len(e) >= 2
    <3>1. Len(a) = 2 /\ 0 + 1 <= Len(a) /\ 1 + 1 <= Len(a) /\ 0 \in Nat /\ 1 \in Nat
      BY <1>5 DEF a
    <3>2. /\ Len(Escapes(a)[1]) \in Nat /\ Len(Escapes(a)[1 + 1]) \in Nat
          /\ Len(Escapes(a)[0]) \in Nat
          /\ Len(Escapes(a)[1 + 1]) >= Len(Escapes(a)[1]) + 1
          /\ Len(Escapes(a)[0 + 1]) >= Len(Escapes(a)[0]) + 1
      <4>1. Placed(a, 1, Len(Escapes(a)[1]), Len(Escapes(a)[1 + 1]), EscapeAll(a))
        BY <1>5, <3>1, EscapedPlace
      <4>2. Placed(a, 0, Len(Escapes(a)[0]), Len(Escapes(a)[0 + 1]), EscapeAll(a))
        BY <1>5, <3>1, EscapedPlace
      <4> QED BY <4>1, <4>2 DEF Placed
    <3>3. EscapeAll(a) = Escapes(a)[2]
      BY <3>1 DEF EscapeAll
    <3> QED BY <3>2, <3>3 DEF e
  <2>3. n <= Len(v) /\ n \in Nat
    BY <1>1, <1>10, <2>1, <2>2
  <2> HIDE DEF n
  <2>4. \A i \in 1 .. n : v[i] \in Bytes
    <3>1. \A i \in 1 .. n : i \in 1 .. Len(v)
      BY <1>10, <2>3
    <3> QED BY <1>7, <3>1, ElementOfSeq
  <2>5. 1 \in Int /\ n \in Int
    BY <2>3
  <2> QED BY <2>4, <2>5, SubSeqProperties
<1> HIDE DEF u
<1>12. packet_fcs(u) \in Words
  <2>1. Len(u) \in 0 .. Len(u)
    BY <1>11
  <2>2. Checksums(u) \in [0 .. Len(u) -> Words]
    BY <1>11, ChecksumsDef
  <2> QED BY <2>1, <2>2 DEF packet_fcs
<1>13. FcsOf(p) \in Nat
  BY <1>9, <1>12 DEF u, Words
<1> QED BY <1>3, <1>8, <1>13 DEF v, s, e, a

\* The places of a packet's bytes.
LEMMA BareFacts ==
    ASSUME SoundPackets, NEW p \in Senders
    PROVE  /\ Bare(p) \in Seq(Nat) /\ Len(Bare(p)) = Size(p) + 2
           /\ Bare(p)[1] = p.address /\ Bare(p)[2] = p.command
           /\ Bare(p)[3] = HighByte(Len(Stuffed(p))) /\ Bare(p)[4] = LowByte(Len(Stuffed(p)))
           /\ \A i \in 1 .. Len(p.payload) : Bare(p)[4 + i] = p.payload[i]
           /\ Bare(p)[Size(p) + 1] = HighByte(FcsOf(p))
<1> DEFINE h == Top(p)
           s == p.payload
           w == FcsOf(p)
           b == Bare(p)
<1>1. /\ h \in Seq(Nat) /\ Len(h) = 4 /\ h[1] = p.address /\ h[2] = p.command
      /\ h[3] = HighByte(Len(Stuffed(p))) /\ h[4] = LowByte(Len(Stuffed(p)))
  BY TopFacts
<1>2. s \in Seq(Nat)
  BY PacketType
<1>3. w \in Nat
  BY FcsType
<1>4. b = Content(h, s, w) /\ Size(p) = 4 + Len(s)
  BY DEF Bare, Size
<1> HIDE DEF h, s, w, b
<1>5. /\ b \in Seq(Nat) /\ Len(b) = 4 + Len(s) + 2
      /\ b[1] = h[1] /\ b[2] = h[2] /\ b[3] = h[3] /\ b[4] = h[4]
      /\ \A i \in 1 .. Len(s) : b[4 + i] = s[i]
      /\ b[4 + Len(s) + 1] = HighByte(w)
  <2>1. h \in Seq(Nat) /\ Len(h) = 4 /\ s \in Seq(Nat) /\ w \in Nat
    BY <1>1, <1>2, <1>3
  <2>2. Composed(h, s, w, Content(h, s, w))
    BY <2>1, ContentFacts
  <2>3. Composed(h, s, w, b)
    BY <1>4, <2>2
  <2> QED BY <2>3 DEF Composed
<1> QED BY <1>1, <1>4, <1>5 DEF s, w, b

\* The places of its bytes among the escapes.
LEMMA RawFacts ==
    ASSUME SoundPackets, NEW p \in Senders
    PROVE  /\ Raw(p) \in Seq(Nat) /\ Len(Raw(p)) \in Nat
           /\ Raw(p) = (EscapeAll(Top(p)) \o Stuffed(p)) \o EscapeAll(BigEndian(FcsOf(p)))
           /\ Upto(p, 0) = 0 /\ Upto(p, Size(p) + 2) = Len(Raw(p))
           /\ Upto(p, Size(p)) \in Nat /\ Upto(p, 4) \in Nat
           /\ Upto(p, 4) + Len(Stuffed(p)) = Upto(p, Size(p))
<1> DEFINE h == Top(p)
           s == p.payload
           w == FcsOf(p)
           b == Bare(p)
           v == EscapeAll(h) \o EscapeAll(s)
<1>1. h \in Seq(Nat) /\ Len(h) = 4
  BY TopFacts
<1>2. s \in Seq(Nat) /\ Len(s) \in Nat
  BY PacketType
<1>3. w \in Nat
  BY FcsType
<1>4. b = Content(h, s, w) /\ Size(p) = 4 + Len(s) /\ b \in Seq(Nat) /\ Len(b) = Size(p) + 2
  BY BareFacts DEF Bare, Size
<1> HIDE DEF h, s, w, b, v
<1>5. /\ EscapeAll(b) \in Seq(Nat) /\ Len(EscapeAll(b)) \in Nat
      /\ EscapeAll(b) = v \o EscapeAll(BigEndian(w))
      /\ Len(Escapes(b)[0]) = 0
      /\ Len(Escapes(b)[4 + Len(s) + 2]) = Len(EscapeAll(b))
      /\ Len(Escapes(b)[4 + Len(s)]) = Len(v) /\ Len(v) \in Nat
      /\ Len(Escapes(b)[4]) + Len(EscapeAll(s)) = Len(v)
  <2>1. h \in Seq(Nat) /\ Len(h) = 4 /\ s \in Seq(Nat) /\ w \in Nat
    BY <1>1, <1>2, <1>3
  <2>2. b = Content(h, s, w) /\ v = EscapeAll(h) \o EscapeAll(s)
    BY <1>4 DEF v
  <2>3. Stuffing(s, w, b, v)
    BY <2>1, <2>2, ContentEscapes
  <2> QED BY <2>3 DEF Stuffing
<1>6. Len(Escapes(b)[4]) \in Nat
  <2>1. 4 \in Nat /\ 4 <= 4 /\ 4 <= Len(b)
    BY <1>2, <1>4
  <2> QED BY <1>4, <2>1, EscapesGrow
<1>7. /\ Upto(p, 0) = 0 /\ Upto(p, Size(p) + 2) = Len(Raw(p))
      /\ Upto(p, Size(p)) \in Nat /\ Upto(p, 4) \in Nat
      /\ Upto(p, 4) + Len(Stuffed(p)) = Upto(p, Size(p))
  BY <1>4, <1>5, <1>6 DEF Upto, Raw, Stuffed, b, s
<1>8. Raw(p) \in Seq(Nat) /\ Len(Raw(p)) \in Nat
  BY <1>5 DEF Raw, b
<1>9. Raw(p) = (EscapeAll(Top(p)) \o Stuffed(p)) \o EscapeAll(BigEndian(FcsOf(p)))
  BY <1>5 DEF Raw, Stuffed, b, v, s, h, w
<1> QED BY <1>7, <1>8, <1>9

\* What packet_send writes: flags, of which there are at least two, the packet's
\* bytes and escapes, and flags again.
LEMMA SentFacts ==
    ASSUME SoundPackets, NEW p \in Senders
    PROVE  Flagged(Sent(p), Lead, Raw(p))
<1> DEFINE r == Raw(p)
           t == Run(FlagRun)
           f == <<FLAG>>
           v == EscapeAll(Top(p)) \o Stuffed(p)
           x == EscapeAll(BigEndian(FcsOf(p)))
           w == Sent(p)
           N == FlagRun
<1>1. N \in Nat /\ N > 0
  BY FlagRunAssumption
<1>2. r \in Seq(Nat) /\ r = v \o x
  BY RawFacts
<1>3. t \in Seq(Nat) /\ \A i \in 1 .. Len(t) : t[i] = FLAG
  BY <1>1, RunFacts
<1>4. v \in Seq(Nat) /\ x \in Seq(Nat) /\ f \in Seq(Nat)
  <2>1. EscapeAll(Top(p)) \in Seq(Nat) /\ Stuffed(p) \in Seq(Nat)
    BY TopFacts, PacketType, EscapeAllType
  <2>2. x \in Seq(Nat)
    BY FcsType, BigEndianType, EscapeAllType
  <2>3. f \in Seq(Nat)
    BY HdlcAssumption DEF Bytes
  <2> QED BY <2>1, <2>2, <2>3, ConcatProperties
<1>5. w = (t \o (((f \o v) \o x) \o f)) \o t
  <2> DEFINE y == EscapeAll(<<p.address, p.command>>) \o LengthOver(Stuffed(p))
  <2>1. y = v
    BY FcsType
  <2>2. Sent(p) = (Run(FlagRun) \o packet_frame(p.payload, p.address, p.command)) \o Run(FlagRun)
    BY DEF Sent, packet_send
  <2>3. packet_frame(p.payload, p.address, p.command)
          = ((<<FLAG>> \o y) \o EscapeAll(BigEndian(packet_fcs(SubSeq(y, 1, Len(Stuffed(p)) + 4)))))
              \o <<FLAG>>
    BY DEF packet_frame, Stuffed
  <2>4. FcsOf(p) = packet_fcs(SubSeq(y, 1, Len(Stuffed(p)) + 4))
    BY DEF FcsOf
  <2> HIDE DEF y, v
  <2> QED BY <2>1, <2>2, <2>3, <2>4
<1> HIDE DEF r, t, f, v, x, w, N
<1>6. (f \o v) \o x = f \o r
  BY <1>2, <1>4, Associative
<1>7. w = (Run(N) \o ((<<FLAG>> \o r) \o <<FLAG>>)) \o t
  BY <1>5, <1>6 DEF t, f, N
<1>8. Flagged(w, N + 1, r)
  BY <1>1, <1>2, <1>3, <1>7, FramedBytes
<1> QED BY <1>8 DEF w, r, N, Lead

---------------------------------------------------------------------------
(* Where the Deframer is in a packet of which it has had k bytes: before its   *)
(* first, among the flags before it (Opening), in it with its first n bytes    *)
(* and perhaps the escape of the next (Within), or past it (Closing).          *)

\* Between packets, where no flag can be taken for anything else.
Quiet == state \in {"IDLE", "WAIT_ADDR"} /\ ~saw_escape

\* A packet that the Deframer takes and whose callback raises nothing.
Polite(p) == Len(Stuffed(p)) <= MAX_PACKET_LEN /\ ~cb_raises(p.address, p.payload)

DfInv ==
    /\ saw_escape \in BOOLEAN
    /\ state \notin {"IN_BODY", "WAIT_CKSUM_LO"} => accumulator = << >>

Expected(p, n) ==
    CASE n = 0 -> "WAIT_ADDR"
      [] n = 1 -> "WAIT_CONTROL"
      [] n = 2 -> "WAIT_LEN_HI"
      [] n = 3 -> "WAIT_LEN_LO"
      [] 4 <= n /\ n <= Size(p) -> "IN_BODY"
      [] OTHER -> "WAIT_CKSUM_LO"

\* How much of the payload is in the accumulator.
Gathered(p, n) == IF n < 4 THEN 0 ELSE IF n <= Size(p) THEN n - 4 ELSE Len(p.payload)

Opening(k) == 1 <= k /\ k < Lead /\ ~saw_escape /\ (k >= 2 => state = "WAIT_ADDR")

Within(p, k, n) ==
    /\ n < Size(p) + 2
    /\ k = Lead + Upto(p, n) + (IF saw_escape THEN 1 ELSE 0)
    /\ saw_escape => Bare(p)[n + 1] \in {FLAG, ESCAPE}
    /\ state = Expected(p, n)
    /\ n >= 1 => cur_addr = p.address
    /\ n >= 2 => cur_control = p.command
    /\ n = 3 => cur_len = HighByte(Len(Stuffed(p))) * ByteMod
    /\ state = "IN_BODY" => body_rem = (Lead + Upto(p, Size(p))) - k
    /\ accumulator \in Seq(Nat) /\ Len(accumulator) = Gathered(p, n)
    /\ \A i \in 1 .. Len(accumulator) : accumulator[i] = p.payload[i]

Closing(p, k) == k >= Lead + Len(Raw(p)) /\ Quiet /\ last = p

Stage(p, k) ==
    \/ k = 0 \/ Opening(k) \/ Closing(p, k)
    \/ \E n \in 0 .. Size(p) + 1 : Within(p, k, n)

\* What is left of a call is the rest of what it sends.
Rest(q, p, k) ==
    /\ q \in Seq(Nat) /\ Len(q) = Len(Sent(p)) - k
    /\ \A i \in 1 .. Len(q) : q[i] = Sent(p)[k + i]

Flows(q, p) == \E k \in 0 .. Len(Sent(p)) : Rest(q, p, k) /\ Stage(p, k)

\* The same where the packet meets the Deframer between packets.
FlowsOn(q, p) == \E k \in 0 .. Len(Sent(p)) : Rest(q, p, k) /\ Stage(p, k) /\ (k = 0 => Quiet)

LinkInv ==
    /\ DfInv
    /\ isrPacket # Nobody /\ ~isrCut =>
         up /\ isrPacket \in IsrPackets /\ Flows(isr, isrPacket)
    /\ mainPacket # Nobody /\ ~cut =>
         up /\ isr = << >> /\ mainPacket \in Packets /\ Flows(main, mainPacket)

\* As long as no packet was cut the Deframer is between two, or in the one that
\* is being sent.
WholeInv ==
    ~torn =>
        /\ ~Raises
        /\ main = << >> \/ isr = << >>
        /\ up => /\ main = << >> /\ isr = << >> => Quiet
                 /\ main # << >> => mainPacket \in Packets /\ FlowsOn(main, mainPacket)
                 /\ isr # << >> => isrPacket \in IsrPackets /\ FlowsOn(isr, isrPacket)

---------------------------------------------------------------------------
(* What a byte does to the Deframer.                                         *)

\* Most bytes neither complete a frame nor raise an exception.
LEMMA GotNothing ==
    ASSUME got' = Nothing
    PROVE  ~Raises' /\ got'.what # "frame"
BY DEF Raises, Nothing, TooLong, Raised

\* A frame is no exception.
LEMMA GotFrame ==
    ASSUME NEW a, NEW c, NEW s, got' = Frame(a, c, s)
    PROVE  /\ ~Raises' /\ got'.what = "frame"
           /\ got'.payload = s /\ got'.address = a /\ got'.control = c
BY DEF Raises, Frame, TooLong, Raised

\* Every byte, wherever it comes from, keeps the Deframer sane.
LEMMA DfStep ==
    ASSUME DfInv, NEW b, rx_byte(b)
    PROVE  DfInv'
<1>1. CASE EscapeFound(b)
  BY <1>1 DEF DfInv, EscapeFound
<1>2. CASE Interrupted(b)
  BY <1>2 DEF DfInv, Interrupted, Reset
<1>3. CASE Idle(b) \/ Address(b) \/ Control(b) \/ LengthHi(b)
  BY <1>3 DEF DfInv, Idle, Address, Control, LengthHi, Plain
<1>4. CASE LengthLo(b)
  BY <1>4 DEF DfInv, LengthLo, Plain
<1>5. CASE Body(b)
  <2>1. state' \in {"IN_BODY", "WAIT_CKSUM_LO"} /\ saw_escape' = FALSE
    BY <1>5 DEF Body, Plain
  <2> QED BY <2>1 DEF DfInv
<1>6. CASE Checksum(b)
  BY <1>6 DEF DfInv, Checksum, Plain, Reset
<1> QED BY <1>1, <1>2, <1>3, <1>4, <1>5, <1>6 DEF rx_byte

\* A flag that is not escaped begins a packet, whatever it interrupts.
LEMMA FlagByte ==
    ASSUME DfInv, ~saw_escape, rx_byte(FLAG)
    PROVE  state' = "WAIT_ADDR" /\ accumulator' = << >> /\ saw_escape' = FALSE /\ got' = Nothing
<1>1. FLAG # ESCAPE
  BY HdlcAssumption
<1>2. CASE Interrupted(FLAG)
  BY <1>2 DEF Interrupted, Reset
<1>3. CASE Idle(FLAG) \/ Address(FLAG)
  BY <1>3 DEF Idle, Address, Plain, DfInv
<1>4. ~(Control(FLAG) \/ LengthHi(FLAG) \/ LengthLo(FLAG) \/ Body(FLAG) \/ Checksum(FLAG))
  BY DEF Control, LengthHi, LengthLo, Body, Checksum, Plain
<1>5. ~EscapeFound(FLAG)
  BY <1>1 DEF EscapeFound
<1> QED BY <1>2, <1>3, <1>4, <1>5 DEF rx_byte

\* The first flag can be taken for a byte that was escaped, but not for an escape.
LEMMA FirstFlag ==
    ASSUME DfInv, rx_byte(FLAG)
    PROVE  saw_escape' = FALSE
<1>1. FLAG # ESCAPE
  BY HdlcAssumption
<1>2. ~EscapeFound(FLAG)
  BY <1>1 DEF EscapeFound
<1>3. Interrupted(FLAG) => saw_escape' = FALSE
  BY DEF Interrupted, Reset
<1>4. Plain(FLAG) => saw_escape' = FALSE
  BY DEF Plain
<1>5. Idle(FLAG) \/ Address(FLAG) \/ Control(FLAG) \/ LengthHi(FLAG) \/ LengthLo(FLAG)
        \/ Body(FLAG) \/ Checksum(FLAG) => Plain(FLAG)
  BY DEF Idle, Address, Control, LengthHi, LengthLo, Body, Checksum
<1> QED BY <1>2, <1>3, <1>4, <1>5 DEF rx_byte

\* The arms of rx_byte for a byte that is not taken for a flag or an escape.
LEMMA PlainArm ==
    ASSUME NEW b, b \in {FLAG, ESCAPE} => saw_escape, rx_byte(b)
    PROVE  /\ state = "WAIT_ADDR" => Address(b)
           /\ state = "WAIT_CONTROL" => Control(b)
           /\ state = "WAIT_LEN_HI" => LengthHi(b)
           /\ state = "WAIT_LEN_LO" => LengthLo(b)
           /\ state = "IN_BODY" => Body(b)
           /\ state = "WAIT_CKSUM_LO" => Checksum(b)
           /\ saw_escape' = FALSE
<1>1. ~EscapeFound(b) /\ ~Interrupted(b)
  BY DEF EscapeFound, Interrupted
<1>2. /\ Idle(b) => state = "IDLE" /\ Plain(b)
      /\ Address(b) => state = "WAIT_ADDR" /\ Plain(b)
      /\ Control(b) => state = "WAIT_CONTROL" /\ Plain(b)
      /\ LengthHi(b) => state = "WAIT_LEN_HI" /\ Plain(b)
      /\ LengthLo(b) => state = "WAIT_LEN_LO" /\ Plain(b)
      /\ Body(b) => state = "IN_BODY" /\ Plain(b)
      /\ Checksum(b) => state = "WAIT_CKSUM_LO" /\ Plain(b)
  BY DEF Idle, Address, Control, LengthHi, LengthLo, Body, Checksum
<1>3. Plain(b) => saw_escape' = FALSE
  BY DEF Plain
<1> QED BY <1>1, <1>2, <1>3 DEF rx_byte

---------------------------------------------------------------------------
(* How the Deframer goes through a packet that nothing cuts.                 *)

\* What is waited for where, and how much of the payload there is by then.
LEMMA ExpectedFacts ==
    ASSUME SoundPackets, NEW p \in Senders, NEW n \in Nat, n < Size(p) + 2
    PROVE  /\ n = 0 => Expected(p, n) = "WAIT_ADDR"
           /\ n = 1 => Expected(p, n) = "WAIT_CONTROL"
           /\ n = 2 => Expected(p, n) = "WAIT_LEN_HI"
           /\ n = 3 => Expected(p, n) = "WAIT_LEN_LO"
           /\ 4 <= n /\ n <= Size(p) => Expected(p, n) = "IN_BODY" /\ Gathered(p, n) = n - 4
           /\ n = Size(p) + 1 => /\ Expected(p, n) = "WAIT_CKSUM_LO"
                                 /\ Gathered(p, n) = Len(p.payload)
           /\ Expected(p, n) \notin {"IDLE"}
           /\ Expected(p, n) = "IN_BODY" => 4 <= n /\ n <= Size(p)
           /\ n <= 4 => Gathered(p, n) = 0
<1> DEFINE z == Size(p)
           L == Len(p.payload)
<1>1. z \in Nat /\ z >= 4 /\ n < z + 2 /\ L \in Nat /\ z = 4 + L
  BY PacketType DEF Size
<1> HIDE DEF z, L
<1>2. n = 0 \/ n = 1 \/ n = 2 \/ n = 3 \/ (4 <= n /\ n <= z) \/ n = z + 1
  BY <1>1
<1>3. CASE n \in {0, 1, 2, 3}
  BY <1>1, <1>3 DEF Expected, Gathered, z, L
<1>4. CASE 4 <= n /\ n <= z
  BY <1>1, <1>4 DEF Expected, Gathered, z, L
<1>5. CASE n = z + 1
  BY <1>1, <1>5 DEF Expected, Gathered, z, L
<1> QED BY <1>2, <1>3, <1>4, <1>5

\* Where the Deframer is among the bytes of the packet.
LEMMA WithinFacts ==
    ASSUME SoundPackets, NEW p \in Senders, NEW k \in Nat, NEW n \in Nat, Within(p, k, n)
    PROVE  /\ Lead \in Nat /\ n + 1 <= Size(p) + 2
           /\ Upto(p, n) \in Nat /\ Upto(p, n + 1) \in Nat /\ Upto(p, Size(p)) \in Nat
           /\ Upto(p, n + 1) <= Len(Raw(p))
           /\ k = Lead + Upto(p, n) + (IF saw_escape THEN 1 ELSE 0)
           /\ k + 1 <= Lead + Upto(p, n + 1)
           /\ k + 1 = Lead + Upto(p, n + 1) <=>
                saw_escape \/ Bare(p)[n + 1] \notin {FLAG, ESCAPE}
           /\ Raw(p)[(k - Lead) + 1] =
                IF k + 1 = Lead + Upto(p, n + 1) THEN Bare(p)[n + 1] ELSE ESCAPE
           /\ n < Size(p) => Upto(p, n + 1) <= Upto(p, Size(p))
           /\ n = Size(p) => ~saw_escape /\ k + 1 = Lead + Upto(p, n + 1)
<1> DEFINE z == Size(p)
           s == Bare(p)
           o == IF saw_escape THEN 1 ELSE 0
<1>1. z \in Nat /\ z >= 4
  BY PacketType
<1>2. s \in Seq(Nat) /\ Len(s) = z + 2
  BY BareFacts
<1>3. Lead \in Nat
  BY SentFacts DEF Flagged
<1>4. /\ n < z + 2 /\ k = Lead + Upto(p, n) + o
      /\ saw_escape => s[n + 1] \in {FLAG, ESCAPE}
  BY DEF Within
<1>5. o \in {0, 1} /\ (saw_escape <=> o = 1)
  OBVIOUS
<1>6. PICK t \in {0, 1} : t = o
  BY <1>5
<1>7. Amid(s, z, n, t, k, Lead)
  <2>1. z <= Len(s) /\ n < Len(s)
    BY <1>1, <1>2, <1>4
  <2>2. k = Lead + Len(Escapes(s)[n]) + t /\ (t = 1 => s[n + 1] \in {FLAG, ESCAPE})
    BY <1>4, <1>5, <1>6 DEF Upto
  <2> HIDE DEF o, s, z, Lead
  <2> QED BY <1>1, <1>2, <1>3, <2>1, <2>2, AmidFacts
<1>8. n = z => s[n + 1] \notin {FLAG, ESCAPE}
  <2>1. s[z + 1] = HighByte(FcsOf(p))
    BY BareFacts
  <2>2. HighByte(FcsOf(p)) \notin {FLAG, ESCAPE}
    BY DEF SoundPackets, Sound, LengthIsPlain, SumIsPlain
  <2> QED BY <2>1, <2>2
<1>9. Upto(p, n) \in Nat
  <2>1. n <= n /\ n <= Len(s)
    BY <1>1, <1>2, <1>4
  <2> QED BY <1>2, <2>1, EscapesGrow DEF Upto
<1> HIDE DEF o
<1>10. /\ Upto(p, n + 1) \in Nat /\ Upto(p, z) \in Nat
       /\ Upto(p, n + 1) <= Len(Raw(p))
       /\ k + 1 <= Lead + Upto(p, n + 1)
       /\ k + 1 = Lead + Upto(p, n + 1) <=> t = 1 \/ s[n + 1] \notin {FLAG, ESCAPE}
       /\ Raw(p)[(k - Lead) + 1] =
            IF k + 1 = Lead + Upto(p, n + 1) THEN s[n + 1] ELSE ESCAPE
       /\ n < z => Upto(p, n + 1) <= Upto(p, z)
  BY <1>7 DEF Amid, Upto, Raw
<1>11. n + 1 <= z + 2
  BY <1>1, <1>4
<1>12. n = z => ~saw_escape /\ k + 1 = Lead + Upto(p, n + 1)
  BY <1>4, <1>8, <1>10
<1>13. t = 1 <=> saw_escape
  BY <1>5, <1>6
<1>14. k = Lead + Upto(p, n) + (IF saw_escape THEN 1 ELSE 0)
  BY <1>4 DEF o
<1> HIDE DEF s, z
<1> QED BY <1>3, <1>9, <1>10, <1>11, <1>12, <1>13, <1>14 DEF s, z

\* The escape of the next byte.
LEMMA EscapeStep ==
    ASSUME SoundPackets, NEW p \in Senders, NEW k \in Nat, NEW n \in Nat, Within(p, k, n),
           Bare(p)[n + 1] \in {FLAG, ESCAPE}, ~saw_escape, rx_byte(ESCAPE)
    PROVE  Within(p, k + 1, n)' /\ got' = Nothing
<1> DEFINE z == Size(p)
           u == Upto(p, n)
           v == Upto(p, n + 1)
           w == Upto(p, z)
<1>1. FLAG # ESCAPE
  BY HdlcAssumption
<1>2. EscapeFound(ESCAPE)
  <2>1. ~Interrupted(ESCAPE)
    BY <1>1 DEF Interrupted
  <2>2. ~Plain(ESCAPE)
    BY <1>1 DEF Plain
  <2>3. ~Idle(ESCAPE) /\ ~Address(ESCAPE) /\ ~Control(ESCAPE) /\ ~LengthHi(ESCAPE)
        /\ ~LengthLo(ESCAPE) /\ ~Body(ESCAPE) /\ ~Checksum(ESCAPE)
    BY <2>2 DEF Idle, Address, Control, LengthHi, LengthLo, Body, Checksum
  <2> QED BY <2>1, <2>3 DEF rx_byte
<1>3. /\ saw_escape' = TRUE /\ state' = state /\ got' = Nothing
      /\ body_rem' = IF state = "IN_BODY" THEN Less(body_rem) ELSE body_rem
      /\ UNCHANGED <<cur_addr, cur_control, cur_len, accumulator>>
  BY <1>2 DEF EscapeFound
<1>4. /\ Lead \in Nat /\ n + 1 <= z + 2 /\ u \in Nat /\ v \in Nat /\ w \in Nat
      /\ k = Lead + u + 0
      /\ k + 1 <= Lead + v /\ k + 1 # Lead + v
      /\ n < z => v <= w
      /\ n # z
  <2>1. /\ Lead \in Nat /\ n + 1 <= z + 2 /\ u \in Nat /\ v \in Nat /\ w \in Nat
        /\ k = Lead + u + (IF saw_escape THEN 1 ELSE 0)
        /\ k + 1 <= Lead + v
        /\ k + 1 = Lead + v <=> saw_escape \/ Bare(p)[n + 1] \notin {FLAG, ESCAPE}
        /\ n < z => v <= w
        /\ n = z => ~saw_escape /\ k + 1 = Lead + v
    BY WithinFacts
  <2> HIDE DEF u, v, w, z
  <2> QED BY <2>1
<1>5. z \in Nat /\ z >= 4
  BY PacketType
<1>6. k + 1 = Lead + u + (IF saw_escape' THEN 1 ELSE 0)
  <2> HIDE DEF u
  <2> QED BY <1>3, <1>4
<1>7. /\ n < z + 2 /\ state = Expected(p, n)
      /\ n >= 1 => cur_addr = p.address
      /\ n >= 2 => cur_control = p.command
      /\ n = 3 => cur_len = HighByte(Len(Stuffed(p))) * ByteMod
      /\ state = "IN_BODY" => body_rem = (Lead + w) - k
      /\ accumulator \in Seq(Nat) /\ Len(accumulator) = Gathered(p, n)
      /\ \A i \in 1 .. Len(accumulator) : accumulator[i] = p.payload[i]
  BY DEF Within
<1>8. state' = "IN_BODY" => body_rem' = (Lead + w) - (k + 1)
  <2> SUFFICES ASSUME state = "IN_BODY" PROVE body_rem' = (Lead + w) - (k + 1)
    BY <1>3
  <2>1. n <= z
    BY <1>7, ExpectedFacts
  <2> HIDE DEF u, v, w, z
  <2>2. n < z /\ body_rem = (Lead + w) - k
    BY <1>4, <1>5, <1>7, <2>1
  <2>3. body_rem \in Nat
    BY <1>4, <2>2
  <2>4. body_rem' = body_rem - 1
    BY <1>3, <2>3 DEF Less
  <2> QED BY <1>4, <2>2, <2>4
<1>9. Within(p, k + 1, n)'
  <2>1. saw_escape' => Bare(p)[n + 1] \in {FLAG, ESCAPE}
    OBVIOUS
  <2> HIDE DEF u, w, z
  <2> QED BY <1>3, <1>6, <1>7, <1>8, <2>1 DEF Within, u, w, z
<1> QED BY <1>3, <1>9

\* A byte of the header's, but for the last of it.
LEMMA HeaderByte ==
    ASSUME SoundPackets, NEW p \in Senders, NEW k \in Nat, NEW n \in Nat, Within(p, k, n),
           NEW b \in Nat, b = Bare(p)[n + 1], b \in {FLAG, ESCAPE} => saw_escape,
           n < 3, rx_byte(b)
    PROVE  Within(p, k + 1, n + 1)' /\ got' = Nothing
<1> DEFINE m == n + 1
<1>1. Size(p) \in Nat /\ Size(p) >= 4 /\ m \in Nat /\ m < Size(p) + 2 /\ m <= 3
  BY PacketType
<1>2. k + 1 = Lead + Upto(p, m) /\ Lead \in Nat /\ Upto(p, m) \in Nat
  BY WithinFacts
<1>3. /\ state = Expected(p, n)
      /\ n >= 1 => cur_addr = p.address
      /\ n >= 2 => cur_control = p.command
      /\ accumulator \in Seq(Nat) /\ Len(accumulator) = Gathered(p, n)
      /\ \A i \in 1 .. Len(accumulator) : accumulator[i] = p.payload[i]
  BY DEF Within
<1>4. Gathered(p, n) = 0 /\ Gathered(p, m) = 0
  <2>1. n < Size(p) + 2 /\ n <= 4 /\ m <= 4
    BY <1>1
  <2> HIDE DEF m
  <2> QED BY <1>1, <2>1, ExpectedFacts
<1>5. b = Bare(p)[m] /\ saw_escape' = FALSE
  BY PlainArm
<1>6. /\ Bare(p)[1] = p.address /\ Bare(p)[2] = p.command
      /\ Bare(p)[3] = HighByte(Len(Stuffed(p)))
  BY BareFacts
<1>7. p.address # FLAG
  BY PacketType
<1>8. /\ state' = Expected(p, m) /\ accumulator' = accumulator /\ got' = Nothing
      /\ m >= 1 => cur_addr' = p.address
      /\ m >= 2 => cur_control' = p.command
      /\ m = 3 => cur_len' = HighByte(Len(Stuffed(p))) * ByteMod
      /\ state' # "IN_BODY"
  <2>1. CASE n = 0
    <3>1. state = "WAIT_ADDR" /\ Expected(p, m) = "WAIT_CONTROL" /\ b # FLAG
      BY <1>1, <1>3, <1>5, <1>6, <1>7, <2>1, ExpectedFacts
    <3>2. Address(b)
      BY <3>1, PlainArm
    <3>3. b = p.address /\ ~(m >= 2) /\ m # 3
      BY <1>5, <1>6, <2>1
    <3> QED BY <3>1, <3>2, <3>3 DEF Address
  <2>2. CASE n = 1
    <3>1. state = "WAIT_CONTROL" /\ Expected(p, m) = "WAIT_LEN_HI"
      BY <1>1, <1>3, <2>2, ExpectedFacts, SMTT(30)
    <3>2. Control(b)
      BY <3>1, PlainArm
    <3>3. b = p.command /\ m # 3 /\ cur_addr = p.address
      BY <1>3, <1>5, <1>6, <2>2
    <3> QED BY <3>1, <3>2, <3>3 DEF Control
  <2>3. CASE n = 2
    <3>1. state = "WAIT_LEN_HI" /\ Expected(p, m) = "WAIT_LEN_LO"
      BY <1>1, <1>3, <2>3, ExpectedFacts
    <3>2. LengthHi(b)
      BY <3>1, PlainArm
    <3>3. b = HighByte(Len(Stuffed(p))) /\ cur_addr = p.address /\ cur_control = p.command
      BY <1>3, <1>5, <1>6, <2>3
    <3> QED BY <3>1, <3>2, <3>3 DEF LengthHi
  <2> QED BY <2>1, <2>2, <2>3
<1>9. k + 1 = Lead + Upto(p, m) + (IF saw_escape' THEN 1 ELSE 0)
  BY <1>2, <1>5
<1>10. Len(accumulator') = Gathered(p, m)
  BY <1>3, <1>4, <1>8
<1> HIDE DEF m
<1>11. Within(p, k + 1, m)'
  BY <1>1, <1>3, <1>5, <1>8, <1>9, <1>10 DEF Within
<1> QED BY <1>8, <1>11 DEF m

\* The header's last byte completes the length; where that is too long, the
\* packet ends with an exception.
LEMMA LengthByte ==
    ASSUME SoundPackets, NEW p \in Senders, NEW k \in Nat, Within(p, k, 3), DfInv,
           NEW b \in Nat, b = Bare(p)[4], b \in {FLAG, ESCAPE} => saw_escape, rx_byte(b)
    PROVE  /\ got' = Nothing \/ got' = TooLong
           /\ Polite(p) => got' = Nothing
           /\ got' = Nothing => Within(p, k + 1, 4)'
<1> DEFINE N == Len(Stuffed(p))
           u == Upto(p, 4)
           w == Upto(p, Size(p))
<1>1. Size(p) \in Nat /\ Size(p) >= 4 /\ N \in Nat
  BY PacketType
<1>2. k + 1 = Lead + u /\ Lead \in Nat /\ u \in Nat /\ w \in Nat
  <2> DEFINE n == 3
  <2>1. Within(p, k, n) /\ n \in Nat /\ n + 1 = 4
    OBVIOUS
  <2> HIDE DEF n
  <2>2. /\ k + 1 = Lead + Upto(p, n + 1) <=> saw_escape \/ Bare(p)[n + 1] \notin {FLAG, ESCAPE}
        /\ Lead \in Nat /\ Upto(p, n + 1) \in Nat /\ w \in Nat
    BY <2>1, WithinFacts
  <2> QED BY <2>1, <2>2
<1>3. u + N = w
  BY RawFacts
<1>4. /\ state = Expected(p, 3) /\ cur_addr = p.address /\ cur_control = p.command
      /\ cur_len = HighByte(N) * ByteMod
      /\ accumulator \in Seq(Nat) /\ Len(accumulator) = Gathered(p, 3)
      /\ \A i \in 1 .. Len(accumulator) : accumulator[i] = p.payload[i]
  BY DEF Within
<1>5. state = "WAIT_LEN_LO" /\ Gathered(p, 3) = 0
  BY <1>1, <1>4, ExpectedFacts
<1>6. Expected(p, 4) = "IN_BODY" /\ Gathered(p, 4) = 0
  BY <1>1, ExpectedFacts
<1>7. LengthLo(b) /\ saw_escape' = FALSE
  BY <1>5, PlainArm
<1>8. cur_len + b = N
  <2>1. b = LowByte(N)
    BY BareFacts
  <2>2. HighByte(N) * ByteMod + LowByte(N) = N
    BY <1>1, TwoBytes
  <2> QED BY <1>4, <2>1, <2>2
<1> HIDE DEF N, u, w
<1>9. /\ body_rem' = N /\ accumulator' = accumulator /\ cur_addr' = cur_addr
      /\ cur_control' = cur_control
      /\ IF N > MAX_PACKET_LEN THEN state' = "IDLE" /\ got' = TooLong
         ELSE state' = "IN_BODY" /\ got' = Nothing
  BY <1>7, <1>8 DEF LengthLo
<1>10. Polite(p) => got' = Nothing
  <2>1. Polite(p) => N <= MAX_PACKET_LEN
    BY DEF Polite, N
  <2> QED BY <1>1, <1>9, <2>1, MaxPacketAssumption
<1>11. TooLong # Nothing
  BY DEF TooLong, Nothing
<1>12. ASSUME got' = Nothing PROVE Within(p, k + 1, 4)'
  <2>1. state' = "IN_BODY"
    BY <1>9, <1>11, <1>12
  <2>2. body_rem' = (Lead + w) - (k + 1)
    BY <1>1, <1>2, <1>3, <1>9
  <2>3. k + 1 = Lead + u + (IF saw_escape' THEN 1 ELSE 0)
    BY <1>2, <1>7
  <2>4. Len(accumulator') = Gathered(p, 4)
    BY <1>4, <1>5, <1>6, <1>9
  <2>5. PICK n \in Nat : n = 4
    OBVIOUS
  <2>6. n < Size(p) + 2 /\ n # 3
    BY <1>1, <2>5
  <2>7. k + 1 = Lead + Upto(p, n) + (IF saw_escape' THEN 1 ELSE 0)
    BY <2>3, <2>5 DEF u
  <2>8. state' = Expected(p, n) /\ Len(accumulator') = Gathered(p, n)
    BY <1>6, <2>1, <2>4, <2>5
  <2>9. /\ body_rem' = (Lead + Upto(p, Size(p))) - (k + 1)
        /\ cur_addr' = p.address /\ cur_control' = p.command /\ ~saw_escape'
    BY <1>4, <1>7, <1>9, <2>2 DEF w
  <2>10. accumulator' \in Seq(Nat) /\ \A i \in 1 .. Len(accumulator') : accumulator'[i] = p.payload[i]
    BY <1>4, <1>9
  <2>11. Within(p, k + 1, n)'
    BY <2>6, <2>7, <2>8, <2>9, <2>10 DEF Within
  <2> QED BY <2>5, <2>11
<1> QED BY <1>9, <1>10, <1>12

\* A byte of the payload.
LEMMA BodyByte ==
    ASSUME SoundPackets, NEW p \in Senders, NEW k \in Nat, NEW n \in Nat, Within(p, k, n),
           NEW b \in Nat, b = Bare(p)[n + 1], b \in {FLAG, ESCAPE} => saw_escape,
           4 <= n, n < Size(p), rx_byte(b)
    PROVE  Within(p, k + 1, n + 1)' /\ got' = Nothing
<1> DEFINE m == n + 1
           z == Size(p)
           L == Len(p.payload)
           u == Upto(p, m)
           w == Upto(p, z)
<1>1. z \in Nat /\ z >= 4 /\ L \in Nat /\ z = 4 + L
  BY PacketType DEF Size
<1>2. k + 1 = Lead + u /\ Lead \in Nat /\ u \in Nat /\ w \in Nat /\ u <= w
  BY WithinFacts
<1>3. /\ state = Expected(p, n) /\ cur_addr = p.address /\ cur_control = p.command
      /\ state = "IN_BODY" => body_rem = (Lead + w) - k
      /\ accumulator \in Seq(Nat) /\ Len(accumulator) = Gathered(p, n)
      /\ \A i \in 1 .. Len(accumulator) : accumulator[i] = p.payload[i]
  <2>1. n >= 1 /\ n >= 2
    OBVIOUS
  <2> HIDE DEF m, z, L, u
  <2> QED BY <2>1 DEF Within, z
<1>4. state = "IN_BODY" /\ Gathered(p, n) = n - 4
  <2>1. n < z + 2 /\ n <= z
    BY <1>1
  <2> QED BY <1>3, <2>1, ExpectedFacts
<1>5. Expected(p, m) = "IN_BODY" /\ Gathered(p, m) = m - 4
  <2>1. m \in Nat /\ m < z + 2 /\ m <= z /\ 4 <= m
    BY <1>1
  <2> HIDE DEF m
  <2> QED BY <2>1, ExpectedFacts
<1>6. Body(b) /\ saw_escape' = FALSE
  BY <1>4, PlainArm
<1>7. b = p.payload[m - 4]
  <2> DEFINE i == n - 3
  <2>1. i \in 1 .. L /\ m = 4 + i /\ m - 4 = i
    BY <1>1
  <2> HIDE DEF i, m
  <2>2. Bare(p)[4 + i] = p.payload[i]
    BY <2>1, BareFacts DEF L
  <2> QED BY <2>1, <2>2 DEF m
<1>8. m \in Nat /\ m < z + 2 /\ m >= 5 /\ m - 4 = (n - 4) + 1 /\ n - 4 \in Nat
  BY <1>1
<1> HIDE DEF m, z, L, u, w
<1>9. body_rem > 0 /\ body_rem = (Lead + w) - k /\ ~(body_rem = 0) /\ ~(body_rem < 0)
  BY <1>2, <1>3, <1>4
<1>10. /\ body_rem' = body_rem - 1 /\ accumulator' = Append(accumulator, b) /\ state' = state
       /\ got' = Nothing /\ UNCHANGED <<cur_addr, cur_control>>
  BY <1>6, <1>9 DEF Body
<1>11. body_rem' = (Lead + w) - (k + 1)
  BY <1>2, <1>9, <1>10
<1>12. k + 1 = Lead + u + (IF saw_escape' THEN 1 ELSE 0)
  BY <1>2, <1>6
<1>13. /\ accumulator' \in Seq(Nat) /\ Len(accumulator') = m - 4
       /\ \A i \in 1 .. Len(accumulator') : accumulator'[i] = p.payload[i]
  <2>1. /\ accumulator' \in Seq(Nat) /\ Len(accumulator') = Len(accumulator) + 1
        /\ \A i \in 1 .. Len(accumulator) : accumulator'[i] = accumulator[i]
        /\ accumulator'[Len(accumulator) + 1] = b
    BY <1>3, <1>10, AppendProperties
  <2>2. Len(accumulator) = n - 4 /\ Len(accumulator) + 1 = m - 4
    BY <1>3, <1>4, <1>8
  <2>3. ASSUME NEW i \in 1 .. Len(accumulator') PROVE accumulator'[i] = p.payload[i]
    <3>1. i \in 1 .. Len(accumulator) \/ i = Len(accumulator) + 1
      BY <1>8, <2>1, <2>2
    <3>2. CASE i \in 1 .. Len(accumulator)
      BY <1>3, <2>1, <3>2
    <3>3. CASE i = Len(accumulator) + 1
      BY <1>7, <2>1, <2>2, <3>3
    <3> QED BY <3>1, <3>2, <3>3
  <2> QED BY <2>1, <2>2, <2>3
<1>14. Len(accumulator') = Gathered(p, m)
  BY <1>5, <1>13
<1>15. m # 3
  BY <1>8
<1>16. Within(p, k + 1, m)'
  BY <1>3, <1>4, <1>5, <1>6, <1>8, <1>10, <1>11, <1>12, <1>13, <1>14, <1>15
     DEF Within, u, w, z
<1> QED BY <1>10, <1>16 DEF m

\* The checksum's first byte.
LEMMA SumByte ==
    ASSUME SoundPackets, NEW p \in Senders, NEW k \in Nat, NEW n \in Nat, Within(p, k, n),
           NEW b \in Nat, b = Bare(p)[n + 1], b \in {FLAG, ESCAPE} => saw_escape,
           n = Size(p), rx_byte(b)
    PROVE  Within(p, k + 1, n + 1)' /\ got' = Nothing
<1> DEFINE m == n + 1
           z == Size(p)
           u == Upto(p, m)
           w == Upto(p, z)
<1>1. z \in Nat /\ z >= 4 /\ Len(p.payload) \in Nat /\ z = 4 + Len(p.payload)
  BY PacketType DEF Size
<1>2. /\ k + 1 = Lead + u /\ Lead \in Nat /\ u \in Nat /\ w \in Nat /\ ~saw_escape
      /\ k = Lead + Upto(p, n) + (IF saw_escape THEN 1 ELSE 0)
  BY WithinFacts
<1>3. /\ state = Expected(p, n) /\ cur_addr = p.address /\ cur_control = p.command
      /\ state = "IN_BODY" => body_rem = (Lead + w) - k
      /\ accumulator \in Seq(Nat) /\ Len(accumulator) = Gathered(p, n)
      /\ \A i \in 1 .. Len(accumulator) : accumulator[i] = p.payload[i]
  BY <1>1 DEF Within
<1>4. state = "IN_BODY" /\ Gathered(p, n) = n - 4
  <2>1. n < z + 2 /\ n <= z /\ 4 <= n
    BY <1>1
  <2> QED BY <1>3, <2>1, ExpectedFacts
<1>5. Expected(p, m) = "WAIT_CKSUM_LO" /\ Gathered(p, m) = Len(p.payload)
  <2>1. m \in Nat /\ m < z + 2 /\ m = z + 1
    BY <1>1
  <2> HIDE DEF m
  <2> QED BY <2>1, ExpectedFacts
<1>6. Body(b) /\ saw_escape' = FALSE
  BY <1>4, PlainArm
<1>7. k = Lead + w + 0
  <2>1. w = Upto(p, n)
    OBVIOUS
  <2> HIDE DEF w
  <2> QED BY <1>2, <2>1
<1>8. m \in Nat /\ m < z + 2 /\ m >= 5 /\ m # 3 /\ n - 4 = Len(p.payload)
  BY <1>1
<1> HIDE DEF m, z, u, w
<1>9. body_rem = 0 /\ ~(body_rem > 0) /\ ~(body_rem < 0)
  <2>1. body_rem = (Lead + w) - k
    BY <1>3, <1>4
  <2>2. Lead \in Nat /\ w \in Nat
    BY <1>2
  <2>3. body_rem = 0
    BY <1>7, <2>1, <2>2
  <2> QED BY <2>3
<1>10. /\ state' = "WAIT_CKSUM_LO" /\ accumulator' = accumulator
       /\ got' = Nothing /\ UNCHANGED <<cur_addr, cur_control>>
  BY <1>6, <1>9 DEF Body
<1>11. k + 1 = Lead + u + (IF saw_escape' THEN 1 ELSE 0)
  BY <1>2, <1>6
<1>12. Len(accumulator') = Gathered(p, m)
  BY <1>3, <1>4, <1>5, <1>8, <1>10
<1>13. Within(p, k + 1, m)'
  BY <1>3, <1>5, <1>6, <1>8, <1>10, <1>11, <1>12 DEF Within, u, z
<1> QED BY <1>10, <1>13 DEF m

\* The checksum's last byte completes the packet, which frame_cb gets.
LEMMA LastByte ==
    ASSUME SoundPackets, NEW p \in Senders, NEW k \in Nat, NEW n \in Nat, Within(p, k, n),
           NEW b \in Nat, b = Bare(p)[n + 1], b \in {FLAG, ESCAPE} => saw_escape,
           n = Size(p) + 1, rx_byte(b), up, Receive(b)
    PROVE  /\ Polite(p) => ~Raises'
           /\ ~Raises' => Closing(p, k + 1)'
<1> DEFINE z == Size(p)
           s == p.payload
<1>1. z \in Nat /\ z >= 4
  BY PacketType
<1>2. /\ k + 1 = Lead + Upto(p, n + 1) /\ Lead \in Nat /\ Upto(p, n + 1) \in Nat
  BY WithinFacts
<1>3. /\ state = Expected(p, n) /\ cur_addr = p.address /\ cur_control = p.command
      /\ accumulator \in Seq(Nat) /\ Len(accumulator) = Gathered(p, n)
      /\ \A i \in 1 .. Len(accumulator) : accumulator[i] = p.payload[i]
  BY <1>1 DEF Within
<1>4. state = "WAIT_CKSUM_LO" /\ Gathered(p, n) = Len(s)
  <2>1. n < z + 2
    BY <1>1
  <2> QED BY <1>3, <2>1, ExpectedFacts
<1>5. Checksum(b)
  BY <1>4, PlainArm
<1>6. accumulator = s
  <2>1. s \in Seq(Nat)
    BY PacketType
  <2> HIDE DEF s
  <2>2. Len(accumulator) = Len(s)
    BY <1>3, <1>4
  <2>3. \A i \in 1 .. Len(accumulator) : accumulator[i] = s[i]
    BY <1>3 DEF s
  <2> QED BY <1>3, <2>1, <2>2, <2>3, SeqEqual
<1>7. Upto(p, n + 1) = Len(Raw(p)) /\ Len(Raw(p)) \in Nat
  <2>1. n + 1 = z + 2
    BY <1>1
  <2>2. Upto(p, z + 2) = Len(Raw(p)) /\ Len(Raw(p)) \in Nat
    BY RawFacts
  <2> QED BY <2>1, <2>2
<1>8. k + 1 >= Lead + Len(Raw(p))
  BY <1>2, <1>7
<1>9. CASE ~cb_raises(cur_addr, accumulator)
  <2>1. got' = Frame(cur_addr, cur_control, accumulator) /\ state' = "IDLE" /\ saw_escape' = FALSE
    BY <1>5, <1>9 DEF Checksum, Reset
  <2>2. /\ ~Raises' /\ got'.what = "frame"
        /\ got'.payload = s /\ got'.address = p.address /\ got'.control = p.command
    BY <1>3, <1>6, <2>1, GotFrame
  <2>3. last' = [payload |-> p.payload, address |-> p.address, command |-> p.command]
    BY <2>2 DEF Receive
  <2>4. last' = p
    BY <2>3, PacketType
  <2>5. Closing(p, k + 1)'
    BY <1>8, <2>1, <2>4 DEF Closing, Quiet
  <2> QED BY <2>2, <2>5
<1>10. CASE cb_raises(cur_addr, accumulator)
  <2>1. got' = Raised
    BY <1>5, <1>10 DEF Checksum
  <2>2. Raises'
    BY <2>1 DEF Raises, Raised
  <2>3. ~Polite(p)
    BY <1>3, <1>6, <1>10 DEF Polite
  <2> QED BY <2>2, <2>3
<1> QED BY <1>9, <1>10

\* The flags after a packet leave it delivered.
LEMMA ClosingStep ==
    ASSUME SoundPackets, NEW p \in Senders, NEW k \in Nat, k < Len(Sent(p)), DfInv,
           Closing(p, k), up, Receive(Sent(p)[k + 1])
    PROVE  ~Raises' /\ Closing(p, k + 1)'
<1> DEFINE b == Sent(p)[k + 1]
           L == Len(Raw(p))
           m == k + 1
<1>1. Lead \in Nat /\ L \in Nat /\ (Lead + L <= k => b = FLAG)
  BY SentFacts DEF Flagged
<1>2. rx_byte(b) /\ (got'.what # "frame" => last' = last)
  BY DEF Receive
<1> HIDE DEF L
<1>3. k >= Lead + L /\ ~saw_escape /\ last = p
  BY DEF Closing, Quiet, L
<1>4. b = FLAG
  BY <1>1, <1>3
<1>5. state' = "WAIT_ADDR" /\ saw_escape' = FALSE /\ got' = Nothing
  BY <1>2, <1>3, <1>4, FlagByte
<1>6. ~Raises' /\ last' = p
  BY <1>2, <1>3, <1>5, GotNothing
<1>7. m >= Lead + L
  BY <1>1, <1>3
<1> HIDE DEF m
<1>8. Closing(p, m)'
  BY <1>5, <1>6, <1>7 DEF Closing, Quiet, L
<1> QED BY <1>6, <1>8 DEF m

\* A byte of a packet that the script receives.
LEMMA StageStep ==
    ASSUME SoundPackets, NEW p \in Senders, NEW k \in Nat, k < Len(Sent(p)), DfInv,
           Stage(p, k), up, Receive(Sent(p)[k + 1])
    PROVE  /\ ~Raises' => Stage(p, k + 1)'
           /\ Polite(p) /\ (k = 0 => Quiet) => ~Raises'
<1> DEFINE b == Sent(p)[k + 1]
           r == Raw(p)
           L == Len(r)
<1>1. /\ Lead \in Nat /\ Lead >= 2 /\ L \in Nat /\ Len(Sent(p)) > Lead + L
      /\ k < Lead => b = FLAG
      /\ Lead + L <= k => b = FLAG
      /\ \A i \in Nat : i < L => Sent(p)[(Lead + i) + 1] = r[i + 1]
  BY SentFacts DEF Flagged
<1>2. rx_byte(b) /\ up' = ~Raises'
      /\ (got'.what # "frame" => last' = last)
  BY DEF Receive
<1>3. Size(p) \in Nat /\ Size(p) >= 4
  BY PacketType
<1> HIDE DEF L
<1>4. CASE k = 0
  <2>1. b = FLAG
    BY <1>1, <1>4
  <2>2. saw_escape' = FALSE
    BY <1>2, <2>1, FirstFlag
  <2> DEFINE m == k + 1
  <2>3. 1 <= m /\ m < Lead /\ ~(m >= 2)
    BY <1>1, <1>4
  <2> HIDE DEF m
  <2>4. Stage(p, m)'
    BY <2>2, <2>3 DEF Stage, Opening
  <2>5. Quiet => ~Raises'
    BY <1>2, <2>1, FlagByte, GotNothing DEF Quiet
  <2> QED BY <1>4, <2>4, <2>5 DEF m
<1>5. CASE Opening(k)
  <2>1. 1 <= k /\ k < Lead /\ ~saw_escape /\ b = FLAG
    BY <1>1, <1>5 DEF Opening
  <2>2. state' = "WAIT_ADDR" /\ accumulator' = << >> /\ saw_escape' = FALSE /\ got' = Nothing
    BY <1>2, <2>1, FlagByte
  <2> DEFINE m == k + 1
  <2>3. m \in Nat /\ 1 <= m /\ (m < Lead \/ m = Lead)
    BY <1>1, <2>1
  <2> HIDE DEF m
  <2>4. ASSUME m < Lead PROVE Stage(p, m)'
    BY <2>2, <2>3, <2>4 DEF Stage, Opening
  <2>5. ASSUME m = Lead PROVE Stage(p, m)'
    <3>1. PICK n \in Nat : n = 0
      OBVIOUS
    <3>2. Upto(p, n) = 0
      BY <3>1, RawFacts
    <3>3. m = Lead + Upto(p, n) + (IF saw_escape' THEN 1 ELSE 0)
      BY <1>1, <2>2, <2>5, <3>2
    <3>4. Expected(p, n) = "WAIT_ADDR" /\ Gathered(p, n) = 0
      BY <1>3, <3>1, ExpectedFacts
    <3>5. ~(n >= 1) /\ ~(n >= 2) /\ n # 3 /\ n < Size(p) + 2 /\ n \in 0 .. Size(p) + 1
      BY <1>3, <3>1
    <3>6. /\ accumulator' \in Seq(Nat) /\ Len(accumulator') = 0
          /\ \A i \in 1 .. Len(accumulator') : accumulator'[i] = p.payload[i]
      BY <2>2
    <3>7. Within(p, m, n)'
      BY <2>2, <3>3, <3>4, <3>5, <3>6 DEF Within
    <3> QED BY <3>5, <3>7 DEF Stage
  <2>6. ~Raises'
    BY <2>2, GotNothing
  <2> QED BY <2>3, <2>4, <2>5, <2>6 DEF m
<1>6. CASE Closing(p, k)
  <2>1. ~Raises' /\ Closing(p, k + 1)'
    BY <1>6, ClosingStep
  <2> QED BY <2>1 DEF Stage
<1>7. ASSUME NEW n \in 0 .. Size(p) + 1, Within(p, k, n)
      PROVE  /\ ~Raises' => Stage(p, k + 1)'
             /\ Polite(p) => ~Raises'
  <2> DEFINE u == Upto(p, n)
             v == Upto(p, n + 1)
             x == Bare(p)[n + 1]
             j == k - Lead
             z == Size(p)
  <2>1. n \in Nat /\ n + 1 <= z + 2
    BY <1>3
  <2>2. /\ u \in Nat /\ v \in Nat /\ v <= L /\ k + 1 <= Lead + v
        /\ k = Lead + u + (IF saw_escape THEN 1 ELSE 0)
        /\ k + 1 = Lead + v <=> saw_escape \/ x \notin {FLAG, ESCAPE}
        /\ r[j + 1] = IF k + 1 = Lead + v THEN x ELSE ESCAPE
    BY <1>7, <2>1, WithinFacts DEF L
  <2>3. j \in Nat /\ j < L /\ k = Lead + j
    <3> DEFINE o == IF saw_escape THEN 1 ELSE 0
    <3>1. /\ u \in Nat /\ v \in Nat /\ v <= L /\ L \in Nat /\ o \in {0, 1}
          /\ k + 1 <= Lead + v /\ k = Lead + u + o /\ Lead \in Nat
      BY <1>1, <2>2
    <3> HIDE DEF u, v, o
    <3>2. k - Lead \in Nat /\ k - Lead < L /\ k = Lead + (k - Lead)
      BY <3>1
    <3> QED BY <3>2
  <2>4. b = r[j + 1]
    <3> HIDE DEF j, b, r
    <3>1. Sent(p)[(Lead + j) + 1] = r[j + 1]
      BY <1>1, <2>3
    <3> QED BY <2>3, <3>1 DEF b
  <2>5. x \in Nat
    <3>1. Bare(p) \in Seq(Nat) /\ Len(Bare(p)) = z + 2
      BY BareFacts
    <3>2. n + 1 \in 1 .. Len(Bare(p))
      BY <1>3, <2>1, <3>1
    <3> QED BY <3>1, <3>2, ElementOfSeq
  <2>6. CASE k + 1 = Lead + v
    <3>1. b = x /\ (b \in {FLAG, ESCAPE} => saw_escape) /\ b \in Nat
      BY <2>2, <2>4, <2>5, <2>6
    <3>2. n < 3 \/ n = 3 \/ (4 <= n /\ n < z) \/ n = z \/ n = z + 1
      BY <1>3, <2>1
    <3>3. ASSUME n < z + 1, Within(p, k + 1, n + 1)' PROVE Stage(p, k + 1)'
      <4>1. n + 1 \in 0 .. z + 1
        BY <1>3, <2>1, <3>3
      <4> HIDE DEF z
      <4> QED BY <3>3, <4>1 DEF Stage, z
    <3> HIDE DEF b, x, u, v, j
    <3>4. CASE n < 3
      <4>1. Within(p, k + 1, n + 1)' /\ got' = Nothing
        BY <1>2, <1>7, <2>1, <3>1, <3>4, HeaderByte DEF x
      <4> QED BY <1>3, <3>3, <3>4, <4>1, GotNothing
    <3>5. CASE n = 3
      <4>1. Within(p, k, 3) /\ b = Bare(p)[4]
        BY <1>7, <3>1, <3>5 DEF x
      <4>2. /\ got' = Nothing \/ got' = TooLong
            /\ Polite(p) => got' = Nothing
            /\ got' = Nothing => Within(p, k + 1, 4)'
        BY <1>2, <3>1, <4>1, LengthByte
      <4>3. got' = TooLong => Raises'
        BY DEF Raises
      <4>4. 4 \in 0 .. z + 1
        BY <1>3
      <4>5. got' = Nothing => Stage(p, k + 1)'
        <5> HIDE DEF z
        <5> QED BY <4>2, <4>4 DEF Stage, z
      <4> QED BY <4>2, <4>3, <4>5, GotNothing
    <3>6. CASE 4 <= n /\ n < z
      <4>1. Within(p, k + 1, n + 1)' /\ got' = Nothing
        BY <1>2, <1>7, <2>1, <3>1, <3>6, BodyByte DEF x
      <4> QED BY <1>3, <2>1, <3>3, <3>6, <4>1, GotNothing
    <3>7. CASE n = z
      <4>1. Within(p, k + 1, n + 1)' /\ got' = Nothing
        BY <1>2, <1>7, <2>1, <3>1, <3>7, SumByte DEF x
      <4> QED BY <1>3, <2>1, <3>3, <3>7, <4>1, GotNothing
    <3>8. CASE n = z + 1
      <4>1. Receive(b)
        BY DEF b
      <4>2. /\ Polite(p) => ~Raises'
            /\ ~Raises' => Closing(p, k + 1)'
        BY <1>2, <1>7, <2>1, <3>1, <3>8, <4>1, LastByte DEF x
      <4> QED BY <4>2 DEF Stage
    <3> QED BY <3>2, <3>4, <3>5, <3>6, <3>7, <3>8
  <2>7. CASE k + 1 # Lead + v
    <3>1. b = ESCAPE /\ ~saw_escape /\ x \in {FLAG, ESCAPE}
      BY <2>2, <2>4, <2>7
    <3>2. Within(p, k + 1, n)' /\ got' = Nothing
      BY <1>2, <1>7, <2>1, <3>1, EscapeStep
    <3> QED BY <3>2, GotNothing DEF Stage
  <2> QED BY <2>6, <2>7
<1> QED BY <1>4, <1>5, <1>6, <1>7 DEF Stage

\* After the last byte of a packet, and after the last but one, the Deframer is
\* past it.
LEMMA EndStage ==
    ASSUME SoundPackets, NEW p \in Senders, NEW k \in Nat,
           k = Len(Sent(p)) \/ k + 1 = Len(Sent(p)), Stage(p, k)
    PROVE  Closing(p, k)
<1>1. /\ Lead \in Nat /\ Lead >= 2 /\ Len(Raw(p)) \in Nat /\ Len(Sent(p)) \in Nat
      /\ Len(Sent(p)) > Lead + Len(Raw(p))
  BY SentFacts DEF Flagged
<1>2. k # 0 /\ ~(k < Lead) /\ k >= Lead + Len(Raw(p))
  BY <1>1
<1>3. ASSUME NEW n \in 0 .. Size(p) + 1, Within(p, k, n) PROVE FALSE
  <2>1. Size(p) \in Nat
    BY PacketType
  <2>2. n \in Nat
    BY <2>1
  <2> DEFINE v == Upto(p, n + 1)
  <2>3. v \in Nat /\ v <= Len(Raw(p)) /\ k + 1 <= Lead + v
    BY <1>3, <2>2, WithinFacts
  <2> HIDE DEF v
  <2> QED BY <1>1, <1>2, <2>3
<1> QED BY <1>2, <1>3 DEF Stage, Opening

\* What a call has yet to send, without its next byte.
LEMMA RestTail ==
    ASSUME SoundPackets, NEW p \in Senders, NEW k \in 0 .. Len(Sent(p)), NEW q, q # << >>,
           Rest(q, p, k)
    PROVE  /\ k \in Nat /\ k + 1 \in 0 .. Len(Sent(p)) /\ k < Len(Sent(p))
           /\ Head(q) = Sent(p)[k + 1]
           /\ Rest(Tail(q), p, k + 1)
           /\ Tail(q) = << >> => k + 1 = Len(Sent(p))
           /\ Len(q) = 1 => k + 1 = Len(Sent(p))
<1> DEFINE s == Sent(p)
           N == Len(s)
           t == Tail(q)
<1>1. N \in Nat
  BY SentFacts DEF Flagged
<1>2. q \in Seq(Nat) /\ Len(q) = N - k /\ \A i \in 1 .. Len(q) : q[i] = s[k + i]
  BY DEF Rest
<1> HIDE DEF s, N
<1>3. /\ Head(q) = q[1] /\ t \in Seq(Nat) /\ Len(t) = Len(q) - 1
      /\ \A i \in 1 .. Len(t) : t[i] = q[i + 1]
  <2>1. q \in Seq(Nat) /\ q # << >>
    BY <1>2
  <2> QED BY <2>1, HeadTailProperties
<1>4. Len(q) \in Nat /\ Len(q) >= 1
  BY <1>2, EmptySeq, LenProperties
<1>5. k \in Nat /\ k < N /\ k + 1 \in 0 .. N
  BY <1>1, <1>2, <1>4 DEF N
<1>6. Head(q) = s[k + 1]
  BY <1>2, <1>3, <1>4
<1> HIDE DEF t
<1>7. ASSUME NEW i \in 1 .. Len(t) PROVE t[i] = s[(k + 1) + i]
  <2> DEFINE j == i + 1
  <2>1. j \in 1 .. Len(q) /\ k + j = (k + 1) + i
    BY <1>3, <1>4, <1>5
  <2> HIDE DEF j
  <2>2. q[j] = s[(k + 1) + i]
    BY <1>2, <2>1
  <2> QED BY <1>3, <2>2 DEF j
<1>8. Len(t) = N - (k + 1)
  BY <1>1, <1>2, <1>3, <1>5
<1>9. Rest(t, p, k + 1)
  BY <1>3, <1>7, <1>8 DEF Rest, s, N
<1>10. t = << >> => k + 1 = N
  BY <1>1, <1>5, <1>8
<1>11. Len(q) = 1 => k + 1 = N
  <2>1. \A l, m, n \in Nat : l = m - n /\ l = 1 => n + 1 = m
    OBVIOUS
  <2> QED BY <1>1, <1>2, <1>4, <1>5, <2>1, Zenon
<1> QED BY <1>5, <1>6, <1>9, <1>10, <1>11 DEF s, N, t

\* A byte of a call that the script receives.
LEMMA FlowStep ==
    ASSUME SoundPackets, NEW p \in Senders, NEW q, q # << >>, DfInv, up, Receive(Head(q))
    PROVE  /\ Flows(q, p) /\ up' => Flows(Tail(q), p)'
           /\ Flows(q, p) /\ up' /\ Tail(q) = << >> => (Quiet /\ last = p)'
           /\ FlowsOn(q, p) /\ Polite(p) => up' /\ FlowsOn(Tail(q), p)'
           /\ FlowsOn(q, p) /\ up' /\ Tail(q) = << >> => Quiet'
<1>1. up' <=> ~Raises'
  BY DEF Receive
<1>2. ASSUME NEW k \in 0 .. Len(Sent(p)), Rest(q, p, k), Stage(p, k)
      PROVE  /\ up' => /\ Flows(Tail(q), p)' /\ FlowsOn(Tail(q), p)'
                       /\ Tail(q) = << >> => (Quiet /\ last = p)'
             /\ (k = 0 => Quiet) /\ Polite(p) => up'
  <2>1. /\ k \in Nat /\ k + 1 \in 0 .. Len(Sent(p)) /\ k < Len(Sent(p))
        /\ Head(q) = Sent(p)[k + 1]
        /\ Rest(Tail(q), p, k + 1)
        /\ Tail(q) = << >> => k + 1 = Len(Sent(p))
    BY <1>2, RestTail
  <2>2. Receive(Sent(p)[k + 1])
    BY <2>1
  <2>3. /\ up' => Stage(p, k + 1)'
        /\ Polite(p) /\ (k = 0 => Quiet) => up'
    BY <1>1, <1>2, <2>1, <2>2, StageStep
  <2> DEFINE m == k + 1
  <2>4. m \in Nat /\ m # 0 /\ m \in 0 .. Len(Sent(p)) /\ Rest(Tail(q), p, m)
        /\ (up' => Stage(p, m)') /\ (Tail(q) = << >> => m = Len(Sent(p)))
    BY <2>1, <2>3
  <2> HIDE DEF m
  <2>5. up' => Flows(Tail(q), p)'
    BY <2>4 DEF Flows, Rest
  <2>6. up' => FlowsOn(Tail(q), p)'
    BY <2>4 DEF FlowsOn, Rest
  <2>7. ASSUME up', Tail(q) = << >> PROVE (Quiet /\ last = p)'
    <3>1. Closing(p, k)
      <4>1. k + 1 = Len(Sent(p))
        BY <2>1, <2>7
      <4> QED BY <1>2, <2>1, <4>1, EndStage
    <3>2. Closing(p, k + 1)'
      BY <2>1, <2>2, <3>1, ClosingStep
    <3> QED BY <3>2 DEF Closing
  <2> QED BY <2>3, <2>5, <2>6, <2>7
<1>3. Flows(q, p) => \E k \in 0 .. Len(Sent(p)) : Rest(q, p, k) /\ Stage(p, k)
  BY DEF Flows
<1>4. FlowsOn(q, p) => \E k \in 0 .. Len(Sent(p)) : Rest(q, p, k) /\ Stage(p, k) /\ (k = 0 => Quiet)
  BY DEF FlowsOn
<1> QED BY <1>2, <1>3, <1>4

---------------------------------------------------------------------------
(* The steps of the link.                                                    *)

\* Packets and callbacks of which no one ends the script.
PolitePackets == \A p \in Senders : Polite(p)

\* A call that begins has everything to send.
LEMMA StartFlow ==
    ASSUME SoundPackets, NEW p \in Senders
    PROVE  Flows(Sent(p), p)' /\ (Quiet' => FlowsOn(Sent(p), p)')
<1>1. PICK k \in Nat : k = 0
  OBVIOUS
<1>2. Sent(p) \in Seq(Nat) /\ Len(Sent(p)) \in Nat
  BY SentFacts DEF Flagged
<1>3. k \in 0 .. Len(Sent(p)) /\ Rest(Sent(p), p, k)
  BY <1>1, <1>2 DEF Rest
<1>4. Stage(p, k)'
  BY <1>1 DEF Stage
<1>5. Flows(Sent(p), p)'
  BY <1>3, <1>4 DEF Flows, Rest
<1>6. Quiet' => FlowsOn(Sent(p), p)'
  BY <1>3, <1>4 DEF FlowsOn, Rest
<1> QED BY <1>5, <1>6

\* What the script receives keeps the Deframer sane.
LEMMA ReceiveDf ==
    ASSUME DfInv, NEW b, Receive(b)
    PROVE  DfInv'
<1>1. CASE up /\ rx_byte(b)
  BY <1>1, DfStep
<1>2. CASE UNCHANGED deframer
  BY <1>2 DEF deframer, DfInv
<1> QED BY <1>1, <1>2 DEF Receive

\* A new Deframer is between packets.
LEMMA NewFacts ==
    ASSUME NewDeframer
    PROVE  DfInv' /\ Quiet' /\ ~Raises'
<1>1. got' = Nothing /\ state' = "IDLE" /\ saw_escape' = FALSE /\ accumulator' = << >>
  BY DEF NewDeframer
<1> QED BY <1>1, GotNothing DEF DfInv, Quiet

\* At first nothing is under way.
LEMMA InitLink == Init => LinkInv
BY DEF Init, DeframerInit, LinkInv, DfInv, Nobody

\* What was promised of a call that stands where it stood still holds.
LEMMA SameFlow ==
    ASSUME NEW p, NEW q, UNCHANGED <<deframer, last>>
    PROVE  /\ Flows(q, p) => Flows(q, p)'
           /\ FlowsOn(q, p) => FlowsOn(q, p)'
           /\ Quiet' <=> Quiet
           /\ Raises' <=> Raises
<1>1. /\ state' = state /\ saw_escape' = saw_escape /\ cur_addr' = cur_addr
      /\ cur_control' = cur_control /\ cur_len' = cur_len /\ body_rem' = body_rem
      /\ accumulator' = accumulator /\ got' = got /\ last' = last
  BY DEF deframer
<1>2. (Quiet' <=> Quiet) /\ (Raises' <=> Raises)
  BY <1>1 DEF Quiet, Raises
<1>3. ASSUME NEW k, Stage(p, k) PROVE Stage(p, k)'
  <2>1. Opening(k) => Opening(k)'
    BY <1>1 DEF Opening
  <2>2. Closing(p, k) => Closing(p, k)'
    BY <1>1, <1>2 DEF Closing
  <2>3. ASSUME NEW n, Within(p, k, n) PROVE Within(p, k, n)'
    BY <1>1, <2>3 DEF Within
  <2> QED BY <1>3, <2>1, <2>2, <2>3 DEF Stage
<1>4. Flows(q, p) => Flows(q, p)'
  BY <1>3 DEF Flows, Rest
<1>5. FlowsOn(q, p) => FlowsOn(q, p)'
  BY <1>2, <1>3 DEF FlowsOn, Rest
<1> QED BY <1>2, <1>4, <1>5

\* main begins to send a packet.
LEMMA MainCallsLink ==
    ASSUME SoundPackets, LinkInv, MainCalls
    PROVE  LinkInv'
<1>1. PICK p \in Packets : mainPacket' = p /\ main' = Sent(p)
  BY DEF MainCalls
<1>2. /\ isr = << >> /\ isr' = isr /\ isrPacket' = Nobody /\ up' = up
      /\ UNCHANGED deframer /\ cut' = ~up
  BY DEF MainCalls
<1>3. p \in Senders
  BY DEF Senders
<1>4. Flows(Sent(p), p)'
  BY <1>3, StartFlow
<1>5. Flows(main, mainPacket)'
  BY <1>1, <1>4 DEF Flows
<1>6. DfInv'
  BY <1>2 DEF LinkInv, DfInv, deframer
<1>7. ~cut' => up'
  BY <1>2
<1> QED BY <1>1, <1>2, <1>5, <1>6, <1>7 DEF LinkInv

\* A byte of main's.
LEMMA MainSendsLink ==
    ASSUME SoundPackets, LinkInv, MainSends
    PROVE  LinkInv'
<1>1. /\ main # << >> /\ isr = << >> /\ Receive(Head(main)) /\ main' = Tail(main)
      /\ isrPacket' = Nobody /\ isr' = isr /\ mainPacket' = mainPacket
  BY DEF MainSends
<1>2. cut' = (cut \/ ~up')
  BY DEF MainSends
<1>3. DfInv'
  BY <1>1, ReceiveDf DEF LinkInv
<1>4. ASSUME mainPacket' # Nobody, ~cut'
      PROVE  up' /\ mainPacket' \in Packets /\ Flows(main, mainPacket)'
  <2>1. ~cut /\ up'
    BY <1>2, <1>4
  <2>2. up /\ mainPacket \in Packets /\ Flows(main, mainPacket)
    BY <1>1, <1>4, <2>1 DEF LinkInv
  <2>3. PICK p, q : p \in Packets /\ p = mainPacket /\ q = main
    BY <2>2
  <2>4. p \in Senders /\ q # << >> /\ DfInv /\ Receive(Head(q)) /\ Flows(q, p)
    BY <1>1, <2>2, <2>3 DEF Senders, LinkInv
  <2>5. Flows(Tail(q), p)'
    BY <2>1, <2>2, <2>4, FlowStep
  <2>6. main' = Tail(q) /\ mainPacket' = p
    BY <1>1, <2>3
  <2> QED BY <2>1, <2>3, <2>5, <2>6 DEF Flows
<1> QED BY <1>1, <1>3, <1>4 DEF LinkInv

\* An interrupt handler begins to send one.
LEMMA InterruptLink ==
    ASSUME SoundPackets, LinkInv, Interrupt
    PROVE  LinkInv'
<1>1. PICK p \in IsrPackets : isrPacket' = p /\ isr' = Sent(p)
  BY DEF Interrupt
<1>2. up' = up /\ UNCHANGED deframer /\ cut' = TRUE /\ isrCut' = ~up
  BY DEF Interrupt
<1>3. p \in Senders
  BY DEF Senders
<1>4. Flows(Sent(p), p)'
  BY <1>3, StartFlow
<1>5. Flows(isr, isrPacket)'
  BY <1>1, <1>4 DEF Flows
<1>6. DfInv'
  BY <1>2 DEF LinkInv, DfInv, deframer
<1>7. ~isrCut' => up'
  BY <1>2
<1> QED BY <1>1, <1>2, <1>5, <1>6, <1>7 DEF LinkInv

\* A byte of the interrupt handler's.
LEMMA IsrSendsLink ==
    ASSUME SoundPackets, LinkInv, IsrSends
    PROVE  LinkInv'
<1>1. /\ isr # << >> /\ Receive(Head(isr)) /\ isr' = Tail(isr)
      /\ isrPacket' = isrPacket /\ mainPacket' = mainPacket /\ cut' = cut
  BY DEF IsrSends
<1>2. isrCut' = (isrCut \/ ~up')
  BY DEF IsrSends
<1>3. DfInv'
  BY <1>1, ReceiveDf DEF LinkInv
<1>4. ASSUME isrPacket' # Nobody, ~isrCut'
      PROVE  up' /\ isrPacket' \in IsrPackets /\ Flows(isr, isrPacket)'
  <2>1. ~isrCut /\ up'
    BY <1>2, <1>4
  <2>2. up /\ isrPacket \in IsrPackets /\ Flows(isr, isrPacket)
    BY <1>1, <1>4, <2>1 DEF LinkInv
  <2>3. PICK p, q : p \in IsrPackets /\ p = isrPacket /\ q = isr
    BY <2>2
  <2>4. p \in Senders /\ q # << >> /\ DfInv /\ Receive(Head(q)) /\ Flows(q, p)
    BY <1>1, <2>2, <2>3 DEF Senders, LinkInv
  <2>5. Flows(Tail(q), p)'
    BY <2>1, <2>2, <2>4, FlowStep
  <2>6. isr' = Tail(q) /\ isrPacket' = p
    BY <1>1, <2>3
  <2> QED BY <2>1, <2>3, <2>5, <2>6 DEF Flows
<1>5. ~(mainPacket' # Nobody /\ ~cut')
  BY <1>1 DEF LinkInv
<1> QED BY <1>3, <1>4, <1>5 DEF LinkInv

\* The interrupt handler's last byte, which is a flag, is lost.
LEMMA OverwrittenLink ==
    ASSUME SoundPackets, LinkInv, Overwritten
    PROVE  LinkInv'
<1>1. /\ Len(isr) = 1 /\ isr' = << >>
      /\ UNCHANGED <<deframer, main, mainPacket, isrPacket, cut, isrCut, last, up>>
  BY DEF Overwritten
<1>2. isr # << >>
  <2>1. Len(<< >>) = 0
    OBVIOUS
  <2> QED BY <1>1, <2>1
<1>3. ASSUME isrPacket # Nobody, ~isrCut
      PROVE  up' /\ isrPacket' \in IsrPackets /\ Flows(isr, isrPacket)'
  <2>1. up /\ isrPacket \in IsrPackets /\ Flows(isr, isrPacket)
    BY <1>3 DEF LinkInv
  <2>2. PICK p, q : p \in IsrPackets /\ p = isrPacket /\ q = isr
    BY <2>1
  <2>3. p \in Senders /\ q # << >> /\ Len(q) = 1
    BY <1>1, <1>2, <2>2 DEF Senders
  <2>4. PICK k \in 0 .. Len(Sent(p)) : Rest(q, p, k) /\ Stage(p, k)
    BY <2>1, <2>2 DEF Flows
  <2>5. /\ k \in Nat /\ k + 1 \in 0 .. Len(Sent(p)) /\ k + 1 = Len(Sent(p))
        /\ Rest(Tail(q), p, k + 1)
    BY <2>3, <2>4, RestTail
  <2>6. Closing(p, k)
    BY <2>3, <2>4, <2>5, EndStage
  <2> DEFINE m == k + 1
  <2>7. m >= Lead + Len(Raw(p))
    <3>1. Lead \in Nat /\ Len(Raw(p)) \in Nat
      BY <2>3, SentFacts DEF Flagged
    <3> QED BY <2>5, <2>6, <3>1 DEF Closing
  <2> HIDE DEF m
  <2>8. Stage(p, m)'
    BY <1>1, <2>6, <2>7 DEF Stage, Closing, Quiet, deframer
  <2>9. Rest(<< >>, p, m)
    <3>1. Len(Sent(p)) \in Nat
      BY <2>3, SentFacts DEF Flagged
    <3>2. m = Len(Sent(p))
      BY <2>5 DEF m
    <3>3. Len(Sent(p)) - m = 0
      BY <3>1, <3>2
    <3>4. << >> \in Seq(Nat) /\ Len(<< >>) = 0 /\ \A i \in 1 .. 0 : FALSE
      OBVIOUS
    <3> QED BY <3>3, <3>4 DEF Rest
  <2>10. Flows(<< >>, p)'
    BY <2>5, <2>8, <2>9 DEF Flows, Rest, m
  <2> QED BY <1>1, <2>1, <2>2, <2>10 DEF Flows
<1>4. DfInv'
  BY <1>1 DEF LinkInv, DfInv, deframer
<1>5. ~(mainPacket' # Nobody /\ ~cut')
  BY <1>1, <1>2 DEF LinkInv
<1> QED BY <1>1, <1>3, <1>4, <1>5 DEF LinkInv

\* The script's end cuts everything short, and its beginning promises nothing.
LEMMA ScriptLink ==
    ASSUME LinkInv, Killed \/ Restarted
    PROVE  LinkInv'
<1>1. DfInv'
  <2>1. NewDeframer
    BY DEF Killed, Restarted
  <2> QED BY <2>1, NewFacts
<1>2. CASE Killed
  <2>1. cut' = TRUE /\ isrCut' = TRUE
    BY <1>2 DEF Killed
  <2> QED BY <1>1, <2>1 DEF LinkInv
<1>3. CASE Restarted
  <2>1. ~up /\ UNCHANGED <<isrPacket, mainPacket, cut, isrCut>>
    BY <1>3 DEF Restarted
  <2> QED BY <1>1, <2>1 DEF LinkInv
<1> QED BY <1>2, <1>3

\* Every step keeps the invariant.
LEMMA NextLink == SoundPackets /\ LinkInv /\ [Next]_vars => LinkInv'
<1> SUFFICES ASSUME SoundPackets, LinkInv, [Next]_vars PROVE LinkInv'
  OBVIOUS
<1>1. CASE UNCHANGED vars
  <2>1. /\ UNCHANGED <<deframer, last>>
        /\ UNCHANGED <<main, isr, mainPacket, isrPacket, cut, isrCut, up>>
    BY <1>1 DEF vars
  <2>2. DfInv'
    BY <2>1 DEF LinkInv, DfInv, deframer
  <2>3. PICK p, q, r, s : p = mainPacket /\ q = main /\ r = isrPacket /\ s = isr
    OBVIOUS
  <2>4. (Flows(q, p) => Flows(q, p)') /\ (Flows(s, r) => Flows(s, r)')
    BY <2>1, SameFlow
  <2>5. Flows(main, mainPacket) => Flows(main, mainPacket)'
    BY <2>1, <2>3, <2>4 DEF Flows
  <2>6. Flows(isr, isrPacket) => Flows(isr, isrPacket)'
    BY <2>1, <2>3, <2>4 DEF Flows
  <2> QED BY <2>1, <2>2, <2>5, <2>6 DEF LinkInv
<1>2. CASE Next
  BY <1>2, MainCallsLink, MainSendsLink, InterruptLink, IsrSendsLink, OverwrittenLink,
     ScriptLink DEF Next
<1> QED BY <1>1, <1>2

\* The invariant's promise about the script's end, per step.
LEMMA MainCallsWhole ==
    ASSUME SoundPackets, WholeInv, MainCalls
    PROVE  WholeInv'
<1>1. PICK p \in Packets : mainPacket' = p /\ main' = Sent(p)
  BY DEF MainCalls
<1>2. /\ main = << >> /\ isr = << >> /\ isr' = << >>
      /\ UNCHANGED deframer /\ UNCHANGED <<up, torn>>
  BY DEF MainCalls
<1> SUFFICES ASSUME ~torn' PROVE WholeInv'
  BY DEF WholeInv
<1>3. ~torn /\ ~Raises /\ (up => Quiet)
  BY <1>2 DEF WholeInv
<1>4. ~Raises' /\ (up' => Quiet')
  BY <1>2, <1>3 DEF deframer, Raises, Quiet
<1>5. up' => FlowsOn(Sent(p), p)'
  BY <1>4, StartFlow DEF Senders
<1>6. up' => FlowsOn(main, mainPacket)'
  BY <1>1, <1>5 DEF FlowsOn
<1> QED BY <1>1, <1>2, <1>4, <1>6 DEF WholeInv

\* A byte of main's.
LEMMA MainSendsWhole ==
    ASSUME SoundPackets, PolitePackets, LinkInv, WholeInv, MainSends
    PROVE  WholeInv'
<1>1. /\ main # << >> /\ isr = << >> /\ Receive(Head(main)) /\ main' = Tail(main)
      /\ isr' = << >> /\ mainPacket' = mainPacket
  BY DEF MainSends
<1>2. torn' = torn
  BY DEF MainSends
<1> SUFFICES ASSUME ~torn' PROVE WholeInv'
  BY DEF WholeInv
<1>3. ~torn /\ ~Raises
  BY <1>2 DEF WholeInv
<1>4. CASE up
  <2>1. mainPacket \in Packets /\ FlowsOn(main, mainPacket)
    BY <1>1, <1>3, <1>4 DEF WholeInv
  <2>2. PICK p, q : p \in Packets /\ p = mainPacket /\ q = main
    BY <2>1
  <2>3. /\ p \in Senders /\ q # << >> /\ DfInv /\ Receive(Head(q)) /\ FlowsOn(q, p)
        /\ Polite(p)
    BY <1>1, <2>1, <2>2 DEF Senders, LinkInv, PolitePackets
  <2>4. /\ up' /\ FlowsOn(Tail(q), p)'
        /\ Tail(q) = << >> => Quiet'
    BY <1>4, <2>3, FlowStep
  <2>5. main' = Tail(q) /\ mainPacket' = p
    BY <1>1, <2>2
  <2>6. FlowsOn(main, mainPacket)'
    BY <2>4, <2>5 DEF FlowsOn
  <2>7. ~Raises'
    BY <1>1, <1>4, <2>4 DEF Receive
  <2>8. main' = << >> => Quiet'
    BY <2>4, <2>5
  <2> QED BY <1>1, <2>2, <2>5, <2>6, <2>7, <2>8 DEF WholeInv
<1>5. CASE ~up
  <2>1. ~up' /\ UNCHANGED deframer
    BY <1>1, <1>5 DEF Receive
  <2>2. ~Raises'
    BY <1>3, <2>1 DEF deframer, Raises
  <2> QED BY <1>1, <2>1, <2>2 DEF WholeInv
<1> QED BY <1>4, <1>5

\* An interrupt tears the packet it interrupts; between two it tears none.
LEMMA InterruptWhole ==
    ASSUME SoundPackets, WholeInv, Interrupt
    PROVE  WholeInv'
<1>1. PICK p \in IsrPackets : isrPacket' = p /\ isr' = Sent(p)
  BY DEF Interrupt
<1>2. /\ isr = << >> /\ main' = main /\ up' = up
      /\ UNCHANGED deframer
  BY DEF Interrupt
<1>3. torn' = (torn \/ main # << >>)
  BY DEF Interrupt
<1> SUFFICES ASSUME ~torn' PROVE WholeInv'
  BY DEF WholeInv
<1>4. ~torn /\ main = << >>
  BY <1>3
<1>5. ~Raises /\ (up => Quiet)
  BY <1>2, <1>4 DEF WholeInv
<1>6. ~Raises' /\ (up' => Quiet')
  BY <1>2, <1>5 DEF deframer, Raises, Quiet
<1>7. up' => FlowsOn(Sent(p), p)'
  BY <1>6, StartFlow DEF Senders
<1>8. up' => FlowsOn(isr, isrPacket)'
  BY <1>1, <1>7 DEF FlowsOn
<1> QED BY <1>1, <1>2, <1>4, <1>6, <1>8 DEF WholeInv

\* A byte of the interrupt handler's.
LEMMA IsrSendsWhole ==
    ASSUME SoundPackets, PolitePackets, LinkInv, WholeInv, IsrSends
    PROVE  WholeInv'
<1>1. /\ isr # << >> /\ Receive(Head(isr)) /\ isr' = Tail(isr)
      /\ main' = main /\ isrPacket' = isrPacket
  BY DEF IsrSends
<1>2. torn' = torn
  BY DEF IsrSends
<1> SUFFICES ASSUME ~torn' PROVE WholeInv'
  BY DEF WholeInv
<1>3. ~torn /\ ~Raises /\ main = << >>
  BY <1>1, <1>2 DEF WholeInv
<1>4. CASE up
  <2>1. isrPacket \in IsrPackets /\ FlowsOn(isr, isrPacket)
    BY <1>1, <1>3, <1>4 DEF WholeInv
  <2>2. PICK p, q : p \in IsrPackets /\ p = isrPacket /\ q = isr
    BY <2>1
  <2>3. /\ p \in Senders /\ q # << >> /\ DfInv /\ Receive(Head(q)) /\ FlowsOn(q, p)
        /\ Polite(p)
    BY <1>1, <2>1, <2>2 DEF Senders, LinkInv, PolitePackets
  <2>4. /\ up' /\ FlowsOn(Tail(q), p)'
        /\ Tail(q) = << >> => Quiet'
    BY <1>4, <2>3, FlowStep
  <2>5. isr' = Tail(q) /\ isrPacket' = p
    BY <1>1, <2>2
  <2>6. FlowsOn(isr, isrPacket)'
    BY <2>4, <2>5 DEF FlowsOn
  <2>7. ~Raises'
    BY <1>1, <1>4, <2>4 DEF Receive
  <2>8. isr' = << >> => Quiet'
    BY <2>4, <2>5
  <2> QED BY <1>1, <1>3, <2>2, <2>5, <2>6, <2>7, <2>8 DEF WholeInv
<1>5. CASE ~up
  <2>1. ~up' /\ UNCHANGED deframer
    BY <1>1, <1>5 DEF Receive
  <2>2. ~Raises'
    BY <1>3, <2>1 DEF deframer, Raises
  <2> QED BY <1>1, <1>3, <2>1, <2>2 DEF WholeInv
<1> QED BY <1>4, <1>5

\* Only a torn packet loses its last byte, and a script begins between packets or
\* inside one.
LEMMA ScriptWhole ==
    ASSUME WholeInv, Overwritten \/ Killed \/ Restarted
    PROVE  WholeInv'
<1> SUFFICES ASSUME ~torn' PROVE WholeInv'
  BY DEF WholeInv
<1>1. CASE Overwritten
  <2>1. torn' = torn /\ Len(isr) = 1 /\ main # << >>
    BY <1>1 DEF Overwritten
  <2>2. isr # << >>
    <3>1. Len(<< >>) = 0
      OBVIOUS
    <3> QED BY <2>1, <3>1
  <2> QED BY <2>1, <2>2 DEF WholeInv
<1>2. CASE Killed
  <2>1. torn' = torn /\ up' = FALSE /\ NewDeframer /\ UNCHANGED <<main, isr>>
    BY <1>2 DEF Killed
  <2>2. ~Raises' /\ (main = << >> \/ isr = << >>)
    BY <2>1, NewFacts DEF WholeInv
  <2> QED BY <2>1, <2>2 DEF WholeInv
<1>3. CASE Restarted
  <2>1. NewDeframer /\ UNCHANGED <<main, isr>>
    BY <1>3 DEF Restarted
  <2>2. torn' = (torn \/ main # << >> \/ isr # << >>)
    BY <1>3 DEF Restarted
  <2>3. main' = << >> /\ isr' = << >>
    BY <2>1, <2>2
  <2>4. ~Raises' /\ Quiet'
    BY <2>1, NewFacts
  <2> QED BY <2>3, <2>4 DEF WholeInv
<1> QED BY <1>1, <1>2, <1>3

\* Every step keeps this invariant too.
LEMMA NextWhole ==
    SoundPackets /\ PolitePackets /\ LinkInv /\ WholeInv /\ [Next]_vars => WholeInv'
<1> SUFFICES ASSUME SoundPackets, PolitePackets, LinkInv, WholeInv, [Next]_vars
             PROVE  WholeInv'
  OBVIOUS
<1>1. CASE UNCHANGED vars
  <2>1. /\ UNCHANGED <<deframer, last>>
        /\ UNCHANGED <<main, isr, mainPacket, isrPacket, up, torn>>
    BY <1>1 DEF vars
  <2>2. PICK p, q, r, s : p = mainPacket /\ q = main /\ r = isrPacket /\ s = isr
    OBVIOUS
  <2>3. /\ FlowsOn(q, p) => FlowsOn(q, p)'
        /\ FlowsOn(s, r) => FlowsOn(s, r)'
        /\ Quiet' <=> Quiet
        /\ Raises' <=> Raises
    BY <2>1, SameFlow
  <2>4. FlowsOn(main, mainPacket) => FlowsOn(main, mainPacket)'
    BY <2>1, <2>2, <2>3 DEF FlowsOn
  <2>5. FlowsOn(isr, isrPacket) => FlowsOn(isr, isrPacket)'
    BY <2>1, <2>2, <2>3 DEF FlowsOn
  <2> QED BY <2>1, <2>3, <2>4, <2>5 DEF WholeInv
<1>2. CASE Next
  BY <1>2, MainCallsWhole, MainSendsWhole, InterruptWhole, IsrSendsWhole, ScriptWhole DEF Next
<1> QED BY <1>1, <1>2

\* At first no exception was raised and nothing is being sent.
LEMMA InitWhole == Init => WholeInv
<1> SUFFICES ASSUME Init PROVE WholeInv
  OBVIOUS
<1>1. state = "IDLE" /\ saw_escape = FALSE /\ got = Nothing /\ main = << >> /\ isr = << >>
  BY DEF Init, DeframerInit
<1>2. Quiet /\ ~Raises
  BY <1>1 DEF Quiet, Raises, Nothing, TooLong, Raised
<1> QED BY <1>1, <1>2 DEF WholeInv

\* A call that has sent everything has delivered its packet.
LEMMA FlowEnd ==
    ASSUME SoundPackets, NEW p \in Senders, Flows(<< >>, p)
    PROVE  last = p
<1>1. PICK k \in 0 .. Len(Sent(p)) : Rest(<< >>, p, k) /\ Stage(p, k)
  BY DEF Flows
<1>2. Len(Sent(p)) \in Nat
  BY SentFacts DEF Flagged
<1>3. k = Len(Sent(p)) /\ k \in Nat
  <2>1. Len(<< >>) = Len(Sent(p)) - k
    BY <1>1 DEF Rest
  <2>2. Len(<< >>) = 0
    OBVIOUS
  <2> QED BY <1>2, <2>1, <2>2
<1>4. Closing(p, k)
  BY <1>1, <1>3, EndStage
<1> QED BY <1>4 DEF Closing

\* The invariant at the end of a call.
LEMMA LinkImplies == SoundPackets /\ LinkInv => PreemptorArrives /\ UncutArrives
<1> SUFFICES ASSUME SoundPackets, LinkInv PROVE PreemptorArrives /\ UncutArrives
  OBVIOUS
<1>1. ASSUME isr = << >>, isrPacket # Nobody, ~isrCut PROVE last = isrPacket
  <2>1. isrPacket \in IsrPackets /\ Flows(isr, isrPacket)
    BY <1>1 DEF LinkInv
  <2>2. PICK p \in IsrPackets : p = isrPacket
    BY <2>1
  <2>3. Flows(<< >>, p)
    BY <1>1, <2>1, <2>2
  <2>4. last = p
    BY <2>3, FlowEnd DEF Senders
  <2> QED BY <2>2, <2>4
<1>2. ASSUME main = << >>, mainPacket # Nobody, ~cut PROVE last = mainPacket
  <2>1. mainPacket \in Packets /\ Flows(main, mainPacket)
    BY <1>2 DEF LinkInv
  <2>2. PICK p \in Packets : p = mainPacket
    BY <2>1
  <2>3. Flows(<< >>, p)
    BY <1>2, <2>1, <2>2
  <2>4. last = p
    BY <2>3, FlowEnd DEF Senders
  <2> QED BY <2>2, <2>4
<1> QED BY <1>1, <1>2 DEF PreemptorArrives, UncutArrives

\* The invariant holds throughout.
LEMMA LinkInvariance ==
    ASSUME SoundPackets
    PROVE  Spec => []LinkInv
BY InitLink, NextLink, PTL DEF Spec

\* Whatever packet of main's an interrupt handler's packet cuts in two, and wherever
\* in it, the handler's packet reaches frame_cb, unless the script is down or goes
\* down: for any packets that both ends of the protocol read alike, of any length,
\* any checksum and any frame_cb.  At least one flag of the run before a packet is
\* not taken for an escaped byte, and it brings the Deframer to a packet's start.
THEOREM PreemptorDelivered ==
    ASSUME SoundPackets
    PROVE  Spec => []PreemptorArrives
<1>1. Spec => []LinkInv
  BY LinkInvariance
<1>2. LinkInv => PreemptorArrives
  BY LinkImplies
<1> QED BY <1>1, <1>2, PTL

\* A packet of main's that no interrupt cuts reaches frame_cb, whatever was cut
\* before it and wherever in the stream the script began.
THEOREM UncutDelivered ==
    ASSUME SoundPackets
    PROVE  Spec => []UncutArrives
<1>1. Spec => []LinkInv
  BY LinkInvariance
<1>2. LinkInv => UncutArrives
  BY LinkImplies
<1> QED BY <1>1, <1>2, PTL

\* Where no packet is too long for the Deframer and none is one on which frame_cb
\* raises, the script ends with an exception only if a packet was cut, or the
\* script begun inside one.
THEOREM WholeStreamsAreSafe ==
    ASSUME SoundPackets, PolitePackets
    PROVE  Spec => []ExceptionsNeedATear
<1>1. Spec => []LinkInv
  BY LinkInvariance
<1>2. Init => WholeInv
  BY InitWhole
<1>3. LinkInv /\ WholeInv /\ [Next]_vars => WholeInv'
  BY NextWhole
<1>4. WholeInv => ExceptionsNeedATear
  BY DEF WholeInv, ExceptionsNeedATear
<1> QED BY <1>1, <1>2, <1>3, <1>4, PTL DEF Spec

===========================================================================
