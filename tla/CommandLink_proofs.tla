------------------------ MODULE CommandLink_proofs ------------------------
(* Proofs about CommandLink: a command that gets through the line untouched is *)
(* obeyed, for any commands, any checksum, any width of a byte and any noise   *)
(* before it.                                                                 *)
EXTENDS CommandLink, Framing_proofs

\* The parts of the frame of a command c: its payload with its escapes, its
\* header, what the checksum covers, the checksum, and the bytes between the
\* flags without (Bare) and with (Raw) their escapes.
Body(c)    == EscapeAll(c.payload)
Top(c)     == <<c.address, c.control>> \o BigEndian(Len(Body(c)))
Covered(c) == EscapeAll(Top(c)) \o Body(c)
FcsOf(c)   == packet_fcs(Covered(c))
Bare(c)    == Content(Top(c), c.payload, FcsOf(c))
Raw(c)     == EscapeAll(Bare(c))

\* How much of Raw(c) the first n bytes of Bare(c) take up.
Upto(c, n) == Len(Escapes(Bare(c))[n])

\* The parser's checksum after k bytes of Raw(c).
Sum(c, k) == Checksums(Covered(c))[k]

\* How many bytes of Bare(c) the checksum covers.
Size(c) == 4 + Len(c.payload)

\* The fields of a command are bytes, and its payload is within the limit.
LEMMA CommandType ==
    ASSUME NEW c \in Commands
    PROVE  /\ c.payload \in Seq(Bytes) /\ c.payload \in Seq(Nat) /\ Len(c.payload) \in Nat
           /\ c.address \in Bytes /\ c.control \in Bytes
           /\ c.address \in Nat /\ c.control \in Nat
           /\ c = [payload |-> c.payload, address |-> c.address, control |-> c.control]
           /\ Len(Body(c)) <= PACKET_MAX_PAYLOAD_LENGTH
<1>1. /\ c \in [payload : Seq(Bytes), address : Bytes, control : Bytes]
      /\ Len(Body(c)) <= PACKET_MAX_PAYLOAD_LENGTH
  BY CommandsAssumption DEF Body
<1>2. c.payload \in Seq(Bytes) /\ c.address \in Bytes /\ c.control \in Bytes
  BY <1>1
<1>3. Bytes \subseteq Nat
  BY DEF Bytes
<1>4. c.payload \in Seq(Nat) /\ Len(c.payload) \in Nat
  BY <1>2, <1>3, SeqMonotonic, LenProperties
<1>5. c = [payload |-> c.payload, address |-> c.address, control |-> c.control]
  BY <1>1
<1> QED BY <1>1, <1>2, <1>3, <1>4, <1>5

\* The bytes of a command's frame: header, payload and checksum, where
\* packet_rx_byte looks for them.
LEMMA BareFacts ==
    ASSUME NEW c \in Commands
    PROVE  /\ Bare(c) \in Seq(Nat) /\ Len(Bare(c)) = Size(c) + 2 /\ Size(c) \in Nat
           /\ Size(c) >= 4
           /\ Bare(c)[1] = c.address /\ Bare(c)[2] = c.control
           /\ Bare(c)[3] * ByteMod + Bare(c)[4] = Len(Body(c))
           /\ \A i \in 1 .. Len(c.payload) : Bare(c)[4 + i] = c.payload[i]
           /\ Bare(c)[Size(c) + 1] * ByteMod + Bare(c)[Size(c) + 2] = FcsOf(c)
           /\ FcsOf(c) \in Nat
           /\ Covered(c) \in Seq(Bytes)
           /\ Top(c) \in Seq(Nat) /\ Len(Top(c)) = 4
           /\ Len(Body(c)) \in Nat
<1> DEFINE hi == HighByte(Len(Body(c)))
           lo == LowByte(Len(Body(c)))
           F  == FcsOf(c)
           h  == Top(c)
           p  == c.payload
<1>1. Body(c) \in Seq(Bytes) /\ Len(Body(c)) \in Nat
  BY CommandType, EscapedBytes, LenProperties DEF Body
<1>2. Len(Body(c)) < ByteMod * ByteMod
  BY <1>1, CommandType, CommandsAssumption, HdlcAssumption
<1>3. hi \in Bytes /\ lo \in Bytes /\ hi * ByteMod + lo = Len(Body(c))
  BY <1>1, <1>2, TwoBytes
<1>4. h = <<c.address, c.control, hi, lo>>
  BY FourBytes DEF Top, BigEndian
<1> HIDE DEF hi, lo
<1>5. h \in Seq(Bytes) /\ Len(h) = 4 /\ h \in Seq(Nat)
  BY <1>3, <1>4, CommandType DEF Bytes
<1>6. Covered(c) \in Seq(Bytes)
  BY <1>1, <1>5, EscapedBytes, ConcatProperties DEF Covered
<1>7. F \in Nat
  <2>1. Len(Covered(c)) \in 0 .. Len(Covered(c))
    BY <1>6
  <2>2. Checksums(Covered(c)) \in [0 .. Len(Covered(c)) -> Words]
    BY <1>6, ChecksumsDef
  <2> QED BY <2>1, <2>2 DEF FcsOf, packet_fcs, Words
<1>8. BigEndian(F) = <<HighByte(F), LowByte(F)>> /\ HighByte(F) \in Nat /\ LowByte(F) \in Nat
      /\ HighByte(F) * ByteMod + LowByte(F) = F
  BY <1>7, TwoBytes
<1>9. p \in Seq(Nat) /\ Len(p) \in Nat
  BY CommandType
<1> DEFINE B == Bare(c)
<1>10. B = Content(h, p, F) /\ Size(c) = 4 + Len(p)
  BY DEF Bare, Size
<1> HIDE DEF h, p, F, B
<1>11. Composed(h, p, F, B)
  BY <1>5, <1>7, <1>9, <1>10, ContentFacts
<1>12. /\ B \in Seq(Nat) /\ Len(B) = Size(c) + 2 /\ Size(c) \in Nat /\ Size(c) >= 4
       /\ B[1] = h[1] /\ B[2] = h[2] /\ B[3] = h[3] /\ B[4] = h[4]
       /\ \A i \in 1 .. Len(p) : B[4 + i] = p[i]
       /\ B[Size(c) + 1] = HighByte(F) /\ B[Size(c) + 2] = LowByte(F)
  BY <1>9, <1>10, <1>11 DEF Composed
<1>13. B[1] = c.address /\ B[2] = c.control /\ B[3] * ByteMod + B[4] = Len(Body(c))
  BY <1>3, <1>4, <1>12
<1>14. B[Size(c) + 1] * ByteMod + B[Size(c) + 2] = F
  BY <1>8, <1>12
<1> QED BY <1>1, <1>5, <1>6, <1>7, <1>12, <1>13, <1>14 DEF B, F, p, h

\* How the wire's bytes are made of the command's.
LEMMA RawFacts ==
    ASSUME NEW c \in Commands
    PROVE  /\ Raw(c) \in Seq(Nat) /\ Len(Raw(c)) \in Nat /\ Len(Covered(c)) \in Nat
           /\ Framer_frame(c.payload, c.address, c.control) = (<<FLAG>> \o Raw(c)) \o <<FLAG>>
           /\ Upto(c, 0) = 0 /\ Upto(c, Size(c) + 2) = Len(Raw(c))
           /\ Upto(c, Size(c)) = Len(Covered(c))
           /\ Upto(c, 4) + Len(Body(c)) = Len(Covered(c))
           /\ \A i \in 1 .. Len(Covered(c)) : Raw(c)[i] = Covered(c)[i]
<1> DEFINE b == BigEndian(FcsOf(c))
           h == Top(c)
           p == c.payload
           s == h \o p
           e == EscapeAll(b)
           v == Covered(c)
<1>1. /\ h \in Seq(Nat) /\ Len(h) = 4 /\ FcsOf(c) \in Nat /\ v \in Seq(Bytes)
      /\ Bare(c) \in Seq(Nat) /\ Len(Bare(c)) = Size(c) + 2
  BY BareFacts
<1>2. p \in Seq(Nat)
  BY CommandType
<1>3. b \in Seq(Nat)
  <2>1. b = <<HighByte(FcsOf(c)), LowByte(FcsOf(c))>>
    BY <1>1, TwoBytes
  <2>2. HighByte(FcsOf(c)) \in Nat /\ LowByte(FcsOf(c)) \in Nat
    BY <1>1, TwoBytes
  <2> QED BY <2>1, <2>2
<1>4. v = EscapeAll(h) \o EscapeAll(p) /\ Size(c) = 4 + Len(p) /\ Len(p) \in Nat
  BY <1>2 DEF Covered, Body, Size
<1>5. Framer_frame(c.payload, c.address, c.control) = ((<<FLAG>> \o v) \o e) \o <<FLAG>>
  BY DEF Framer_frame, Covered, FcsOf, Top, Body
<1> DEFINE B == Bare(c)
           w == FcsOf(c)
<1>6. B = Content(h, p, w) /\ e = EscapeAll(BigEndian(w)) /\ w \in Nat
  BY <1>1 DEF Bare
<1> HIDE DEF b, h, p, e, v, B, w
<1>7. Stuffing(p, w, B, v)
  BY <1>1, <1>2, <1>4, <1>6, ContentEscapes
<1>8. /\ EscapeAll(B) \in Seq(Nat) /\ Len(EscapeAll(B)) \in Nat /\ Len(v) \in Nat
      /\ EscapeAll(B) = v \o e
      /\ \A i \in 1 .. Len(v) : EscapeAll(B)[i] = v[i]
      /\ Len(Escapes(B)[0]) = 0
      /\ Len(Escapes(B)[Size(c) + 2]) = Len(EscapeAll(B))
      /\ Len(Escapes(B)[Size(c)]) = Len(v)
      /\ Len(Escapes(B)[4]) + Len(EscapeAll(p)) = Len(v)
  BY <1>4, <1>6, <1>7 DEF Stuffing
<1>9. (<<FLAG>> \o v) \o e = <<FLAG>> \o EscapeAll(B)
  <2> DEFINE f == <<FLAG>>
  <2>1. f \in Seq(Nat) /\ e \in Seq(Nat) /\ v \in Seq(Nat)
    <3>1. f \in Seq(Nat)
      BY HdlcAssumption DEF Bytes
    <3>2. e \in Seq(Nat)
      BY <1>3, EscapeAllType DEF e
    <3>3. EscapeAll(h) \in Seq(Nat) /\ EscapeAll(p) \in Seq(Nat)
      BY <1>1, <1>2, EscapeAllType
    <3> QED BY <1>4, <3>1, <3>2, <3>3, ConcatProperties
  <2> HIDE DEF f
  <2>2. (f \o v) \o e = f \o (v \o e)
    BY <2>1, Associative
  <2> QED BY <1>8, <2>2 DEF f
<1>10. Upto(c, 4) + Len(Body(c)) = Len(v)
  BY <1>8 DEF Upto, Body, B, p
<1> QED BY <1>5, <1>8, <1>9, <1>10 DEF Upto, Raw, B, v

\* The n-th byte's place on the wire.
LEMMA PlaceFacts ==
    ASSUME NEW c \in Commands, NEW n \in Nat, n < Size(c) + 2
    PROVE  Placed(Bare(c), n, Upto(c, n), Upto(c, n + 1), Raw(c))
<1>1. Bare(c) \in Seq(Nat) /\ Len(Bare(c)) = Size(c) + 2 /\ Size(c) \in Nat
  BY BareFacts
<1>2. n + 1 <= Len(Bare(c))
  BY <1>1
<1> QED BY <1>1, <1>2, EscapedPlace DEF Upto, Raw

\* The bytes of a frame lie on the wire in their order.
LEMMA UptoGrows ==
    ASSUME NEW c \in Commands, NEW m \in Nat, NEW n \in Nat, m <= n, n <= Size(c) + 2
    PROVE  /\ Upto(c, m) \in Nat /\ Upto(c, n) \in Nat /\ Upto(c, m) <= Upto(c, n)
           /\ Upto(c, n) <= Len(Raw(c))
<1>1. Bare(c) \in Seq(Nat) /\ Len(Bare(c)) = Size(c) + 2 /\ Size(c) \in Nat
  BY BareFacts
<1> QED BY <1>1, EscapesGrow DEF Upto, Raw

\* The checksum after each byte on the wire that it covers.
LEMMA SumFacts ==
    ASSUME NEW c \in Commands
    PROVE  /\ Sum(c, 0) = PACKET_FCS_INITIAL
           /\ \A k \in Nat : k + 1 <= Len(Covered(c)) =>
                Sum(c, k + 1) = fcs_step(Raw(c)[k + 1], Sum(c, k))
           /\ Sum(c, Len(Covered(c))) = FcsOf(c)
<1> DEFINE v == Covered(c)
           C == Checksums(v)
<1>1. v \in Seq(Bytes) /\ Len(v) \in Nat
  BY BareFacts, RawFacts
<1>2. C[0] = PACKET_FCS_INITIAL /\ \A n \in 1 .. Len(v) : C[n] = fcs_step(v[n], C[n - 1])
  BY <1>1, ChecksumsDef
<1>3. \A i \in 1 .. Len(v) : Raw(c)[i] = v[i]
  BY RawFacts
<1> HIDE DEF C, v
<1>4. ASSUME NEW k \in Nat, k + 1 <= Len(v)
      PROVE  C[k + 1] = fcs_step(Raw(c)[k + 1], C[k])
  <2> DEFINE n == k + 1
  <2>1. n \in 1 .. Len(v) /\ n - 1 = k
    BY <1>1, <1>4
  <2> HIDE DEF n
  <2>2. C[n] = fcs_step(Raw(c)[n], C[k])
    BY <1>2, <1>3, <2>1
  <2> QED BY <2>2 DEF n
<1> QED BY <1>2, <1>4 DEF C, v, Sum, FcsOf, packet_fcs

---------------------------------------------------------------------------
(* What is on the wire.                                                      *)

\* What poll() writes for the command c, and where its bytes begin.
Sent(c) == Written(Framer_frame(c.payload, c.address, c.control))
Lead    == Preamble + 1

\* At least two flags come first.
LEMMA LeadType == Lead \in Nat /\ Lead >= 2
BY PollAssumption DEF Lead

\* Flags, then the command's bytes and their escapes, then flags to the end.
LEMMA SentFacts ==
    ASSUME NEW c \in Commands
    PROVE  Flagged(Sent(c), Lead, Raw(c))
<1> DEFINE r == Raw(c)
           h == (<<FLAG>> \o r) \o <<FLAG>>
           t == IF Len(h) % Padding = 0 THEN << >> ELSE Run(Padding)
           w == Sent(c)
           N == Preamble
<1>1. N \in Nat /\ N > 0 /\ Padding \in Nat
  BY PollAssumption
<1>2. r \in Seq(Nat)
  BY RawFacts
<1>3. w = (Run(N) \o h) \o t
  BY RawFacts DEF Sent, Written
<1>4. t \in Seq(Nat) /\ \A i \in 1 .. Len(t) : t[i] = FLAG
  <2>1. CASE Len(h) % Padding = 0
    <3>1. t = << >>
      BY <2>1
    <3> HIDE DEF t
    <3> QED BY <3>1
  <2>2. CASE Len(h) % Padding # 0
    <3>1. t = Run(Padding)
      BY <2>2
    <3> HIDE DEF t
    <3> QED BY <1>1, <3>1, RunFacts
  <2> QED BY <2>1, <2>2
<1> HIDE DEF r, t, w, N
<1>5. Flagged(w, N + 1, r)
  BY <1>1, <1>2, <1>3, <1>4, FramedBytes
<1> QED BY <1>5 DEF w, r, N, Lead

---------------------------------------------------------------------------
(* The inductive invariant: how far the parser is with the command that is    *)
(* being sent, as long as the line has not touched it.  k counts the bytes of *)
(* Sent(c) that are delivered.                                                *)

\* A frame has just begun.
Fresh ==
    /\ state = "WAIT_ADDR" /\ ~saw_escape
    /\ rx_buf = <<FLAG>> /\ fcs = PACKET_FCS_INITIAL

\* Whatever came before, a parser that waits for an address has begun a frame.
ParserInv ==
    /\ saw_escape \in BOOLEAN
    /\ state = "WAIT_ADDR" => rx_buf = <<FLAG>> /\ (~saw_escape => fcs = PACKET_FCS_INITIAL)

\* The first flag of all may complete an earlier command.
AtMostOne == handled = << >> \/ handled = <<handled[1]>>

\* Nothing is delivered yet.
Silent(k) == k = 0 /\ handled = << >>

\* The flags before the frame.  The second one leaves a fresh parser behind.
Opening(k) ==
    /\ 1 <= k /\ k < Lead
    /\ ~saw_escape /\ AtMostOne
    /\ k >= 2 => Fresh

\* What the parser waits for when it has n bytes of the frame.
Expected(c, n) ==
    CASE n = 0 -> "WAIT_ADDR"
      [] n = 1 -> "WAIT_CONTROL"
      [] n = 2 -> "WAIT_LENGTH_HI"
      [] n = 3 -> "WAIT_LENGTH_LO"
      [] 4 <= n /\ n < Size(c) -> "IN_BODY"
      [] 4 <= n /\ n = Size(c) -> "WAIT_CKSUM_HI"
      [] OTHER -> "WAIT_CKSUM_LO"

\* It has n bytes of the frame, and perhaps the escape of the next one.
Within(c, k, n) ==
    /\ n < Size(c) + 2
    /\ k = Lead + Upto(c, n) + (IF saw_escape THEN 1 ELSE 0)
    /\ saw_escape => Bare(c)[n + 1] \in {FLAG, ESCAPE}
    /\ state = Expected(c, n)
    /\ rx_buf \in Seq(Nat) /\ Len(rx_buf) = n + 1
    /\ \A i \in 1 .. n : rx_buf[i + 1] = Bare(c)[i]
    /\ fcs = IF n < Size(c) THEN Sum(c, k - Lead) ELSE FcsOf(c)
    /\ state = "IN_BODY" => bytes_rem = Len(Covered(c)) - (k - Lead)
    /\ AtMostOne

\* The frame is through, and flags follow.
Closing(c, k) ==
    /\ k >= Lead + Len(Raw(c))
    /\ ~saw_escape /\ (state = "IDLE" \/ Fresh)
    /\ handled \in {<<c>>, <<handled[1], c>>}

Stage(c, k) ==
    \/ Silent(k) \/ Opening(k) \/ Closing(c, k)
    \/ \E n \in 0 .. Size(c) + 1 : Within(c, k, n)

\* What is left on the wire is the rest of what was sent.
Rest(c, k) ==
    /\ wire \in Seq(Nat) /\ Len(wire) = Len(Sent(c)) - k
    /\ \A i \in 1 .. Len(wire) : wire[i] = Sent(c)[k + i]

LinkInv ==
    /\ hits \in Nat
    /\ ParserInv
    /\ command # Idle /\ hits = 0 =>
         /\ command \in Commands
         /\ \E k \in 0 .. Len(Sent(command)) : Rest(command, k) /\ Stage(command, k)

---------------------------------------------------------------------------
(* What a byte does to the parser.                                           *)

\* None of these callbacks is eol_command_handle.
LEMMA CallFacts ==
    /\ P!NoCall.to = "nobody"
    /\ P!Call("interrupted").to = "interrupted" /\ P!Call("too_long").to = "too_long"
BY DEF P!NoCall, P!Call

\* Every byte, wherever it comes from, keeps the parser sane.
LEMMA ParserStep ==
    ASSUME ParserInv, NEW b, P!packet_rx_byte(b)
    PROVE  ParserInv'
<1>1. CASE P!Escape(b)
  BY <1>1 DEF ParserInv, P!Escape
<1>2. CASE P!IdleFlag(b) \/ P!Noise(b)
  BY <1>2 DEF ParserInv, P!IdleFlag, P!Noise
<1>3. CASE P!StartFrame(b)
  BY <1>3 DEF ParserInv, P!StartFrame
<1>4. ASSUME NEW next, NEW rem, next # "WAIT_ADDR", P!Advance(b, next, rem)
      PROVE  ParserInv'
  BY <1>4 DEF ParserInv, P!Advance
<1>5. CASE P!Header(b)
  BY <1>4, <1>5 DEF P!Header
<1>6. CASE P!LengthLo(b)
  <2>1. (IF P!Length(b) = 0 THEN "WAIT_CKSUM_HI" ELSE "IN_BODY") # "WAIT_ADDR"
    OBVIOUS
  <2> QED BY <1>4, <1>6, <2>1 DEF P!LengthLo
<1>7. CASE P!Body(b)
  <2>1. (IF P!Decremented = 0 THEN "WAIT_CKSUM_HI" ELSE "IN_BODY") # "WAIT_ADDR"
    OBVIOUS
  <2> QED BY <1>4, <1>7, <2>1 DEF P!Body
<1>8. CASE P!ChecksumHi(b)
  BY <1>4, <1>8 DEF P!ChecksumHi
<1>9. CASE P!TooLong(b) \/ P!ChecksumLo(b)
  <2>1. P!ParserReset
    BY <1>9 DEF P!TooLong, P!ChecksumLo
  <2> QED BY <2>1 DEF ParserInv, P!ParserReset
<1> QED BY <1>1, <1>2, <1>3, <1>5, <1>6, <1>7, <1>8, <1>9 DEF P!packet_rx_byte

\* A flag that is not escaped begins a frame, whatever it interrupts.
LEMMA FlagStep ==
    ASSUME ParserInv, ~saw_escape, Receive(FLAG)
    PROVE  Fresh' /\ handled' = handled
<1>1. FLAG # ESCAPE
  BY HdlcAssumption
<1>2. ~P!Stored(FLAG)
  BY DEF P!Stored
<1>3. P!IdleFlag(FLAG) \/ P!StartFrame(FLAG)
  <2>1. ~P!Escape(FLAG) /\ ~P!Noise(FLAG)
    BY <1>1 DEF P!Escape, P!Noise
  <2>2. ~P!Header(FLAG) /\ ~P!LengthLo(FLAG) /\ ~P!TooLong(FLAG) /\ ~P!Body(FLAG)
        /\ ~P!ChecksumHi(FLAG) /\ ~P!ChecksumLo(FLAG)
    BY <1>2 DEF P!Header, P!LengthLo, P!TooLong, P!Body, P!ChecksumHi, P!ChecksumLo, P!Advance
  <2> QED BY <2>1, <2>2 DEF Receive, P!packet_rx_byte
<1>4. CASE P!IdleFlag(FLAG)
  <2>1. report' = P!NoCall /\ Fresh'
    BY <1>4 DEF P!IdleFlag, ParserInv, Fresh
  <2> QED BY <2>1, CallFacts DEF Receive, eol_command_handle
<1>5. CASE P!StartFrame(FLAG)
  <2>1. Fresh'
    BY <1>5 DEF P!StartFrame, Fresh
  <2>2. report'.to # "handler"
    BY <1>5, CallFacts DEF P!StartFrame
  <2> QED BY <2>1, <2>2 DEF Receive, eol_command_handle
<1> QED BY <1>3, <1>4, <1>5

\* The first flag can be taken for a byte that was escaped.
LEMMA FirstFlag ==
    ASSUME ParserInv, handled = << >>, Receive(FLAG)
    PROVE  ~saw_escape' /\ AtMostOne'
<1>1. FLAG # ESCAPE
  BY HdlcAssumption
<1>2. AtMostOne'
  <2>1. CASE handled' = handled
    BY <2>1 DEF AtMostOne
  <2>2. CASE handled' # handled
    <3> DEFINE x == [payload |-> report'.payload, address |-> report'.addr,
                     control |-> report'.control]
    <3>1. handled' = Append(<< >>, x)
      BY <2>2 DEF Receive, eol_command_handle
    <3> HIDE DEF x
    <3>2. handled' = <<x>>
      BY <3>1
    <3>3. handled'[1] = x
      BY <3>2
    <3> QED BY <3>2, <3>3 DEF AtMostOne
  <2> QED BY <2>1, <2>2
<1>3. ~saw_escape'
  <2>1. ~P!Escape(FLAG)
    BY <1>1 DEF P!Escape
  <2>2. P!IdleFlag(FLAG) => ~saw_escape'
    BY DEF P!IdleFlag
  <2>3. P!Noise(FLAG) \/ P!StartFrame(FLAG) => ~saw_escape'
    BY DEF P!Noise, P!StartFrame
  <2>4. P!Header(FLAG) \/ P!LengthLo(FLAG) \/ P!Body(FLAG) \/ P!ChecksumHi(FLAG) => ~saw_escape'
    BY DEF P!Header, P!LengthLo, P!Body, P!ChecksumHi, P!Advance
  <2>5. P!TooLong(FLAG) \/ P!ChecksumLo(FLAG) => ~saw_escape'
    BY DEF P!TooLong, P!ChecksumLo, P!ParserReset
  <2> QED BY <2>1, <2>2, <2>3, <2>4, <2>5 DEF Receive, P!packet_rx_byte
<1> QED BY <1>2, <1>3

---------------------------------------------------------------------------
(* How the parser goes through a frame that nothing touches.                 *)

\* What is waited for where.
LEMMA ExpectedFacts ==
    ASSUME NEW c, NEW n \in Nat, Size(c) \in Nat, Size(c) >= 4, n < Size(c) + 2
    PROVE  /\ n = 0 => Expected(c, n) = "WAIT_ADDR"
           /\ n = 1 => Expected(c, n) = "WAIT_CONTROL"
           /\ n = 2 => Expected(c, n) = "WAIT_LENGTH_HI"
           /\ n = 3 => Expected(c, n) = "WAIT_LENGTH_LO"
           /\ 4 <= n /\ n < Size(c) => Expected(c, n) = "IN_BODY"
           /\ n = Size(c) => Expected(c, n) = "WAIT_CKSUM_HI"
           /\ n = Size(c) + 1 => Expected(c, n) = "WAIT_CKSUM_LO"
           /\ Expected(c, n) # "IDLE"
           /\ n < Size(c) <=> Expected(c, n) \notin {"WAIT_CKSUM_HI", "WAIT_CKSUM_LO"}
           /\ Expected(c, n) = "IN_BODY" => 4 <= n /\ n < Size(c)
<1> DEFINE z == Size(c)
<1> HIDE DEF z
<1>1. z \in Nat /\ z >= 4 /\ n < z + 2
  BY DEF z
<1>2. \/ n = 0 \/ n = 1 \/ n = 2 \/ n = 3 \/ (4 <= n /\ n < z) \/ n = z \/ n = z + 1
  BY <1>1
<1>3. CASE n \in {0, 1, 2, 3}
  BY <1>1, <1>3 DEF Expected, z
<1>4. CASE 4 <= n /\ n < z
  BY <1>1, <1>4 DEF Expected, z
<1>5. CASE n = z
  BY <1>1, <1>5 DEF Expected, z
<1>6. CASE n = z + 1
  BY <1>1, <1>6 DEF Expected, z
<1> QED BY <1>2, <1>3, <1>4, <1>5, <1>6

\* Where the parser is among the bytes of the frame.
LEMMA WithinFacts ==
    ASSUME NEW c \in Commands, NEW k \in Nat, NEW n \in Nat, Within(c, k, n)
    PROVE  /\ n + 1 <= Size(c) + 2 /\ Size(c) \in Nat /\ Size(c) >= 4
           /\ Upto(c, n) \in Nat /\ Upto(c, n + 1) \in Nat /\ Len(Covered(c)) \in Nat
           /\ Upto(c, n + 1) <= Len(Raw(c))
           /\ k = Lead + Upto(c, n) + (IF saw_escape THEN 1 ELSE 0)
           /\ k + 1 <= Lead + Upto(c, n + 1)
           /\ k + 1 = Lead + Upto(c, n + 1) <=>
                saw_escape \/ Bare(c)[n + 1] \notin {FLAG, ESCAPE}
           /\ Raw(c)[(k - Lead) + 1] =
                IF k + 1 = Lead + Upto(c, n + 1) THEN Bare(c)[n + 1] ELSE ESCAPE
           /\ n < Size(c) => Upto(c, n + 1) <= Len(Covered(c))
           /\ Upto(c, n + 1) = Len(Covered(c)) <=> n + 1 = Size(c)
<1> DEFINE z == Size(c)
           u == Upto(c, n)
           v == Upto(c, n + 1)
           e == Bare(c)[n + 1] \in {FLAG, ESCAPE}
           r == Raw(c)
           w == Len(Covered(c))
           o == IF saw_escape THEN 1 ELSE 0
<1>1. z \in Nat /\ z >= 4 /\ n < z + 2 /\ k = Lead + u + o /\ (saw_escape => e)
  BY BareFacts DEF Within
<1>2. /\ Bare(c) \in Seq(Nat) /\ Len(Bare(c)) = z + 2 /\ Lead \in Nat /\ w = Upto(c, z)
      /\ z <= z + 2 /\ o \in {0, 1} /\ (saw_escape <=> o = 1)
  BY <1>1, BareFacts, RawFacts, LeadType
<1> DEFINE b == Bare(c)
<1>3. /\ u = Len(Escapes(b)[n]) /\ v = Len(Escapes(b)[n + 1]) /\ w = Len(Escapes(b)[z])
      /\ r = EscapeAll(b) /\ (e <=> b[n + 1] \in {FLAG, ESCAPE})
  BY <1>2 DEF Upto, Raw
<1> HIDE DEF z, u, v, e, r, w, o, b
<1>4. Amid(b, z, n, o, k, Lead)
  <2>1. b \in Seq(Nat) /\ Len(b) = z + 2
    BY <1>2 DEF b
  <2>2. z <= Len(b) /\ n < Len(b) /\ k = Lead + Len(Escapes(b)[n]) + o
        /\ (o = 1 => b[n + 1] \in {FLAG, ESCAPE})
    BY <1>1, <1>2, <1>3, <2>1
  <2> QED BY <1>1, <1>2, <2>1, <2>2, AmidFacts
<1>5. /\ v \in Nat /\ w \in Nat /\ u \in Nat /\ v <= Len(r) /\ k + 1 <= Lead + v
      /\ (k + 1 = Lead + v <=> o = 1 \/ b[n + 1] \notin {FLAG, ESCAPE})
      /\ r[(k - Lead) + 1] = IF k + 1 = Lead + v THEN b[n + 1] ELSE ESCAPE
      /\ n < z => v <= w
      /\ v = w <=> n + 1 = z
  <2>1. u \in Nat
    <3>1. b \in Seq(Nat) /\ n <= Len(b)
      BY <1>1, <1>2 DEF b
    <3> QED BY <1>3, <3>1, EscapesGrow
  <2> QED BY <1>3, <1>4, <2>1 DEF Amid
<1>6. n + 1 <= z + 2
  BY <1>1
<1> QED BY <1>1, <1>2, <1>5, <1>6 DEF z, u, v, e, r, w, o, b

\* One more byte of what the checksum covers.
LEMMA SumStep ==
    ASSUME NEW c \in Commands, NEW k \in Nat, NEW n \in Nat, Within(c, k, n), n < Size(c)
    PROVE  /\ fcs_step(Raw(c)[(k - Lead) + 1], fcs) = Sum(c, (k + 1) - Lead)
           /\ n + 1 = Size(c) /\ k + 1 = Lead + Upto(c, n + 1) => Sum(c, (k + 1) - Lead) = FcsOf(c)
<1> DEFINE j == k - Lead
           w == Len(Covered(c))
<1>1. /\ Lead \in Nat /\ w \in Nat /\ Upto(c, n) \in Nat /\ Upto(c, n + 1) \in Nat
      /\ Upto(c, n + 1) <= w /\ k + 1 <= Lead + Upto(c, n + 1)
      /\ k = Lead + Upto(c, n) + (IF saw_escape THEN 1 ELSE 0)
      /\ n + 1 = Size(c) => Upto(c, n + 1) = w
  BY WithinFacts, LeadType
<1>2. j \in Nat /\ j + 1 <= w /\ (k + 1) - Lead = j + 1
  BY <1>1, SMTT(30)
<1>3. k + 1 = Lead + Upto(c, n + 1) => j + 1 = Upto(c, n + 1)
  BY <1>1, SMTT(30)
<1>4. fcs = Sum(c, j)
  BY DEF Within
<1> HIDE DEF j, w
<1>5. Sum(c, j + 1) = fcs_step(Raw(c)[j + 1], Sum(c, j))
  BY <1>2, SumFacts DEF w
<1>6. Sum(c, w) = FcsOf(c)
  BY SumFacts DEF w
<1> QED BY <1>1, <1>2, <1>3, <1>4, <1>5, <1>6 DEF j

\* The escape of the next byte.
LEMMA EscapeStep ==
    ASSUME NEW c \in Commands, NEW k \in Nat, NEW n \in Nat, Within(c, k, n),
           Bare(c)[n + 1] \in {FLAG, ESCAPE}, ~saw_escape, Receive(ESCAPE)
    PROVE  Within(c, k + 1, n)'
<1> DEFINE w == Len(Covered(c))
           b == Bare(c)[n + 1]
           S == Sum(c, (k + 1) - Lead)
<1>1. P!Escape(ESCAPE)
  <2>1. ~P!IdleFlag(ESCAPE) /\ ~P!Noise(ESCAPE) /\ ~P!StartFrame(ESCAPE)
    BY HdlcAssumption DEF P!IdleFlag, P!Noise, P!StartFrame
  <2>2. ~P!Stored(ESCAPE)
    BY DEF P!Stored
  <2>3. ~P!Header(ESCAPE) /\ ~P!LengthLo(ESCAPE) /\ ~P!TooLong(ESCAPE) /\ ~P!Body(ESCAPE)
        /\ ~P!ChecksumHi(ESCAPE) /\ ~P!ChecksumLo(ESCAPE)
    BY <2>2 DEF P!Header, P!LengthLo, P!TooLong, P!Body, P!ChecksumHi, P!ChecksumLo, P!Advance
  <2> QED BY <2>1, <2>3 DEF Receive, P!packet_rx_byte
<1>2. /\ saw_escape' = TRUE /\ UNCHANGED <<state, rx_buf>> /\ report' = P!NoCall
      /\ bytes_rem' = IF state = "IN_BODY" THEN P!Decremented ELSE bytes_rem
      /\ fcs' = P!Stepped(ESCAPE)
  BY <1>1 DEF P!Escape
<1>3. handled' = handled
  BY <1>2, CallFacts DEF Receive, eol_command_handle
<1>4. /\ n + 1 <= Size(c) + 2 /\ Size(c) \in Nat /\ Size(c) >= 4
      /\ Upto(c, n) \in Nat /\ Upto(c, n + 1) \in Nat /\ w \in Nat /\ Lead \in Nat
      /\ k = Lead + Upto(c, n) + (IF saw_escape THEN 1 ELSE 0)
      /\ k + 1 <= Lead + Upto(c, n + 1)
      /\ n < Size(c) => Upto(c, n + 1) <= w
  BY WithinFacts, LeadType
<1>5. k + 1 # Lead + Upto(c, n + 1) /\ Raw(c)[(k - Lead) + 1] = ESCAPE
  BY WithinFacts
<1>6. k + 1 = Lead + Upto(c, n) + (IF saw_escape' THEN 1 ELSE 0)
  BY <1>2, <1>4
<1>7. n < Size(c) <=> state \notin {"WAIT_CKSUM_HI", "WAIT_CKSUM_LO"}
  BY <1>4, ExpectedFacts DEF Within
<1>8. state # "IDLE"
  BY <1>4, ExpectedFacts DEF Within
<1>9. fcs' = IF n < Size(c) THEN S ELSE FcsOf(c)
  <2>1. CASE n < Size(c)
    <3>1. fcs' = fcs_step(ESCAPE, fcs)
      BY <1>2, <1>7, <1>8, <2>1 DEF P!Stepped
    <3>2. fcs_step(Raw(c)[(k - Lead) + 1], fcs) = S
      BY <2>1, SumStep
    <3> QED BY <1>5, <2>1, <3>1, <3>2
  <2>2. CASE ~(n < Size(c))
    <3>1. fcs' = fcs /\ fcs = FcsOf(c)
      BY <1>2, <1>7, <2>2 DEF P!Stepped, Within
    <3> QED BY <2>2, <3>1
  <2> QED BY <2>1, <2>2
<1>10. state = "IN_BODY" => bytes_rem' = w - ((k + 1) - Lead)
  <2> SUFFICES ASSUME state = "IN_BODY" PROVE bytes_rem' = w - ((k + 1) - Lead)
    OBVIOUS
  <2>1. n < Size(c) /\ bytes_rem = w - (k - Lead)
    BY <1>7 DEF Within
  <2> DEFINE v == Upto(c, n + 1)
  <2>2. bytes_rem \in Nat /\ bytes_rem # 0
    <3> DEFINE u == Upto(c, n)
    <3> HIDE DEF w
    <3>1. /\ v \in Nat /\ v <= w /\ k + 1 <= Lead + v /\ k + 1 # Lead + v
          /\ u \in Nat /\ k = Lead + u + 0 /\ w \in Nat /\ Lead \in Nat
      BY <1>4, <1>5, <2>1
    <3>2. bytes_rem = w - (k - Lead)
      BY <2>1
    <3> HIDE DEF v, u
    <3> QED BY <3>1, <3>2
  <2>3. bytes_rem' = bytes_rem - 1
    BY <1>2, <2>2 DEF P!Decremented
  <2> QED BY <1>4, <2>1, <2>2, <2>3, SMTT(30)
<1>11. AtMostOne'
  BY <1>3 DEF Within, AtMostOne
<1>12. /\ n < Size(c) + 2 /\ state' = Expected(c, n)
       /\ rx_buf' \in Seq(Nat) /\ Len(rx_buf') = n + 1
       /\ \A i \in 1 .. n : rx_buf'[i + 1] = Bare(c)[i]
  BY <1>2 DEF Within
<1>13. state' = "IN_BODY" => bytes_rem' = w - ((k + 1) - Lead)
  BY <1>2, <1>10
<1> HIDE DEF w, S
<1> QED BY <1>6, <1>9, <1>11, <1>12, <1>13 DEF Within, w, S

\* A byte of the frame that is stored, but for the last of it.
LEMMA ByteStep ==
    ASSUME NEW c \in Commands, NEW k \in Nat, NEW n \in Nat, Within(c, k, n),
           NEW b \in Nat, b = Bare(c)[n + 1], b \in {FLAG, ESCAPE} => saw_escape,
           n + 1 < Size(c) + 2, NEW STATE rem,
           n + 1 < Size(c) => (n >= 3 => rem = Len(Covered(c)) - ((k + 1) - Lead)),
           P!Advance(b, Expected(c, n + 1), rem), eol_command_handle
    PROVE  Within(c, k + 1, n + 1)'
<1> DEFINE w == Len(Covered(c))
           S == Sum(c, (k + 1) - Lead)
           m == n + 1
<1>1. /\ state' = Expected(c, m) /\ ~saw_escape' /\ saw_escape' \in BOOLEAN /\ bytes_rem' = rem
      /\ fcs' = P!Stepped(b) /\ rx_buf' = Append(rx_buf, b) /\ report' = P!NoCall
  BY DEF P!Advance
<1>2. handled' = handled
  BY <1>1, CallFacts DEF eol_command_handle
<1>3. /\ Size(c) \in Nat /\ Size(c) >= 4 /\ Lead \in Nat
      /\ k + 1 = Lead + Upto(c, m) /\ Raw(c)[(k - Lead) + 1] = b
      /\ Upto(c, m) \in Nat
  <2>1. Lead \in Nat
    BY LeadType
  <2>2. /\ Size(c) \in Nat /\ Size(c) >= 4 /\ Upto(c, m) \in Nat
        /\ k + 1 = Lead + Upto(c, m) <=> saw_escape \/ Bare(c)[m] \notin {FLAG, ESCAPE}
        /\ Raw(c)[(k - Lead) + 1] = IF k + 1 = Lead + Upto(c, m) THEN Bare(c)[m] ELSE ESCAPE
    BY WithinFacts
  <2> QED BY <2>1, <2>2
<1>4. k + 1 = Lead + Upto(c, m) + (IF saw_escape' THEN 1 ELSE 0)
  BY <1>1, <1>3
<1>5. n < Size(c) <=> state \notin {"WAIT_CKSUM_HI", "WAIT_CKSUM_LO"}
  BY <1>3, ExpectedFacts DEF Within
<1>6. state # "IDLE"
  BY <1>3, ExpectedFacts DEF Within
<1>7. fcs' = IF m < Size(c) THEN S ELSE FcsOf(c)
  <2>1. CASE n < Size(c)
    <3>1. fcs' = fcs_step(b, fcs)
      BY <1>1, <1>5, <1>6, <2>1 DEF P!Stepped
    <3>2. fcs_step(Raw(c)[(k - Lead) + 1], fcs) = S
      BY <2>1, SumStep
    <3>3. m = Size(c) => S = FcsOf(c)
      BY <1>3, <2>1, SumStep
    <3>4. m < Size(c) \/ m = Size(c)
      BY <1>3, <2>1
    <3> HIDE DEF S, m
    <3> QED BY <1>3, <3>1, <3>2, <3>3, <3>4
  <2>2. CASE ~(n < Size(c))
    <3>1. fcs' = fcs /\ fcs = FcsOf(c)
      BY <1>1, <1>5, <2>2 DEF P!Stepped, Within
    <3>2. ~(m < Size(c))
      BY <1>3, <2>2
    <3> QED BY <3>1, <3>2
  <2> QED BY <2>1, <2>2
<1>8. /\ rx_buf \in Seq(Nat) /\ Len(rx_buf) = n + 1
      /\ \A i \in 1 .. n : rx_buf[i + 1] = Bare(c)[i]
  BY DEF Within
<1>9. /\ rx_buf' \in Seq(Nat) /\ Len(rx_buf') = m + 1
      /\ \A i \in 1 .. m : rx_buf'[i + 1] = Bare(c)[i]
  <2>1. /\ rx_buf' \in Seq(Nat) /\ Len(rx_buf') = Len(rx_buf) + 1
        /\ \A i \in 1 .. Len(rx_buf) : rx_buf'[i] = rx_buf[i]
        /\ rx_buf'[Len(rx_buf) + 1] = b
    BY <1>1, <1>8, AppendProperties
  <2>2. ASSUME NEW i \in 1 .. m PROVE rx_buf'[i + 1] = Bare(c)[i]
    <3>1. CASE i \in 1 .. n
      <4> DEFINE j == i + 1
      <4>1. j \in 1 .. Len(rx_buf)
        BY <1>8, <3>1
      <4> HIDE DEF j
      <4>2. rx_buf'[j] = rx_buf[j]
        BY <2>1, <4>1
      <4> QED BY <1>8, <3>1, <4>2 DEF j
    <3>2. CASE i = n + 1
      <4>1. rx_buf'[m + 1] = b
        BY <1>8, <2>1
      <4> QED BY <3>2, <4>1
    <3> QED BY <3>1, <3>2
  <2> QED BY <1>8, <2>1, <2>2
<1>10. state' = "IN_BODY" => bytes_rem' = w - ((k + 1) - Lead)
  <2>1. Expected(c, m) = "IN_BODY" => 4 <= m /\ m < Size(c)
    BY <1>3, ExpectedFacts
  <2>2. 4 <= m => n >= 3
    OBVIOUS
  <2> QED BY <1>1, <2>1, <2>2
<1>11. AtMostOne'
  BY <1>2 DEF Within, AtMostOne
<1>12. m < Size(c) + 2
  OBVIOUS
<1>13. saw_escape' => Bare(c)[m + 1] \in {FLAG, ESCAPE}
  BY <1>1
<1> HIDE DEF w, S, m
<1>14. Within(c, k + 1, m)'
  BY <1>1, <1>4, <1>7, <1>9, <1>10, <1>11, <1>12, <1>13 DEF Within, w, S
<1> QED BY <1>14 DEF m

\* The arms of packet_rx_byte that store a byte.
LEMMA StoredArm ==
    ASSUME NEW b, state # "IDLE", b \in {FLAG, ESCAPE} => saw_escape, P!packet_rx_byte(b)
    PROVE  /\ state = "WAIT_ADDR" => P!Advance(b, "WAIT_CONTROL", P!Decremented)
           /\ state = "WAIT_CONTROL" => P!Advance(b, "WAIT_LENGTH_HI", P!Decremented)
           /\ state = "WAIT_LENGTH_HI" => P!Advance(b, "WAIT_LENGTH_LO", P!Decremented)
           /\ state = "WAIT_LENGTH_LO" => P!LengthLo(b) \/ P!TooLong(b)
           /\ state = "IN_BODY" => P!Body(b)
           /\ state = "WAIT_CKSUM_HI" => P!Advance(b, "WAIT_CKSUM_LO", P!Decremented)
           /\ state = "WAIT_CKSUM_LO" => P!ChecksumLo(b)
<1>1. ~P!Escape(b) /\ ~P!IdleFlag(b) /\ ~P!Noise(b) /\ ~P!StartFrame(b)
  BY DEF P!Escape, P!IdleFlag, P!Noise, P!StartFrame
<1>2. \/ P!Header(b) \/ P!LengthLo(b) \/ P!TooLong(b) \/ P!Body(b)
      \/ P!ChecksumHi(b) \/ P!ChecksumLo(b)
  BY <1>1 DEF P!packet_rx_byte
<1>3. /\ P!LengthLo(b) \/ P!TooLong(b) => state = "WAIT_LENGTH_LO"
      /\ P!Body(b) => state = "IN_BODY"
      /\ P!ChecksumHi(b) => state = "WAIT_CKSUM_HI" /\ P!Advance(b, "WAIT_CKSUM_LO", P!Decremented)
      /\ P!ChecksumLo(b) => state = "WAIT_CKSUM_LO"
  BY DEF P!LengthLo, P!TooLong, P!Body, P!ChecksumHi, P!ChecksumLo
<1>4. P!Header(b) =>
        \/ state = "WAIT_ADDR" /\ P!Advance(b, "WAIT_CONTROL", P!Decremented)
        \/ state = "WAIT_CONTROL" /\ P!Advance(b, "WAIT_LENGTH_HI", P!Decremented)
        \/ state = "WAIT_LENGTH_HI" /\ P!Advance(b, "WAIT_LENGTH_LO", P!Decremented)
  BY DEF P!Header
<1> QED BY <1>2, <1>3, <1>4

\* Every byte of a frame but the last takes the parser one place further.
LEMMA InnerByte ==
    ASSUME NEW c \in Commands, NEW k \in Nat, NEW n \in Nat, Within(c, k, n),
           NEW b \in Nat, b = Bare(c)[n + 1], b \in {FLAG, ESCAPE} => saw_escape,
           n + 1 < Size(c) + 2, Receive(b)
    PROVE  Within(c, k + 1, n + 1)'
<1> DEFINE w == Len(Covered(c))
           m == n + 1
<1>1. Lead \in Nat
  BY LeadType
<1>2. /\ Size(c) \in Nat /\ Size(c) >= 4 /\ Upto(c, m) \in Nat /\ w \in Nat
      /\ k + 1 = Lead + Upto(c, m) <=> saw_escape \/ Bare(c)[m] \notin {FLAG, ESCAPE}
      /\ Upto(c, m) = w <=> m = Size(c)
      /\ n < Size(c) => Upto(c, m) <= w
  BY WithinFacts
<1>3. k + 1 = Lead + Upto(c, m)
  BY <1>2
<1>4. /\ state = Expected(c, n) /\ Len(rx_buf) = n + 1
      /\ \A i \in 1 .. n : rx_buf[i + 1] = Bare(c)[i]
      /\ state = "IN_BODY" => bytes_rem = w - (k - Lead)
  BY DEF Within
<1>5. P!packet_rx_byte(b) /\ eol_command_handle
  BY DEF Receive
<1>6. state # "IDLE"
  BY <1>2, <1>4, ExpectedFacts
<1>7. ASSUME NEW STATE rem, m < Size(c) => (n >= 3 => rem = w - ((k + 1) - Lead)),
             P!Advance(b, Expected(c, m), rem)
      PROVE  Within(c, k + 1, m)'
  BY <1>5, <1>7, ByteStep
<1>8. CASE n = 0
  <2>1. state = "WAIT_ADDR" /\ Expected(c, m) = "WAIT_CONTROL" /\ ~(n >= 3)
    BY <1>2, <1>4, <1>8, ExpectedFacts
  <2> QED BY <1>5, <1>6, <1>7, <2>1, StoredArm
<1>9. CASE n = 1
  <2>1. state = "WAIT_CONTROL" /\ Expected(c, m) = "WAIT_LENGTH_HI" /\ ~(n >= 3)
    BY <1>2, <1>4, <1>9, ExpectedFacts
  <2> QED BY <1>5, <1>6, <1>7, <2>1, StoredArm
<1>10. CASE n = 2
  <2>1. state = "WAIT_LENGTH_HI" /\ Expected(c, m) = "WAIT_LENGTH_LO" /\ ~(n >= 3)
    BY <1>2, <1>4, <1>10, ExpectedFacts
  <2> QED BY <1>5, <1>6, <1>7, <2>1, StoredArm
<1>11. CASE n = 3
  <2>1. state = "WAIT_LENGTH_LO"
    BY <1>2, <1>4, <1>11, ExpectedFacts
  <2>2. P!LengthLo(b) \/ P!TooLong(b)
    BY <1>5, <1>6, <2>1, StoredArm
  <2>3. P!Length(b) = Len(Body(c))
    <3>1. 3 \in 1 .. n
      BY <1>11
    <3>2. rx_buf[4] = Bare(c)[3]
      BY <1>4, <3>1
    <3>3. b = Bare(c)[4]
      BY <1>11
    <3> QED BY <3>2, <3>3, BareFacts DEF P!Length
  <2>4. Len(Body(c)) <= PACKET_MAX_PAYLOAD_LENGTH /\ PACKET_MAX_PAYLOAD_LENGTH \in Nat
        /\ Len(Body(c)) \in Nat
    BY CommandType, CommandsAssumption, BareFacts
  <2>5. ~P!TooLong(b)
    BY <2>3, <2>4 DEF P!TooLong
  <2>6. P!Advance(b, IF Len(Body(c)) = 0 THEN "WAIT_CKSUM_HI" ELSE "IN_BODY", Len(Body(c)))
    BY <2>2, <2>3, <2>5 DEF P!LengthLo
  <2>7. Upto(c, 4) + Len(Body(c)) = w
    BY RawFacts
  <2>8. m = 4 /\ Upto(c, m) \in Nat /\ Upto(c, m) = Upto(c, 4)
    BY <1>2, <1>11
  <2>9. Len(Body(c)) = 0 <=> m = Size(c)
    <3> DEFINE u == Upto(c, 4)
    <3>1. u \in Nat /\ (u = w <=> m = Size(c)) /\ u + Len(Body(c)) = w
      BY <1>2, <2>7, <2>8
    <3> HIDE DEF u, w, m
    <3> QED BY <1>2, <2>4, <3>1
  <2>10. Expected(c, m) = IF Len(Body(c)) = 0 THEN "WAIT_CKSUM_HI" ELSE "IN_BODY"
    BY <1>2, <2>8, <2>9, ExpectedFacts
  <2>11. Len(Body(c)) = w - ((k + 1) - Lead)
    <3> DEFINE u == Upto(c, 4)
           L == Len(Body(c))
    <3>1. u \in Nat /\ u + L = w /\ k + 1 = Lead + u /\ L \in Nat /\ w \in Nat
      BY <1>2, <1>3, <2>4, <2>7, <2>8
    <3> HIDE DEF u, w, L
    <3>2. L = w - ((k + 1) - Lead)
      BY <1>1, <3>1
    <3> QED BY <3>2 DEF L
  <2>12. P!Advance(b, Expected(c, m), Len(Body(c)))
    BY <2>6, <2>10
  <2> QED BY <1>7, <2>11, <2>12
<1>12. CASE 4 <= n /\ n < Size(c)
  <2>1. state = "IN_BODY"
    BY <1>2, <1>4, <1>12, ExpectedFacts
  <2>2. P!Body(b)
    BY <1>5, <1>6, <2>1, StoredArm
  <2>3. P!Advance(b, IF P!Decremented = 0 THEN "WAIT_CKSUM_HI" ELSE "IN_BODY", P!Decremented)
    BY <2>2 DEF P!Body
  <2> DEFINE u == Upto(c, m)
  <2>4. u \in Nat /\ (u = w <=> m = Size(c)) /\ u <= w /\ k + 1 = Lead + u
        /\ bytes_rem = w - (k - Lead)
    BY <1>2, <1>3, <1>4, <1>12, <2>1
  <2>5. w \in Nat /\ Size(c) \in Nat /\ Size(c) >= 4
    BY <1>2
  <2> HIDE DEF u, w
  <2>6. bytes_rem = (w - u) + 1 /\ bytes_rem # 0
    BY <1>1, <2>4, <2>5
  <2>7. P!Decremented = w - u
    BY <2>4, <2>5, <2>6 DEF P!Decremented
  <2>8. w - u = 0 <=> m = Size(c)
    BY <2>4, <2>5
  <2>9. w - u = w - ((k + 1) - Lead)
    BY <1>1, <2>4, <2>5
  <2>10. Expected(c, m) = IF w - u = 0 THEN "WAIT_CKSUM_HI" ELSE "IN_BODY"
    <3>1. 4 <= m /\ m < Size(c) + 2 /\ m \in Nat /\ (m < Size(c) \/ m = Size(c))
      BY <1>12, <2>5
    <3> QED BY <2>5, <2>8, <3>1, ExpectedFacts
  <2>11. P!Advance(b, Expected(c, m), P!Decremented)
    BY <2>3, <2>7, <2>10
  <2>12. P!Decremented = w - ((k + 1) - Lead)
    BY <2>7, <2>9
  <2> QED BY <1>7, <2>11, <2>12
<1>13. CASE n = Size(c)
  <2>1. state = "WAIT_CKSUM_HI"
    BY <1>2, <1>4, <1>13, ExpectedFacts
  <2>2. P!Advance(b, "WAIT_CKSUM_LO", P!Decremented)
    BY <1>5, <1>6, <2>1, StoredArm
  <2>3. Expected(c, m) = "WAIT_CKSUM_LO" /\ ~(m < Size(c))
    BY <1>2, <1>13, ExpectedFacts
  <2> QED BY <1>7, <2>2, <2>3
<1>14. n \in {0, 1, 2, 3} \/ (4 <= n /\ n < Size(c)) \/ n = Size(c)
  BY <1>2
<1> QED BY <1>8, <1>9, <1>10, <1>11, <1>12, <1>13, <1>14

\* A second element.
LEMMA AppendOne ==
    ASSUME NEW x, NEW y
    PROVE  Append(<<x>>, y) = <<x, y>>
<1> DEFINE S == {x, y}
           s == <<x>>
           t == <<x, y>>
           u == Append(s, y)
<1>1. /\ s \in Seq(S) /\ t \in Seq(S) /\ y \in S
      /\ Len(s) = 1 /\ Len(t) = 2 /\ s[1] = x /\ t[1] = x /\ t[2] = y
  OBVIOUS
<1> HIDE DEF S, s, t
<1>2. /\ u \in Seq(S) /\ Len(u) = Len(s) + 1
      /\ \A i \in 1 .. Len(s) : u[i] = s[i]
      /\ u[Len(s) + 1] = y
  <2>1. s \in Seq(S) /\ y \in S
    BY <1>1
  <2> QED BY <2>1, AppendProperties
<1>3. Len(u) = 2 /\ u[1] = x /\ u[2] = y
  BY <1>1, <1>2
<1>4. u = t
  BY <1>1, <1>2, <1>3, SeqEqual
<1> QED BY <1>4 DEF s, t

\* The last byte completes the command, which is obeyed.
LEMMA LastByte ==
    ASSUME NEW c \in Commands, NEW k \in Nat, NEW n \in Nat, Within(c, k, n),
           NEW b \in Nat, b = Bare(c)[n + 1], b \in {FLAG, ESCAPE} => saw_escape,
           n + 1 = Size(c) + 2, Receive(b)
    PROVE  Closing(c, k + 1)'
<1> DEFINE z == Size(c)
<1>1. z \in Nat /\ z >= 4 /\ k + 1 = Lead + Upto(c, n + 1)
  BY WithinFacts
<1>2. k + 1 >= Lead + Len(Raw(c))
  <2>1. Upto(c, n + 1) = Len(Raw(c)) /\ Len(Raw(c)) \in Nat
    BY RawFacts
  <2>2. Lead \in Nat
    BY LeadType
  <2> QED BY <1>1, <2>1, <2>2
<1>3. n = z + 1
  BY <1>1
<1>4. state = "WAIT_CKSUM_LO"
  BY <1>1, <1>3, ExpectedFacts DEF Within
<1>5. P!ChecksumLo(b) /\ eol_command_handle
  BY <1>4, StoredArm DEF Receive
<1>6. state' = "IDLE" /\ ~saw_escape'
  BY <1>5 DEF P!ChecksumLo, P!ParserReset
<1>7. /\ rx_buf \in Seq(Nat) /\ Len(rx_buf) = z + 2
      /\ \A i \in 1 .. n : rx_buf[i + 1] = Bare(c)[i]
      /\ fcs = FcsOf(c)
  BY <1>1, <1>3 DEF Within
<1> DEFINE payload == P!Payload
           match   == fcs = rx_buf[Len(rx_buf)] * ByteMod + b
<1>8. report' = [to |-> "handler", payload |-> payload, addr |-> rx_buf[2],
                 control |-> rx_buf[3], match |-> match]
  BY <1>5 DEF P!ChecksumLo, P!addr, P!control
<1>9. match
  <2>1. rx_buf[z + 2] = Bare(c)[z + 1]
    <3> DEFINE i == z + 1
    <3>1. i \in 1 .. n /\ i + 1 = z + 2
      BY <1>1, <1>3
    <3> HIDE DEF i
    <3>2. rx_buf[i + 1] = Bare(c)[i]
      BY <1>7, <3>1
    <3> QED BY <3>1, <3>2 DEF i
  <2>2. b = Bare(c)[z + 2]
    BY <1>3
  <2>3. Bare(c)[z + 1] * ByteMod + Bare(c)[z + 2] = FcsOf(c)
    BY BareFacts
  <2> QED BY <1>7, <2>1, <2>2, <2>3
<1>10. rx_buf[2] = c.address /\ rx_buf[3] = c.control
  <2>1. 1 \in 1 .. n /\ 2 \in 1 .. n
    BY <1>1, <1>3
  <2>2. rx_buf[1 + 1] = Bare(c)[1] /\ rx_buf[2 + 1] = Bare(c)[2]
    BY <1>7, <2>1
  <2> QED BY <2>2, BareFacts
<1>11. payload = c.payload
  <2> DEFINE p == c.payload
             N == Len(p)
             h == Len(rx_buf) + 1 - 2
  <2>1. p \in Seq(Nat) /\ N \in Nat /\ z = 4 + N
    BY CommandType DEF Size
  <2>2. h \in Int /\ 6 \in Int /\ h = N + 5
    BY <1>7, <2>1
  <2>3. \A i \in 6 .. h : rx_buf[i] \in Nat
    <3>1. \A i \in 6 .. h : i \in 1 .. Len(rx_buf)
      BY <1>1, <1>7, <2>1, <2>2
    <3>2. rx_buf \in Seq(Nat)
      BY <1>7
    <3> QED BY <3>1, <3>2, ElementOfSeq
  <2> HIDE DEF h, p, N
  <2>4. /\ SubSeq(rx_buf, 6, h) \in Seq(Nat)
        /\ Len(SubSeq(rx_buf, 6, h)) = IF 6 <= h THEN h - 6 + 1 ELSE 0
        /\ \A i \in 1 .. h - 6 + 1 : SubSeq(rx_buf, 6, h)[i] = rx_buf[6 + i - 1]
    BY <2>2, <2>3, SubSeqProperties
  <2>5. Len(SubSeq(rx_buf, 6, h)) = N /\ h - 6 + 1 = N
    BY <2>1, <2>2, <2>4
  <2>6. ASSUME NEW i \in 1 .. N PROVE SubSeq(rx_buf, 6, h)[i] = p[i]
    <3> DEFINE j == 4 + i
    <3>1. j \in 1 .. n /\ j + 1 = 6 + i - 1
      BY <1>3, <2>1
    <3> HIDE DEF j
    <3>2. rx_buf[j + 1] = Bare(c)[j]
      BY <1>7, <3>1
    <3>3. Bare(c)[j] = p[i]
      BY BareFacts DEF j, p, N
    <3>4. SubSeq(rx_buf, 6, h)[i] = rx_buf[6 + i - 1]
      BY <2>4, <2>5
    <3> QED BY <3>1, <3>2, <3>3, <3>4
  <2>7. SubSeq(rx_buf, 6, h) = p
    BY <2>1, <2>4, <2>5, <2>6, SeqEqual DEF N
  <2>8. payload = SubSeq(rx_buf, 6, h)
    <3>1. 5 + ((Len(rx_buf) + 1) - 8 + 1) = Len(rx_buf) + 1 - 2
      BY <1>7
    <3> QED BY <3>1, Zenon DEF P!Payload, P!PACKET_FRAMING_OVERHEAD, h
  <2> HIDE DEF payload
  <2> QED BY <2>7, <2>8 DEF p
<1> HIDE DEF payload, match
<1>12. handled' = Append(handled, c)
  <2>1. /\ report'.to = "handler" /\ report'.match /\ report'.payload = c.payload
        /\ report'.addr = c.address /\ report'.control = c.control
    BY <1>8, <1>9, <1>10, <1>11
  <2>2. c = [payload |-> c.payload, address |-> c.address, control |-> c.control]
    BY CommandType
  <2> QED BY <1>5, <2>1, <2>2 DEF eol_command_handle
<1>13. handled' \in {<<c>>, <<handled'[1], c>>}
  <2>1. handled = << >> \/ handled = <<handled[1]>>
    BY DEF Within, AtMostOne
  <2>2. CASE handled = << >>
    BY <1>12, <2>2
  <2>3. CASE handled = <<handled[1]>>
    <3> DEFINE x == handled[1]
    <3>1. handled' = Append(<<x>>, c)
      BY <1>12, <2>3
    <3> HIDE DEF x
    <3>2. handled' = <<x, c>>
      BY <3>1, AppendOne
    <3>3. handled'[1] = x
      BY <3>2
    <3> QED BY <3>2, <3>3
  <2> QED BY <2>1, <2>2, <2>3
<1> QED BY <1>2, <1>6, <1>13 DEF Closing

---------------------------------------------------------------------------
(* The steps.                                                                *)

\* A byte that the line delivers as it was sent.
LEMMA DeliverStage ==
    ASSUME NEW c \in Commands, NEW k \in Nat, k < Len(Sent(c)), ParserInv, Stage(c, k),
           Receive(Sent(c)[k + 1])
    PROVE  Stage(c, k + 1)'
<1> DEFINE b == Sent(c)[k + 1]
           r == Raw(c)
<1>1. /\ Lead \in Nat /\ Lead >= 2 /\ Len(Sent(c)) > Lead + Len(r)
      /\ k < Lead => b = FLAG
      /\ Lead + Len(r) <= k => b = FLAG
      /\ \A i \in Nat : i < Len(r) => Sent(c)[(Lead + i) + 1] = r[i + 1]
  BY SentFacts DEF Flagged
<1>2. Len(r) \in Nat /\ r \in Seq(Nat)
  BY RawFacts
<1>3. Size(c) \in Nat /\ Size(c) >= 4
  BY BareFacts
<1>4. CASE Silent(k)
  <2>1. k = 0 /\ handled = << >> /\ b = FLAG
    BY <1>1, <1>4 DEF Silent
  <2>2. ~saw_escape' /\ AtMostOne'
    BY <2>1, FirstFlag
  <2>3. Opening(k + 1)'
    BY <1>1, <2>1, <2>2 DEF Opening
  <2> QED BY <2>3 DEF Stage
<1>5. CASE Opening(k)
  <2>1. 1 <= k /\ k < Lead /\ ~saw_escape /\ AtMostOne /\ b = FLAG
    BY <1>1, <1>5 DEF Opening
  <2>2. Fresh' /\ handled' = handled
    BY <2>1, FlagStep
  <2>3. AtMostOne' /\ ~saw_escape'
    BY <2>1, <2>2 DEF AtMostOne, Fresh
  <2>4. CASE k + 1 < Lead
    <3>1. Opening(k + 1)'
      BY <2>1, <2>2, <2>3, <2>4 DEF Opening
    <3> QED BY <3>1 DEF Stage
  <2>5. CASE ~(k + 1 < Lead)
    <3>1. k + 1 = Lead
      BY <1>1, <2>1, <2>5
    <3>2. Upto(c, 0) = 0
      BY RawFacts
    <3>3. k + 1 = Lead + Upto(c, 0) + (IF saw_escape' THEN 1 ELSE 0)
      BY <1>1, <2>3, <3>1, <3>2
    <3>4. /\ state' = "WAIT_ADDR" /\ rx_buf' = <<FLAG>> /\ fcs' = PACKET_FCS_INITIAL
      BY <2>2 DEF Fresh
    <3>5. rx_buf' \in Seq(Nat) /\ Len(rx_buf') = 0 + 1
      BY <3>4, HdlcAssumption DEF Bytes
    <3>6. (k + 1) - Lead = 0
      BY <1>1, <3>1
    <3>7. fcs' = IF 0 < Size(c) THEN Sum(c, (k + 1) - Lead) ELSE FcsOf(c)
      BY <1>3, <3>4, <3>6, SumFacts
    <3>8. state' = Expected(c, 0)
      BY <1>3, <3>4, ExpectedFacts
    <3>9. 0 < Size(c) + 2 /\ 0 \in 0 .. Size(c) + 1
      BY <1>3
    <3>10. \A i \in 1 .. 0 : rx_buf'[i + 1] = Bare(c)[i]
      OBVIOUS
    <3>11. saw_escape' => Bare(c)[0 + 1] \in {FLAG, ESCAPE}
      BY <2>3
    <3>12. state' = "IN_BODY" => bytes_rem' = Len(Covered(c)) - ((k + 1) - Lead)
      BY <3>4
    <3> DEFINE z == 0
    <3>13. Within(c, k + 1, z)'
      BY <2>3, <3>3, <3>5, <3>7, <3>8, <3>9, <3>10, <3>11, <3>12 DEF Within
    <3> QED BY <3>9, <3>13 DEF Stage
  <2> QED BY <2>4, <2>5
<1>6. CASE Closing(c, k)
  <2>1. /\ k >= Lead + Len(r) /\ ~saw_escape /\ handled \in {<<c>>, <<handled[1], c>>}
        /\ b = FLAG
    BY <1>1, <1>2, <1>6 DEF Closing
  <2>2. Fresh' /\ handled' = handled
    BY <2>1, FlagStep
  <2>3. k + 1 >= Lead + Len(r)
    BY <1>1, <1>2, <2>1
  <2>4. ~saw_escape'
    BY <2>2 DEF Fresh
  <2>5. Closing(c, k + 1)'
    BY <2>1, <2>2, <2>3, <2>4 DEF Closing
  <2> QED BY <2>5 DEF Stage
<1>7. ASSUME NEW n \in 0 .. Size(c) + 1, Within(c, k, n) PROVE Stage(c, k + 1)'
  <2> DEFINE u == Upto(c, n + 1)
             x == Bare(c)[n + 1]
             j == k - Lead
  <2>1. n \in Nat /\ n + 1 <= Size(c) + 2
    BY <1>3, <1>7
  <2>2. /\ Upto(c, n) \in Nat /\ u \in Nat /\ u <= Len(r) /\ k + 1 <= Lead + u
        /\ k = Lead + Upto(c, n) + (IF saw_escape THEN 1 ELSE 0)
        /\ k + 1 = Lead + u <=> saw_escape \/ x \notin {FLAG, ESCAPE}
        /\ r[j + 1] = IF k + 1 = Lead + u THEN x ELSE ESCAPE
    BY <1>7, <2>1, WithinFacts
  <2>3. j \in Nat /\ j < Len(r) /\ k = Lead + j
    <3> DEFINE v == Upto(c, n)
               o == IF saw_escape THEN 1 ELSE 0
               N == Len(r)
    <3>1. /\ v \in Nat /\ u \in Nat /\ u <= N /\ N \in Nat /\ o \in {0, 1}
          /\ k + 1 <= Lead + u /\ k = Lead + v + o /\ Lead \in Nat
      BY <1>1, <1>2, <2>2
    <3> HIDE DEF u, v, o, N
    <3>2. k - Lead \in Nat /\ k - Lead < N /\ k = Lead + (k - Lead)
      BY <3>1
    <3> QED BY <3>2 DEF N
  <2>4. b = r[j + 1]
    <3> HIDE DEF j, b, r
    <3>1. Sent(c)[(Lead + j) + 1] = r[j + 1]
      BY <1>1, <2>3
    <3> QED BY <2>3, <3>1 DEF b
  <2>5. x \in Nat
    <3>1. Bare(c) \in Seq(Nat) /\ Len(Bare(c)) = Size(c) + 2
      BY BareFacts
    <3>2. n + 1 \in 1 .. Len(Bare(c))
      BY <2>1, <3>1
    <3> QED BY <3>1, <3>2, ElementOfSeq
  <2>6. CASE k + 1 = Lead + u
    <3>1. b = x /\ (b \in {FLAG, ESCAPE} => saw_escape)
      BY <2>2, <2>4, <2>6
    <3>2. CASE n + 1 < Size(c) + 2
      <4>1. Within(c, k + 1, n + 1)'
        BY <1>7, <2>1, <2>5, <3>1, <3>2, InnerByte
      <4>2. n + 1 \in 0 .. Size(c) + 1
        BY <1>3, <2>1, <3>2
      <4> QED BY <4>1, <4>2 DEF Stage
    <3>3. CASE n + 1 = Size(c) + 2
      <4>1. Closing(c, k + 1)'
        BY <1>7, <2>1, <2>5, <3>1, <3>3, LastByte
      <4> QED BY <4>1 DEF Stage
    <3> QED BY <1>3, <2>1, <3>2, <3>3
  <2>7. CASE k + 1 # Lead + u
    <3>1. b = ESCAPE /\ ~saw_escape /\ x \in {FLAG, ESCAPE}
      BY <2>2, <2>4, <2>7
    <3>2. Within(c, k + 1, n)'
      BY <1>7, <2>1, <3>1, EscapeStep
    <3> QED BY <3>2 DEF Stage
  <2> QED BY <2>6, <2>7
<1> QED BY <1>4, <1>5, <1>6, <1>7 DEF Stage

\* At first nothing is under way.
LEMMA InitLink == Init => LinkInv
<1> SUFFICES ASSUME Init PROVE LinkInv
  OBVIOUS
<1>1. hits \in Nat /\ command = Idle
  BY DEF Init
<1>2. state = "IDLE" /\ saw_escape \in BOOLEAN
  BY DEF Init, P!Init
<1> QED BY <1>1, <1>2 DEF LinkInv, ParserInv

\* A byte delivered as it was sent moves the parser on.
LEMMA DeliverInv ==
    ASSUME LinkInv, Deliver
    PROVE  LinkInv'
<1>1. /\ wire # << >> /\ Receive(Head(wire)) /\ wire' = Tail(wire)
      /\ command' = command /\ hits' = hits
  BY DEF Deliver
<1>2. ParserInv'
  BY <1>1, ParserStep DEF LinkInv, Receive
<1>3. ASSUME command' # Idle, hits' = 0
      PROVE  /\ command' \in Commands
             /\ \E k \in 0 .. Len(Sent(command')) : Rest(command, k)' /\ Stage(command, k)'
  <2>1. command \in Commands
    BY <1>1, <1>3 DEF LinkInv
  <2>2. PICK c \in Commands : c = command
    BY <2>1
  <2>3. PICK k \in 0 .. Len(Sent(c)) : Rest(c, k) /\ Stage(c, k)
    BY <1>1, <1>3, <2>2 DEF LinkInv
  <2> DEFINE N == Len(Sent(c))
             s == Sent(c)
  <2>4. N \in Nat
    BY SentFacts DEF Flagged
  <2>5. /\ wire \in Seq(Nat) /\ Len(wire) = N - k
        /\ \A i \in 1 .. Len(wire) : wire[i] = s[k + i]
    BY <2>3 DEF Rest
  <2> HIDE DEF N, s
  <2>6. /\ Head(wire) = wire[1] /\ Tail(wire) \in Seq(Nat) /\ Len(Tail(wire)) = Len(wire) - 1
        /\ \A i \in 1 .. Len(Tail(wire)) : Tail(wire)[i] = wire[i + 1]
    BY <1>1, <2>5, HeadTailProperties
  <2>7. Len(wire) \in Nat /\ Len(wire) >= 1
    BY <1>1, <2>5, EmptySeq, LenProperties
  <2>8. k \in Nat /\ k < N /\ k + 1 \in 0 .. N
    BY <2>3, <2>4, <2>5, <2>7 DEF N
  <2>9. Head(wire) = s[k + 1]
    BY <2>5, <2>6, <2>7
  <2>10. Stage(c, k + 1)'
    <3>1. Receive(Sent(c)[k + 1])
      BY <1>1, <2>9 DEF s
    <3>2. ParserInv
      BY DEF LinkInv
    <3> QED BY <2>3, <2>8, <3>1, <3>2, DeliverStage DEF N
  <2>11. ASSUME NEW i \in 1 .. Len(wire') PROVE wire'[i] = s[(k + 1) + i]
    <3> DEFINE j == i + 1
    <3>1. j \in 1 .. Len(wire) /\ k + j = (k + 1) + i
      BY <1>1, <2>6, <2>7, <2>8
    <3> HIDE DEF j
    <3>2. wire[j] = s[(k + 1) + i]
      BY <2>5, <3>1
    <3> QED BY <1>1, <2>6, <3>2 DEF j
  <2>12. Len(wire') = N - (k + 1)
    BY <1>1, <2>4, <2>5, <2>6, <2>8
  <2>13. Rest(c, k + 1)'
    BY <1>1, <2>6, <2>11, <2>12 DEF Rest, N, s
  <2>14. command' = c
    BY <1>1, <2>2
  <2> QED BY <2>8, <2>10, <2>13, <2>14 DEF N
<1> QED BY <1>1, <1>2, <1>3 DEF LinkInv

\* A new poll begins with nothing delivered.
LEMMA SendInv ==
    ASSUME LinkInv, PollSend
    PROVE  LinkInv'
<1>1. PICK c \in Commands : wire' = Sent(c) /\ command' = c
  BY DEF PollSend, Sent
<1>2. hits' = 0 /\ handled' = << >> /\ UNCHANGED parser
  BY DEF PollSend
<1>3. ParserInv'
  BY <1>2 DEF LinkInv, ParserInv, parser
<1>4. Sent(c) \in Seq(Nat) /\ Len(Sent(c)) \in Nat
  BY SentFacts DEF Flagged
<1> DEFINE z == 0
<1>5. Rest(c, z)'
  BY <1>1, <1>4 DEF Rest
<1>6. Stage(c, z)'
  BY <1>2 DEF Stage, Silent
<1>7. z \in 0 .. Len(Sent(c))
  BY <1>4
<1>8. hits' \in Nat
  BY <1>2
<1> QED BY <1>1, <1>3, <1>5, <1>6, <1>7, <1>8 DEF LinkInv

\* What the line does to a command makes no promise, but keeps the parser sane.
LEMMA HitInv ==
    ASSUME LinkInv, PollIdle \/ Lose \/ Garble \/ Invent
    PROVE  LinkInv'
<1>1. CASE PollIdle
  <2>1. hits' = 0 /\ command' = Idle /\ UNCHANGED parser
    BY <1>1 DEF PollIdle
  <2>2. ParserInv'
    BY <2>1 DEF LinkInv, ParserInv, parser
  <2> QED BY <2>1, <2>2 DEF LinkInv
<1>2. CASE Lose \/ Garble \/ Invent
  <2>1. hits' = hits + 1
    BY <1>2 DEF Lose, Garble, Invent, Hit
  <2>2. hits' \in Nat /\ hits' # 0
    BY <2>1 DEF LinkInv
  <2>3. ParserInv'
    <3>1. CASE Lose
      BY <3>1 DEF Lose, LinkInv, ParserInv, parser
    <3>2. CASE Garble \/ Invent
      <4>1. PICK b \in Bytes : P!packet_rx_byte(b)
        BY <3>2 DEF Garble, Invent, Receive
      <4> QED BY <4>1, ParserStep DEF LinkInv
    <3> QED BY <1>2, <3>1, <3>2
  <2> QED BY <2>2, <2>3 DEF LinkInv
<1> QED BY <1>1, <1>2

\* Every step keeps the invariant.
LEMMA NextLink == LinkInv /\ [Next]_vars => LinkInv'
<1> SUFFICES ASSUME LinkInv, [Next]_vars PROVE LinkInv'
  OBVIOUS
<1>1. CASE UNCHANGED vars
  BY <1>1 DEF vars, parser, LinkInv, ParserInv, Rest, Stage, Silent, Opening, Within, Closing,
              Fresh, AtMostOne
<1>2. CASE Next
  BY <1>2, DeliverInv, SendInv, HitInv DEF Next
<1> QED BY <1>1, <1>2

\* Behind the frame's last flag the parser is through with it.
LEMMA FrameIsThrough ==
    ASSUME NEW c \in Commands, NEW k \in Nat, Stage(c, k), k > Lead + Len(Raw(c))
    PROVE  handled # << >> /\ handled[Len(handled)] = c /\ Len(handled) <= 2
<1>1. Lead \in Nat /\ Lead >= 2 /\ Len(Raw(c)) \in Nat
  BY SentFacts, RawFacts DEF Flagged
<1>2. ~Silent(k) /\ ~Opening(k)
  BY <1>1 DEF Silent, Opening
<1>3. ASSUME NEW n \in 0 .. Size(c) + 1, Within(c, k, n) PROVE FALSE
  <2>1. n \in Nat
    OBVIOUS
  <2> DEFINE u == Upto(c, n + 1)
  <2>2. u <= Len(Raw(c)) /\ u \in Nat /\ k + 1 <= Lead + u
    BY <1>3, <2>1, WithinFacts
  <2> HIDE DEF u
  <2> QED BY <1>1, <2>2
<1>4. Closing(c, k)
  BY <1>2, <1>3 DEF Stage
<1>5. handled \in {<<c>>, <<handled[1], c>>}
  BY <1>4 DEF Closing
<1>6. CASE handled = <<c>>
  BY <1>6
<1>7. CASE handled = <<handled[1], c>>
  <2> DEFINE x == handled[1]
  <2>1. handled = <<x, c>>
    BY <1>7
  <2> HIDE DEF x
  <2>2. Len(handled) = 2 /\ handled[2] = c /\ handled # << >>
    BY <2>1
  <2> QED BY <2>2
<1> QED BY <1>5, <1>6, <1>7

\* The end of the wire is the end of the frame.
LEMMA LinkImplies == LinkInv => UntouchedIsObeyed
<1> SUFFICES ASSUME LinkInv, wire = << >>, command # Idle, hits = 0
             PROVE  /\ handled # << >> /\ handled[Len(handled)] = command
                    /\ Len(handled) <= 2
  BY DEF UntouchedIsObeyed
<1>1. PICK c \in Commands : c = command
  BY DEF LinkInv
<1>2. PICK k \in 0 .. Len(Sent(c)) : Rest(c, k) /\ Stage(c, k)
  BY <1>1 DEF LinkInv
<1>3. Len(Sent(c)) \in Nat /\ Len(Sent(c)) > Lead + Len(Raw(c))
  BY SentFacts DEF Flagged
<1>4. k = Len(Sent(c)) /\ k \in Nat
  <2>1. Len(wire) = 0 /\ Len(wire) = Len(Sent(c)) - k
    BY <1>2 DEF Rest
  <2> QED BY <1>2, <1>3, <2>1
<1> QED BY <1>1, <1>2, <1>3, <1>4, FrameIsThrough

\* A padded poll is as long as its flags, its frame and its padding.
LEMMA PaddedLength ==
    ASSUME NEW c \in Commands,
           Len(Framer_frame(c.payload, c.address, c.control)) % Padding # 0
    PROVE  Len(Sent(c)) = Lead + Len(Raw(c)) + 1 + Padding
<1> DEFINE r == Raw(c)
           h == Framer_frame(c.payload, c.address, c.control)
           a == Run(Preamble)
           z == Run(Padding)
<1>1. /\ r \in Seq(Nat) /\ FLAG \in Nat /\ h = (<<FLAG>> \o r) \o <<FLAG>>
      /\ a \in Seq(Nat) /\ Len(a) = Preamble /\ z \in Seq(Nat) /\ Len(z) = Padding
      /\ Preamble \in Nat /\ Padding \in Nat
  <2>1. r \in Seq(Nat) /\ h = (<<FLAG>> \o r) \o <<FLAG>>  BY RawFacts
  <2>2. Preamble \in Nat /\ Padding \in Nat  BY PollAssumption
  <2>3. FLAG \in Nat  BY HdlcAssumption DEF Bytes
  <2>4. a \in Seq(Nat) /\ Len(a) = Preamble  BY <2>2, RunFacts
  <2>5. z \in Seq(Nat) /\ Len(z) = Padding  BY <2>2, RunFacts
  <2> QED BY <2>1, <2>2, <2>3, <2>4, <2>5
<1>2. Sent(c) = (a \o h) \o z
  BY DEF Sent, Written
<1> HIDE DEF r, h, a, z
<1>3. h \in Seq(Nat) /\ Len(h) = Len(r) + 2 /\ Len(r) \in Nat
  BY <1>1
<1>4. Len((a \o h) \o z) = Len(a) + Len(h) + Len(z)
  <2>1. a \in Seq(Nat) /\ h \in Seq(Nat) /\ z \in Seq(Nat)
    BY <1>1, <1>3
  <2> QED BY <2>1
<1> QED BY <1>1, <1>2, <1>3, <1>4 DEF r, Lead

\* Before the padding has come the command is obeyed.
LEMMA LinkPads == LinkInv => PaddedIsPrompt
<1> SUFFICES ASSUME LinkInv, command # Idle, hits = 0, Len(wire) <= Padding,
                    Len(Framer_frame(command.payload, command.address, command.control))
                        % Padding # 0
             PROVE  handled # << >> /\ handled[Len(handled)] = command
  BY DEF PaddedIsPrompt
<1>1. PICK c \in Commands : c = command
  BY DEF LinkInv
<1>2. PICK k \in 0 .. Len(Sent(c)) : Rest(c, k) /\ Stage(c, k)
  BY <1>1 DEF LinkInv
<1>3. Len(Sent(c)) = Lead + Len(Raw(c)) + 1 + Padding
  BY <1>1, PaddedLength
<1>4. Lead \in Nat /\ Len(Raw(c)) \in Nat /\ Padding \in Nat
  BY SentFacts, PollAssumption DEF Flagged
<1>5. Len(wire) = Len(Sent(c)) - k
  BY <1>2 DEF Rest
<1>6. k \in Nat /\ k > Lead + Len(Raw(c))
  BY <1>2, <1>3, <1>4, <1>5
<1> QED BY <1>1, <1>2, <1>6, FrameIsThrough

\* The invariant holds throughout.
LEMMA LinkInvariance == Spec => []LinkInv
BY InitLink, NextLink, PTL DEF Spec

\* Whatever noise the parser has swallowed before, a command that the line does
\* not touch is obeyed as it was meant, for any commands within the limit, any
\* checksum and any number of errors in the commands before it: the second flag
\* of the preamble leaves packet_rx_byte at the beginning of a frame, and
\* Framer.frame's escapes, length and checksum are those it expects.
THEOREM UntouchedObeyed == Spec => []UntouchedIsObeyed
BY LinkInvariance, LinkImplies, PTL

\* A command followed by padding is obeyed before the parser has any of the padding: with
\* LessThanTwoHalvesBehind (SerialRx), as soon as main() has emptied serbuf.
THEOREM PaddedObeyed == Spec => []PaddedIsPrompt
BY LinkInvariance, LinkPads, PTL

===========================================================================
