----------------------------- MODULE Deframer -----------------------------
(* Deframer.rx_byte of argali_tether/argali_tether/arghdlc.py: the tether's    *)
(* parser of everything the target sends.  It does not look at the checksum.   *)
EXTENDS Hdlc, Integers, Sequences

CONSTANTS MAX_PACKET_LEN,       \* 1500
          cb_raises(_, _)       \* does cb raise on this address and payload?

ASSUME MaxPacketAssumption == MAX_PACKET_LEN \in Nat

VARIABLES state, saw_escape, cur_addr, cur_control, cur_len, body_rem, accumulator,
          got       \* what the last byte did: a frame for cb, or an exception

deframer == <<state, saw_escape, cur_addr, cur_control, cur_len, body_rem, accumulator, got>>

States == {"IDLE", "WAIT_ADDR", "WAIT_CONTROL", "WAIT_LEN_HI", "WAIT_LEN_LO", "IN_BODY",
           "WAIT_CKSUM_LO"}

Nothing  == [what |-> "nothing"]
TooLong  == [what |-> "ValueError"]
Raised   == [what |-> "cb raised"]
Frame(a, c, p) == [what |-> "frame", address |-> a, control |-> c, payload |-> p]

---------------------------------------------------------------------------

\* _reset_state: the fields that are None again are left out, as each is set
\* again before it is used.
Reset ==
    /\ saw_escape' = FALSE
    /\ accumulator' = << >>
    /\ UNCHANGED <<cur_addr, cur_control, cur_len, body_rem>>

\* Mutant: an escape is taken off together with the byte it escapes.
LessTwo(n) == n - 2

\* body_rem -= 1; every negative value means the same, and -1 stands for it.
Less(n) == IF n < 0 THEN n ELSE n - 1

EscapeFound(b) ==
    /\ ~saw_escape /\ b = ESCAPE
    /\ saw_escape' = TRUE
    /\ body_rem' = IF state = "IN_BODY" THEN Less(body_rem) ELSE body_rem
    /\ got' = Nothing
    /\ UNCHANGED <<state, cur_addr, cur_control, cur_len, accumulator>>

\* Mutant: what has accumulated of the interrupted packet stays.
KeepsAccumulator(b) ==
    /\ ~saw_escape /\ b = FLAG /\ state \notin {"IDLE", "WAIT_ADDR"}
    /\ state' = "WAIT_ADDR" /\ saw_escape' = FALSE
    /\ got' = Nothing
    /\ UNCHANGED <<cur_addr, cur_control, cur_len, body_rem, accumulator>>

\* An unescaped flag ends whatever packet it interrupts.
Interrupted(b) ==
    /\ ~saw_escape /\ b = FLAG /\ state \notin {"IDLE", "WAIT_ADDR"}
    /\ state' = "WAIT_ADDR"
    /\ Reset
    /\ got' = Nothing

\* All other bytes clear saw_escape.
Plain(b) ==
    /\ saw_escape \/ b \notin {FLAG, ESCAPE} \/ (b = FLAG /\ state \in {"IDLE", "WAIT_ADDR"})
    /\ saw_escape' = FALSE

Idle(b) ==
    /\ Plain(b) /\ state = "IDLE"
    /\ state' = IF b = FLAG THEN "WAIT_ADDR" ELSE "IDLE"
    /\ got' = Nothing
    /\ UNCHANGED <<cur_addr, cur_control, cur_len, body_rem, accumulator>>

\* Here even an escaped flag is an idle one.
Address(b) ==
    /\ Plain(b) /\ state = "WAIT_ADDR"
    /\ IF b = FLAG THEN UNCHANGED <<state, cur_addr>>
       ELSE state' = "WAIT_CONTROL" /\ cur_addr' = b
    /\ got' = Nothing
    /\ UNCHANGED <<cur_control, cur_len, body_rem, accumulator>>

Control(b) ==
    /\ Plain(b) /\ state = "WAIT_CONTROL"
    /\ state' = "WAIT_LEN_HI" /\ cur_control' = b
    /\ got' = Nothing
    /\ UNCHANGED <<cur_addr, cur_len, body_rem, accumulator>>

LengthHi(b) ==
    /\ Plain(b) /\ state = "WAIT_LEN_HI"
    /\ state' = "WAIT_LEN_LO" /\ cur_len' = b * ByteMod
    /\ got' = Nothing
    /\ UNCHANGED <<cur_addr, cur_control, body_rem, accumulator>>

\* Mutant: the limit itself is refused.
RefusesLimit(b) ==
    /\ Plain(b) /\ state = "WAIT_LEN_LO"
    /\ cur_len' = cur_len + b /\ body_rem' = cur_len + b
    /\ IF cur_len + b >= MAX_PACKET_LEN THEN state' = "IDLE" /\ got' = TooLong
       ELSE state' = "IN_BODY" /\ got' = Nothing
    /\ UNCHANGED <<cur_addr, cur_control, accumulator>>

\* Of a packet that is too long the fields are left as they are.
LengthLo(b) ==
    /\ Plain(b) /\ state = "WAIT_LEN_LO"
    /\ cur_len' = cur_len + b /\ body_rem' = cur_len + b
    /\ IF cur_len + b > MAX_PACKET_LEN THEN state' = "IDLE" /\ got' = TooLong
       ELSE state' = "IN_BODY" /\ got' = Nothing
    /\ UNCHANGED <<cur_addr, cur_control, accumulator>>

\* In the body; once body_rem is 0 the next byte is the checksum's first, and
\* below 0 nothing matches.
Body(b) ==
    /\ Plain(b) /\ state = "IN_BODY"
    /\ \/ /\ body_rem > 0
          /\ body_rem' = body_rem - 1 /\ accumulator' = Append(accumulator, b)
          /\ UNCHANGED state
       \/ body_rem = 0 /\ state' = "WAIT_CKSUM_LO" /\ UNCHANGED <<body_rem, accumulator>>
       \/ body_rem < 0 /\ UNCHANGED <<state, body_rem, accumulator>>
    /\ got' = Nothing
    /\ UNCHANGED <<cur_addr, cur_control, cur_len>>

\* The frame is handed to cb.  Where cb raises, nothing after it is done: the
\* frame is still there, and the next byte would deliver it again.
Checksum(b) ==
    /\ Plain(b) /\ state = "WAIT_CKSUM_LO"
    /\ \/ /\ ~cb_raises(cur_addr, accumulator)
          /\ got' = Frame(cur_addr, cur_control, accumulator)
          /\ state' = "IDLE"
          /\ Reset
       \/ /\ cb_raises(cur_addr, accumulator)
          /\ got' = Raised
          /\ UNCHANGED <<state, cur_addr, cur_control, cur_len, body_rem, accumulator>>

rx_byte(b) ==
    \/ EscapeFound(b) \/ Interrupted(b) \/ Idle(b) \/ Address(b) \/ Control(b)
    \/ LengthHi(b) \/ LengthLo(b) \/ Body(b) \/ Checksum(b)

DeframerInit ==
    /\ state = "IDLE" /\ saw_escape = FALSE
    /\ cur_addr = 0 /\ cur_control = 0 /\ cur_len = 0 /\ body_rem = 0
    /\ accumulator = << >> /\ got = Nothing

DeframerNext == \E b \in Bytes : rx_byte(b)

DeframerSpec == DeframerInit /\ [][DeframerNext]_deframer

---------------------------------------------------------------------------
(* Properties, whatever bytes arrive.                                        *)

\* Every variable of the Deframer keeps its type: body_rem in particular, which
\* an escape, a byte of the body and nothing else may count down.
DeframerTypeOK ==
    /\ state \in States
    /\ saw_escape \in BOOLEAN
    /\ cur_addr \in Bytes /\ cur_control \in Bytes
    /\ cur_len \in Nat
    /\ body_rem \in Nat \cup {-1}
    /\ accumulator \in Seq(Bytes)
    /\ \/ got \in {Nothing, TooLong, Raised}
       \/ /\ got.what = "frame"
          /\ got.address \in Bytes /\ got.control \in Bytes /\ got.payload \in Seq(Bytes)

\* What is accumulated and what is still to come never exceed the length the
\* packet declared, and nothing is carried over from a packet that was
\* interrupted, too long or finished.
AccumulatorFits ==
    /\ state # "IN_BODY" /\ state # "WAIT_CKSUM_LO" => accumulator = << >>
    /\ state = "IN_BODY" => Len(accumulator) + body_rem <= cur_len
    /\ Len(accumulator) <= MAX_PACKET_LEN

===========================================================================
