-------------------------- MODULE TelemetryLink --------------------------
(* The target's way back: logline, xmit_buf and the rest call packet_send      *)
(* (packet.c) both from main() and from interrupt handlers, and the tether's   *)
(* Deframer (arghdlc.py) takes the resulting bytes apart.  Nothing excludes    *)
(* two calls: an ISR's packet lands wherever main's happened to be.  An        *)
(* exception out of the Deframer goes through poll() and ends the script; it   *)
(* is started again whenever its user likes, with a new Deframer.              *)
EXTENDS Framing, Deframer

CONSTANTS Packets,      \* records [payload, address, command] that main sends
          IsrPackets    \* and those that interrupt handlers send

\* A flag that is taken for an escaped byte leaves another.
ASSUME FlagRunAssumption == FlagRun \in Nat \ {0}

VARIABLES main, isr,                \* what each call of packet_send has yet to send
          mainPacket, isrPacket,    \* the packets they send, or Nobody
          cut, isrCut,              \* was the packet interrupted, or the script down?
          last,                     \* the last frame delivered since a call began
          up,                       \* the script runs
          torn                      \* some packet was cut, or the script began inside one

vars == <<deframer, main, isr, mainPacket, isrPacket, cut, isrCut, last, up, torn>>

Nobody == [nobody |-> TRUE]

---------------------------------------------------------------------------

Sent(p) == packet_send(p.payload, p.address, p.command)

Raises == got.what \in {TooLong.what, Raised.what}

\* poll() hands a byte to the Deframer, and frame_cb gets what comes out; bytes
\* that arrive while no script runs are lost.
Receive(b) ==
    \/ /\ up
       /\ rx_byte(b)
       /\ up' = ~Raises'
       /\ last' = IF got'.what = "frame"
                  THEN [payload |-> got'.payload, address |-> got'.address,
                        command |-> got'.control]
                  ELSE last
    \/ ~up /\ UNCHANGED <<deframer, last, up>>

MainCalls ==
    /\ main = << >> /\ isr = << >>
    /\ \E p \in Packets : mainPacket' = p /\ main' = Sent(p)
    /\ isrPacket' = Nobody
    /\ cut' = ~up /\ last' = Nobody
    /\ UNCHANGED <<deframer, isr, isrCut, up, torn>>

\* console_send_blocking
MainSends ==
    /\ main # << >> /\ isr = << >>
    /\ Receive(Head(main))
    /\ main' = Tail(main)
    /\ isrPacket' = Nobody
    /\ cut' = (cut \/ ~up')
    /\ UNCHANGED <<isr, mainPacket, isrCut, torn>>

\* An interrupt between any two bytes of main's, or between two of its calls.
Interrupt ==
    /\ isr = << >>
    /\ \E p \in IsrPackets : isrPacket' = p /\ isr' = Sent(p)
    /\ cut' = TRUE /\ isrCut' = ~up /\ last' = Nobody
    /\ torn' = (torn \/ main # << >>)
    /\ UNCHANGED <<deframer, main, mainPacket, up>>

IsrSends ==
    /\ isr # << >>
    /\ Receive(Head(isr))
    /\ isr' = Tail(isr)
    /\ isrCut' = (isrCut \/ ~up')
    /\ UNCHANGED <<main, mainPacket, isrPacket, cut, torn>>

\* main was interrupted after it had seen the transmitter ready: its next byte
\* overwrites the ISR's last one, which is still waiting.
Overwritten ==
    /\ Len(isr) = 1 /\ main # << >>
    /\ isr' = << >>
    /\ UNCHANGED <<deframer, main, mainPacket, isrPacket, cut, isrCut, last, up, torn>>

\* Deframer.__init__ in a new process
NewDeframer ==
    /\ state' = "IDLE" /\ saw_escape' = FALSE
    /\ cur_addr' = 0 /\ cur_control' = 0 /\ cur_len' = 0 /\ body_rem' = 0
    /\ accumulator' = << >> /\ got' = Nothing

\* The user stops the script; what arrives before the next one begins is lost.
Killed ==
    /\ up
    /\ up' = FALSE /\ cut' = TRUE /\ isrCut' = TRUE /\ last' = Nobody
    /\ NewDeframer
    /\ isrPacket' = Nobody
    /\ UNCHANGED <<main, isr, mainPacket, torn>>

\* ArgaliTarget.__init__, in the middle of whatever the target is sending
Restarted ==
    /\ ~up
    /\ up' = TRUE
    /\ NewDeframer
    /\ torn' = (torn \/ main # << >> \/ isr # << >>)
    /\ UNCHANGED <<main, isr, mainPacket, isrPacket, cut, isrCut, last>>

Init ==
    /\ DeframerInit
    /\ main = << >> /\ isr = << >>
    /\ mainPacket = Nobody /\ isrPacket = Nobody
    /\ cut = FALSE /\ isrCut = FALSE /\ last = Nobody
    /\ up = TRUE /\ torn = FALSE

Next ==
    \/ MainCalls \/ MainSends \/ Interrupt \/ IsrSends \/ Overwritten
    \/ Killed \/ Restarted

Spec == Init /\ [][Next]_vars

---------------------------------------------------------------------------

\* The payload with its escapes, and the checksum of as much as packet_frame covers.
Stuffed(p) == EscapeAll(p.payload)
FcsOf(p)   == packet_fcs(SubSeq(EscapeAll(<<p.address, p.command>>) \o LengthOver(Stuffed(p)),
                                1, Len(Stuffed(p)) + 4))

\* The packets on which packet_frame and the Deframer agree: a length and a first
\* byte of a checksum that need no escape, and an address that is not a flag.
LengthIsPlain(p) ==
    /\ Len(Stuffed(p)) < ByteMod * ByteMod
    /\ HighByte(Len(Stuffed(p))) \notin {FLAG, ESCAPE}
    /\ LowByte(Len(Stuffed(p))) \notin {FLAG, ESCAPE}

SumIsPlain(p) == HighByte(FcsOf(p)) \notin {FLAG, ESCAPE}

Sound(p) ==
    /\ p \in [payload : Seq(Bytes), address : Bytes, command : Bytes]
    /\ p.address # FLAG
    /\ LengthIsPlain(p) /\ SumIsPlain(p)

---------------------------------------------------------------------------

\* A packet sent by an ISR arrives, whatever it interrupted and wherever: in the
\* middle of an escape, of a length, of a checksum.  Only the script's end, by
\* its user or by an exception, loses it.
PreemptorArrives == isr = << >> /\ isrPacket # Nobody /\ ~isrCut => last = isrPacket

\* A packet that is not interrupted arrives, whatever was cut short before it and
\* wherever in the stream the script began.
UncutArrives == main = << >> /\ mainPacket # Nobody /\ ~cut => last = mainPacket

\* The script is never ended by a packet that came through whole: before every
\* exception out of poll() a packet was cut, or the script began inside one.
ExceptionsNeedATear == Raises => torn

===========================================================================
