--------------------------- MODULE CommandLink ---------------------------
(* The commands' way: ArgaliTarget.poll (argali_target.py) writes frames to    *)
(* the serial line, the line loses, garbles and makes up bytes, and            *)
(* packet_rx_byte hands what it makes of it to eol_command_handle.             *)
EXTENDS Framing

CONSTANTS PACKET_MAX_PAYLOAD_LENGTH, RX_BUF_LEN,
          Commands,         \* records [payload, address, control] a user enqueues
          Preamble,         \* flags written before a frame (3)
          Padding,          \* flags written after it (8), unless its length is
                            \* a multiple of Padding
          MAX_HITS,         \* how often the line may misbehave in a poll with a command,
          MAX_IDLE_HITS     \* and in one that has none

VARIABLES state, saw_escape, bytes_rem, fcs, rx_buf, report,   \* the parser
          wire,      \* what the present poll has yet to get through
          command,   \* the command it sends, or Idle
          hits,      \* how often the line has misbehaved in it
          handled    \* the commands the target has obeyed since it began

parser == <<state, saw_escape, bytes_rem, fcs, rx_buf, report>>
vars   == <<parser, wire, command, hits, handled>>

P == INSTANCE PacketParser

\* A dangling escape takes the first flag of a poll with it.
ASSUME PollAssumption == Preamble \in Nat \ {0} /\ Padding \in Nat \ {0}

\* Every command is one the target's limit allows, escapes included, and whose
\* length fits the two bytes there are for it.
ASSUME CommandsAssumption ==
    /\ PACKET_MAX_PAYLOAD_LENGTH \in Nat
    /\ PACKET_MAX_PAYLOAD_LENGTH < ByteMod * ByteMod
    /\ \A c \in Commands :
         /\ c \in [payload : Seq(Bytes), address : Bytes, control : Bytes]
         /\ Len(EscapeAll(c.payload)) <= PACKET_MAX_PAYLOAD_LENGTH

Idle == [idle |-> TRUE]

---------------------------------------------------------------------------

\* Mutant: the flags are written where the comparison was to spare them.
PadsMultiples(f) == Run(Preamble) \o f \o (IF Len(f) % Padding = 0 THEN Run(Padding) ELSE << >>)

\* What poll() writes for the frame f.
Written(f) == Run(Preamble) \o f \o (IF Len(f) % Padding = 0 THEN << >> ELSE Run(Padding))

\* poll() with nothing pending writes a flag.
PollIdle ==
    /\ wire = << >>
    /\ wire' = Run(1) /\ command' = Idle /\ hits' = 0 /\ handled' = << >>
    /\ UNCHANGED parser

PollSend ==
    /\ wire = << >>
    /\ \E c \in Commands :
         /\ wire' = Written(Framer_frame(c.payload, c.address, c.control))
         /\ command' = c
    /\ hits' = 0 /\ handled' = << >>
    /\ UNCHANGED parser

\* eol_command_handle, called with fcs_match or not: it obeys only the former.
eol_command_handle ==
    handled' = IF report'.to = "handler" /\ report'.match
               THEN Append(handled, [payload |-> report'.payload,
                                     address |-> report'.addr, control |-> report'.control])
               ELSE handled

Receive(c) == P!packet_rx_byte(c) /\ eol_command_handle

\* The line at its best, and its ways to misbehave.
Deliver ==
    /\ wire # << >>
    /\ Receive(Head(wire))
    /\ wire' = Tail(wire)
    /\ UNCHANGED <<command, hits>>

Hit ==
    /\ wire # << >> /\ hits < (IF command = Idle THEN MAX_IDLE_HITS ELSE MAX_HITS)
    /\ hits' = hits + 1 /\ UNCHANGED command

Lose    == Hit /\ wire' = Tail(wire) /\ UNCHANGED <<parser, handled>>
Garble  == Hit /\ wire' = Tail(wire) /\ \E c \in Bytes \ {Head(wire)} : Receive(c)
Invent  == Hit /\ wire' = wire /\ \E c \in Bytes : Receive(c)

Init ==
    /\ P!Init
    /\ wire = << >> /\ command = Idle /\ hits = 0 /\ handled = << >>

Next == PollIdle \/ PollSend \/ Deliver \/ Lose \/ Garble \/ Invent

\* poll() is called again and again, and the line carries what is written.
Spec == Init /\ [][Next]_vars

---------------------------------------------------------------------------

\* A command that gets through the line untouched is obeyed, once and as it was
\* meant, in whatever state earlier noise has left the parser (a dangling
\* escape, a wrapped counter, half a frame): the flags before it resynchronize
\* the parser, whatever bytes the command is made of.  At most one other is
\* obeyed before it: an earlier command whose last bytes were lost behind their
\* escape, which the first of these flags completes.
UntouchedIsObeyed ==
    wire = << >> /\ command # Idle /\ hits = 0 =>
        /\ handled # << >> /\ handled[Len(handled)] = command
        /\ Len(handled) <= 2

\* Padding is what the way to the parser holds back (SerialRx: less than two halves
\* of four bytes, until more bytes come), so that a padded command is obeyed when the
\* parser has not seen the last Padding bytes of its poll.  A frame of a multiple
\* of Padding gets none, and may have to wait for the flags of six more polls.
PaddedIsPrompt ==
    /\ command # Idle /\ hits = 0 /\ Len(wire) <= Padding
    /\ Len(Framer_frame(command.payload, command.address, command.control)) % Padding # 0
    => handled # << >> /\ handled[Len(handled)] = command

===========================================================================
