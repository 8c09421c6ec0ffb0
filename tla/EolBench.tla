---------------------------- MODULE EolBench ----------------------------
(* The end-of-line stand: the board of EolCommands, a line that may lose or   *)
(* damage a message, and the tether's scripts (echo.py, adc_control.py,       *)
(* dac_control.py) or a user of its library, one at a time, which drive an    *)
(* ArgaliTarget by calling poll() until they have what they want or are       *)
(* stopped.                                                                   *)
EXTENDS EolCommands, ArgaliTarget

CONSTANTS AdcRequests,                  \* arguments of adc_control.py
          DacRequests,                  \* and of dac_control.py: [ops, arg]
          EchoContent,
          UserRequests(_),              \* an ArgaliTarget after each call of the user's
          MaxScripts,                   \* bound: scripts started
          MaxTrouble,                   \* bound: losses, damages and steps of a recital
          MaxDown,                      \* bound: requests on the line
          MaxUp                         \* bound: replies on the line when a script starts
                                        \* or gives up an echo

Bytes == 0 .. ByteMod - 1

\* x stands for the letters that neither side knows.
Letters == {"A", "C", "D", "E", "L", "Q", "R", "S", "T", "U", "x", "!"}

Messages == [family : Letters, type : Letters, data : Seq(Int)]

\* What the argument parsers of the scripts let through, and waves that fit the DAC's
\* buffer: the board never checks that they do, and writes past it if they do not.
\* What the scripts pack is checked by pack.  A user of the library can have it send
\* anything but configurations, as the methods for these raise.
ASSUME RequestAssumption ==
    /\ AdcRequests \subseteq [prescaler : Nat, period : Nat, num_points : Nat,
                             sample_width : Nat, sample_time : Nat, channels : Seq(Nat)]
    /\ \A r \in DacRequests :
         /\ r.ops \in (SUBSET {"stop", "configure", "start"}) \ {{}}
         /\ "configure" \in r.ops =>
              /\ r.arg \in [prescaler : Nat, period : Nat, scale : Nat,
                           points_per_wave : Nat, num_waves : Nat, theta0_u8 : Nat]
              /\ (r.arg.points_per_wave * r.arg.num_waves) % WordMod <= DacBufLen
    /\ EchoContent \in Seq(Bytes)
    /\ \A t \in UserRequests(NewTarget) :
         /\ t \in [pending_frames : Seq(Messages), pending_echo : BOOLEAN,
                   pending_dac : BOOLEAN, pending_adc_bytes : {0}, adc_buf : {<< >>},
                   last_echo_sent : {"never", "recent"}, printed : {<< >>}]
         /\ \A i \in DOMAIN t.pending_frames :
              t.pending_frames[i].family \in {"A", "D"} => t.pending_frames[i].type # "C"
    /\ {MaxScripts, MaxTrouble, MaxDown, MaxUp} \subseteq Nat

VARIABLES script,       \* which one runs, or "none"
          tgt,          \* its ArgaliTarget
          todo,         \* the packets dac_control.py has yet to queue
          asked,        \* what the last script was started for
          started,      \* how many there have been
          clean,        \* nothing has come in its way, from before it began
          trouble       \* how often something has

tether == <<script, tgt, todo, asked, started>>
vars == <<boardVars, down, up, tether, clean, trouble>>

---------------------------------------------------------------------------
(* Starting and stopping a script                                            *)

\* Opening the port discards what has been received, but not what is under way.
FindsReplies ==
    \E n \in 0 .. Min2(MaxUp, Len(up)) : up' = SubSeq(up, Len(up) - n + 1, Len(up))

\* A recital may be on, but no capture and no request is left from before.
Quiet ==
    /\ main = Loop /\ ~tcif /\ ~hung /\ down = << >> /\ up = << >>
    /\ stream.on => saved_adc_config.cb = "dtmf_process"

Starts(s, what) ==
    /\ script = "none" /\ started < MaxScripts
    /\ script' = s /\ started' = started + 1
    /\ asked' = what
    /\ FindsReplies
    /\ clean' = (Quiet /\ (s = "dac" => ~sending_digit))
    /\ UNCHANGED <<boardVars, down, trouble>>

EchoStarts ==
    /\ Starts("echo", [kind |-> "echo"])
    /\ tgt' = NewTarget
    /\ UNCHANGED todo

AdcStarts ==
    \E a \in AdcRequests :
        /\ Packable(ADCConfigPacket, a)
        /\ Starts("adc", [kind |-> "adc", arg |-> a])
        /\ tgt' = [queue_packet(NewTarget, ADCConfigPacket, a) EXCEPT
                     !.pending_adc_bytes = a.num_points * a.sample_width * Len(a.channels)]
        /\ UNCHANGED todo

\* --stop, --configure and --start in this order, and the last packet once more.
DacStarts ==
    \E r \in DacRequests :
        LET Packed(op, cls) == IF op \in r.ops THEN <<pack(cls, r.arg)>> ELSE << >>
            all == Packed("stop", DACStopPacket) \o Packed("configure", DACConfigPacket)
                     \o Packed("start", DACStartPacket)
        IN  /\ "configure" \in r.ops => Packable(DACConfigPacket, r.arg)
            /\ Starts("dac", [kind |-> "dac", arg |-> r.arg, ops |-> r.ops])
            /\ todo' = Append(all, Last(all))
            /\ tgt' = NewTarget

UserStarts ==
    \E t \in UserRequests(NewTarget) :
        /\ Starts("user", [kind |-> "user"])
        /\ tgt' = t
        /\ UNCHANGED todo

Ends ==
    /\ script' = "none"
    /\ tgt' = [NewTarget EXCEPT !.printed = tgt.printed]
    /\ UNCHANGED <<boardVars, down, up, asked, started, trouble>>

\* Ctrl-C, or an exception
Killed ==
    /\ script # "none"
    /\ Ends
    /\ todo' = << >>
    /\ clean' = FALSE

---------------------------------------------------------------------------
(* One turn of a script's loop ends in poll(): it reads what has arrived, if  *)
(* anything, and then sends one frame, if there is one.                       *)

Poll(t, arrived) ==
    LET heard == IF arrived THEN frame_cb(t, Head(up)) ELSE t
    IN  /\ arrived => up # << >>
        /\ up' = IF arrived THEN Tail(up) ELSE up
        /\ IF heard.pending_frames = << >> THEN tgt' = heard /\ UNCHANGED down
           ELSE /\ Len(down) < MaxDown
                /\ down' = Append(down, Head(heard.pending_frames))
                /\ tgt' = [heard EXCEPT !.pending_frames = Tail(@)]

EchoPacket == pack(EchoRequestPacket, [content |-> EchoContent])

\* Mutant: an echo that is not answered is waited for without end.
WaitsForEcho(t) ==
    IF pending_input(t) THEN t
    ELSE [enqueue(t, EchoPacket) EXCEPT !.last_echo_sent = "recent", !.pending_echo = TRUE]

\* echo.py: another echo when nothing is pending; one that takes too long is given up.
EchoTurn(t) ==
    IF ~pending_input(t)
    THEN [enqueue(t, EchoPacket) EXCEPT !.last_echo_sent = "recent", !.pending_echo = TRUE]
    ELSE IF t.last_echo_sent = "old"
    THEN [t EXCEPT !.pending_echo = FALSE, !.last_echo_sent = "never"]
    ELSE t

\* time.time() - None
EchoRaises == pending_input(tgt) /\ tgt.last_echo_sent = "never"

Turn(arrived) ==
    /\ \/ script = "echo" /\ ~EchoRaises /\ Poll(EchoTurn(tgt), arrived) /\ UNCHANGED todo
       \/ script = "adc" /\ tgt.pending_adc_bytes > 0 /\ Poll(tgt, arrived) /\ UNCHANGED todo
       \/ script = "user" /\ Poll(tgt, arrived) /\ UNCHANGED todo
       \/ /\ script = "dac" /\ todo # << >>
          /\ Poll(enqueue(tgt, Head(todo)), arrived)
          /\ todo' = Tail(todo)
    /\ UNCHANGED <<boardVars, script, asked, started, clean, trouble>>

Hears == Turn(TRUE)
Turns == Turn(TRUE) \/ Turn(FALSE)

ScriptEnds ==
    /\ \/ script = "adc" /\ tgt.pending_adc_bytes <= 0
       \/ script = "dac" /\ todo = << >>
    /\ Ends
    /\ UNCHANGED <<todo, clean>>

\* Three seconds after an echo was sent
Tick ==
    /\ tgt.last_echo_sent = "recent" /\ Len(up) <= MaxUp
    /\ tgt' = [tgt EXCEPT !.last_echo_sent = "old"]
    /\ UNCHANGED <<boardVars, down, up, script, todo, asked, started, clean, trouble>>

---------------------------------------------------------------------------

Undisturbed(step) == step /\ UNCHANGED <<tether, clean, trouble>>

Disturbed(step) ==
    /\ trouble < MaxTrouble
    /\ step
    /\ trouble' = trouble + 1 /\ clean' = FALSE
    /\ UNCHANGED tether

Lost ==
    /\ \/ down # << >> /\ down' = Tail(down) /\ UNCHANGED up
       \/ up # << >> /\ up' = Tail(up) /\ UNCHANGED down
    /\ UNCHANGED boardVars

Init ==
    /\ BoardInit
    /\ script = "none" /\ tgt = NewTarget /\ todo = << >>
    /\ asked = [kind |-> "none"] /\ started = 0 /\ clean = FALSE /\ trouble = 0

Next ==
    \/ EchoStarts \/ AdcStarts \/ DacStarts \/ UserStarts \/ Killed
    \/ Turns \/ ScriptEnds \/ Tick
    \/ Undisturbed(Handle) \/ Undisturbed(CaptureBegins) \/ Undisturbed(SendDone)
    \/ Undisturbed(Hardware)
    \/ Disturbed(Recital) \/ Disturbed(Lost) \/ Disturbed(FcsMismatch)

\* The loop takes a request; TLC can tell when this is enabled without computing
\* what comes of it.
TakesRequest ==
    /\ Idle /\ down # << >> /\ down' \in {Tail(down), << >>}
    /\ UNCHANGED trouble

\* The loop, its interrupts and a script that has not been stopped go on, and the
\* script reads what has arrived.  Strong fairness where the recital's interrupts
\* disable the loop for a moment, again and again.
Spec ==
    /\ Init /\ [][Next]_vars
    /\ SF_<<down, trouble>>(TakesRequest) /\ SF_vars(Undisturbed(SendDone))
    /\ SF_vars(Undisturbed(CaptureBegins))
    /\ WF_vars(Undisturbed(Sample)) /\ WF_vars(Undisturbed(dma2_stream0_isr))
    /\ WF_vars(Turns) /\ WF_vars(Hears) /\ WF_vars(Tick)

---------------------------------------------------------------------------
(* Properties                                                                *)

TypeOK ==
    /\ Len(eol_adc_buf) = AdcBufLen
    /\ dac.npts \in Nat /\ dac.on \in BOOLEAN
    /\ saved_adc_config.buflen \in 0 .. AdcBufLen
    /\ stream.left \in 0 .. AdcBufLen /\ stream.on \in BOOLEAN /\ take \in 0 .. 1
    /\ stream.left * TransferSize(saved_adc_config) <= AdcBufLen
    /\ main.at \in {"loop", "capture", "xmitbuf", "sending"}
    /\ {tcif, sending_digit, hung, clean} \subseteq BOOLEAN
    /\ script \in {"none", "echo", "adc", "dac", "user"}
    /\ tgt.last_echo_sent \in {"never", "recent", "old"}
    /\ Len(down) <= MaxDown

\* Echo.py never computes with last_echo_sent = None, whatever replies of earlier
\* scripts it is sent, and however it gives echoes up.
EchoNeverRaises == script = "echo" => ~EchoRaises

Capture == clean /\ asked.kind = "adc"

\* The bytes the user asked for; eol_command_handle computes them modulo 2^16.
Wanted == asked.arg.num_points * asked.arg.sample_width * Len(asked.arg.channels)

\* An undisturbed capture of 8 or 16 bit samples shows the user the readings of the
\* channels asked for, in the order they were taken, and nothing else: across the
\* arguments' packing, the DMA's count of transfers, the strides and the tether's
\* buffer.
CaptureExact ==
    Capture /\ tgt.printed # << >> /\ asked.arg.sample_width \in 1 .. 2 =>
        tgt.printed = [p \in 1 .. Wanted |->
            LET conversion == (p - 1) \div asked.arg.sample_width
            IN  Reading(take, asked.arg.channels[(conversion % Len(asked.arg.channels)) + 1], p)]

CaptureOn == Capture /\ script = "adc" /\ Wanted <= AdcBufLen

\* While an undisturbed capture that fits the board's buffer is under way, the tether
\* expects as many bytes as the line holds and the board has yet to send.
PendingMatches ==
    CaptureOn =>
        LET arriving == Len(FlattenSeq([n \in DOMAIN up |-> up[n].data]))
            unsent   == \/ tgt.pending_frames # << >> \/ down # << >> \/ main.at = "capture"
                        \/ stream.on /\ saved_adc_config.cb = "eol_adc_callback"
                        \/ tcif /\ saved_adc_config.cb = "eol_adc_callback"
        IN  tgt.pending_adc_bytes = arriving + (IF unsent THEN Wanted ELSE 0)

\* dac_control.py is through with an undisturbed board.
DacDone ==
    /\ clean /\ asked.kind = "dac" /\ script = "none"
    /\ down = << >> /\ main = Loop

\* The wave asked for is one that sin_gen accepts.
Accepted ==
    /\ "configure" \in asked.ops
    /\ asked.arg.points_per_wave >= 4
    /\ (asked.arg.points_per_wave * asked.arg.num_waves) % WordMod >= asked.arg.points_per_wave

\* What was asked for is what the board does: the DAC plays, if told to start, with
\* the timing and length it was given, though its last packet is sent twice and a
\* configuration stops it; a capture has run with all its parameters, if its period
\* fits the 16 bits of TIM3.
RequestObeyed ==
    /\ DacDone /\ Accepted =>
         /\ dac.buf = "eol_dac_buf"
         /\ dac.timer = [prescaler |-> asked.arg.prescaler, period |-> asked.arg.period]
    /\ DacDone /\ ("start" \in asked.ops \/ "stop" \in asked.ops \/ Accepted) =>
         dac.on = ("start" \in asked.ops)
    /\ Capture /\ tgt.printed # << >> =>
         /\ LET adc   == AdcRegisters(saved_adc_config)
                timer == AdcTimer(saved_adc_config)
            IN  /\ timer.prescaler = asked.arg.prescaler
                /\ asked.arg.period < WordMod => timer.period = asked.arg.period
                /\ asked.arg.sample_time \in SampleTimes => adc.cycles = asked.arg.sample_time
                /\ adc.sequence = asked.arg.channels

\* The angle of point i of the wave asked for: a fraction of a turn is theta0, and
\* every points_per_wave points are a turn.
Exact(i) ==
    LET ppw == asked.arg.points_per_wave
    IN  (4 * COS_THETA0 * (asked.arg.theta0_u8 * ppw + i * ByteMod)) \div (ByteMod * ppw)

\* Every angle up to the last of the wave asked for is a float whose last place counts
\* no more than ulp.
Resolves(ulp) ==
    LET nw == asked.arg.num_waves
    IN  4 * COS_THETA0 * (nw + 1) + asked.arg.points_per_wave * nw * ulp <= FLT_MANT * ulp

\* After an accepted configuration whose points fit a word, the DAC's buffer holds the
\* whole waves, and however often sin_gen has added to theta by then, each point is
\* the sine of an angle that lies no more than one last place per addition beside the
\* exact one: so far may the last wave have drifted from the first.
WaveTracks ==
    DacDone /\ Accepted /\ asked.arg.points_per_wave * asked.arg.num_waves < WordMod =>
        /\ dac.npts = asked.arg.points_per_wave * asked.arg.num_waves
        /\ \A i \in 0 .. dac.npts - 1, ulp \in FLT_ULPS :
             Resolves(ulp) =>
                 \E theta \in Exact(i) - (i + 1) * ulp .. Exact(i) + (i + 1) * ulp :
                     theta >= 0 /\ eol_dac_buf[i + 1] = sin_gen_sin(theta, asked.arg.scale)

\* An undisturbed capture that fits the board's buffer comes to an end.
CaptureEnds == CaptureOn ~> tgt.printed # << >> \/ ~clean

\* Whatever the line loses and earlier scripts have left behind, echo.py is answered,
\* unless it is stopped or the board has failed.
EchoAnswered == script = "echo" ~> tgt.printed # << >> \/ script # "echo" \/ hung

===========================================================================
