--------------------------- MODULE EolCommands ---------------------------
(* The board on the end-of-line stand (eol_commands.c): main()'s loop hands    *)
(* each request to eol_command_handle, which reprograms the DAC and the ADC    *)
(* that the recital uses too; the ADC's interrupt sends a finished capture.    *)
(* Requests and replies are whole messages here: CommandLink and               *)
(* TelemetryLink show how they get over the line.                              *)
EXTENDS SinGen, Packets

CONSTANTS DacBufLen, AdcBufLen,     \* sizes of eol_dac_buf, eol_adc_buf
          Stride,                   \* XMITBUFLEN / 4
          Reading(_, _, _)          \* the byte the ADC puts at a place in its buffer,
                                    \* for a channel, in an odd or an even capture

ASSUME BufferAssumption ==
    /\ {DacBufLen, AdcBufLen, Stride} \subseteq Nat \ {0}
    /\ ByteMod <= DacBufLen /\ AdcBufLen < WordMod
    /\ \A t \in 0 .. 1, ch \in 0 .. ByteMod - 1, p \in 1 .. AdcBufLen : Reading(t, ch, p) \in Int

VARIABLES
    eol_dac_buf,
    dac,            \* [on, buf, npts, timer], the DAC with its DMA and its timer
    eol_adc_buf,
    saved_adc_config,
    stream,         \* the ADC's DMA stream: [on, left]
    take,           \* the capture's number, modulo 2
    tcif,           \* its transfer-complete interrupt is pending
    sending_digit,  \* modem_state = MODEM_SENDING
    main,           \* where main() is, and with what
    hung,           \* in the fault handler
    down, up        \* the requests and the replies on the line

dacVars   == <<eol_dac_buf, dac>>
adcVars   == <<eol_adc_buf, saved_adc_config, stream, take>>
boardVars == <<dacVars, adcVars, tcif, sending_digit, main, hung>>

Blank == -1                             \* 0xFF, as memset leaves it
Zeros(n) == [i \in 1 .. n |-> 0]
Loop  == [at |-> "loop"]

\* The two counters: TIM2, which clocks the DAC, has 32 bits, TIM3 has 16 and drops
\* the rest of a period.
CounterMod(timer) == IF timer = "TIM3" THEN WordMod ELSE WordMod * WordMod

timer_setup_adcdac(timer, prescaler, period) ==
    [prescaler |-> prescaler, period |-> period % CounterMod(timer)]

dac_setup(prescaler, period, buf, npts) ==
    [on |-> FALSE, buf |-> buf, npts |-> npts,
     timer |-> timer_setup_adcdac("TIM2", prescaler, period)]

\* What main() does in tone_start_next_digit and its set-up, with dac_buf and
\* adc_buf of its own.
ModemDac == dac_setup(0, 0, "dac_buf", 0)
ModemAdc == [cb |-> "dtmf_process", buflen |-> 0, sample_width |-> 1, prescaler |-> 0,
             period |-> 0, sample_time |-> 0, channels |-> <<0>>]

Min2(a, b) == IF a < b THEN a ELSE b

\* s written over the beginning of buf, and what of it falls within buf
Over(buf, s) == SubSeq(s, 1, Min2(Len(s), Len(buf))) \o SubSeq(buf, Len(s) + 1, Len(buf))

---------------------------------------------------------------------------
(* Replies.  A message waits in xmitbuf, which the interrupt uses as well, or *)
(* where it was received, until packet_send has sent it.                      *)

Message(family, type, data) == [family |-> family, type |-> type, data |-> data]

Idle == main = Loop /\ ~tcif /\ ~hung

xmit_buf(family, type, data) ==
    main' = [at |-> "xmitbuf", msg |-> Message(family, type, data)]

\* The text is not looked at by anyone: one byte of it stands for all.
xmit_error == xmit_buf("!", "!", <<Blank>>)

\* Its first statement is a return: nothing is acknowledged.
xmit_ack == UNCHANGED main

SendDone ==
    /\ main.at \in {"xmitbuf", "sending"} /\ ~tcif /\ ~hung
    /\ up' = Append(up, main.msg)
    /\ main' = Loop
    /\ UNCHANGED <<dacVars, adcVars, tcif, sending_digit, hung, down>>

---------------------------------------------------------------------------
(* The ADC's DMA and its interrupt                                           *)

\* The registers that go with a configuration: sampling times and widths that are
\* not supported become the shortest and the longest that are.
SampleTimes == {3, 15, 28, 56, 84, 112, 144, 480}

AdcRegisters(c) ==
    [cycles     |-> IF c.sample_time \in SampleTimes THEN c.sample_time ELSE 3,
     resolution |-> IF c.sample_width = 1 THEN 8 ELSE 12,
     sequence   |-> c.channels]

AdcTimer(c) == timer_setup_adcdac("TIM3", c.prescaler, c.period)

TransferSize(c) == IF c.sample_width = 1 THEN 1 ELSE 2

n_dmas(c) == Udiv(c.buflen, c.sample_width)

\* A conversion of a capture.
Sample ==
    LET c     == saved_adc_config
        taken == n_dmas(c) - stream.left
        ch    == AdcRegisters(c).sequence[(taken % Len(c.channels)) + 1]
        mine  == (taken * TransferSize(c) + 1) .. ((taken + 1) * TransferSize(c))
    IN  /\ stream.on /\ stream.left > 0 /\ ~tcif
        /\ eol_adc_buf' = [p \in DOMAIN eol_adc_buf |->
                             IF p \in mine THEN Reading(take, ch, p) ELSE eol_adc_buf[p]]
        /\ stream' = [on |-> stream.left > 1, left |-> stream.left - 1]
        /\ tcif' = (stream.left = 1)
        /\ UNCHANGED <<dacVars, saved_adc_config, take, sending_digit, main, hung, down, up>>

\* One of the two buffers of the recital's endless capture is full.
ModemHalf ==
    /\ stream.on /\ saved_adc_config.cb = "dtmf_process"
    /\ tcif' = TRUE
    /\ UNCHANGED <<dacVars, adcVars, sending_digit, main, hung, down, up>>

\* Mutant: every packet takes its bytes from the buffer's beginning.
StuckStrides(buf) ==
    [k \in 1 .. (Len(buf) + Stride - 1) \div Stride |->
        Message("A", "C", SubSeq(buf, 1, Min2(Len(buf) - (k - 1) * Stride, Stride)))]

\* The packets that carry a capture.
Strides(buf) ==
    [k \in 1 .. (Len(buf) + Stride - 1) \div Stride |->
        Message("A", "C", SubSeq(buf, (k - 1) * Stride + 1, Min2(Len(buf), k * Stride)))]

\* What an interrupt that sends leaves of the packet main was sending: all of it,
\* if it came before or after; else none that the tether could use.
CutShort == main' \in {main} \cup (IF main.at \in {"xmitbuf", "sending"} THEN {Loop} ELSE {})

\* A packet of a capture over what xmitbuf held.
Overlay(msg, s) == Message("A", "C", Over(msg.data, s.data))

\* All of them over it: but for the last they are of one length, so that no more than
\* the last two show.
OverlayAll(msg, strides) ==
    CASE Len(strides) = 0 -> msg
      [] Len(strides) = 1 -> Overlay(msg, strides[1])
      [] OTHER -> Overlay(Overlay(msg, strides[Len(strides) - 1]), Last(strides))

\* eol_adc_callback: adc_stop, and the capture in strides through xmitbuf, where
\* main may just have put a message of its own.
eol_adc_callback ==
    LET strides == Strides(SubSeq(eol_adc_buf, 1, saved_adc_config.buflen))
    IN  /\ stream' = [stream EXCEPT !.on = FALSE]
        /\ up' = up \o strides
        /\ \/ main.at # "xmitbuf" /\ CutShort
           \/ main.at = "xmitbuf" /\ main' = Loop
           \/ /\ main.at = "xmitbuf"
              /\ main' = [main EXCEPT !.msg = OverlayAll(main.msg, strides)]
        /\ UNCHANGED <<dac, sending_digit>>

\* dtmf_process and its callbacks, which log and may stop the DAC.
dtmf_process ==
    /\ CutShort
    /\ \/ UNCHANGED <<dac, sending_digit>>
       \/ sending_digit /\ sending_digit' = FALSE /\ dac' = [dac EXCEPT !.on = FALSE]
    /\ UNCHANGED <<stream, up>>

dma2_stream0_isr ==
    /\ tcif /\ ~hung
    /\ tcif' = FALSE
    /\ \/ saved_adc_config.cb = "dtmf_process" /\ dtmf_process
       \/ saved_adc_config.cb = "eol_adc_callback" /\ eol_adc_callback
    /\ UNCHANGED <<eol_dac_buf, eol_adc_buf, saved_adc_config, take, hung, down>>

\* Disabling a stream that runs completes its transfer.
adc_stop ==
    /\ stream' = [stream EXCEPT !.on = FALSE]
    /\ tcif' \in {FALSE, stream.on}

---------------------------------------------------------------------------
(* eol_command_handle                                                        *)

\* The next request, taken by the loop.
Request == Head(down)

Takes(family, type) ==
    /\ Idle /\ down # << >>
    /\ Request.family = family /\ Request.type = type
    /\ down' = Tail(down)

get16(data, c) == data[c] * ByteMod + data[c + 1]

\* Mutant: only the lower half of four bytes.
LowerHalf(data, c) == get16(data, c + 2)

get32(data, c) == get16(data, c) * WordMod + get16(data, c + 2)

EchoQuery ==
    /\ Takes("E", "Q")
    /\ main' = [at |-> "sending", msg |-> Message("E", "R", Request.data)]
    /\ UNCHANGED <<dacVars, adcVars, tcif, sending_digit, hung, up>>

\* Every byte there is, by way of eol_dac_buf.
EchoTable ==
    LET table == [i \in 1 .. ByteMod |-> i - 1]
    IN  /\ Takes("E", "T")
        /\ eol_dac_buf' = Over(eol_dac_buf, table)
        /\ xmit_buf("E", "U", table)
        /\ UNCHANGED <<dac, adcVars, tcif, sending_digit, hung, up>>

LoggingControl ==
    /\ Takes("L", "S")
    /\ UNCHANGED <<boardVars, up>>

\* scb_reset_system: everything is as after power-up, and whatever else had been
\* received is lost.
ResetRequest ==
    /\ Idle /\ down # << >> /\ Request.family = "R" /\ Request.type = "Q"
    /\ eol_dac_buf' = Zeros(DacBufLen) /\ dac' = ModemDac
    /\ eol_adc_buf' = Zeros(AdcBufLen) /\ saved_adc_config' = ModemAdc
    /\ stream' = [on |-> FALSE, left |-> 0] /\ tcif' = FALSE
    /\ sending_digit' = FALSE
    /\ down' = << >>
    /\ UNCHANGED <<take, main, hung, up>>

\* The fields of DC's arguments
DacRequest(data) ==
    [prescaler |-> get16(data, 1), period |-> get32(data, 3), scale |-> data[7],
     points_per_wave |-> get16(data, 8), num_waves |-> data[10], theta0_u8 |-> data[11]]

\* What DC makes of its arguments: one wave a second, at points_per_wave samples a
\* second, in a buffer of as many points as all waves have.
Synthesis(r) ==
    LET npts   == (r.points_per_wave * r.num_waves) % WordMod
        p      == sin_gen_populate(npts, 1, r.points_per_wave)
        filled == sin_gen_generate_fill(
                    [p.req EXCEPT !.scale = r.scale,
                                  !.theta0 = ToFloat(4 * COS_THETA0 * r.theta0_u8, ByteMod)])
    IN  [npts |-> npts, prescaler |-> r.prescaler, period |-> r.period,
         res  |-> IF p.res = "OKAY" THEN filled.res ELSE p.res,
         wave |-> IF p.res = "OKAY" THEN filled.wave ELSE << >>]

\* The points go over the buffer that may be playing, and do so even if there are
\* too few of them.
DacConfigure ==
    /\ Takes("D", "C")
    /\ LET s == Synthesis(DacRequest(Request.data)) IN
         /\ eol_dac_buf' = Over(eol_dac_buf, s.wave)
         /\ \/ /\ s.res = "OKAY"
               /\ dac' = dac_setup(s.prescaler, s.period, "eol_dac_buf", s.npts)
               /\ xmit_ack
            \/ s.res # "OKAY" /\ xmit_error /\ UNCHANGED dac
    /\ UNCHANGED <<adcVars, tcif, sending_digit, hung, up>>

DacStart ==
    /\ Takes("D", "S")
    /\ dac' = [dac EXCEPT !.on = TRUE]
    /\ xmit_ack
    /\ UNCHANGED <<eol_dac_buf, adcVars, tcif, sending_digit, hung, up>>

DacStop ==
    /\ Takes("D", "T")
    /\ dac' = [dac EXCEPT !.on = FALSE]
    /\ xmit_ack
    /\ UNCHANGED <<eol_dac_buf, adcVars, tcif, sending_digit, hung, up>>

\* Mutant: a sample of one channel is counted, not one of each.
OneChannel(data) ==
    [cb |-> "eol_adc_callback", buflen |-> (get16(data, 7) * data[9]) % WordMod,
     sample_width |-> data[9], prescaler |-> get16(data, 1),
     period |-> get32(data, 3), sample_time |-> get16(data, 10),
     channels |-> SubSeq(data, 13, 12 + data[12])]

\* The configuration AC's arguments ask for; buflen is a word.
AdcRequest(data) ==
    LET num_points == get16(data, 7)
        sample_width == data[9]
        num_channels == data[12]
    IN  [cb |-> "eol_adc_callback",
         buflen |-> (num_points * sample_width * num_channels) % WordMod,
         sample_width |-> sample_width, prescaler |-> get16(data, 1),
         period |-> get32(data, 3), sample_time |-> get16(data, 10),
         channels |-> SubSeq(data, 13, 12 + num_channels)]

\* Mutant: the buffer's length is not looked at.
CapturesAnything ==
    /\ Takes("A", "C")
    /\ main' = [at |-> "capture", config |-> AdcRequest(Request.data)] /\ adc_stop
    /\ UNCHANGED <<dacVars, eol_adc_buf, saved_adc_config, take, sending_digit, hung, up>>

\* Up to adc_stop; a transfer that this ends is served by its interrupt before ...
AdcCapture ==
    /\ Takes("A", "C")
    /\ LET c == AdcRequest(Request.data)
       IN  \/ c.buflen > AdcBufLen /\ xmit_error /\ UNCHANGED <<stream, tcif>>
           \/ c.buflen <= AdcBufLen /\ main' = [at |-> "capture", config |-> c] /\ adc_stop
    /\ UNCHANGED <<dacVars, eol_adc_buf, saved_adc_config, take, sending_digit, hung, up>>

\* ... the buffer is cleared and the capture begins: adc_setup and adc_start.
CaptureBegins ==
    /\ main.at = "capture" /\ ~tcif /\ ~hung
    /\ LET c == main.config
       IN  /\ eol_adc_buf' = Over(eol_adc_buf, [p \in 1 .. c.buflen |-> Blank])
           /\ saved_adc_config' = c
           /\ stream' = [on |-> TRUE, left |-> n_dmas(c)]
    /\ take' = 1 - take
    /\ main' = Loop
    /\ UNCHANGED <<dacVars, tcif, sending_digit, hung, down, up>>

\* The ADC's other types are taken and not answered.
AdcOther ==
    /\ Idle /\ down # << >> /\ Request.family = "A" /\ Request.type # "C"
    /\ down' = Tail(down)
    /\ UNCHANGED <<boardVars, up>>

Known == {<<"E", "Q">>, <<"E", "T">>, <<"L", "S">>, <<"R", "Q">>, <<"D", "C">>,
          <<"D", "S">>, <<"D", "T">>}

\* xmit_unk passes "%s" no argument: whatever is on the stack is taken for the
\* address of a text, and reading there may fault.  (What the other errors pass is
\* the address of a text, or a number so small that memory can be read there.)
\* Families other than the ADC's come here with every type they do not know.
Unknown ==
    /\ Idle /\ down # << >>
    /\ Request.family # "A" /\ <<Request.family, Request.type>> \notin Known
    /\ down' = Tail(down)
    /\ \/ xmit_error /\ UNCHANGED hung
       \/ hung' = TRUE /\ UNCHANGED main
    /\ UNCHANGED <<dacVars, adcVars, tcif, sending_digit, up>>

\* A request with a wrong checksum is answered and not obeyed.
FcsMismatch ==
    /\ Idle /\ down # << >>
    /\ down' = Tail(down)
    /\ xmit_error
    /\ UNCHANGED <<dacVars, adcVars, tcif, sending_digit, hung, up>>

---------------------------------------------------------------------------
(* The recital, as far as it shares the DAC and the ADC (see Modem)           *)

tone_start_next_digit ==
    /\ Idle
    /\ dac' = [ModemDac EXCEPT !.on = TRUE]
    /\ saved_adc_config' = ModemAdc
    /\ stream' = [on |-> TRUE, left |-> 0]
    /\ sending_digit' = TRUE
    /\ UNCHANGED <<eol_dac_buf, eol_adc_buf, take, tcif, main, hung, down, up>>

tone_stop ==
    /\ Idle
    /\ dac' = [dac EXCEPT !.on = FALSE]
    /\ adc_stop
    /\ sending_digit' = FALSE
    /\ UNCHANGED <<eol_dac_buf, eol_adc_buf, saved_adc_config, take, main, hung, down, up>>

---------------------------------------------------------------------------

BoardInit ==
    /\ eol_dac_buf = Zeros(DacBufLen) /\ dac = ModemDac
    /\ eol_adc_buf = Zeros(AdcBufLen) /\ saved_adc_config = ModemAdc
    /\ stream = [on |-> FALSE, left |-> 0] /\ take = 0 /\ tcif = FALSE
    /\ sending_digit = FALSE
    /\ main = Loop /\ hung = FALSE
    /\ down = << >> /\ up = << >>

Handle ==
    \/ EchoQuery \/ EchoTable \/ LoggingControl \/ ResetRequest
    \/ DacConfigure \/ DacStart \/ DacStop \/ AdcCapture \/ AdcOther \/ Unknown

Hardware == Sample \/ ModemHalf \/ dma2_stream0_isr

Recital == tone_start_next_digit \/ tone_stop

===========================================================================
