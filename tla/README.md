# Argali in TLA+

Argali is firmware for a Nucleo development board that behaves as a pet, the
*tamodevboard*, together with a Python package, the *tether*, that drives the
board over a serial line for end-of-line tests. Left alone the board is lonely;
a visitor makes it happy; a visitor who stays bores it, and a bored board
recites pi in DTMF tones and listens to itself through its ADC to know when a
digit is out. Over the serial line the tether sends commands to the board, and
the board sends log lines and results to the tether, in HDLC-like frames.

This directory models both halves: TLA+ modules translated from the code, TLC
runs over small instances, and TLAPS proofs for all values of the constants.

    tlc -workers 2 -config MCModemNoisy.cfg MCModem
    tlapm Modem_proofs.tla

`PROJECT.json` lists components, runs, the source lines of each definition, the
mutations each property is known to notice, findings, hazards and theorems.

## 1. The system

Paths are relative to `src/code/src` (firmware; drivers under
`targets/nucleo_f413zh`) and `src/code/argali_tether/argali_tether` (tether).

| component | state | operations | talks to |
|---|---|---|---|
| mood, `tamo_state.c` | `current_emotion`, `last_timestamp` | `tamo_state_init`, `_update`, `_compute_next` | polled by `main` ten times a second |
| pi reciter, `pi_reciter.c` | `digit_cursor` | `next_digit`, `rx_digit`, `reset` | `main` asks for digits, the decoder's callback confirms them |
| DTMF decoder, `dtmf.c` | `cur_symbol` and its duration | `dtmf_process`, `dtmf_sym_decoded`, `dtmf_get_tones` | called by the ADC's ISR, calls back into `main.c` |
| main loop and modem, `main.c` | `modem_state`, `dac_buf`, `serbuf`, the loop's time | the loop, `tone_start_next_digit`, `tone_stop`, two tone callbacks, the console callback | everything |
| LEDs, `leds.c` | the pins | `led_*_on`, `_off`, `_toggle` | `main` shows the mood with the red and the blue one, the ADC's ISR toggles the green one at an overrun |
| ADC, DAC, DMA drivers, `timer.c` | stream enables, the double buffer's target, a saved configuration | setup, start, stop, `dma2_stream0_isr` | shared by the modem and the EOL commands |
| packet parser, `packet.c` | `parse_state`, `packet_rx_buf` | `packet_rx_byte`, `parser_setup` | fed by the loop from `serbuf`, calls `eol_command_handle` |
| packet framing, `packet.c` | none | `packet_frame`, `packet_send`, `packet_fcs` | called from `main` *and* from ISRs |
| console, `console.c` | reception double buffer, dump buffer | `console_send_blocking`, `dma1_stream1_isr` | hands halves of its buffer to `main.c` |
| logging, `logging.c` | none | `logline` | `packet_send`, from everywhere |
| EOL commands, `eol_commands.c` | DAC, ADC and transmit buffers | `eol_command_handle`, `eol_adc_callback` | reconfigures the DAC and ADC the modem uses |
| sine generator, `sin_gen.c` | none | `sin_gen_populate`, `sin_gen_generate_fill` | fills the waveforms |
| tether framing, `arghdlc.py` | `Deframer` | `Framer.frame`, `Deframer.rx_byte` | `ArgaliTarget` |
| tether driver, `argali_target.py` | `pending_frames`, pending requests, `adc_buf` | `poll`, `enqueue`, `frame_cb`, `echo`, ... | the serial port |
| packet classes, `packets/` | none | `pack` | used by the scripts |
| scripts, `echo.py`, `adc_control.py`, `dac_control.py` | what they have yet to queue | a loop around `poll` | `ArgaliTarget` |

Buttons, the clock set-up, system calls, the older sibling target `nucleo_f767zi` and
the generated code of the tether are not modelled; section 6 gives the reasons.

**What is hard here.** Nothing in the firmware masks interrupts or takes a lock.
The ADC's ISR runs the decoder and its callbacks, which write `modem_state`,
`digit_cursor` and the DAC that `main` is using. Console ISR and loop share
`serbuf`. ISRs send packets in the middle of `main`'s. Timestamps wrap and are
compared as signed numbers. Counters in the parser are 16 bits wide and go down
in two places. The line loses and garbles bytes, and frames are resynchronized by
flags alone. Most of this cannot be tested on the bench: the repository's unit
tests run each pure module by itself, on a PC, with no interrupt in sight.

**What makes each part correct.**

- *Mood*: it follows from who is, and was, there, whatever the clock's wraps, and the
  red and the blue light show it.
- *Modem*: the tone on the air is the digit the reciter expects; a board that is
  not bored is silent; a recital goes on for ever and recovers from errors.
- *Decoder*: what it decodes is what sounded, and the keypad's table is read inside it.
- *Parser*: fields are read from their places; no payload beyond declared length
  and limit; resynchronization after anything.
- *Framing*: what is framed at one end is what is deframed at the other, however
  packets interrupt each other.
- *Console reception*: no byte is lost or handled twice between the line and the
  parser, and none is held back for long.
- *EOL commands, tether driver, scripts*: what the user asks for is what the board
  does and what the user is shown, through packing, 16-bit sizes, the DMA's count of
  transfers, strides and reassembly; pending requests agree with what is still to
  come; a script that waits is answered or can recover, whatever was lost and
  whatever an earlier script left behind.
- *Sine generator*: the table is read inside its bounds, and however far the float
  angle drifts, each point is the sine of an angle near the one it should be.

## 2. Modules

| module | models | state and actions |
|---|---|---|
| `TamoState` | `tamo_state.c`, pure | operators with the code's names |
| `Leds` | `leds.c`, pure | operators on the pins |
| `TamoClock` | the loop's time, the mood and the lights | one `Poll` is one pass of the inner loop, `Second` is `current_time++`, `Overrun` is `adc_isr` toggling the green light; `ClockMod` stands for 2^32 |
| `Mood` | abstract: an ideal clock that never wraps | six actions named for what happens to the board |
| `Dtmf` | `dtmf.c`'s keypad, its choice of a row and a column, its threshold, pure | operators over the eight tones' magnitudes |
| `PiReciter` | `pi_reciter.c`, pure | operators over the cursor |
| `Modem` | `main.c`'s recital, `dtmf.c`'s transitions, the ADC, DAC and DMA drivers under it | one action per access of `main` to shared state, named by `pc`; `HalfDone` is the DMA, `AdcIsr` the whole interrupt with both callbacks |
| `Hdlc` | byte values, word widths | constants both ends share, `fcs_step` among them |
| `Fcs` | the checksum's step | computed bit by bit; only TLC uses it |
| `PacketParser` | `packet_rx_byte` | one action per path through the function; `addr`, `control`, `pktlen`, `buf_cursor` are operators over `rx_buf` |
| `Framing` | `packet_frame`, `packet_send`, `Framer.frame` | pure |
| `Deframer` | `Deframer.rx_byte` | one action per path; `cb_raises` says on which payloads the callback raises, and what that leaves behind |
| `CommandLink` | tether -> board: `poll`, the line, `PacketParser`, `eol_command_handle`'s check | composes `Framing` and `PacketParser` |
| `TelemetryLink` | board -> tether: `packet_send` from `main` and ISR, `Deframer`, a script that exceptions and its user end and that starts again anywhere in the stream | composes `Framing` and `Deframer` |
| `SerialRx` | line -> parser: the console's double buffer, `dma1_stream1_isr`, `console_line_handler`, `main`'s drain of `serbuf` | one action per access of `main` to the cursors, named by `pc`; `dma1_stream1_isr` is the whole interrupt; `Arrive` is the DMA |
| `ByteLine` | abstract: what the way to the parser promises, whatever it is made of | a byte arrives, is handed on, is lost |
| `SinGen` | `sin_gen.c`, pure | operators with the code's names; `ToFloat` rounds as the FPU does, and `Angles` is the running sum of `sin_gen_fulfill` |
| `Packets` | the packet classes, `pack`, and what `struct` refuses | pure; a packet is a list of fields as in the code |
| `EolCommands` | `eol_command_handle`, `eol_adc_callback`, the single-buffer captures of `adc.c`, the recital's use of the same DAC and ADC | one action per command; a capture's DMA is `Sample`, its interrupt `dma2_stream0_isr`; `xmitbuf` is where `main` may hold a message |
| `ArgaliTarget` | `argali_target.py`'s pending requests and dispatch of replies | operators on the target's record |
| `EolBench` | scripts and users one after another, a line that loses or damages messages, the board | composes `EolCommands`, `Packets`, `ArgaliTarget`; a `Turn` is one turn of a script's loop, with its `poll` |
| `*_proofs` | theorems | |
| `MC*` | constants for TLC | |

Conventions. A definition has the name of the function or variable it models. An operator
introduced by the comment *Mutant:* is a plausible error in the definition that follows it; no
specification uses it, and `PROJECT.json` says which property notices it. DTMF symbols are
strings that are only compared. In `Modem` time is left out (a poll may find any timeout
expired or not), and what the decoder hears is computed from `heard`, the set of sounds since
the half began: `Magnitudes` gives a tone that was in all of them the greatest magnitude, one
that was in none of them any below the threshold, and any other one any magnitude at all, as
that depends on how long it was there; `dtmf_process` decides on these as the code does, and
noise is added to what may come out. The code hands the decoder the half the DMA *has begun*
to fill (`dma_get_target` after the swap), which holds the sound of one half earlier; the
model does the same. `console.c` hands its halves on in the same way, and `SerialRx` follows
it. There a byte is its place in the stream, so that order, loss and repetition show at once;
the ghost variables `late`, `overflowed` and `dropped` record what excuses a loss, and
`newest` the latest byte parsed. In `EolBench` requests and replies are whole messages, as the
links' runs say how they get over the line; an interrupt that sends while `main` does leaves
`main`'s message whole, or cuts it, or, where both use `xmitbuf`, overlays it. A reading of
the ADC names its channel, its place and the capture, so that a stale or misplaced byte shows.

## 3. Runs

| run | question | instance |
|---|---|---|
| `tamo_clock` | Does 32-bit time behave as ideal time (`ImplementsMood`, `NeverWraps`), does the mood follow the visits (`StayingBores`, `LeavingSaddens`), and do the red and the blue light tell it (`LightsTellMood`, `BoredBlinks`)? | a clock of 16 s, real timeouts 3 and 5, three polls a second, a toggle on every other one, overruns of the ADC at any time |
| `modem_noisy` | Types; `OnAirIsExpected`; `SilentUnlessBored`; `RestartResets` | 3 digits, the first two equal, noise of two symbols, a visitor who comes and goes, a main loop of any speed |
| `modem_recital` | `NeverWrong`, `HeardMeansStopped`, `RecitesForever` | clean channel, visitor stays, an ADC half (128 ms) is longer than a call of `tone_start_next_digit` |
| `packet_parser` | `TypeOK`, `InPlace`, `PayloadFits`, `OverlongHasWrapped` | any byte stream over flag, escape and others; counters wrap within the run |
| `command_link` | `UntouchedIsObeyed`, `PaddedIsPrompt` | all payloads of up to one byte of four values, an address that needs no escape and a control that does; two line errors in a poll that sends a command, one in a poll that sends none; any number of polls |
| `serial_rx` | Types and cursors inside `serbuf`; `EveryByteOnce`; `LessThanTwoHalvesBehind`; `NeverTwice` over any overflow; `ImplementsLine`; `Drains` | halves of two bytes, a `serbuf` of three halves, 14 bytes, an interrupt between any two accesses of `main` |
| `telemetry_link` | `DeframerTypeOK`, `AccumulatorFits`; `PreemptorArrives`, `UncutArrives`; `ExceptionsNeedATear` | payloads of up to two bytes over 0, flag, escape; an interrupt between any two bytes, and inside the transmitter's check-then-write; the script ended and started at any byte |
| `eol_bench` | `TypeOK`; `CaptureExact`, `RequestObeyed`, `WaveTracks`, `PendingMatches` for an undisturbed request; `EchoNeverRaises`, `CaptureEnds`, `EchoAnswered` | two scripts or users one after another out of 20 requests, the first perhaps killed; one disturbance (a message lost or damaged, a step of a recital) |

Why these bounds suffice. Three digits have a first, a repeated and a last
digit, which is all `rx_digit` distinguishes; two equal neighbours are the case
the decoder can confuse. The clock wraps after 16 seconds and TLC goes round it
in every mood; only the order of timeouts and half range matters. Byte values
matter only as flag, escape or other, and two "others" let the checksum vary.
Parser limits are small so that every counter reaches its limit and wraps. In
the links' runs the step of the checksum is the real algorithm at a smaller width,
and at the real width it is checked against values from `tests/test_packet.c`
(`FcsAsTested`); the parsers' own runs do not depend on it. In
`command_link` noise comes between the commands too, so that what the parser holds when
one is sent may be left by any stream of bytes: commands and buffer are small for that, since
with larger ones the states are too many. Two errors per poll can open a frame and damage it;
as polls repeat, any number of errors accumulates in the parser. An untouched command
may be obeyed second: when the line lost an earlier command's last bytes behind their
escape, the first flag of this poll completes that command. Hence the property's
`Len(handled) <= 2`, and its insistence that the untouched command is the last.

`command_link` and `serial_rx` meet in the number 8. What the way to the parser holds
back, until more bytes come, is less than two halves of four bytes
(`LessThanTwoHalvesBehind`, `Drains`); `poll` writes eight flags after a frame, and a
command is obeyed before the parser has the first of these (`PaddedIsPrompt`). So it is
obeyed as soon as `main` has emptied `serbuf`. But `poll` leaves out the flags after a
frame whose length is a multiple of 8: such a command waits for the single flags that
up to six later polls write.

Seven halves through a `serbuf` of three let it fill, overflow and be rewound with
`main` at every place of its loop. `EveryByteOnce` presupposes what the ghost
variable `late` records: an interrupt is served before the next byte arrives (87 us
at 115200 baud; a handler that logs in the middle takes longer), and no two
interrupts come between adjacent instructions of `main` (in `packet_rx_byte` and the
rest of the loop any number may). The second matters: with two between the loads of
head and tail, in that order, `main` compares the head of an empty `serbuf` with the
tail of the rewound one, and reads from its middle.

In `eol_bench` a byte has four values and a word sixteen, so that requests of a few points
already wrap `num_points * sample_width * num_channels` and `points_per_wave * num_waves`; a
quarter of the sine table has four entries, the DAC's buffer 12 points, the ADC's 6, a stride
2. A float has a mantissa of eight bits, so that within twelve points the sum of its rounded
steps drifts far enough to read another entry of the table than the exact angle would, as it
does on the board after some hundred points. The requests are chosen so that each way through
the arithmetic occurs: one, two and three bytes a sample, two channels, one and more strides,
a capture that wraps, one that is refused, one with a period too long for the ADC's timer,
waves that fit, are too short, wrap or are refused. Two scripts are what it takes for one to
find the board, the line and the reply of another; longer histories add only more of the same,
because a script's own state ends with it. One disturbance is enough to lose any one message,
or to let the recital reprogram DAC and ADC at any moment; with two the run exceeds the time a
run should take. `MaxDown` and `MaxUp` bound what is on the line. Inputs that would write
beyond `eol_dac_buf` (more than 1024 points, which `eol_command_handle` does not refuse) are
left out, since what follows is undefined.

The deadlock check is off where the model may stop: in the two parser runs and `command_link`,
at the point where the code would store beyond `packet_rx_buf`, which is undefined, and in
`eol_bench`, whose scripts come to an end.

### Runs that show a disagreement

Each checks one statement of the code's own comments, and TLC violates it.

- `modem_stuck`: a recital is cut off (`tone_stop`) while the decoder holds a
  symbol; a later recital begins with that symbol; no `tone_start` is ever
  called, and the tone goes on (`EverySendEnds`).
- `modem_unstopped`: `MODEM_SENDING` is set before `dac_start`; a stale half
  decoded in between stops a DAC that `main` then starts (`HeardMeansStopped`).
- `packet_too_long`: an escape as the last counted byte of a body wraps
  `bytes_rem`; the frame is not aborted (`TooLongAborted`).
- `telemetry_fcs`: a checksum that begins with 0x7D or 0x7E makes the tether
  lose the packet: one packet in 128 (`UncutArrives`).

`telemetry_link` therefore restricts its packets to those whose length and first
checksum byte need no escape (`Sound`; a length byte of 0x7D or 0x7E, which
`packet_frame` escapes after the body has been written, overwrites the body: real
lengths 125, 126, 381, 382, ...), and shows that interrupts are then
harmless to everything but the packet they cut. The tail of a cut packet is
parsed as a packet of its own and can make the tether's parser, or its callback,
raise an exception. Nothing in `poll` or the scripts catches it: the script ends,
and may be started again, with a new `Deframer`, anywhere in the stream.
`ExceptionsNeedATear` says that only torn packets do this.

Further disagreements were met and have no run, as their arithmetic or
syntax shows them without one: `argali_target.py` does not `import struct`, so its
`dac_config_req` and `adc_capture_req` raise `NameError` whatever they are given (the
scripts build their packets with the packet classes instead, and so does the model);
`sin_gen_generate` divides whole numbers for `samples_per_wave`, so `phase_error`,
of which the comment at `sin_gen.c:295` promises the remainder of the last cycle, is 0
whenever a wave fits the buffer; and `packet_base.py:115` unpacks every length as 16 bits, also
the one-byte length of `ADCConfigPacket`'s channels (only a unit test calls `unpack`);
a capture's `period` is 32 bits "as in `dac_setup`" (`eol_commands.c:307`), but TIM3,
which clocks the ADC, counts 16 of them, so that `RequestObeyed` promises the period only
where it fits; `main.c:447` says "blink red at 5Hz when lonely" of a light that every poll
just turns on; and `main.c:457` says "blink blue at 2Hz" of a light that is toggled twice a
second, which is 1 Hz.

### Fairness

`TamoClock`: the loop never stops (`WF` of its two steps, `Loop`); visitors are free, and
the ADC need not overrun.
`Modem`: interrupts are served and an enabled stream completes halves (`WF`). For
`main` strong fairness is needed: every interrupt disables it for a moment, again
and again, but an ISR is far shorter than the 128 ms between two of them, so
`main` does get on. No fairness is assumed of the visitor or of noise.
`SerialRx`: `main`'s loop goes on and interrupts are served (`WF`); bytes need not
arrive. `EolBench`: the ADC converts, its interrupt is served, a script that has not
been stopped goes round its loop, reads what has arrived, and time passes (`WF`); the
board's loop takes requests, sends its replies and begins captures (`SF`, because the
recital's interrupts disable each of these for a moment, again and again). Nothing is
assumed of users: scripts may be killed at any point or never, and messages may
be lost. `EchoAnswered` has a way out when the board hangs: `xmit_unk` prints a
pointer that nobody has set. The parser and link specifications state safety only and need none.

## 4. Proofs

All theorems are proved by TLAPS for every value of the constants that satisfies
the named assumptions. Each is the usual argument: `Init => Inv`,
`Inv /\ [Next]_vars => Inv'`, `Inv => property`, one step per action.

- `TamoClock_proofs` (assumptions: clock range even, timeouts below half of it).
  `NeverWraps` is the heart: elapsed time never exceeds the present mood's
  horizon, and once a second's first poll is done is strictly below it. With it,
  the 32-bit difference is the true one, only a lonely board sees negative time,
  and `MoodImplemented` is a refinement proof step by step: each `Poll` is one of
  `Mood`'s actions or a stutter, `Second` is `Mood`'s. `LightsAreTrue`: overruns
  of the ADC leave the red and the blue pin alone; a bored board
  only toggles the blue light, and never touches the red one, so what it shows rests on
  the happy board having turned that off, and on there being no way from lonely to bored.
- `Modem_proofs` (digits are symbols, there are between 1 and 254). The properties are
  not inductive: between two statements of `main` they rest on what the ISR can do at
  that point. The invariant says, per value of `pc`, which modem states are
  possible, that the ISR never leaves IDLE or WAITING_SEND (so that `Pick` may
  read the cursor and `Fill` use it later), and that a stop in progress has
  turned off what it has passed. The ISR's effect is one lemma (`IsrInv`) used
  at every `pc`. `RecitalNeverWrong` and `HeardStops` hold under `CleanChannel`, the
  assumption of `modem_recital`: no noise, a visitor who stays, an ADC half longer than a
  call of `tone_start_next_digit`. The channel is part of their invariant: before a
  digit rings, both halves and what has been heard since are silent; while it rings, what
  the decoder is handed is silent, mixed or that digit; after it is stopped, the half
  decoded next may still hold it; and at most one half ends while `main` is away from
  the top of its loop. What such a half decodes to is computed by the decoder, and its
  theorems stand first: `DecodesSymbol` (the 16 symbols of the keypad or none, whatever
  the magnitudes: where no tone was found, the place 4 * 255 + 251 lies beyond the table)
  and `DecodesWhatSounded` (where only a symbol's own tones can reach the threshold, that
  symbol is decoded if both do, and otherwise nothing).
- `PacketParser_proofs` (flag and escape differ, twice the buffer's size fits a
  word). The invariant ties `bytes_rem`, the fill level and the declared length: in
  the body, stored plus remaining bytes never exceed the declared length, or the
  counter has wrapped, and then (`CountInv`) it takes half the range of a word to
  bring it back to 0, since no stored byte costs more than two: the buffer ends
  long before, or a flag ends the frame. The model stops where the code would store past
  `rx_buf`, of which `TypeCorrect` therefore says nothing. What can be said is how the code
  comes there: `OverlongFramesWrapped`. A frame longer than the longest there may be is in
  a body whose counter has wrapped, and which outlasts the buffer; in every other state the
  next byte stored lies inside it.
- `Framing_proofs`, lemmas: escaping yields bytes, is undone in order, and grows
  byte by byte; a checksum over a prefix is the parser's running checksum; where the
  bytes of a packet stand among its escapes (`Stuffing`, `Amid`) and among the flags
  around it (`Flagged`).
- `CommandLink_proofs` (at least one flag before a frame; a command within the target's limit,
  its escapes included). `UntouchedObeyed` is end to end: whatever state earlier polls have
  left the parser in, a frame the line leaves alone arrives at the handler as the user meant
  it. The invariant (`LinkInv`) follows a frame through the parser: not yet begun (`Silent`),
  in the flags before it (`Opening`, where from the second flag on the parser is as new),
  `Within` after its n-th byte, where every field of the parser is a function of n and of the
  command, and `Closing`. An escaped byte is two steps on the wire and one in the frame, which
  is why the lemmas of `Framing_proofs` speak of what has been written after each byte.
- `TelemetryLink_proofs` (flag and escape differ; any limit, any callback, at least one
  flag before a packet). First the Deframer by itself, on any stream of bytes:
  `DeframerTypeOK` and `AccumulatorFits` need one more conjunct, that a packet whose
  body is being read was accepted (`Accepted`); `FlagResynchronizes` is about single
  steps: from any state a flag leads to the start of an empty packet, and if the cut
  left an escape behind, the second flag does. Then the link, for packets `Sound` to both
  ends: that is the restriction of `telemetry_link`, and what its violation does is
  `telemetry_fcs`. `PreemptorDelivered` and `UncutDelivered` have the shape of
  `UntouchedObeyed` with two senders: the invariant (`LinkInv`) says of the handler's
  call, while the script is up, and of `main`'s, while nothing has cut it, how many bytes
  of it the Deframer has had, and where that puts the Deframer. Nothing is said of a call
  that was cut, whose tail is any bytes at all; what makes that enough is that the next
  packet's first flag may be swallowed but the second is not. `body_rem`, which the
  Deframer counts down for escapes too, is the distance to the end of the body on the
  wire, not in the packet. `WholeStreamsAreSafe` needs the other half (`WholeInv`): as
  long as nothing was torn, the Deframer meets each packet between two, where not even the
  first flag is swallowed; and it needs packets that are not too long and on which
  `frame_cb` does not raise (`PolitePackets`), as these end the script by themselves.
- `SerialRx_proofs` (a half has at least one byte and fits `serbuf`; any number of bytes).
  `TypeCorrect` needs only that what `main` has compared lies below what it reads at
  (`RegisterInv`): an overflow may rewind both cursors between any two of its accesses. The
  order of bytes needs the whole invariant: the DMA's halves hold successive bytes up to the
  last received (`DmaInv`); `serbuf` holds successive bytes up to the last one handed over
  (`BufInv`); what was parsed lies before what is still to be read (`NewestInv`); a comparison
  that lets `main` read is right about the cursors as they are now, as an interrupt in between
  can only append or, when `serbuf` is empty, rewind (`ComparedInv`); and nothing is missing
  between `parsed` and `serbuf_head` (`ParsedInv`). From it follow `EveryByteOnce`,
  `NeverTwice` and `LessThanTwoHalvesBehind`. `LineImplemented` is a refinement proof: each
  read of `main` delivers the next byte of `ByteLine`, or a later one after a drop, or is the
  one stray byte that `main` was about to read when `serbuf` was dropped, which is set aside;
  everything else stutters. Until a drop, nothing is set aside (`NoneAside`).
- `EolBench_proofs` (buffers, a stride and a number of scripts of any size; a word counts
  more than the ADC's buffer has bytes, and the DAC's buffer takes what `ET` writes to it;
  a sine table of any length, of seven-bit amplitudes, and floats of any format; the requests
  the argument parsers let through, but no DAC request for more points than `eol_dac_buf` has,
  which the board would not refuse: `BufferAssumption`, `TableAssumption`, `FloatAssumption`,
  `RequestAssumption`). All six invariants of `eol_bench`.

  First what the parts compute. `WaveFits`: no more points than the buffer has, each
  between 0 and 254, and every access to the table inside it. How far the running sum
  `theta` strays is `AngleDrift`: `dtheta` is rounded once, each of `i` additions once more, a
  rounding costs half of the last place, and so the angle of point `i` is off by at most
  `i + 1` last places, if the last place is no larger than that of the last angle
  (`Resolves`). `AdcUnpacked` and `DacUnpacked`: the board reads from a packed
  request what the tether packed into it.

  Then the stand, whose properties are not inductive, as they speak of the end of a
  conversation. `EolInv` types everything (`BenchTyped`), among it that the ADC's transfers
  still to come fit `eol_adc_buf` whatever arrives: `eol_command_handle` compares `buflen`
  only, and the transfers are of 8 or 16 bits whatever sample width was asked for. That the
  DAC's points fit `eol_dac_buf` is an assumption on the requests, which no theorem claims.
  `EolInv` has `Timed`: under `echo.py`, a pending echo was sent by this very script, whose
  `pending_adc_bytes` is never positive, however many replies to its predecessors it takes
  (`EchoTimesKnown`). `DacInv` is about `dac_control.py`: what is on the line and what the
  script has yet to queue suffice to take the DAC from where it is to what was asked for
  (`DacQueue`). When both are empty it is there, and what its buffer holds is what
  `AngleDrift` says of each point (`WavesTrack`): the sine of an angle near the exact one. It
  does not say that waves repeat each other, as on the board they need not. `AdcInv` is about
  a capture, and names its stages: not written yet, on the line, refused, accepted, sampling,
  with its interrupt to come, over. While replies are on the line (`AdcHeard`) the tether's
  buffer holds a first part of the capture and the line the rest of it, cut in strides at the
  same places (`Remaining`, `Carried`); hence `PendingCounts`, and `CapturesExact` when
  nothing is left. That no sample is of an older capture or left from the buffer's last use
  rests on the DMA's count: before `Sample` has come to its end, nothing is sent.
  `RequestsObeyed` follows from both.

The induction theorems of the library take an operator as a parameter, which these
provers cannot instantiate. `Framing_proofs` therefore gets its inductions over the length of
a message from the well-foundedness of the naturals, stated with sets in place of
predicates (`BoundedInduct`).

Every safety invariant of a passing run is a theorem, for all constants the named assumptions
admit. Only model-checked: the temporal properties (`StayingBores`, `LeavingSaddens`,
`BoredBlinks`, `RestartResets`, `RecitesForever`, `Drains`, `CaptureEnds`, `EchoAnswered`),
most of which rest on fairness, and that is out of TLAPS' reach; but `ImplementsMood`,
`NeverTwice` and `ImplementsLine` are proved. `Fcs` uses bit operators TLAPS has no theory of;
the proofs hold for any `fcs_step` that yields words.

Abstractions to keep in mind: the DTMF filter is a choice of the tones' magnitudes, whole
numbers that fit what sounded; loss of ADC interrupts (a half completed before the last was
served) is excluded; the parser's callbacks other than the handler only log. In `Modem`, a
waveform is rewritten in one step, while on the board the DAC plays on through the rewriting;
`adc_isr`, which restarts a double-buffered conversion after an overrun, is left out; and what
noise makes the decoder hear is among the symbols of the run. The floats of `SinGen` are
rounded where the code stores one (`theta`, `dtheta`, `cursor_pos_f` and the product before
it); the doubles in between (`COS_THETA0`, and the quotient by it) count as exact, and so does
`samples_per_wave`, a whole number below 2^16 in every request. The text of an error reply is
one byte; log lines are left out of `EolBench`, as the tether only prints them; no two
messages are on the line out of order.

## 5. Plan

Done: mood and clock; modem; parser, framing and both links, the tether's end with
exceptions and restarts; `SerialRx`; the EOL stand with its scripts, the sine
generator and the packet classes; proofs of the safety invariants of all of these.

Left, in this order:

1. `EolCommands` with the whole `Modem`, whose recital it sees as two steps so far.
2. A run of `packet_frame` against `packet_rx_byte`, for the checksum of a packet whose
   address, command or length is escaped, which no receiver looks at today.

## 6. Not modelled

- Buttons and clock set-up: register accesses without a state of their own; `button_poll` is
  an input of the models that need it. The functions that turn the green LED on and off have
  no caller. Of the timers, the prescaler and the width of the period are modelled.
- System calls and fault handler: stubs for the C library; a register dump that is
  not part of the build.
- `nucleo_f767zi`: drivers the rest of the code has outgrown. Its `adc_setup` takes
  four arguments and `main.c` passes one, so the two do not build together, and there
  is no program to be faithful to.
- The dump console of `console.c`: copies bytes to a second port, for people.
- The DTMF filter (`dtmf.c`'s floating-point arithmetic): eight recursive filters over a
  thousand samples are more than TLC can compute with rounded fractions, as `SinGen` does for
  a wave; the magnitudes they can find are a choice in `Modem`.
- `watch_logs.py`, which only prints; `unpack`, which only a unit test calls; the generated
  protobuf code; unit tests (read with the code they test), notebooks and build files.
