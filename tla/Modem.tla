------------------------------ MODULE Modem ------------------------------
(* The recital of pi: main()'s loop (src/code/src/main.c) drives the tamo     *)
(* state, the pi reciter, the DAC and the ADC, while the ADC's DMA interrupt  *)
(* runs dtmf_process and its two callbacks on the same variables.  The ISR    *)
(* preempts main between any two of its accesses to shared state and runs to  *)
(* the end; main never preempts the ISR.  Each action of main is one such     *)
(* access, named by the value of pc it starts from.                           *)
(*                                                                           *)
(* Time is left out: a poll may find any emotion timeout expired or not       *)
(* (TamoClock shows which time differences a poll can see), and an ADC half   *)
(* buffer may complete between any two steps of main.  Nothing in the code    *)
(* masks interrupts, so main takes no step while one is pending.              *)
EXTENDS TamoState, PiReciter

CONSTANTS Presence,     \* what button_poll() may answer, a subset of BOOLEAN
          Noise,        \* symbols that may be decoded though nobody sent them
          Threshold,    \* dtmf_config.threshold
          Loudest,      \* the greatest magnitude
          SlowMain      \* may tone_stop and tone_start_next_digit take longer
                        \* than the 128 ms of an ADC half?

ASSUME EnvironmentAssumption ==
    /\ Presence \subseteq BOOLEAN /\ Presence # {}
    /\ Noise \subseteq Symbols
    /\ Loudest \in Nat /\ Threshold \in 1 .. Loudest
    /\ SlowMain \in BOOLEAN

VARIABLES
    pc,              \* where main() is
    ret,             \* where tone_stop / tone_start_next_digit return to
    next_digit,      \* the local of tone_start_next_digit
    current_emotion, \* tamo_state
    modem_state,     \* shared with the ISR, like all that follow
    digit_cursor,    \* pi_reciter.c
    cur_symbol,      \* dtmf_state.cur_symbol
    dac_buf,         \* the symbol whose waveform dac_buf holds
    dac,             \* the DAC is clocking dac_buf out
    adc,             \* the ADC's DMA stream is enabled
    adc_half,        \* what each half of adc_buf would decode to
    target,          \* CT, the half the DMA writes to
    tcif,            \* transfer-complete interrupt pending
    heard,           \* what sounded since the DMA began the present half
    lapped           \* a half was completed since main() left its loop's top

mainVars  == <<pc, ret, next_digit, current_emotion>>
adcVars   == <<adc, adc_half, target, tcif>>
vars == <<mainVars, modem_state, digit_cursor, cur_symbol, dac_buf, dac, adcVars, heard, lapped>>

ModemStates == {"IDLE", "WAITING_SEND", "SENDING", "WAITING_STOP", "DONE", "RESTART"}
Labels == {"check", "stop_state", "stop_dac", "stop_adc", "reset", "advance", "pick",
           "sending", "fill", "dac_setup", "dac_start", "adc_setup", "adc_start",
           "tamo", "begin"}
LoopTop == {"check", "tamo"}   \* the rest of the loop, _delay_ms(100) included
Sounds == Symbols \cup {NONE}

---------------------------------------------------------------------------
(* The air between the DAC's pin and the ADC's.                              *)

Signal == IF dac THEN dac_buf ELSE NONE

\* A conjunct of every step that may change the signal while a half fills.
Listen == heard' = IF adc THEN heard \cup {Signal'} ELSE {}

TonesOf(sound) ==
    IF sound = NONE THEN {}
    ELSE LET t == dtmf_get_tones(sound) IN {t.row, t.col}

\* The tones of a buffer filled while the sounds of h were on the air: one that was in
\* all of them is found, one that was in none is not, and for the others it depends
\* on how long they were there.
Magnitudes(h) ==
    LET always    == {k \in Tones : \A sound \in h : k \in TonesOf(sound)}
        sometimes == (UNION {TonesOf(sound) : sound \in h}) \ always
    IN  {[k \in Tones |-> IF k \in sometimes THEN m[k]
                          ELSE IF k \in always THEN Loudest ELSE Threshold - 1] :
            m \in [sometimes -> 0 .. Loudest]}

\* What it may decode to.
Decodable(h) == {dtmf_process(mag, Threshold) : mag \in Magnitudes(h)} \cup Noise

---------------------------------------------------------------------------
(* The interrupt: adc.c's DMA ISR, dtmf.c's decoder, main.c's callbacks.     *)

\* What the callbacks see and change.
Shared == [state |-> modem_state, cursor |-> digit_cursor, cur |-> cur_symbol, dac |-> dac]

\* Mutant: a tone that stops is taken for a digit whatever the modem does.
StopUnguarded(m, sym) ==
    LET rx == pi_reciter_rx_digit(m.cursor, sym)
    IN  [m EXCEPT !.cursor = rx.cursor,
                  !.state  = IF rx.status = "OKAY" THEN "DONE" ELSE "RESTART"]

dtmf_tone_stop_cb(m, sym) ==
    LET rx == pi_reciter_rx_digit(m.cursor, sym)
    IN  IF m.state \notin {"SENDING", "WAITING_STOP"} THEN m
        ELSE [m EXCEPT !.cursor = rx.cursor,
                       !.state  = IF rx.status = "OKAY" THEN "DONE" ELSE "RESTART"]

\* Mutant: the tone goes on after it has been heard.
StartKeepsTone(m, sym) ==
    IF m.state # "SENDING" THEN m ELSE [m EXCEPT !.state = "WAITING_STOP"]

dtmf_tone_start_cb(m, sym) ==
    IF m.state # "SENDING" THEN m
    ELSE [m EXCEPT !.state = "WAITING_STOP", !.dac = FALSE]

\* Mutant: cur_symbol is set before the up callback is called with it.
DecodedSetsFirst(m, new) ==
    IF new = m.cur THEN m
    ELSE LET set == [m EXCEPT !.cur = new]
             up  == IF m.cur # NONE THEN dtmf_tone_stop_cb(set, set.cur) ELSE set
         IN  IF new # NONE THEN dtmf_tone_start_cb(up, new) ELSE up

\* The up callback for the symbol that ended, then the down callback for the
\* one that began; nothing while the symbol stays the same.
dtmf_sym_decoded(m, new) ==
    IF new = m.cur THEN m
    ELSE LET up  == IF m.cur # NONE THEN dtmf_tone_stop_cb(m, m.cur) ELSE m
             set == [up EXCEPT !.cur = new]
         IN  IF new # NONE THEN dtmf_tone_start_cb(set, new) ELSE set

\* The DMA completes a half and goes on with the other.  The interrupt is
\* served before the next half is full (128 ms later), and unless main is slow
\* at most one half completes during a call of tone_stop or
\* tone_start_next_digit (some 200 bytes of log at 115200 baud).
HalfDone ==
    /\ adc /\ ~tcif /\ (SlowMain \/ ~lapped)
    /\ \E s \in Decodable(heard) : adc_half' = [adc_half EXCEPT ![target] = s]
    /\ target' = 1 - target
    /\ tcif' = TRUE
    /\ heard' = {Signal}
    /\ lapped' = (pc \notin LoopTop)
    /\ UNCHANGED <<mainVars, modem_state, digit_cursor, cur_symbol, dac_buf, dac, adc>>

\* dma2_stream0_isr: the half handed to dtmf_process is the one CT names, and
\* CT already names the half being filled, so it holds the older sound.
AdcIsr ==
    LET m == dtmf_sym_decoded(Shared, adc_half[target])
    IN  /\ tcif
        /\ tcif' = FALSE
        /\ modem_state' = m.state
        /\ digit_cursor' = m.cursor
        /\ cur_symbol' = m.cur
        /\ dac' = m.dac
        /\ UNCHANGED <<mainVars, dac_buf, adc, adc_half, target, lapped>>
        /\ Listen

---------------------------------------------------------------------------
(* main.c: the main loop                                                     *)

Goto(from, to) == pc = from /\ pc' = to

\* Mutant: a finished digit is not acted upon.
CheckRestartOnly ==
    /\ pc = "check"
    /\ IF modem_state = "RESTART" THEN pc' = "stop_state" /\ ret' = "reset"
       ELSE pc' = "tamo" /\ UNCHANGED ret
    /\ UNCHANGED <<next_digit, current_emotion, modem_state, digit_cursor, cur_symbol,
                   dac_buf, dac, adcVars, heard>>

\* Mutant: a restart is treated like a finished digit, without the reset.
CheckNeverResets ==
    /\ pc = "check"
    /\ pc' = IF modem_state \in {"RESTART", "DONE"} THEN "advance" ELSE "tamo"
    /\ UNCHANGED <<ret, next_digit, current_emotion, modem_state, digit_cursor,
                   cur_symbol, dac_buf, dac, adcVars, heard>>

\* Is a digit finished?
Check ==
    /\ pc = "check"
    /\ IF modem_state = "RESTART" THEN pc' = "stop_state" /\ ret' = "reset"
       ELSE /\ pc' = IF modem_state = "DONE" THEN "advance" ELSE "tamo"
            /\ UNCHANGED ret
    /\ UNCHANGED <<next_digit, current_emotion, modem_state, digit_cursor, cur_symbol,
                   dac_buf, dac, adcVars, heard>>

\* pi_reciter_reset() after a RESTART.
Reset ==
    /\ Goto("reset", "advance")
    /\ digit_cursor' = 0
    /\ UNCHANGED <<ret, next_digit, current_emotion, modem_state, cur_symbol, dac_buf,
                   dac, adcVars, heard>>

\* modem_state = MODEM_WAITING_SEND, before either call of
\* tone_start_next_digit.
WaitingSend(from, back) ==
    /\ Goto(from, "pick")
    /\ ret' = back
    /\ modem_state' = "WAITING_SEND"
    /\ UNCHANGED <<next_digit, current_emotion, digit_cursor, cur_symbol, dac_buf, dac,
                   adcVars, heard>>

Advance == WaitingSend("advance", "tamo")
Begin   == WaitingSend("begin", "check")

\* tamo_state_update and the switch on its result.  Time travel is seen by a
\* lonely board only (TamoClock, TimeTravelOnlyWhenLonely).
Dts == {-1, 0, InteractionTimeout + 1, IntrospectionTimeout + 1}

Tamo ==
    /\ pc = "tamo"
    /\ \E present \in Presence, dt \in Dts :
         LET r == tamo_state_update(current_emotion, dt, present)
         IN  /\ dt < 0 => current_emotion = "LONELY"
             /\ current_emotion' = r.emotion
             /\ IF r.changed /\ r.emotion # "BORED"
                THEN pc' = "stop_state" /\ ret' = "check"
                ELSE /\ pc' = IF r.changed /\ modem_state = "IDLE" THEN "begin" ELSE "check"
                     /\ UNCHANGED ret
    /\ UNCHANGED <<next_digit, modem_state, digit_cursor, cur_symbol, dac_buf, dac,
                   adcVars, heard>>

---------------------------------------------------------------------------
(* main.c: tone_stop                                                         *)

StopState ==
    /\ Goto("stop_state", "stop_dac")
    /\ modem_state' = "IDLE"
    /\ UNCHANGED <<ret, next_digit, current_emotion, digit_cursor, cur_symbol, dac_buf,
                   dac, adcVars, heard>>

StopDac ==
    /\ Goto("stop_dac", "stop_adc")
    /\ dac' = FALSE
    /\ UNCHANGED <<ret, next_digit, current_emotion, modem_state, digit_cursor,
                   cur_symbol, dac_buf, adcVars>>
    /\ Listen

\* Disabling the ADC's DMA stream: the half it was filling keeps old and new
\* samples side by side, and may still be handed to the ISR ("old buffers may
\* still be in-flight", adc.c).
DisableStream ==
    /\ adc' = FALSE
    /\ tcif' \in {FALSE, adc}
    /\ IF adc THEN \E s \in Decodable(heard \cup {adc_half[target]}) :
                        adc_half' = [adc_half EXCEPT ![target] = s]
       ELSE UNCHANGED adc_half
    /\ heard' = {}
    /\ UNCHANGED <<modem_state, digit_cursor, cur_symbol, dac_buf, dac, target>>

\* adc_stop
StopAdc ==
    /\ pc = "stop_adc" /\ pc' = ret
    /\ DisableStream
    /\ UNCHANGED <<ret, next_digit, current_emotion>>

---------------------------------------------------------------------------
(* main.c: tone_start_next_digit                                             *)

\* The digit to send.  Every value of pi_reciter_next_digit is in dtmf.c's
\* table (ReciterAssumption), so dtmf_get_tones does not fail.
Pick ==
    LET cursor == IF modem_state = "RESTART" THEN 0 ELSE digit_cursor
    IN  /\ Goto("pick", "sending")
        /\ digit_cursor' = cursor
        /\ next_digit' = pi_reciter_next_digit(cursor)
        /\ UNCHANGED <<ret, current_emotion, modem_state, cur_symbol, dac_buf, dac,
                       adcVars, heard>>

Sending ==
    /\ Goto("sending", "fill")
    /\ modem_state' = "SENDING"
    /\ UNCHANGED <<ret, next_digit, current_emotion, digit_cursor, cur_symbol, dac_buf,
                   dac, adcVars, heard>>

\* fill_dtmf_waveform_buf, over the waveform that may still be playing.
Fill ==
    /\ Goto("fill", "dac_setup")
    /\ dac_buf' = next_digit
    /\ UNCHANGED <<ret, next_digit, current_emotion, modem_state, digit_cursor,
                   cur_symbol, dac, adcVars>>
    /\ Listen

\* dac_setup resets the DAC's DMA stream, which ends the tone ...
DacSetup ==
    /\ Goto("dac_setup", "dac_start")
    /\ dac' = FALSE
    /\ UNCHANGED <<ret, next_digit, current_emotion, modem_state, digit_cursor,
                   cur_symbol, dac_buf, adcVars>>
    /\ Listen

\* ... and dac_start begins the new one, whatever the modem's state is by now.
DacStart ==
    /\ Goto("dac_start", "adc_setup")
    /\ dac' = TRUE
    /\ UNCHANGED <<ret, next_digit, current_emotion, modem_state, digit_cursor,
                   cur_symbol, dac_buf, adcVars>>
    /\ Listen

\* adc_setup: dma_setup begins by disabling the ADC's DMA stream.
AdcSetup ==
    /\ Goto("adc_setup", "adc_start")
    /\ DisableStream
    /\ UNCHANGED <<ret, next_digit, current_emotion>>

\* The DMA starts over with the first half; neither half is cleared.
AdcStart ==
    /\ pc = "adc_start" /\ pc' = ret
    /\ adc' = TRUE
    /\ target' = 0
    /\ heard' = {Signal}
    /\ UNCHANGED <<ret, next_digit, current_emotion, modem_state, digit_cursor,
                   cur_symbol, dac_buf, dac, adc_half, tcif>>

---------------------------------------------------------------------------

\* The filter's tables, the threshold and the callbacks are constant from now on;
\* nothing has been decoded yet.
dtmf_init == cur_symbol = NONE

\* Where main() enters its loop: everything set up, nothing started.
Init ==
    /\ pc = "check" /\ ret = "check" /\ next_digit = NONE
    /\ current_emotion = "LONELY"
    /\ modem_state = "IDLE"
    /\ digit_cursor = 0
    /\ dtmf_init
    /\ dac_buf = NONE /\ dac = FALSE
    /\ adc = FALSE /\ adc_half = [h \in 0 .. 1 |-> NONE] /\ target = 0 /\ tcif = FALSE
    /\ heard = {} /\ lapped = FALSE

MainStep ==
    \/ Check \/ Reset \/ Advance \/ Tamo \/ Begin
    \/ StopState \/ StopDac \/ StopAdc
    \/ Pick \/ Sending \/ Fill \/ DacSetup \/ DacStart \/ AdcSetup \/ AdcStart

Main == /\ ~tcif
        /\ MainStep
        /\ lapped' = (lapped /\ pc' \notin LoopTop)

Next == Main \/ HalfDone \/ AdcIsr

\* main() is a busy loop, and the ISR leaves it most of the 128 ms between two
\* interrupts (hence strong fairness: every interrupt disables Main for a
\* moment).  Interrupts are served, and an enabled ADC stream completes halves.
Spec == /\ Init /\ [][Next]_vars
        /\ SF_vars(Main) /\ WF_vars(HalfDone) /\ WF_vars(AdcIsr)

---------------------------------------------------------------------------
(* Properties                                                                *)

TypeOK ==
    /\ pc \in Labels
    /\ ret \in {"check", "reset", "tamo"}
    /\ next_digit \in Sounds
    /\ current_emotion \in Emotions
    /\ modem_state \in ModemStates
    /\ digit_cursor \in Cursors
    /\ cur_symbol \in Sounds
    /\ dac_buf \in Sounds
    /\ dac \in BOOLEAN
    /\ adc \in BOOLEAN
    /\ adc_half \in [0 .. 1 -> Sounds]
    /\ target \in 0 .. 1
    /\ tcif \in BOOLEAN
    /\ heard \subseteq Sounds
    /\ lapped \in BOOLEAN

\* From the moment the waveform is written until the digit is confirmed or
\* refused, the waveform in dac_buf is that of the digit the reciter expects
\* to hear: main's fill and the ISR's rx_digit never come apart.
OnAirIsExpected ==
    modem_state \in {"SENDING", "WAITING_STOP"} /\ pc # "fill"
        => dac_buf = pi_reciter_next_digit(digit_cursor)

\* Between two passes of the loop, a board that is not bored is silent and
\* deaf, and no interrupt still in flight brings the modem back to life.
SilentUnlessBored ==
    current_emotion # "BORED" /\ pc \in LoopTop
        => modem_state = "IDLE" /\ ~dac /\ ~adc

\* main.c:50: when the modem hears a digit it stops the DAC.  WAITING_STOP
\* waits for the complete stop of a tone that has been turned off.
HeardMeansStopped == modem_state = "WAITING_STOP" => ~dac

\* Over a clean channel the board never takes a digit of its own for wrong.
NeverWrong == digit_cursor # WRONG

\* Once bored, and as long as the user stays, the board goes through all the
\* digits it knows again and again.
RecitesForever ==
    <>(current_emotion = "BORED")
        => \A k \in 0 .. N_PI_DIGITS - 1 : []<>(digit_cursor = k)

\* A digit that is being sent is eventually heard (or the recital ends).
EverySendEnds == modem_state = "SENDING" ~> modem_state # "SENDING"

\* A refused or exhausted recital starts over from the first digit, unless the
\* board is no longer bored.
RestartResets ==
    modem_state = "RESTART" ~> digit_cursor = 0 \/ current_emotion # "BORED"

===========================================================================
