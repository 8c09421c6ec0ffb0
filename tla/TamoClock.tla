---------------------------- MODULE TamoClock ----------------------------
(* The tamodevboard's mental state as main() drives it: PollsPerSecond       *)
(* (10 in the code) passes of the inner loop, each a button_poll(), a         *)
(* tamo_state_update() and the lights, then current_time++.  Timestamps are uint32_t and     *)
(* their difference is cast to int32_t; ClockMod stands for 2^32, so that     *)
(* TLC can run the clock round many times.                                    *)
EXTENDS TamoState, Leds

CONSTANTS ClockMod, PollsPerSecond,
          BlinkEvery                         \* polls between two toggles (5)

VARIABLES current_emotion, last_timestamp,   \* tamo_state
          current_time, j,                   \* main(): the clock, the inner loop
          user_present,                      \* main(): the last button_poll()
          leds                               \* leds.c

vars == <<current_emotion, last_timestamp, current_time, j, user_present, leds>>

HalfMod == ClockMod \div 2

\* The clock is a power of two (only that it is even matters), it is polled
\* at least once a second, and both timeouts are far below half its range.
ASSUME ClockAssumption ==
    /\ ClockMod \in Nat /\ ClockMod = 2 * HalfMod
    /\ PollsPerSecond \in Nat \ {0} /\ BlinkEvery \in Nat \ {0}
    /\ InteractionTimeout + 1 < HalfMod
    /\ IntrospectionTimeout + 1 < HalfMod

---------------------------------------------------------------------------

\* uint32_t subtraction: timestamp - tst->last_timestamp.
Elapsed(now, last) == IF now >= last THEN now - last ELSE now - last + ClockMod

\* The same bits as an int32_t.
Signed(d) == IF d < HalfMod THEN d ELSE d - ClockMod

\* Mutant: a happy board leaves the red light as it is.
KeepsRed(emotion) ==
    CASE emotion = "LONELY" -> led_red_on(led_blue_off(leds))
      [] emotion = "HAPPY"  -> led_blue_on(leds)
      [] emotion = "BORED"  -> IF j % BlinkEvery = 0 THEN led_blue_toggle(leds) ELSE leds
      [] OTHER              -> led_red_toggle(led_blue_toggle(leds))

\* Mutant: a bored board's light is turned on, not toggled.
BoredShines(emotion) ==
    CASE emotion = "LONELY" -> led_red_on(led_blue_off(leds))
      [] emotion = "HAPPY"  -> led_blue_on(led_red_off(leds))
      [] emotion = "BORED"  -> IF j % BlinkEvery = 0 THEN led_blue_on(leds) ELSE leds
      [] OTHER              -> led_red_toggle(led_blue_toggle(leds))

\* The lights after the poll numbered j.
Lights(emotion) ==
    CASE emotion = "LONELY" -> led_red_on(led_blue_off(leds))
      [] emotion = "HAPPY"  -> led_blue_on(led_red_off(leds))
      [] emotion = "BORED"  -> IF j % BlinkEvery = 0 THEN led_blue_toggle(leds) ELSE leds
      [] OTHER              -> led_red_toggle(led_blue_toggle(leds))

\* The rest of a pass of the inner loop once tamo_state_update has decided.
Store(verdict, restart, present) ==
    /\ j < PollsPerSecond
    /\ current_emotion' = verdict.emotion
    /\ last_timestamp' = IF restart THEN current_time ELSE last_timestamp
    /\ user_present' = present
    /\ leds' = Lights(verdict.emotion)
    /\ j' = j + 1
    /\ UNCHANGED current_time

\* Mutant: last_timestamp is restarted only when the emotion changes, so a user
\* who stays does not interrupt the introspection.
NoInterruption(present) ==
    LET dt == Signed(Elapsed(current_time, last_timestamp))
        r  == tamo_state_update(current_emotion, dt, present)
    IN  Store(r, r.changed, present)

\* Mutant: dt is kept unsigned, so time travel is never noticed.
UnsignedDt(present) ==
    LET dt == Elapsed(current_time, last_timestamp)
        r  == tamo_state_update(current_emotion, dt, present)
    IN  Store(r, r.stamped, present)

\* One pass of the inner loop, as far as it concerns the mood and the lights:
\* button_poll() yields present, tamo_state_update() and Lights do the rest.
Poll(present) ==
    LET dt == Signed(Elapsed(current_time, last_timestamp))
        r  == tamo_state_update(current_emotion, dt, present)
    IN  Store(r, r.stamped, present)

\* The inner loop ends: current_time++ on a uint32_t.
Second ==
    /\ j = PollsPerSecond
    /\ j' = 0
    /\ current_time' = IF current_time + 1 = ClockMod THEN 0 ELSE current_time + 1
    /\ UNCHANGED <<current_emotion, last_timestamp, user_present, leds>>

\* tamo_state_init(&tamo_state, current_time) with current_time = 0.
Init ==
    /\ current_emotion = "LONELY"
    /\ last_timestamp = 0
    /\ current_time = 0
    /\ j = 0
    /\ user_present = FALSE
    /\ leds = led_setup

\* adc_isr() at any time: the ADC reports an overrun.  Only the light is of
\* interest here; what the interrupt restarts is Modem's and EolBench's.
Overrun ==
    /\ leds' = led_green_toggle(leds)
    /\ UNCHANGED <<current_emotion, last_timestamp, current_time, j, user_present>>

\* The two steps of main()'s loop.
Loop == Second \/ \E present \in BOOLEAN : Poll(present)

Next == Loop \/ Overrun

\* main() is a busy loop: it never stops polling.  The ADC need not overrun.
Spec == Init /\ [][Next]_vars /\ WF_vars(Loop)

---------------------------------------------------------------------------

TypeOK ==
    /\ current_emotion \in Emotions
    /\ last_timestamp \in 0 .. ClockMod - 1
    /\ current_time \in 0 .. ClockMod - 1
    /\ j \in 0 .. PollsPerSecond
    /\ user_present \in BOOLEAN
    /\ leds \in Pins

SinceStamp == Elapsed(current_time, last_timestamp)

\* How old the present emotion may get before some poll acts on it: the
\* timeout of HAPPY and of BORED, half the clock's range for LONELY (where
\* the int32_t turns negative and the update is forced).
Horizon ==
    IF current_emotion = "HAPPY" THEN InteractionTimeout + 1
    ELSE IF current_emotion = "BORED" THEN IntrospectionTimeout + 1
    ELSE HalfMod

\* The uint32_t difference of tamo_state_update never runs past the point
\* where a poll restarts it, so it is always the true elapsed time however
\* often current_time has wrapped (the "exceptionally lonely devboards" of the
\* \todo at tamo_state.c:113).  At the last possible second the restart comes
\* with the first poll of that second.
NeverWraps == SinceStamp <= Horizon /\ (j > 0 => SinceStamp < Horizon)

\* Only a lonely board ever sees time travel (dt < 0): a recital can not be
\* cut short, nor a greeting repeated, by the clock's wrap-around.
TimeTravelOnlyWhenLonely ==
    current_emotion # "LONELY" => Signed(SinceStamp) >= 0

\* The abstract mood: seconds count in HAPPY and BORED only.
MoodAge == IF current_emotion = "LONELY" THEN 0 ELSE SinceStamp

M == INSTANCE Mood WITH mood <- current_emotion, age <- MoodAge

\* The 32-bit timestamps implement the ideal clock of Mood.
ImplementsMood == M!Spec

\* From the first poll on the red and the blue light tell the mood: red without
\* blue is lonely (a steady red, though main.c:447 has it blink), blue without red
\* is happy, no red and blue that comes and goes is bored.  The green one is not
\* main()'s: it says how often the ADC has overrun, and the mood can be read beside
\* it.  Nobody turns the red light off when the board gets bored (main.c:456): it is
\* off because a board that gets bored was happy before, whatever its clock did
\* meanwhile.
LightsTellMood ==
    \/ ~leds.red /\ ~leds.blue /\ current_emotion = "LONELY" /\ current_time = 0 /\ j = 0
    \/ current_emotion = "LONELY" /\ leds.red /\ ~leds.blue
    \/ current_emotion = "HAPPY" /\ ~leds.red /\ leds.blue
    \/ current_emotion = "BORED" /\ ~leds.red

\* The blue light of a board that stays bored never stops blinking.
BoredBlinks ==
    <>[](current_emotion = "BORED") => []<>leds.blue /\ []<>~leds.blue

\* A user who stays for good ends up with a board that is bored for good
\* ("if that person is around too long, it gets bored ... it remains bored").
StayingBores == <>[]user_present => <>[](current_emotion = "BORED")

\* After the user has left for good the board becomes and remains lonely,
\* across every wrap of the clock.
LeavingSaddens == <>[]~user_present => <>[](current_emotion = "LONELY")

===========================================================================
