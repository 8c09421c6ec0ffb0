------------------------- MODULE TamoClock_proofs -------------------------
(* Proofs about TamoClock, for every clock width, polling rate and pair of    *)
(* timeouts that ClockAssumption and TimeoutAssumption allow; the code's      *)
(* 2^32, 10, 3 and 5 among them.                                              *)
EXTENDS TamoClock, TLAPS

\* Type correctness and NeverWraps are inductive together.
IInv == TypeOK /\ NeverWraps

USE TimeoutAssumption, ClockAssumption DEF Emotions

---------------------------------------------------------------------------

\* What one call of tamo_state_update does: time travel is answered at once,
\* otherwise the switch arm of the emotion decides.
LEMMA UpdateCases ==
    ASSUME NEW e \in Emotions, NEW dt \in Int, NEW p \in BOOLEAN,
           NEW r, r = tamo_state_update(e, dt, p)
    PROVE  \/ dt < 0 /\ r.emotion = (IF p THEN "HAPPY" ELSE "LONELY") /\ r.stamped
           \/ dt >= 0 /\ e = "LONELY" /\ p /\ r.emotion = "HAPPY" /\ r.stamped
           \/ dt >= 0 /\ e = "LONELY" /\ ~p /\ r.emotion = "LONELY" /\ ~r.stamped
           \/ /\ dt > InteractionTimeout /\ e = "HAPPY"
              /\ r.emotion = "BORED" /\ r.stamped
           \/ /\ dt >= 0 /\ dt <= InteractionTimeout /\ e = "HAPPY"
              /\ p /\ r.emotion = "HAPPY" /\ ~r.stamped
           \/ /\ dt >= 0 /\ dt <= InteractionTimeout /\ e = "HAPPY"
              /\ ~p /\ r.emotion = "LONELY" /\ r.stamped
           \/ dt >= 0 /\ e = "BORED" /\ p /\ r.emotion = "BORED" /\ r.stamped
           \/ /\ dt > IntrospectionTimeout /\ e = "BORED"
              /\ ~p /\ r.emotion = "LONELY" /\ r.stamped
           \/ /\ dt >= 0 /\ dt <= IntrospectionTimeout /\ e = "BORED"
              /\ ~p /\ r.emotion = "BORED" /\ ~r.stamped
<1> DEFINE v == tamo_state_compute_next(e, dt, p)
           n == IF v # "UNKNOWN" THEN v ELSE IF p THEN "HAPPY" ELSE "LONELY"
           c == n # e \/ v = "UNKNOWN"
<1>1. r.emotion = n /\ (r.stamped <=> c \/ (p /\ n = "BORED"))
  BY DEF tamo_state_update
<1>2. CASE dt < 0
  <2>1. v = "UNKNOWN"
    BY <1>2 DEF tamo_state_compute_next
  <2> QED BY <1>1, <1>2, <2>1
<1>3. CASE dt >= 0 /\ e = "LONELY"
  <2>1. v = IF p THEN "HAPPY" ELSE "LONELY"
    BY <1>3 DEF tamo_state_compute_next, Verdict, WhenLonely
  <2> QED BY <1>1, <1>3, <2>1
<1>4. CASE dt >= 0 /\ e = "HAPPY"
  <2>1. v = IF dt > InteractionTimeout THEN "BORED"
            ELSE IF p THEN "HAPPY" ELSE "LONELY"
    BY <1>4 DEF tamo_state_compute_next, Verdict, WhenHappy
  <2> QED BY <1>1, <1>4, <2>1
<1>5. CASE dt >= 0 /\ e = "BORED"
  <2>1. v = IF ~p /\ dt > IntrospectionTimeout THEN "LONELY" ELSE "BORED"
    BY <1>5 DEF tamo_state_compute_next, Verdict, WhenBored
  <2> QED BY <1>1, <1>5, <2>1
<1> QED BY <1>2, <1>3, <1>4, <1>5

---------------------------------------------------------------------------

\* HalfMod is a natural number and half of ClockMod: all the arithmetic of the
\* clock that the proofs need.
LEMMA HalfModFacts == HalfMod \in Nat /\ ClockMod \in Nat /\ ClockMod = 2 * HalfMod
BY DEF HalfMod

\* The unsigned difference of two timestamps is again a timestamp, and the
\* int32_t reading of it is negative exactly from half the range on.
LEMMA ElapsedFacts ==
    ASSUME NEW now \in 0 .. ClockMod - 1, NEW last \in 0 .. ClockMod - 1
    PROVE  /\ Elapsed(now, last) \in 0 .. ClockMod - 1
           /\ Signed(Elapsed(now, last)) \in Int
           /\ Signed(Elapsed(now, last)) < 0 <=> Elapsed(now, last) >= HalfMod
           /\ Elapsed(now, last) < HalfMod =>
                 Signed(Elapsed(now, last)) = Elapsed(now, last)
           /\ Elapsed(now, now) = 0
BY HalfModFacts DEF Elapsed, Signed

\* A second that does not run the difference over the whole range adds one.
LEMMA ElapsedNextSecond ==
    ASSUME NEW now \in 0 .. ClockMod - 1, NEW last \in 0 .. ClockMod - 1,
           Elapsed(now, last) + 1 < ClockMod
    PROVE  Elapsed(IF now + 1 = ClockMod THEN 0 ELSE now + 1, last)
              = Elapsed(now, last) + 1
BY HalfModFacts DEF Elapsed

LEMMA HorizonFacts ==
    /\ Horizon \in Nat /\ Horizon <= HalfMod
    /\ current_emotion = "HAPPY" => Horizon = InteractionTimeout + 1
    /\ current_emotion = "BORED" => Horizon = IntrospectionTimeout + 1
    /\ current_emotion = "LONELY" => Horizon = HalfMod
<1>1. CASE current_emotion = "HAPPY"
  BY <1>1, HalfModFacts DEF Horizon
<1>2. CASE current_emotion = "BORED"
  BY <1>2, HalfModFacts DEF Horizon
<1>3. CASE current_emotion # "HAPPY" /\ current_emotion # "BORED"
  BY <1>3, HalfModFacts DEF Horizon
<1> QED BY <1>1, <1>2, <1>3

\* The lights of each mood.
LEMMA LightsFacts ==
    ASSUME leds \in Pins, NEW e \in Emotions
    PROVE  /\ Lights(e) \in Pins
           /\ e = "LONELY" => Lights(e).red /\ ~Lights(e).blue
           /\ e = "HAPPY" => ~Lights(e).red /\ Lights(e).blue
           /\ e = "BORED" => (Lights(e).red <=> leds.red)
<1>1. leds.red \in BOOLEAN /\ leds.blue \in BOOLEAN /\ leds.green \in BOOLEAN
  BY DEF Pins
<1>2. CASE e = "LONELY"
  <2>1. Lights(e) = led_red_on(led_blue_off(leds))
    BY <1>2 DEF Lights
  <2> QED BY <1>2, <2>1 DEF led_red_on, led_blue_off, Pins
<1>3. CASE e = "HAPPY"
  <2>1. Lights(e) = led_blue_on(led_red_off(leds))
    BY <1>3 DEF Lights
  <2> QED BY <1>3, <2>1 DEF led_blue_on, led_red_off, Pins
<1>4. CASE e = "BORED"
  <2>1. Lights(e) \in {leds, led_blue_toggle(leds)}
    BY <1>4 DEF Lights
  <2> QED BY <1>4, <2>1 DEF led_blue_toggle, Pins
<1> QED BY <1>2, <1>3, <1>4

\* What a poll leaves behind, in terms of the elapsed time.  Stated once for
\* the invariant and for the refinement.
LEMMA PollEffect ==
    ASSUME IInv, NEW p \in BOOLEAN, Poll(p)
    PROVE  /\ TypeOK'
           /\ \/ /\ current_emotion = "LONELY" /\ p
                 /\ current_emotion' = "HAPPY" /\ SinceStamp' = 0
              \/ /\ current_emotion = "LONELY" /\ ~p
                 /\ current_emotion' = "LONELY"
                 /\ SinceStamp' < HalfMod
              \/ /\ current_emotion = "HAPPY" /\ SinceStamp > InteractionTimeout
                 /\ current_emotion' = "BORED" /\ SinceStamp' = 0
              \/ /\ current_emotion = "HAPPY" /\ SinceStamp <= InteractionTimeout
                 /\ p /\ current_emotion' = "HAPPY" /\ SinceStamp' = SinceStamp
              \/ /\ current_emotion = "HAPPY" /\ SinceStamp <= InteractionTimeout
                 /\ ~p /\ current_emotion' = "LONELY" /\ SinceStamp' = 0
              \/ /\ current_emotion = "BORED" /\ p
                 /\ current_emotion' = "BORED" /\ SinceStamp' = 0
              \/ /\ current_emotion = "BORED" /\ SinceStamp > IntrospectionTimeout
                 /\ ~p /\ current_emotion' = "LONELY" /\ SinceStamp' = 0
              \/ /\ current_emotion = "BORED" /\ SinceStamp <= IntrospectionTimeout
                 /\ ~p /\ current_emotion' = "BORED" /\ SinceStamp' = SinceStamp
<1> DEFINE dt == Signed(Elapsed(current_time, last_timestamp))
           r  == tamo_state_update(current_emotion, dt, p)
<1>1. /\ j < PollsPerSecond /\ j' = j + 1
      /\ current_emotion' = r.emotion
      /\ last_timestamp' = IF r.stamped THEN current_time ELSE last_timestamp
      /\ user_present' = p
      /\ leds' = Lights(r.emotion)
      /\ current_time' = current_time
  BY DEF Poll, Store
<1>2. /\ current_emotion \in Emotions
      /\ current_time \in 0 .. ClockMod - 1
      /\ last_timestamp \in 0 .. ClockMod - 1
      /\ j \in 0 .. PollsPerSecond
      /\ leds \in Pins
  BY DEF IInv, TypeOK
<1>3. /\ dt \in Int
      /\ dt < 0 <=> SinceStamp >= HalfMod
      /\ SinceStamp < HalfMod => dt = SinceStamp
      /\ SinceStamp \in Nat
  BY <1>2, ElapsedFacts, HalfModFacts DEF SinceStamp
<1>4. /\ r.stamped => SinceStamp' = 0
      /\ ~r.stamped => SinceStamp' = SinceStamp
  BY <1>1, <1>2, ElapsedFacts DEF SinceStamp
<1>5. /\ SinceStamp <= HalfMod
      /\ current_emotion = "HAPPY" => SinceStamp <= InteractionTimeout + 1
      /\ current_emotion = "BORED" => SinceStamp <= IntrospectionTimeout + 1
  BY <1>2, <1>3, HalfModFacts DEF IInv, NeverWraps, Horizon
<1>6. current_emotion # "LONELY" => dt = SinceStamp /\ dt >= 0
  BY <1>2, <1>3, <1>5, HalfModFacts
<1> HIDE DEF dt, r
<1>7. \/ dt < 0 /\ r.emotion = (IF p THEN "HAPPY" ELSE "LONELY") /\ r.stamped
      \/ dt >= 0 /\ current_emotion = "LONELY" /\ p /\ r.emotion = "HAPPY" /\ r.stamped
      \/ dt >= 0 /\ current_emotion = "LONELY" /\ ~p /\ r.emotion = "LONELY" /\ ~r.stamped
      \/ /\ dt > InteractionTimeout /\ current_emotion = "HAPPY"
         /\ r.emotion = "BORED" /\ r.stamped
      \/ /\ dt >= 0 /\ dt <= InteractionTimeout /\ current_emotion = "HAPPY"
         /\ p /\ r.emotion = "HAPPY" /\ ~r.stamped
      \/ /\ dt >= 0 /\ dt <= InteractionTimeout /\ current_emotion = "HAPPY"
         /\ ~p /\ r.emotion = "LONELY" /\ r.stamped
      \/ dt >= 0 /\ current_emotion = "BORED" /\ p /\ r.emotion = "BORED" /\ r.stamped
      \/ /\ dt > IntrospectionTimeout /\ current_emotion = "BORED"
         /\ ~p /\ r.emotion = "LONELY" /\ r.stamped
      \/ /\ dt >= 0 /\ dt <= IntrospectionTimeout /\ current_emotion = "BORED"
         /\ ~p /\ r.emotion = "BORED" /\ ~r.stamped
  BY <1>2, <1>3, UpdateCases DEF r
<1>8. TypeOK'
  <2>1. leds' \in Pins
    BY <1>1, <1>2, <1>7, LightsFacts
  <2> QED BY <1>1, <1>2, <1>7, <2>1 DEF TypeOK
<1>9. dt >= 0 /\ current_emotion = "LONELY" => SinceStamp < HalfMod
  BY <1>3, HalfModFacts
<1>10. 0 < HalfMod
  BY HalfModFacts
<1> QED BY <1>1, <1>2, <1>3, <1>4, <1>6, <1>7, <1>8, <1>9, <1>10

\* The same for the second that passes: the elapsed time grows by one.
LEMMA SecondEffect ==
    ASSUME IInv, Second
    PROVE  /\ TypeOK'
           /\ current_emotion' = current_emotion
           /\ SinceStamp' = SinceStamp + 1
           /\ SinceStamp < Horizon
           /\ j' = 0
<1>1. /\ current_time \in 0 .. ClockMod - 1
      /\ last_timestamp \in 0 .. ClockMod - 1
      /\ current_emotion \in Emotions
  BY DEF IInv, TypeOK
<1>2. SinceStamp < Horizon
  BY DEF IInv, TypeOK, NeverWraps, Second
<1>3. Horizon \in Nat /\ Horizon <= HalfMod
  BY HorizonFacts
<1>4. Elapsed(current_time, last_timestamp) + 1 < ClockMod
  BY <1>1, <1>2, <1>3, ElapsedFacts, HalfModFacts DEF SinceStamp
<1>5. SinceStamp' = SinceStamp + 1
  BY <1>1, <1>4, ElapsedNextSecond DEF Second, SinceStamp
<1>6. current_time' \in 0 .. ClockMod - 1
  BY <1>1, HalfModFacts DEF Second
<1>7. TypeOK'
  BY <1>6 DEF IInv, TypeOK, Second
<1> QED BY <1>2, <1>5, <1>7 DEF Second

---------------------------------------------------------------------------

LEMMA InitInv == Init => IInv
<1> SUFFICES ASSUME Init PROVE IInv
  OBVIOUS
<1>1. SinceStamp = 0
  BY DEF Init, SinceStamp, Elapsed
<1>2. TypeOK
  <2>1. 0 \in 0 .. ClockMod - 1 /\ 0 \in 0 .. PollsPerSecond
    BY HalfModFacts
  <2>2. leds \in Pins
    BY DEF Init, led_setup, Pins
  <2> QED BY <2>1, <2>2 DEF Init, TypeOK
<1>3. NeverWraps
  BY <1>1, HorizonFacts DEF Init, NeverWraps
<1> QED BY <1>2, <1>3 DEF IInv

LEMMA NextInv == IInv /\ [Next]_vars => IInv'
<1> SUFFICES ASSUME IInv, [Next]_vars PROVE IInv'
  OBVIOUS
<1>1. CASE Second
  <2>1. Horizon' = Horizon
    BY SecondEffect, <1>1 DEF Horizon
  <2>2. SinceStamp \in Nat
    BY HalfModFacts, ElapsedFacts DEF IInv, TypeOK, SinceStamp
  <2>3. NeverWraps'
    BY <1>1, <2>1, <2>2, SecondEffect, HorizonFacts DEF NeverWraps
  <2> QED BY <1>1, <2>3, SecondEffect DEF IInv
<1>2. ASSUME NEW p \in BOOLEAN, Poll(p) PROVE IInv'
  <2>1. /\ SinceStamp \in Nat
        /\ HalfMod \in Nat
    BY HalfModFacts, ElapsedFacts DEF IInv, TypeOK, SinceStamp
  <2>2. SinceStamp' < Horizon'
    BY <1>2, <2>1, PollEffect DEF Horizon
  <2>3. SinceStamp' \in Nat /\ Horizon' \in Nat
    BY <1>2, <2>1, PollEffect, HalfModFacts, ElapsedFacts DEF Horizon, TypeOK, SinceStamp
  <2> QED BY <1>2, <2>2, <2>3, PollEffect DEF IInv, NeverWraps
<1>3. CASE Overrun
  <2>1. leds' \in Pins
    BY <1>3 DEF Overrun, led_green_toggle, IInv, TypeOK, Pins
  <2> QED BY <1>3, <2>1 DEF Overrun, IInv, TypeOK, NeverWraps, SinceStamp, Horizon, Elapsed
<1>4. CASE UNCHANGED vars
  BY <1>4 DEF vars, IInv, TypeOK, NeverWraps, SinceStamp, Horizon, Elapsed
<1> QED BY <1>1, <1>2, <1>3, <1>4 DEF Next, Loop

\* tamo_state and the clock keep their types for ever.
THEOREM TypeCorrect == Spec => []TypeOK
<1>1. IInv => TypeOK
  BY DEF IInv
<1> QED BY <1>1, InitInv, NextInv, PTL DEF Spec

\* However long the board runs, the 32-bit difference tamo_state_update works
\* with is the true time since the stamp, and bounded by the emotion's horizon.
THEOREM ClockNeverWraps == Spec => []NeverWraps
<1>1. IInv => NeverWraps
  BY DEF IInv
<1> QED BY <1>1, InitInv, NextInv, PTL DEF Spec

\* dt < 0 is seen by a lonely board only: no greeting and no boredom ends
\* because the clock wrapped.
THEOREM OnlyLonelyTimeTravel == Spec => []TimeTravelOnlyWhenLonely
<1>1. ASSUME IInv PROVE TimeTravelOnlyWhenLonely
  <2>1. SinceStamp \in Nat /\ SinceStamp <= Horizon /\ current_emotion \in Emotions
    BY <1>1, HalfModFacts, ElapsedFacts DEF IInv, TypeOK, NeverWraps, SinceStamp
  <2>2. current_emotion # "LONELY" => SinceStamp < HalfMod
    BY <2>1, HalfModFacts, HorizonFacts
  <2> QED BY <1>1, <2>2, HalfModFacts, ElapsedFacts
          DEF IInv, TypeOK, SinceStamp, TimeTravelOnlyWhenLonely
<1> QED BY <1>1, InitInv, NextInv, PTL DEF Spec

\* The red and the blue light tell the mood from the first poll on, however often
\* the clock has wrapped and the ADC has overrun: red never shows on a happy or a
\* bored board, nor blue on a lonely one.
THEOREM LightsAreTrue == Spec => []LightsTellMood
<1>1. Init => LightsTellMood
  BY DEF Init, led_setup, LightsTellMood
<1>2. IInv /\ LightsTellMood /\ [Next]_vars => LightsTellMood'
  <2> SUFFICES ASSUME IInv, LightsTellMood, [Next]_vars PROVE LightsTellMood'
    OBVIOUS
  <2>1. CASE Second
    <3>1. j # 0 /\ UNCHANGED <<current_emotion, leds>>
      BY <2>1 DEF Second
    <3> QED BY <3>1 DEF LightsTellMood
  <2>2. ASSUME NEW p \in BOOLEAN, Poll(p) PROVE LightsTellMood'
    <3>1. leds' = Lights(current_emotion') /\ current_emotion' \in Emotions /\ leds \in Pins
      BY <2>2, PollEffect DEF Poll, Store, IInv, TypeOK
    <3>2. current_emotion' = "BORED" => current_emotion \in {"HAPPY", "BORED"}
      BY <2>2, PollEffect
    <3>3. current_emotion \in {"HAPPY", "BORED"} => ~leds.red
      BY DEF LightsTellMood
    <3> HIDE DEF Lights
    <3>4. /\ current_emotion' = "LONELY" => Lights(current_emotion').red /\ ~Lights(current_emotion').blue
          /\ current_emotion' = "HAPPY" => ~Lights(current_emotion').red /\ Lights(current_emotion').blue
          /\ current_emotion' = "BORED" => (Lights(current_emotion').red <=> leds.red)
      BY <3>1, LightsFacts
    <3> QED BY <3>1, <3>2, <3>3, <3>4 DEF LightsTellMood
  <2>3. CASE Overrun
    <3>1. leds \in Pins
      BY DEF IInv, TypeOK
    <3>2. leds'.red = leds.red /\ leds'.blue = leds.blue
      BY <2>3, <3>1 DEF Overrun, led_green_toggle, Pins
    <3> QED BY <2>3, <3>2 DEF Overrun, LightsTellMood
  <2>4. CASE UNCHANGED vars
    BY <2>4 DEF vars, LightsTellMood
  <2> QED BY <2>1, <2>2, <2>3, <2>4 DEF Next, Loop
<1> QED BY <1>1, <1>2, InitInv, NextInv, PTL DEF Spec

---------------------------------------------------------------------------

LEMMA RefineInit == Init => M!Init
BY HalfModFacts DEF Init, M!Init, MoodAge

LEMMA RefineNext == IInv /\ [Next]_vars => [M!Next]_(M!vars)
<1> SUFFICES ASSUME IInv, [Next]_vars PROVE [M!Next]_(M!vars)
  OBVIOUS
<1>0. SinceStamp \in Nat
  BY HalfModFacts, ElapsedFacts DEF IInv, TypeOK, SinceStamp
<1>1. CASE Second
  <2>1. M!Second
    BY <1>0, <1>1, SecondEffect DEF M!Second, MoodAge
  <2> QED BY <2>1 DEF M!Next
<1>2. ASSUME NEW p \in BOOLEAN, Poll(p) PROVE [M!Next]_(M!vars)
  BY <1>0, <1>2, PollEffect
     DEF M!Next, M!vars, M!Greet, M!TireOf, M!Miss, M!Interrupt, M!Introspect,
         M!Become, MoodAge
<1>3. CASE Overrun \/ UNCHANGED vars
  BY <1>3 DEF Overrun, vars, M!vars, MoodAge, SinceStamp, Elapsed
<1> QED BY <1>1, <1>2, <1>3 DEF Next, Loop

\* The 32-bit clock implements the ideal one, step by step.
THEOREM MoodImplemented == Spec => ImplementsMood
<1> QED BY RefineInit, RefineNext, InitInv, NextInv, PTL DEF Spec, ImplementsMood, M!Spec

===========================================================================
