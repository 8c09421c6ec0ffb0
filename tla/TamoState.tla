---------------------------- MODULE TamoState ----------------------------
(* The pure logic of src/code/src/tamo_state.c: what one call of            *)
(* tamo_state_update does, given the signed time dt since last_timestamp    *)
(* and whether a user is present.  The clock that produces dt is TamoClock. *)
EXTENDS Integers

CONSTANTS InteractionTimeout,     \* TAMO_INTERACTION_TIMEOUT, seconds
          IntrospectionTimeout    \* TAMO_INTROSPECTION_TIMEOUT, seconds

ASSUME TimeoutAssumption ==
    /\ InteractionTimeout \in Nat
    /\ IntrospectionTimeout \in Nat

\* The emotions the device can be in; UNKNOWN is only ever a verdict of
\* tamo_state_compute_next, never the stored current_emotion.
Emotions == {"LONELY", "HAPPY", "BORED"}

---------------------------------------------------------------------------

\* The arms of the switch in tamo_state_compute_next.
WhenLonely(user_present) == IF user_present THEN "HAPPY" ELSE "LONELY"

WhenHappy(dt, user_present) ==
    IF dt > InteractionTimeout THEN "BORED"
    ELSE IF user_present THEN "HAPPY" ELSE "LONELY"

WhenBored(dt, user_present) ==
    IF ~user_present /\ dt > IntrospectionTimeout THEN "LONELY" ELSE "BORED"

Verdict(emotion, lonely, happy, bored) ==
    IF emotion = "LONELY" THEN lonely
    ELSE IF emotion = "HAPPY" THEN happy ELSE bored

\* Mutant: a user seen at dt = timeout already bores the board.
BoredTooEarly(emotion, dt, user_present) ==
    IF dt < 0 THEN "UNKNOWN"
    ELSE Verdict(emotion, WhenLonely(user_present),
                 WhenHappy(dt + 1, user_present), WhenBored(dt, user_present))

\* The verdict on the next emotion; a negative dt (time travel) is UNKNOWN.
tamo_state_compute_next(emotion, dt, user_present) ==
    IF dt < 0 THEN "UNKNOWN"
    ELSE Verdict(emotion, WhenLonely(user_present),
                 WhenHappy(dt, user_present), WhenBored(dt, user_present))

\* Mutant: the UNKNOWN verdict is stored as it is.
StoresUnknown(emotion, dt, user_present) ==
    LET next    == tamo_state_compute_next(emotion, dt, user_present)
        changed == next # emotion
    IN  [emotion |-> next,
         changed |-> changed,
         stamped |-> changed \/ (user_present /\ next = "BORED")]

\* Mutant: the introspection is interrupted whether or not a user is there.
RestartsAlone(emotion, dt, user_present) ==
    LET verdict == tamo_state_compute_next(emotion, dt, user_present)
        force   == verdict = "UNKNOWN"
        next    == IF ~force THEN verdict
                   ELSE IF user_present THEN "HAPPY" ELSE "LONELY"
        changed == next # emotion \/ force
    IN  [emotion |-> next,
         changed |-> changed,
         stamped |-> changed \/ next = "BORED"]

\* What tamo_state_update does: the emotion it stores, the value it returns
\* (changed), and whether it restarts the clock (stamped: last_timestamp is
\* set to timestamp).  An UNKNOWN verdict becomes HAPPY or LONELY and is always
\* reported as a change; a user seen while BORED restarts the introspection.
tamo_state_update(emotion, dt, user_present) ==
    LET verdict == tamo_state_compute_next(emotion, dt, user_present)
        force   == verdict = "UNKNOWN"
        next    == IF ~force THEN verdict
                   ELSE IF user_present THEN "HAPPY" ELSE "LONELY"
        changed == next # emotion \/ force
    IN  [emotion |-> next,
         changed |-> changed,
         stamped |-> changed \/ (user_present /\ next = "BORED")]

===========================================================================
