------------------------------- MODULE Mood -------------------------------
(* What the tamodevboard promises (tamo_state.c, its module comment): lonely  *)
(* until someone comes, then happy for a while, then bored for as long as     *)
(* they stay, and lonely again some time after they left.  Time here is       *)
(* ideal: age is the true number of seconds since the mood began, or since    *)
(* the user was last seen while bored; it never wraps and is never compared   *)
(* with anything stored.  TamoClock implements this with 32-bit timestamps.   *)
EXTENDS Naturals

CONSTANTS InteractionTimeout, IntrospectionTimeout

VARIABLES mood, age

vars == <<mood, age>>

Init == mood = "LONELY" /\ age = 0

\* A second passes.  Nobody counts the seconds of loneliness.
Second ==
    /\ age' = IF mood = "LONELY" THEN 0 ELSE age + 1
    /\ UNCHANGED mood

Become(m) == mood' = m /\ age' = 0

Greet == mood = "LONELY" /\ Become("HAPPY")

TireOf == mood = "HAPPY" /\ age > InteractionTimeout /\ Become("BORED")

\* Left alone while still happy.
Miss == mood = "HAPPY" /\ age <= InteractionTimeout /\ Become("LONELY")

\* The user is still here: boredom goes on and the introspection starts anew.
Interrupt == mood = "BORED" /\ Become("BORED")

Introspect == mood = "BORED" /\ age > IntrospectionTimeout /\ Become("LONELY")

Next == Second \/ Greet \/ TireOf \/ Miss \/ Interrupt \/ Introspect

Spec == Init /\ [][Next]_vars

===========================================================================
