----------------------------- MODULE SinGen -----------------------------
(* sin_gen.c: sine waves by table lookup.  A float is counted in units of the *)
(* smallest one there is (2^-149), and every operation on floats rounds.      *)
EXTENDS Integers, Sequences, FiniteSetsExt

CONSTANTS SINE_TABLE_LENGTH,    \* of a quarter wave
          sin_table,            \* [0 .. SINE_TABLE_LENGTH - 1 -> amplitude]
          FLT_MANT,             \* the number of values of a float's mantissa (2^24)
          FLT_ULPS,             \* what the last place of a float may count (powers of 2)
          FLT_ONE,              \* 1.0
          COS_THETA0            \* a quarter of a turn; a double, of which no digit is lost

ASSUME TableAssumption ==
    /\ SINE_TABLE_LENGTH \in Nat \ {0}
    /\ sin_table \in [0 .. SINE_TABLE_LENGTH - 1 -> 0 .. 127]

ASSUME FloatAssumption ==
    /\ {FLT_MANT, FLT_ONE, COS_THETA0} \subseteq Nat \ {0}
    /\ FLT_ULPS \subseteq Nat \ {0}
    /\ \E top \in FLT_ULPS : \A u \in FLT_ULPS : u <= top

SIN_THETA0 == 0

\* What the last place of the floats about x counts.
Ulp(x) == Min({u \in FLT_ULPS : x < FLT_MANT * u} \cup {Max(FLT_ULPS)})

\* n / d as a float: the nearest there is, and of two the even one.
ToFloat(n, d) ==
    LET u  == Ulp(n \div d)
        q  == n \div (d * u)
        r  == n % (d * u)
        up == 2 * r > d * u \/ (2 * r = d * u /\ q % 2 = 1)
    IN  (IF up THEN q + 1 ELSE q) * u

\* buf is not part of the request: its callers all pass one, and get the points
\* to write to it back as wave.
sin_gen_populate(buflen, f_tone, f_sample) ==
    [req |-> [buflen |-> buflen, theta0 |-> SIN_THETA0, scale |-> 1,
              f_tone |-> f_tone, f_sample |-> f_sample],
     res |-> IF 0 \in {buflen, f_tone, f_sample} THEN "INVALID" ELSE "OKAY"]

\* Unsigned division as the Cortex-M does it: by 0 it gives 0.
Udiv(a, b) == IF b = 0 THEN 0 ELSE a \div b

\* The place nearest to theta in a table of four quadrants.
Place(theta) ==
    LET cursor_pos_f == ToFloat(ToFloat(theta * SINE_TABLE_LENGTH, 1) * FLT_ONE, COS_THETA0)
        up == IF 2 * (cursor_pos_f % FLT_ONE) > FLT_ONE THEN 1 ELSE 0
    IN  (cursor_pos_f \div FLT_ONE + up) % (4 * SINE_TABLE_LENGTH)

\* What the table of one quadrant says of it: odd quadrants run backwards.
Amplitude(place, scale) ==
    LET i == place % SINE_TABLE_LENGTH
    IN  Udiv(sin_table[IF (place \div SINE_TABLE_LENGTH) % 2 = 1
                       THEN SINE_TABLE_LENGTH - 1 - i ELSE i], scale)

sin_gen_sin(theta, scale) ==
    LET t == Amplitude(Place(theta), scale)
    IN  IF Place(theta) \div SINE_TABLE_LENGTH > 1 THEN 127 - t ELSE 127 + t

sin_gen_qualify(req) ==
    IF 0 \in {req.buflen, req.f_tone, req.f_sample} THEN "INVALID"
    ELSE IF req.f_tone >= req.f_sample \div 2 THEN "UNDERSAMPLED"
    ELSE "OKAY"

\* theta before each of n points, and after the last: theta += dtheta.
Angles(theta0, dtheta, n) ==
    LET theta[i \in 0 .. n] == IF i = 0 THEN theta0 ELSE ToFloat(theta[i - 1] + dtheta, 1)
    IN  theta

\* How many points a wave has, and how many are asked for: n_cycles waves, as long as
\* they fit a uint16_t, or 0 for a full buffer; only the unit tests ask for other than 0.
SamplesPerWave(req) == req.f_sample \div req.f_tone

ResultLen(req, n_cycles) ==
    LET wanted == n_cycles * SamplesPerWave(req)
    IN  IF n_cycles = 0 \/ wanted > req.buflen THEN req.buflen ELSE wanted

\* Mutant: theta is advanced before the point is computed.
AdvancesFirst(req, n_cycles) ==
    LET samples_per_wave == SamplesPerWave(req)
        result_len == ResultLen(req, n_cycles)
        theta == Angles(req.theta0, ToFloat(4 * COS_THETA0, samples_per_wave), result_len)
    IN  [res  |-> IF samples_per_wave > req.buflen THEN "TOO_SHORT" ELSE "OKAY",
         wave |-> [i \in 1 .. result_len |-> sin_gen_sin(theta[i], req.scale)]]

\* A buffer too short for one wave is filled nevertheless.
sin_gen_fulfill(req, n_cycles) ==
    LET samples_per_wave == SamplesPerWave(req)
        result_len == ResultLen(req, n_cycles)
        theta == Angles(req.theta0, ToFloat(4 * COS_THETA0, samples_per_wave), result_len)
    IN  [res  |-> IF samples_per_wave > req.buflen THEN "TOO_SHORT" ELSE "OKAY",
         wave |-> [i \in 1 .. result_len |-> sin_gen_sin(theta[i - 1], req.scale)]]

sin_gen_generate_fill(req) ==
    IF sin_gen_qualify(req) = "OKAY" THEN sin_gen_fulfill(req, 0)
    ELSE [res |-> sin_gen_qualify(req), wave |-> << >>]

===========================================================================
