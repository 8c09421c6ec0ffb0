-------------------------- MODULE EolBench_proofs --------------------------
(* The end-of-line stand, for buffers, scripts' arguments, sine tables, float  *)
(* formats and readings of any kind.  First what its parts compute: floats and *)
(* sine waves, and what is packed and unpacked; then the types and echo.py;    *)
(* then dac_control.py and adc_control.py, each with its own invariant.        *)
EXTENDS EolBench, SequenceTheorems, WellFoundedInduction, TLAPS

Circle == 4 * SINE_TABLE_LENGTH

---------------------------------------------------------------------------
(* Whole numbers                                                             *)

\* Division with remainder.
LEMMA Division ==
    ASSUME NEW a \in Nat, NEW b \in Nat, b > 0
    PROVE  /\ a \div b \in Nat /\ a % b \in 0 .. b - 1
           /\ a = b * (a \div b) + (a % b)
<1>1. a \div b \in Nat  OBVIOUS
<1>2. a % b \in 0 .. b - 1  OBVIOUS
<1>3. a = b * (a \div b) + (a % b)  BY Z3
<1>. QED  BY <1>1, <1>2, <1>3

\* Quotient and remainder are the only ones.
LEMMA Quotient ==
    ASSUME NEW b \in Nat, b > 0, NEW q \in Nat, NEW r \in 0 .. b - 1
    PROVE  (b * q + r) \div b = q /\ (b * q + r) % b = r
<1>. DEFINE a == b * q + r
<1>1. b * q \in Nat  OBVIOUS
<1>2. a \in Nat  BY <1>1
<1>. DEFINE e == q - (a \div b)
<1>3. a \div b \in Nat /\ a % b \in 0 .. b - 1 /\ a = b * (a \div b) + (a % b)
  BY <1>2, Division
<1>4. e \in Int  BY <1>3
<1>5. b * e = (a % b) - r
  <2>1. b * e = b * q - b * (a \div b)  BY <1>3
  <2>. QED  BY <1>1, <1>3, <2>1
<1>6. e < 1
  <2>1. CASE e >= 1
    <3>1. b * e >= b  BY <1>4, <2>1
    <3>. QED  BY <1>3, <1>5, <3>1
  <2>. QED  BY <1>4, <2>1
<1>7. e > -1
  <2>1. CASE e <= -1
    <3>1. b * e <= 0 - b  BY <1>4, <2>1
    <3>. QED  BY <1>3, <1>5, <3>1
  <2>. QED  BY <1>4, <2>1
<1>8. e = 0  BY <1>4, <1>6, <1>7
<1>. QED  BY <1>3, <1>5, <1>8

\* Every set of numbers that is not empty has a least one.
LEMMA Least ==
    ASSUME NEW T \in SUBSET Nat, T # {}
    PROVE  \E n \in T : \A m \in T : n <= m
<1>1. IsWellFoundedOn(OpToRel(<, Nat), Nat)
  BY NatLessThanWellFounded
<1>2. PICK n \in T : \A m \in T : ~ (<<m, n>> \in OpToRel(<, Nat))
  BY <1>1, WFMin
<1>3. \A m \in T : ~(m < n)
  BY <1>2 DEF OpToRel
<1>. QED BY <1>3

\* What holds of 0 and of the successor of each number it holds of, as a set.
LEMMA Induct ==
    ASSUME NEW S, 0 \in S, \A n \in Nat : n \in S => n + 1 \in S
    PROVE  Nat \subseteq S
<1>. DEFINE T == {n \in Nat : n \notin S}
<1>1. SUFFICES ASSUME T # {} PROVE FALSE
  OBVIOUS
<1>2. PICK n \in T : \A m \in T : n <= m
  BY <1>1, Least
<1>3. n # 0 /\ n - 1 \in Nat /\ n - 1 < n
  OBVIOUS
<1>4. n - 1 \in S
  BY <1>2, <1>3
<1>. QED BY <1>3, <1>4

---------------------------------------------------------------------------
(* Floats                                                                    *)

\* The constants of the float's format are positive.
LEMMA FloatFacts ==
    /\ FLT_MANT \in Nat /\ FLT_MANT > 0 /\ FLT_ONE \in Nat /\ FLT_ONE > 0
    /\ COS_THETA0 \in Nat /\ COS_THETA0 > 0
    /\ \A u \in FLT_ULPS : u \in Nat /\ u > 0
BY FloatAssumption

\* There is a last place for every number, and none that is smaller will do.
LEMMA UlpLeast ==
    ASSUME NEW x \in Nat
    PROVE  /\ Ulp(x) \in FLT_ULPS
           /\ \A u \in FLT_ULPS : x < FLT_MANT * u => Ulp(x) <= u
<1>. DEFINE S == {u \in FLT_ULPS : x < FLT_MANT * u} \cup {Max(FLT_ULPS)}
<1>1. \E top \in FLT_ULPS : \A u \in FLT_ULPS : top >= u
  BY FloatAssumption
<1>2. Max(FLT_ULPS) \in FLT_ULPS
  BY <1>1 DEF Max
<1>3. S \in SUBSET Nat /\ S # {} /\ S \subseteq FLT_ULPS
  BY <1>2, FloatFacts
<1>4. Ulp(x) = Min(S)
  BY DEF Ulp
<1>5. \A u \in FLT_ULPS : x < FLT_MANT * u => u \in S
  OBVIOUS
<1>. HIDE DEF S
<1>6. \E n \in S : \A m \in S : n <= m
  BY <1>3, Least
<1>7. Min(S) \in S /\ \A m \in S : Min(S) <= m
  BY <1>6 DEF Min
<1>. QED  BY <1>3, <1>4, <1>5, <1>7

\* A quotient is rounded by no more than half of the last place.
LEMMA Rounded ==
    ASSUME NEW n \in Nat, NEW d \in Nat, d > 0
    PROVE  /\ ToFloat(n, d) \in Nat
           /\ 2 * (ToFloat(n, d) * d - n) <= d * Ulp(n \div d)
           /\ 2 * (n - ToFloat(n, d) * d) <= d * Ulp(n \div d)
<1>. DEFINE u == Ulp(n \div d)
            m == d * u
            q == n \div m
            r == n % m
            above == 2 * r > m \/ (2 * r = m /\ q % 2 = 1)
            k == IF above THEN q + 1 ELSE q
<1>1. u \in Nat /\ u > 0
  BY Division, UlpLeast, FloatFacts
<1>2. ToFloat(n, d) = k * u
  BY DEF ToFloat
<1>. HIDE DEF u
<1>3. m \in Nat /\ m > 0
  BY <1>1
<1>. HIDE DEF m
<1>4. q \in Nat /\ r \in 0 .. m - 1 /\ n = m * q + r
  BY <1>3, Division
<1>. HIDE DEF q, r
<1>5. k \in Nat /\ k * u \in Nat
  BY <1>1, <1>4
<1>6. (k * u) * d = m * k
  BY <1>1, <1>5 DEF m
<1>7. 2 * (m * k - n) <= m /\ 2 * (n - m * k) <= m
  <2>1. m * (q + 1) = m * q + m /\ m * q \in Nat
    BY <1>3, <1>4
  <2>2. CASE above
    BY <1>3, <1>4, <2>1, <2>2
  <2>3. CASE ~above
    BY <1>3, <1>4, <2>1, <2>3
  <2>. QED  BY <2>2, <2>3
<1>. HIDE DEF k
<1>. QED  BY <1>2, <1>5, <1>6, <1>7 DEF m, u

\* So is one of which a last place is known that is large enough.
LEMMA RoundedWithin ==
    ASSUME NEW n \in Nat, NEW d \in Nat, d > 0, NEW u \in FLT_ULPS, n < FLT_MANT * u * d
    PROVE  /\ 2 * (ToFloat(n, d) * d - n) <= d * u
           /\ 2 * (n - ToFloat(n, d) * d) <= d * u
<1>. DEFINE x == n \div d
            v == Ulp(x)
            a == FLT_MANT * u
<1>1. x \in Nat /\ n % d \in 0 .. d - 1 /\ n = d * x + (n % d)
  BY Division
<1>2. u \in Nat /\ a \in Nat
  BY FloatFacts
<1>3. x < a
  <2>. HIDE DEF a, x
  <2>1. CASE x >= a
    <3>1. d * x >= d * a  BY <1>1, <1>2, <2>1
    <3>2. n < d * a  BY <1>2 DEF a
    <3>. QED  BY <1>1, <1>2, <3>1, <3>2
  <2>. QED  BY <1>1, <1>2, <2>1
<1>4. v \in Nat /\ v <= u
  BY <1>1, <1>3, UlpLeast, FloatFacts
<1>. HIDE DEF v
<1>5. d * v <= d * u
  BY <1>2, <1>4
<1>6. ToFloat(n, d) \in Nat /\ 2 * (ToFloat(n, d) * d - n) <= d * v /\ 2 * (n - ToFloat(n, d) * d) <= d * v
  BY Rounded DEF v, x
<1>. QED  BY <1>2, <1>4, <1>5, <1>6

\* f is the recursive function of Angles.
Adds(f, a, d, n) == f = [i \in 0 .. n |-> IF i = 0 THEN a ELSE ToFloat(f[i - 1] + d, 1)]

\* There is one.
LEMMA Addition ==
    ASSUME NEW a, NEW d
    PROVE  \A n \in Nat : \E f : Adds(f, a, d, n)
<1>. DEFINE S == {n \in Nat : \E f : Adds(f, a, d, n)}
<1>1. 0 \in S
  <2>. DEFINE f == [i \in 0 .. 0 |-> a]
  <2>1. Adds(f, a, d, 0)
    BY DEF Adds
  <2>. QED  BY <2>1
<1>2. ASSUME NEW n \in Nat, n \in S PROVE n + 1 \in S
  <2>1. PICK f : Adds(f, a, d, n)
    BY <1>2
  <2>. DEFINE g == [i \in 0 .. n + 1 |-> IF i <= n THEN f[i] ELSE ToFloat(f[n] + d, 1)]
  <2>2. \A i \in 0 .. n : f[i] = IF i = 0 THEN a ELSE ToFloat(f[i - 1] + d, 1)
    BY <2>1, Zenon DEF Adds
  <2>3. ASSUME NEW i \in 0 .. n + 1
        PROVE  g[i] = IF i = 0 THEN a ELSE ToFloat(g[i - 1] + d, 1)
    <3>1. i # 0 => i - 1 \in 0 .. n /\ g[i - 1] = f[i - 1]
      OBVIOUS
    <3>2. CASE i <= n
      <4>1. i \in 0 .. n /\ g[i] = f[i]
        BY <3>2
      <4>. HIDE DEF g
      <4>. QED  BY <2>2, <3>1, <4>1
    <3>3. CASE i = n + 1
      <4>1. i # 0 /\ i - 1 = n /\ g[i] = ToFloat(f[n] + d, 1)
        BY <3>3
      <4>. HIDE DEF g
      <4>. QED  BY <3>1, <4>1
    <3>. QED  BY <3>2, <3>3
  <2>4. g = [i \in 0 .. n + 1 |-> g[i]]
    OBVIOUS
  <2>. HIDE DEF g
  <2>5. Adds(g, a, d, n + 1)
    BY <2>3, <2>4, Zenon DEF Adds
  <2>. QED  BY <2>5
<1>. HIDE DEF S
<1>3. Nat \subseteq S
  BY <1>1, <1>2, Induct
<1>. QED  BY <1>3 DEF S

\* theta before each turn of the loop.
LEMMA AnglesAdded ==
    ASSUME NEW a \in Nat, NEW d \in Nat, NEW n \in Nat
    PROVE  /\ Angles(a, d, n)[0] = a
           /\ \A i \in Nat : i < n =>
                Angles(a, d, n)[i + 1] = ToFloat(Angles(a, d, n)[i] + d, 1)
           /\ \A i \in Nat : i <= n => Angles(a, d, n)[i] \in Nat
<1>. DEFINE f == Angles(a, d, n)
<1>1. Adds(f, a, d, n)
  <2>. DEFINE Body(g) == [i \in 0 .. n |-> IF i = 0 THEN a ELSE ToFloat(g[i - 1] + d, 1)]
              theta == CHOOSE g : g = Body(g)
  <2>1. f = theta
    BY Zenon DEF Angles
  <2>2. PICK g : g = Body(g)
    <3>1. \E g : Adds(g, a, d, n)
      BY Addition
    <3>. QED  BY <3>1, Zenon DEF Adds
  <2>. HIDE DEF Body
  <2>3. theta = Body(theta)
    BY <2>2, Zenon
  <2>. HIDE DEF f, theta
  <2>. QED  BY <2>1, <2>3, Zenon DEF Adds, Body
<1>. HIDE DEF f
<1>2. \A i \in 0 .. n : f[i] = IF i = 0 THEN a ELSE ToFloat(f[i - 1] + d, 1)
  BY <1>1, Zenon DEF Adds
<1>3. f[0] = a
  BY <1>2
<1>4. ASSUME NEW i \in Nat, i < n PROVE f[i + 1] = ToFloat(f[i] + d, 1)
  <2>1. i + 1 \in 0 .. n /\ i + 1 # 0 /\ (i + 1) - 1 = i
    BY <1>4
  <2>. QED  BY <1>2, <2>1
<1>5. \A i \in Nat : i <= n => f[i] \in Nat
  <2>. DEFINE S == {i \in Nat : i <= n => f[i] \in Nat}
  <2>1. 0 \in S
    BY <1>3
  <2>2. ASSUME NEW i \in Nat, i \in S PROVE i + 1 \in S
    <3>. SUFFICES ASSUME i + 1 <= n PROVE f[i + 1] \in Nat
      OBVIOUS
    <3>1. i < n /\ f[i] \in Nat /\ f[i] + d \in Nat
      BY <2>2
    <3>. DEFINE m == f[i] + d
    <3>2. f[i + 1] = ToFloat(m, 1) /\ m \in Nat
      BY <1>4, <3>1
    <3>. HIDE DEF m
    <3>3. ToFloat(m, 1) \in Nat
      BY <3>2, Rounded
    <3>. QED  BY <3>2, <3>3
  <2>. HIDE DEF S
  <2>3. Nat \subseteq S
    BY <2>1, <2>2, Induct
  <2>. QED  BY <2>3, Zenon DEF S
<1>. QED  BY <1>3, <1>4, <1>5 DEF f

\* One addition more: the error grows by the step's and by the rounding's, together
\* no more than a last place.
LEMMA DriftGrows ==
    ASSUME NEW C \in Nat, NEW B \in Nat, NEW p \in Nat, NEW t \in Nat, NEW i \in Nat,
           NEW u \in Nat, NEW x \in Nat, NEW d \in Nat, NEW y \in Nat,
           2 * (x * (B * p) - C * (t * p + i * B)) <= (2 * i + 1) * (u * (B * p)),
           2 * (C * (t * p + i * B) - x * (B * p)) <= (2 * i + 1) * (u * (B * p)),
           2 * (d * p - C) <= p * u, 2 * (C - d * p) <= p * u,
           2 * (y - (x + d)) <= u, 2 * ((x + d) - y) <= u
    PROVE  /\ 2 * (y * (B * p) - C * (t * p + (i + 1) * B)) <= (2 * (i + 1) + 1) * (u * (B * p))
           /\ 2 * (C * (t * p + (i + 1) * B) - y * (B * p)) <= (2 * (i + 1) + 1) * (u * (B * p))
<1>. DEFINE D  == B * p
            N  == C * (t * p + i * B)
            CB == C * B
            uD == u * D
            xD == x * D
            dD == d * D
            yD == y * D
            e  == 2 * i + 1
            euD == e * uD
<1>1. /\ D \in Nat /\ N \in Nat /\ CB \in Nat /\ uD \in Nat /\ xD \in Nat /\ dD \in Nat
      /\ yD \in Nat /\ e \in Nat /\ euD \in Nat
  <2>1. D \in Nat /\ CB \in Nat /\ e \in Nat  OBVIOUS
  <2>2. N \in Nat  OBVIOUS
  <2>. HIDE DEF D, N, CB, e
  <2>3. uD \in Nat /\ xD \in Nat /\ dD \in Nat /\ yD \in Nat  BY <2>1
  <2>. HIDE DEF uD
  <2>4. euD \in Nat  BY <2>1, <2>3
  <2>. QED  BY <2>1, <2>2, <2>3, <2>4
<1>2. C * (t * p + (i + 1) * B) = N + CB
  OBVIOUS
<1>3. (2 * (i + 1) + 1) * uD = euD + 2 * uD
  <2>1. (2 * (i + 1) + 1) = e + 2  OBVIOUS
  <2>. HIDE DEF e, uD
  <2>. QED  BY <1>1, <2>1
<1>4. 2 * dD - 2 * CB <= uD /\ 2 * CB - 2 * dD <= uD
  <2>. DEFINE a == d * p
              b == p * u
  <2>1. a \in Nat /\ b \in Nat  OBVIOUS
  <2>2. dD = B * a /\ uD = B * b /\ CB = B * C
    OBVIOUS
  <2>3. 2 * (a - C) <= b /\ 2 * (C - a) <= b
    OBVIOUS
  <2>. HIDE DEF a, b
  <2>4. b - 2 * (a - C) \in Nat /\ b - 2 * (C - a) \in Nat
    BY <2>1, <2>3
  <2>5. B * (b - 2 * (a - C)) \in Nat /\ B * (b - 2 * (C - a)) \in Nat
    BY <2>4
  <2>6. /\ B * (b - 2 * (a - C)) = B * b - 2 * (B * a) + 2 * (B * C)
        /\ B * (b - 2 * (C - a)) = B * b - 2 * (B * C) + 2 * (B * a)
    BY <2>1
  <2>7. B * a \in Nat /\ B * b \in Nat /\ B * C \in Nat
    BY <2>1
  <2>. QED  BY <2>2, <2>5, <2>6, <2>7
<1>5. 2 * yD - 2 * xD - 2 * dD <= uD /\ 2 * xD + 2 * dD - 2 * yD <= uD
  <2>. HIDE DEF D
  <2>1. u - 2 * (y - (x + d)) \in Nat /\ u - 2 * ((x + d) - y) \in Nat
    OBVIOUS
  <2>2. D * (u - 2 * (y - (x + d))) \in Nat /\ D * (u - 2 * ((x + d) - y)) \in Nat
    BY <1>1, <2>1
  <2>3. /\ D * (u - 2 * (y - (x + d))) = uD - 2 * yD + 2 * xD + 2 * dD
        /\ D * (u - 2 * ((x + d) - y)) = uD - 2 * xD - 2 * dD + 2 * yD
    BY <1>1
  <2>. QED  BY <1>1, <2>2, <2>3
<1>6. 2 * (xD - N) <= euD /\ 2 * (N - xD) <= euD
  OBVIOUS
<1>7. y * (B * p) = yD /\ u * (B * p) = uD
  OBVIOUS
<1>. HIDE DEF D, N, CB, uD, xD, dD, yD, e, euD
<1>8. 2 * (yD - (N + CB)) <= euD + 2 * uD /\ 2 * ((N + CB) - yD) <= euD + 2 * uD
  BY <1>1, <1>4, <1>5, <1>6
<1>. QED  BY <1>2, <1>3, <1>7, <1>8

\* As long as the wave lasts, theta and dtheta together are small enough for the
\* last place that all of its angles have.
LEMMA DriftBounded ==
    ASSUME NEW C \in Nat, C > 0, NEW B \in Nat, NEW p \in Nat, p > 0, NEW w \in Nat, NEW t \in 0 .. B - 1,
           NEW i \in Nat, i + 1 < p * w, NEW u \in Nat, NEW x \in Nat, NEW d \in Nat, NEW F \in Nat,
           C * (w + 1) + p * w * u <= F,
           2 * (x * (B * p) - C * (t * p + i * B)) <= (2 * i + 1) * (u * (B * p)),
           2 * (d * p - C) <= p * u
    PROVE  x + d < F
<1>. DEFINE D  == B * p
            N  == C * (t * p + i * B)
            CB == C * B
            uD == u * D
            xD == x * D
            dD == d * D
            iuD == i * uD
            wD == w * D
<1>0. B > 0 /\ t \in Nat
  OBVIOUS
<1>1. /\ D \in Nat /\ D > 0 /\ N \in Nat /\ CB \in Nat /\ uD \in Nat /\ xD \in Nat /\ dD \in Nat
      /\ iuD \in Nat /\ wD \in Nat
  <2>1. D \in Nat /\ CB \in Nat  OBVIOUS
  <2>2. D > 0  BY <1>0
  <2>3. N \in Nat  BY <1>0
  <2>. HIDE DEF D, N, CB
  <2>4. uD \in Nat /\ xD \in Nat /\ dD \in Nat /\ wD \in Nat  BY <2>1
  <2>. HIDE DEF uD
  <2>5. iuD \in Nat  BY <2>4
  <2>. QED  BY <2>1, <2>2, <2>3, <2>4, <2>5
<1>2. 2 * xD <= 2 * N + 2 * iuD + uD
  <2>1. (2 * i + 1) * uD = 2 * iuD + uD
    <3>. HIDE DEF uD
    <3>. QED  BY <1>1
  <2>2. 2 * (xD - N) <= (2 * i + 1) * uD
    OBVIOUS
  <2>. HIDE DEF xD, N, uD, iuD
  <2>. QED  BY <1>1, <2>1, <2>2
<1>3. 2 * dD <= 2 * CB + uD
  <2>. DEFINE a == d * p
              b == p * u
  <2>1. a \in Nat /\ b \in Nat  OBVIOUS
  <2>2. dD = B * a /\ uD = B * b /\ CB = B * C
    OBVIOUS
  <2>3. 2 * (a - C) <= b
    OBVIOUS
  <2>. HIDE DEF a, b
  <2>4. b - 2 * (a - C) \in Nat
    BY <2>1, <2>3
  <2>5. B * (b - 2 * (a - C)) \in Nat
    BY <2>4
  <2>6. B * (b - 2 * (a - C)) = B * b - 2 * (B * a) + 2 * (B * C)
    BY <2>1
  <2>7. B * a \in Nat /\ B * b \in Nat /\ B * C \in Nat
    BY <2>1
  <2>. QED  BY <2>2, <2>5, <2>6, <2>7
<1>4. N + CB < C * (D + wD)
  <2>. DEFINE s == t * p + (i + 1) * B
              m == (i + 1) * B
              tp == t * p
  <2>1. N + CB = C * s  BY <1>0
  <2>2. tp \in Nat /\ tp + p <= D
    <3>1. t + 1 <= B /\ t + 1 \in Nat  OBVIOUS
    <3>2. (t + 1) * p <= B * p  BY <3>1, <1>0
    <3>3. (t + 1) * p = tp + p  BY <1>0
    <3>. QED  BY <1>0, <3>2, <3>3
  <2>3. m \in Nat /\ m <= wD
    <3>1. i + 1 \in Nat /\ p * w \in Nat  OBVIOUS
    <3>2. (i + 1) * B <= (p * w) * B  BY <1>0, <3>1
    <3>3. (p * w) * B = wD  OBVIOUS
    <3>. QED  BY <3>1, <3>2, <3>3
  <2>4. s = tp + m  OBVIOUS
  <2>. HIDE DEF tp, m, D, wD
  <2>5. s \in Nat /\ s < D + wD  BY <1>1, <2>2, <2>3, <2>4
  <2>. HIDE DEF s
  <2>6. C * s < C * (D + wD)
    <3>1. D + wD - s \in Nat /\ D + wD - s > 0  BY <1>1, <2>5
    <3>2. C * (D + wD - s) > 0  BY <3>1
    <3>3. C * (D + wD - s) = C * (D + wD) - C * s  BY <1>1, <2>5
    <3>4. C * (D + wD) \in Nat /\ C * s \in Nat  BY <1>1, <2>5
    <3>. QED  BY <3>2, <3>3, <3>4
  <2>. QED  BY <2>1, <2>6
<1>5. C * (D + wD) + (p * w) * uD <= F * D
  <2>. DEFINE a == C * (w + 1) + p * w * u
  <2>1. a \in Nat /\ a <= F  OBVIOUS
  <2>2. a * D = C * (D + wD) + (p * w) * uD
    <3>. HIDE DEF D
    <3>1. C * (w + 1) \in Nat /\ p * w \in Nat /\ p * w * u \in Nat  OBVIOUS
    <3>2. a * D = (C * (w + 1)) * D + (p * w * u) * D  BY <1>1, <3>1
    <3>3. (C * (w + 1)) * D = C * (D + wD)  BY <1>1
    <3>4. (p * w * u) * D = (p * w) * uD  BY <1>1
    <3>. QED  BY <3>2, <3>3, <3>4
  <2>. HIDE DEF a, D
  <2>3. a * D <= F * D  BY <1>1, <2>1
  <2>. QED  BY <2>2, <2>3
<1>6. iuD + uD <= (p * w) * uD
  <2>. HIDE DEF uD
  <2>1. i + 1 \in Nat /\ p * w \in Nat /\ i + 1 <= p * w  OBVIOUS
  <2>2. (i + 1) * uD <= (p * w) * uD  BY <1>1, <2>1
  <2>3. (i + 1) * uD = iuD + uD  BY <1>1
  <2>. QED  BY <2>2, <2>3
<1>7. xD + dD < F * D
  <2>. DEFINE FD == F * D
              pu == (p * w) * uD
              CD == C * (D + wD)
  <2>1. CD + pu <= FD /\ N + CB < CD /\ iuD + uD <= pu  BY <1>4, <1>5, <1>6
  <2>2. FD \in Nat /\ pu \in Nat /\ CD \in Nat
    <3>1. p * w \in Nat  OBVIOUS
    <3>. HIDE DEF D, uD, wD
    <3>. QED  BY <1>1, <3>1
  <2>. HIDE DEF FD, pu, CD, N, CB, iuD, uD, xD, dD
  <2>3. xD + dD < FD  BY <1>1, <1>2, <1>3, <2>1, <2>2
  <2>. QED  BY <2>3 DEF FD
<1>8. CASE x + d >= F
  <2>. HIDE DEF D
  <2>1. x + d \in Nat /\ (x + d) * D >= F * D  BY <1>1, <1>8
  <2>2. (x + d) * D = xD + dD  BY <1>1
  <2>. QED  BY <1>1, <1>7, <2>1, <2>2
<1>. QED  BY <1>8

\* What holds of 0 and of each successor up to N, as a set.
LEMMA BoundedInduct ==
    ASSUME NEW N \in Nat, NEW S, 0 \in S,
           \A n \in Nat : n \in S /\ n + 1 <= N => n + 1 \in S
    PROVE  \A n \in Nat : n <= N => n \in S
<1>. DEFINE T == {n \in Nat : n <= N => n \in S}
<1>1. 0 \in T
  OBVIOUS
<1>2. ASSUME NEW n \in Nat, n \in T PROVE n + 1 \in T
  <2>1. n + 1 \in Nat /\ (n + 1 <= N => n <= N)
    OBVIOUS
  <2>2. n <= N => n \in S
    BY <1>2
  <2>. QED  BY <2>1, <2>2
<1>. HIDE DEF T
<1>3. Nat \subseteq T
  BY <1>1, <1>2, Induct
<1>. QED  BY <1>3, Zenon DEF T

\* x lies beside the exact angle of a wave's point i, which is C * (t * p + i * B)
\* parts of B * p, by no more than i additions and its own rounding make.
Beside(x, C, B, p, t, i, u) ==
    /\ 2 * (x * (B * p) - C * (t * p + i * B)) <= (2 * i + 1) * (u * (B * p))
    /\ 2 * (C * (t * p + i * B) - x * (B * p)) <= (2 * i + 1) * (u * (B * p))

\* However many points of w waves of p points are computed, from a phase of t parts
\* of B: the running sum stays beside the exact angle.
LEMMA AngleDrift ==
    ASSUME NEW B \in Nat, NEW t \in 0 .. B - 1, NEW p \in Nat, p > 0, NEW w \in Nat, w > 0,
           NEW u \in FLT_ULPS, 4 * COS_THETA0 * (w + 1) + p * w * u <= FLT_MANT * u
    PROVE  LET C == 4 * COS_THETA0
               theta == Angles(ToFloat(C * t, B), ToFloat(C, p), p * w)
           IN  \A i \in Nat : i < p * w => theta[i] \in Nat /\ Beside(theta[i], C, B, p, t, i, u)
<1>. DEFINE C == 4 * COS_THETA0
            a == ToFloat(C * t, B)
            d == ToFloat(C, p)
            n == p * w
            F == FLT_MANT * u
            theta == Angles(a, d, n)
<1>1. /\ C \in Nat /\ C > 0 /\ B > 0 /\ t \in Nat /\ u \in Nat /\ u > 0 /\ F \in Nat
      /\ n \in Nat /\ n > 0 /\ n - 1 \in Nat
  <2>1. n \in Nat /\ n > 0  OBVIOUS
  <2>. HIDE DEF n
  <2>. QED  BY <2>1, FloatFacts
<1>2. C * (w + 1) + n * u <= F
  OBVIOUS
<1>3. C * t \in Nat /\ a \in Nat /\ d \in Nat
  <2>. HIDE DEF C
  <2>1. C * t \in Nat  BY <1>1
  <2>. QED  BY <1>1, <2>1, Rounded
<1>4. C < F * 1 /\ C * t < F * B /\ C < F * p
  <2>. DEFINE nu == n * u
              Cw == C * (w + 1)
  <2>. HIDE DEF C, F, n
  <2>1. nu \in Nat /\ nu > 0 /\ Cw \in Nat /\ Cw >= C  BY <1>1
  <2>2. Cw + nu <= F  BY <1>2
  <2>3. C < F  BY <1>1, <2>1, <2>2
  <2>4. F * p >= F  BY <1>1
  <2>5. C * t <= C * B /\ C * B < F * B  BY <1>1, <2>3
  <2>6. C * t \in Nat /\ C * B \in Nat /\ F * B \in Nat /\ F * p \in Nat BY <1>1
  <2>. QED  BY <1>1, <2>3, <2>4, <2>5, <2>6
<1>5. Beside(a, C, B, p, t, 0, u)
  <2>1. 2 * (a * B - C * t) <= B * u /\ 2 * (C * t - a * B) <= B * u
    <3>. DEFINE m == C * t
    <3>1. m \in Nat /\ m < FLT_MANT * u * B  BY <1>3, <1>4
    <3>. HIDE DEF m
    <3>2. /\ 2 * (ToFloat(m, B) * B - m) <= B * u
          /\ 2 * (m - ToFloat(m, B) * B) <= B * u
      BY <1>1, <3>1, RoundedWithin
    <3>. QED  BY <3>2 DEF m
  <2>. DEFINE aB == a * B
              Ct == C * t
              Bu == B * u
  <2>. HIDE DEF a, C
  <2>2. aB \in Nat /\ Ct \in Nat /\ Bu \in Nat  BY <1>1, <1>3
  <2>3. /\ a * (B * p) = p * aB
        /\ C * (t * p + 0 * B) = p * Ct
        /\ (2 * 0 + 1) * (u * (B * p)) = p * Bu
    BY <1>1, <1>3
  <2>4. Bu - 2 * (aB - Ct) \in Nat /\ Bu - 2 * (Ct - aB) \in Nat
    BY <2>1, <2>2
  <2>. HIDE DEF aB, Ct, Bu
  <2>5. p * (Bu - 2 * (aB - Ct)) \in Nat /\ p * (Bu - 2 * (Ct - aB)) \in Nat
    BY <2>4
  <2>6. /\ p * (Bu - 2 * (aB - Ct)) = p * Bu - 2 * (p * aB - p * Ct)
        /\ p * (Bu - 2 * (Ct - aB)) = p * Bu - 2 * (p * Ct - p * aB)
    BY <2>2
  <2>7. p * Bu \in Nat /\ p * aB \in Nat /\ p * Ct \in Nat  BY <2>2
  <2>8. 2 * (p * aB - p * Ct) <= p * Bu /\ 2 * (p * Ct - p * aB) <= p * Bu
    BY <2>5, <2>6, <2>7
  <2>. QED  BY <2>3, <2>8 DEF Beside
<1>6. 2 * (d * p - C) <= p * u /\ 2 * (C - d * p) <= p * u
  <2>1. C < FLT_MANT * u * p  BY <1>4
  <2>. HIDE DEF C
  <2>. QED  BY <1>1, <2>1, RoundedWithin
<1>. HIDE DEF a, d, n, C, F
<1>7. /\ theta[0] = a
      /\ \A i \in Nat : i < n => theta[i + 1] = ToFloat(theta[i] + d, 1)
      /\ \A i \in Nat : i <= n => theta[i] \in Nat
  <2>1. n \in Nat  BY <1>1
  <2>. QED  BY <1>3, <2>1, AnglesAdded
<1>. HIDE DEF theta
<1>. DEFINE S == {i \in Nat : Beside(theta[i], C, B, p, t, i, u)}
<1>8. 0 \in S
  BY <1>5, <1>7
<1>9. ASSUME NEW i \in Nat, i \in S, i + 1 <= n - 1 PROVE i + 1 \in S
  <2>. DEFINE x == theta[i]
              y == theta[i + 1]
  <2>1. i < n /\ i <= n /\ i + 1 <= n /\ i + 1 \in Nat  BY <1>1, <1>9
  <2>2. x \in Nat /\ y \in Nat /\ y = ToFloat(x + d, 1)  BY <1>7, <2>1
  <2>3. Beside(x, C, B, p, t, i, u)  BY <1>9
  <2>. HIDE DEF x, y
  <2>4. x + d < F
    <3>1. i + 1 < p * w  BY <1>1, <1>9 DEF n
    <3>2. C * (w + 1) + p * w * u <= F  BY <1>2 DEF n
    <3>3. 2 * (x * (B * p) - C * (t * p + i * B)) <= (2 * i + 1) * (u * (B * p))
      BY <2>3 DEF Beside
    <3>. QED  BY <1>1, <1>3, <1>6, <2>2, <3>1, <3>2, <3>3, DriftBounded
  <2>5. 2 * (y - (x + d)) <= u /\ 2 * ((x + d) - y) <= u
    <3>. DEFINE m == x + d
    <3>1. m \in Nat /\ m < FLT_MANT * u * 1  BY <1>1, <1>3, <2>2, <2>4, FloatFacts DEF F
    <3>. HIDE DEF m
    <3>2. ToFloat(m, 1) \in Nat  BY <3>1, Rounded
    <3>3. 2 * (ToFloat(m, 1) * 1 - m) <= 1 * u /\ 2 * (m - ToFloat(m, 1) * 1) <= 1 * u
      BY <3>1, RoundedWithin
    <3>4. 2 * (ToFloat(m, 1) - m) <= u /\ 2 * (m - ToFloat(m, 1)) <= u
      BY <1>1, <3>1, <3>2, <3>3
    <3>. QED  BY <2>2, <3>4 DEF m
  <2>6. Beside(y, C, B, p, t, i + 1, u)
    <3>1. /\ 2 * (x * (B * p) - C * (t * p + i * B)) <= (2 * i + 1) * (u * (B * p))
          /\ 2 * (C * (t * p + i * B) - x * (B * p)) <= (2 * i + 1) * (u * (B * p))
      BY <2>3 DEF Beside
    <3>2. /\ 2 * (y * (B * p) - C * (t * p + (i + 1) * B)) <= (2 * (i + 1) + 1) * (u * (B * p))
          /\ 2 * (C * (t * p + (i + 1) * B) - y * (B * p)) <= (2 * (i + 1) + 1) * (u * (B * p))
      BY <1>1, <1>3, <1>6, <2>2, <2>5, <3>1, DriftGrows
    <3>. QED  BY <3>2 DEF Beside
  <2>. QED  BY <2>1, <2>6 DEF y
<1>. HIDE DEF S
<1>10. \A i \in Nat : i <= n - 1 => i \in S
  BY <1>1, <1>8, <1>9, BoundedInduct
<1>11. ASSUME NEW i \in Nat, i < n PROVE theta[i] \in Nat /\ Beside(theta[i], C, B, p, t, i, u)
  <2>1. i <= n - 1 /\ i <= n  BY <1>1, <1>11
  <2>2. i \in S  BY <1>10, <2>1
  <2>. QED  BY <1>7, <2>1, <2>2 DEF S
<1>. QED  BY <1>11 DEF n, a, d, theta, C

---------------------------------------------------------------------------
(* Samples                                                                   *)

\* A turn has at least one place.
LEMMA TurnPositive == Circle \in Nat /\ Circle > 0 /\ SINE_TABLE_LENGTH \in Nat /\ SINE_TABLE_LENGTH > 0
BY TableAssumption DEF Circle

\* The table of four quadrants is read inside its bounds.
LEMMA PlaceInTable ==
    ASSUME NEW theta \in Nat
    PROVE  Place(theta) \in 0 .. Circle - 1
<1>. DEFINE a == theta * SINE_TABLE_LENGTH
            b == ToFloat(a, 1) * FLT_ONE
            cursor == ToFloat(b, COS_THETA0)
            next == IF 2 * (cursor % FLT_ONE) > FLT_ONE THEN 1 ELSE 0
            x == cursor \div FLT_ONE + next
<1>1. Place(theta) = x % Circle
  BY DEF Place, Circle
<1>2. a \in Nat
  BY TurnPositive
<1>. HIDE DEF a
<1>3. ToFloat(a, 1) \in Nat
  BY <1>2, Rounded
<1>4. b \in Nat
  BY <1>3, FloatFacts
<1>. HIDE DEF b
<1>5. cursor \in Nat
  BY <1>4, FloatFacts, Rounded
<1>. HIDE DEF cursor
<1>6. cursor \div FLT_ONE \in Nat
  BY <1>5, FloatFacts, Division
<1>7. x \in Nat
  BY <1>6
<1>. HIDE DEF x
<1>. QED  BY <1>1, <1>7, TurnPositive, Division

\* A scaled amplitude has seven bits, whatever it is divided by.
LEMMA AmplitudeRange ==
    ASSUME NEW place \in 0 .. Circle - 1, NEW scale \in Nat
    PROVE  Amplitude(place, scale) \in 0 .. 127
<1>. DEFINE i == place % SINE_TABLE_LENGTH
            at == IF (place \div SINE_TABLE_LENGTH) % 2 = 1
                  THEN SINE_TABLE_LENGTH - 1 - i ELSE i
<1>1. i \in 0 .. SINE_TABLE_LENGTH - 1
  BY TurnPositive, Division
<1>2. at \in 0 .. SINE_TABLE_LENGTH - 1
  BY <1>1, TurnPositive
<1>. HIDE DEF at
<1>3. sin_table[at] \in 0 .. 127
  BY <1>2, TableAssumption
<1>4. Udiv(sin_table[at], scale) \in 0 .. 127
  <2>1. CASE scale = 0  BY <2>1 DEF Udiv
  <2>2. CASE scale # 0
    <3>. DEFINE t == sin_table[at]
                q == t \div scale
    <3>1. t \in Nat /\ t <= 127  BY <1>3
    <3>. HIDE DEF t
    <3>2. q \in Nat /\ t % scale \in 0 .. scale - 1 /\ t = scale * q + (t % scale)
      BY <3>1, <2>2, Division
    <3>. HIDE DEF q
    <3>3. scale * q >= q  BY <3>2, <2>2
    <3>4. scale * q \in Nat /\ scale * q <= t  BY <3>1, <3>2
    <3>5. q <= 127  BY <3>1, <3>2, <3>3, <3>4
    <3>6. q \in 0 .. 127  BY <3>2, <3>5
    <3>7. Udiv(t, scale) = q  BY <2>2 DEF Udiv, q
    <3>. QED  BY <3>6, <3>7 DEF t
  <2>. QED  BY <2>1, <2>2
<1>5. Amplitude(place, scale) = Udiv(sin_table[at], scale)
  BY DEF Amplitude, at
<1>. QED  BY <1>4, <1>5

\* An entry of the table, scaled or not, keeps its sign and fits seven bits.
LEMMA SampleRange ==
    ASSUME NEW theta \in Nat, NEW scale \in Nat
    PROVE  sin_gen_sin(theta, scale) \in 0 .. 254
<1>1. Amplitude(Place(theta), scale) \in 0 .. 127
  BY PlaceInTable, AmplitudeRange
<1>. QED  BY <1>1 DEF sin_gen_sin

---------------------------------------------------------------------------
(* Waves                                                                     *)

\* Requests with nothing missing, from a phase that is not negative.
Requests == [buflen : Nat \ {0}, theta0 : Nat, scale : Nat, f_tone : Nat \ {0},
             f_sample : Nat \ {0}]

\* The running sum of a request's angles.
Thetas(req, n_cycles) ==
    Angles(req.theta0, ToFloat(4 * COS_THETA0, SamplesPerWave(req)), ResultLen(req, n_cycles))

\* A tone below the sample rate has points, and as many are computed as fit the buffer.
LEMMA WaveLength ==
    ASSUME NEW req \in Requests, NEW n_cycles \in Nat, req.f_tone <= req.f_sample
    PROVE  /\ SamplesPerWave(req) \in Nat /\ SamplesPerWave(req) > 0
           /\ ResultLen(req, n_cycles) \in Nat /\ ResultLen(req, n_cycles) <= req.buflen
           /\ \A i \in Nat : i <= ResultLen(req, n_cycles) => Thetas(req, n_cycles)[i] \in Nat
<1>. DEFINE spw == SamplesPerWave(req)
            len == ResultLen(req, n_cycles)
<1>1. /\ req.f_tone \in Nat /\ req.f_tone > 0 /\ req.f_sample \in Nat
      /\ req.buflen \in Nat /\ req.theta0 \in Nat
  BY DEF Requests
<1>2. spw \in Nat /\ spw > 0
  <2>1. /\ spw \in Nat /\ req.f_sample % req.f_tone \in 0 .. req.f_tone - 1
        /\ req.f_sample = req.f_tone * spw + (req.f_sample % req.f_tone)
    BY <1>1, Division DEF SamplesPerWave
  <2>2. CASE spw = 0  BY <1>1, <2>1, <2>2
  <2>. QED  BY <2>1, <2>2
<1>. HIDE DEF spw
<1>3. len \in Nat /\ len <= req.buflen
  <2>1. n_cycles * spw \in Nat  BY <1>2
  <2>. QED  BY <1>1, <2>1 DEF ResultLen, spw
<1>. HIDE DEF len
<1>4. ToFloat(4 * COS_THETA0, spw) \in Nat
  <2>. DEFINE turn == 4 * COS_THETA0
  <2>1. turn \in Nat  BY FloatFacts
  <2>. HIDE DEF turn
  <2>2. ToFloat(turn, spw) \in Nat  BY <1>2, <2>1, Rounded
  <2>. QED  BY <2>2 DEF turn
<1>5. \A i \in Nat : i <= len => Thetas(req, n_cycles)[i] \in Nat
  <2>. DEFINE d == ToFloat(4 * COS_THETA0, spw)
              a == req.theta0
  <2>1. Thetas(req, n_cycles) = Angles(a, d, len)
    BY DEF Thetas, spw, len
  <2>2. a \in Nat /\ d \in Nat  BY <1>1, <1>4
  <2>. HIDE DEF a, d
  <2>. QED  BY <1>3, <2>1, <2>2, AnglesAdded
<1>. QED  BY <1>2, <1>3, <1>5 DEF spw, len

\* Whatever is asked for, sin_gen writes no more points than the buffer has, and
\* each is a byte: it reads its table inside its bounds and never wraps.
THEOREM WaveFits ==
    ASSUME NEW req \in Requests, NEW n_cycles \in Nat, req.f_tone <= req.f_sample
    PROVE  LET wave == sin_gen_fulfill(req, n_cycles).wave
           IN  Len(wave) <= req.buflen /\ wave \in Seq(0 .. 254)
<1>. DEFINE len == ResultLen(req, n_cycles)
            theta == Thetas(req, n_cycles)
            At(i) == sin_gen_sin(theta[i - 1], req.scale)
<1>1. req.scale \in Nat /\ req.buflen \in Nat
  BY DEF Requests
<1>2. /\ len \in Nat /\ len <= req.buflen
      /\ \A i \in Nat : i <= len => theta[i] \in Nat
  BY WaveLength
<1>. DEFINE points == [i \in 1 .. len |-> At(i)]
<1>3. sin_gen_fulfill(req, n_cycles).wave = points
  BY DEF sin_gen_fulfill, Thetas
<1>. HIDE DEF len, theta
<1>4. ASSUME NEW i \in 1 .. len PROVE At(i) \in 0 .. 254
  <2>1. i - 1 \in Nat /\ i - 1 <= len  BY <1>2, <1>4
  <2>2. theta[i - 1] \in Nat  BY <1>2, <2>1
  <2>. QED  BY <1>1, <2>2, SampleRange
<1>. HIDE DEF At
<1>5. points \in Seq(0 .. 254) /\ Len(points) = len
  <2>1. points \in [1 .. len -> 0 .. 254]  BY <1>4
  <2>. HIDE DEF points
  <2>2. points \in Seq(0 .. 254)  BY <1>2, <2>1
  <2>3. DOMAIN points = 1 .. len  BY <2>1
  <2>. QED  BY <1>2, <2>2, <2>3
<1>. QED  BY <1>2, <1>3, <1>5

---------------------------------------------------------------------------
(* Sequences                                                                 *)

\* Nothing is flattened to nothing.
LEMMA FlattenNone == ASSUME NEW s, Len(s) = 0 PROVE FlattenSeq(s) = s
BY DEF FlattenSeq

\* f is the recursive function in FlattenSeq.
Flattens(f, s, n) == f = [i \in 1 .. n |-> IF i = 1 THEN s[i] ELSE f[i - 1] \o s[i]]

\* It is the one, once there is one.
LEMMA FlattenIs ==
    ASSUME NEW s, NEW n \in Nat, Len(s) = n, n # 0, NEW g, Flattens(g, s, n)
    PROVE  \E f : FlattenSeq(s) = f[n] /\ Flattens(f, s, n)
<1>. DEFINE Body(f) == [i \in 1 .. Len(s) |-> IF i = 1 THEN s[i] ELSE f[i - 1] \o s[i]]
            flatten == CHOOSE f : f = Body(f)
<1>1. FlattenSeq(s) = flatten[Len(s)]
  BY Zenon DEF FlattenSeq
<1>2. g = Body(g)
  BY Zenon DEF Flattens
<1>. HIDE DEF Body
<1>3. flatten = Body(flatten)
  BY <1>2, Zenon
<1>. QED BY <1>1, <1>3, Zenon DEF Body, Flattens

\* How a flattening is built, entry by entry.
LEMMA FlattenSteps ==
    ASSUME NEW s, NEW n \in Nat, n # 0, NEW f, Flattens(f, s, n)
    PROVE  f[1] = s[1] /\ \A i \in 2 .. n : f[i] = f[i - 1] \o s[i]
<1>1. \A i \in 1 .. n : f[i] = IF i = 1 THEN s[i] ELSE f[i - 1] \o s[i]
  BY Zenon DEF Flattens
<1>2. 1 \in 1 .. n  OBVIOUS
<1>3. \A i \in 2 .. n : i \in 1 .. n /\ i # 1  OBVIOUS
<1>4. f[1] = s[1]  BY <1>1, <1>2, Zenon
<1>. QED  BY <1>1, <1>3, <1>4, Zenon

\* And that this is enough.
LEMMA FlattensIf ==
    ASSUME NEW s, NEW n \in Nat, NEW f, f = [i \in 1 .. n |-> f[i]], f[1] = s[1],
           \A i \in 2 .. n : f[i] = f[i - 1] \o s[i]
    PROVE  Flattens(f, s, n)
<1>1. ASSUME NEW i \in 1 .. n
      PROVE  f[i] = IF i = 1 THEN s[i] ELSE f[i - 1] \o s[i]
  <2>1. CASE i = 1  BY <2>1, Zenon
  <2>2. CASE i # 1
    <3>1. i \in 2 .. n  BY <2>2
    <3>. QED  BY <2>2, <3>1, Zenon
  <2>. QED  BY <2>1, <2>2
<1>. QED  BY <1>1, Zenon DEF Flattens

\* One entry is flattened to itself.
LEMMA FlattenOne ==
    ASSUME NEW s, Len(s) = 1 PROVE FlattenSeq(s) = s[1]
<1>. DEFINE g == [i \in 1 .. 1 |-> s[1]]
<1>0. 1 \in Nat /\ 1 # 0  OBVIOUS
<1>1. g = [i \in 1 .. 1 |-> g[i]] /\ g[1] = s[1]
  OBVIOUS
<1>2. \A i \in 2 .. 1 : g[i] = g[i - 1] \o s[i]
  OBVIOUS
<1>. HIDE DEF g
<1>3. Flattens(g, s, 1)  BY <1>1, <1>2, FlattensIf
<1>4. PICK f : FlattenSeq(s) = f[1] /\ Flattens(f, s, 1)
  BY <1>0, <1>3, FlattenIs, Zenon
<1>5. f[1] = s[1]  BY <1>0, <1>4, FlattenSteps, Zenon
<1>. QED  BY <1>4, <1>5

\* A packet of six fields.
FlatSix(a, b, c, d, e, h) ==
    FlattenSeq(<<a, b, c, d, e, h>>) = ((((a \o b) \o c) \o d) \o e) \o h

\* Six entries are flattened to their concatenation.
LEMMA FlattenSix ==
    ASSUME NEW a, NEW b, NEW c, NEW d, NEW e, NEW h
    PROVE  FlatSix(a, b, c, d, e, h)
<1>. DEFINE s  == <<a, b, c, d, e, h>>
            g2 == a \o b
            g3 == g2 \o c
            g4 == g3 \o d
            g5 == g4 \o e
            g6 == g5 \o h
            g  == <<a, g2, g3, g4, g5, g6>>
<1>0. 6 \in Nat /\ 6 # 0  OBVIOUS
<1>1. /\ s[1] = a /\ s[2] = b /\ s[3] = c /\ s[4] = d /\ s[5] = e /\ s[6] = h
      /\ Len(s) = 6
  OBVIOUS
<1>2. /\ g2 = a \o s[2] /\ g3 = g2 \o s[3] /\ g4 = g3 \o s[4] /\ g5 = g4 \o s[5]
      /\ g6 = g5 \o s[6]
  BY <1>1, Zenon
<1>. HIDE DEF s, g2, g3, g4, g5, g6
<1>3. /\ g = [i \in 1 .. 6 |-> g[i]] /\ g[1] = a /\ g[2] = g2 /\ g[3] = g3
      /\ g[4] = g4 /\ g[5] = g5 /\ g[6] = g6
  OBVIOUS
<1>. HIDE DEF g
<1>4. ASSUME NEW i \in 2 .. 6
      PROVE  g[i] = g[i - 1] \o s[i]
  <2>1. i = 2 \/ i = 3 \/ i = 4 \/ i = 5 \/ i = 6  OBVIOUS
  <2>2. 2 - 1 = 1 /\ 3 - 1 = 2 /\ 4 - 1 = 3 /\ 5 - 1 = 4 /\ 6 - 1 = 5  OBVIOUS
  <2>. QED  BY <1>2, <1>3, <2>1, <2>2, Zenon
<1>5. Flattens(g, s, 6)
  BY <1>1, <1>3, <1>4, FlattensIf
<1>6. PICK f : FlattenSeq(s) = f[6] /\ Flattens(f, s, 6)
  BY <1>0, <1>1, <1>5, FlattenIs, Zenon
<1>7. f[1] = s[1] /\ \A i \in 2 .. 6 : f[i] = f[i - 1] \o s[i]
  BY <1>0, <1>6, FlattenSteps, Zenon
<1>8. f[1] = a /\ f[2] = g2 /\ f[3] = g3 /\ f[4] = g4 /\ f[5] = g5 /\ f[6] = g6
  <2>1. 2 - 1 = 1 /\ 3 - 1 = 2 /\ 4 - 1 = 3 /\ 5 - 1 = 4 /\ 6 - 1 = 5
        /\ 2 \in 2 .. 6 /\ 3 \in 2 .. 6 /\ 4 \in 2 .. 6 /\ 5 \in 2 .. 6 /\ 6 \in 2 .. 6
    OBVIOUS
  <2>2. f[2] = g2  BY <1>1, <1>2, <1>7, <2>1, Zenon
  <2>3. f[3] = g3  BY <1>1, <1>2, <1>7, <2>1, <2>2, Zenon
  <2>4. f[4] = g4  BY <1>1, <1>2, <1>7, <2>1, <2>3, Zenon
  <2>5. f[5] = g5  BY <1>1, <1>2, <1>7, <2>1, <2>4, Zenon
  <2>6. f[6] = g6  BY <1>1, <1>2, <1>7, <2>1, <2>5, Zenon
  <2>. QED  BY <1>1, <1>7, <2>2, <2>3, <2>4, <2>5, <2>6
<1>. QED  BY <1>6, <1>8 DEF s, g2, g3, g4, g5, g6, FlatSix

\* Sequences of one element each.
LEMMA FlattenSingles ==
    ASSUME NEW V, NEW v \in Seq(V)
    PROVE  FlattenSeq([i \in 1 .. Len(v) |-> <<v[i]>>]) = v
<1>. DEFINE n == Len(v)
            s == [i \in 1 .. n |-> <<v[i]>>]
            g == [i \in 1 .. n |-> [j \in 1 .. i |-> v[j]]]
<1>1. n \in Nat /\ Len(s) = n /\ v = [j \in 1 .. n |-> v[j]] /\ \A i \in 1 .. n : v[i] \in V
  OBVIOUS
<1>2. CASE n = 0
  <2>1. s = << >> /\ v = << >>  BY <1>2
  <2>. QED  BY <1>1, <1>2, <2>1, FlattenNone
<1>3. CASE n # 0
  <2>1. ASSUME NEW i \in 1 .. n, i # 1
        PROVE  [j \in 1 .. i - 1 |-> v[j]] \o <<v[i]>> = [j \in 1 .. i |-> v[j]]
    <3>. DEFINE l == [j \in 1 .. i - 1 |-> v[j]]
                k == [j \in 1 .. i |-> v[j]]
    <3>1. i - 1 \in Nat /\ \A j \in 1 .. i : v[j] \in V  BY <1>1
    <3>2. l \in Seq(V) /\ Len(l) = i - 1 /\ k \in Seq(V) /\ Len(k) = i /\ <<v[i]>> \in Seq(V)
      BY <3>1
    <3>3. \A j \in 1 .. i : (l \o <<v[i]>>)[j] = k[j]
      BY <3>1, <3>2
    <3>4. l \o <<v[i]>> \in Seq(V) /\ Len(l \o <<v[i]>>) = i
      BY <3>2
    <3>. HIDE DEF l, k
    <3>5. l \o <<v[i]>> = k  BY <3>2, <3>3, <3>4
    <3>. QED  BY <3>5 DEF l, k
  <2>2. ASSUME NEW f, NEW i \in 1 .. n, i # 1, f[i - 1] = g[i - 1]
        PROVE  f[i - 1] \o s[i] = g[i]
    <3>1. i - 1 \in 1 .. n  BY <2>2
    <3>2. g[i - 1] = [j \in 1 .. i - 1 |-> v[j]] /\ s[i] = <<v[i]>> /\ g[i] = [j \in 1 .. i |-> v[j]]
      BY <3>1, Zenon
    <3>. QED  BY <2>1, <2>2, <3>2, Zenon
  <2>3. g[1] = s[1]
    <3>1. 1 \in 1 .. n  BY <1>1, <1>3
    <3>2. g[1] = [j \in 1 .. 1 |-> v[j]] /\ s[1] = <<v[1]>>  BY <3>1, Zenon
    <3>3. [j \in 1 .. 1 |-> v[j]] = <<v[1]>>  OBVIOUS
    <3>. QED  BY <3>2, <3>3
  <2>4. g = [i \in 1 .. n |-> g[i]]
    BY Zenon
  <2>5. g[n] = v
    <3>1. n \in 1 .. n  BY <1>1, <1>3
    <3>. QED  BY <1>1, <3>1, Zenon
  <2>. HIDE DEF g, s, n
  <2>6. \A i \in 2 .. n : g[i] = g[i - 1] \o s[i]
    <3>1. ASSUME NEW i \in 2 .. n PROVE i \in 1 .. n /\ i # 1
      BY <1>1
    <3>. QED  BY <2>2, <3>1
  <2>7a. Flattens(g, s, n)
    BY <1>1, <2>3, <2>4, <2>6, FlattensIf
  <2>7b. PICK f : FlattenSeq(s) = f[n] /\ Flattens(f, s, n)
    BY <1>1, <1>3, <2>7a, FlattenIs
  <2>7. f[1] = s[1] /\ \A i \in 2 .. n : f[i] = f[i - 1] \o s[i]
    <3>1. n \in Nat /\ n # 0  BY <1>1, <1>3
    <3>. QED  BY <2>7b, <3>1, FlattenSteps, Zenon
  <2>. DEFINE S == {i \in Nat : i + 1 \in 1 .. n => f[i + 1] = g[i + 1]}
  <2>8. 0 \in S
    <3>1. 1 \in 1 .. n /\ 0 + 1 = 1  BY <1>1, <1>3
    <3>. QED  BY <2>3, <2>7, <3>1
  <2>9. ASSUME NEW i \in Nat, i \in S PROVE i + 1 \in S
    <3>. SUFFICES ASSUME (i + 1) + 1 \in 1 .. n PROVE f[(i + 1) + 1] = g[(i + 1) + 1]
      OBVIOUS
    <3>. DEFINE m == (i + 1) + 1
    <3>1. m \in 1 .. n /\ m \in 2 .. n /\ m # 1 /\ m - 1 = i + 1 /\ i + 1 \in 1 .. n  BY <1>1
    <3>2. f[m - 1] = g[m - 1]  BY <2>9, <3>1
    <3>3. f[m] = f[m - 1] \o s[m]  BY <2>7, <3>1
    <3>. QED  BY <2>2, <3>1, <3>2, <3>3
  <2>. HIDE DEF S
  <2>10. n - 1 \in S
    <3>1. n - 1 \in Nat  BY <1>1, <1>3
    <3>. QED  BY <2>8, <2>9, <3>1, Induct
  <2>11. f[n] = g[n]
    <3>1. (n - 1) + 1 = n /\ n \in 1 .. n  BY <1>1, <1>3
    <3>. QED  BY <2>10, <3>1 DEF S
  <2>. QED  BY <2>5, <2>7b, <2>11 DEF s, n
<1>. QED  BY <1>2, <1>3

---------------------------------------------------------------------------
(* Packets: what the tether packs is what the board gets.                    *)

\* Bytes and words are not empty, and a number below a modulus is its own remainder.
LEMMA WordFacts ==
    /\ ByteMod \in Nat /\ ByteMod > 1
    /\ WordMod \in Nat /\ WordMod = ByteMod * ByteMod /\ WordMod > ByteMod
<1>1. ByteMod \in Nat /\ ByteMod > 1  BY ByteAssumption
<1>2. ByteMod * ByteMod \in Nat /\ ByteMod * ByteMod > ByteMod  BY <1>1
<1>. QED  BY <1>1, <1>2 DEF WordMod

\* Numbers below a product.
LEMMA Halves ==
    ASSUME NEW a \in Nat, NEW b \in Nat, a > 0, b > 0, NEW v \in 0 .. a * b - 1
    PROVE  /\ v \div b \in 0 .. a - 1 /\ v % b \in 0 .. b - 1
           /\ v = (v \div b) * b + (v % b)
<1>. DEFINE q == v \div b
            r == v % b
<1>1. v \in Nat /\ v < a * b /\ a * b \in Nat  OBVIOUS
<1>2. q \in Nat /\ r \in 0 .. b - 1 /\ v = b * q + r  BY <1>1, Division
<1>. HIDE DEF q, r
<1>3. b * q = q * b  BY <1>2
<1>4. q < a
  <2>1. CASE q >= a
    <3>1. q * b >= a * b  BY <1>2, <2>1
    <3>. QED  BY <1>1, <1>2, <1>3, <3>1
  <2>. QED  BY <1>2, <2>1
<1>. QED  BY <1>2, <1>3, <1>4 DEF q, r

\* A byte is packed as itself.
LEMMA OneByte ==
    ASSUME NEW v \in Bytes
    PROVE  BigEndian(v, 1) = <<v>>
<1>1. Values(0) = 1  BY DEF Values
<1>2. (v \div 1) % ByteMod = v  BY WordFacts DEF Bytes
<1>3. ASSUME NEW i \in 1 .. 1 PROVE (v \div Values(1 - i)) % ByteMod = v
  <2>1. 1 - i = 0  OBVIOUS
  <2>. QED  BY <1>1, <1>2, <2>1
<1>4. BigEndian(v, 1) = [i \in 1 .. 1 |-> v]
  BY <1>3, Zenon DEF BigEndian
<1>. QED  BY <1>4

\* Two bytes and back
LEMMA TwoBytes ==
    ASSUME NEW v \in 0 .. WordMod - 1
    PROVE  /\ BigEndian(v, 2) \in Seq(Bytes) /\ Len(BigEndian(v, 2)) = 2
           /\ BigEndian(v, 2)[1] * ByteMod + BigEndian(v, 2)[2] = v
<1>. DEFINE q == v \div ByteMod
            r == v % ByteMod
            s == BigEndian(v, 2)
<1>1. q \in 0 .. ByteMod - 1 /\ r \in 0 .. ByteMod - 1 /\ v = q * ByteMod + r
  BY WordFacts, Halves
<1>2. s = [i \in 1 .. 2 |-> (v \div Values(2 - i)) % ByteMod]
  BY DEF BigEndian
<1>3. Values(1) = ByteMod /\ Values(0) = 1  BY DEF Values
<1>4. s[1] = q % ByteMod
  <2>1. 1 \in 1 .. 2 /\ 2 - 1 = 1  OBVIOUS
  <2>. QED  BY <1>2, <1>3, <2>1, Zenon
<1>5. s[2] = (v \div 1) % ByteMod
  <2>1. 2 \in 1 .. 2 /\ 2 - 2 = 0  OBVIOUS
  <2>. QED  BY <1>2, <1>3, <2>1, Zenon
<1>. HIDE DEF s
<1>6. s[1] = q
  <2>. HIDE DEF q
  <2>1. q % ByteMod = q  BY <1>1, WordFacts
  <2>. QED  BY <1>4, <2>1
<1>7. s[2] = r
  <2>1. v \div 1 = v  OBVIOUS
  <2>. QED  BY <1>5, <2>1
<1>. HIDE DEF q, r
<1>8. s = [i \in 1 .. 2 |-> s[i]]  BY <1>2, Zenon
<1>9. \A i \in 1 .. 2 : s[i] \in Bytes
  <2>1. \A i \in 1 .. 2 : i = 1 \/ i = 2  OBVIOUS
  <2>. QED  BY <1>1, <1>6, <1>7, <2>1 DEF Bytes
<1>10. s \in Seq(Bytes) /\ Len(s) = 2  BY <1>8, <1>9
<1>. QED  BY <1>1, <1>6, <1>7, <1>10 DEF s

\* Four bytes and back
LEMMA FourBytes ==
    ASSUME NEW v \in 0 .. WordMod * WordMod - 1
    PROVE  /\ BigEndian(v, 4) \in Seq(Bytes) /\ Len(BigEndian(v, 4)) = 4
           /\ (BigEndian(v, 4)[1] * ByteMod + BigEndian(v, 4)[2]) * WordMod
                + (BigEndian(v, 4)[3] * ByteMod + BigEndian(v, 4)[4]) = v
<1>. DEFINE B  == ByteMod
            W  == WordMod
            h  == v \div W
            l  == v % W
            q1 == h \div B
            r1 == h % B
            q2 == l \div B
            r2 == l % B
            s  == BigEndian(v, 4)
<1>1. B \in Nat /\ B > 1 /\ W \in Nat /\ W = B * B /\ W > 0  BY WordFacts
<1>2. h \in 0 .. W - 1 /\ l \in 0 .. W - 1 /\ v = h * W + l
  BY <1>1, Halves
<1>. HIDE DEF h, l, B, W
<1>3. q1 \in 0 .. B - 1 /\ r1 \in 0 .. B - 1 /\ h = q1 * B + r1
  BY <1>1, <1>2, Halves
<1>4. q2 \in 0 .. B - 1 /\ r2 \in 0 .. B - 1 /\ l = q2 * B + r2
  BY <1>1, <1>2, Halves
<1>. HIDE DEF q1, r1, q2, r2
<1>5. v \div (W * B) = q1
  <2>. DEFINE b == W * B
              r == W * r1 + l
  <2>1. b \in Nat /\ b > 0  BY <1>1
  <2>2. r \in Nat /\ r <= b - 1
    <3>1. W * r1 <= W * (B - 1)  BY <1>1, <1>3
    <3>2. W * (B - 1) = b - W  BY <1>1
    <3>3. W * r1 \in Nat  BY <1>1, <1>3
    <3>. QED  BY <1>2, <2>1, <3>1, <3>2, <3>3, <1>1
  <2>3. v = b * q1 + r
    <3>1. h * W = (W * B) * q1 + W * r1  BY <1>1, <1>2, <1>3
    <3>2. W * r1 \in Nat /\ b * q1 \in Nat  BY <1>1, <1>3, <2>1
    <3>. QED  BY <1>2, <3>1, <3>2
  <2>. HIDE DEF b, r
  <2>4. r \in 0 .. b - 1 /\ q1 \in Nat  BY <1>3, <2>1, <2>2
  <2>5. (b * q1 + r) \div b = q1  BY <2>1, <2>4, Quotient
  <2>. QED  BY <2>3, <2>5 DEF b
<1>6. v \div W = h  BY DEF h
<1>7. v \div B = B * h + q2 /\ v % B = r2
  <2>. DEFINE q == B * h + q2
  <2>1. q \in Nat  BY <1>1, <1>2, <1>4
  <2>2. v = B * q + r2
    <3>1. h * W = B * (B * h)  BY <1>1, <1>2
    <3>2. B * q = B * (B * h) + B * q2  BY <1>1, <1>2, <1>4
    <3>3. B * q2 = q2 * B /\ B * q2 \in Nat /\ B * (B * h) \in Nat  BY <1>1, <1>2, <1>4
    <3>. QED  BY <1>2, <1>4, <3>1, <3>2, <3>3
  <2>. HIDE DEF q
  <2>3. (B * q + r2) \div B = q /\ (B * q + r2) % B = r2
    BY <1>1, <1>4, <2>1, Quotient
  <2>. QED  BY <2>2, <2>3 DEF q
<1>8. (B * h + q2) % B = q2  BY <1>1, <1>2, <1>4, Quotient
<1>9. s = [i \in 1 .. 4 |-> (v \div Values(4 - i)) % B]
  BY DEF BigEndian, B
<1>10. Values(3) = W * B /\ Values(2) = W /\ Values(1) = B /\ Values(0) = 1
  BY DEF Values, W, B
<1>11. s[1] = q1 /\ s[2] = r1 /\ s[3] = q2 /\ s[4] = r2
  <2>1. /\ 1 \in 1 .. 4 /\ 2 \in 1 .. 4 /\ 3 \in 1 .. 4 /\ 4 \in 1 .. 4
        /\ 4 - 1 = 3 /\ 4 - 2 = 2 /\ 4 - 3 = 1 /\ 4 - 4 = 0
    OBVIOUS
  <2>2. s[1] = q1 % B  BY <1>5, <1>9, <1>10, <2>1, Zenon
  <2>3. s[2] = h % B  BY <1>6, <1>9, <1>10, <2>1, Zenon
  <2>4. s[3] = (B * h + q2) % B  BY <1>7, <1>9, <1>10, <2>1, ZenonT(30)
  <2>5. s[4] = (v \div 1) % B
    <3>1. s[4] = (v \div Values(4 - 4)) % B  BY <1>9, <2>1, Zenon
    <3>2. 4 - 4 = 0  OBVIOUS
    <3>3. Values(4 - 4) = 1  BY <1>10, <3>2
    <3>. QED  BY <3>1, <3>3
  <2>6. v \div 1 = v  BY <1>1, <1>2
  <2>7. q1 % B = q1  BY <1>1, <1>3
  <2>. QED  BY <1>7, <1>8, <2>2, <2>3, <2>4, <2>5, <2>6, <2>7 DEF r1
<1>12. s = [i \in 1 .. 4 |-> s[i]]  BY <1>9, Zenon
<1>. HIDE DEF s
<1>13. \A i \in 1 .. 4 : s[i] \in Bytes
  <2>1. \A i \in 1 .. 4 : i = 1 \/ i = 2 \/ i = 3 \/ i = 4  OBVIOUS
  <2>. QED  BY <1>3, <1>4, <1>11, <2>1 DEF Bytes, B
<1>14. s \in Seq(Bytes) /\ Len(s) = 4  BY <1>12, <1>13
<1>. QED  BY <1>2, <1>3, <1>4, <1>11, <1>14 DEF s, B, W


\* Where the fields of a packet come to lie.
Joined(V, r, s, m, u, n) ==
    /\ r \in Seq(V) /\ Len(r) = m + n
    /\ \A i \in 1 .. m : r[i] = s[i]
    /\ \A i \in 1 .. n : r[m + i] = u[i]

\* An entry of the first part
LEMMA JoinedFront ==
    ASSUME NEW V, NEW r, NEW s, NEW m, NEW u, NEW n, Joined(V, r, s, m, u, n), NEW i \in 1 .. m
    PROVE  r[i] = s[i]
BY DEF Joined

\* Where the entries of a concatenation are.
LEMMA Joins ==
    ASSUME NEW V, NEW s \in Seq(V), NEW u \in Seq(V), NEW m, NEW n, Len(s) = m, Len(u) = n
    PROVE  Joined(V, s \o u, s, m, u, n)
<1>1. s \o u \in Seq(V) /\ Len(s \o u) = Len(s) + Len(u)  OBVIOUS
<1>2. \A i \in 1 .. Len(s) : (s \o u)[i] = s[i]  OBVIOUS
<1>3. \A i \in 1 .. Len(u) : (s \o u)[Len(s) + i] = u[i]  OBVIOUS
<1>. QED  BY <1>1, <1>2, <1>3 DEF Joined

\* What lies behind the first m.
LEMMA Behind ==
    ASSUME NEW V, NEW s \in Seq(V), NEW h \in Seq(V), NEW m \in Nat,
           Len(s) = m + Len(h), \A i \in 1 .. Len(h) : s[m + i] = h[i]
    PROVE  SubSeq(s, m + 1, m + Len(h)) = h
<1>. DEFINE r == SubSeq(s, m + 1, m + Len(h))
            n == Len(h)
<1>1. n \in Nat /\ h = [i \in 1 .. n |-> h[i]]  OBVIOUS
<1>2. r = [i \in 1 .. (m + n) - (m + 1) + 1 |-> s[(m + 1) + i - 1]]  BY <1>1
<1>. HIDE DEF n, r
<1>3. (m + n) - (m + 1) + 1 = n  BY <1>1
<1>4. \A i \in 1 .. n : (m + 1) + i - 1 = m + i  BY <1>1
<1>5. \A i \in 1 .. n : s[(m + 1) + i - 1] = h[i]
  BY <1>4 DEF n
<1>6. r = [i \in 1 .. n |-> s[(m + 1) + i - 1]]  BY <1>2, <1>3, Zenon
<1>7. r = [i \in 1 .. n |-> h[i]]  BY <1>5, <1>6, Zenon
<1>. QED  BY <1>1, <1>7 DEF r, n

\* The arguments of AC: six fields, in a payload s that is put together step by step.
AdcPlaces(V, s, a, b, c, d, e, n, h) ==
    /\ s \in Seq(V) /\ Len(s) = 12 + Len(h)
    /\ s[1] = a[1] /\ s[2] = a[2]
    /\ s[3] = b[1] /\ s[4] = b[2] /\ s[5] = b[3] /\ s[6] = b[4]
    /\ s[7] = c[1] /\ s[8] = c[2] /\ s[9] = d[1]
    /\ s[10] = e[1] /\ s[11] = e[2] /\ s[12] = n
    /\ SubSeq(s, 13, 12 + Len(h)) = h

\* Where each field of the ADC's packet ends up, one concatenation after another.
LEMMA AdcSteps ==
    ASSUME NEW V, NEW a, NEW b, NEW c, NEW d, NEW e, NEW n, NEW h \in Seq(V), NEW k \in Nat,
           k = Len(h), NEW s2, NEW s3, NEW s4, NEW s5, NEW g, NEW s,
           Joined(V, s2, a, 2, b, 4), Joined(V, s3, s2, 6, c, 2), Joined(V, s4, s3, 8, d, 1),
           Joined(V, s5, s4, 9, e, 2), Joined(V, g, <<n>>, 1, h, k),
           Joined(V, s, s5, 11, g, 1 + k)
    PROVE  AdcPlaces(V, s, a, b, c, d, e, n, h)
<1>2. Joined(V, s2, a, 2, b, 4)  OBVIOUS
<1>4. Joined(V, s3, s2, 6, c, 2)  OBVIOUS
<1>6. Joined(V, s4, s3, 8, d, 1)  OBVIOUS
<1>8. Joined(V, s5, s4, 9, e, 2)  OBVIOUS
<1>10. Joined(V, g, <<n>>, 1, h, k)  OBVIOUS
<1>13. Joined(V, s, s5, 11, g, 1 + k)  OBVIOUS
<1>11. k \in Nat  OBVIOUS
<1>14. s \in Seq(V) /\ Len(s) = 12 + k  BY <1>13 DEF Joined
<1>15. s[1] = a[1] /\ s[2] = a[2] /\ s[3] = b[1] /\ s[4] = b[2] /\ s[5] = b[3] /\ s[6] = b[4]
  <2>1. \A i \in 1 .. 6 : s[i] = s2[i]
    <3>1. \A i \in 1 .. 6 : s3[i] = s2[i]
      <4>. SUFFICES ASSUME NEW i \in 1 .. 6 PROVE s3[i] = s2[i]  OBVIOUS
      <4>1. i \in 1 .. 6  OBVIOUS
      <4>. QED  BY <1>4, <4>1, JoinedFront
    <3>2. \A i \in 1 .. 6 : s4[i] = s3[i]
      <4>. SUFFICES ASSUME NEW i \in 1 .. 6 PROVE s4[i] = s3[i]  OBVIOUS
      <4>1. i \in 1 .. 8  OBVIOUS
      <4>. QED  BY <1>6, <4>1, JoinedFront
    <3>3. \A i \in 1 .. 6 : s5[i] = s4[i]
      <4>. SUFFICES ASSUME NEW i \in 1 .. 6 PROVE s5[i] = s4[i]  OBVIOUS
      <4>1. i \in 1 .. 9  OBVIOUS
      <4>. QED  BY <1>8, <4>1, JoinedFront
    <3>4. \A i \in 1 .. 6 : s[i] = s5[i]
      <4>. SUFFICES ASSUME NEW i \in 1 .. 6 PROVE s[i] = s5[i]  OBVIOUS
      <4>1. i \in 1 .. 11  OBVIOUS
      <4>. QED  BY <1>13, <4>1, JoinedFront
    <3>. QED  BY <3>1, <3>2, <3>3, <3>4, Zenon
  <2>2. s2[1] = a[1] /\ s2[2] = a[2]  BY <1>2 DEF Joined
  <2>3. s2[2 + 1] = b[1] /\ s2[2 + 2] = b[2] /\ s2[2 + 3] = b[3] /\ s2[2 + 4] = b[4]
    BY <1>2 DEF Joined
  <2>. QED  BY <2>1, <2>2, <2>3
<1>16. s[7] = c[1] /\ s[8] = c[2]
  <2>1. s[7] = s3[7] /\ s[8] = s3[8]
    <3>1. s4[7] = s3[7] /\ s4[8] = s3[8]  BY <1>6 DEF Joined
    <3>2. s5[7] = s4[7] /\ s5[8] = s4[8]  BY <1>8 DEF Joined
    <3>3. s[7] = s5[7] /\ s[8] = s5[8]  BY <1>13 DEF Joined
    <3>. QED  BY <3>1, <3>2, <3>3
  <2>2. s3[6 + 1] = c[1] /\ s3[6 + 2] = c[2]  BY <1>4 DEF Joined
  <2>. QED  BY <2>1, <2>2
<1>17. s[9] = d[1]
  <2>1. 9 \in 1 .. 9 /\ 9 \in 1 .. 11 /\ 8 + 1 = 9  OBVIOUS
  <2>2. s4[8 + 1] = d[1]  BY <1>6 DEF Joined
  <2>3. s5[9] = s4[9]  BY <1>8, <2>1, JoinedFront
  <2>4. s[9] = s5[9]  BY <1>13, <2>1, JoinedFront
  <2>. QED  BY <2>1, <2>2, <2>3, <2>4, Zenon
<1>18. s[10] = e[1] /\ s[11] = e[2]
  <2>1. 10 \in 1 .. 11 /\ 11 \in 1 .. 11 /\ 9 + 1 = 10 /\ 9 + 2 = 11  OBVIOUS
  <2>2. s5[9 + 1] = e[1] /\ s5[9 + 2] = e[2]  BY <1>8 DEF Joined
  <2>3. s[10] = s5[10] /\ s[11] = s5[11]  BY <1>13, <2>1, JoinedFront
  <2>. QED  BY <2>1, <2>2, <2>3, Zenon
<1>19. s[12] = n /\ \A i \in 1 .. k : s[12 + i] = h[i]
  <2>1. g[1] = n /\ \A i \in 1 .. k : g[1 + i] = h[i]
    BY <1>10 DEF Joined
  <2>2. \A i \in 1 .. 1 + k : s[11 + i] = g[i]
    BY <1>13 DEF Joined
  <2>3. \A i \in 1 .. k : 1 + i \in 1 .. 1 + k /\ 11 + (1 + i) = 12 + i  BY <1>11
  <2>4. 1 \in 1 .. 1 + k /\ 11 + 1 = 12  BY <1>11
  <2>5. s[12] = n  BY <2>1, <2>2, <2>4, Zenon
  <2>6. ASSUME NEW i \in 1 .. k PROVE s[12 + i] = h[i]
    <3>1. s[11 + (1 + i)] = g[1 + i]  BY <2>2, <2>3, Zenon
    <3>. QED  BY <2>1, <2>3, <3>1, Zenon
  <2>. QED  BY <2>5, <2>6
<1>20. SubSeq(s, 12 + 1, 12 + k) = h
  BY <1>11, <1>14, <1>19, Behind 
<1>. QED  BY <1>14, <1>15, <1>16, <1>17, <1>18, <1>19, <1>20 DEF AdcPlaces

\* The places of its fields
LEMMA AdcLayout ==
    ASSUME NEW V, NEW a \in Seq(V), NEW b \in Seq(V), NEW c \in Seq(V), NEW d \in Seq(V),
           NEW e \in Seq(V), NEW h \in Seq(V), NEW n \in V,
           Len(a) = 2, Len(b) = 4, Len(c) = 2, Len(d) = 1, Len(e) = 2,
           NEW s, s = ((((a \o b) \o c) \o d) \o e) \o (<<n>> \o h)
    PROVE  AdcPlaces(V, s, a, b, c, d, e, n, h)
<1>. DEFINE s2 == a \o b
            s3 == s2 \o c
            s4 == s3 \o d
            s5 == s4 \o e
            g  == <<n>> \o h
            k  == Len(h)
<1>1. s = s5 \o g  BY Zenon
<1>2. Joined(V, s2, a, 2, b, 4)  BY Joins, Zenon
<1>3. s2 \in Seq(V) /\ Len(s2) = 6  BY <1>2 DEF Joined
<1>. HIDE DEF s2
<1>4. Joined(V, s3, s2, 6, c, 2)  BY <1>3, Joins, Zenon
<1>5. s3 \in Seq(V) /\ Len(s3) = 8  BY <1>4 DEF Joined
<1>. HIDE DEF s3
<1>6. Joined(V, s4, s3, 8, d, 1)  BY <1>5, Joins, Zenon
<1>7. s4 \in Seq(V) /\ Len(s4) = 9  BY <1>6 DEF Joined
<1>. HIDE DEF s4
<1>8. Joined(V, s5, s4, 9, e, 2)  BY <1>7, Joins, Zenon
<1>9. s5 \in Seq(V) /\ Len(s5) = 11  BY <1>8 DEF Joined
<1>. HIDE DEF s5
<1>10. Joined(V, g, <<n>>, 1, h, k)
  <2>1. <<n>> \in Seq(V) /\ Len(<<n>>) = 1  OBVIOUS
  <2>. QED  BY <2>1, Joins, Zenon
<1>11. k \in Nat  OBVIOUS
<1>. HIDE DEF g, k
<1>12. g \in Seq(V) /\ Len(g) = 1 + k  BY <1>10 DEF Joined
<1>13. Joined(V, s, s5, 11, g, 1 + k)  BY <1>1, <1>9, <1>12, Joins, Zenon
<1>. QED
  BY <1>2, <1>4, <1>6, <1>8, <1>10, <1>11, <1>13, AdcSteps, Zenon DEF k

\* The arguments of DC
DacPlaces(V, s, a, b, c, d, e, h) ==
    /\ s \in Seq(V) /\ Len(s) = 11
    /\ s[1] = a[1] /\ s[2] = a[2]
    /\ s[3] = b[1] /\ s[4] = b[2] /\ s[5] = b[3] /\ s[6] = b[4]
    /\ s[7] = c[1] /\ s[8] = d[1] /\ s[9] = d[2]
    /\ s[10] = e[1] /\ s[11] = h[1]

\* The same for the DAC's packet
LEMMA DacSteps ==
    ASSUME NEW V, NEW a, NEW b, NEW c, NEW d, NEW e, NEW h,
           NEW s2, NEW s3, NEW s4, NEW s5, NEW s,
           Joined(V, s2, a, 2, b, 4), Joined(V, s3, s2, 6, c, 1), Joined(V, s4, s3, 7, d, 2),
           Joined(V, s5, s4, 9, e, 1), Joined(V, s, s5, 10, h, 1)
    PROVE  DacPlaces(V, s, a, b, c, d, e, h)
<1>2. Joined(V, s2, a, 2, b, 4)  OBVIOUS
<1>4. Joined(V, s3, s2, 6, c, 1)  OBVIOUS
<1>6. Joined(V, s4, s3, 7, d, 2)  OBVIOUS
<1>8. Joined(V, s5, s4, 9, e, 1)  OBVIOUS
<1>10. Joined(V, s, s5, 10, h, 1)  OBVIOUS
<1>11. s \in Seq(V) /\ Len(s) = 11  BY <1>10 DEF Joined
<1>12. s[1] = a[1] /\ s[2] = a[2] /\ s[3] = b[1] /\ s[4] = b[2] /\ s[5] = b[3] /\ s[6] = b[4]
  <2>1. \A i \in 1 .. 6 : s[i] = s2[i]
    <3>1. \A i \in 1 .. 6 : s3[i] = s2[i]
      <4>. SUFFICES ASSUME NEW i \in 1 .. 6 PROVE s3[i] = s2[i]  OBVIOUS
      <4>1. i \in 1 .. 6  OBVIOUS
      <4>. QED  BY <1>4, <4>1, JoinedFront
    <3>2. \A i \in 1 .. 6 : s4[i] = s3[i]
      <4>. SUFFICES ASSUME NEW i \in 1 .. 6 PROVE s4[i] = s3[i]  OBVIOUS
      <4>1. i \in 1 .. 7  OBVIOUS
      <4>. QED  BY <1>6, <4>1, JoinedFront
    <3>3. \A i \in 1 .. 6 : s5[i] = s4[i]
      <4>. SUFFICES ASSUME NEW i \in 1 .. 6 PROVE s5[i] = s4[i]  OBVIOUS
      <4>1. i \in 1 .. 9  OBVIOUS
      <4>. QED  BY <1>8, <4>1, JoinedFront
    <3>4. \A i \in 1 .. 6 : s[i] = s5[i]
      <4>. SUFFICES ASSUME NEW i \in 1 .. 6 PROVE s[i] = s5[i]  OBVIOUS
      <4>1. i \in 1 .. 10  OBVIOUS
      <4>. QED  BY <1>10, <4>1, JoinedFront
    <3>. QED  BY <3>1, <3>2, <3>3, <3>4, Zenon
  <2>2. s2[1] = a[1] /\ s2[2] = a[2]  BY <1>2 DEF Joined
  <2>3. s2[2 + 1] = b[1] /\ s2[2 + 2] = b[2] /\ s2[2 + 3] = b[3] /\ s2[2 + 4] = b[4]
    BY <1>2 DEF Joined
  <2>. QED  BY <2>1, <2>2, <2>3
<1>13. s[7] = c[1]
  <2>1. s3[6 + 1] = c[1]  BY <1>4 DEF Joined
  <2>. QED  BY <1>6, <1>8, <1>10, <2>1 DEF Joined
<1>14. s[8] = d[1] /\ s[9] = d[2]
  <2>1. s4[7 + 1] = d[1] /\ s4[7 + 2] = d[2]  BY <1>6 DEF Joined
  <2>. QED  BY <1>8, <1>10, <2>1 DEF Joined
<1>15. s[10] = e[1]
  <2>1. s5[9 + 1] = e[1]  BY <1>8 DEF Joined
  <2>. QED  BY <1>10, <2>1 DEF Joined
<1>16. s[11] = h[1]
  <2>1. s[10 + 1] = h[1]  BY <1>10 DEF Joined
  <2>. QED  BY <2>1
<1>. QED  BY <1>11, <1>12, <1>13, <1>14, <1>15, <1>16 DEF DacPlaces

\* The places of its fields
LEMMA DacLayout ==
    ASSUME NEW V, NEW a \in Seq(V), NEW b \in Seq(V), NEW c \in Seq(V), NEW d \in Seq(V),
           NEW e \in Seq(V), NEW h \in Seq(V),
           Len(a) = 2, Len(b) = 4, Len(c) = 1, Len(d) = 2, Len(e) = 1, Len(h) = 1,
           NEW s, s = ((((a \o b) \o c) \o d) \o e) \o h
    PROVE  DacPlaces(V, s, a, b, c, d, e, h)
<1>. DEFINE s2 == a \o b
            s3 == s2 \o c
            s4 == s3 \o d
            s5 == s4 \o e
<1>1. s = s5 \o h  BY Zenon
<1>2. Joined(V, s2, a, 2, b, 4)  BY Joins, Zenon
<1>3. s2 \in Seq(V) /\ Len(s2) = 6  BY <1>2 DEF Joined
<1>. HIDE DEF s2
<1>4. Joined(V, s3, s2, 6, c, 1)  BY <1>3, Joins, Zenon
<1>5. s3 \in Seq(V) /\ Len(s3) = 7  BY <1>4 DEF Joined
<1>. HIDE DEF s3
<1>6. Joined(V, s4, s3, 7, d, 2)  BY <1>5, Joins, Zenon
<1>7. s4 \in Seq(V) /\ Len(s4) = 9  BY <1>6 DEF Joined
<1>. HIDE DEF s4
<1>8. Joined(V, s5, s4, 9, e, 1)  BY <1>7, Joins, Zenon
<1>9. s5 \in Seq(V) /\ Len(s5) = 10  BY <1>8 DEF Joined
<1>. HIDE DEF s5
<1>10. Joined(V, s, s5, 10, h, 1)  BY <1>1, <1>9, Joins, Zenon
<1>. QED
  BY <1>2, <1>4, <1>6, <1>8, <1>10, DacSteps, Zenon

\* Bytes one by one, as BigEndian writes them.
LEMMA BytesPacked ==
    ASSUME NEW v \in Seq(Bytes)
    PROVE  FlattenSeq([i \in 1 .. Len(v) |-> BigEndian(v[i], UINT8_T)]) = v
<1>1. ASSUME NEW i \in 1 .. Len(v) PROVE BigEndian(v[i], UINT8_T) = <<v[i]>>
  <2>1. v[i] \in Bytes  OBVIOUS
  <2>. QED  BY <2>1, OneByte DEF UINT8_T
<1>2. [i \in 1 .. Len(v) |-> BigEndian(v[i], UINT8_T)] = [i \in 1 .. Len(v) |-> <<v[i]>>]
  BY <1>1, Zenon
<1>. QED  BY <1>2, FlattenSingles

\* What pack puts together for the two configuration packets, field by field.
LEMMA Fields ==
    ASSUME NEW x
    PROVE  /\ pack(ADCConfigPacket, x) =
                [family |-> "A", type |-> "C",
                 data |-> FlattenSeq(<<BigEndian(x.prescaler, 2), BigEndian(x.period, 4),
                                       BigEndian(x.num_points, 2), BigEndian(x.sample_width, 1),
                                       BigEndian(x.sample_time, 2),
                                       BigEndian(Len(x.channels), 1)
                                         \o FlattenSeq([i \in 1 .. Len(x.channels) |->
                                                          BigEndian(x.channels[i], UINT8_T)])>>)]
           /\ pack(DACConfigPacket, x) =
                [family |-> "D", type |-> "C",
                 data |-> FlattenSeq(<<BigEndian(x.prescaler, 2), BigEndian(x.period, 4),
                                       BigEndian(x.scale, 1), BigEndian(x.points_per_wave, 2),
                                       BigEndian(x.num_waves, 1), BigEndian(x.theta0_u8, 1)>>)]
<1>. DEFINE P(cls) == [i \in DOMAIN cls.fields |-> PackField(cls.fields[i], x[cls.fields[i].fname])]
<1>1. P(ADCConfigPacket) =
        <<BigEndian(x.prescaler, 2), BigEndian(x.period, 4), BigEndian(x.num_points, 2),
          BigEndian(x.sample_width, 1), BigEndian(x.sample_time, 2),
          BigEndian(Len(x.channels), 1) \o FlattenSeq([i \in 1 .. Len(x.channels) |->
                                                        BigEndian(x.channels[i], UINT8_T)])>>
  <2>. DEFINE F   == Varlength("channels", UINT8_T, UINT8_T)
              Fl  == ADCConfigPacket.fields
              Q(f, v) == PackField(f, v)
  <2>1. PackField(F, x.channels) =
          BigEndian(Len(x.channels), 1) \o FlattenSeq([i \in 1 .. Len(x.channels) |->
                                                        BigEndian(x.channels[i], UINT8_T)])
    <3>1. F.is_varlength /\ F.ftype = UINT8_T /\ F.lengthtype = 1  BY DEF Varlength, UINT8_T
    <3>. HIDE DEF F
    <3>. QED  BY <3>1, Zenon DEF PackField
  <2>2. \A name, width, v : PackField(Field(name, width), v) = BigEndian(v, width)
    BY DEF PackField, Field
  <2>3. F.fname = "channels"  BY DEF Varlength
  <2>4. \A name, width : Field(name, width).fname = name  BY DEF Field
  <2>5. Fl = <<Field("prescaler", 2), Field("period", 4), Field("num_points", 2),
               Field("sample_width", 1), Field("sample_time", 2), F>>
    BY DEF ADCConfigPacket, UINT8_T, UINT16_T, UINT32_T
  <2>. HIDE DEF F, Fl, Q
  <2>6. [i \in DOMAIN Fl |-> Q(Fl[i], x[Fl[i].fname])] =
          <<Q(Fl[1], x[Fl[1].fname]), Q(Fl[2], x[Fl[2].fname]), Q(Fl[3], x[Fl[3].fname]),
            Q(Fl[4], x[Fl[4].fname]), Q(Fl[5], x[Fl[5].fname]), Q(Fl[6], x[Fl[6].fname])>>
    BY <2>5
  <2>7. /\ Q(Fl[1], x[Fl[1].fname]) = BigEndian(x.prescaler, 2)
        /\ Q(Fl[2], x[Fl[2].fname]) = BigEndian(x.period, 4)
        /\ Q(Fl[3], x[Fl[3].fname]) = BigEndian(x.num_points, 2)
        /\ Q(Fl[4], x[Fl[4].fname]) = BigEndian(x.sample_width, 1)
        /\ Q(Fl[5], x[Fl[5].fname]) = BigEndian(x.sample_time, 2)
        /\ Q(Fl[6], x[Fl[6].fname]) = PackField(F, x.channels)
    <3>1. /\ Fl[1] = Field("prescaler", 2) /\ Fl[2] = Field("period", 4)
          /\ Fl[3] = Field("num_points", 2) /\ Fl[4] = Field("sample_width", 1)
          /\ Fl[5] = Field("sample_time", 2) /\ Fl[6] = F
      BY <2>5
    <3>2. /\ Fl[1].fname = "prescaler" /\ Fl[2].fname = "period"
          /\ Fl[3].fname = "num_points" /\ Fl[4].fname = "sample_width"
          /\ Fl[5].fname = "sample_time" /\ Fl[6].fname = "channels"
      BY <2>3, <2>4, <3>1, Zenon
    <3>3. /\ x["prescaler"] = x.prescaler /\ x["period"] = x.period
          /\ x["num_points"] = x.num_points /\ x["sample_width"] = x.sample_width
          /\ x["sample_time"] = x.sample_time /\ x["channels"] = x.channels
      OBVIOUS
    <3>4. \A name, width, v : Q(Field(name, width), v) = BigEndian(v, width)
      BY <2>2, Zenon DEF Q
    <3>5. Q(F, x.channels) = PackField(F, x.channels)  BY Zenon DEF Q
    <3>6. Q(Fl[1], x[Fl[1].fname]) = BigEndian(x.prescaler, 2)
      <4>1. Q(Fl[1], x[Fl[1].fname]) = Q(Field("prescaler", 2), x["prescaler"])  BY <3>1, <3>2, Zenon
      <4>. QED  BY <3>3, <3>4, <4>1
    <3>7. Q(Fl[2], x[Fl[2].fname]) = BigEndian(x.period, 4)
      <4>1. Q(Fl[2], x[Fl[2].fname]) = Q(Field("period", 4), x["period"])  BY <3>1, <3>2, Zenon
      <4>. QED  BY <3>3, <3>4, <4>1
    <3>8. Q(Fl[3], x[Fl[3].fname]) = BigEndian(x.num_points, 2)
      <4>1. Q(Fl[3], x[Fl[3].fname]) = Q(Field("num_points", 2), x["num_points"])  BY <3>1, <3>2, Zenon
      <4>. QED  BY <3>3, <3>4, <4>1
    <3>9. Q(Fl[4], x[Fl[4].fname]) = BigEndian(x.sample_width, 1)
      <4>1. Q(Fl[4], x[Fl[4].fname]) = Q(Field("sample_width", 1), x["sample_width"])  BY <3>1, <3>2, Zenon
      <4>. QED  BY <3>3, <3>4, <4>1
    <3>10. Q(Fl[5], x[Fl[5].fname]) = BigEndian(x.sample_time, 2)
      <4>1. Q(Fl[5], x[Fl[5].fname]) = Q(Field("sample_time", 2), x["sample_time"])  BY <3>1, <3>2, Zenon
      <4>. QED  BY <3>3, <3>4, <4>1
    <3>11. Q(Fl[6], x[Fl[6].fname]) = PackField(F, x.channels)
      <4>1. Q(Fl[6], x[Fl[6].fname]) = Q(F, x["channels"])  BY <3>1, <3>2, Zenon
      <4>. QED  BY <3>3, <3>5, <4>1
    <3>. QED  BY <3>6, <3>7, <3>8, <3>9, <3>10, <3>11, Zenon
  <2>8. P(ADCConfigPacket) = [i \in DOMAIN Fl |-> Q(Fl[i], x[Fl[i].fname])]
    BY Zenon DEF Q, Fl
  <2>. QED  BY <2>1, <2>6, <2>7, <2>8, Zenon
<1>2. P(DACConfigPacket) =
        <<BigEndian(x.prescaler, 2), BigEndian(x.period, 4), BigEndian(x.scale, 1),
          BigEndian(x.points_per_wave, 2), BigEndian(x.num_waves, 1), BigEndian(x.theta0_u8, 1)>>
  <2>. DEFINE Fl == DACConfigPacket.fields
              Q(f) == PackField(f, x[f.fname])
  <2>1. ASSUME NEW name, NEW width PROVE Q(Field(name, width)) = BigEndian(x[name], width)
    <3>. DEFINE f == Field(name, width)
    <3>1. f.fname = name /\ f.ftype = width /\ ~f.is_varlength  BY DEF Field
    <3>. HIDE DEF f
    <3>. QED  BY <3>1, Zenon DEF PackField, f
  <2>2. Fl = <<Field("prescaler", 2), Field("period", 4), Field("scale", 1),
               Field("points_per_wave", 2), Field("num_waves", 1), Field("theta0_u8", 1)>>
    BY DEF DACConfigPacket, UINT8_T, UINT16_T, UINT32_T
  <2>3. P(DACConfigPacket) = [i \in DOMAIN Fl |-> Q(Fl[i])]  BY Zenon DEF Q, Fl
  <2>. HIDE DEF Fl, Q
  <2>4. [i \in DOMAIN Fl |-> Q(Fl[i])] =
          <<Q(Fl[1]), Q(Fl[2]), Q(Fl[3]), Q(Fl[4]), Q(Fl[5]), Q(Fl[6])>>
    BY <2>2
  <2>5. /\ Fl[1] = Field("prescaler", 2)
        /\ Fl[2] = Field("period", 4)
        /\ Fl[3] = Field("scale", 1)
        /\ Fl[4] = Field("points_per_wave", 2)
        /\ Fl[5] = Field("num_waves", 1)
        /\ Fl[6] = Field("theta0_u8", 1)
    BY <2>2
  <2>6. /\ Q(Fl[1]) = BigEndian(x["prescaler"], 2)
        /\ Q(Fl[2]) = BigEndian(x["period"], 4)
        /\ Q(Fl[3]) = BigEndian(x["scale"], 1)
        /\ Q(Fl[4]) = BigEndian(x["points_per_wave"], 2)
        /\ Q(Fl[5]) = BigEndian(x["num_waves"], 1)
        /\ Q(Fl[6]) = BigEndian(x["theta0_u8"], 1)
    BY <2>1, <2>5, Zenon
  <2>7. /\ x["prescaler"] = x.prescaler
        /\ x["period"] = x.period
        /\ x["scale"] = x.scale
        /\ x["points_per_wave"] = x.points_per_wave
        /\ x["num_waves"] = x.num_waves
        /\ x["theta0_u8"] = x.theta0_u8
    OBVIOUS
  <2>. QED  BY <2>3, <2>4, <2>6, <2>7, Zenon
<1>3. ADCConfigPacket.family = "A" /\ ADCConfigPacket.type = "C"  BY DEF ADCConfigPacket
<1>4. DACConfigPacket.family = "D" /\ DACConfigPacket.type = "C"  BY DEF DACConfigPacket
<1>. QED  BY <1>1, <1>2, <1>3, <1>4, Zenon DEF pack

\* A sequence of one entry
LEMMA Single ==
    ASSUME NEW V, NEW v \in V, NEW d, d = <<v>>
    PROVE  d \in Seq(V) /\ Len(d) = 1 /\ d[1] = v
  OBVIOUS

\* The arguments of adc_control.py and of dac_control.py that can be packed.
AdcArguments ==
    [prescaler : 0 .. WordMod - 1, period : 0 .. WordMod * WordMod - 1,
     num_points : 0 .. WordMod - 1, sample_width : Bytes, sample_time : 0 .. WordMod - 1,
     channels : {s \in Seq(Bytes) : Len(s) < ByteMod}]

DacArguments ==
    [prescaler : 0 .. WordMod - 1, period : 0 .. WordMod * WordMod - 1, scale : Bytes,
     points_per_wave : 0 .. WordMod - 1, num_waves : Bytes, theta0_u8 : Bytes]

\* What the board makes of the bytes that carry such arguments.
THEOREM AdcUnpacked ==
    ASSUME NEW x \in AdcArguments
    PROVE  LET s == pack(ADCConfigPacket, x).data
           IN  /\ s \in Seq(Bytes)
               /\ AdcRequest(s) =
                    [cb |-> "eol_adc_callback",
                     buflen |-> (x.num_points * x.sample_width * Len(x.channels)) % WordMod,
                     sample_width |-> x.sample_width, prescaler |-> x.prescaler,
                     period |-> x.period, sample_time |-> x.sample_time,
                     channels |-> x.channels]
<1>. DEFINE a == BigEndian(x.prescaler, 2)
            b == BigEndian(x.period, 4)
            c == BigEndian(x.num_points, 2)
            d == BigEndian(x.sample_width, 1)
            e == BigEndian(x.sample_time, 2)
            h == x.channels
            n == Len(h)
            s == pack(ADCConfigPacket, x).data
<1>0. /\ x.prescaler \in 0 .. WordMod - 1 /\ x.period \in 0 .. WordMod * WordMod - 1
      /\ x.num_points \in 0 .. WordMod - 1 /\ x.sample_width \in Bytes
      /\ x.sample_time \in 0 .. WordMod - 1 /\ h \in Seq(Bytes) /\ n < ByteMod
  BY DEF AdcArguments
<1>1. n \in Bytes  BY <1>0, WordFacts DEF Bytes
<1>2. /\ a \in Seq(Bytes) /\ Len(a) = 2 /\ a[1] * ByteMod + a[2] = x.prescaler
  BY <1>0, TwoBytes, Zenon
<1>3. /\ b \in Seq(Bytes) /\ Len(b) = 4
      /\ (b[1] * ByteMod + b[2]) * WordMod + (b[3] * ByteMod + b[4]) = x.period
  BY <1>0, FourBytes, Zenon
<1>4. /\ c \in Seq(Bytes) /\ Len(c) = 2 /\ c[1] * ByteMod + c[2] = x.num_points
  BY <1>0, TwoBytes, Zenon
<1>5. d \in Seq(Bytes) /\ Len(d) = 1 /\ d[1] = x.sample_width
  <2>1. d = <<x.sample_width>>  BY <1>0, OneByte
  <2>. QED  BY <1>0, <2>1, Single, Zenon
<1>6. /\ e \in Seq(Bytes) /\ Len(e) = 2 /\ e[1] * ByteMod + e[2] = x.sample_time
  BY <1>0, TwoBytes, Zenon
<1>7. BigEndian(n, 1) = <<n>>  BY <1>1, OneByte
<1>8. FlattenSeq([i \in 1 .. Len(h) |-> BigEndian(h[i], UINT8_T)]) = h
  BY <1>0, BytesPacked, Zenon
<1>9. s = FlattenSeq(<<a, b, c, d, e, <<n>> \o h>>)
  <2>. DEFINE u == FlattenSeq(<<a, b, c, d, e,
                                BigEndian(n, 1) \o FlattenSeq([i \in 1 .. Len(h) |->
                                                                 BigEndian(h[i], UINT8_T)])>>)
  <2>1. pack(ADCConfigPacket, x) = [family |-> "A", type |-> "C", data |-> u]
    BY Fields, Zenon
  <2>2. u = FlattenSeq(<<a, b, c, d, e, <<n>> \o h>>)  BY <1>7, <1>8, Zenon
  <2>. HIDE DEF u
  <2>3. s = u  BY <2>1
  <2>. QED  BY <2>2, <2>3
<1>. HIDE DEF a, b, c, d, e, h, n, s
<1>10. s = ((((a \o b) \o c) \o d) \o e) \o (<<n>> \o h)
  <2>. DEFINE g == <<n>> \o h
  <2>. HIDE DEF g
  <2>1. FlatSix(a, b, c, d, e, g)  BY FlattenSix, Zenon
  <2>. QED  BY <1>9, <2>1, Zenon DEF FlatSix, g
<1>11. AdcPlaces(Bytes, s, a, b, c, d, e, n, h)
  BY <1>0, <1>1, <1>2, <1>3, <1>4, <1>5, <1>6, <1>10, AdcLayout
<1>12. get16(s, 1) = x.prescaler
  <2>1. s[1] = a[1] /\ s[1 + 1] = a[2]  BY <1>11 DEF AdcPlaces
  <2>. QED  BY <1>2, <2>1, Zenon DEF get16
<1>13. get32(s, 3) = x.period
  <2>1. s[3] = b[1] /\ s[3 + 1] = b[2] /\ s[3 + 2] = b[3] /\ s[(3 + 2) + 1] = b[4]
    BY <1>11 DEF AdcPlaces
  <2>. QED  BY <1>3, <2>1, Zenon DEF get32, get16
<1>14. get16(s, 7) = x.num_points
  <2>1. s[7] = c[1] /\ s[7 + 1] = c[2]  BY <1>11 DEF AdcPlaces
  <2>. QED  BY <1>4, <2>1, Zenon DEF get16
<1>15. get16(s, 10) = x.sample_time
  <2>1. s[10] = e[1] /\ s[10 + 1] = e[2]  BY <1>11 DEF AdcPlaces
  <2>. QED  BY <1>6, <2>1, Zenon DEF get16
<1>16. /\ s \in Seq(Bytes) /\ s[9] = x.sample_width /\ s[12] = n
       /\ SubSeq(s, 13, 12 + n) = h
  BY <1>5, <1>11 DEF AdcPlaces, n
<1>17. AdcRequest(s) =
         [cb |-> "eol_adc_callback", buflen |-> (x.num_points * x.sample_width * n) % WordMod,
          sample_width |-> x.sample_width, prescaler |-> x.prescaler, period |-> x.period,
          sample_time |-> x.sample_time, channels |-> h]
  BY <1>12, <1>13, <1>14, <1>15, <1>16, Zenon DEF AdcRequest
<1>. QED  BY <1>16, <1>17, Zenon DEF s, n, h

\* The board reads back every argument of the DAC that the tether packed.
THEOREM DacUnpacked ==
    ASSUME NEW x \in DacArguments
    PROVE  LET s == pack(DACConfigPacket, x).data
           IN  s \in Seq(Bytes) /\ DacRequest(s) = x
<1>. DEFINE a == BigEndian(x.prescaler, 2)
            b == BigEndian(x.period, 4)
            c == BigEndian(x.scale, 1)
            d == BigEndian(x.points_per_wave, 2)
            e == BigEndian(x.num_waves, 1)
            h == BigEndian(x.theta0_u8, 1)
            s == pack(DACConfigPacket, x).data
<1>0. /\ x.prescaler \in 0 .. WordMod - 1 /\ x.period \in 0 .. WordMod * WordMod - 1
      /\ x.scale \in Bytes /\ x.points_per_wave \in 0 .. WordMod - 1
      /\ x.num_waves \in Bytes /\ x.theta0_u8 \in Bytes
  BY DEF DacArguments
<1>2. /\ a \in Seq(Bytes) /\ Len(a) = 2 /\ a[1] * ByteMod + a[2] = x.prescaler
  BY <1>0, TwoBytes, Zenon
<1>3. /\ b \in Seq(Bytes) /\ Len(b) = 4
      /\ (b[1] * ByteMod + b[2]) * WordMod + (b[3] * ByteMod + b[4]) = x.period
  BY <1>0, FourBytes, Zenon
<1>4. c \in Seq(Bytes) /\ Len(c) = 1 /\ c[1] = x.scale
  <2>1. c = <<x.scale>>  BY <1>0, OneByte
  <2>. QED  BY <1>0, <2>1, Single, Zenon
<1>5. /\ d \in Seq(Bytes) /\ Len(d) = 2 /\ d[1] * ByteMod + d[2] = x.points_per_wave
  BY <1>0, TwoBytes, Zenon
<1>6. e \in Seq(Bytes) /\ Len(e) = 1 /\ e[1] = x.num_waves
  <2>1. e = <<x.num_waves>>  BY <1>0, OneByte
  <2>. QED  BY <1>0, <2>1, Single, Zenon
<1>7. h \in Seq(Bytes) /\ Len(h) = 1 /\ h[1] = x.theta0_u8
  <2>1. h = <<x.theta0_u8>>  BY <1>0, OneByte
  <2>. QED  BY <1>0, <2>1, Single, Zenon
<1>9. s = FlattenSeq(<<a, b, c, d, e, h>>)
  <2>. DEFINE u == FlattenSeq(<<a, b, c, d, e, h>>)
  <2>1. pack(DACConfigPacket, x) = [family |-> "D", type |-> "C", data |-> u]
    BY Fields, Zenon
  <2>. HIDE DEF u
  <2>2. s = u  BY <2>1
  <2>. QED  BY <2>2 DEF u
<1>. HIDE DEF a, b, c, d, e, h, s
<1>10. s = ((((a \o b) \o c) \o d) \o e) \o h
  <2>1. FlatSix(a, b, c, d, e, h)  BY FlattenSix, Zenon
  <2>. QED  BY <1>9, <2>1, Zenon DEF FlatSix
<1>11. DacPlaces(Bytes, s, a, b, c, d, e, h)
  BY <1>2, <1>3, <1>4, <1>5, <1>6, <1>7, <1>10, DacLayout
<1>12. get16(s, 1) = x.prescaler
  <2>1. s[1] = a[1] /\ s[1 + 1] = a[2]  BY <1>11 DEF DacPlaces
  <2>. QED  BY <1>2, <2>1, Zenon DEF get16
<1>13. get32(s, 3) = x.period
  <2>1. s[3] = b[1] /\ s[3 + 1] = b[2] /\ s[3 + 2] = b[3] /\ s[(3 + 2) + 1] = b[4]
    BY <1>11 DEF DacPlaces
  <2>. QED  BY <1>3, <2>1, Zenon DEF get32, get16
<1>14. get16(s, 8) = x.points_per_wave
  <2>1. s[8] = d[1] /\ s[8 + 1] = d[2]  BY <1>11 DEF DacPlaces
  <2>. QED  BY <1>5, <2>1, Zenon DEF get16
<1>15. s \in Seq(Bytes) /\ s[7] = x.scale /\ s[10] = x.num_waves /\ s[11] = x.theta0_u8
  BY <1>4, <1>6, <1>7, <1>11 DEF DacPlaces
<1>16. DacRequest(s) =
         [prescaler |-> x.prescaler, period |-> x.period, scale |-> x.scale,
          points_per_wave |-> x.points_per_wave, num_waves |-> x.num_waves,
          theta0_u8 |-> x.theta0_u8]
  BY <1>12, <1>13, <1>14, <1>15, Zenon DEF DacRequest
<1>17. x = [prescaler |-> x.prescaler, period |-> x.period, scale |-> x.scale,
            points_per_wave |-> x.points_per_wave, num_waves |-> x.num_waves,
            theta0_u8 |-> x.theta0_u8]
  BY DEF DacArguments
<1>. QED  BY <1>15, <1>16, <1>17, Zenon DEF s

---------------------------------------------------------------------------
(* The types of the board's state and of the tether's                        *)

AdcConfigs ==
    [cb : {"eol_adc_callback", "dtmf_process"}, buflen : 0 .. WordMod - 1, sample_width : Nat,
     prescaler : Nat, period : Nat, sample_time : Nat, channels : Seq(Bytes)]

\* A configuration as a request may ask for it, or main's own.
SoundConfig(c) ==
    /\ c \in AdcConfigs
    /\ c.buflen > 0 => c.cb = "eol_adc_callback" /\ c.channels # << >>

\* A message that the tether may send: its configurations are packed arguments.
SoundRequest(f) ==
    /\ f \in Messages
    /\ f.family = "A" /\ f.type = "C" => SoundConfig(AdcRequest(f.data))
    /\ f.family = "D" /\ f.type = "C" =>
         /\ DacRequest(f.data) \in DacArguments
         /\ (DacRequest(f.data).points_per_wave * DacRequest(f.data).num_waves) % WordMod
              <= DacBufLen

Sendable == {f \in Messages : SoundRequest(f)}

\* What the board sends: never an echo request.
Replies == {m \in Messages : m.family = "E" => m.type # "Q"}

Dacs == [on : BOOLEAN, buf : {"dac_buf", "eol_dac_buf"}, npts : 0 .. DacBufLen, timer : [prescaler : Nat, period : Nat]]

DacType == eol_dac_buf \in Seq(Int) /\ Len(eol_dac_buf) = DacBufLen /\ dac \in Dacs

AdcBufType == eol_adc_buf \in Seq(Int) /\ Len(eol_adc_buf) = AdcBufLen

ConfigType == SoundConfig(saved_adc_config) /\ saved_adc_config.buflen <= AdcBufLen

StreamType ==
    /\ stream \in [on : BOOLEAN, left : 0 .. AdcBufLen]
    /\ stream.left <= n_dmas(saved_adc_config)

Mains ==
    {Loop} \cup {m \in [at : {"capture"}, config : AdcConfigs] :
                   SoundConfig(m.config) /\ m.config.buflen <= AdcBufLen}
           \cup [at : {"xmitbuf", "sending"}, msg : Replies]

FlagType ==
    tcif \in BOOLEAN /\ sending_digit \in BOOLEAN /\ hung \in BOOLEAN /\ take \in 0 .. 1

LineType == down \in Seq(Sendable) /\ Len(down) <= MaxDown /\ up \in Seq(Replies)

BoardType ==
    /\ DacType /\ AdcBufType /\ ConfigType /\ StreamType /\ FlagType /\ main \in Mains
    /\ LineType

Targets ==
    [pending_frames : Seq(Sendable), pending_echo : BOOLEAN, pending_dac : BOOLEAN,
     pending_adc_bytes : Int, adc_buf : Seq(Int), last_echo_sent : {"never", "recent", "old"},
     printed : Seq(Int)]

TetherType ==
    /\ script \in {"none", "echo", "adc", "dac", "user"}
    /\ tgt \in Targets /\ todo \in Seq(Sendable)

TypeInv == BoardType /\ TetherType /\ clean \in BOOLEAN

\* The constants are what their assumptions say.
LEMMA Constants ==
    /\ DacBufLen \in Nat /\ DacBufLen > 0 /\ AdcBufLen \in Nat /\ AdcBufLen > 0
    /\ Stride \in Nat /\ Stride > 0 /\ ByteMod <= DacBufLen /\ AdcBufLen < WordMod
    /\ MaxScripts \in Nat /\ MaxTrouble \in Nat /\ MaxDown \in Nat /\ MaxUp \in Nat
  BY BufferAssumption, RequestAssumption

\* Writing over the beginning of a buffer leaves its length.
LEMMA OverTyped ==
    ASSUME NEW V, NEW buf \in Seq(V), NEW s \in Seq(V)
    PROVE  Over(buf, s) \in Seq(V) /\ Len(Over(buf, s)) = Len(buf)
<1>. DEFINE k == Min2(Len(s), Len(buf))
            l == SubSeq(s, 1, k)
            r == SubSeq(buf, Len(s) + 1, Len(buf))
<1>1. l \in Seq(V) /\ r \in Seq(V) /\ Len(l) + Len(r) = Len(buf)
  <2>1. CASE Len(s) <= Len(buf)
    <3>1. k = Len(s)  BY <2>1 DEF Min2
    <3>2. /\ SubSeq(s, 1, Len(s)) \in Seq(V) /\ Len(SubSeq(s, 1, Len(s))) = Len(s)
          /\ r \in Seq(V) /\ Len(r) = Len(buf) - Len(s)
      BY <2>1
    <3>3. Len(s) \in Nat /\ Len(buf) \in Nat  OBVIOUS
    <3>. HIDE DEF r, k
    <3>. QED  BY <3>1, <3>2, <3>3
  <2>2. CASE Len(s) > Len(buf)
    <3>1. k = Len(buf)  BY <2>2 DEF Min2
    <3>2. /\ SubSeq(s, 1, Len(buf)) \in Seq(V) /\ Len(SubSeq(s, 1, Len(buf))) = Len(buf)
          /\ r = << >>
      BY <2>2
    <3>3. Len(buf) \in Nat /\ << >> \in Seq(V) /\ Len(<< >>) = 0  OBVIOUS
    <3>. HIDE DEF r, k
    <3>. QED  BY <3>1, <3>2, <3>3
  <2>. QED  BY <2>1, <2>2
<1>2. Over(buf, s) = l \o r  BY Zenon DEF Over
<1>. HIDE DEF l, r
<1>3. l \o r \in Seq(V) /\ Len(l \o r) = Len(l) + Len(r)  BY <1>1
<1>. QED  BY <1>1, <1>2, <1>3

\* The request to sin_gen that DC makes of its arguments
SineRequest(r) ==
    LET npts == (r.points_per_wave * r.num_waves) % WordMod
        p    == sin_gen_populate(npts, 1, r.points_per_wave)
    IN  [p.req EXCEPT !.scale = r.scale, !.theta0 = ToFloat(4 * COS_THETA0 * r.theta0_u8, ByteMod)]

\* The request that DC's arguments lead to
LEMMA SineRequested ==
    ASSUME NEW r \in DacArguments
    PROVE  LET npts == (r.points_per_wave * r.num_waves) % WordMod
               q    == SineRequest(r)
           IN  /\ npts \in 0 .. WordMod - 1
               /\ q.buflen = npts /\ q.f_tone = 1 /\ q.f_sample = r.points_per_wave
               /\ q.scale = r.scale /\ q.theta0 = ToFloat(4 * COS_THETA0 * r.theta0_u8, ByteMod)
               /\ 0 \notin {npts, 1, r.points_per_wave} => q \in Requests
<1>. DEFINE npts == (r.points_per_wave * r.num_waves) % WordMod
            p    == sin_gen_populate(npts, 1, r.points_per_wave)
            t    == ToFloat(4 * COS_THETA0 * r.theta0_u8, ByteMod)
            q    == [p.req EXCEPT !.scale = r.scale, !.theta0 = t]
<1>1. /\ r.points_per_wave \in Nat /\ r.num_waves \in Nat /\ r.scale \in Nat
      /\ r.theta0_u8 \in Nat
  BY WordFacts DEF DacArguments, Bytes
<1>2. npts \in 0 .. WordMod - 1
  <2>1. r.points_per_wave * r.num_waves \in Nat  BY <1>1
  <2>. QED  BY <2>1, WordFacts
<1>3. q = SineRequest(r)  BY DEF SineRequest
<1>. HIDE DEF npts
<1>0. t \in Nat
  <2>. DEFINE m == 4 * COS_THETA0 * r.theta0_u8
  <2>1. m \in Nat  BY <1>1, FloatFacts
  <2>. HIDE DEF m
  <2>2. ToFloat(m, ByteMod) \in Nat  BY <2>1, WordFacts, Rounded
  <2>. QED  BY <2>2 DEF m
<1>. HIDE DEF t
<1>4. q = [buflen |-> npts, theta0 |-> t, scale |-> r.scale,
           f_tone |-> 1, f_sample |-> r.points_per_wave]
  <2>. DEFINE b == [buflen |-> npts, theta0 |-> SIN_THETA0, scale |-> 1,
                    f_tone |-> 1, f_sample |-> r.points_per_wave]
              b2 == [buflen |-> npts, theta0 |-> SIN_THETA0, scale |-> r.scale,
                     f_tone |-> 1, f_sample |-> r.points_per_wave]
  <2>1. p.req = b  BY DEF sin_gen_populate
  <2>2. [b EXCEPT !.scale = r.scale] = b2  OBVIOUS
  <2>3. q = [[b EXCEPT !.scale = r.scale] EXCEPT !.theta0 = t]  BY <2>1
  <2>4. [b2 EXCEPT !.theta0 = t] =
          [buflen |-> npts, theta0 |-> t, scale |-> r.scale,
           f_tone |-> 1, f_sample |-> r.points_per_wave]
    OBVIOUS
  <2>. QED  BY <2>2, <2>3, <2>4
<1>. HIDE DEF q
<1>5. 0 \notin {npts, 1, r.points_per_wave} => q \in Requests
  BY <1>0, <1>1, <1>2, <1>4, WordFacts DEF Requests
<1>6. /\ q.buflen = npts /\ q.f_tone = 1 /\ q.f_sample = r.points_per_wave
      /\ q.scale = r.scale /\ q.theta0 = t
  BY <1>4
<1>. QED  BY <1>2, <1>3, <1>5, <1>6 DEF npts, t

\* What DC makes of sound arguments is sound.
LEMMA SynthesisTyped ==
    ASSUME NEW r \in DacArguments, (r.points_per_wave * r.num_waves) % WordMod <= DacBufLen
    PROVE  /\ Synthesis(r).npts \in 0 .. DacBufLen
           /\ Synthesis(r).wave \in Seq(0 .. 254)
           /\ Synthesis(r).prescaler = r.prescaler /\ Synthesis(r).period = r.period
<1>. DEFINE npts == (r.points_per_wave * r.num_waves) % WordMod
            p    == sin_gen_populate(npts, 1, r.points_per_wave)
            q    == SineRequest(r)
            f    == sin_gen_generate_fill(q)
<1>1. npts \in 0 .. WordMod - 1 /\ q.f_tone = 1 /\ q.f_sample = r.points_per_wave
      /\ (0 \notin {npts, 1, r.points_per_wave} => q \in Requests)
  BY SineRequested
<1>2. npts \in 0 .. DacBufLen  BY <1>1, Constants, WordFacts
<1>3. r.points_per_wave \in Nat  BY WordFacts DEF DacArguments
<1>4. Synthesis(r).wave = IF p.res = "OKAY" THEN f.wave ELSE << >>
  BY DEF Synthesis, SineRequest
<1>5. Synthesis(r).npts = npts /\ Synthesis(r).prescaler = r.prescaler
      /\ Synthesis(r).period = r.period
  BY DEF Synthesis
<1>. HIDE DEF npts, q
<1>6. p.res = "OKAY" <=> 0 \notin {npts, 1, r.points_per_wave}
  BY DEF sin_gen_populate
<1>7. ASSUME p.res = "OKAY" PROVE f.wave \in Seq(0 .. 254)
  <2>1. CASE sin_gen_qualify(q) = "OKAY"
    <3>1. q \in Requests  BY <1>1, <1>6, <1>7
    <3>2. q.f_tone <= q.f_sample
      BY <1>1, <1>3, <1>6, <1>7
    <3>3. 0 \in Nat  OBVIOUS
    <3>4. sin_gen_fulfill(q, 0).wave \in Seq(0 .. 254)
      BY <3>1, <3>2, <3>3, WaveFits
    <3>. QED  BY <2>1, <3>4 DEF sin_gen_generate_fill
  <2>2. CASE sin_gen_qualify(q) # "OKAY"
    <3>1. f.wave = << >>  BY <2>2 DEF sin_gen_generate_fill
    <3>. QED  BY <3>1
  <2>. QED  BY <2>1, <2>2
<1>8. Synthesis(r).wave \in Seq(0 .. 254)
  <2>1. << >> \in Seq(0 .. 254)  OBVIOUS
  <2>. HIDE DEF p, f
  <2>. QED  BY <1>4, <1>7, <2>1
<1>. QED  BY <1>2, <1>5, <1>8

\* What the tether's scripts pack is sound.
LEMMA AdcSound ==
    ASSUME NEW a \in AdcRequests, Packable(ADCConfigPacket, a)
    PROVE  a \in AdcArguments
<1>1. /\ a = [prescaler |-> a.prescaler, period |-> a.period, num_points |-> a.num_points,
              sample_width |-> a.sample_width, sample_time |-> a.sample_time,
              channels |-> a.channels]
      /\ a.channels \in Seq(Nat)
  BY RequestAssumption
<1>2. \A i \in 1 .. 6 :
        LET f == ADCConfigPacket.fields[i]
            v == a[f.fname]
        IN  IF f.is_varlength
            THEN /\ Len(v) < Values(f.lengthtype)
                 /\ \A j \in 1 .. Len(v) : v[j] \in 0 .. Values(f.ftype) - 1
            ELSE v \in 0 .. Values(f.ftype) - 1
  <2>1. DOMAIN ADCConfigPacket.fields = 1 .. 6  BY DEF ADCConfigPacket
  <2>. QED  BY <2>1, Zenon DEF Packable
<1>3. Values(1) = ByteMod /\ Values(2) = WordMod /\ Values(4) = WordMod * WordMod
  BY DEF Values
<1>4. a.prescaler \in 0 .. WordMod - 1
  BY <1>2, <1>3 DEF ADCConfigPacket, Field, UINT16_T
<1>5. a.period \in 0 .. WordMod * WordMod - 1
  <2>. DEFINE L == WordMod * WordMod
  <2>. HIDE DEF L
  <2>1. Values(4) = L  BY <1>3 DEF L
  <2>2. a.period \in 0 .. L - 1
    BY <1>2, <2>1 DEF ADCConfigPacket, Field, UINT32_T
  <2>. QED  BY <2>2 DEF L
<1>6. a.num_points \in 0 .. WordMod - 1
  BY <1>2, <1>3 DEF ADCConfigPacket, Field, UINT16_T
<1>7. a.sample_width \in 0 .. ByteMod - 1
  BY <1>2, <1>3 DEF ADCConfigPacket, Field, UINT8_T
<1>8. a.sample_time \in 0 .. WordMod - 1
  BY <1>2, <1>3 DEF ADCConfigPacket, Field, UINT16_T
<1>9. Len(a.channels) < ByteMod /\ \A j \in 1 .. Len(a.channels) : a.channels[j] \in Bytes
  <2>1. /\ ADCConfigPacket.fields[6].is_varlength /\ ADCConfigPacket.fields[6].fname = "channels"
        /\ ADCConfigPacket.fields[6].ftype = 1 /\ ADCConfigPacket.fields[6].lengthtype = 1
    BY DEF ADCConfigPacket, Varlength, UINT8_T
  <2>2. 6 \in 1 .. 6  OBVIOUS
  <2>3. a["channels"] = a.channels  OBVIOUS
  <2>. QED  BY <1>2, <1>3, <2>1, <2>2, <2>3, Zenon DEF Bytes
<1>10. a.channels \in Seq(Bytes)
  BY <1>1, <1>9
<1>. QED
  BY <1>1, <1>4, <1>5, <1>6, <1>7, <1>8, <1>9, <1>10 DEF AdcArguments, Bytes

\* What the tether packs for the DAC fits the packet's fields, and the DAC's buffer.
LEMMA DacSound ==
    ASSUME NEW r \in DacRequests, "configure" \in r.ops, Packable(DACConfigPacket, r.arg)
    PROVE  /\ r.arg \in DacArguments
           /\ (r.arg.points_per_wave * r.arg.num_waves) % WordMod <= DacBufLen
<1>. DEFINE a == r.arg
<1>1. /\ a \in [prescaler : Nat, period : Nat, scale : Nat, points_per_wave : Nat,
                num_waves : Nat, theta0_u8 : Nat]
      /\ (a.points_per_wave * a.num_waves) % WordMod <= DacBufLen
  BY RequestAssumption
<1>. HIDE DEF a
<1>2. \A i \in 1 .. 6 :
        LET f == DACConfigPacket.fields[i]
            v == a[f.fname]
        IN  IF f.is_varlength
            THEN /\ Len(v) < Values(f.lengthtype)
                 /\ \A j \in 1 .. Len(v) : v[j] \in 0 .. Values(f.ftype) - 1
            ELSE v \in 0 .. Values(f.ftype) - 1
  <2>1. DOMAIN DACConfigPacket.fields = 1 .. 6  BY DEF DACConfigPacket
  <2>. QED  BY <2>1, Zenon DEF Packable, a
<1>3. Values(1) = ByteMod /\ Values(2) = WordMod /\ Values(4) = WordMod * WordMod
  BY DEF Values
<1>4. a.prescaler \in 0 .. WordMod - 1
  BY <1>2, <1>3 DEF DACConfigPacket, Field, UINT16_T
<1>5. a.period \in 0 .. WordMod * WordMod - 1
  <2>. DEFINE L == WordMod * WordMod
  <2>. HIDE DEF L
  <2>1. Values(4) = L  BY <1>3 DEF L
  <2>2. a.period \in 0 .. L - 1
    BY <1>2, <2>1 DEF DACConfigPacket, Field, UINT32_T
  <2>. QED  BY <2>2 DEF L
<1>6. a.scale \in 0 .. ByteMod - 1
  BY <1>2, <1>3 DEF DACConfigPacket, Field, UINT8_T
<1>7. a.points_per_wave \in 0 .. WordMod - 1
  BY <1>2, <1>3 DEF DACConfigPacket, Field, UINT16_T
<1>8. a.num_waves \in 0 .. ByteMod - 1
  BY <1>2, <1>3 DEF DACConfigPacket, Field, UINT8_T
<1>9. a.theta0_u8 \in 0 .. ByteMod - 1
  BY <1>2, <1>3 DEF DACConfigPacket, Field, UINT8_T
<1>10. a = [prescaler |-> a.prescaler, period |-> a.period, scale |-> a.scale,
            points_per_wave |-> a.points_per_wave, num_waves |-> a.num_waves,
            theta0_u8 |-> a.theta0_u8]
  BY <1>1
<1>11. a \in DacArguments
  BY <1>4, <1>5, <1>6, <1>7, <1>8, <1>9, <1>10 DEF DacArguments, Bytes
<1>. QED  BY <1>1, <1>11 DEF a

---------------------------------------------------------------------------
(* Every step of the board keeps its types.                                  *)

\* What is left when the first entry is taken
LEMMA Popped ==
    ASSUME NEW V, NEW s \in Seq(V), s # << >>
    PROVE  Head(s) \in V /\ Tail(s) \in Seq(V) /\ Len(Tail(s)) = Len(s) - 1 /\ Len(s) \in Nat
  OBVIOUS

\* What there is when one is added
LEMMA Pushed ==
    ASSUME NEW V, NEW s \in Seq(V), NEW v \in V
    PROVE  Append(s, v) \in Seq(V) /\ Len(Append(s, v)) = Len(s) + 1 /\ Len(s) \in Nat
  OBVIOUS

\* Who leaves the DAC alone leaves its type.
LEMMA KeptDac == ASSUME DacType, UNCHANGED dacVars PROVE DacType'
  BY DEF DacType, dacVars

\* The same for the ADC's configuration
LEMMA KeptConfig ==
    ASSUME ConfigType, StreamType, UNCHANGED <<saved_adc_config, stream>>
    PROVE  ConfigType' /\ StreamType'
  BY DEF ConfigType, StreamType

\* and the ADC as a whole,
LEMMA KeptAdc ==
    ASSUME AdcBufType, ConfigType, StreamType, UNCHANGED adcVars
    PROVE  AdcBufType' /\ ConfigType' /\ StreamType' /\ take' = take
<1>1. UNCHANGED <<eol_adc_buf, saved_adc_config, stream, take>>  BY DEF adcVars
<1>2. AdcBufType'  BY <1>1 DEF AdcBufType
<1>. QED  BY <1>1, <1>2, KeptConfig

\* and the line.
LEMMA KeptLine == ASSUME LineType, UNCHANGED <<down, up>> PROVE LineType'
  BY DEF LineType

\* A message that is no echo request is a reply.
LEMMA MessageTyped ==
    ASSUME NEW family \in Letters, NEW type \in Letters, NEW data \in Seq(Int),
           family # "E" \/ type # "Q"
    PROVE  Message(family, type, data) \in Replies
  BY DEF Message, Messages, Replies

\* A sequence over a set is one over a larger set.
LEMMA SeqMonotone ==
    ASSUME NEW V, NEW U, V \subseteq U, NEW s \in Seq(V) PROVE s \in Seq(U)
<1>1. \A i \in 1 .. Len(s) : s[i] \in U  OBVIOUS
<1>2. s = [i \in 1 .. Len(s) |-> s[i]] /\ Len(s) \in Nat  OBVIOUS
<1>. QED  BY <1>1, <1>2

\* The points of a wave are numbers.
LEMMA PointsAreInts == ASSUME NEW s \in Seq(0 .. 254) PROVE s \in Seq(Int)
<1>1. 0 .. 254 \subseteq Int  OBVIOUS
<1>. QED  BY <1>1, SeqMonotone

\* So are bytes.
LEMMA BytesAreInts == ASSUME NEW s \in Seq(Bytes) PROVE s \in Seq(Int)
<1>1. Bytes \subseteq Int  BY WordFacts DEF Bytes
<1>. QED  BY <1>1, SeqMonotone

\* main may have an error to send.
LEMMA ErrorTyped == ASSUME xmit_error PROVE main' \in Mains
<1>1. <<Blank>> \in Seq(Int)  BY DEF Blank
<1>2. "!" \in Letters  BY DEF Letters
<1>3. Message("!", "!", <<Blank>>) \in Replies  BY <1>1, <1>2, MessageTyped
<1>4. main' = [at |-> "xmitbuf", msg |-> Message("!", "!", <<Blank>>)]
  BY DEF xmit_error, xmit_buf
<1>. QED  BY <1>3, <1>4 DEF Mains

\* main may be in its loop.
LEMMA LoopTyped == Loop \in Mains
  BY DEF Mains

\* The next request.
LEMMA TakesTyped ==
    ASSUME LineType, down # << >>, down' = Tail(down)
    PROVE  /\ Request \in Sendable /\ Request \in Messages /\ SoundRequest(Request)
           /\ down' \in Seq(Sendable) /\ Len(down') <= MaxDown
<1>1. Request \in Sendable /\ down' \in Seq(Sendable) /\ Len(down') = Len(down) - 1
      /\ Len(down) \in Nat
  BY Popped DEF LineType, Request
<1>2. Len(down') <= MaxDown  BY <1>1, Constants DEF LineType
<1>. QED  BY <1>1, <1>2 DEF Sendable

\* A reply is sent.
LEMMA SendDoneTyped == ASSUME BoardType, SendDone PROVE BoardType'
<1>1. main.msg \in Replies
  BY DEF SendDone, BoardType, Mains, Loop
<1>2. up' \in Seq(Replies)
  BY <1>1, Pushed DEF SendDone, BoardType, LineType
<1>3. LineType'  BY <1>2 DEF SendDone, BoardType, LineType
<1>4. main' \in Mains  BY LoopTyped DEF SendDone
<1>5. FlagType'  BY KeptAdc DEF SendDone, BoardType, FlagType
<1>. QED  BY <1>3, <1>4, <1>5, KeptDac, KeptAdc DEF SendDone, BoardType

\* An echo is put into the reply.
LEMMA EchoQueryTyped == ASSUME BoardType, EchoQuery PROVE BoardType'
<1>1. down # << >> /\ down' = Tail(down)  BY DEF EchoQuery, Takes
<1>2. Request \in Messages /\ down' \in Seq(Sendable) /\ Len(down') <= MaxDown
  BY <1>1, TakesTyped DEF BoardType
<1>3. LineType'  BY <1>2 DEF EchoQuery, BoardType, LineType
<1>4. main' \in Mains
  <2>1. Request.data \in Seq(Int)  BY <1>2 DEF Messages
  <2>2. Message("E", "R", Request.data) \in Replies  BY <2>1, MessageTyped DEF Letters
  <2>3. main' = [at |-> "sending", msg |-> Message("E", "R", Request.data)]  BY DEF EchoQuery
  <2>. QED  BY <2>2, <2>3 DEF Mains
<1>5. FlagType'  BY KeptAdc DEF EchoQuery, BoardType, FlagType
<1>. QED  BY <1>3, <1>4, <1>5, KeptDac, KeptAdc DEF EchoQuery, BoardType

\* The table of all bytes goes over the DAC's buffer, which has room for it.
LEMMA EchoTableTyped == ASSUME BoardType, EchoTable PROVE BoardType'
<1>. DEFINE table == [i \in 1 .. ByteMod |-> i - 1]
<1>1. down # << >> /\ down' = Tail(down)  BY DEF EchoTable, Takes
<1>2. down' \in Seq(Sendable) /\ Len(down') <= MaxDown
  BY <1>1, TakesTyped DEF BoardType
<1>3. LineType'  BY <1>2 DEF EchoTable, BoardType, LineType
<1>4. table \in Seq(Int)
  <2>1. ByteMod \in Nat /\ \A i \in 1 .. ByteMod : i - 1 \in Int  BY WordFacts
  <2>. QED  BY <2>1
<1>5. eol_dac_buf' = Over(eol_dac_buf, table) /\ xmit_buf("E", "U", table)
  BY DEF EchoTable
<1>. HIDE DEF table
<1>6. main' \in Mains
  <2>1. Message("E", "U", table) \in Replies  BY <1>4, MessageTyped DEF Letters
  <2>2. main' = [at |-> "xmitbuf", msg |-> Message("E", "U", table)]  BY <1>5 DEF xmit_buf
  <2>. QED  BY <2>1, <2>2 DEF Mains
<1>7. DacType'
  <2>1. eol_dac_buf' \in Seq(Int) /\ Len(eol_dac_buf') = Len(eol_dac_buf)
    BY <1>4, <1>5, OverTyped DEF BoardType, DacType
  <2>. QED  BY <2>1 DEF EchoTable, BoardType, DacType
<1>8. FlagType'  BY KeptAdc DEF EchoTable, BoardType, FlagType
<1>. QED  BY <1>3, <1>6, <1>7, <1>8, KeptAdc DEF EchoTable, BoardType

\* Nothing changes.
LEMMA LoggingControlTyped == ASSUME BoardType, LoggingControl PROVE BoardType'
<1>1. down # << >> /\ down' = Tail(down)  BY DEF LoggingControl, Takes
<1>2. down' \in Seq(Sendable) /\ Len(down') <= MaxDown
  BY <1>1, TakesTyped DEF BoardType
<1>3. LineType'  BY <1>2 DEF LoggingControl, BoardType, LineType
<1>4. UNCHANGED <<dacVars, adcVars, tcif, sending_digit, main, hung>>
  BY DEF LoggingControl, boardVars
<1>5. FlagType'  BY <1>4, KeptAdc DEF BoardType, FlagType
<1>. QED  BY <1>3, <1>4, <1>5, KeptDac, KeptAdc DEF BoardType

\* A cleared buffer
LEMMA ZerosTyped ==
    ASSUME NEW n \in Nat PROVE Zeros(n) \in Seq(Int) /\ Len(Zeros(n)) = n
<1>1. Zeros(n) = [i \in 1 .. n |-> 0]  BY DEF Zeros
<1>. QED  BY <1>1

\* A timer's registers
LEMMA TimerTyped ==
    ASSUME NEW prescaler \in Nat, NEW period \in Nat, NEW timer
    PROVE  timer_setup_adcdac(timer, prescaler, period) \in [prescaler : Nat, period : Nat]
<1>1. CounterMod(timer) \in Nat /\ CounterMod(timer) > 0
  <2>1. WordMod \in Nat /\ WordMod > 0  BY WordFacts
  <2>2. WordMod * WordMod \in Nat /\ WordMod * WordMod > 0  BY <2>1
  <2>. QED  BY <2>1, <2>2 DEF CounterMod
<1>2. period % CounterMod(timer) \in Nat  BY <1>1
<1>. QED  BY <1>2 DEF timer_setup_adcdac

\* A DAC that has been set up
LEMMA DacSetupTyped ==
    ASSUME NEW prescaler \in Nat, NEW period \in Nat, NEW buf \in {"dac_buf", "eol_dac_buf"},
           NEW npts \in 0 .. DacBufLen
    PROVE  /\ dac_setup(prescaler, period, buf, npts) \in Dacs
           /\ dac_setup(prescaler, period, buf, npts).on = FALSE
           /\ dac_setup(prescaler, period, buf, npts).buf = buf
           /\ dac_setup(prescaler, period, buf, npts).npts = npts
           /\ dac_setup(prescaler, period, buf, npts).timer
                = timer_setup_adcdac("TIM2", prescaler, period)
<1>1. timer_setup_adcdac("TIM2", prescaler, period) \in [prescaler : Nat, period : Nat]
  BY TimerTyped
<1>. QED  BY <1>1 DEF dac_setup, Dacs

\* The recital's DAC and ADC
LEMMA ModemTyped ==
    /\ ModemDac \in Dacs
    /\ SoundConfig(ModemAdc) /\ ModemAdc.buflen = 0 /\ n_dmas(ModemAdc) = 0
    /\ ModemAdc.cb = "dtmf_process"
<1>1. ModemDac \in Dacs
  <2>1. 0 \in Nat /\ 0 \in 0 .. DacBufLen /\ "dac_buf" \in {"dac_buf", "eol_dac_buf"}  BY Constants
  <2>. QED  BY <2>1, DacSetupTyped DEF ModemDac
<1>2. 0 \in Bytes /\ <<0>> \in Seq(Bytes)  BY WordFacts DEF Bytes
<1>3. 0 \in 0 .. WordMod - 1  BY WordFacts
<1>4. ModemAdc \in AdcConfigs /\ ModemAdc.buflen = 0 /\ ModemAdc.sample_width = 1
      /\ ModemAdc.cb = "dtmf_process"
  BY <1>2, <1>3 DEF ModemAdc, AdcConfigs
<1>5. SoundConfig(ModemAdc)  BY <1>4 DEF SoundConfig
<1>6. n_dmas(ModemAdc) = 0  BY <1>4 DEF n_dmas, Udiv
<1>. QED  BY <1>1, <1>4, <1>5, <1>6

\* After a reset everything is as at first.
LEMMA ResetRequestTyped == ASSUME BoardType, ResetRequest PROVE BoardType'
<1>1. DacType'
  <2>1. Zeros(DacBufLen) \in Seq(Int) /\ Len(Zeros(DacBufLen)) = DacBufLen
    BY Constants, ZerosTyped
  <2>. QED  BY <2>1, ModemTyped DEF ResetRequest, DacType
<1>2. AdcBufType'
  <2>1. Zeros(AdcBufLen) \in Seq(Int) /\ Len(Zeros(AdcBufLen)) = AdcBufLen
    BY Constants, ZerosTyped
  <2>. QED  BY <2>1 DEF ResetRequest, AdcBufType
<1>3. ConfigType'
  BY ModemTyped, Constants DEF ResetRequest, ConfigType
<1>4. StreamType'
  BY ModemTyped, Constants DEF ResetRequest, StreamType
<1>5. FlagType'  BY DEF ResetRequest, BoardType, FlagType
<1>6. LineType'
  <2>1. << >> \in Seq(Sendable) /\ Len(<< >>) = 0  OBVIOUS
  <2>. QED  BY <2>1, Constants DEF ResetRequest, BoardType, LineType
<1>7. main' \in Mains  BY DEF ResetRequest, BoardType
<1>. QED  BY <1>1, <1>2, <1>3, <1>4, <1>5, <1>6, <1>7 DEF BoardType

\* A wave that is accepted fits the DAC's buffer.
LEMMA DacConfigureTyped == ASSUME BoardType, DacConfigure PROVE BoardType'
<1>. DEFINE r == DacRequest(Request.data)
            s == Synthesis(r)
<1>1. down # << >> /\ down' = Tail(down) /\ Request.family = "D" /\ Request.type = "C"
  BY DEF DacConfigure, Takes
<1>2. SoundRequest(Request) /\ down' \in Seq(Sendable) /\ Len(down') <= MaxDown
  BY <1>1, TakesTyped DEF BoardType
<1>3. LineType'  BY <1>2 DEF DacConfigure, BoardType, LineType
<1>4. r \in DacArguments /\ (r.points_per_wave * r.num_waves) % WordMod <= DacBufLen
  BY <1>1, <1>2 DEF SoundRequest
<1>5. /\ eol_dac_buf' = Over(eol_dac_buf, s.wave)
      /\ \/ dac' = dac_setup(s.prescaler, s.period, "eol_dac_buf", s.npts) /\ UNCHANGED main
         \/ xmit_error /\ UNCHANGED dac
  BY DEF DacConfigure, xmit_ack
<1>. HIDE DEF r
<1>6. /\ s.npts \in 0 .. DacBufLen /\ s.wave \in Seq(0 .. 254)
      /\ s.prescaler = r.prescaler /\ s.period = r.period
  BY <1>4, SynthesisTyped
<1>. HIDE DEF s
<1>7. s.wave \in Seq(Int) /\ s.prescaler \in Nat /\ s.period \in Nat
  <2>1. r.prescaler \in Nat /\ r.period \in Nat
    <3>1. r.prescaler \in 0 .. WordMod - 1 /\ r.period \in 0 .. WordMod * WordMod - 1
      BY <1>4 DEF DacArguments
    <3>. QED  BY <3>1
  <2>2. s.wave \in Seq(Int)
    BY <1>6, PointsAreInts
  <2>. QED  BY <1>6, <2>1, <2>2
<1>8. DacType'
  <2>1. eol_dac_buf' \in Seq(Int) /\ Len(eol_dac_buf') = Len(eol_dac_buf)
    BY <1>5, <1>7, OverTyped DEF BoardType, DacType
  <2>2. dac' \in Dacs
    <3>1. dac_setup(s.prescaler, s.period, "eol_dac_buf", s.npts) \in Dacs
      BY <1>6, <1>7, DacSetupTyped
    <3>. QED  BY <1>5, <3>1 DEF BoardType, DacType
  <2>. QED  BY <2>1, <2>2 DEF BoardType, DacType
<1>9. main' \in Mains  BY <1>5, ErrorTyped DEF BoardType
<1>10. FlagType'  BY KeptAdc DEF DacConfigure, BoardType, FlagType
<1>. QED  BY <1>3, <1>8, <1>9, <1>10, KeptAdc DEF DacConfigure, BoardType

\* The DAC is turned on or off.
LEMMA DacSwitched ==
    ASSUME DacType, NEW on \in BOOLEAN, dac' = [dac EXCEPT !.on = on], UNCHANGED eol_dac_buf
    PROVE  DacType'
<1>1. [dac EXCEPT !.on = on] \in Dacs  BY DEF DacType, Dacs
<1>. QED  BY <1>1 DEF DacType

\* DacStart and DacStop only do that.
LEMMA DacStartTyped == ASSUME BoardType, DacStart \/ DacStop PROVE BoardType'
<1>1. down # << >> /\ down' = Tail(down)  BY DEF DacStart, DacStop, Takes
<1>2. down' \in Seq(Sendable) /\ Len(down') <= MaxDown
  BY <1>1, TakesTyped DEF BoardType
<1>3. LineType'  BY <1>2 DEF DacStart, DacStop, BoardType, LineType
<1>4. DacType'
  <2>1. dac' = [dac EXCEPT !.on = TRUE] \/ dac' = [dac EXCEPT !.on = FALSE]
    BY DEF DacStart, DacStop
  <2>. QED  BY <2>1, DacSwitched DEF DacStart, DacStop, BoardType
<1>5. UNCHANGED <<adcVars, tcif, sending_digit, main, hung>>
  BY DEF DacStart, DacStop, xmit_ack
<1>6. FlagType'  BY <1>5, KeptAdc DEF BoardType, FlagType
<1>. QED  BY <1>3, <1>4, <1>5, <1>6, KeptAdc DEF BoardType

\* Nor is one of the ADC's other requests, which nobody answers.
LEMMA AdcOtherTyped == ASSUME BoardType, AdcOther PROVE BoardType'
<1>1. down # << >> /\ down' = Tail(down)  BY DEF AdcOther
<1>2. down' \in Seq(Sendable) /\ Len(down') <= MaxDown
  BY <1>1, TakesTyped DEF BoardType
<1>3. LineType'  BY <1>2 DEF AdcOther, BoardType, LineType
<1>4. UNCHANGED boardVars  BY DEF AdcOther
<1>5. UNCHANGED <<dacVars, adcVars, tcif, sending_digit, main, hung>>
  BY <1>4 DEF boardVars
<1>. QED  BY <1>3, <1>5, KeptDac, KeptAdc DEF BoardType, FlagType

\* A request that is not obeyed is answered, or hangs the board.
LEMMA UnknownTyped == ASSUME BoardType, Unknown \/ FcsMismatch PROVE BoardType'
<1>1. down # << >> /\ down' = Tail(down)  BY DEF Unknown, FcsMismatch
<1>2. down' \in Seq(Sendable) /\ Len(down') <= MaxDown
  BY <1>1, TakesTyped DEF BoardType
<1>3. LineType'  BY <1>2 DEF Unknown, FcsMismatch, BoardType, LineType
<1>4. main' \in Mains
  <2>1. xmit_error \/ UNCHANGED main  BY DEF Unknown, FcsMismatch
  <2>. QED  BY <2>1, ErrorTyped DEF BoardType
<1>5. UNCHANGED <<dacVars, adcVars, tcif, sending_digit>> /\ hung' \in BOOLEAN
  <2>1. hung' = hung \/ hung' = TRUE  BY DEF Unknown, FcsMismatch
  <2>2. hung' \in BOOLEAN  BY <2>1 DEF BoardType, FlagType
  <2>. QED  BY <2>2 DEF Unknown, FcsMismatch
<1>6. FlagType'  BY <1>5, KeptAdc DEF BoardType, FlagType
<1>. QED  BY <1>3, <1>4, <1>5, <1>6, KeptDac, KeptAdc DEF BoardType

\* adc_stop leaves the number of transfers.
LEMMA StopTyped ==
    ASSUME StreamType, FlagType, adc_stop, UNCHANGED saved_adc_config
    PROVE  StreamType' /\ tcif' \in BOOLEAN
<1>1. stream' = [stream EXCEPT !.on = FALSE] /\ tcif' \in {FALSE, stream.on}
  BY DEF adc_stop
<1>2. stream.on \in BOOLEAN /\ stream.left <= n_dmas(saved_adc_config)  BY DEF StreamType
<1>3. stream' \in [on : BOOLEAN, left : 0 .. AdcBufLen] /\ stream'.left = stream.left
  BY <1>1 DEF StreamType
<1>4. StreamType'  BY <1>2, <1>3 DEF StreamType
<1>5. tcif' \in BOOLEAN  BY <1>1, <1>2
<1>. QED  BY <1>4, <1>5

\* A capture that is too long is refused.
LEMMA AdcCaptureTyped == ASSUME BoardType, AdcCapture PROVE BoardType'
<1>. DEFINE c == AdcRequest(Request.data)
<1>1. down # << >> /\ down' = Tail(down) /\ Request.family = "A" /\ Request.type = "C"
  BY DEF AdcCapture, Takes
<1>2. SoundRequest(Request) /\ down' \in Seq(Sendable) /\ Len(down') <= MaxDown
  BY <1>1, TakesTyped DEF BoardType
<1>3. LineType'  BY <1>2 DEF AdcCapture, BoardType, LineType
<1>4. SoundConfig(c)  BY <1>1, <1>2 DEF SoundRequest
<1>5. /\ UNCHANGED <<dacVars, eol_adc_buf, saved_adc_config, take, sending_digit, hung, up>>
      /\ \/ xmit_error /\ UNCHANGED <<stream, tcif>>
         \/ c.buflen <= AdcBufLen /\ main' = [at |-> "capture", config |-> c] /\ adc_stop
  BY Zenon DEF AdcCapture
<1>. HIDE DEF c
<1>6. main' \in Mains
  <2>1. CASE xmit_error  BY <2>1, ErrorTyped
  <2>2. CASE c.buflen <= AdcBufLen /\ main' = [at |-> "capture", config |-> c]
    <3>1. c \in AdcConfigs  BY <1>4 DEF SoundConfig
    <3>. QED  BY <1>4, <2>2, <3>1 DEF Mains
  <2>. QED  BY <1>5, <2>1, <2>2
<1>7. StreamType' /\ tcif' \in BOOLEAN
  <2>1. CASE UNCHANGED <<stream, tcif>>
    BY <1>5, <2>1 DEF BoardType, StreamType, FlagType
  <2>2. CASE adc_stop  BY <1>5, <2>2, StopTyped DEF BoardType
  <2>. QED  BY <1>5, <2>1, <2>2
<1>8. AdcBufType'  BY <1>5 DEF BoardType, AdcBufType
<1>9. ConfigType'  BY <1>5 DEF BoardType, ConfigType
<1>10. FlagType'  BY <1>5, <1>7 DEF BoardType, FlagType
<1>. QED  BY <1>3, <1>5, <1>6, <1>7, <1>8, <1>9, <1>10, KeptDac DEF BoardType

\* A capture has no more transfers than bytes.
LEMMA DmasTyped ==
    ASSUME NEW c, SoundConfig(c), c.buflen <= AdcBufLen
    PROVE  /\ n_dmas(c) \in 0 .. AdcBufLen
           /\ n_dmas(c) > 0 => c.buflen > 0
<1>1. c.buflen \in Nat /\ c.sample_width \in Nat
  BY WordFacts DEF SoundConfig, AdcConfigs
<1>2. CASE c.sample_width = 0
  BY <1>2, Constants DEF n_dmas, Udiv
<1>3. CASE c.sample_width # 0
  <2>. DEFINE a == c.buflen
              b == c.sample_width
              q == a \div b
  <2>1. a \in Nat /\ b \in Nat /\ b > 0  BY <1>1, <1>3
  <2>2. n_dmas(c) = q  BY <2>1 DEF n_dmas, Udiv
  <2>. HIDE DEF a, b
  <2>3. q \in Nat /\ a % b \in 0 .. b - 1 /\ a = b * q + (a % b)  BY <2>1, Division
  <2>. HIDE DEF q
  <2>4. b * q >= q  BY <2>1, <2>3
  <2>5. q <= a  BY <2>1, <2>3, <2>4
  <2>. QED  BY <2>1, <2>2, <2>3, <2>5, Constants DEF a
<1>. QED  BY <1>2, <1>3

\* The capture's transfers fit the buffer.
LEMMA CaptureBeginsTyped == ASSUME BoardType, CaptureBegins PROVE BoardType'
<1>. DEFINE c == main.config
<1>1. SoundConfig(c) /\ c.buflen <= AdcBufLen
  BY DEF CaptureBegins, BoardType, Mains, Loop
<1>2. /\ eol_adc_buf' = Over(eol_adc_buf, [p \in 1 .. c.buflen |-> Blank])
      /\ saved_adc_config' = c /\ stream' = [on |-> TRUE, left |-> n_dmas(c)]
      /\ take' = 1 - take /\ main' = Loop
      /\ UNCHANGED <<dacVars, tcif, sending_digit, hung, down, up>>
  BY DEF CaptureBegins
<1>. HIDE DEF c
<1>3. ConfigType'  BY <1>1, <1>2 DEF ConfigType
<1>4. StreamType'  BY <1>1, <1>2, DmasTyped DEF StreamType
<1>5. AdcBufType'
  <2>. DEFINE blank == [p \in 1 .. c.buflen |-> Blank]
  <2>1. c.buflen \in Nat  BY <1>1, WordFacts DEF SoundConfig, AdcConfigs
  <2>2. blank \in Seq(Int)  BY <2>1 DEF Blank
  <2>3. eol_adc_buf' = Over(eol_adc_buf, blank)  BY <1>2
  <2>. HIDE DEF blank
  <2>. QED  BY <2>2, <2>3, OverTyped DEF BoardType, AdcBufType
<1>6. FlagType'  BY <1>2 DEF BoardType, FlagType
<1>. QED  BY <1>2, <1>3, <1>4, <1>5, <1>6, KeptDac, KeptLine, LoopTyped DEF BoardType

\* A conversion reads one of the channels asked for.
LEMMA SampleTyped == ASSUME BoardType, Sample PROVE BoardType'
<1>. DEFINE c     == saved_adc_config
            taken == n_dmas(c) - stream.left
            k     == Len(c.channels)
            ch    == AdcRegisters(c).sequence[(taken % k) + 1]
            mine  == (taken * TransferSize(c) + 1) .. ((taken + 1) * TransferSize(c))
<1>1. /\ stream.left > 0
      /\ eol_adc_buf' = [p \in DOMAIN eol_adc_buf |->
                           IF p \in mine THEN Reading(take, ch, p) ELSE eol_adc_buf[p]]
      /\ stream' = [on |-> stream.left > 1, left |-> stream.left - 1]
      /\ tcif' = (stream.left = 1)
      /\ UNCHANGED <<dacVars, saved_adc_config, take, sending_digit, main, hung, down, up>>
  BY DEF Sample
<1>2. SoundConfig(c) /\ c.buflen <= AdcBufLen /\ stream.left \in 0 .. AdcBufLen
      /\ stream.left <= n_dmas(c)
  BY DEF BoardType, ConfigType, StreamType
<1>3. n_dmas(c) \in 0 .. AdcBufLen /\ (n_dmas(c) > 0 => c.buflen > 0)  BY <1>2, DmasTyped
<1>4. taken \in Nat  BY <1>2, <1>3
<1>5. ch \in Bytes
  <2>1. c.channels \in Seq(Bytes) /\ c.channels # << >>
    <3>1. c.buflen > 0  BY <1>1, <1>2, <1>3
    <3>. QED  BY <1>2, <3>1 DEF SoundConfig, AdcConfigs
  <2>2. k \in Nat /\ k > 0  BY <2>1
  <2>3. AdcRegisters(c).sequence = c.channels  BY DEF AdcRegisters
  <2>. HIDE DEF taken, c
  <2>4. (taken % k) \in 0 .. k - 1
    <3>. HIDE DEF k
    <3>. QED  BY <1>4, <2>2
  <2>5. (taken % k) + 1 \in 1 .. k
    <3>. HIDE DEF k
    <3>. QED  BY <2>2, <2>4
  <2>. QED  BY <2>1, <2>3, <2>5
<1>. HIDE DEF ch, mine, c, taken
<1>6. AdcBufType'
  <2>1. eol_adc_buf \in Seq(Int) /\ Len(eol_adc_buf) = AdcBufLen /\ take \in 0 .. 1
    BY DEF BoardType, AdcBufType, FlagType
  <2>2. DOMAIN eol_adc_buf = 1 .. AdcBufLen /\ \A p \in 1 .. AdcBufLen : eol_adc_buf[p] \in Int
    BY <2>1
  <2>3. \A p \in 1 .. AdcBufLen : Reading(take, ch, p) \in Int
    BY <1>5, <2>1, BufferAssumption DEF Bytes
  <2>4. eol_adc_buf' = [p \in 1 .. AdcBufLen |->
                          IF p \in mine THEN Reading(take, ch, p) ELSE eol_adc_buf[p]]
    BY <1>1, <2>2
  <2>. DEFINE new == [p \in 1 .. AdcBufLen |->
                        IF p \in mine THEN Reading(take, ch, p) ELSE eol_adc_buf[p]]
  <2>5. new \in [1 .. AdcBufLen -> Int]  BY <2>2, <2>3
  <2>. HIDE DEF new
  <2>6. new \in Seq(Int) /\ Len(new) = AdcBufLen
    <3>1. AdcBufLen \in Nat  BY Constants
    <3>2. DOMAIN new = 1 .. AdcBufLen  BY <2>5
    <3>3. new \in Seq(Int)  BY <2>5, <3>1
    <3>. QED  BY <3>1, <3>2, <3>3
  <2>7. eol_adc_buf' = new  BY <2>4 DEF new
  <2>. QED  BY <2>6, <2>7 DEF AdcBufType
<1>7. StreamType'
  <2>1. (stream.left > 1) \in BOOLEAN  OBVIOUS
  <2>2. stream.left - 1 \in 0 .. AdcBufLen /\ stream.left - 1 <= n_dmas(saved_adc_config)
    BY <1>1, <1>2, <1>3, Constants DEF c
  <2>3. [on |-> stream.left > 1, left |-> stream.left - 1] \in [on : BOOLEAN, left : 0 .. AdcBufLen]
    BY <2>1, <2>2
  <2>4. stream'.left = stream.left - 1  BY <1>1
  <2>. QED  BY <1>1, <2>2, <2>3, <2>4 DEF StreamType
<1>8. ConfigType'  BY <1>1 DEF BoardType, ConfigType
<1>9. FlagType'
  <2>1. tcif' \in BOOLEAN  BY <1>1
  <2>. QED  BY <1>1, <2>1 DEF BoardType, FlagType
<1>10. main' \in Mains  BY <1>1 DEF BoardType
<1>. QED  BY <1>1, <1>6, <1>7, <1>8, <1>9, <1>10, KeptDac, KeptLine DEF BoardType

\* The recital's capture only raises its interrupt.
LEMMA ModemHalfTyped == ASSUME BoardType, ModemHalf PROVE BoardType'
<1>1. UNCHANGED <<dacVars, adcVars, sending_digit, main, hung, down, up>> /\ tcif' \in BOOLEAN
  BY DEF ModemHalf
<1>2. FlagType'  BY <1>1, KeptAdc DEF BoardType, FlagType
<1>. QED  BY <1>1, <1>2, KeptDac, KeptAdc, KeptLine DEF BoardType

\* The packets of a capture are messages, and so is what they leave in xmitbuf.
LEMMA StridesTyped ==
    ASSUME NEW buf \in Seq(Int)
    PROVE  Strides(buf) \in Seq(Replies)
<1>. DEFINE n == (Len(buf) + Stride - 1) \div Stride
            M(k) == Message("A", "C", SubSeq(buf, (k - 1) * Stride + 1, Min2(Len(buf), k * Stride)))
<1>1. n \in Nat
  <2>1. Len(buf) + Stride - 1 \in Nat /\ Stride \in Nat /\ Stride > 0  BY Constants
  <2>. QED  BY <2>1
<1>. HIDE DEF n
<1>2. ASSUME NEW k \in 1 .. n PROVE M(k) \in Replies
  <2>1. (k - 1) * Stride + 1 \in Nat /\ (k - 1) * Stride + 1 >= 1
    <3>1. k - 1 \in Nat /\ Stride \in Nat  BY <1>1, Constants
    <3>2. (k - 1) * Stride \in Nat  BY <3>1
    <3>. QED  BY <3>2
  <2>2. Min2(Len(buf), k * Stride) \in Nat /\ Min2(Len(buf), k * Stride) <= Len(buf)
    <3>1. k * Stride \in Nat /\ Len(buf) \in Nat  BY Constants
    <3>. QED  BY <3>1 DEF Min2
  <2>. DEFINE l == (k - 1) * Stride + 1
              h == Min2(Len(buf), k * Stride)
  <2>. HIDE DEF l, h
  <2>3. l \in Nat /\ l >= 1 /\ h \in Nat /\ h <= Len(buf)  BY <2>1, <2>2 DEF l, h
  <2>4. SubSeq(buf, l, h) \in Seq(Int)  BY <2>3
  <2>5. Message("A", "C", SubSeq(buf, l, h)) \in Replies  BY <2>4, MessageTyped DEF Letters
  <2>. QED  BY <2>5 DEF l, h
<1>. HIDE DEF M
<1>3. [k \in 1 .. n |-> M(k)] \in Seq(Replies)  BY <1>1, <1>2
<1>. QED  BY <1>3 DEF Strides, n, M

\* A packet written over a message leaves a reply,
LEMMA OverlayTyped ==
    ASSUME NEW m \in Replies, NEW s \in Replies
    PROVE  Overlay(m, s) \in Replies
<1>1. m.data \in Seq(Int) /\ s.data \in Seq(Int)  BY DEF Replies, Messages
<1>2. Over(m.data, s.data) \in Seq(Int)  BY <1>1, OverTyped
<1>. QED  BY <1>2, MessageTyped DEF Overlay, Letters

\* and so do all of them.
LEMMA OverlayAllTyped ==
    ASSUME NEW m \in Replies, NEW s \in Seq(Replies)
    PROVE  OverlayAll(m, s) \in Replies
<1>0. Len(s) \in Nat /\ \A i \in 1 .. Len(s) : s[i] \in Replies
  <2>1. ASSUME NEW V, NEW u \in Seq(V) PROVE Len(u) \in Nat /\ \A i \in 1 .. Len(u) : u[i] \in V
    OBVIOUS
  <2>. QED  BY <2>1
<1>1. CASE Len(s) = 0  BY <1>1 DEF OverlayAll
<1>2. CASE Len(s) = 1
  <2>1. s[1] \in Replies  BY <1>0, <1>2
  <2>2. OverlayAll(m, s) = Overlay(m, s[1])  BY <1>2 DEF OverlayAll
  <2>. QED  BY <2>1, <2>2, OverlayTyped
<1>3. CASE Len(s) # 0 /\ Len(s) # 1
  <2>1. s[Len(s) - 1] \in Replies /\ Last(s) \in Replies
    <3>. DEFINE n == Len(s)
    <3>0. n \in Nat /\ n # 0 /\ n # 1  BY <1>0, <1>3
    <3>. HIDE DEF n
    <3>1. n - 1 \in 1 .. n /\ n \in 1 .. n  BY <3>0
    <3>2. Last(s) = s[Len(s)]  BY DEF Last
    <3>. QED  BY <1>0, <3>1, <3>2, Zenon DEF n
  <2>2. OverlayAll(m, s) = Overlay(Overlay(m, s[Len(s) - 1]), Last(s))
    BY <1>3 DEF OverlayAll
  <2>. QED  BY <2>1, <2>2, OverlayTyped
<1>. QED  BY <1>1, <1>2, <1>3

\* An interrupt that sends leaves main in its loop or where it was.
LEMMA CutTyped == ASSUME main \in Mains, CutShort PROVE main' \in Mains
  BY LoopTyped DEF CutShort

\* eol_adc_callback sends replies only.
LEMMA CallbackTyped ==
    ASSUME BoardType, eol_adc_callback,
           UNCHANGED <<eol_dac_buf, eol_adc_buf, saved_adc_config, take, hung, down>>
    PROVE  DacType' /\ StreamType' /\ LineType' /\ main' \in Mains /\ UNCHANGED sending_digit
<1>. DEFINE captured == SubSeq(eol_adc_buf, 1, saved_adc_config.buflen)
            strides  == Strides(captured)
<1>1. /\ stream' = [stream EXCEPT !.on = FALSE] /\ up' = up \o strides
      /\ \/ CutShort
         \/ main' = Loop
         \/ /\ main.at = "xmitbuf"
            /\ main' = [main EXCEPT !.msg = OverlayAll(main.msg, strides)]
      /\ UNCHANGED <<dac, sending_digit>>
  BY DEF eol_adc_callback
<1>2. strides \in Seq(Replies)
  <2>1. captured \in Seq(Int)
    <3>1. /\ saved_adc_config.buflen \in Nat /\ saved_adc_config.buflen <= AdcBufLen
          /\ eol_adc_buf \in Seq(Int) /\ Len(eol_adc_buf) = AdcBufLen
      BY WordFacts DEF BoardType, ConfigType, AdcBufType, SoundConfig, AdcConfigs
    <3>. DEFINE l == saved_adc_config.buflen
    <3>2. l \in Nat /\ l <= Len(eol_adc_buf)  BY <3>1
    <3>. HIDE DEF l
    <3>3. SubSeq(eol_adc_buf, 1, l) \in Seq(Int)  BY <3>1, <3>2
    <3>. QED  BY <3>3 DEF l
  <2>. HIDE DEF captured
  <2>. QED  BY <2>1, StridesTyped
<1>. HIDE DEF strides
<1>3. DacType'  BY <1>1 DEF BoardType, DacType
<1>4. StreamType'
  <2>1. stream.left <= n_dmas(saved_adc_config)  BY DEF BoardType, StreamType
  <2>2. stream' \in [on : BOOLEAN, left : 0 .. AdcBufLen] /\ stream'.left = stream.left
    BY <1>1 DEF BoardType, StreamType
  <2>. QED  BY <2>1, <2>2 DEF StreamType
<1>5. LineType'
  <2>1. up' \in Seq(Replies)  BY <1>1, <1>2 DEF BoardType, LineType
  <2>. QED  BY <2>1 DEF BoardType, LineType
<1>6. main' \in Mains
  <2>1. CASE CutShort  BY <2>1, CutTyped DEF BoardType
  <2>2. CASE main' = Loop  BY <2>2, LoopTyped
  <2>3. CASE /\ main.at = "xmitbuf"
             /\ main' = [main EXCEPT !.msg = OverlayAll(main.msg, strides)]
    <3>1. main \in [at : {"xmitbuf", "sending"}, msg : Replies]
      BY <2>3 DEF BoardType, Mains, Loop
    <3>. DEFINE o == OverlayAll(main.msg, strides)
    <3>2. o \in Replies  BY <1>2, <3>1, OverlayAllTyped
    <3>. HIDE DEF o
    <3>3. [main EXCEPT !.msg = o] \in [at : {"xmitbuf", "sending"}, msg : Replies]
      BY <3>1, <3>2
    <3>. QED  BY <2>3, <3>3 DEF Mains, o
  <2>. QED  BY <1>1, <2>1, <2>2, <2>3
<1>. QED  BY <1>1, <1>3, <1>4, <1>5, <1>6

\* The interrupt, whichever callback it calls
LEMMA InterruptTyped == ASSUME BoardType, dma2_stream0_isr PROVE BoardType'
<1>1. /\ tcif' = FALSE
      /\ UNCHANGED <<eol_dac_buf, eol_adc_buf, saved_adc_config, take, hung, down>>
      /\ dtmf_process \/ eol_adc_callback
  BY DEF dma2_stream0_isr
<1>2. DacType' /\ StreamType' /\ LineType' /\ main' \in Mains /\ sending_digit' \in BOOLEAN
  <2>1. CASE eol_adc_callback
    BY <1>1, <2>1, CallbackTyped DEF BoardType, FlagType
  <2>2. CASE dtmf_process
    <3>1. CutShort /\ UNCHANGED <<stream, up>>  BY <2>2 DEF dtmf_process
    <3>2. main' \in Mains  BY <3>1, CutTyped DEF BoardType
    <3>3. StreamType' /\ LineType'
      BY <1>1, <3>1 DEF BoardType, StreamType, LineType
    <3>4. sending_digit' = sending_digit \/ sending_digit' = FALSE  BY <2>2 DEF dtmf_process
    <3>5. sending_digit' \in BOOLEAN  BY <3>4 DEF BoardType, FlagType
    <3>6. DacType'
      <4>1. dac' = dac \/ dac' = [dac EXCEPT !.on = FALSE]  BY <2>2 DEF dtmf_process
      <4>. QED  BY <1>1, <4>1, DacSwitched, KeptDac DEF BoardType, dacVars
    <3>. QED  BY <3>2, <3>3, <3>5, <3>6
  <2>. QED  BY <1>1, <2>1, <2>2
<1>3. AdcBufType' /\ ConfigType'  BY <1>1 DEF BoardType, AdcBufType, ConfigType
<1>4. FlagType'  BY <1>1, <1>2 DEF BoardType, FlagType
<1>. QED  BY <1>2, <1>3, <1>4 DEF BoardType

\* A recital begins or ends.
LEMMA RecitalTyped == ASSUME BoardType, Recital PROVE BoardType'
<1>1. CASE tone_start_next_digit
  <2>1. /\ dac' = [ModemDac EXCEPT !.on = TRUE]
        /\ saved_adc_config' = ModemAdc
        /\ stream' = [on |-> TRUE, left |-> 0]
        /\ sending_digit' = TRUE
        /\ UNCHANGED <<eol_dac_buf, eol_adc_buf, take, tcif, main, hung, down, up>>
    BY <1>1 DEF tone_start_next_digit
  <2>2. DacType'
    <3>1. [ModemDac EXCEPT !.on = TRUE] \in Dacs  BY ModemTyped DEF Dacs
    <3>. QED  BY <2>1, <3>1 DEF BoardType, DacType
  <2>3. ConfigType'  BY <2>1, ModemTyped, Constants DEF ConfigType
  <2>4. StreamType'  BY <2>1, ModemTyped, Constants DEF StreamType
  <2>5. FlagType'  BY <2>1 DEF BoardType, FlagType
  <2>6. AdcBufType'  BY <2>1 DEF BoardType, AdcBufType
  <2>. QED  BY <2>1, <2>2, <2>3, <2>4, <2>5, <2>6, KeptLine DEF BoardType
<1>2. CASE tone_stop
  <2>1. /\ dac' = [dac EXCEPT !.on = FALSE] /\ adc_stop /\ sending_digit' = FALSE
        /\ UNCHANGED <<eol_dac_buf, eol_adc_buf, saved_adc_config, take, main, hung, down, up>>
    BY <1>2 DEF tone_stop
  <2>2. DacType'  BY <2>1, DacSwitched DEF BoardType
  <2>3. StreamType' /\ tcif' \in BOOLEAN  BY <2>1, StopTyped DEF BoardType
  <2>4. FlagType'  BY <2>1, <2>3 DEF BoardType, FlagType
  <2>5. AdcBufType' /\ ConfigType'  BY <2>1 DEF BoardType, AdcBufType, ConfigType
  <2>. QED  BY <2>1, <2>2, <2>3, <2>4, <2>5, KeptLine DEF BoardType
<1>. QED  BY <1>1, <1>2 DEF Recital

---------------------------------------------------------------------------
(* Every step of the tether keeps its types.                                 *)

\* Only configurations have to be sound in more than their type.
LEMMA PlainSendable ==
    ASSUME NEW family \in Letters, NEW type \in Letters, NEW data \in Seq(Int),
           family \notin {"A", "D"} \/ type # "C"
    PROVE  [family |-> family, type |-> type, data |-> data] \in Sendable
<1>. DEFINE f == [family |-> family, type |-> type, data |-> data]
<1>1. f \in Messages /\ f.family = family /\ f.type = type  BY DEF Messages
<1>. HIDE DEF f
<1>2. SoundRequest(f)  BY <1>1 DEF SoundRequest
<1>. QED  BY <1>1, <1>2 DEF Sendable, f

\* A new target
LEMMA NewTyped == NewTarget \in Targets
<1>1. << >> \in Seq(Sendable) /\ << >> \in Seq(Int)  OBVIOUS
<1>. QED  BY <1>1 DEF NewTarget, Targets

\* A target with one more frame to send, and nothing else changed
LEMMA EnqueueTyped ==
    ASSUME NEW t \in Targets, NEW f \in Sendable
    PROVE  /\ enqueue(t, f) \in Targets
           /\ \A n \in DOMAIN t \ {"pending_frames"} : enqueue(t, f)[n] = t[n]
           /\ enqueue(t, f).pending_frames = Append(t.pending_frames, f)
<1>1. t.pending_frames \in Seq(Sendable)  BY DEF Targets
<1>. DEFINE a == Append(t.pending_frames, f)
<1>2. a \in Seq(Sendable)  BY <1>1, Pushed
<1>. HIDE DEF a
<1>3. enqueue(t, f) = [t EXCEPT !.pending_frames = a]  BY DEF enqueue, a
<1>. QED  BY <1>2, <1>3 DEF Targets, a

\* A target is what it is made of.
LEMMA TargetParts ==
    ASSUME NEW t \in Targets
    PROVE  /\ t.pending_frames \in Seq(Sendable) /\ t.pending_echo \in BOOLEAN
           /\ t.pending_dac \in BOOLEAN /\ t.pending_adc_bytes \in Int /\ t.adc_buf \in Seq(Int)
           /\ t.last_echo_sent \in {"never", "recent", "old"} /\ t.printed \in Seq(Int)
  BY DEF Targets

\* What echo.py must never meet: an echo pending that was never sent.
Timed(t) ==
    /\ ~t.pending_dac /\ t.pending_adc_bytes <= 0
    /\ t.pending_echo => t.last_echo_sent # "never"

\* A target that has just asked for an echo is sound for echo.py.
LEMMA EchoMade ==
    ASSUME NEW t \in Targets, NEW f \in Sendable
    PROVE  LET u == [enqueue(t, f) EXCEPT !.pending_echo = TRUE, !.last_echo_sent = "recent"]
           IN  u \in Targets /\ (Timed(t) => Timed(u))
<1>. DEFINE e == enqueue(t, f)
            v == [e EXCEPT !.pending_echo = TRUE]
            u == [v EXCEPT !.last_echo_sent = "recent"]
<1>1. e \in Targets /\ (e.pending_dac <=> t.pending_dac)
      /\ e.pending_adc_bytes = t.pending_adc_bytes
  <2>1. {"pending_dac", "pending_adc_bytes"} \subseteq DOMAIN t \ {"pending_frames"}
    BY DEF Targets
  <2>. QED  BY <2>1, EnqueueTyped
<1>. HIDE DEF e
<1>2. v \in Targets /\ (v.pending_dac <=> e.pending_dac)
      /\ v.pending_adc_bytes = e.pending_adc_bytes
  BY <1>1 DEF Targets
<1>. HIDE DEF v
<1>3. u \in Targets /\ (u.pending_dac <=> v.pending_dac)
      /\ u.pending_adc_bytes = v.pending_adc_bytes /\ u.last_echo_sent = "recent"
  BY <1>2 DEF Targets
<1>. HIDE DEF u
<1>4. Timed(t) => Timed(u)  BY <1>1, <1>2, <1>3 DEF Timed
<1>. QED  BY <1>3, <1>4 DEF u, v, e

\* A reply leaves a target that is sound, and sound for echo.py if it was before.
LEMMA FrameTyped ==
    ASSUME NEW t \in Targets, NEW f \in Messages
    PROVE  frame_cb(t, f) \in Targets /\ (Timed(t) => Timed(frame_cb(t, f)))
<1>1. f.data \in Seq(Int) /\ f.family \in Letters  BY DEF Messages
<1>2. CASE f.family = "E"
  <2>1. frame_cb(t, f) = _echo_rx(t, f)  BY <1>2 DEF frame_cb
  <2>2. CASE f.type \in {"R", "U"}
    <3>. DEFINE a == [t EXCEPT !.pending_echo = FALSE]
                b == [a EXCEPT !.last_echo_sent = "never"]
                d == f.data
                u == [b EXCEPT !.printed = d]
    <3>1. _echo_rx(t, f) = u  BY <2>2 DEF _echo_rx
    <3>2. a \in Targets /\ ~a.pending_echo /\ (a.pending_dac <=> t.pending_dac)
          /\ a.pending_adc_bytes = t.pending_adc_bytes
      BY DEF Targets
    <3>. HIDE DEF a
    <3>3. b \in Targets /\ ~b.pending_echo /\ (b.pending_dac <=> a.pending_dac)
          /\ b.pending_adc_bytes = a.pending_adc_bytes
      BY <3>2 DEF Targets
    <3>. HIDE DEF b
    <3>4. d \in Seq(Int)  BY <1>1
    <3>. HIDE DEF d
    <3>5. u \in Targets /\ ~u.pending_echo /\ (u.pending_dac <=> b.pending_dac)
          /\ u.pending_adc_bytes = b.pending_adc_bytes
      BY <3>3, <3>4 DEF Targets
    <3>. HIDE DEF u
    <3>6. Timed(t) => Timed(u)  BY <3>2, <3>3, <3>5 DEF Timed
    <3>. QED  BY <2>1, <3>1, <3>5, <3>6
  <2>3. CASE f.type \notin {"R", "U"} /\ f.type = "Q"
    <3>. DEFINE g == Frame("E", "R", f.data)
    <3>1. g \in Sendable  BY <1>1, PlainSendable DEF Frame, Letters
    <3>2. _echo_rx(t, f) = [enqueue(t, g) EXCEPT !.pending_echo = TRUE, !.last_echo_sent = "recent"]
      BY <2>3 DEF _echo_rx, echo
    <3>. HIDE DEF g
    <3>. DEFINE u == [enqueue(t, g) EXCEPT !.pending_echo = TRUE, !.last_echo_sent = "recent"]
    <3>3. u \in Targets /\ (Timed(t) => Timed(u))  BY <3>1, EchoMade, Zenon
    <3>4. frame_cb(t, f) = u  BY <2>1, <3>2, Zenon
    <3>. HIDE DEF u
    <3>. QED  BY <3>3, <3>4, Zenon
  <2>4. CASE f.type \notin {"R", "U"} /\ f.type # "Q"
    BY <2>1, <2>4 DEF _echo_rx
  <2>. QED  BY <2>2, <2>3, <2>4
<1>3. CASE f.family = "D"
  <2>. DEFINE u == [t EXCEPT !.pending_dac = FALSE]
  <2>1. frame_cb(t, f) = u  BY <1>3 DEF frame_cb, _dac_rx
  <2>2. /\ u \in Targets /\ ~u.pending_dac /\ (u.pending_echo <=> t.pending_echo)
        /\ u.pending_adc_bytes = t.pending_adc_bytes /\ u.last_echo_sent = t.last_echo_sent
    BY DEF Targets
  <2>. HIDE DEF u
  <2>3. Timed(t) => Timed(u)  BY <2>2 DEF Timed
  <2>. QED  BY <2>1, <2>2, <2>3
<1>4. CASE f.family = "A" /\ f.type # "C"
  BY <1>4 DEF frame_cb, _adc_rx
<1>5. CASE f.family = "A" /\ f.type = "C"
  <2>. DEFINE n    == Len(f.data)
              left == t.pending_adc_bytes - n
              buf  == t.adc_buf \o f.data
              out  == IF left = 0 THEN buf ELSE t.printed
              a    == [t EXCEPT !.adc_buf = buf]
              b    == [a EXCEPT !.pending_adc_bytes = left]
              u    == [b EXCEPT !.printed = out]
  <2>1. frame_cb(t, f) = u
    <3>1. frame_cb(t, f) = _adc_rx(t, f)  BY <1>5 DEF frame_cb
    <3>2. _adc_rx(t, f) = [t EXCEPT !.adc_buf = @ \o f.data, !.pending_adc_bytes = left,
                                    !.printed = IF left = 0 THEN t.adc_buf \o f.data ELSE @]
      BY <1>5 DEF _adc_rx
    <3>3. t = [t EXCEPT !.printed = t.printed]  BY DEF Targets
    <3>. HIDE DEF left
    <3>4. b.printed = t.printed  BY DEF Targets
    <3>. QED  BY <3>1, <3>2, <3>4
  <2>2. n \in Nat /\ left \in Int /\ left <= t.pending_adc_bytes
    BY <1>1, TargetParts
  <2>3. buf \in Seq(Int)
    <3>1. t.adc_buf \in Seq(Int)  BY TargetParts
    <3>. QED  BY <1>1, <3>1
  <2>4. out \in Seq(Int)  BY <2>3, TargetParts
  <2>. HIDE DEF n, left, buf, out
  <2>5. /\ a \in Targets /\ (a.pending_dac <=> t.pending_dac)
        /\ (a.pending_echo <=> t.pending_echo) /\ a.last_echo_sent = t.last_echo_sent
    BY <2>3 DEF Targets
  <2>. HIDE DEF a
  <2>6. /\ b \in Targets /\ (b.pending_dac <=> a.pending_dac) /\ b.pending_adc_bytes = left
        /\ (b.pending_echo <=> a.pending_echo) /\ b.last_echo_sent = a.last_echo_sent
    BY <2>2, <2>5 DEF Targets
  <2>. HIDE DEF b
  <2>7. /\ u \in Targets /\ (u.pending_dac <=> b.pending_dac)
        /\ u.pending_adc_bytes = b.pending_adc_bytes
        /\ (u.pending_echo <=> b.pending_echo) /\ u.last_echo_sent = b.last_echo_sent
    BY <2>4, <2>6 DEF Targets
  <2>. HIDE DEF u
  <2>8. Timed(t) => Timed(u)
    <3>1. t.pending_adc_bytes \in Int  BY TargetParts
    <3>2. t.pending_adc_bytes <= 0 => u.pending_adc_bytes <= 0  BY <2>2, <2>6, <2>7, <3>1
    <3>. QED  BY <2>5, <2>6, <2>7, <3>2 DEF Timed
  <2>. QED  BY <2>1, <2>7, <2>8
<1>6. CASE f.family \notin {"E", "D", "A"}
  BY <1>6 DEF frame_cb
<1>. QED  BY <1>2, <1>3, <1>4, <1>5, <1>6

\* A call of poll leaves the target and the line sound.
LEMMA PollTyped ==
    ASSUME LineType, NEW t \in Targets, NEW arrived \in BOOLEAN, Poll(t, arrived)
    PROVE  tgt' \in Targets /\ LineType' /\ (Timed(t) => Timed(tgt'))
<1>. DEFINE heard == IF arrived THEN frame_cb(t, Head(up)) ELSE t
<1>1. /\ arrived => up # << >>
      /\ up' = IF arrived THEN Tail(up) ELSE up
      /\ \/ heard.pending_frames = << >> /\ tgt' = heard /\ UNCHANGED down
         \/ /\ heard.pending_frames # << >> /\ Len(down) < MaxDown
            /\ down' = Append(down, Head(heard.pending_frames))
            /\ tgt' = [heard EXCEPT !.pending_frames = Tail(@)]
  BY DEF Poll
<1>2. up' \in Seq(Replies) /\ (arrived => Head(up) \in Replies)
  BY <1>1, Popped DEF LineType
<1>3. heard \in Targets /\ (Timed(t) => Timed(heard))
  <2>1. arrived => Head(up) \in Messages  BY <1>2 DEF Replies
  <2>. QED  BY <2>1, FrameTyped
<1>. HIDE DEF heard
<1>4. CASE heard.pending_frames = << >> /\ tgt' = heard /\ UNCHANGED down
  BY <1>2, <1>3, <1>4 DEF LineType
<1>5. CASE /\ heard.pending_frames # << >> /\ Len(down) < MaxDown
           /\ down' = Append(down, Head(heard.pending_frames))
           /\ tgt' = [heard EXCEPT !.pending_frames = Tail(@)]
  <2>. DEFINE s == heard.pending_frames
              r == Tail(s)
  <2>1. s \in Seq(Sendable)  BY <1>3, TargetParts
  <2>2. Head(s) \in Sendable /\ r \in Seq(Sendable)  BY <1>5, <2>1, Popped
  <2>3. down' \in Seq(Sendable) /\ Len(down') = Len(down) + 1 /\ Len(down) \in Nat
    BY <1>5, <2>2, Pushed DEF LineType
  <2>. HIDE DEF r
  <2>4. tgt' = [heard EXCEPT !.pending_frames = r]  BY <1>5 DEF r
  <2>5. /\ tgt' \in Targets /\ (tgt'.pending_dac <=> heard.pending_dac)
        /\ tgt'.pending_adc_bytes = heard.pending_adc_bytes
        /\ (tgt'.pending_echo <=> heard.pending_echo)
        /\ tgt'.last_echo_sent = heard.last_echo_sent
    BY <1>3, <2>2, <2>4 DEF Targets
  <2>6. Timed(heard) => Timed(tgt')  BY <2>5 DEF Timed
  <2>7. Len(down') <= MaxDown  BY <1>5, <2>3, Constants
  <2>. QED  BY <1>2, <1>3, <2>3, <2>5, <2>6, <2>7 DEF LineType
<1>. QED  BY <1>1, <1>4, <1>5


\* What the scripts pack may be sent.
LEMMA PlainPacked ==
    ASSUME NEW cls \in {DACStopPacket, DACStartPacket}, NEW x
    PROVE  pack(cls, x) \in Sendable /\ pack(cls, x).data = << >>
           /\ pack(cls, x).family = "D" /\ pack(cls, x).type = cls.type
<1>1. cls.family = "D" /\ cls.type \in {"S", "T"} /\ cls.fields = << >>
  BY DEF DACStopPacket, DACStartPacket
<1>. DEFINE s == [i \in DOMAIN cls.fields |-> PackField(cls.fields[i], x[cls.fields[i].fname])]
<1>2. Len(s) = 0 /\ s = << >>
  <2>1. DOMAIN cls.fields = {}  BY <1>1
  <2>. QED  BY <2>1
<1>3. pack(cls, x) = [family |-> cls.family, type |-> cls.type, data |-> FlattenSeq(s)]
  BY Zenon DEF pack
<1>. HIDE DEF s
<1>4. FlattenSeq(s) = << >>  BY <1>2, FlattenNone
<1>5. pack(cls, x) = [family |-> "D", type |-> cls.type, data |-> << >>]
  BY <1>1, <1>3, <1>4, Zenon
<1>6. << >> \in Seq(Int) /\ cls.type # "C" /\ cls.type \in Letters /\ "D" \in Letters /\ "D" # "A"
  BY <1>1 DEF Letters
<1>7. pack(cls, x) \in Sendable  BY <1>5, <1>6, PlainSendable, Zenon
<1>. QED  BY <1>5, <1>7

\* A function on 1 .. n is a sequence.
LEMMA Listed ==
    ASSUME NEW V, NEW n \in Nat, NEW f \in [1 .. n -> V]
    PROVE  f \in Seq(V) /\ Len(f) = n
<1>1. DOMAIN f = 1 .. n /\ f \in Seq(V)  OBVIOUS
<1>. QED  BY <1>1

\* The echo of echo.py may be sent.
LEMMA EchoPacked == EchoPacket \in Sendable
<1>. DEFINE F == Varlength("content", BYTES, UINT16_T)
            x == [content |-> EchoContent]
            n == Len(EchoContent)
            l == BigEndian(n, 2)
            v == PackField(F, EchoContent)
<1>0. EchoContent \in Seq(Bytes)  BY RequestAssumption
<1>1. l \in Seq(Int)
  <2>1. n \in Nat  BY <1>0
  <2>. HIDE DEF n
  <2>2. \A k \in 1 .. 2 : Values(2 - k) \in Nat /\ Values(2 - k) > 0
    <3>1. Values(0) = 1 /\ Values(1) = ByteMod  BY DEF Values
    <3>2. \A k \in 1 .. 2 : 2 - k = 0 \/ 2 - k = 1  OBVIOUS
    <3>. QED  BY <3>1, <3>2, WordFacts
  <2>3. ASSUME NEW k \in 1 .. 2 PROVE (n \div Values(2 - k)) % ByteMod \in Int
    <3>1. n \div Values(2 - k) \in Nat  BY <2>1, <2>2
    <3>. QED  BY <3>1, WordFacts
  <2>4. l = [k \in 1 .. 2 |-> (n \div Values(2 - k)) % ByteMod]  BY Zenon DEF BigEndian
  <2>5. l \in [1 .. 2 -> Int]  BY <2>3, <2>4
  <2>. HIDE DEF l
  <2>6. 2 \in Nat  OBVIOUS
  <2>. QED  BY <2>5, <2>6, Listed, Zenon
<1>2. v = l \o EchoContent
  <2>1. F.is_varlength /\ F.ftype = UINT8_T /\ F.lengthtype = 2
    BY DEF Varlength, BYTES, UINT8_T, UINT16_T
  <2>2. FlattenSeq([i \in 1 .. n |-> BigEndian(EchoContent[i], UINT8_T)]) = EchoContent
    BY <1>0, BytesPacked, Zenon
  <2>3. v = BigEndian(n, 2) \o FlattenSeq([i \in 1 .. n |-> BigEndian(EchoContent[i], UINT8_T)])
    <3>. HIDE DEF F
    <3>. QED  BY <2>1, Zenon DEF PackField
  <2>. QED  BY <2>2, <2>3, Zenon
<1>3. v \in Seq(Int)
  <2>1. EchoContent \in Seq(Int)  BY <1>0, BytesAreInts
  <2>. HIDE DEF l, v
  <2>. QED  BY <1>1, <1>2, <2>1
<1>4. EchoPacket = [family |-> "E", type |-> "Q", data |-> FlattenSeq(<<v>>)]
  <2>1. /\ EchoRequestPacket.family = "E" /\ EchoRequestPacket.type = "Q"
        /\ EchoRequestPacket.fields = <<F>> /\ F.fname = "content" /\ x["content"] = EchoContent
    BY DEF EchoRequestPacket, Varlength
  <2>. HIDE DEF F
  <2>2. [i \in DOMAIN <<F>> |-> PackField(<<F>>[i], x[(<<F>>[i]).fname])] = <<PackField(F, x[F.fname])>>
    OBVIOUS
  <2>3. pack(EchoRequestPacket, x) =
          [family |-> "E", type |-> "Q",
           data |-> FlattenSeq([i \in DOMAIN <<F>> |-> PackField(<<F>>[i], x[(<<F>>[i]).fname])])]
    BY <2>1, Zenon DEF pack
  <2>. QED  BY <2>1, <2>2, <2>3, Zenon DEF EchoPacket
<1>5. FlattenSeq(<<v>>) = v
  <2>. HIDE DEF v
  <2>1. Len(<<v>>) = 1 /\ <<v>>[1] = v  OBVIOUS
  <2>. QED  BY <2>1, FlattenOne
<1>6. "E" \in Letters /\ "Q" \in Letters /\ "E" # "A" /\ "E" # "D"  BY DEF Letters
<1>. HIDE DEF v
<1>. QED  BY <1>3, <1>4, <1>5, <1>6, PlainSendable

\* So may the ADC's configuration,
LEMMA AdcPacked ==
    ASSUME NEW a \in AdcRequests, Packable(ADCConfigPacket, a)
    PROVE  pack(ADCConfigPacket, a) \in Sendable
<1>. DEFINE p == pack(ADCConfigPacket, a)
            d == p.data
<1>1. a \in AdcArguments  BY AdcSound
<1>2. /\ d \in Seq(Bytes)
      /\ AdcRequest(d) =
           [cb |-> "eol_adc_callback",
            buflen |-> (a.num_points * a.sample_width * Len(a.channels)) % WordMod,
            sample_width |-> a.sample_width, prescaler |-> a.prescaler,
            period |-> a.period, sample_time |-> a.sample_time, channels |-> a.channels]
  BY <1>1, AdcUnpacked, Zenon
<1>3. p.family = "A" /\ p.type = "C" /\ p = [family |-> "A", type |-> "C", data |-> d]
  <2>1. PICK u : p = [family |-> "A", type |-> "C", data |-> u]  BY Fields, Zenon
  <2>. HIDE DEF p
  <2>. QED  BY <2>1
<1>. HIDE DEF p, d
<1>4. p \in Messages
  <2>1. d \in Seq(Int)  BY <1>2, BytesAreInts
  <2>2. "A" \in Letters /\ "C" \in Letters  BY DEF Letters
  <2>. QED  BY <1>3, <2>1, <2>2 DEF Messages
<1>5. /\ a.num_points \in Nat /\ a.sample_width \in Nat /\ a.prescaler \in Nat
      /\ a.period \in Nat /\ a.sample_time \in Nat /\ a.channels \in Seq(Bytes)
  <2>1. /\ a.prescaler \in 0 .. WordMod - 1 /\ a.period \in 0 .. WordMod * WordMod - 1
        /\ a.num_points \in 0 .. WordMod - 1 /\ a.sample_width \in 0 .. ByteMod - 1
        /\ a.sample_time \in 0 .. WordMod - 1 /\ a.channels \in Seq(Bytes)
    BY <1>1 DEF AdcArguments, Bytes
  <2>. QED  BY <2>1
<1>. DEFINE w == a.num_points * a.sample_width * Len(a.channels)
            c == AdcRequest(d)
<1>6. w \in Nat /\ (a.channels = << >> => w = 0)
  <2>1. Len(a.channels) \in Nat /\ (a.channels = << >> => Len(a.channels) = 0)  BY <1>5
  <2>2. a.num_points * a.sample_width \in Nat  BY <1>5
  <2>. DEFINE x == a.num_points * a.sample_width
              y == Len(a.channels)
  <2>3. x \in Nat /\ y \in Nat /\ (a.channels = << >> => y = 0)  BY <2>1, <2>2
  <2>. HIDE DEF x, y
  <2>4. x * y \in Nat /\ (y = 0 => x * y = 0)  BY <2>3
  <2>. QED  BY <2>3, <2>4 DEF x, y
<1>. HIDE DEF w
<1>7. w % WordMod \in 0 .. WordMod - 1 /\ (w = 0 => w % WordMod = 0)  BY <1>6, WordFacts
<1>8. SoundConfig(c)
  <2>1. c = [cb |-> "eol_adc_callback", buflen |-> w % WordMod,
             sample_width |-> a.sample_width, prescaler |-> a.prescaler,
             period |-> a.period, sample_time |-> a.sample_time, channels |-> a.channels]
    BY <1>2 DEF w
  <2>. HIDE DEF c
  <2>2. c \in AdcConfigs  BY <1>5, <1>7, <2>1 DEF AdcConfigs
  <2>3. c.buflen = w % WordMod /\ c.cb = "eol_adc_callback" /\ c.channels = a.channels  BY <2>1
  <2>. QED  BY <1>6, <1>7, <2>2, <2>3 DEF SoundConfig
<1>9. p.data = d  BY <1>3
<1>. QED  BY <1>3, <1>4, <1>8, <1>9 DEF Sendable, SoundRequest, p

\* and the DAC's.
LEMMA DacPacked ==
    ASSUME NEW r \in DacRequests, "configure" \in r.ops, Packable(DACConfigPacket, r.arg)
    PROVE  pack(DACConfigPacket, r.arg) \in Sendable
<1>. DEFINE a == r.arg
            p == pack(DACConfigPacket, a)
            d == p.data
<1>1. a \in DacArguments /\ (a.points_per_wave * a.num_waves) % WordMod <= DacBufLen
  BY DacSound
<1>. HIDE DEF a
<1>2. d \in Seq(Bytes) /\ DacRequest(d) = a
  BY <1>1, DacUnpacked, Zenon
<1>3. p.family = "D" /\ p.type = "C" /\ p = [family |-> "D", type |-> "C", data |-> d]
  <2>1. PICK u : p = [family |-> "D", type |-> "C", data |-> u]  BY Fields, Zenon
  <2>. HIDE DEF p
  <2>. QED  BY <2>1
<1>. HIDE DEF p, d
<1>4. p \in Messages
  <2>1. d \in Seq(Int)  BY <1>2, BytesAreInts
  <2>2. "D" \in Letters /\ "C" \in Letters  BY DEF Letters
  <2>. QED  BY <1>3, <2>1, <2>2 DEF Messages
<1>5. p.data = d  BY <1>3
<1>6. SoundRequest(p)  BY <1>1, <1>2, <1>3, <1>4, <1>5 DEF SoundRequest
<1>. QED  BY <1>4, <1>6 DEF Sendable, p, a

---------------------------------------------------------------------------
(* The types, and echo.py's times, as invariants.                            *)

EchoInv == script = "echo" => Timed(tgt)

EolInv == TypeInv /\ EchoInv

\* A script that starts leaves the board as it is.
LEMMA StartTyped ==
    ASSUME EolInv, NEW s \in {"echo", "adc", "dac", "user"}, NEW what, Starts(s, what)
    PROVE  BoardType' /\ script' = s /\ clean' \in BOOLEAN
<1>1. /\ script' = s /\ FindsReplies /\ UNCHANGED <<boardVars, down, trouble>>
      /\ clean' = (Quiet /\ (s = "dac" => ~sending_digit))
  BY DEF Starts
<1>2. LineType'
  <2>1. PICK n \in 0 .. Min2(MaxUp, Len(up)) : up' = SubSeq(up, Len(up) - n + 1, Len(up))
    BY <1>1 DEF FindsReplies
  <2>2. up \in Seq(Replies) /\ Len(up) \in Nat  BY DEF EolInv, TypeInv, BoardType, LineType
  <2>3. n \in Nat /\ n <= Len(up)  BY <2>2, Constants DEF Min2
  <2>. DEFINE l == Len(up)
              k == l - n + 1
  <2>4. k \in Nat /\ k >= 1 /\ l \in Nat /\ l <= Len(up)  BY <2>2, <2>3
  <2>. HIDE DEF k, l
  <2>5. SubSeq(up, k, l) \in Seq(Replies)
    <3>1. ASSUME NEW V, NEW q \in Seq(V), NEW i \in Nat, NEW j \in Nat, i >= 1, j <= Len(q)
          PROVE  SubSeq(q, i, j) \in Seq(V)
      BY <3>1, SubSeqProperties
    <3>. QED  BY <2>2, <2>4, <3>1
  <2>6. up' \in Seq(Replies)  BY <2>1, <2>5 DEF k, l
  <2>. QED  BY <1>1, <2>6 DEF EolInv, TypeInv, BoardType, LineType
<1>3. UNCHANGED <<dacVars, adcVars, tcif, sending_digit, main, hung>>  BY <1>1 DEF boardVars
<1>4. FlagType'  BY <1>3, KeptAdc DEF EolInv, TypeInv, BoardType, FlagType
<1>5. BoardType'
  BY <1>2, <1>3, <1>4, KeptDac, KeptAdc DEF EolInv, TypeInv, BoardType
<1>6. clean' \in BOOLEAN  BY <1>1
<1>. QED  BY <1>1, <1>5, <1>6

\* A new target expects nothing.
LEMMA NewTimed == Timed(NewTarget)
  BY DEF Timed, NewTarget

\* echo.py starts.
LEMMA EchoStartsTyped == ASSUME EolInv, EchoStarts PROVE EolInv'
<1>1. BoardType' /\ script' = "echo" /\ clean' \in BOOLEAN
  BY StartTyped, Zenon DEF EchoStarts
<1>2. tgt' = NewTarget /\ todo' = todo  BY DEF EchoStarts
<1>3. TetherType'  BY <1>1, <1>2, NewTyped DEF EolInv, TypeInv, TetherType
<1>4. EchoInv'  BY <1>2, NewTimed DEF EchoInv
<1>. QED  BY <1>1, <1>3, <1>4 DEF EolInv, TypeInv

\* adc_control.py starts.
LEMMA AdcStartsTyped == ASSUME EolInv, AdcStarts PROVE EolInv'
<1>1. PICK a \in AdcRequests :
        /\ Packable(ADCConfigPacket, a)
        /\ Starts("adc", [kind |-> "adc", arg |-> a])
        /\ tgt' = [queue_packet(NewTarget, ADCConfigPacket, a) EXCEPT
                     !.pending_adc_bytes = a.num_points * a.sample_width * Len(a.channels)]
        /\ UNCHANGED todo
  BY DEF AdcStarts
<1>. DEFINE e == enqueue(NewTarget, pack(ADCConfigPacket, a))
            w == a.num_points * a.sample_width * Len(a.channels)
<1>2. e \in Targets  BY <1>1, AdcPacked, NewTyped, EnqueueTyped
<1>3. w \in Int
  <2>1. a.num_points \in Nat /\ a.sample_width \in Nat /\ a.channels \in Seq(Nat)
    BY RequestAssumption
  <2>2. Len(a.channels) \in Nat  BY <2>1
  <2>3. a.num_points * a.sample_width \in Nat  BY <2>1
  <2>. QED  BY <2>2, <2>3
<1>4. tgt' = [e EXCEPT !.pending_adc_bytes = w]  BY <1>1 DEF queue_packet
<1>. HIDE DEF e, w
<1>5. tgt' \in Targets  BY <1>2, <1>3, <1>4 DEF Targets
<1>6. BoardType' /\ script' = "adc" /\ clean' \in BOOLEAN
  BY <1>1, StartTyped, Zenon
<1>7. TetherType'  BY <1>1, <1>5, <1>6 DEF EolInv, TypeInv, TetherType
<1>8. EchoInv'  BY <1>6 DEF EchoInv
<1>. QED  BY <1>6, <1>7, <1>8 DEF EolInv, TypeInv

\* The packets dac_control.py sends for its arguments.
DacPackets(r) ==
    LET Packed(op, cls) == IF op \in r.ops THEN <<pack(cls, r.arg)>> ELSE << >>
    IN  Packed("stop", DACStopPacket) \o Packed("configure", DACConfigPacket)
          \o Packed("start", DACStartPacket)

\* There is at least one of them, and each may be sent.
LEMMA DacPacketsTyped ==
    ASSUME NEW r \in DacRequests, "configure" \in r.ops => Packable(DACConfigPacket, r.arg)
    PROVE  /\ DacPackets(r) \in Seq(Sendable) /\ DacPackets(r) # << >>
           /\ Append(DacPackets(r), Last(DacPackets(r))) \in Seq(Sendable)
<1>. DEFINE a == IF "stop" \in r.ops THEN <<pack(DACStopPacket, r.arg)>> ELSE << >>
            b == IF "configure" \in r.ops THEN <<pack(DACConfigPacket, r.arg)>> ELSE << >>
            c == IF "start" \in r.ops THEN <<pack(DACStartPacket, r.arg)>> ELSE << >>
            s == DacPackets(r)
<1>1. r.ops \in (SUBSET {"stop", "configure", "start"}) \ {{}}  BY RequestAssumption
<1>2. ASSUME NEW f \in Sendable PROVE <<f>> \in Seq(Sendable) /\ Len(<<f>>) = 1
  OBVIOUS
<1>3. << >> \in Seq(Sendable) /\ Len(<< >>) = 0  OBVIOUS
<1>4. /\ a \in Seq(Sendable) /\ Len(a) \in Nat /\ b \in Seq(Sendable) /\ Len(b) \in Nat
      /\ c \in Seq(Sendable) /\ Len(c) \in Nat
      /\ "stop" \in r.ops => Len(a) = 1
      /\ "configure" \in r.ops => Len(b) = 1
      /\ "start" \in r.ops => Len(c) = 1
  <2>1. pack(DACStopPacket, r.arg) \in Sendable /\ pack(DACStartPacket, r.arg) \in Sendable
    BY PlainPacked
  <2>2. "configure" \in r.ops => pack(DACConfigPacket, r.arg) \in Sendable
    BY DacPacked
  <2>3. a \in Seq(Sendable) /\ ("stop" \in r.ops => Len(a) = 1)  BY <1>2, <1>3, <2>1, Zenon
  <2>4. b \in Seq(Sendable) /\ ("configure" \in r.ops => Len(b) = 1)  BY <1>2, <1>3, <2>2, Zenon
  <2>5. c \in Seq(Sendable) /\ ("start" \in r.ops => Len(c) = 1)  BY <1>2, <1>3, <2>1, Zenon
  <2>. HIDE DEF a, b, c
  <2>6. ASSUME NEW V, NEW q \in Seq(V) PROVE Len(q) \in Nat  OBVIOUS
  <2>. QED  BY <2>3, <2>4, <2>5, <2>6
<1>5. s = (a \o b) \o c  BY Zenon DEF DacPackets
<1>. HIDE DEF a, b, c
<1>6. a \o b \in Seq(Sendable) /\ Len(a \o b) = Len(a) + Len(b)
  <2>1. ASSUME NEW V, NEW q \in Seq(V), NEW p \in Seq(V)
        PROVE  q \o p \in Seq(V) /\ Len(q \o p) = Len(q) + Len(p)
    OBVIOUS
  <2>. QED  BY <1>4, <2>1, Zenon
<1>7. s \in Seq(Sendable) /\ Len(s) = Len(a) + Len(b) + Len(c)
  <2>. DEFINE ab == a \o b
  <2>1. ASSUME NEW V, NEW q \in Seq(V), NEW p \in Seq(V)
        PROVE  q \o p \in Seq(V) /\ Len(q \o p) = Len(q) + Len(p)
    OBVIOUS
  <2>. HIDE DEF ab
  <2>2. ab \o c \in Seq(Sendable) /\ Len(ab \o c) = Len(ab) + Len(c)
    BY <1>4, <1>6, <2>1, Zenon DEF ab
  <2>. QED  BY <1>5, <1>6, <2>2 DEF ab
<1>. HIDE DEF s
<1>8. Len(s) > 0
  <2>1. "stop" \in r.ops \/ "configure" \in r.ops \/ "start" \in r.ops  BY <1>1
  <2>. QED  BY <1>4, <1>7, <2>1
<1>9. s # << >> /\ Last(s) \in Sendable /\ Append(s, Last(s)) \in Seq(Sendable)
  <2>1. ASSUME NEW V, NEW q \in Seq(V), Len(q) > 0
        PROVE  q # << >> /\ q[Len(q)] \in V
    <3>1. Len(q) \in 1 .. Len(q)  BY <2>1
    <3>2. Len(<< >>) = 0  OBVIOUS
    <3>. QED  BY <2>1, <3>1, <3>2
  <2>2. s # << >> /\ Last(s) \in Sendable  BY <1>7, <1>8, <2>1, Zenon DEF Last
  <2>. QED  BY <1>7, <2>2, Pushed, Zenon
<1>. QED  BY <1>7, <1>9 DEF s

\* dac_control.py starts.
LEMMA DacStartsTyped == ASSUME EolInv, DacStarts PROVE EolInv'
<1>1. PICK r \in DacRequests :
        /\ "configure" \in r.ops => Packable(DACConfigPacket, r.arg)
        /\ Starts("dac", [kind |-> "dac", arg |-> r.arg, ops |-> r.ops])
        /\ todo' = Append(DacPackets(r), Last(DacPackets(r)))
        /\ tgt' = NewTarget
  BY Zenon DEF DacStarts, DacPackets
<1>2. todo' \in Seq(Sendable)  BY <1>1, DacPacketsTyped
<1>3. BoardType' /\ script' = "dac" /\ clean' \in BOOLEAN
  BY <1>1, StartTyped, Zenon
<1>4. TetherType'  BY <1>1, <1>2, <1>3, NewTyped DEF TetherType
<1>5. EchoInv'  BY <1>3 DEF EchoInv
<1>. QED  BY <1>3, <1>4, <1>5 DEF EolInv, TypeInv

\* A user of the library starts.
LEMMA UserStartsTyped == ASSUME EolInv, UserStarts PROVE EolInv'
<1>1. PICK t \in UserRequests(NewTarget) :
        /\ Starts("user", [kind |-> "user"])
        /\ tgt' = t
        /\ UNCHANGED todo
  BY DEF UserStarts
<1>2. t \in Targets
  <2>1. /\ t \in [pending_frames : Seq(Messages), pending_echo : BOOLEAN,
                   pending_dac : BOOLEAN, pending_adc_bytes : {0}, adc_buf : {<< >>},
                   last_echo_sent : {"never", "recent"}, printed : {<< >>}]
        /\ \A i \in DOMAIN t.pending_frames :
              t.pending_frames[i].family \in {"A", "D"} => t.pending_frames[i].type # "C"
    BY RequestAssumption
  <2>. DEFINE q == t.pending_frames
  <2>2. q \in Seq(Messages)  BY <2>1
  <2>3. ASSUME NEW i \in 1 .. Len(q) PROVE q[i] \in Sendable
    <3>1. q[i] \in Messages /\ i \in DOMAIN q
      <4>1. ASSUME NEW V, NEW u \in Seq(V), NEW j \in 1 .. Len(u) PROVE u[j] \in V /\ j \in DOMAIN u
        OBVIOUS
      <4>. QED  BY <2>2, <4>1
    <3>. QED  BY <2>1, <3>1 DEF Sendable, SoundRequest
  <2>4. q \in Seq(Sendable)
    <3>1. ASSUME NEW V, NEW U, NEW u \in Seq(V), \A j \in 1 .. Len(u) : u[j] \in U
          PROVE  u \in Seq(U)
      <4>1. u = [j \in 1 .. Len(u) |-> u[j]] /\ Len(u) \in Nat  OBVIOUS
      <4>2. u \in [1 .. Len(u) -> U]  BY <3>1, <4>1, Zenon
      <4>. QED  BY <4>1, <4>2, Listed, Zenon
    <3>. QED  BY <2>2, <2>3, <3>1
  <2>. HIDE DEF q
  <2>5. t.adc_buf \in Seq(Int) /\ t.printed \in Seq(Int)
    <3>1. << >> \in Seq(Int)  OBVIOUS
    <3>2. t.adc_buf = << >> /\ t.printed = << >>  BY <2>1
    <3>. QED  BY <3>1, <3>2, Zenon
  <2>6. t.pending_frames \in Seq(Sendable)  BY <2>4 DEF q
  <2>7. /\ t.pending_echo \in BOOLEAN /\ t.pending_dac \in BOOLEAN /\ t.pending_adc_bytes \in Int
        /\ t.last_echo_sent \in {"never", "recent", "old"}
    BY <2>1
  <2>8. t = [pending_frames |-> t.pending_frames, pending_echo |-> t.pending_echo,
             pending_dac |-> t.pending_dac, pending_adc_bytes |-> t.pending_adc_bytes,
             adc_buf |-> t.adc_buf, last_echo_sent |-> t.last_echo_sent, printed |-> t.printed]
    BY <2>1
  <2>. QED  BY <2>5, <2>6, <2>7, <2>8 DEF Targets
<1>3. BoardType' /\ script' = "user" /\ clean' \in BOOLEAN
  BY <1>1, StartTyped, Zenon
<1>4. TetherType'  BY <1>1, <1>2, <1>3 DEF EolInv, TypeInv, TetherType
<1>5. EchoInv'  BY <1>3 DEF EchoInv
<1>. QED  BY <1>3, <1>4, <1>5 DEF EolInv, TypeInv

\* Who leaves the board alone leaves its type,
LEMMA BoardKept ==
    ASSUME BoardType, UNCHANGED <<boardVars, down, up>> PROVE BoardType'
<1>1. UNCHANGED <<dacVars, adcVars, tcif, sending_digit, main, hung>>  BY DEF boardVars
<1>2. FlagType'  BY <1>1, KeptAdc DEF BoardType, FlagType
<1>. QED  BY <1>1, <1>2, KeptDac, KeptAdc, KeptLine DEF BoardType

\* and so does who only changes the line.
LEMMA BoardKeptLine ==
    ASSUME BoardType, UNCHANGED boardVars, LineType' PROVE BoardType'
<1>1. UNCHANGED <<dacVars, adcVars, tcif, sending_digit, main, hung>>  BY DEF boardVars
<1>2. FlagType'  BY <1>1, KeptAdc DEF BoardType, FlagType
<1>. QED  BY <1>1, <1>2, KeptDac, KeptAdc DEF BoardType

\* A script ends.
LEMMA EndsTyped ==
    ASSUME EolInv, Ends, todo' \in Seq(Sendable), clean' \in BOOLEAN PROVE EolInv'
<1>1. /\ script' = "none" /\ tgt' = [NewTarget EXCEPT !.printed = tgt.printed]
      /\ UNCHANGED <<boardVars, down, up>>
  BY DEF Ends
<1>2. tgt' \in Targets
  <2>. DEFINE p == tgt.printed
  <2>1. p \in Seq(Int)  BY TargetParts DEF EolInv, TypeInv, TetherType
  <2>. HIDE DEF p
  <2>2. [NewTarget EXCEPT !.printed = p] \in Targets  BY <2>1, NewTyped DEF Targets
  <2>. QED  BY <1>1, <2>2 DEF p
<1>3. BoardType'  BY <1>1, BoardKept DEF EolInv, TypeInv
<1>4. TetherType'  BY <1>1, <1>2 DEF TetherType
<1>5. EchoInv'  BY <1>1 DEF EchoInv
<1>. QED  BY <1>3, <1>4, <1>5 DEF EolInv, TypeInv

\* A turn of echo.py, before poll, leaves its target sound.
LEMMA EchoTurnTyped ==
    ASSUME NEW t \in Targets, Timed(t)
    PROVE  EchoTurn(t) \in Targets /\ Timed(EchoTurn(t))
<1>1. CASE ~pending_input(t)
  <2>. DEFINE u == [enqueue(t, EchoPacket) EXCEPT !.last_echo_sent = "recent", !.pending_echo = TRUE]
              e == enqueue(t, EchoPacket)
              v == [e EXCEPT !.last_echo_sent = "recent"]
              w == [v EXCEPT !.pending_echo = TRUE]
  <2>1. EchoTurn(t) = w  BY <1>1 DEF EchoTurn
  <2>2. e \in Targets /\ (e.pending_dac <=> t.pending_dac)
        /\ e.pending_adc_bytes = t.pending_adc_bytes
    <3>1. {"pending_dac", "pending_adc_bytes"} \subseteq DOMAIN t \ {"pending_frames"}
      BY DEF Targets
    <3>. QED  BY <3>1, EchoPacked, EnqueueTyped
  <2>. HIDE DEF e
  <2>3. v \in Targets /\ (v.pending_dac <=> e.pending_dac)
        /\ v.pending_adc_bytes = e.pending_adc_bytes /\ v.last_echo_sent = "recent"
    BY <2>2 DEF Targets
  <2>. HIDE DEF v
  <2>4. w \in Targets /\ (w.pending_dac <=> v.pending_dac)
        /\ w.pending_adc_bytes = v.pending_adc_bytes /\ w.last_echo_sent = v.last_echo_sent
    BY <2>3 DEF Targets
  <2>. HIDE DEF w
  <2>5. Timed(w)  BY <2>2, <2>3, <2>4 DEF Timed
  <2>. QED  BY <2>1, <2>4, <2>5
<1>2. CASE pending_input(t) /\ t.last_echo_sent = "old"
  <2>. DEFINE v == [t EXCEPT !.pending_echo = FALSE]
              w == [v EXCEPT !.last_echo_sent = "never"]
  <2>1. EchoTurn(t) = w  BY <1>2 DEF EchoTurn
  <2>2. v \in Targets /\ (v.pending_dac <=> t.pending_dac) /\ ~v.pending_echo
        /\ v.pending_adc_bytes = t.pending_adc_bytes
    BY DEF Targets
  <2>. HIDE DEF v
  <2>3. w \in Targets /\ (w.pending_dac <=> v.pending_dac) /\ ~w.pending_echo
        /\ w.pending_adc_bytes = v.pending_adc_bytes
    BY <2>2 DEF Targets
  <2>. HIDE DEF w
  <2>4. Timed(w)  BY <2>2, <2>3 DEF Timed
  <2>. QED  BY <2>1, <2>3, <2>4
<1>3. CASE pending_input(t) /\ t.last_echo_sent # "old"
  BY <1>3 DEF EchoTurn
<1>. QED  BY <1>1, <1>2, <1>3

\* A turn of any script
LEMMA TurnTyped ==
    ASSUME EolInv, NEW arrived \in BOOLEAN, Turn(arrived) PROVE EolInv'
<1>1. /\ tgt \in Targets /\ todo \in Seq(Sendable) /\ LineType /\ BoardType
      /\ script \in {"none", "echo", "adc", "dac", "user"} /\ clean \in BOOLEAN
  BY DEF EolInv, TypeInv, BoardType, TetherType
<1>2. UNCHANGED <<boardVars, script, asked, started, clean, trouble>>  BY DEF Turn
<1>3. /\ tgt' \in Targets /\ LineType' /\ todo' \in Seq(Sendable)
      /\ script = "echo" => Timed(tgt')
  <2>1. CASE script = "echo" /\ Poll(EchoTurn(tgt), arrived) /\ UNCHANGED todo
    <3>1. Timed(tgt)  BY <2>1 DEF EolInv, EchoInv
    <3>2. EchoTurn(tgt) \in Targets /\ Timed(EchoTurn(tgt))  BY <1>1, <3>1, EchoTurnTyped
    <3>. QED  BY <1>1, <2>1, <3>2, PollTyped
  <2>2. CASE script \in {"adc", "user"} /\ Poll(tgt, arrived) /\ UNCHANGED todo
    BY <1>1, <2>2, PollTyped
  <2>3. CASE /\ script = "dac" /\ todo # << >> /\ Poll(enqueue(tgt, Head(todo)), arrived)
             /\ todo' = Tail(todo)
    <3>1. Head(todo) \in Sendable /\ todo' \in Seq(Sendable)  BY <1>1, <2>3, Popped
    <3>2. enqueue(tgt, Head(todo)) \in Targets  BY <1>1, <3>1, EnqueueTyped
    <3>. QED  BY <1>1, <2>3, <3>1, <3>2, PollTyped
  <2>. QED  BY <2>1, <2>2, <2>3 DEF Turn
<1>4. BoardType'  BY <1>1, <1>2, <1>3, BoardKeptLine
<1>5. TetherType'  BY <1>1, <1>2, <1>3 DEF TetherType
<1>6. EchoInv'  BY <1>2, <1>3 DEF EchoInv
<1>. QED  BY <1>1, <1>2, <1>4, <1>5, <1>6 DEF EolInv, TypeInv

\* Time passes only for an echo that was sent.
LEMMA TickTyped == ASSUME EolInv, Tick PROVE EolInv'
<1>1. /\ tgt' = [tgt EXCEPT !.last_echo_sent = "old"]
      /\ UNCHANGED <<boardVars, down, up, script, todo, asked, started, clean, trouble>>
  BY DEF Tick
<1>2. tgt \in Targets  BY DEF EolInv, TypeInv, TetherType
<1>3. /\ tgt' \in Targets /\ (tgt'.pending_dac <=> tgt.pending_dac)
      /\ tgt'.pending_adc_bytes = tgt.pending_adc_bytes /\ tgt'.last_echo_sent = "old"
  BY <1>1, <1>2 DEF Targets
<1>4. Timed(tgt) => Timed(tgt')  BY <1>3 DEF Timed
<1>5. BoardType'  BY <1>1, BoardKept DEF EolInv, TypeInv
<1>6. TetherType'  BY <1>1, <1>3 DEF EolInv, TypeInv, TetherType
<1>7. EchoInv'  BY <1>1, <1>4 DEF EolInv, EchoInv
<1>. QED  BY <1>1, <1>5, <1>6, <1>7 DEF EolInv, TypeInv

\* A message is lost.
LEMMA LostTyped == ASSUME BoardType, Lost PROVE BoardType'
<1>1. LineType'
  <2>1. CASE down # << >> /\ down' = Tail(down) /\ UNCHANGED up
    BY <2>1, TakesTyped DEF BoardType, LineType
  <2>2. CASE up # << >> /\ up' = Tail(up) /\ UNCHANGED down
    <3>1. up' \in Seq(Replies)  BY <2>2, Popped DEF BoardType, LineType
    <3>. QED  BY <2>2, <3>1 DEF BoardType, LineType
  <2>. QED  BY <2>1, <2>2 DEF Lost
<1>. QED  BY <1>1, BoardKeptLine DEF Lost

\* A step of the board is no step of a script.
LEMMA BoardStepTyped ==
    ASSUME EolInv, BoardType', UNCHANGED tether, clean' \in BOOLEAN PROVE EolInv'
  BY DEF EolInv, TypeInv, TetherType, EchoInv, tether

\* The types, and what echo.py needs, hold at first.
LEMMA EolInit == Init => EolInv
<1>. SUFFICES ASSUME Init PROVE EolInv
  OBVIOUS
<1>1. DacType
  BY Constants, ZerosTyped, ModemTyped DEF Init, BoardInit, DacType
<1>2. AdcBufType
  BY Constants, ZerosTyped DEF Init, BoardInit, AdcBufType
<1>3. ConfigType
  BY Constants, ModemTyped DEF Init, BoardInit, ConfigType
<1>4. StreamType
  BY Constants, ModemTyped DEF Init, BoardInit, StreamType
<1>5. FlagType
  <2>1. tcif = FALSE /\ sending_digit = FALSE /\ hung = FALSE /\ take = 0
    BY DEF Init, BoardInit
  <2>2. take \in 0 .. 1  BY <2>1
  <2>3. FALSE \in BOOLEAN  OBVIOUS
  <2>. QED  BY <2>1, <2>2, <2>3, Zenon DEF FlagType
<1>6. LineType
  <2>1. << >> \in Seq(Sendable) /\ << >> \in Seq(Replies) /\ Len(<< >>) = 0  OBVIOUS
  <2>. QED  BY <2>1, Constants DEF Init, BoardInit, LineType
<1>7. TetherType
  <2>1. << >> \in Seq(Sendable)  OBVIOUS
  <2>. QED  BY <2>1, NewTyped DEF Init, TetherType
<1>8. main \in Mains  BY LoopTyped DEF Init, BoardInit
<1>9. EchoInv /\ clean \in BOOLEAN  BY DEF Init, EchoInv
<1>. QED
  BY <1>1, <1>2, <1>3, <1>4, <1>5, <1>6, <1>7, <1>8, <1>9 DEF EolInv, TypeInv, BoardType

\* Every step keeps them.
LEMMA EolNext == EolInv /\ [Next]_vars => EolInv'
<1>. SUFFICES ASSUME EolInv, [Next]_vars PROVE EolInv'
  OBVIOUS
<1>0. BoardType /\ clean \in BOOLEAN  BY DEF EolInv, TypeInv
<1>1. CASE EchoStarts  BY <1>1, EchoStartsTyped
<1>2. CASE AdcStarts  BY <1>2, AdcStartsTyped
<1>3. CASE DacStarts  BY <1>3, DacStartsTyped
<1>4. CASE UserStarts  BY <1>4, UserStartsTyped
<1>5. CASE Killed
  <2>1. << >> \in Seq(Sendable)  OBVIOUS
  <2>2. Ends /\ todo' \in Seq(Sendable) /\ clean' \in BOOLEAN  BY <1>5, <2>1 DEF Killed
  <2>. QED  BY <2>2, EndsTyped
<1>6. CASE Turns
  <2>1. PICK arrived \in BOOLEAN : Turn(arrived)  BY <1>6 DEF Turns
  <2>. QED  BY <2>1, TurnTyped
<1>7. CASE ScriptEnds
  <2>1. Ends /\ todo' \in Seq(Sendable) /\ clean' \in BOOLEAN
    BY <1>0, <1>7 DEF ScriptEnds, EolInv, TypeInv, TetherType
  <2>. QED  BY <2>1, EndsTyped
<1>8. CASE Tick  BY <1>8, TickTyped
<1>9. CASE Undisturbed(Handle)
  <2>1. Handle /\ UNCHANGED tether /\ clean' \in BOOLEAN  BY <1>0, <1>9 DEF Undisturbed
  <2>2. BoardType'
    BY <1>0, <2>1, EchoQueryTyped, EchoTableTyped, LoggingControlTyped, ResetRequestTyped,
       DacConfigureTyped, DacStartTyped, AdcCaptureTyped, AdcOtherTyped, UnknownTyped,
       Zenon DEF Handle
  <2>. QED  BY <2>1, <2>2, BoardStepTyped
<1>10. CASE Undisturbed(CaptureBegins)
  <2>1. CaptureBegins /\ UNCHANGED tether /\ clean' \in BOOLEAN  BY <1>0, <1>10 DEF Undisturbed
  <2>. QED  BY <1>0, <2>1, CaptureBeginsTyped, BoardStepTyped
<1>11. CASE Undisturbed(SendDone)
  <2>1. SendDone /\ UNCHANGED tether /\ clean' \in BOOLEAN  BY <1>0, <1>11 DEF Undisturbed
  <2>. QED  BY <1>0, <2>1, SendDoneTyped, BoardStepTyped
<1>12. CASE Undisturbed(Hardware)
  <2>1. Hardware /\ UNCHANGED tether /\ clean' \in BOOLEAN  BY <1>0, <1>12 DEF Undisturbed
  <2>2. BoardType'
    BY <1>0, <2>1, SampleTyped, ModemHalfTyped, InterruptTyped, Zenon DEF Hardware
  <2>. QED  BY <2>1, <2>2, BoardStepTyped
<1>13. CASE Disturbed(Recital) \/ Disturbed(Lost) \/ Disturbed(FcsMismatch)
  <2>1. Recital \/ Lost \/ FcsMismatch  BY <1>13 DEF Disturbed
  <2>2. UNCHANGED tether /\ clean' \in BOOLEAN  BY <1>13 DEF Disturbed
  <2>3. BoardType'
    BY <1>0, <2>1, RecitalTyped, LostTyped, UnknownTyped, Zenon
  <2>. QED  BY <2>2, <2>3, BoardStepTyped
<1>14. CASE UNCHANGED vars
  <2>1. UNCHANGED <<boardVars, down, up>> /\ UNCHANGED tether /\ clean' = clean
    BY <1>14 DEF vars
  <2>. QED  BY <1>0, <2>1, BoardKept, BoardStepTyped
<1>. QED
  BY <1>1, <1>2, <1>3, <1>4, <1>5, <1>6, <1>7, <1>8, <1>9, <1>10, <1>11, <1>12, <1>13, <1>14,
     Zenon DEF Next

\* They always hold.
LEMMA EolAlways == Spec => []EolInv
  BY EolInit, EolNext, PTL DEF Spec

\* Whatever a request asks the ADC for (its sample width too), whatever is lost or
\* damaged, and however the scripts follow one another: eol_command_handle's check of
\* buflen is enough for the transfers still to come, 8 or 16 bits each, to fit
\* eol_adc_buf.  (It has no such check for the DAC.)
THEOREM BenchTyped == Spec => []TypeOK
<1>1. EolInv => TypeOK
  <2>. SUFFICES ASSUME EolInv PROVE TypeOK
    OBVIOUS
  <2>1. dac.npts \in Nat /\ dac.on \in BOOLEAN
    BY DEF EolInv, TypeInv, BoardType, DacType, Dacs
  <2>2. Len(eol_adc_buf) = AdcBufLen /\ saved_adc_config.buflen \in 0 .. AdcBufLen
    BY WordFacts DEF EolInv, TypeInv, BoardType, AdcBufType, ConfigType, SoundConfig, AdcConfigs
  <2>3. stream.left \in 0 .. AdcBufLen /\ stream.on \in BOOLEAN
    BY DEF EolInv, TypeInv, BoardType, StreamType
  <2>4. main.at \in {"loop", "capture", "xmitbuf", "sending"}
    BY DEF EolInv, TypeInv, BoardType, Mains, Loop
  <2>5. /\ take \in 0 .. 1 /\ tcif \in BOOLEAN /\ sending_digit \in BOOLEAN
        /\ hung \in BOOLEAN /\ clean \in BOOLEAN
    BY DEF EolInv, TypeInv, BoardType, FlagType
  <2>6. /\ script \in {"none", "echo", "adc", "dac", "user"}
        /\ tgt.last_echo_sent \in {"never", "recent", "old"}
    BY TargetParts DEF EolInv, TypeInv, TetherType
  <2>7. Len(down) <= MaxDown  BY DEF EolInv, TypeInv, BoardType, LineType
  <2>8. {tcif, sending_digit, hung, clean} \subseteq BOOLEAN  BY <2>5, Zenon
  <2>9. stream.left * TransferSize(saved_adc_config) <= AdcBufLen
    <3>. DEFINE c == saved_adc_config
                n == stream.left
                b == c.buflen
                w == c.sample_width
    <3>1. n \in Nat /\ n <= n_dmas(c)
      BY DEF EolInv, TypeInv, BoardType, StreamType
    <3>2. b \in Nat /\ w \in Nat /\ b <= AdcBufLen
      BY <2>2 DEF EolInv, TypeInv, BoardType, ConfigType, SoundConfig, AdcConfigs
    <3>3. n_dmas(c) = (IF w = 0 THEN 0 ELSE b \div w) /\ TransferSize(c) = (IF w = 1 THEN 1 ELSE 2)
      BY DEF n_dmas, Udiv, TransferSize
    <3>4. AdcBufLen \in Nat
      BY Constants
    <3>. HIDE DEF b, w, n, c
    <3>5. CASE w = 0
      BY <3>1, <3>3, <3>4, <3>5 DEF n, c
    <3>6. CASE w > 0
      <4>. DEFINE q == b \div w
                  z == TransferSize(c)
      <4>1. q \in Nat /\ b % w \in 0 .. w - 1 /\ b = w * q + (b % w)
        BY <3>2, <3>6, Division
      <4>2. n <= q /\ z \in Nat /\ z <= w
        BY <3>1, <3>2, <3>3, <3>6
      <4>. HIDE DEF q, z
      <4>3. n * z <= q * z /\ q * z <= q * w
        BY <3>1, <3>2, <4>1, <4>2
      <4>4. n * z \in Nat /\ q * z \in Nat /\ q * w \in Nat /\ q * w <= b
        BY <3>1, <3>2, <4>1, <4>2
      <4>5. n * z <= AdcBufLen
        BY <3>2, <3>4, <4>3, <4>4
      <4>. QED  BY <4>5 DEF n, z, c
    <3>. QED  BY <3>2, <3>5, <3>6
  <2>. QED  BY <2>1, <2>2, <2>3, <2>4, <2>5, <2>6, <2>7, <2>8, <2>9 DEF TypeOK
<1>. QED  BY <1>1, EolAlways, PTL

\* Whatever replies of earlier scripts it is sent, and however it gives echoes up,
\* echo.py never takes the time that has passed since an echo it never sent.
THEOREM EchoTimesKnown == Spec => []EchoNeverRaises
<1>1. EolInv => EchoNeverRaises
  <2>1. EolInv => tgt.pending_adc_bytes \in Int  BY TargetParts DEF EolInv, TypeInv, TetherType
  <2>. QED  BY <2>1 DEF EolInv, EchoInv, Timed, EchoNeverRaises, EchoRaises, pending_input
<1>. QED  BY <1>1, EolAlways, PTL

---------------------------------------------------------------------------
(* An undisturbed dac_control.py: the packets still to be obeyed, those on   *)
(* the line and those in todo, decide what the DAC will be doing.            *)

\* A reply does not have the tether send anything.
LEMMA RepliesAreNotAnswered ==
    ASSUME NEW t \in Targets, NEW f \in Replies
    PROVE  frame_cb(t, f).pending_frames = t.pending_frames
<1>1. f.family = "E" => f.type # "Q"  BY DEF Replies
<1>2. CASE f.family = "E" /\ f.type \in {"R", "U"}
  <2>1. frame_cb(t, f) = [t EXCEPT !.pending_echo = FALSE, !.last_echo_sent = "never",
                                    !.printed = f.data]
    BY <1>2 DEF frame_cb, _echo_rx
  <2>. QED  BY <2>1 DEF Targets
<1>3. CASE f.family = "E" /\ f.type \notin {"R", "U"}
  BY <1>1, <1>3 DEF frame_cb, _echo_rx
<1>4. CASE f.family = "D"
  <2>1. frame_cb(t, f) = [t EXCEPT !.pending_dac = FALSE]  BY <1>4 DEF frame_cb, _dac_rx
  <2>. QED  BY <2>1 DEF Targets
<1>5. CASE f.family = "A"
  <2>1. frame_cb(t, f) = _adc_rx(t, f)  BY <1>5 DEF frame_cb
  <2>2. CASE f.type # "C"  BY <2>1, <2>2 DEF _adc_rx
  <2>3. CASE f.type = "C"
    <3>. DEFINE left == t.pending_adc_bytes - Len(f.data)
                u == [t EXCEPT !.adc_buf = @ \o f.data, !.pending_adc_bytes = left,
                               !.printed = IF left = 0 THEN t.adc_buf \o f.data ELSE @]
    <3>1. frame_cb(t, f) = u  BY <2>1, <2>3 DEF _adc_rx
    <3>. HIDE DEF left
    <3>. QED  BY <3>1 DEF Targets
  <2>. QED  BY <2>2, <2>3
<1>6. CASE f.family \notin {"E", "D", "A"}
  BY <1>6 DEF frame_cb
<1>. QED  BY <1>2, <1>3, <1>4, <1>5, <1>6

\* What was asked of dac_control.py
DacAsked(q) ==
    \E r \in DacRequests :
        /\ "configure" \in r.ops => Packable(DACConfigPacket, r.arg)
        /\ q = [kind |-> "dac", arg |-> r.arg, ops |-> r.ops]

\* The packets it may have queued
DacPacket(q, f) ==
    \/ f.family = "D" /\ f.type = "T"
    \/ f.family = "D" /\ f.type = "S" /\ "start" \in q.ops
    \/ "configure" \in q.ops /\ f = pack(DACConfigPacket, q.arg)

\* Is it accepted?
Accepts(q) ==
    /\ "configure" \in q.ops
    /\ q.arg.points_per_wave >= 4
    /\ (q.arg.points_per_wave * q.arg.num_waves) % WordMod >= q.arg.points_per_wave

\* The DAC d and its buffer buf as a configuration leaves them, but for d's being on.
Configured(q, d, buf) ==
    LET s == Synthesis(q.arg)
    IN  /\ d.buf = "eol_dac_buf" /\ d.npts = s.npts
        /\ d.timer = timer_setup_adcdac("TIM2", q.arg.prescaler, q.arg.period)
        /\ \A i \in 1 .. s.npts : buf[i] = s.wave[i]

\* A packet that leaves the DAC off
Offing(q, f) == f.type = "T" \/ (f.type = "C" /\ Accepts(q))

\* The packets rest are enough to get from d and buf to what was asked for.
DacQueue(q, rest, d, buf) ==
    /\ rest \in Seq(Sendable)
    /\ \A i \in 1 .. Len(rest) : DacPacket(q, rest[i])
    /\ "start" \in q.ops =>
         IF Len(rest) = 0 THEN d.on ELSE rest[Len(rest)].type = "S"
    /\ "start" \notin q.ops /\ ("stop" \in q.ops \/ Accepts(q)) /\ d.on =>
         \E i \in 1 .. Len(rest) : Offing(q, rest[i])
    /\ Accepts(q) =>
         Configured(q, d, buf) \/ \E i \in 1 .. Len(rest) : rest[i].type = "C"

DacBusy ==
    /\ script \in {"dac", "none"} /\ (script = "none" => todo = << >>)
    /\ tgt.pending_frames = << >> /\ ~sending_digit
    /\ DacAsked(asked) /\ DacQueue(asked, down \o todo, dac, eol_dac_buf)

DacInv == clean /\ asked.kind = "dac" => DacBusy

\* An accepted configuration
LEMMA AcceptedOkay ==
    ASSUME NEW q, DacAsked(q), Accepts(q)
    PROVE  LET s == Synthesis(q.arg)
               w == SineRequest(q.arg)
           IN  /\ s.res = "OKAY" /\ Len(s.wave) = s.npts /\ s.npts > 0
               /\ s.npts = (q.arg.points_per_wave * q.arg.num_waves) % WordMod
               /\ LET theta == Angles(w.theta0, ToFloat(4 * COS_THETA0, q.arg.points_per_wave), s.npts)
                  IN  \A i \in 1 .. s.npts : s.wave[i] = sin_gen_sin(theta[i - 1], q.arg.scale)
               /\ w.theta0 = ToFloat(4 * COS_THETA0 * q.arg.theta0_u8, ByteMod)
<1>1. PICK r \in DacRequests :
        /\ "configure" \in r.ops => Packable(DACConfigPacket, r.arg)
        /\ q = [kind |-> "dac", arg |-> r.arg, ops |-> r.ops]
  BY DEF DacAsked
<1>. DEFINE a    == q.arg
            npts == (a.points_per_wave * a.num_waves) % WordMod
            p    == sin_gen_populate(npts, 1, a.points_per_wave)
            w    == SineRequest(a)
            f    == sin_gen_generate_fill(w)
<1>2. a \in DacArguments
  BY <1>1, DacSound DEF Accepts
<1>3. a.points_per_wave \in Nat /\ a.points_per_wave >= 4 /\ npts >= a.points_per_wave
  BY <1>2, WordFacts DEF DacArguments, Accepts
<1>. HIDE DEF a
<1>4. /\ npts \in Nat /\ npts > 0
      /\ w.buflen = npts /\ w.f_tone = 1 /\ w.f_sample = a.points_per_wave
      /\ w.scale = a.scale /\ w.theta0 = ToFloat(4 * COS_THETA0 * a.theta0_u8, ByteMod)
  <2>1. /\ npts \in 0 .. WordMod - 1
        /\ w.buflen = npts /\ w.f_tone = 1 /\ w.f_sample = a.points_per_wave
        /\ w.scale = a.scale /\ w.theta0 = ToFloat(4 * COS_THETA0 * a.theta0_u8, ByteMod)
    BY <1>2, SineRequested
  <2>. HIDE DEF npts, w
  <2>2. npts \in Nat  BY <2>1
  <2>. QED  BY <1>3, <2>1, <2>2
<1>5. /\ Synthesis(a).npts = npts
      /\ Synthesis(a).res = IF p.res = "OKAY" THEN f.res ELSE p.res
      /\ Synthesis(a).wave = IF p.res = "OKAY" THEN f.wave ELSE << >>
  BY DEF Synthesis, SineRequest
<1>. HIDE DEF npts, w
<1>6. p.res = "OKAY"  BY <1>3, <1>4 DEF sin_gen_populate
<1>8. f = sin_gen_fulfill(w, 0)
  <2>. DEFINE half == w.f_sample \div 2
  <2>1. half \in Nat /\ half > 1  BY <1>3, <1>4
  <2>2. ~(w.f_tone >= half)  BY <1>4, <2>1
  <2>. HIDE DEF half
  <2>3. 0 \notin {w.buflen, w.f_tone, w.f_sample}  BY <1>3, <1>4
  <2>4. sin_gen_qualify(w) = "OKAY"  BY <2>2, <2>3 DEF sin_gen_qualify, half
  <2>. QED  BY <2>4 DEF sin_gen_generate_fill
<1>. DEFINE theta == Angles(w.theta0, ToFloat(4 * COS_THETA0, a.points_per_wave), npts)
            At(i) == sin_gen_sin(theta[i - 1], w.scale)
<1>9. /\ f.res = "OKAY" /\ Len(f.wave) = npts
      /\ \A i \in 1 .. npts : f.wave[i] = At(i)
  <2>1. SamplesPerWave(w) = a.points_per_wave
    BY <1>3, <1>4 DEF SamplesPerWave
  <2>2. ResultLen(w, 0) = npts
    BY <1>4 DEF ResultLen
  <2>3. f.res = "OKAY"
    BY <1>3, <1>4, <1>8, <2>1 DEF sin_gen_fulfill
  <2>4. f.wave = [i \in 1 .. npts |-> At(i)]
    BY <1>8, <2>1, <2>2 DEF sin_gen_fulfill
  <2>. HIDE DEF At
  <2>5. Len(f.wave) = npts  BY <1>4, <2>4
  <2>. QED  BY <2>3, <2>4, <2>5
<1>. HIDE DEF p, theta
<1>10. /\ Synthesis(a).res = "OKAY" /\ Len(Synthesis(a).wave) = Synthesis(a).npts
       /\ Synthesis(a).npts > 0 /\ Synthesis(a).npts = npts
       /\ \A i \in 1 .. npts : Synthesis(a).wave[i] = sin_gen_sin(theta[i - 1], a.scale)
  BY <1>4, <1>5, <1>6, <1>8, <1>9
<1>. QED  BY <1>4, <1>10 DEF a, npts, w, theta

\* What is written over a buffer is found there.
LEMMA OverPrefix ==
    ASSUME NEW V, NEW buf \in Seq(V), NEW s \in Seq(V), Len(s) <= Len(buf)
    PROVE  \A i \in 1 .. Len(s) : Over(buf, s)[i] = s[i]
<1>. DEFINE l == SubSeq(s, 1, Len(s))
            r == SubSeq(buf, Len(s) + 1, Len(buf))
<1>1. Min2(Len(s), Len(buf)) = Len(s)  BY DEF Min2
<1>2. l \in Seq(V) /\ r \in Seq(V) /\ Len(l) = Len(s) /\ \A i \in 1 .. Len(s) : l[i] = s[i]
  OBVIOUS
<1>3. Over(buf, s) = l \o r  BY <1>1, Zenon DEF Over
<1>. HIDE DEF l, r
<1>4. \A i \in 1 .. Len(l) : (l \o r)[i] = l[i]  BY <1>2
<1>. QED  BY <1>2, <1>3, <1>4

\* What is asked for can be packed, and its packets be told apart.
LEMMA DacAskedSound ==
    ASSUME NEW q, DacAsked(q), "configure" \in q.ops
    PROVE  /\ q.arg \in DacArguments
           /\ (q.arg.points_per_wave * q.arg.num_waves) % WordMod <= DacBufLen
           /\ pack(DACConfigPacket, q.arg).family = "D" /\ pack(DACConfigPacket, q.arg).type = "C"
           /\ DacRequest(pack(DACConfigPacket, q.arg).data) = q.arg
<1>1. PICK r \in DacRequests :
        /\ "configure" \in r.ops => Packable(DACConfigPacket, r.arg)
        /\ q = [kind |-> "dac", arg |-> r.arg, ops |-> r.ops]
  BY DEF DacAsked
<1>. DEFINE a == q.arg
<1>2. a \in DacArguments /\ (a.points_per_wave * a.num_waves) % WordMod <= DacBufLen
  BY <1>1, DacSound
<1>. HIDE DEF a
<1>3. DacRequest(pack(DACConfigPacket, a).data) = a  BY <1>2, DacUnpacked, Zenon
<1>4. pack(DACConfigPacket, a).family = "D" /\ pack(DACConfigPacket, a).type = "C"
  BY DEF pack, DACConfigPacket
<1>. QED  BY <1>2, <1>3, <1>4 DEF a

\* The first entry and the others
LEMMA Rest ==
    ASSUME NEW V, NEW s \in Seq(V), s # << >>
    PROVE  /\ Head(s) = s[1] /\ Tail(s) \in Seq(V) /\ Len(s) \in Nat /\ Len(s) > 0
           /\ Len(Tail(s)) = Len(s) - 1
           /\ \A i \in 1 .. Len(Tail(s)) : i + 1 \in 1 .. Len(s) /\ Tail(s)[i] = s[i + 1]
           /\ \A i \in 1 .. Len(s) : i = 1 \/ (i - 1 \in 1 .. Len(Tail(s)) /\ Tail(s)[i - 1] = s[i])
  OBVIOUS

\* What DacConfigure does with arguments from which it makes s
Reconfigures(s, d, buf, d2, buf2) ==
    /\ buf2 = Over(buf, s.wave)
    /\ \/ /\ s.res = "OKAY"
          /\ d2 = dac_setup(s.prescaler, s.period, "eol_dac_buf", s.npts)
       \/ s.res # "OKAY" /\ d2 = d

\* What a packet of a sound configuration does to the DAC
LEMMA Reconfigured ==
    ASSUME NEW q, DacAsked(q), "configure" \in q.ops, NEW d, NEW buf \in Seq(Int),
           Len(buf) = DacBufLen, NEW d2, NEW buf2,
           Reconfigures(Synthesis(q.arg), d, buf, d2, buf2)
    PROVE  /\ d2.on => d2 = d
           /\ Accepts(q) => ~d2.on /\ Configured(q, d2, buf2)
<1>. DEFINE s == Synthesis(q.arg)
            a == q.arg
<1>1. a \in DacArguments /\ (a.points_per_wave * a.num_waves) % WordMod <= DacBufLen
  BY DacAskedSound
<1>2. /\ s.npts \in 0 .. DacBufLen /\ s.wave \in Seq(0 .. 254)
      /\ s.prescaler = a.prescaler /\ s.period = a.period
  <2>. HIDE DEF a
  <2>. QED  BY <1>1, SynthesisTyped DEF a
<1>3. a.prescaler \in Nat /\ a.period \in Nat
  <2>1. a.prescaler \in 0 .. WordMod - 1 /\ a.period \in 0 .. WordMod * WordMod - 1
    BY <1>1 DEF DacArguments
  <2>. HIDE DEF a
  <2>. QED  BY <2>1
<1>. DEFINE n == dac_setup(s.prescaler, s.period, "eol_dac_buf", s.npts)
<1>4. /\ n.on = FALSE /\ n.buf = "eol_dac_buf" /\ n.npts = s.npts
      /\ n.timer = timer_setup_adcdac("TIM2", a.prescaler, a.period)
  <2>. HIDE DEF a, s
  <2>1. /\ s.prescaler \in Nat /\ s.period \in Nat
        /\ "eol_dac_buf" \in {"dac_buf", "eol_dac_buf"}
    BY <1>2, <1>3
  <2>2. n.timer = timer_setup_adcdac("TIM2", s.prescaler, s.period)
    BY DEF dac_setup
  <2>3. n.on = FALSE /\ n.buf = "eol_dac_buf" /\ n.npts = s.npts
    BY DEF dac_setup
  <2>. HIDE DEF n
  <2>. QED  BY <1>2, <2>2, <2>3
<1>5. d2.on => d2 = d
  <2>1. d2 = n \/ d2 = d  BY DEF s, Reconfigures
  <2>. HIDE DEF n
  <2>. QED  BY <1>4, <2>1
<1>6. ASSUME Accepts(q) PROVE ~d2.on /\ Configured(q, d2, buf2)
  <2>1. s.res = "OKAY" /\ Len(s.wave) = s.npts  BY <1>6, AcceptedOkay
  <2>2. d2 = n /\ buf2 = Over(buf, s.wave)  BY <2>1 DEF Reconfigures
  <2>. HIDE DEF n, s
  <2>3. s.wave \in Seq(Int)
    BY <1>2, PointsAreInts
  <2>4. Len(s.wave) <= Len(buf)  BY <1>2, <2>1
  <2>5. \A i \in 1 .. s.npts : buf2[i] = s.wave[i]
    BY <2>1, <2>2, <2>3, <2>4, OverPrefix
  <2>. QED  BY <1>4, <2>2, <2>5 DEF Configured, s, a
<1>. QED  BY <1>5, <1>6

\* Obeying the first packet that is left gets nearer.
LEMMA DacObeyed ==
    ASSUME NEW q, DacAsked(q), NEW rest, NEW d \in Dacs, NEW buf \in Seq(Int),
           Len(buf) = DacBufLen, DacQueue(q, rest, d, buf), rest # << >>,
           NEW d2, NEW buf2, NEW f, f = Head(rest),
           \/ f.type = "S" /\ d2 = [d EXCEPT !.on = TRUE] /\ buf2 = buf
           \/ f.type = "T" /\ d2 = [d EXCEPT !.on = FALSE] /\ buf2 = buf
           \/ f.type = "C" /\ Reconfigures(Synthesis(DacRequest(f.data)), d, buf, d2, buf2)
    PROVE  DacQueue(q, Tail(rest), d2, buf2)
<1>. DEFINE t == Tail(rest)
            n == Len(rest)
            m == Len(t)
<1>1. /\ f = rest[1] /\ t \in Seq(Sendable) /\ n \in Nat /\ n > 0 /\ m = n - 1
      /\ \A i \in 1 .. m : i + 1 \in 1 .. n /\ t[i] = rest[i + 1]
      /\ \A i \in 1 .. n : i = 1 \/ (i - 1 \in 1 .. m /\ t[i - 1] = rest[i])
  <2>1. rest \in Seq(Sendable)  BY DEF DacQueue
  <2>. QED  BY <2>1, Rest
<1>2. /\ \A i \in 1 .. n : DacPacket(q, rest[i])
      /\ "start" \in q.ops => rest[n].type = "S"
      /\ "start" \notin q.ops /\ ("stop" \in q.ops \/ Accepts(q)) /\ d.on =>
           \E i \in 1 .. n : Offing(q, rest[i])
      /\ Accepts(q) => Configured(q, d, buf) \/ \E i \in 1 .. n : rest[i].type = "C"
  BY <1>1 DEF DacQueue
<1>. HIDE DEF t, n, m
<1>3. DacPacket(q, f)  BY <1>1, <1>2
<1>4. \A i \in 1 .. m : DacPacket(q, t[i])  BY <1>1, <1>2
<1>5. f.type = "C" => /\ "configure" \in q.ops
                      /\ d2.on => d2 = d
                      /\ Accepts(q) => ~d2.on /\ Configured(q, d2, buf2)
  <2>. SUFFICES ASSUME f.type = "C"
                PROVE  /\ "configure" \in q.ops
                       /\ d2.on => d2 = d
                       /\ Accepts(q) => ~d2.on /\ Configured(q, d2, buf2)
    OBVIOUS
  <2>1. "configure" \in q.ops /\ f = pack(DACConfigPacket, q.arg)  BY <1>3 DEF DacPacket
  <2>2. DacRequest(f.data) = q.arg  BY <2>1, DacAskedSound
  <2>. QED  BY <2>1, <2>2, Reconfigured
<1>6. f.type # "C" => d2.buf = d.buf /\ d2.npts = d.npts /\ d2.timer = d.timer /\ buf2 = buf
  BY DEF Dacs
<1>7. /\ f.type = "S" => d2.on
      /\ f.type = "T" => ~d2.on
  BY DEF Dacs
<1>8. "start" \in q.ops => IF m = 0 THEN d2.on ELSE t[m].type = "S"
  <2>. SUFFICES ASSUME "start" \in q.ops PROVE IF m = 0 THEN d2.on ELSE t[m].type = "S"
    OBVIOUS
  <2>1. rest[n].type = "S"  BY <1>2
  <2>2. CASE m = 0  BY <1>1, <1>7, <2>1, <2>2
  <2>3. CASE m # 0  BY <1>1, <2>1, <2>3
  <2>. QED  BY <2>2, <2>3
<1>9. "start" \notin q.ops /\ ("stop" \in q.ops \/ Accepts(q)) /\ d2.on =>
        \E i \in 1 .. m : Offing(q, t[i])
  <2>. SUFFICES ASSUME "start" \notin q.ops, "stop" \in q.ops \/ Accepts(q), d2.on
                PROVE  \E i \in 1 .. m : Offing(q, t[i])
    OBVIOUS
  <2>1. f.type = "C" /\ d2 = d /\ ~Accepts(q)
    <3>1. f.type = "T" \/ f.type = "C"  BY <1>3, DacAskedSound DEF DacPacket
    <3>. QED  BY <1>5, <1>7, <3>1
  <2>2. PICK i \in 1 .. n : Offing(q, rest[i])  BY <1>2, <2>1
  <2>3. i # 1  BY <1>1, <2>1, <2>2 DEF Offing
  <2>. QED  BY <1>1, <2>2, <2>3
<1>10. Accepts(q) => Configured(q, d2, buf2) \/ \E i \in 1 .. m : t[i].type = "C"
  <2>. SUFFICES ASSUME Accepts(q), f.type # "C", ~\E i \in 1 .. m : t[i].type = "C"
                PROVE  Configured(q, d2, buf2)
    BY <1>5
  <2>1. ~\E i \in 1 .. n : rest[i].type = "C"  BY <1>1, SMTT(30)
  <2>2. Configured(q, d, buf)  BY <1>2, <2>1
  <2>. QED  BY <1>6, <2>2 DEF Configured
<1>. QED  BY <1>1, <1>4, <1>8, <1>9, <1>10 DEF DacQueue, t, m

\* An entry that moves from one queue to the next stays in its place.
LEMMA MovedOver ==
    ASSUME NEW V, NEW a \in Seq(V), NEW b \in Seq(V), b # << >>
    PROVE  Append(a, Head(b)) \o Tail(b) = a \o b
<1>1. b = <<Head(b)>> \o Tail(b)  OBVIOUS
<1>2. ASSUME NEW h \in V, NEW t \in Seq(V) PROVE Append(a, h) \o t = a \o (<<h>> \o t)
  OBVIOUS
<1>3. Head(b) \in V /\ Tail(b) \in Seq(V)  BY Popped
<1>4. Append(a, Head(b)) \o Tail(b) = a \o (<<Head(b)>> \o Tail(b))  BY <1>2, <1>3, Zenon
<1>. QED  BY <1>1, <1>4, Zenon

\* The first entry of two queues is the first one's.
LEMMA HeadJoined ==
    ASSUME NEW V, NEW a \in Seq(V), NEW b \in Seq(V), a # << >>
    PROVE  /\ a \o b # << >> /\ Head(a \o b) = Head(a) /\ Tail(a \o b) = Tail(a) \o b
  OBVIOUS

\* A turn of dac_control.py moves a packet from todo to the line.
LEMMA DacTurn ==
    ASSUME EolInv, DacInv, NEW arrived \in BOOLEAN, Turn(arrived) PROVE DacInv'
<1>. SUFFICES ASSUME clean', asked'.kind = "dac" PROVE DacBusy'
  BY DEF DacInv
<1>1. UNCHANGED <<boardVars, script, asked, started, clean, trouble>>  BY DEF Turn
<1>2. DacBusy /\ UNCHANGED <<dac, eol_dac_buf, sending_digit>>
  BY <1>1 DEF DacInv, boardVars, dacVars
<1>3. /\ script = "dac" /\ todo # << >> /\ todo' = Tail(todo)
      /\ Poll(enqueue(tgt, Head(todo)), arrived)
  BY <1>2 DEF Turn, DacBusy
<1>. DEFINE h == Head(todo)
            t == enqueue(tgt, h)
            heard == IF arrived THEN frame_cb(t, Head(up)) ELSE t
<1>4. h \in Sendable /\ todo \in Seq(Sendable) /\ down \in Seq(Sendable) /\ tgt \in Targets
  BY <1>3, Popped DEF EolInv, TypeInv, BoardType, LineType, TetherType
<1>5. t \in Targets /\ t.pending_frames = Append(<< >>, h)
  BY <1>2, <1>4, EnqueueTyped DEF DacBusy
<1>6. arrived => Head(up) \in Replies
  <2>1. arrived => up # << >>  BY <1>3 DEF Poll
  <2>. QED  BY <2>1, Popped DEF EolInv, TypeInv, BoardType, LineType
<1>. HIDE DEF t
<1>7. heard.pending_frames = Append(<< >>, h) /\ heard \in Targets
  <2>1. arrived => frame_cb(t, Head(up)).pending_frames = t.pending_frames
    BY <1>5, <1>6, RepliesAreNotAnswered
  <2>2. arrived => Head(up) \in Messages  BY <1>6 DEF Replies
  <2>3. heard \in Targets  BY <1>5, <2>2, FrameTyped
  <2>. QED  BY <1>5, <2>1, <2>3
<1>8. \/ heard.pending_frames = << >>
      \/ /\ down' = Append(down, Head(heard.pending_frames))
         /\ tgt' = [heard EXCEPT !.pending_frames = Tail(@)]
  BY <1>3 DEF Poll, t
<1>. HIDE DEF heard
<1>9. down' = Append(down, h) /\ tgt'.pending_frames = << >>
  <2>1. ASSUME NEW V, NEW v \in V
        PROVE  Append(<< >>, v) # << >> /\ Head(Append(<< >>, v)) = v /\ Tail(Append(<< >>, v)) = << >>
    OBVIOUS
  <2>. DEFINE e == Append(<< >>, h)
  <2>2. e # << >> /\ Head(e) = h /\ Tail(e) = << >>  BY <1>4, <2>1
  <2>. HIDE DEF e
  <2>3. down' = Append(down, Head(e)) /\ tgt' = [heard EXCEPT !.pending_frames = Tail(e)]
    BY <1>7, <1>8, <2>2 DEF e
  <2>4. tgt'.pending_frames = Tail(e)  BY <1>7, <2>3 DEF Targets
  <2>. QED  BY <2>2, <2>3, <2>4
<1>10. down' \o todo' = down \o todo
  BY <1>3, <1>4, <1>9, MovedOver
<1>. QED  BY <1>1, <1>2, <1>3, <1>9, <1>10 DEF DacBusy

\* A request of dac_control.py's is obeyed.
LEMMA DacHandled ==
    ASSUME EolInv, DacInv, Handle, UNCHANGED <<tether, clean, trouble>> PROVE DacInv'
<1>. SUFFICES ASSUME clean', asked'.kind = "dac" PROVE DacBusy'
  BY DEF DacInv
<1>1. UNCHANGED <<script, tgt, todo, asked>>  BY DEF tether
<1>2. DacBusy /\ DacAsked(asked) /\ DacQueue(asked, down \o todo, dac, eol_dac_buf)
  BY <1>1 DEF DacInv, DacBusy
<1>. DEFINE f == Head(down)
            rest == down \o todo
<1>3. /\ todo \in Seq(Sendable) /\ down \in Seq(Sendable) /\ dac \in Dacs
      /\ eol_dac_buf \in Seq(Int) /\ Len(eol_dac_buf) = DacBufLen
  BY DEF EolInv, TypeInv, BoardType, LineType, TetherType, DacType
<1>4. down # << >>
  BY DEF Handle, EchoQuery, EchoTable, LoggingControl, ResetRequest, DacConfigure, DacStart,
         DacStop, AdcCapture, AdcOther, Unknown, Takes
<1>5. /\ rest # << >> /\ f = Head(rest) /\ Tail(rest) = Tail(down) \o todo
  BY <1>3, <1>4, HeadJoined
<1>6. DacPacket(asked, f)
  <2>1. rest \in Seq(Sendable) /\ \A i \in 1 .. Len(rest) : DacPacket(asked, rest[i])
    BY <1>2 DEF DacQueue
  <2>. HIDE DEF rest, f
  <2>2. f = rest[1] /\ Len(rest) \in Nat /\ Len(rest) > 0  BY <1>5, <2>1, Rest
  <2>. QED  BY <2>1, <2>2
<1>7. f.family = "D" /\ f.type \in {"T", "S", "C"}
  <2>1. CASE "configure" \in asked.ops /\ f = pack(DACConfigPacket, asked.arg)
    BY <1>2, <2>1, DacAskedSound
  <2>. QED  BY <1>6, <2>1 DEF DacPacket
<1>. HIDE DEF f, rest
<1>8. DacConfigure \/ DacStart \/ DacStop
  <2>1. Request = f  BY DEF Request, f
  <2>2. ~EchoQuery /\ ~EchoTable /\ ~LoggingControl /\ ~ResetRequest /\ ~AdcCapture
    BY <1>7, <2>1 DEF EchoQuery, EchoTable, LoggingControl, ResetRequest, AdcCapture, Takes
  <2>3. ~Unknown /\ ~AdcOther  BY <1>7, <2>1 DEF Unknown, Known, AdcOther
  <2>. QED  BY <2>2, <2>3, Zenon DEF Handle
<1>9. /\ \/ f.type = "S" /\ dac' = [dac EXCEPT !.on = TRUE] /\ eol_dac_buf' = eol_dac_buf
         \/ f.type = "T" /\ dac' = [dac EXCEPT !.on = FALSE] /\ eol_dac_buf' = eol_dac_buf
         \/ /\ f.type = "C"
            /\ Reconfigures(Synthesis(DacRequest(f.data)), dac, eol_dac_buf, dac', eol_dac_buf')
      /\ down' = Tail(down) /\ sending_digit' = sending_digit
  <2>1. Request = f  BY DEF Request, f
  <2>2. CASE DacStart  BY <2>1, <2>2 DEF DacStart, Takes
  <2>3. CASE DacStop  BY <2>1, <2>3 DEF DacStop, Takes
  <2>4. CASE DacConfigure
    <3>. DEFINE s == Synthesis(DacRequest(f.data))
    <3>1. /\ eol_dac_buf' = Over(eol_dac_buf, s.wave)
          /\ \/ s.res = "OKAY" /\ dac' = dac_setup(s.prescaler, s.period, "eol_dac_buf", s.npts)
             \/ s.res # "OKAY" /\ UNCHANGED dac
      BY <2>1, <2>4 DEF DacConfigure
    <3>2. f.type = "C" /\ down' = Tail(down) /\ sending_digit' = sending_digit
      BY <2>1, <2>4 DEF DacConfigure, Takes
    <3>. HIDE DEF s
    <3>3. Reconfigures(s, dac, eol_dac_buf, dac', eol_dac_buf')
      BY <3>1 DEF Reconfigures
    <3>. QED  BY <3>2, <3>3 DEF s
  <2>. QED  BY <1>8, <2>2, <2>3, <2>4
<1>10. DacQueue(asked, Tail(rest), dac', eol_dac_buf')
  BY <1>2, <1>3, <1>5, <1>9, DacObeyed DEF rest
<1>11. DacQueue(asked', down' \o todo', dac', eol_dac_buf')
  BY <1>1, <1>5, <1>9, <1>10
<1>. QED  BY <1>1, <1>2, <1>9, <1>11 DEF DacBusy

\* At most one packet of each of three kinds, one after the other
ThreeParts(V, s, a, b, c) ==
    /\ s \in Seq(V)
    /\ \A i \in 1 .. Len(s) :
          \/ \E j \in 1 .. Len(a) : s[i] = a[j]
          \/ \E j \in 1 .. Len(b) : s[i] = b[j]
          \/ \E j \in 1 .. Len(c) : s[i] = c[j]
    /\ \A j \in 1 .. Len(a) : \E i \in 1 .. Len(s) : s[i] = a[j]
    /\ \A j \in 1 .. Len(b) : \E i \in 1 .. Len(s) : s[i] = b[j]
    /\ Len(c) > 0 => Len(s) > 0 /\ s[Len(s)] = c[Len(c)]

TwoParts(V, s, a, b) ==
    /\ s \in Seq(V)
    /\ \A i \in 1 .. Len(s) : (\E j \in 1 .. Len(a) : s[i] = a[j])
                              \/ (\E j \in 1 .. Len(b) : s[i] = b[j])
    /\ \A j \in 1 .. Len(a) : \E i \in 1 .. Len(s) : s[i] = a[j]
    /\ \A j \in 1 .. Len(b) : \E i \in 1 .. Len(s) : s[i] = b[j]
    /\ Len(b) > 0 => Len(s) > 0 /\ s[Len(s)] = b[Len(b)]

\* Two queues joined have the entries of both, and the last of the second.
LEMMA Twofold ==
    ASSUME NEW V, NEW a \in Seq(V), NEW b \in Seq(V)
    PROVE  TwoParts(V, a \o b, a, b)
<1>1. /\ a \o b \in Seq(V) /\ Len(a \o b) = Len(a) + Len(b) /\ Len(a) \in Nat /\ Len(b) \in Nat
      /\ \A i \in 1 .. Len(a) + Len(b) : (a \o b)[i] = IF i <= Len(a) THEN a[i] ELSE b[i - Len(a)]
  OBVIOUS
<1>. DEFINE s == a \o b
            n == Len(a)
            m == Len(b)
<1>. HIDE DEF s, n, m
<1>2. /\ s \in Seq(V) /\ Len(s) = n + m /\ n \in Nat /\ m \in Nat
      /\ \A i \in 1 .. n + m : s[i] = IF i <= n THEN a[i] ELSE b[i - n]
  BY <1>1 DEF s, n, m
<1>3. \A i \in 1 .. Len(s) : (\E j \in 1 .. n : s[i] = a[j]) \/ (\E j \in 1 .. m : s[i] = b[j])
  <2>. SUFFICES ASSUME NEW i \in 1 .. Len(s)
                PROVE  (\E j \in 1 .. n : s[i] = a[j]) \/ (\E j \in 1 .. m : s[i] = b[j])
    OBVIOUS
  <2>1. CASE i <= n
    <3>1. i \in 1 .. n /\ s[i] = a[i]  BY <1>2, <2>1
    <3>. QED  BY <3>1
  <2>2. CASE i > n
    <3>1. i - n \in 1 .. m /\ s[i] = b[i - n]  BY <1>2, <2>2
    <3>. QED  BY <3>1
  <2>. QED  BY <1>2, <2>1, <2>2
<1>4. \A j \in 1 .. n : j \in 1 .. Len(s) /\ s[j] = a[j]  BY <1>2
<1>5. \A j \in 1 .. m : n + j \in 1 .. Len(s) /\ s[n + j] = b[j]
  <2>. SUFFICES ASSUME NEW j \in 1 .. m PROVE n + j \in 1 .. Len(s) /\ s[n + j] = b[j]
    OBVIOUS
  <2>1. n + j \in 1 .. n + m /\ ~(n + j <= n) /\ (n + j) - n = j  BY <1>2
  <2>. QED  BY <1>2, <2>1
<1>6. m > 0 => s[Len(s)] = b[m]  BY <1>2, <1>5
<1>7. m > 0 => Len(s) > 0  BY <1>2
<1>8. TwoParts(V, s, a, b)
  BY <1>2, <1>3, <1>4, <1>5, <1>6, <1>7 DEF TwoParts, n, m
<1>. QED  BY <1>8 DEF s

\* The same for three
LEMMA Threefold ==
    ASSUME NEW V, NEW a \in Seq(V), NEW b \in Seq(V), NEW c \in Seq(V)
    PROVE  ThreeParts(V, (a \o b) \o c, a, b, c)
<1>. DEFINE e == a \o b
            s == e \o c
<1>1. TwoParts(V, e, a, b) /\ e \in Seq(V)
  <2>1. TwoParts(V, e, a, b)  BY Twofold
  <2>. HIDE DEF e
  <2>. QED  BY <2>1 DEF TwoParts
<1>. HIDE DEF e
<1>2. TwoParts(V, s, e, c)  BY <1>1, Twofold
<1>. HIDE DEF s
<1>3. s \in Seq(V) /\ (Len(c) > 0 => Len(s) > 0 /\ s[Len(s)] = c[Len(c)])
  BY <1>2 DEF TwoParts
<1>5. ASSUME NEW i \in 1 .. Len(s)
      PROVE  \/ \E j \in 1 .. Len(a) : s[i] = a[j]
             \/ \E j \in 1 .. Len(b) : s[i] = b[j]
             \/ \E j \in 1 .. Len(c) : s[i] = c[j]
  <2>1. CASE \E j \in 1 .. Len(e) : s[i] = e[j]
    <3>1. PICK j \in 1 .. Len(e) : s[i] = e[j]  BY <2>1
    <3>2. (\E k \in 1 .. Len(a) : e[j] = a[k]) \/ (\E k \in 1 .. Len(b) : e[j] = b[k])
      BY <1>1 DEF TwoParts
    <3>. QED  BY <3>1, <3>2
  <2>. QED  BY <1>2, <2>1 DEF TwoParts
<1>6. ASSUME NEW x, \E j \in 1 .. Len(e) : e[j] = x PROVE \E i \in 1 .. Len(s) : s[i] = x
  BY <1>2, <1>6 DEF TwoParts
<1>8. /\ \A j \in 1 .. Len(a) : \E i \in 1 .. Len(s) : s[i] = a[j]
      /\ \A j \in 1 .. Len(b) : \E i \in 1 .. Len(s) : s[i] = b[j]
  BY <1>1, <1>6 DEF TwoParts
<1>7. ThreeParts(V, s, a, b, c)  
  <2>1. \A i \in 1 .. Len(s) :
          \/ \E j \in 1 .. Len(a) : s[i] = a[j]
          \/ \E j \in 1 .. Len(b) : s[i] = b[j]
          \/ \E j \in 1 .. Len(c) : s[i] = c[j]
    BY <1>5, Zenon
  <2>. QED  BY <1>3, <1>8, <2>1, Zenon DEF ThreeParts
<1>. QED  BY <1>7 DEF s, e

\* The packets dac_control.py is about to send are enough, whatever the DAC is doing.
LEMMA DacPacketsQueue ==
    ASSUME NEW r \in DacRequests, "configure" \in r.ops => Packable(DACConfigPacket, r.arg),
           NEW d, NEW buf
    PROVE  DacQueue([kind |-> "dac", arg |-> r.arg, ops |-> r.ops],
                    Append(DacPackets(r), Last(DacPackets(r))), d, buf)
<1>. DEFINE a == IF "stop" \in r.ops THEN <<pack(DACStopPacket, r.arg)>> ELSE << >>
            b == IF "configure" \in r.ops THEN <<pack(DACConfigPacket, r.arg)>> ELSE << >>
            c == IF "start" \in r.ops THEN <<pack(DACStartPacket, r.arg)>> ELSE << >>
            q == [kind |-> "dac", arg |-> r.arg, ops |-> r.ops]
            T == pack(DACStopPacket, r.arg)
            C == pack(DACConfigPacket, r.arg)
            S == pack(DACStartPacket, r.arg)
            p == DacPackets(r)
            rest == Append(p, Last(p))
<1>1. ASSUME NEW f \in Sendable
      PROVE  <<f>> \in Seq(Sendable) /\ Len(<<f>>) = 1 /\ <<f>>[1] = f
  OBVIOUS
<1>2. << >> \in Seq(Sendable) /\ Len(<< >>) = 0  OBVIOUS
<1>3. /\ T \in Sendable /\ T.family = "D" /\ T.type = "T"
      /\ S \in Sendable /\ S.family = "D" /\ S.type = "S"
      /\ "configure" \in r.ops => C \in Sendable /\ C.type = "C"
  <2>1. DACStopPacket.type = "T" /\ DACStartPacket.type = "S"
    BY DEF DACStopPacket, DACStartPacket
  <2>2. "configure" \in r.ops => C \in Sendable  BY DacPacked
  <2>3. C.type = "C"  BY DEF pack, DACConfigPacket
  <2>. QED  BY <2>1, <2>2, <2>3, PlainPacked
<1>. HIDE DEF T, C, S
<1>4. /\ a \in Seq(Sendable) /\ ("stop" \in r.ops => Len(a) = 1 /\ a[1] = T)
      /\ ("stop" \notin r.ops => Len(a) = 0)
  BY <1>1, <1>2, <1>3, Zenon DEF T
<1>5. /\ b \in Seq(Sendable) /\ ("configure" \in r.ops => Len(b) = 1 /\ b[1] = C)
      /\ ("configure" \notin r.ops => Len(b) = 0)
  BY <1>1, <1>2, <1>3, Zenon DEF C
<1>6. /\ c \in Seq(Sendable) /\ ("start" \in r.ops => Len(c) = 1 /\ c[1] = S)
      /\ ("start" \notin r.ops => Len(c) = 0)
  BY <1>1, <1>2, <1>3, Zenon DEF S
<1>7. p = (a \o b) \o c  BY Zenon DEF DacPackets
<1>. HIDE DEF a, b, c
<1>8. ThreeParts(Sendable, p, a, b, c)  BY <1>4, <1>5, <1>6, <1>7, Threefold, Zenon
<1>9. p # << >> /\ rest \in Seq(Sendable)  BY DacPacketsTyped
<1>. HIDE DEF p
<1>10. p \in Seq(Sendable) /\ Len(p) \in Nat /\ Len(p) > 0 /\ Last(p) = p[Len(p)]
  <2>1. p \in Seq(Sendable)  BY <1>8 DEF ThreeParts
  <2>. QED  BY <1>9, <2>1, Rest DEF Last
<1>11. /\ Len(rest) = Len(p) + 1 /\ rest[Len(rest)] = p[Len(p)]
       /\ \A i \in 1 .. Len(p) : i \in 1 .. Len(rest) /\ rest[i] = p[i]
       /\ \A i \in 1 .. Len(rest) : \E j \in 1 .. Len(p) : rest[i] = p[j]
  <2>1. ASSUME NEW V, NEW s \in Seq(V), NEW v \in V
        PROVE  /\ Len(Append(s, v)) = Len(s) + 1 /\ Append(s, v)[Len(s) + 1] = v
               /\ \A i \in 1 .. Len(s) : Append(s, v)[i] = s[i]
    OBVIOUS
  <2>. DEFINE n == Len(p)
              l == Last(p)
  <2>2. l = p[n] /\ n \in Nat /\ n > 0  BY <1>10
  <2>3. l \in Sendable  BY <1>10
  <2>. HIDE DEF l
  <2>4. Len(rest) = n + 1 /\ rest[n + 1] = l /\ \A i \in 1 .. n : rest[i] = p[i]
    BY <1>10, <2>1, <2>3 DEF l
  <2>. HIDE DEF n, rest
  <2>. QED  BY <2>2, <2>4 DEF n
<1>. HIDE DEF rest
<1>12. q.arg = r.arg /\ q.ops = r.ops  OBVIOUS
<1>. HIDE DEF q
<1>13. \A i \in 1 .. Len(p) : DacPacket(q, p[i])
  <2>. SUFFICES ASSUME NEW i \in 1 .. Len(p) PROVE DacPacket(q, p[i])
    OBVIOUS
  <2>1. CASE \E j \in 1 .. Len(a) : p[i] = a[j]
    <3>1. p[i] = T  BY <1>4, <2>1
    <3>. QED  BY <1>3, <3>1 DEF DacPacket
  <2>2. CASE \E j \in 1 .. Len(b) : p[i] = b[j]
    <3>1. "configure" \in r.ops /\ p[i] = C  BY <1>5, <2>2
    <3>. QED  BY <1>12, <3>1 DEF DacPacket, C
  <2>3. CASE \E j \in 1 .. Len(c) : p[i] = c[j]
    <3>1. "start" \in r.ops /\ p[i] = S  BY <1>6, <2>3
    <3>. QED  BY <1>3, <1>12, <3>1 DEF DacPacket
  <2>. QED  BY <1>8, <2>1, <2>2, <2>3, Zenon DEF ThreeParts
<1>14. \A i \in 1 .. Len(rest) : DacPacket(q, rest[i])  BY <1>11, <1>13
<1>15. "start" \in q.ops => IF Len(rest) = 0 THEN d.on ELSE rest[Len(rest)].type = "S"
  <2>0. "start" \in q.ops => Len(c) = 1 /\ c[1] = S  BY <1>6, <1>12
  <2>3. Len(c) > 0 => p[Len(p)] = c[Len(c)]  BY <1>8 DEF ThreeParts
  <2>4. "start" \in q.ops => p[Len(p)] = S  BY <2>0, <2>3
  <2>1. "start" \in q.ops => rest[Len(rest)].type = "S"
    BY <1>3, <1>11, <2>4
  <2>2. Len(rest) # 0  BY <1>10, <1>11
  <2>. QED  BY <2>1, <2>2
<1>16. \A f : (\E i \in 1 .. Len(p) : p[i] = f) => \E i \in 1 .. Len(rest) : rest[i] = f
  BY <1>11, Zenon
<1>17. "stop" \in q.ops => \E i \in 1 .. Len(rest) : rest[i].type = "T"
  <2>2. "stop" \in q.ops => 1 \in 1 .. Len(a) /\ a[1] = T  BY <1>4, <1>12
  <2>3. \A j \in 1 .. Len(a) : \E i \in 1 .. Len(p) : p[i] = a[j]  BY <1>8 DEF ThreeParts
  <2>1. "stop" \in q.ops => \E i \in 1 .. Len(p) : p[i] = T
    BY <2>2, <2>3
  <2>. QED  BY <1>3, <1>16, <2>1
<1>18. Accepts(q) => \E i \in 1 .. Len(rest) : rest[i].type = "C"
  <2>1. Accepts(q) => \E i \in 1 .. Len(p) : p[i] = C
    BY <1>5, <1>8, <1>12 DEF ThreeParts, Accepts
  <2>2. Accepts(q) => C.type = "C"  BY <1>3, <1>12 DEF Accepts
  <2>. QED  BY <1>16, <2>1, <2>2
<1>19. "stop" \in q.ops \/ Accepts(q) => \E i \in 1 .. Len(rest) : Offing(q, rest[i])
  BY <1>17, <1>18 DEF Offing
<1>20. DacQueue(q, rest, d, buf)
  BY <1>9, <1>14, <1>15, <1>18, <1>19 DEF DacQueue, rest
<1>. QED  BY <1>20 DEF q, rest, p

\* A script starts: dac_control.py with all its packets in todo, and an idle board.
LEMMA DacBegins ==
    ASSUME EolInv, NEW s, NEW what, Starts(s, what), s # "dac" => what.kind # "dac",
           s = "dac" => DacStarts
    PROVE  DacInv'
<1>. SUFFICES ASSUME clean', asked'.kind = "dac" PROVE DacBusy'
  BY DEF DacInv
<1>1. /\ script' = s /\ asked' = what /\ clean' = (Quiet /\ (s = "dac" => ~sending_digit))
      /\ UNCHANGED <<boardVars, down, trouble>>
  BY DEF Starts
<1>2. s = "dac" /\ script' = "dac"  BY <1>1
<1>3. PICK r \in DacRequests :
        /\ "configure" \in r.ops => Packable(DACConfigPacket, r.arg)
        /\ Starts("dac", [kind |-> "dac", arg |-> r.arg, ops |-> r.ops])
        /\ todo' = Append(DacPackets(r), Last(DacPackets(r)))
        /\ tgt' = NewTarget
  BY <1>2, Zenon DEF DacStarts, DacPackets
<1>. DEFINE q == [kind |-> "dac", arg |-> r.arg, ops |-> r.ops]
            p == DacPackets(r)
            rest == Append(p, Last(p))
<1>4. asked' = q  BY <1>3 DEF Starts
<1>5. DacAsked(q)  BY <1>3 DEF DacAsked
<1>6. clean' = (Quiet /\ ~sending_digit)  BY <1>1, <1>2
<1>7. down = << >> /\ ~sending_digit  BY <1>6 DEF Quiet
<1>8. UNCHANGED <<sending_digit, down>>  BY <1>1 DEF boardVars
<1>9. tgt'.pending_frames = << >>  BY <1>3 DEF NewTarget
<1>10. DacQueue(q, rest, dac', eol_dac_buf')
  BY <1>3, DacPacketsQueue
<1>11. down' \o todo' = rest
  <2>1. rest \in Seq(Sendable)  BY <1>3, DacPacketsTyped
  <2>2. todo' = rest /\ down' = << >>  BY <1>3, <1>7, <1>8
  <2>. HIDE DEF rest
  <2>. QED  BY <2>1, <2>2
<1>12. DacQueue(asked', down' \o todo', dac', eol_dac_buf')  BY <1>4, <1>10, <1>11
<1>. QED  BY <1>2, <1>4, <1>5, <1>7, <1>8, <1>9, <1>12 DEF DacBusy

\* A step that touches neither the DAC nor the script leaves what DacInv says.
LEMMA DacLeft ==
    ASSUME DacInv, clean' => clean,
           UNCHANGED <<script, todo, asked, down, dac, eol_dac_buf, sending_digit>>,
           tgt'.pending_frames = tgt.pending_frames
    PROVE  DacInv'
  BY DEF DacInv, DacBusy

\* dac_control.py ends once everything is sent.
LEMMA DacEnded ==
    ASSUME DacInv, Ends, clean' => clean /\ script # "none" /\ todo = << >>, UNCHANGED todo
    PROVE  DacInv'
<1>. SUFFICES ASSUME clean', asked'.kind = "dac" PROVE DacBusy'
  BY DEF DacInv
<1>1. /\ script' = "none" /\ tgt' = [NewTarget EXCEPT !.printed = tgt.printed]
      /\ UNCHANGED <<asked, down, dac, eol_dac_buf, sending_digit>>
  BY DEF Ends, boardVars, dacVars
<1>2. DacBusy /\ todo = << >>  BY <1>1 DEF DacInv
<1>3. tgt'.pending_frames = << >>  BY <1>1 DEF NewTarget
<1>. QED  BY <1>1, <1>2, <1>3 DEF DacBusy

\* The board's other steps
LEMMA DacSpared ==
    ASSUME EolInv, DacInv, CaptureBegins \/ SendDone \/ Hardware,
           UNCHANGED <<tether, clean, trouble>>
    PROVE  DacInv'
<1>1. UNCHANGED <<script, todo, asked, tgt>>  BY DEF tether
<1>2. UNCHANGED <<down, eol_dac_buf>>
  BY DEF CaptureBegins, SendDone, Hardware, Sample, ModemHalf, dma2_stream0_isr, dacVars
<1>3. sending_digit \/ UNCHANGED <<dac, sending_digit>>
  <2>1. CASE dma2_stream0_isr
    BY <2>1 DEF dma2_stream0_isr, dtmf_process, eol_adc_callback
  <2>. QED  BY <2>1 DEF CaptureBegins, SendDone, Hardware, Sample, ModemHalf, dacVars
<1>4. CASE UNCHANGED <<dac, sending_digit>>
  BY <1>1, <1>2, <1>4, DacLeft
<1>5. CASE sending_digit
  <2>1. ~(clean /\ asked.kind = "dac")  BY <1>5 DEF DacInv, DacBusy
  <2>. QED  BY <1>1, <2>1 DEF DacInv
<1>. QED  BY <1>3, <1>4, <1>5

\* DacInv holds at first.
LEMMA DacInit == Init => DacInv
  BY DEF Init, DacInv

\* Every step keeps it.
LEMMA DacNext == EolInv /\ DacInv /\ [Next]_vars => DacInv'
<1>. SUFFICES ASSUME EolInv, DacInv, [Next]_vars PROVE DacInv'
  OBVIOUS
<1>1. CASE EchoStarts
  <2>1. Starts("echo", [kind |-> "echo"])  BY <1>1 DEF EchoStarts
  <2>. QED  BY <2>1, DacBegins
<1>2. CASE AdcStarts
  <2>1. PICK a \in AdcRequests : Starts("adc", [kind |-> "adc", arg |-> a])
    BY <1>2 DEF AdcStarts
  <2>. DEFINE what == [kind |-> "adc", arg |-> a]
  <2>2. what.kind # "dac" /\ Starts("adc", what)  BY <2>1
  <2>. HIDE DEF what
  <2>. QED  BY <2>2, DacBegins
<1>3. CASE DacStarts
  <2>1. PICK r \in DacRequests :
          Starts("dac", [kind |-> "dac", arg |-> r.arg, ops |-> r.ops])
    BY <1>3, Zenon DEF DacStarts
  <2>. QED  BY <1>3, <2>1, DacBegins
<1>4. CASE UserStarts
  <2>1. Starts("user", [kind |-> "user"])  BY <1>4 DEF UserStarts
  <2>. QED  BY <2>1, DacBegins
<1>5. CASE Killed  BY <1>5 DEF Killed, DacInv
<1>6. CASE Turns
  <2>1. PICK arrived \in BOOLEAN : Turn(arrived)  BY <1>6 DEF Turns
  <2>. QED  BY <2>1, DacTurn
<1>7. CASE ScriptEnds
  <2>1. Ends /\ UNCHANGED <<todo, clean>> /\ script # "none"  BY <1>7 DEF ScriptEnds
  <2>2. CASE script = "dac" /\ todo = << >>  BY <2>1, <2>2, DacEnded
  <2>3. CASE script # "dac"
    <3>1. ~(clean /\ asked.kind = "dac")  BY <2>1, <2>3 DEF DacInv, DacBusy
    <3>. QED  BY <2>1, <3>1 DEF Ends, DacInv
  <2>. QED  BY <1>7, <2>2, <2>3 DEF ScriptEnds
<1>8. CASE Tick
  <2>1. UNCHANGED <<boardVars, down, up, script, todo, asked, started, clean, trouble>>
        /\ tgt' = [tgt EXCEPT !.last_echo_sent = "old"]
    BY <1>8 DEF Tick
  <2>2. tgt'.pending_frames = tgt.pending_frames
    BY <2>1 DEF EolInv, TypeInv, TetherType, Targets
  <2>3. UNCHANGED <<dac, eol_dac_buf, sending_digit>>  BY <2>1 DEF boardVars, dacVars
  <2>. QED  BY <2>1, <2>2, <2>3, DacLeft
<1>9. CASE Undisturbed(Handle)
  <2>1. Handle /\ UNCHANGED <<tether, clean, trouble>>  BY <1>9 DEF Undisturbed
  <2>. QED  BY <2>1, DacHandled
<1>10. CASE Undisturbed(CaptureBegins) \/ Undisturbed(SendDone) \/ Undisturbed(Hardware)
  <2>1. (CaptureBegins \/ SendDone \/ Hardware) /\ UNCHANGED <<tether, clean, trouble>>
    BY <1>10 DEF Undisturbed
  <2>. QED  BY <2>1, DacSpared
<1>11. CASE Disturbed(Recital) \/ Disturbed(Lost) \/ Disturbed(FcsMismatch)
  BY <1>11 DEF Disturbed, DacInv
<1>12. CASE UNCHANGED vars
  <2>1. UNCHANGED <<script, todo, asked, down, dac, eol_dac_buf, sending_digit, tgt, clean>>
    BY <1>12 DEF vars, boardVars, dacVars, tether
  <2>. QED  BY <2>1, DacLeft
<1>. QED
  BY <1>1, <1>2, <1>3, <1>4, <1>5, <1>6, <1>7, <1>8, <1>9, <1>10, <1>11, <1>12,
     Zenon DEF Next

\* It always holds.
LEMMA DacAlways == Spec => [](EolInv /\ DacInv)
<1>1. Init => EolInv /\ DacInv  BY EolInit, DacInit
<1>2. (EolInv /\ DacInv) /\ [Next]_vars => (EolInv /\ DacInv)'  BY EolNext, DacNext
<1>. QED  BY <1>1, <1>2, PTL DEF Spec

\* dac_control.py's part of RequestObeyed
DacObeys ==
    /\ DacDone /\ Accepted =>
         /\ dac.buf = "eol_dac_buf"
         /\ dac.timer = [prescaler |-> asked.arg.prescaler, period |-> asked.arg.period]
    /\ DacDone /\ ("start" \in asked.ops \/ "stop" \in asked.ops \/ Accepted) =>
         dac.on = ("start" \in asked.ops)

\* When dac_control.py is through, nothing is left in the queue.
LEMMA DacFinal ==
    ASSUME EolInv, DacInv, DacDone
    PROVE  /\ DacAsked(asked) /\ (Accepted <=> Accepts(asked))
           /\ "start" \in asked.ops => dac.on
           /\ "start" \notin asked.ops /\ ("stop" \in asked.ops \/ Accepts(asked)) => ~dac.on
           /\ Accepts(asked) => Configured(asked, dac, eol_dac_buf)
<1>1. DacBusy /\ down = << >> /\ todo = << >>  BY DEF DacInv, DacDone, DacBusy
<1>2. down \o todo = << >>  BY <1>1
<1>3. DacAsked(asked) /\ DacQueue(asked, << >>, dac, eol_dac_buf)  BY <1>1, <1>2 DEF DacBusy
<1>4. Len(<< >>) = 0  OBVIOUS
<1>5. Accepted <=> Accepts(asked)  BY DEF Accepted, Accepts
<1>. QED  BY <1>3, <1>4, <1>5 DEF DacQueue

\* Then the DAC is what was asked for.
LEMMA DacObeyedInTheEnd == EolInv /\ DacInv => DacObeys
<1>. SUFFICES ASSUME EolInv, DacInv, DacDone
              PROVE  /\ Accepted =>
                         /\ dac.buf = "eol_dac_buf"
                         /\ dac.timer = [prescaler |-> asked.arg.prescaler,
                                        period |-> asked.arg.period]
                     /\ "start" \in asked.ops \/ "stop" \in asked.ops \/ Accepted =>
                         dac.on = ("start" \in asked.ops)
  BY DEF DacObeys
<1>1. ASSUME Accepted
      PROVE  /\ dac.buf = "eol_dac_buf"
             /\ dac.timer = [prescaler |-> asked.arg.prescaler, period |-> asked.arg.period]
  <2>. DEFINE a == asked.arg
              p == a.period
              N == WordMod * WordMod
  <2>1. Accepts(asked) /\ DacAsked(asked) /\ Configured(asked, dac, eol_dac_buf)
    BY <1>1, DacFinal
  <2>2. a \in DacArguments  BY <2>1, DacAskedSound DEF Accepts
  <2>3. p \in 0 .. N - 1 /\ N \in Nat /\ N > 0
    <3>1. p \in 0 .. WordMod * WordMod - 1  BY <2>2 DEF DacArguments
    <3>2. WordMod \in Nat /\ WordMod > 0  BY WordFacts
    <3>3. WordMod * WordMod \in Nat /\ WordMod * WordMod > 0  BY <3>2
    <3>. QED  BY <3>1, <3>3
  <2>4. dac.buf = "eol_dac_buf" /\ dac.timer = timer_setup_adcdac("TIM2", a.prescaler, p)
    BY <2>1 DEF Configured
  <2>5. CounterMod("TIM2") = N  BY DEF CounterMod
  <2>. HIDE DEF a, p, N
  <2>6. p % N = p  BY <2>3
  <2>7. timer_setup_adcdac("TIM2", a.prescaler, p) = [prescaler |-> a.prescaler, period |-> p]
    BY <2>5, <2>6 DEF timer_setup_adcdac
  <2>. QED  BY <2>4, <2>7 DEF a, p
<1>2. dac.on \in BOOLEAN  BY DEF EolInv, TypeInv, BoardType, DacType, Dacs
<1>3. "start" \in asked.ops \/ "stop" \in asked.ops \/ Accepted =>
         dac.on = ("start" \in asked.ops)
  BY <1>2, DacFinal
<1>. QED  BY <1>1, <1>3

\* A place within a circle, and one a stretch further on
LEMMA Wraps ==
    ASSUME NEW n \in Nat, n > 0, NEW i \in Nat
    PROVE  /\ i < n => i % n = i
           /\ i >= n /\ i - n < n => i % n = i - n
<1>1. i < n => i % n = i
  <2>. SUFFICES ASSUME i < n PROVE i % n = i
    OBVIOUS
  <2>1. (n * 0 + i) % n = i  BY Quotient
  <2>. QED  BY <2>1
<1>2. i >= n /\ i - n < n => i % n = i - n
  <2>. SUFFICES ASSUME i >= n, i - n < n PROVE i % n = i - n
    OBVIOUS
  <2>1. i - n \in 0 .. n - 1  OBVIOUS
  <2>2. (n * 1 + (i - n)) % n = i - n  BY <2>1, Quotient
  <2>3. n * 1 + (i - n) = i  OBVIOUS
  <2>. QED  BY <2>2, <2>3
<1>. QED  BY <1>1, <1>2

\* What lies beside N parts of D lies beside the whole part of N over D.
LEMMA Near ==
    ASSUME NEW D \in Nat, D > 0, NEW N \in Nat, NEW x \in Nat, NEW i \in Nat, NEW u \in Nat,
           2 * (x * D - N) <= (2 * i + 1) * (u * D), 2 * (N - x * D) <= (2 * i + 1) * (u * D)
    PROVE  x \in (N \div D) - (i + 1) * u .. (N \div D) + (i + 1) * u
<1>. DEFINE E  == N \div D
            R  == N % D
            k  == (i + 1) * u
            xD == x * D
            ED == D * E
            kD == k * D
            uD == u * D
<1>1. E \in Nat /\ R \in 0 .. D - 1 /\ N = ED + R
  BY Division
<1>. HIDE DEF E, R
<1>2. k \in Nat /\ xD \in Nat /\ ED \in Nat /\ uD \in Nat
  BY <1>1
<1>3. kD \in Nat
  <2>. HIDE DEF k
  <2>. QED  BY <1>2
<1>4. (2 * i + 1) * uD = 2 * kD - uD
  <2>1. kD = (i + 1) * uD  OBVIOUS
  <2>. HIDE DEF uD, kD
  <2>2. (2 * i + 1) * uD = 2 * ((i + 1) * uD) - uD  BY <1>2
  <2>. QED  BY <2>1, <2>2
<1>5. 2 * (xD - N) <= 2 * kD - uD /\ 2 * (N - xD) <= 2 * kD - uD
  BY <1>4
<1>6. x <= E + k
  <2>. SUFFICES ASSUME x > E + k PROVE FALSE
    BY <1>1, <1>2
  <2>. HIDE DEF k
  <2>1. x - (E + k + 1) \in Nat  BY <1>1, <1>2
  <2>2. (x - (E + k + 1)) * D \in Nat  BY <2>1
  <2>3. (x - (E + k + 1)) * D = xD - ED - kD - D  BY <1>1, <1>2
  <2>. HIDE DEF xD, ED, kD, uD
  <2>. QED  BY <1>1, <1>2, <1>3, <1>5, <2>2, <2>3
<1>7. x >= E - k
  <2>. SUFFICES ASSUME x < E - k PROVE FALSE
    BY <1>1, <1>2
  <2>. HIDE DEF k
  <2>1. E - (x + k + 1) \in Nat  BY <1>1, <1>2
  <2>2. (E - (x + k + 1)) * D \in Nat  BY <2>1
  <2>3. (E - (x + k + 1)) * D = ED - xD - kD - D  BY <1>1, <1>2
  <2>. HIDE DEF xD, ED, kD, uD
  <2>. QED  BY <1>1, <1>2, <1>3, <1>5, <2>2, <2>3
<1>. HIDE DEF k
<1>. QED  BY <1>1, <1>2, <1>6, <1>7 DEF E, k

\* Whatever the DAC was doing, however long its buffer, whatever the sine table and the
\* format of a float, however each addition to theta is rounded: once dac_control.py is
\* through with an undisturbed board, every point of an accepted wave is the sine of an
\* angle beside the exact one, by no more than a last place for each addition so far.
THEOREM WavesTrack == Spec => []WaveTracks
<1>1. EolInv /\ DacInv => WaveTracks
  <2>. SUFFICES ASSUME EolInv, DacInv, DacDone, Accepted,
                       asked.arg.points_per_wave * asked.arg.num_waves < WordMod
                PROVE  /\ dac.npts = asked.arg.points_per_wave * asked.arg.num_waves
                       /\ \A i \in 0 .. dac.npts - 1, ulp \in FLT_ULPS :
                            Resolves(ulp) =>
                              \E theta \in Exact(i) - (i + 1) * ulp .. Exact(i) + (i + 1) * ulp :
                                theta >= 0 /\ eol_dac_buf[i + 1] = sin_gen_sin(theta, asked.arg.scale)
    BY DEF WaveTracks
  <2>. DEFINE a   == asked.arg
              ppw == a.points_per_wave
              nw  == a.num_waves
              t   == a.theta0_u8
              n   == dac.npts
              s   == Synthesis(a)
              C   == 4 * COS_THETA0
              theta == Angles(ToFloat(C * t, ByteMod), ToFloat(C, ppw), n)
  <2>1. Accepts(asked) /\ DacAsked(asked) /\ Configured(asked, dac, eol_dac_buf)
    BY DacFinal
  <2>2. a \in DacArguments /\ ppw >= 4
    BY <2>1, DacAskedSound DEF Accepts
  <2>3. ppw \in Nat /\ nw \in Nat /\ t \in 0 .. ByteMod - 1
    BY <2>2, WordFacts DEF DacArguments, Bytes
  <2>4. n = s.npts /\ \A i \in 1 .. s.npts : eol_dac_buf[i] = s.wave[i]
    BY <2>1 DEF Configured
  <2>5. /\ s.npts > 0 /\ s.npts = (ppw * nw) % WordMod
        /\ \A i \in 1 .. s.npts : s.wave[i] = sin_gen_sin(theta[i - 1], a.scale)
    BY <2>1, <2>4, AcceptedOkay
  <2>6. ppw * nw < WordMod  OBVIOUS
  <2>. HIDE DEF a, ppw, nw, t, s, n, C, theta
  <2>7. n = ppw * nw /\ n \in Nat /\ n > 0 /\ nw > 0
    <3>. DEFINE m == ppw * nw
    <3>1. m \in Nat  BY <2>3
    <3>2. m % WordMod = m
      <4>. HIDE DEF m
      <4>. QED  BY <2>6, <3>1, WordFacts, Wraps DEF m
    <3>3. n = m /\ n > 0  BY <2>4, <2>5, <3>2
    <3>4. nw # 0
      <4>1. nw = 0 => m = 0  BY <2>3
      <4>. QED  BY <3>3, <4>1
    <3>. QED  BY <2>3, <3>1, <3>3, <3>4
  <2>8. ASSUME NEW i \in 0 .. n - 1, NEW ulp \in FLT_ULPS, Resolves(ulp)
        PROVE  /\ theta[i] \in Exact(i) - (i + 1) * ulp .. Exact(i) + (i + 1) * ulp
               /\ theta[i] >= 0 /\ eol_dac_buf[i + 1] = sin_gen_sin(theta[i], a.scale)
    <3>. DEFINE D == ByteMod * ppw
                N == C * (t * ppw + i * ByteMod)
                x == theta[i]
    <3>1. 4 * COS_THETA0 * (nw + 1) + ppw * nw * ulp <= FLT_MANT * ulp
      BY <2>8 DEF Resolves, a, ppw, nw
    <3>2. i \in Nat /\ i < ppw * nw /\ ppw > 0 /\ ulp \in Nat
      BY <2>2, <2>3, <2>7, FloatFacts
    <3>3. x \in Nat /\ Beside(x, C, ByteMod, ppw, t, i, ulp)
      BY <2>3, <2>7, <3>1, <3>2, WordFacts, AngleDrift DEF C, theta
    <3>. HIDE DEF x
    <3>4. D \in Nat /\ D > 0 /\ N \in Nat
      <4>1. C \in Nat /\ t \in Nat  BY <2>3, FloatFacts DEF C
      <4>2. t * ppw + i * ByteMod \in Nat  BY <2>3, <3>2, <4>1, WordFacts
      <4>3. D \in Nat /\ D > 0  BY <2>3, <3>2, WordFacts
      <4>. QED  BY <4>1, <4>2, <4>3
    <3>5. 2 * (x * D - N) <= (2 * i + 1) * (ulp * D) /\ 2 * (N - x * D) <= (2 * i + 1) * (ulp * D)
      BY <3>3 DEF Beside
    <3>6. Exact(i) = N \div D
      BY DEF Exact, a, ppw, t, C
    <3>. HIDE DEF D, N
    <3>7. x \in Exact(i) - (i + 1) * ulp .. Exact(i) + (i + 1) * ulp
      BY <3>2, <3>3, <3>4, <3>5, <3>6, Near
    <3>8. eol_dac_buf[i + 1] = sin_gen_sin(x, a.scale)
      <4>1. i + 1 \in 1 .. n /\ (i + 1) - 1 = i  BY <2>7
      <4>. QED  BY <2>4, <2>5, <4>1 DEF x
    <3>. QED  BY <3>3, <3>7, <3>8 DEF x
  <2>. QED  BY <2>7, <2>8 DEF a, ppw, nw, n
<1>. QED  BY <1>1, DacAlways, PTL

---------------------------------------------------------------------------
(* The packets that carry a capture                                          *)

\* Two stretches of a sequence, one after the other
LEMMA Splice ==
    ASSUME NEW V, NEW s \in Seq(V), NEW i \in Nat, NEW j \in Nat, NEW k \in Nat,
           i <= j, j <= k, k <= Len(s)
    PROVE  /\ SubSeq(s, i + 1, j) \o SubSeq(s, j + 1, k) = SubSeq(s, i + 1, k)
           /\ SubSeq(s, i + 1, j) \in Seq(V) /\ Len(SubSeq(s, i + 1, j)) = j - i
<1>. DEFINE a == SubSeq(s, i + 1, j)
            b == SubSeq(s, j + 1, k)
            c == SubSeq(s, i + 1, k)
<1>1. a \in Seq(V) /\ Len(a) = j - i /\ \A x \in 1 .. j - i : a[x] = s[i + x]
  OBVIOUS
<1>2. b \in Seq(V) /\ Len(b) = k - j /\ \A x \in 1 .. k - j : b[x] = s[j + x]
  OBVIOUS
<1>3. c \in Seq(V) /\ Len(c) = k - i /\ \A x \in 1 .. k - i : c[x] = s[i + x]
  OBVIOUS
<1>. HIDE DEF a, b, c
<1>4. /\ a \o b \in Seq(V) /\ Len(a \o b) = Len(a) + Len(b)
      /\ \A x \in 1 .. Len(a) + Len(b) : (a \o b)[x] = IF x <= Len(a) THEN a[x] ELSE b[x - Len(a)]
  <2>1. ASSUME NEW W, NEW p \in Seq(W), NEW q \in Seq(W)
        PROVE  /\ p \o q \in Seq(W) /\ Len(p \o q) = Len(p) + Len(q)
               /\ \A x \in 1 .. Len(p) + Len(q) : (p \o q)[x] = IF x <= Len(p) THEN p[x] ELSE q[x - Len(p)]
    OBVIOUS
  <2>. QED  BY <1>1, <1>2, <2>1
<1>. DEFINE l == a \o b
<1>. HIDE DEF l
<1>5. l \in Seq(V) /\ Len(l) = k - i
  BY <1>1, <1>2, <1>4 DEF l
<1>6. ASSUME NEW x \in 1 .. k - i PROVE l[x] = c[x]
  <2>1. l[x] = IF x <= j - i THEN a[x] ELSE b[x - (j - i)]
    BY <1>1, <1>2, <1>4, <1>6 DEF l
  <2>2. CASE x <= j - i  BY <1>1, <1>3, <1>6, <2>1, <2>2
  <2>3. CASE ~(x <= j - i)
    <3>1. x - (j - i) \in 1 .. k - j /\ j + (x - (j - i)) = i + x  BY <1>6, <2>3
    <3>. QED  BY <1>2, <1>3, <1>6, <2>1, <2>3, <3>1
  <2>. QED  BY <2>2, <2>3
<1>7. ASSUME NEW u \in Seq(V), NEW v \in Seq(V), Len(u) = Len(v),
             \A x \in 1 .. Len(u) : u[x] = v[x]
      PROVE  u = v
  BY <1>7
<1>8. l = c  BY <1>3, <1>5, <1>6, <1>7
<1>. QED  BY <1>1, <1>8 DEF a, b, c, l

\* How many packets a capture of so many bytes takes, and how many bytes k of them carry.
Carriers(len) == (len + Stride - 1) \div Stride
Carried(len, k) == Min2(len, k * Stride)

\* All packets together carry the capture; each but the last carries a whole stride.
LEMMA CarriersBound ==
    ASSUME NEW len \in Nat
    PROVE  /\ Carriers(len) \in Nat
           /\ Carried(len, Carriers(len)) = len
           /\ \A k \in Nat : k < Carriers(len) => k * Stride < len /\ Carried(len, k) = k * Stride
           /\ \A k \in Nat : Carried(len, k) \in 0 .. len /\ Carried(len, 0) = 0
           /\ \A k \in Nat : Carried(len, k) <= Carried(len, k + 1)
<1>. DEFINE n == Carriers(len)
            r == (len + Stride - 1) % Stride
<1>1. Stride \in Nat /\ Stride > 0  BY Constants
<1>2. n \in Nat /\ r \in 0 .. Stride - 1 /\ len + Stride - 1 = Stride * n + r
  <2>1. len + Stride - 1 \in Nat  BY <1>1
  <2>. QED  BY <1>1, <2>1, Division DEF Carriers
<1>. HIDE DEF n, r
<1>3. Stride * n >= len /\ n * Stride = Stride * n /\ n * Stride \in Nat
  <2>1. n * Stride = Stride * n /\ n * Stride \in Nat  BY <1>1, <1>2
  <2>. QED  BY <1>1, <1>2, <2>1
<1>4. ASSUME NEW k \in Nat, k < n PROVE k * Stride < len
  <2>. DEFINE e == n - k - 1
  <2>1. e \in Nat /\ n = k + 1 + e  BY <1>2, <1>4
  <2>. HIDE DEF e
  <2>2. n * Stride = k * Stride + Stride + e * Stride  BY <1>1, <2>1
  <2>3. e * Stride \in Nat /\ k * Stride \in Nat  BY <1>1, <2>1
  <2>. QED  BY <1>1, <1>2, <1>3, <2>2, <2>3
<1>5. \A k \in Nat : k * Stride \in Nat /\ 0 * Stride = 0 /\ (k + 1) * Stride = k * Stride + Stride
  BY <1>1
<1>6. Carried(len, n) = len  BY <1>3 DEF Carried, Min2
<1>7. \A k \in Nat : k < n => Carried(len, k) = k * Stride
  <2>. SUFFICES ASSUME NEW k \in Nat, k < n PROVE Carried(len, k) = k * Stride
    OBVIOUS
  <2>1. k * Stride < len /\ k * Stride \in Nat  BY <1>4, <1>5
  <2>. DEFINE y == k * Stride
  <2>2. Carried(len, k) = IF len < y THEN len ELSE y  BY DEF Carried, Min2
  <2>. HIDE DEF y
  <2>3. y < len /\ y \in Nat  BY <2>1 DEF y
  <2>4. ~(len < y)  BY <2>3
  <2>. QED  BY <2>2, <2>4 DEF y
<1>8. \A k \in Nat : Carried(len, k) \in 0 .. len /\ Carried(len, 0) = 0
  BY <1>5 DEF Carried, Min2
<1>9. \A k \in Nat : Carried(len, k) <= Carried(len, k + 1)
  BY <1>1, <1>5 DEF Carried, Min2
<1>. QED  BY <1>2, <1>4, <1>6, <1>7, <1>8, <1>9 DEF n

\* The k-th packet
Carrier(buf, k) == SubSeq(buf, (k - 1) * Stride + 1, Carried(Len(buf), k))

\* The packets from the k+1-th on
Remaining(buf, k) ==
    [i \in 1 .. Carriers(Len(buf)) - k |-> Message("A", "C", Carrier(buf, k + i))]

Spliced(V, buf, i, k) ==
    LET At(j) == Carried(Len(buf), j)
        c     == Carrier(buf, k + 1)
    IN  /\ c \in Seq(V) /\ Len(c) = At(k + 1) - At(k)
        /\ SubSeq(buf, At(i) + 1, At(k)) \o c = SubSeq(buf, At(i) + 1, At(k + 1))
        /\ SubSeq(buf, At(i) + 1, At(k)) \in Seq(V)
        /\ Len(SubSeq(buf, At(i) + 1, At(k))) = At(k) - At(i)

\* A packet begins where those before it end.
LEMMA CarrierSplices ==
    ASSUME NEW V, NEW buf \in Seq(V), NEW i \in Nat, NEW k \in Nat, i <= k, k < Carriers(Len(buf))
    PROVE  Spliced(V, buf, i, k)
<1>. DEFINE L == Len(buf)
            At(j) == Carried(L, j)
<1>0. L \in Nat  OBVIOUS
<1>. HIDE DEF L
<1>1. /\ At(k) = k * Stride /\ At(k) \in 0 .. L /\ At(k + 1) \in 0 .. L /\ At(k) <= At(k + 1)
      /\ At(i) \in 0 .. L /\ k + 1 \in Nat
  <2>1. k < Carriers(L)  BY DEF L
  <2>2. \A n \in Nat : n < Carriers(L) => n * Stride < L /\ Carried(L, n) = n * Stride
    BY <1>0, CarriersBound
  <2>3. \A n \in Nat : Carried(L, n) \in 0 .. L /\ Carried(L, 0) = 0
    BY <1>0, CarriersBound
  <2>4. \A n \in Nat : Carried(L, n) <= Carried(L, n + 1)
    BY <1>0, CarriersBound
  <2>5. k + 1 \in Nat  OBVIOUS
  <2>. QED  BY <2>1, <2>2, <2>3, <2>4, <2>5
<1>2. At(i) <= At(k)
  <2>1. i * Stride <= k * Stride /\ i * Stride \in Nat /\ k * Stride \in Nat
    <3>. DEFINE e == k - i
    <3>1. e \in Nat /\ k = i + e  OBVIOUS
    <3>. HIDE DEF e
    <3>2. k * Stride = i * Stride + e * Stride /\ e * Stride \in Nat /\ i * Stride \in Nat
      BY <3>1, Constants
    <3>. QED  BY <3>2
  <2>. QED  BY <1>0, <2>1 DEF Carried, Min2
<1>3. (k + 1) - 1 = k  OBVIOUS
<1>4. Carrier(buf, k + 1) = SubSeq(buf, At(k) + 1, At(k + 1))
  BY <1>1, <1>3 DEF Carrier, L
<1>. DEFINE x == At(i)
            y == At(k)
            z == At(k + 1)
<1>5. x \in Nat /\ y \in Nat /\ z \in Nat /\ x <= y /\ y <= z /\ z <= L  BY <1>0, <1>1, <1>2
<1>. HIDE DEF At
<1>. HIDE DEF x, y, z
<1>6. /\ SubSeq(buf, x + 1, y) \o SubSeq(buf, y + 1, z) = SubSeq(buf, x + 1, z)
      /\ SubSeq(buf, x + 1, y) \in Seq(V) /\ Len(SubSeq(buf, x + 1, y)) = y - x
      /\ SubSeq(buf, y + 1, z) \in Seq(V) /\ Len(SubSeq(buf, y + 1, z)) = z - y
  <2>1. y <= y /\ z <= z  BY <1>5
  <2>. QED  BY <1>5, <2>1, Splice DEF L
<1>. QED  BY <1>4, <1>6 DEF Spliced, x, y, z, At, L

\* What the remaining packets carry
LEMMA RemainingCarry ==
    ASSUME NEW buf \in Seq(Int), NEW k \in Nat, k <= Carriers(Len(buf))
    PROVE  Len(FlattenSeq([n \in DOMAIN Remaining(buf, k) |-> Remaining(buf, k)[n].data]))
             = Len(buf) - Carried(Len(buf), k)
<1>. DEFINE L == Len(buf)
            m == Carriers(L) - k
            s == [n \in 1 .. m |-> Carrier(buf, k + n)]
            At(j) == Carried(L, j)
            g == [i \in 1 .. m |-> SubSeq(buf, At(k) + 1, At(k + i))]
<1>0. L \in Nat /\ Carriers(L) \in Nat /\ m \in Nat /\ k + m = Carriers(L)
  <2>1. L \in Nat  OBVIOUS
  <2>. HIDE DEF L
  <2>2. Carriers(L) \in Nat  BY <2>1, CarriersBound
  <2>. QED  BY <2>1, <2>2 DEF L
<1>. HIDE DEF m
<1>1. [n \in DOMAIN Remaining(buf, k) |-> Remaining(buf, k)[n].data] = s
  BY DEF Remaining, Message, m
<1>2. Len(s) = m  BY <1>0
<1>. HIDE DEF s
<1>3. CASE m = 0
  <2>1. FlattenSeq(s) = s  BY <1>2, <1>3, FlattenNone
  <2>2. At(k) = L  BY <1>0, <1>3, CarriersBound
  <2>. QED  BY <1>0, <1>1, <1>2, <1>3, <2>1, <2>2
<1>4. CASE m # 0
  <2>1. g[1] = s[1]
    <3>1. k < Carriers(L) /\ 1 \in 1 .. m  BY <1>0, <1>4
    <3>2. At(k) = k * Stride /\ (k + 1) - 1 = k  BY <1>0, <3>1, CarriersBound
    <3>3. s[1] = Carrier(buf, k + 1)  BY <3>1 DEF s
    <3>4. g[1] = SubSeq(buf, At(k) + 1, At(k + 1))  BY <3>1
    <3>. HIDE DEF g
    <3>. QED  BY <3>2, <3>3, <3>4 DEF Carrier
  <2>2. ASSUME NEW i \in 2 .. m PROVE g[i] = g[i - 1] \o s[i]
    <3>. DEFINE j == k + (i - 1)
    <3>1. j \in Nat /\ k <= j /\ j < Carriers(L) /\ j + 1 = k + i /\ i - 1 \in 1 .. m /\ i \in 1 .. m
      BY <1>0, <2>2
    <3>2. g[i] = SubSeq(buf, At(k) + 1, At(k + i)) /\ g[i - 1] = SubSeq(buf, At(k) + 1, At(j))
          /\ s[i] = Carrier(buf, k + i)
      BY <3>1 DEF s
    <3>. HIDE DEF g, j
    <3>3. SubSeq(buf, At(k) + 1, At(j)) \o Carrier(buf, j + 1) = SubSeq(buf, At(k) + 1, At(j + 1))
      <4>1. Spliced(Int, buf, k, j)  BY <3>1, CarrierSplices DEF L
      <4>. QED  BY <4>1 DEF Spliced, L
    <3>. QED  BY <3>1, <3>2, <3>3
  <2>3. g = [i \in 1 .. m |-> g[i]]  OBVIOUS
  <2>0. m \in 1 .. m  BY <1>0, <1>4
  <2>4. g[m] = SubSeq(buf, At(k) + 1, At(k + m))  BY <2>0
  <2>. HIDE DEF g
  <2>5. Flattens(g, s, m)  BY <1>0, <2>1, <2>2, <2>3, FlattensIf
  <2>6. PICK f : FlattenSeq(s) = f[m] /\ Flattens(f, s, m)
    BY <1>0, <1>2, <1>4, <2>5, FlattenIs, Zenon
  <2>7. f[m] = g[m]
    <3>. DEFINE S == {n \in Nat : n + 1 \in 1 .. m => f[n + 1] = g[n + 1]}
    <3>1. /\ f[1] = s[1] /\ \A i \in 2 .. m : f[i] = f[i - 1] \o s[i]
      BY <1>0, <1>4, <2>6, FlattenSteps, Zenon
    <3>2. 0 \in S  BY <2>1, <3>1
    <3>3. ASSUME NEW n \in Nat, n \in S PROVE n + 1 \in S
      <4>. SUFFICES ASSUME (n + 1) + 1 \in 1 .. m PROVE f[(n + 1) + 1] = g[(n + 1) + 1]
        OBVIOUS
      <4>1. n + 1 \in 1 .. m /\ (n + 1) + 1 \in 2 .. m /\ ((n + 1) + 1) - 1 = n + 1
        BY <1>0
      <4>2. f[n + 1] = g[n + 1]  BY <3>3, <4>1
      <4>. QED  BY <2>2, <3>1, <4>1, <4>2
    <3>. HIDE DEF S
    <3>4. Nat \subseteq S  BY <3>2, <3>3, Induct
    <3>5. m - 1 \in Nat /\ (m - 1) + 1 = m /\ m \in 1 .. m  BY <1>0, <1>4
    <3>6. m - 1 \in S  BY <3>4, <3>5
    <3>. QED  BY <3>5, <3>6 DEF S
  <2>8. Len(g[m]) = L - At(k)
    <3>. DEFINE j == Carriers(L) - 1
    <3>1. j \in Nat /\ k <= j /\ j < Carriers(L) /\ j + 1 = k + m  BY <1>0, <1>4
    <3>2. At(k + m) = L  BY <1>0, CarriersBound
    <3>3. At(k) \in 0 .. L  BY <1>0, CarriersBound
    <3>. DEFINE x == At(k)
    <3>. HIDE DEF At, x
    <3>4. g[m] = SubSeq(buf, x + 1, L)  BY <2>4, <3>2 DEF x
    <3>5. x \in Nat /\ x <= L /\ L <= L /\ L <= Len(buf)  BY <1>0, <3>3 DEF x
    <3>. HIDE DEF L
    <3>6. Len(SubSeq(buf, x + 1, L)) = L - x  BY <1>0, <3>5, Splice
    <3>. QED  BY <3>4, <3>6 DEF x
  <2>. QED  BY <1>1, <2>6, <2>7, <2>8
<1>. QED  BY <1>3, <1>4

---------------------------------------------------------------------------
(* An undisturbed adc_control.py, stage by stage: its request, the board's   *)
(* refusal or its capture, and the packets, of which those on the line begin *)
(* where the tether's buffer ends.                                           *)

\* What was asked of adc_control.py
AdcAsked(q) ==
    \E a \in AdcRequests : Packable(ADCConfigPacket, a) /\ q = [kind |-> "adc", arg |-> a]

\* Its packet, the configuration it asks for and as many bytes as it expects
AdcPacket(a) == pack(ADCConfigPacket, a)
AdcConfig(a) == AdcRequest(AdcPacket(a).data)
Total(a)     == a.num_points * a.sample_width * Len(a.channels)

\* The byte at place p of the t-th capture
Expect(a, t, p) ==
    Reading(t, a.channels[(((p - 1) \div a.sample_width) % Len(a.channels)) + 1], p)

\* buf holds the first n samples.
Sampled(a, t, buf, n) ==
    a.sample_width \in 1 .. 2 => \A p \in 1 .. n * a.sample_width : buf[p] = Expect(a, t, p)

\* As eol_adc_callback hands it over
Captured == SubSeq(eol_adc_buf, 1, saved_adc_config.buflen)

\* What runs is the recital's capture, if any.
NoCapture == stream.on \/ tcif => saved_adc_config.cb = "dtmf_process"

\* Nothing has come in.
AdcFresh ==
    /\ tgt.adc_buf = << >> /\ tgt.printed = << >>
    /\ tgt.pending_adc_bytes = Total(asked.arg)

AdcRequested == script = "adc" /\ tgt.pending_frames = << >> /\ Total(asked.arg) > 0

AdcWaits ==
    /\ script = "adc" /\ tgt.pending_frames = <<AdcPacket(asked.arg)>>
    /\ down = << >> /\ up = << >> /\ main = Loop /\ NoCapture /\ AdcFresh

AdcSent ==
    /\ AdcRequested /\ down = <<AdcPacket(asked.arg)>>
    /\ up = << >> /\ main = Loop /\ NoCapture /\ AdcFresh

AdcRefused ==
    /\ AdcRequested /\ down = << >> /\ AdcConfig(asked.arg).buflen > AdcBufLen
    /\ \A i \in 1 .. Len(up) : up[i].family = "!"
    /\ main # Loop => main.at = "xmitbuf" /\ main.msg.family = "!"
    /\ NoCapture /\ AdcFresh

AdcReady ==
    /\ AdcRequested /\ down = << >>
    /\ up = << >> /\ main = [at |-> "capture", config |-> AdcConfig(asked.arg)]
    /\ NoCapture /\ AdcFresh

\* The capture has begun.
AdcBegun ==
    /\ AdcRequested /\ down = << >> /\ main = Loop
    /\ saved_adc_config = AdcConfig(asked.arg)

AdcSampling ==
    /\ AdcBegun /\ up = << >> /\ AdcFresh
    /\ (stream.on <=> ~tcif) /\ (tcif => stream.left = 0)
    /\ Sampled(asked.arg, take, eol_adc_buf, n_dmas(saved_adc_config) - stream.left)

AdcComplete ==
    ~stream.on /\ ~tcif /\ Sampled(asked.arg, take, eol_adc_buf, n_dmas(saved_adc_config))

\* k packets of the capture b have come in at t, which expects total bytes.
AdcHeard(b, k, total, arriving, t) ==
    /\ arriving = Remaining(b, k)
    /\ t.adc_buf = SubSeq(b, 1, Carried(Len(b), k))
    /\ t.pending_adc_bytes = total - Carried(Len(b), k)
    /\ t.printed = IF t.pending_adc_bytes = 0 THEN b ELSE << >>

AdcSends ==
    /\ AdcBegun /\ AdcComplete
    /\ \E k \in 0 .. Carriers(Len(Captured)) :
          AdcHeard(Captured, k, Total(asked.arg), up, tgt)

AdcOver ==
    /\ script = "none" /\ tgt.pending_frames = << >> /\ down = << >> /\ main = Loop
    /\ \/ tgt.printed = << >> /\ NoCapture
       \/ /\ saved_adc_config = AdcConfig(asked.arg) /\ AdcComplete
          /\ tgt.printed = Captured /\ Len(Captured) = Total(asked.arg)

AdcStage ==
    \/ AdcWaits \/ AdcSent \/ AdcRefused \/ AdcReady \/ AdcSampling \/ AdcSends \/ AdcOver

AdcInv == clean /\ asked.kind = "adc" => AdcAsked(asked) /\ AdcStage

\* What was asked of adc_control.py can be packed, and the board reads it as it was meant.
LEMMA AdcAskedSound ==
    ASSUME NEW q, AdcAsked(q)
    PROVE  /\ q.arg \in AdcArguments /\ q.kind = "adc"
           /\ AdcPacket(q.arg) \in Sendable
           /\ AdcPacket(q.arg).family = "A" /\ AdcPacket(q.arg).type = "C"
           /\ AdcConfig(q.arg) =
                [cb |-> "eol_adc_callback", buflen |-> Total(q.arg) % WordMod,
                 sample_width |-> q.arg.sample_width, prescaler |-> q.arg.prescaler,
                 period |-> q.arg.period, sample_time |-> q.arg.sample_time,
                 channels |-> q.arg.channels]
<1>1. PICK a \in AdcRequests : Packable(ADCConfigPacket, a) /\ q = [kind |-> "adc", arg |-> a]
  BY DEF AdcAsked
<1>2. a \in AdcArguments /\ pack(ADCConfigPacket, a) \in Sendable
  BY <1>1, AdcSound, AdcPacked
<1>3. pack(ADCConfigPacket, a).family = "A" /\ pack(ADCConfigPacket, a).type = "C"
  BY DEF pack, ADCConfigPacket
<1>4. AdcRequest(pack(ADCConfigPacket, a).data) =
        [cb |-> "eol_adc_callback",
         buflen |-> (a.num_points * a.sample_width * Len(a.channels)) % WordMod,
         sample_width |-> a.sample_width, prescaler |-> a.prescaler,
         period |-> a.period, sample_time |-> a.sample_time, channels |-> a.channels]
  BY <1>2, AdcUnpacked, Zenon
<1>5. q.arg = a /\ q.kind = "adc"  BY <1>1
<1>. QED  BY <1>2, <1>3, <1>4, <1>5, Zenon DEF AdcPacket, AdcConfig, Total

\* The board's length is the tether's, but for what a word cannot hold.
LEMMA AdcTotal ==
    ASSUME NEW q, AdcAsked(q)
    PROVE  /\ Total(q.arg) \in Nat /\ AdcConfig(q.arg).buflen \in Nat
           /\ AdcConfig(q.arg).buflen <= Total(q.arg)
           /\ Total(q.arg) <= AdcBufLen => AdcConfig(q.arg).buflen = Total(q.arg)
<1>. DEFINE a == q.arg
            w == Total(a)
            b == AdcConfig(a).buflen
<1>1. a \in AdcArguments /\ b = w % WordMod
  <2>. DEFINE c == AdcConfig(a)
  <2>1. a \in AdcArguments /\ AdcAsked(q)  BY AdcAskedSound
  <2>2. c = [cb |-> "eol_adc_callback", buflen |-> w % WordMod,
             sample_width |-> a.sample_width, prescaler |-> a.prescaler,
             period |-> a.period, sample_time |-> a.sample_time, channels |-> a.channels]
    BY AdcAskedSound, Zenon
  <2>. HIDE DEF c, w, a
  <2>3. c.buflen = w % WordMod  BY <2>2
  <2>. QED  BY <2>1, <2>3 DEF c
<1>2. w \in Nat
  <2>1. a.num_points \in Nat /\ a.sample_width \in Nat /\ a.channels \in Seq(Bytes)
    <3>. HIDE DEF a
    <3>1. /\ a.num_points \in 0 .. WordMod - 1 /\ a.sample_width \in 0 .. ByteMod - 1
          /\ a.channels \in Seq(Bytes)
      BY <1>1 DEF AdcArguments, Bytes
    <3>. QED  BY <3>1
  <2>2. Len(a.channels) \in Nat /\ a.num_points * a.sample_width \in Nat  BY <2>1
  <2>. DEFINE x == a.num_points * a.sample_width
              y == Len(a.channels)
  <2>3. x \in Nat /\ y \in Nat /\ w = x * y  BY <2>2 DEF Total
  <2>. HIDE DEF x, y, w
  <2>. QED  BY <2>3
<1>. HIDE DEF w, b
<1>3. WordMod \in Nat /\ WordMod > 0  BY WordFacts
<1>4. b \in Nat /\ b <= w
  <2>1. w \div WordMod \in Nat /\ b \in 0 .. WordMod - 1 /\ w = WordMod * (w \div WordMod) + b
    BY <1>1, <1>2, <1>3, Division
  <2>. DEFINE d == w \div WordMod
  <2>. HIDE DEF d
  <2>2. d \in Nat /\ b \in Nat /\ w = WordMod * d + b  BY <1>3, <2>1 DEF d
  <2>3. WordMod * d \in Nat  BY <1>3, <2>2
  <2>. QED  BY <1>2, <2>2, <2>3
<1>5. w <= AdcBufLen => b = w
  <2>1. w <= AdcBufLen => w \in 0 .. WordMod - 1  BY <1>2, <1>3, Constants
  <2>. QED  BY <1>1, <1>3, <2>1
<1>. QED  BY <1>2, <1>4, <1>5 DEF w, b, a

\* A packet comes in at the tether.
LEMMA AdcArrives ==
    ASSUME NEW b \in Seq(Int), NEW k \in 0 .. Carriers(Len(b)), NEW total \in Nat,
           Len(b) <= total, NEW arriving, NEW t \in Targets,
           AdcHeard(b, k, total, arriving, t), arriving # << >>, t.pending_adc_bytes > 0
    PROVE  /\ k + 1 \in 0 .. Carriers(Len(b))
           /\ AdcHeard(b, k + 1, total, Tail(arriving), frame_cb(t, Head(arriving)))
<1>. DEFINE L == Len(b)
            n == Carriers(L)
            At(j) == Carried(L, j)
            c == Carrier(b, k + 1)
            f == Message("A", "C", c)
<1>1. L \in Nat /\ n \in Nat /\ k \in Nat
  <2>1. L \in Nat  OBVIOUS
  <2>. HIDE DEF L
  <2>2. n \in Nat  BY <2>1, CarriersBound
  <2>. HIDE DEF n
  <2>3. k \in 0 .. n  BY DEF n, L
  <2>. QED  BY <2>1, <2>2, <2>3
<1>2. arriving = Remaining(b, k)  BY DEF AdcHeard
<1>. DEFINE M(i) == Message("A", "C", Carrier(b, k + i))
            m == n - k
<1>3. m \in Nat /\ arriving = [i \in 1 .. m |-> M(i)]
  <2>1. k \in 0 .. n  OBVIOUS
  <2>2. arriving = [i \in 1 .. m |-> M(i)]  BY <1>2 DEF Remaining
  <2>. HIDE DEF n, M
  <2>. QED  BY <1>1, <2>1, <2>2
<1>. HIDE DEF n, L
<1>4. m > 0 /\ k < n /\ k + 1 \in 0 .. n
  <2>1. CASE m = 0
    <3>. HIDE DEF M, m
    <3>1. arriving = << >>  BY <1>3, <2>1
    <3>. QED  BY <3>1
  <2>2. CASE m # 0
    BY <1>1, <1>3, <2>2
  <2>. QED  BY <2>1, <2>2
<1>5. Head(arriving) = f /\ Tail(arriving) = [i \in 1 .. m - 1 |-> M(i + 1)]
  <2>. HIDE DEF M, m
  <2>1. Len(arriving) = m /\ arriving[1] = M(1)  BY <1>3, <1>4
  <2>2. Head(arriving) = arriving[1]  OBVIOUS
  <2>3. Tail(arriving) = [i \in 1 .. m - 1 |-> M(i + 1)]
    <3>1. Tail(arriving) = [i \in 1 .. Len(arriving) - 1 |-> arriving[i + 1]]
      BY <1>3, <1>4
    <3>2. \A i \in 1 .. m - 1 : arriving[i + 1] = M(i + 1)  BY <1>3, <1>4
    <3>. QED  BY <2>1, <3>1, <3>2
  <2>. QED  BY <2>1, <2>2, <2>3 DEF M
<1>6. Tail(arriving) = Remaining(b, k + 1)
  <2>1. m - 1 = n - (k + 1)  BY <1>1
  <2>2. \A i \in 1 .. m - 1 : k + (i + 1) = (k + 1) + i  BY <1>1, <1>3
  <2>3. \A i \in 1 .. m - 1 : M(i + 1) = Message("A", "C", Carrier(b, (k + 1) + i))  BY <2>2
  <2>4. [i \in 1 .. m - 1 |-> M(i + 1)]
          = [i \in 1 .. m - 1 |-> Message("A", "C", Carrier(b, (k + 1) + i))]
    <3>. HIDE DEF M
    <3>. QED  BY <2>3
  <2>. QED  BY <1>5, <2>1, <2>4 DEF Remaining, n, L
<1>. DEFINE x == At(k)
            y == At(k + 1)
<1>7. /\ c \in Seq(Int) /\ Len(c) = y - x
      /\ SubSeq(b, 1, x) \o c = SubSeq(b, 1, y) /\ SubSeq(b, 1, x) \in Seq(Int)
  <2>1. k < Carriers(Len(b)) /\ 0 \in Nat /\ 0 <= k  BY <1>1, <1>4 DEF n, L
  <2>2. /\ c \in Seq(Int) /\ Len(c) = y - x
        /\ SubSeq(b, At(0) + 1, At(k)) \o c = SubSeq(b, At(0) + 1, At(k + 1))
        /\ SubSeq(b, At(0) + 1, At(k)) \in Seq(Int)
    <3>1. k \in Nat  BY <1>1
    <3>2. Spliced(Int, b, 0, k)  BY <2>1, <3>1, CarrierSplices
    <3>. QED  BY <3>2 DEF Spliced, L
  <2>3. At(0) = 0  BY <1>1, CarriersBound
  <2>4. At(0) + 1 = 1  BY <2>3
  <2>. QED  BY <2>2, <2>4
<1>8. x \in 0 .. L /\ y \in 0 .. L
  <2>1. \A j \in Nat : Carried(L, j) \in 0 .. L /\ Carried(L, 0) = 0  BY <1>1, CarriersBound
  <2>2. k + 1 \in Nat  BY <1>1
  <2>. QED  BY <1>1, <2>1, <2>2
<1>9. /\ t.adc_buf = SubSeq(b, 1, x) /\ t.pending_adc_bytes = total - x
      /\ t.printed = IF t.pending_adc_bytes = 0 THEN b ELSE << >>
  BY DEF AdcHeard, L
<1>. DEFINE u == frame_cb(t, f)
            left == t.pending_adc_bytes - Len(c)
            joined == t.adc_buf \o c
<1>10. joined = SubSeq(b, 1, y) /\ left = total - y /\ joined \in Seq(Int) /\ left \in Int
  <2>1. joined = SubSeq(b, 1, y)  BY <1>7, <1>9
  <2>2. joined \in Seq(Int)
    <3>1. ASSUME NEW p \in Seq(Int), NEW q \in Seq(Int) PROVE p \o q \in Seq(Int)
      OBVIOUS
    <3>. QED  BY <1>7, <1>9, <3>1
  <2>. HIDE DEF c, x, y, joined
  <2>. QED  BY <1>1, <1>7, <1>8, <1>9, <2>1, <2>2
<1>11. u = [t EXCEPT !.adc_buf = joined, !.pending_adc_bytes = left,
                     !.printed = IF left = 0 THEN joined ELSE t.printed]
  <2>1. f.family = "A" /\ f.type = "C" /\ f.data = c  BY DEF Message
  <2>. HIDE DEF f, c
  <2>. QED  BY <2>1 DEF frame_cb, _adc_rx
<1>. HIDE DEF c, f, x, y, u, left, joined
<1>12. /\ u.adc_buf = joined /\ u.pending_adc_bytes = left
       /\ u.printed = IF left = 0 THEN joined ELSE t.printed
  BY <1>10, <1>11 DEF Targets
<1>13. left = 0 => joined = b
  <2>. SUFFICES ASSUME left = 0 PROVE joined = b
    OBVIOUS
  <2>1. y = L  BY <1>1, <1>8, <1>10 DEF L
  <2>2. SubSeq(b, 1, Len(b)) = b  OBVIOUS
  <2>. QED  BY <1>10, <2>1, <2>2 DEF L
<1>14. t.printed = << >>  BY <1>9
<1>. QED
  BY <1>4, <1>5, <1>6, <1>10, <1>12, <1>13, <1>14 DEF AdcHeard, u, y, n, L

\* A step that leaves all this alone
LEMMA AdcLeft ==
    ASSUME AdcInv, clean' => clean,
           UNCHANGED <<asked, script, down, up, main, saved_adc_config, stream, tcif, take,
                       eol_adc_buf>>,
           tgt'.pending_frames = tgt.pending_frames, tgt'.adc_buf = tgt.adc_buf,
           tgt'.printed = tgt.printed, tgt'.pending_adc_bytes = tgt.pending_adc_bytes
    PROVE  AdcInv'
<1>. SUFFICES ASSUME clean', asked'.kind = "adc" PROVE AdcAsked(asked') /\ AdcStage'
  BY DEF AdcInv
<1>1. AdcAsked(asked) /\ AdcStage  BY DEF AdcInv
<1>2. NoCapture' <=> NoCapture  BY DEF NoCapture
<1>3. AdcFresh' <=> AdcFresh  BY DEF AdcFresh
<1>4. AdcRequested' <=> AdcRequested  BY DEF AdcRequested
<1>5. AdcBegun' <=> AdcBegun  BY <1>4 DEF AdcBegun
<1>6. AdcComplete' <=> AdcComplete  BY DEF AdcComplete
<1>7. Captured' = Captured  BY DEF Captured
<1>8. CASE AdcWaits  BY <1>1, <1>2, <1>3, <1>8 DEF AdcWaits, AdcStage
<1>9. CASE AdcSent  BY <1>1, <1>2, <1>3, <1>4, <1>9 DEF AdcSent, AdcStage
<1>10. CASE AdcRefused  BY <1>1, <1>2, <1>3, <1>4, <1>10 DEF AdcRefused, AdcStage
<1>11. CASE AdcReady  BY <1>1, <1>2, <1>3, <1>4, <1>11 DEF AdcReady, AdcStage
<1>12. CASE AdcSampling  BY <1>1, <1>3, <1>5, <1>12 DEF AdcSampling, AdcStage
<1>13. CASE AdcSends
  <2>1. PICK k \in 0 .. Carriers(Len(Captured)) :
          AdcHeard(Captured, k, Total(asked.arg), up, tgt)
    BY <1>13 DEF AdcSends
  <2>2. AdcHeard(Captured, k, Total(asked.arg), up, tgt')  BY <2>1 DEF AdcHeard
  <2>3. AdcHeard(Captured', k, Total(asked'.arg), up', tgt')  BY <1>7, <2>2
  <2>4. k \in 0 .. Carriers(Len(Captured'))  BY <1>7
  <2>. QED  BY <1>1, <1>5, <1>6, <1>13, <2>3, <2>4 DEF AdcSends, AdcStage
<1>14. CASE AdcOver  BY <1>1, <1>2, <1>6, <1>7, <1>14 DEF AdcOver, AdcStage
<1>. QED
  BY <1>1, <1>8, <1>9, <1>10, <1>11, <1>12, <1>13, <1>14 DEF AdcStage

\* The recital's capture goes on without changing what the command waits for.
LEMMA RecitalSamples ==
    ASSUME EolInv, Hardware, NoCapture
    PROVE  /\ NoCapture' /\ UNCHANGED <<saved_adc_config, take, down, up>>
           /\ main' = main \/ (main.at \in {"xmitbuf", "sending"} /\ main' = Loop)
<1>1. CASE Sample
  <2>1. stream.on /\ UNCHANGED <<saved_adc_config, take, main, down, up>>  BY <1>1 DEF Sample
  <2>. QED  BY <2>1 DEF NoCapture
<1>2. CASE ModemHalf
  <2>1. saved_adc_config.cb = "dtmf_process" /\ UNCHANGED <<saved_adc_config, take, main, down, up>>
    BY <1>2 DEF ModemHalf, adcVars
  <2>. QED  BY <2>1 DEF NoCapture
<1>3. CASE dma2_stream0_isr
  <2>1. tcif /\ UNCHANGED <<saved_adc_config, take, down>>  BY <1>3 DEF dma2_stream0_isr
  <2>2. saved_adc_config.cb = "dtmf_process"  BY <2>1 DEF NoCapture
  <2>3. dtmf_process  BY <1>3, <2>2 DEF dma2_stream0_isr
  <2>4. CutShort /\ up' = up  BY <2>3 DEF dtmf_process
  <2>5. main' = main \/ (main.at \in {"xmitbuf", "sending"} /\ main' = Loop)
    BY <2>4 DEF CutShort
  <2>. QED  BY <2>1, <2>2, <2>4, <2>5 DEF NoCapture
<1>. QED  BY <1>1, <1>2, <1>3 DEF Hardware

\* The tether starts: only an adc_control.py on a quiet board matters.
LEMMA AdcBegins ==
    ASSUME EolInv, NEW s, NEW what, Starts(s, what), s # "adc" => what.kind # "adc",
           s = "adc" => AdcStarts
    PROVE  AdcInv'
<1>. SUFFICES ASSUME clean', asked'.kind = "adc" PROVE AdcAsked(asked') /\ AdcStage'
  BY DEF AdcInv
<1>1. /\ script' = s /\ asked' = what /\ clean' = (Quiet /\ (s = "dac" => ~sending_digit))
      /\ UNCHANGED <<boardVars, down, trouble>>
  BY DEF Starts
<1>2. s = "adc"  BY <1>1
<1>3. PICK a \in AdcRequests :
        /\ Packable(ADCConfigPacket, a)
        /\ Starts("adc", [kind |-> "adc", arg |-> a])
        /\ tgt' = [queue_packet(NewTarget, ADCConfigPacket, a) EXCEPT
                     !.pending_adc_bytes = a.num_points * a.sample_width * Len(a.channels)]
  BY <1>2 DEF AdcStarts
<1>4. asked' = [kind |-> "adc", arg |-> a]  BY <1>3 DEF Starts
<1>5. AdcAsked(asked') /\ asked'.arg = a  BY <1>3, <1>4 DEF AdcAsked
<1>6. Quiet  BY <1>1, <1>2
<1>7. /\ main' = Loop /\ ~tcif' /\ down' = << >>
      /\ stream' = stream /\ saved_adc_config' = saved_adc_config
      /\ stream.on => saved_adc_config.cb = "dtmf_process"
  BY <1>1, <1>6 DEF Quiet, boardVars, adcVars
<1>8. NoCapture'  BY <1>7 DEF NoCapture
<1>9. up' = << >>
  <2>1. up = << >>  BY <1>6 DEF Quiet
  <2>2. Len(up) = 0  BY <2>1
  <2>3. PICK n \in 0 .. Min2(MaxUp, Len(up)) : up' = SubSeq(up, Len(up) - n + 1, Len(up))
    BY DEF Starts, FindsReplies
  <2>4. n = 0  BY <2>2, <2>3, Constants DEF Min2
  <2>5. up' = SubSeq(<< >>, 1, 0)  BY <2>1, <2>2, <2>3, <2>4
  <2>. QED  BY <2>5
<1>10. tgt'.pending_frames = <<AdcPacket(a)>> /\ AdcFresh'
  <2>. DEFINE p == AdcPacket(a)
              w == Total(a)
              e == enqueue(NewTarget, p)
  <2>1. tgt' = [e EXCEPT !.pending_adc_bytes = w]
    BY <1>3 DEF queue_packet, AdcPacket, Total
  <2>2. /\ e.pending_frames = Append(<< >>, p) /\ e.adc_buf = << >> /\ e.printed = << >>
        /\ DOMAIN e = DOMAIN NewTarget
    <3>. HIDE DEF p
    <3>. QED  BY DEF enqueue, NewTarget
  <2>3. DOMAIN e = {"pending_frames", "pending_echo", "pending_dac", "pending_adc_bytes",
                    "adc_buf", "last_echo_sent", "printed"}
    BY <2>2 DEF NewTarget
  <2>. HIDE DEF e, w, p
  <2>4. /\ tgt'.pending_frames = Append(<< >>, p) /\ tgt'.adc_buf = << >>
        /\ tgt'.printed = << >> /\ tgt'.pending_adc_bytes = w
    BY <2>1, <2>2, <2>3
  <2>5. Append(<< >>, p) = <<p>>  OBVIOUS
  <2>. QED  BY <1>5, <2>4, <2>5 DEF AdcFresh, p, w
<1>11. AdcWaits'
  BY <1>1, <1>2, <1>5, <1>7, <1>8, <1>9, <1>10 DEF AdcWaits
<1>. QED  BY <1>5, <1>11 DEF AdcStage

\* A turn that has nothing to send
LEMMA ListensOnly ==
    ASSUME EolInv, NEW arrived \in BOOLEAN, Poll(tgt, arrived), tgt.pending_frames = << >>
    PROVE  /\ down' = down
           /\ ~arrived => tgt' = tgt /\ up' = up
           /\ arrived => up # << >> /\ up' = Tail(up) /\ tgt' = frame_cb(tgt, Head(up))
           /\ tgt'.pending_frames = << >>
<1>. DEFINE heard == IF arrived THEN frame_cb(tgt, Head(up)) ELSE tgt
<1>1. /\ arrived => up # << >>
      /\ up' = IF arrived THEN Tail(up) ELSE up
      /\ heard.pending_frames = << >> => tgt' = heard /\ UNCHANGED down
  BY DEF Poll
<1>2. arrived => Head(up) \in Replies
  BY <1>1, Popped DEF EolInv, TypeInv, BoardType, LineType
<1>3. tgt \in Targets  BY DEF EolInv, TypeInv, TetherType
<1>4. heard.pending_frames = << >>
  <2>1. CASE arrived
    <3>1. frame_cb(tgt, Head(up)).pending_frames = tgt.pending_frames
      BY <1>2, <1>3, <2>1, RepliesAreNotAnswered
    <3>. QED  BY <2>1, <3>1
  <2>. QED  BY <2>1
<1>. HIDE DEF heard
<1>5. tgt' = heard /\ down' = down  BY <1>1, <1>4
<1>. QED  BY <1>1, <1>4, <1>5 DEF heard

\* The capture as eol_adc_callback sends it
LEMMA CapturedTyped ==
    ASSUME EolInv
    PROVE  Captured \in Seq(Int) /\ Len(Captured) = saved_adc_config.buflen
<1>. DEFINE n == saved_adc_config.buflen
<1>1. n \in Nat /\ n <= AdcBufLen
  BY WordFacts DEF EolInv, TypeInv, BoardType, ConfigType, SoundConfig, AdcConfigs
<1>2. eol_adc_buf \in Seq(Int) /\ Len(eol_adc_buf) = AdcBufLen
  BY DEF EolInv, TypeInv, BoardType, AdcBufType
<1>. HIDE DEF n
<1>3. /\ SubSeq(eol_adc_buf, 0 + 1, n) \in Seq(Int) /\ Len(SubSeq(eol_adc_buf, 0 + 1, n)) = n - 0
  BY <1>1, <1>2, Splice
<1>. QED  BY <1>1, <1>3 DEF Captured, n

\* A turn of adc_control.py
LEMMA AdcTurn ==
    ASSUME EolInv, AdcInv, NEW arrived \in BOOLEAN, Turn(arrived) PROVE AdcInv'
<1>. SUFFICES ASSUME clean', asked'.kind = "adc" PROVE AdcAsked(asked') /\ AdcStage'
  BY DEF AdcInv
<1>1. UNCHANGED <<dacVars, eol_adc_buf, saved_adc_config, stream, take, tcif, main, script,
                  asked, clean>>
  BY DEF Turn, boardVars, adcVars
<1>2. AdcAsked(asked) /\ AdcStage  BY <1>1 DEF AdcInv
<1>3. script = "adc" /\ tgt.pending_adc_bytes > 0 /\ Poll(tgt, arrived)
  <2>1. script \in {"adc", "none"}
    BY <1>2 DEF AdcStage, AdcWaits, AdcSent, AdcRefused, AdcReady, AdcSampling, AdcSends, AdcOver,
                AdcBegun, AdcRequested
  <2>. QED  BY <2>1 DEF Turn
<1>4. /\ AdcAsked(asked') /\ (NoCapture' <=> NoCapture) /\ (AdcComplete' <=> AdcComplete)
      /\ Captured' = Captured
  BY <1>1, <1>2 DEF NoCapture, AdcComplete, Captured
<1>5. CASE tgt' = tgt /\ down' = down /\ up' = up
  <2>1. AdcInv'  BY <1>1, <1>5, AdcLeft
  <2>. QED  BY <2>1 DEF AdcInv
<1>6. CASE tgt.pending_frames = << >> /\ up = << >>
  BY <1>3, <1>5, <1>6, ListensOnly
<1>7. CASE AdcWaits
  <2>. DEFINE p == AdcPacket(asked.arg)
  <2>1. tgt.pending_frames = <<p>> /\ ~arrived /\ up' = up
    BY <1>3, <1>7 DEF AdcWaits, Poll
  <2>2. /\ down' = Append(down, Head(tgt.pending_frames))
        /\ tgt' = [tgt EXCEPT !.pending_frames = Tail(@)]
    <3>1. tgt.pending_frames # << >>
      <4>1. ASSUME NEW v PROVE <<v>> # << >>
        OBVIOUS
      <4>. QED  BY <2>1, <4>1, Zenon
    <3>. DEFINE heard == IF arrived THEN frame_cb(tgt, Head(up)) ELSE tgt
    <3>2. heard = tgt  BY <2>1
    <3>3. heard.pending_frames # << >> =>
            /\ down' = Append(down, Head(heard.pending_frames))
            /\ tgt' = [heard EXCEPT !.pending_frames = Tail(@)]
      BY <1>3 DEF Poll
    <3>. HIDE DEF heard
    <3>. QED  BY <3>1, <3>2, <3>3
  <2>3. down' = <<p>> /\ tgt'.pending_frames = << >>
    <3>1. ASSUME NEW v PROVE Append(<< >>, v) = <<v>> /\ Head(<<v>>) = v /\ Tail(<<v>>) = << >>
      OBVIOUS
    <3>2. down = << >>  BY <1>7 DEF AdcWaits
    <3>. DEFINE e == <<p>>
    <3>3. Head(e) = p /\ Tail(e) = << >> /\ Append(<< >>, p) = e  BY <3>1
    <3>. HIDE DEF e, p
    <3>4. tgt' = [tgt EXCEPT !.pending_frames = Tail(e)] /\ down' = Append(<< >>, Head(e))
      BY <2>1, <2>2, <3>2 DEF e
    <3>5. tgt'.pending_frames = Tail(e)
      BY <3>4 DEF EolInv, TypeInv, TetherType, Targets
    <3>. QED  BY <3>3, <3>4, <3>5 DEF e
  <2>4. /\ tgt'.adc_buf = tgt.adc_buf /\ tgt'.printed = tgt.printed
        /\ tgt'.pending_adc_bytes = tgt.pending_adc_bytes
    <3>. DEFINE r == Tail(tgt.pending_frames)
    <3>1. tgt' = [tgt EXCEPT !.pending_frames = r]  BY <2>2
    <3>. HIDE DEF r
    <3>. QED  BY <3>1 DEF EolInv, TypeInv, TetherType, Targets
  <2>5. AdcFresh'  BY <1>1, <1>7, <2>4 DEF AdcWaits, AdcFresh
  <2>6. Total(asked.arg) > 0  BY <1>3, <1>7 DEF AdcWaits, AdcFresh
  <2>7. AdcSent'
    BY <1>1, <1>3, <1>4, <1>7, <2>1, <2>3, <2>5, <2>6 DEF AdcSent, AdcWaits, AdcRequested
  <2>. QED  BY <1>4, <2>7 DEF AdcStage
<1>8. CASE AdcSent \/ AdcReady \/ AdcSampling
  BY <1>6, <1>8 DEF AdcSent, AdcReady, AdcSampling, AdcBegun, AdcRequested
<1>9. CASE AdcRefused
  <2>1. tgt.pending_frames = << >>  BY <1>9 DEF AdcRefused, AdcRequested
  <2>2. CASE ~arrived  BY <1>3, <1>5, <2>1, <2>2, ListensOnly
  <2>3. CASE arrived
    <3>1. /\ up # << >> /\ up' = Tail(up) /\ tgt' = frame_cb(tgt, Head(up)) /\ down' = down
      BY <1>3, <2>1, <2>3, ListensOnly
    <3>2. up \in Seq(Replies)  BY DEF EolInv, TypeInv, BoardType, LineType
    <3>3. /\ Head(up) = up[1] /\ Len(up) \in Nat /\ Len(up) > 0
          /\ \A i \in 1 .. Len(Tail(up)) : i + 1 \in 1 .. Len(up) /\ Tail(up)[i] = up[i + 1]
      BY <3>1, <3>2, Rest
    <3>4. \A i \in 1 .. Len(up) : up[i].family = "!"  BY <1>9 DEF AdcRefused
    <3>5. Head(up).family = "!"  BY <3>3, <3>4
    <3>6. tgt' = tgt  BY <3>1, <3>5 DEF frame_cb
    <3>7. \A i \in 1 .. Len(up') : up'[i].family = "!"  BY <3>1, <3>3, <3>4
    <3>8. AdcRefused'
      BY <1>1, <1>4, <1>9, <3>1, <3>6, <3>7 DEF AdcRefused, AdcRequested, AdcFresh
    <3>. QED  BY <1>4, <3>8 DEF AdcStage
  <2>. QED  BY <2>2, <2>3
<1>10. CASE AdcSends
  <2>1. tgt.pending_frames = << >> /\ AdcBegun /\ AdcComplete
    BY <1>10 DEF AdcSends, AdcBegun, AdcRequested
  <2>2. CASE ~arrived  BY <1>3, <1>5, <2>1, <2>2, ListensOnly
  <2>3. CASE arrived
    <3>1. /\ up # << >> /\ up' = Tail(up) /\ tgt' = frame_cb(tgt, Head(up)) /\ down' = down
          /\ tgt'.pending_frames = << >>
      BY <1>3, <2>1, <2>3, ListensOnly
    <3>. DEFINE b == Captured
                w == Total(asked.arg)
    <3>2. PICK k \in 0 .. Carriers(Len(b)) : AdcHeard(b, k, w, up, tgt)
      BY <1>10 DEF AdcSends
    <3>3. b \in Seq(Int) /\ w \in Nat /\ Len(b) <= w /\ tgt \in Targets
      <4>1. b \in Seq(Int) /\ Len(b) = saved_adc_config.buflen  BY CapturedTyped
      <4>2. saved_adc_config = AdcConfig(asked.arg)  BY <2>1 DEF AdcBegun
      <4>3. w \in Nat /\ AdcConfig(asked.arg).buflen <= w  BY <1>2, AdcTotal
      <4>. QED  BY <4>1, <4>2, <4>3 DEF EolInv, TypeInv, TetherType
    <3>4. b' = b /\ w' = w  BY <1>1, <1>4
    <3>. HIDE DEF b, w
    <3>5. /\ k + 1 \in 0 .. Carriers(Len(b))
          /\ AdcHeard(b, k + 1, w, Tail(up), frame_cb(tgt, Head(up)))
      BY <1>3, <3>1, <3>2, <3>3, AdcArrives
    <3>6. \E j \in 0 .. Carriers(Len(b)) : AdcHeard(b, j, w, up', tgt')
      BY <3>1, <3>5
    <3>7. \E j \in 0 .. Carriers(Len(b')) : AdcHeard(b', j, w', up', tgt')
      BY <3>4, <3>6
    <3>8. AdcBegun'  BY <1>1, <2>1, <3>1 DEF AdcBegun, AdcRequested
    <3>9. AdcSends'  BY <1>4, <2>1, <3>7, <3>8 DEF AdcSends, b, w
    <3>. QED  BY <1>4, <3>9 DEF AdcStage
  <2>. QED  BY <2>2, <2>3
<1>11. CASE AdcOver  BY <1>3, <1>11 DEF AdcOver
<1>. QED  BY <1>2, <1>7, <1>8, <1>9, <1>10, <1>11 DEF AdcStage

\* adc_control.py ends: by itself when it has got, or expects, all its bytes.
LEMMA AdcEnds == ASSUME EolInv, AdcInv, ScriptEnds PROVE AdcInv'
<1>. SUFFICES ASSUME clean', asked'.kind = "adc" PROVE AdcAsked(asked') /\ AdcStage'
  BY DEF AdcInv
<1>1. /\ script' = "none" /\ tgt' = [NewTarget EXCEPT !.printed = tgt.printed]
      /\ UNCHANGED <<down, eol_adc_buf, saved_adc_config, stream, take, tcif, main, asked,
                     clean>>
      /\ script # "none"
  BY DEF ScriptEnds, Ends, boardVars, adcVars
<1>2. AdcAsked(asked) /\ AdcStage  BY <1>1 DEF AdcInv
<1>3. script = "adc" /\ tgt.pending_adc_bytes <= 0
  <2>1. script \in {"adc", "none"}
    BY <1>2 DEF AdcStage, AdcWaits, AdcSent, AdcRefused, AdcReady, AdcSampling, AdcSends, AdcOver,
                AdcBegun, AdcRequested
  <2>. QED  BY <1>1, <2>1 DEF ScriptEnds
<1>4. tgt'.pending_frames = << >> /\ tgt'.printed = tgt.printed  BY <1>1 DEF NewTarget
<1>5. Total(asked.arg) \in Nat  BY <1>2, AdcTotal
<1>6. /\ AdcAsked(asked') /\ (NoCapture' <=> NoCapture) /\ (AdcComplete' <=> AdcComplete)
      /\ Captured' = Captured
  BY <1>1, <1>2 DEF NoCapture, AdcComplete, Captured
<1>7. CASE AdcWaits
  BY <1>1, <1>4, <1>6, <1>7 DEF AdcWaits, AdcFresh, AdcOver, AdcStage
<1>8. CASE AdcSent \/ AdcRefused \/ AdcReady \/ AdcSampling
  BY <1>3, <1>5, <1>8 DEF AdcSent, AdcRefused, AdcReady, AdcSampling, AdcBegun, AdcRequested,
                          AdcFresh
<1>9. CASE AdcSends
  <2>. DEFINE b == Captured
              w == Total(asked.arg)
  <2>1. PICK k \in 0 .. Carriers(Len(b)) : AdcHeard(b, k, w, up, tgt)
    BY <1>9 DEF AdcSends
  <2>2. /\ AdcBegun /\ AdcComplete  BY <1>9 DEF AdcSends
  <2>3. b \in Seq(Int) /\ Len(b) \in Nat /\ Len(b) <= w
    <3>1. b \in Seq(Int) /\ Len(b) = saved_adc_config.buflen  BY CapturedTyped
    <3>2. saved_adc_config = AdcConfig(asked.arg)  BY <2>2 DEF AdcBegun
    <3>3. AdcConfig(asked.arg).buflen <= w  BY <1>2, AdcTotal
    <3>. QED  BY <3>1, <3>2, <3>3
  <2>4. Carried(Len(b), k) \in 0 .. Len(b)
    <3>1. Carriers(Len(b)) \in Nat  BY <2>3, CarriersBound
    <3>2. k \in Nat  BY <2>1, <3>1
    <3>. QED  BY <2>3, <3>2, CarriersBound
  <2>5. /\ tgt.pending_adc_bytes = w - Carried(Len(b), k)
        /\ tgt.printed = IF tgt.pending_adc_bytes = 0 THEN b ELSE << >>
    BY <2>1 DEF AdcHeard
  <2>. HIDE DEF b
  <2>6. Len(b) = w /\ tgt.pending_adc_bytes = 0  BY <1>3, <1>5, <2>3, <2>4, <2>5
  <2>7. AdcOver'
    BY <1>1, <1>4, <1>6, <2>2, <2>5, <2>6 DEF AdcOver, AdcBegun, b
  <2>. QED  BY <1>6, <2>7 DEF AdcStage
<1>10. CASE AdcOver  BY <1>1, <1>10 DEF AdcOver
<1>. QED  BY <1>2, <1>7, <1>8, <1>9, <1>10 DEF AdcStage

\* The request of adc_control.py is taken: refused, or the ADC is stopped for it.
LEMMA AdcHandled ==
    ASSUME EolInv, AdcInv, Handle, UNCHANGED <<tether, clean, trouble>> PROVE AdcInv'
<1>. SUFFICES ASSUME clean', asked'.kind = "adc" PROVE AdcAsked(asked') /\ AdcStage'
  BY DEF AdcInv
<1>1. UNCHANGED <<script, tgt, asked, clean>>  BY DEF tether
<1>2. AdcAsked(asked) /\ AdcStage  BY <1>1 DEF AdcInv
<1>3. down # << >>
  BY DEF Handle, EchoQuery, EchoTable, LoggingControl, ResetRequest, DacConfigure, DacStart,
         DacStop, AdcCapture, AdcOther, Unknown, Takes
<1>. DEFINE f == AdcPacket(asked.arg)
            c == AdcConfig(asked.arg)
<1>4. AdcSent
  BY <1>2, <1>3 DEF AdcStage, AdcWaits, AdcRefused, AdcReady, AdcSampling, AdcSends, AdcOver,
                    AdcBegun
<1>5. Request = f /\ Tail(down) = << >> /\ f.family = "A" /\ f.type = "C"
  <2>1. ASSUME NEW v PROVE Head(<<v>>) = v /\ Tail(<<v>>) = << >>
    OBVIOUS
  <2>2. down = <<f>>  BY <1>4 DEF AdcSent
  <2>3. f.family = "A" /\ f.type = "C"  BY <1>2, AdcAskedSound
  <2>. HIDE DEF f
  <2>. QED  BY <2>1, <2>2, <2>3 DEF Request
<1>. HIDE DEF f
<1>6. AdcCapture
  <2>1. /\ ~EchoQuery /\ ~EchoTable /\ ~LoggingControl /\ ~ResetRequest /\ ~DacConfigure
        /\ ~DacStart /\ ~DacStop /\ ~AdcOther /\ ~Unknown
    BY <1>5 DEF EchoQuery, EchoTable, LoggingControl, ResetRequest, DacConfigure, DacStart,
                DacStop, AdcOther, Unknown, Takes
  <2>. QED  BY <2>1, Zenon DEF Handle
<1>7. AdcRequest(Request.data) = c  BY <1>5 DEF AdcConfig, f
<1>8. /\ down' = << >>
      /\ UNCHANGED <<eol_adc_buf, saved_adc_config, take, up>>
      /\ \/ c.buflen > AdcBufLen /\ xmit_error /\ UNCHANGED <<stream, tcif>>
         \/ c.buflen <= AdcBufLen /\ main' = [at |-> "capture", config |-> c] /\ adc_stop
  BY <1>5, <1>6, <1>7 DEF AdcCapture, Takes
<1>. HIDE DEF c
<1>9. AdcFresh' /\ AdcRequested'  BY <1>1, <1>4 DEF AdcSent, AdcFresh, AdcRequested
<1>10. NoCapture'
  <2>1. NoCapture  BY <1>4 DEF AdcSent
  <2>2. CASE UNCHANGED <<stream, tcif>>  BY <1>8, <2>1, <2>2 DEF NoCapture
  <2>3. CASE adc_stop
    <3>1. ~stream'.on
      <4>1. stream' = [stream EXCEPT !.on = FALSE] /\ stream \in [on : BOOLEAN, left : 0 .. AdcBufLen]
        BY <2>3 DEF adc_stop, EolInv, TypeInv, BoardType, StreamType
      <4>. QED  BY <4>1
    <3>2. tcif' => stream.on
      <4>1. tcif' = FALSE \/ tcif' = stream.on  BY <2>3 DEF adc_stop
      <4>. QED  BY <4>1, Zenon
    <3>. QED  BY <1>8, <2>1, <3>1, <3>2 DEF NoCapture
  <2>. QED  BY <1>8, <2>2, <2>3
<1>11. up = << >> /\ Len(<< >>) = 0  BY <1>4 DEF AdcSent
<1>12. CASE c.buflen > AdcBufLen /\ xmit_error
  <2>1. main'.at = "xmitbuf" /\ main'.msg.family = "!"
    BY <1>12 DEF xmit_error, xmit_buf, Message
  <2>2. AdcRefused'
    BY <1>1, <1>8, <1>9, <1>10, <1>11, <1>12, <2>1 DEF AdcRefused, c
  <2>. QED  BY <1>1, <1>2, <2>2 DEF AdcStage
<1>13. CASE main' = [at |-> "capture", config |-> c]
  <2>1. AdcReady'
    BY <1>1, <1>8, <1>9, <1>10, <1>11, <1>13 DEF AdcReady, c
  <2>. QED  BY <1>1, <1>2, <2>1 DEF AdcStage
<1>. QED  BY <1>8, <1>12, <1>13

\* The capture begins.
LEMMA AdcSetUp ==
    ASSUME EolInv, AdcInv, CaptureBegins, UNCHANGED <<tether, clean, trouble>> PROVE AdcInv'
<1>. SUFFICES ASSUME clean', asked'.kind = "adc" PROVE AdcAsked(asked') /\ AdcStage'
  BY DEF AdcInv
<1>1. UNCHANGED <<script, tgt, asked, clean>>  BY DEF tether
<1>2. AdcAsked(asked) /\ AdcStage  BY <1>1 DEF AdcInv
<1>3. /\ main.at = "capture" /\ ~tcif /\ main' = Loop /\ saved_adc_config' = main.config
      /\ stream' = [on |-> TRUE, left |-> n_dmas(main.config)]
      /\ UNCHANGED <<tcif, down, up>>
  BY DEF CaptureBegins
<1>4. AdcReady
  BY <1>2, <1>3 DEF AdcStage, AdcWaits, AdcSent, AdcRefused, AdcSampling, AdcSends, AdcOver,
                    AdcBegun, Loop
<1>. DEFINE c == AdcConfig(asked.arg)
<1>5. main.config = c  BY <1>4 DEF AdcReady
<1>6. AdcFresh' /\ AdcRequested' /\ down' = << >> /\ up' = << >>
  BY <1>1, <1>3, <1>4 DEF AdcReady, AdcFresh, AdcRequested
<1>7. AdcBegun'  BY <1>1, <1>3, <1>5, <1>6 DEF AdcBegun
<1>8. stream'.on /\ ~tcif'  BY <1>3
<1>9. Sampled(asked'.arg, take', eol_adc_buf', n_dmas(saved_adc_config') - stream'.left)
  <2>1. n_dmas(c) \in Nat
    <3>1. EolInv'
      <4>1. Undisturbed(CaptureBegins)  BY DEF Undisturbed
      <4>2. [Next]_vars  BY <4>1 DEF Next
      <4>. QED  BY <4>2, EolNext
    <3>2. n_dmas(saved_adc_config') \in 0 .. AdcBufLen
      BY <3>1, DmasTyped DEF EolInv, TypeInv, BoardType, ConfigType
    <3>. QED  BY <1>3, <1>5, <3>2
  <2>2. n_dmas(saved_adc_config') - stream'.left = 0
    <3>1. n_dmas(saved_adc_config') = n_dmas(c) /\ stream'.left = n_dmas(c)  BY <1>3, <1>5
    <3>. HIDE DEF c
    <3>. QED  BY <2>1, <3>1
  <2>3. Sampled(asked'.arg, take', eol_adc_buf', 0)
    <3>1. \A w \in 1 .. 2 : 1 .. 0 * w = {}  OBVIOUS
    <3>. QED  BY <3>1 DEF Sampled
  <2>. QED  BY <2>2, <2>3
<1>10. AdcSampling'  BY <1>6, <1>7, <1>8, <1>9 DEF AdcSampling
<1>. QED  BY <1>1, <1>2, <1>10 DEF AdcStage

\* The refusal is sent.
LEMMA AdcAnswered ==
    ASSUME EolInv, AdcInv, SendDone, UNCHANGED <<tether, clean, trouble>> PROVE AdcInv'
<1>. SUFFICES ASSUME clean', asked'.kind = "adc" PROVE AdcAsked(asked') /\ AdcStage'
  BY DEF AdcInv
<1>1. UNCHANGED <<script, tgt, asked, clean>>  BY DEF tether
<1>2. AdcAsked(asked) /\ AdcStage  BY <1>1 DEF AdcInv
<1>3. /\ main.at \in {"xmitbuf", "sending"} /\ up' = Append(up, main.msg) /\ main' = Loop
      /\ UNCHANGED <<saved_adc_config, stream, tcif, down>>
  BY DEF SendDone, adcVars
<1>4. AdcRefused
  BY <1>2, <1>3 DEF AdcStage, AdcWaits, AdcSent, AdcReady, AdcSampling, AdcSends, AdcOver,
                    AdcBegun, Loop
<1>5. main.msg.family = "!"
  BY <1>3, <1>4 DEF AdcRefused, Loop
<1>6. \A i \in 1 .. Len(up') : up'[i].family = "!"
  <2>1. \A i \in 1 .. Len(up) : up[i].family = "!"  BY <1>4 DEF AdcRefused
  <2>2. up \in Seq(Replies)  BY DEF EolInv, TypeInv, BoardType, LineType
  <2>. DEFINE m == main.msg
  <2>. HIDE DEF m
  <2>3. /\ Len(Append(up, m)) = Len(up) + 1 /\ Len(up) \in Nat
        /\ \A i \in 1 .. Len(up) + 1 : Append(up, m)[i] = IF i <= Len(up) THEN up[i] ELSE m
    BY <2>2
  <2>. QED  BY <1>3, <1>5, <2>1, <2>3 DEF m
<1>7. AdcRefused'
  BY <1>1, <1>3, <1>4, <1>6 DEF AdcRefused, AdcRequested, AdcFresh, NoCapture
<1>. QED  BY <1>1, <1>2, <1>7 DEF AdcStage

\* So many samples fill no more than the buffer.
LEMMA SamplesFit ==
    ASSUME NEW c, c.buflen \in Nat, NEW w \in 1 .. 2, c.sample_width = w
    PROVE  n_dmas(c) \in Nat /\ n_dmas(c) * w <= c.buflen
<1>. DEFINE b == c.buflen
            n == n_dmas(c)
<1>1. n = b \div w  BY DEF n_dmas, Udiv
<1>2. b \in Nat  OBVIOUS
<1>. HIDE DEF b, n
<1>3. CASE w = 1  BY <1>1, <1>2, <1>3 DEF b, n
<1>4. CASE w = 2
  <2>1. n = b \div 2  BY <1>1, <1>4
  <2>2. n \in Nat /\ n * 2 <= b  BY <1>2, <2>1
  <2>. QED  BY <1>4, <2>2 DEF b, n
<1>. QED  BY <1>3, <1>4

\* The bytes of sample k
LEMMA SamplePlace ==
    ASSUME NEW w \in 1 .. 2, NEW k \in Nat, NEW p \in (k * w + 1) .. ((k + 1) * w)
    PROVE  (p - 1) \div w = k
<1>1. CASE w = 1
  <2>1. k * w = k /\ (k + 1) * w = k + 1  BY <1>1
  <2>2. p - 1 = k  BY <2>1
  <2>. QED  BY <1>1, <2>2
<1>2. CASE w = 2
  <2>1. k * w = 2 * k /\ (k + 1) * w = 2 * k + 2  BY <1>2
  <2>2. p - 1 = 2 * k \/ p - 1 = 2 * k + 1  BY <2>1
  <2>. QED  BY <1>2, <2>2
<1>. QED  BY <1>1, <1>2

\* A conversion of the capture
LEMMA AdcConverts ==
    ASSUME EolInv, AdcAsked(asked), AdcSampling, Sample
    PROVE  Sampled(asked.arg, take, eol_adc_buf', n_dmas(saved_adc_config) - (stream.left - 1))
<1>. DEFINE a     == asked.arg
            c     == saved_adc_config
            w     == a.sample_width
            k     == n_dmas(c) - stream.left
            ch    == AdcRegisters(c).sequence[(k % Len(c.channels)) + 1]
            mine  == (k * TransferSize(c) + 1) .. ((k + 1) * TransferSize(c))
<1>1. /\ stream.left > 0
      /\ eol_adc_buf' = [p \in DOMAIN eol_adc_buf |->
                           IF p \in mine THEN Reading(take, ch, p) ELSE eol_adc_buf[p]]
  BY DEF Sample
<1>2. /\ stream.left \in 0 .. AdcBufLen /\ stream.left <= n_dmas(c)
      /\ DOMAIN eol_adc_buf = 1 .. AdcBufLen /\ c.buflen \in Nat /\ c.buflen <= AdcBufLen
  <2>1. eol_adc_buf \in Seq(Int) /\ Len(eol_adc_buf) = AdcBufLen
    BY DEF EolInv, TypeInv, BoardType, AdcBufType
  <2>. QED
    BY <2>1, WordFacts DEF EolInv, TypeInv, BoardType, ConfigType, SoundConfig, AdcConfigs, StreamType
<1>3. c.sample_width = w /\ c.channels = a.channels
  <2>1. c = [cb |-> "eol_adc_callback", buflen |-> Total(a) % WordMod,
             sample_width |-> a.sample_width, prescaler |-> a.prescaler,
             period |-> a.period, sample_time |-> a.sample_time, channels |-> a.channels]
    BY AdcAskedSound DEF AdcSampling, AdcBegun
  <2>. HIDE DEF c, a
  <2>. QED  BY <2>1
<1>4. Sampled(a, take, eol_adc_buf, k)  BY DEF AdcSampling
<1>5. ch = a.channels[(k % Len(a.channels)) + 1]
  <2>1. AdcRegisters(c).sequence = c.channels  BY DEF AdcRegisters
  <2>. QED  BY <1>3, <2>1
<1>. HIDE DEF a, c, ch, k
<1>. SUFFICES ASSUME w \in 1 .. 2, NEW p \in 1 .. (n_dmas(c) - (stream.left - 1)) * w
              PROVE  eol_adc_buf'[p] = Expect(a, take, p)
  BY DEF Sampled, a, c
<1>6. TransferSize(c) = w  BY <1>3 DEF TransferSize
<1>. HIDE DEF w
<1>7. n_dmas(c) \in Nat /\ n_dmas(c) * w <= c.buflen  BY <1>2, <1>3, SamplesFit
<1>8. k \in Nat /\ k + 1 <= n_dmas(c) /\ n_dmas(c) - (stream.left - 1) = k + 1
  BY <1>1, <1>2, <1>7 DEF k
<1>9. p \in 1 .. AdcBufLen /\ p \in 1 .. (k + 1) * w
  <2>. DEFINE n == n_dmas(c)
              e == n - (k + 1)
  <2>1. e \in Nat /\ n = (k + 1) + e /\ n \in Nat  BY <1>7, <1>8
  <2>2. p \in 1 .. (k + 1) * w  BY <1>8
  <2>3. n * w <= AdcBufLen  BY <1>2, <1>7, Constants
  <2>. HIDE DEF e, n
  <2>4. n * w = (k + 1) * w + e * w /\ e * w \in Nat /\ (k + 1) * w \in Nat  BY <1>8, <2>1
  <2>. QED  BY <2>2, <2>3, <2>4, Constants
<1>10. eol_adc_buf'[p] = IF p \in mine THEN Reading(take, ch, p) ELSE eol_adc_buf[p]
  BY <1>1, <1>2, <1>9
<1>11. CASE p \in mine
  <2>1. p \in (k * w + 1) .. ((k + 1) * w)  BY <1>6, <1>11
  <2>2. (p - 1) \div w = k  BY <1>8, <2>1, SamplePlace
  <2>. QED  BY <1>5, <1>10, <1>11, <2>2 DEF Expect, w
<1>12. CASE p \notin mine
  <2>1. k * w \in Nat /\ (k + 1) * w \in Nat  BY <1>8
  <2>2. p \in 1 .. k * w  BY <1>6, <1>9, <1>12, <2>1
  <2>3. eol_adc_buf[p] = Expect(a, take, p)  BY <1>4, <2>2 DEF Sampled, w
  <2>. QED  BY <1>10, <1>12, <2>3
<1>. QED  BY <1>11, <1>12

\* The packets that eol_adc_callback sends
LEMMA StridesRemain == ASSUME NEW b \in Seq(Int) PROVE Strides(b) = Remaining(b, 0)
<1>. DEFINE n == Carriers(Len(b))
            A(i) == Message("A", "C", SubSeq(b, (i - 1) * Stride + 1, Min2(Len(b), i * Stride)))
            B(i) == Message("A", "C", Carrier(b, 0 + i))
<1>1. n \in Nat
  <2>. DEFINE L == Len(b)
  <2>1. L \in Nat  OBVIOUS
  <2>. HIDE DEF L
  <2>2. Carriers(L) \in Nat  BY <2>1, CarriersBound
  <2>. QED  BY <2>2 DEF L
<1>2. \A i \in 1 .. n : A(i) = B(i)
  <2>1. \A i \in 1 .. n : 0 + i = i  BY <1>1
  <2>. QED  BY <2>1, Zenon DEF Carrier, Carried
<1>3. Strides(b) = [i \in 1 .. n |-> A(i)]  BY DEF Strides, Carriers
<1>4. Remaining(b, 0) = [i \in 1 .. n - 0 |-> B(i)]  BY DEF Remaining
<1>. HIDE DEF A, B, n
<1>5. n - 0 = n  BY <1>1
<1>. QED  BY <1>2, <1>3, <1>4, <1>5

\* Conversions, the recital's half buffers, and the interrupt
LEMMA AdcRuns ==
    ASSUME EolInv, AdcInv, Hardware, UNCHANGED <<tether, clean, trouble>> PROVE AdcInv'
<1>. SUFFICES ASSUME clean', asked'.kind = "adc" PROVE AdcAsked(asked') /\ AdcStage'
  BY DEF AdcInv
<1>1. UNCHANGED <<script, tgt, asked, clean>>  BY DEF tether
<1>2. AdcAsked(asked) /\ AdcStage /\ AdcAsked(asked')  BY <1>1 DEF AdcInv
<1>3. /\ AdcFresh' <=> AdcFresh
      /\ AdcRequested' <=> AdcRequested
  BY <1>1 DEF AdcFresh, AdcRequested
<1>4. NoCapture => /\ NoCapture' /\ UNCHANGED <<down, up>>
                   /\ main' = main \/ (main.at \in {"xmitbuf", "sending"} /\ main' = Loop)
  BY RecitalSamples
<1>5. Loop.at \notin {"xmitbuf", "sending"}  BY DEF Loop
<1>6. CASE AdcWaits  BY <1>1, <1>2, <1>3, <1>4, <1>5, <1>6 DEF AdcWaits, AdcStage
<1>7. CASE AdcSent  BY <1>1, <1>2, <1>3, <1>4, <1>5, <1>7 DEF AdcSent, AdcStage
<1>8. CASE AdcRefused  BY <1>1, <1>2, <1>3, <1>4, <1>5, <1>8 DEF AdcRefused, AdcStage
<1>9. CASE AdcReady
  <2>. DEFINE m == [at |-> "capture", config |-> AdcConfig(asked.arg)]
  <2>1. main = m /\ m.at = "capture"  BY <1>9 DEF AdcReady
  <2>. HIDE DEF m
  <2>2. main' = m  BY <1>4, <1>9, <2>1 DEF AdcReady
  <2>3. AdcReady'
    BY <1>1, <1>3, <1>4, <1>9, <2>2 DEF AdcReady, m
  <2>. QED  BY <1>2, <2>3 DEF AdcStage
<1>10. ~(stream.on \/ tcif) => ~Hardware
  BY DEF Hardware, Sample, ModemHalf, dma2_stream0_isr
<1>11. CASE AdcOver
  <2>1. tgt.printed = << >> /\ NoCapture
    BY <1>10, <1>11 DEF AdcOver, AdcComplete
  <2>. QED  BY <1>1, <1>2, <1>4, <1>5, <1>11, <2>1 DEF AdcOver, AdcStage
<1>12. CASE AdcSends  BY <1>10, <1>12 DEF AdcSends, AdcComplete
<1>13. CASE AdcSampling
  <2>. DEFINE a == asked.arg
              c == saved_adc_config
  <2>1. /\ AdcBegun /\ AdcRequested /\ down = << >> /\ main = Loop /\ c = AdcConfig(a)
        /\ up = << >> /\ AdcFresh
    BY <1>13 DEF AdcSampling, AdcBegun
  <2>2. c.cb = "eol_adc_callback" /\ c.cb # "dtmf_process"
    <3>1. AdcConfig(a).cb = "eol_adc_callback"
      <4>1. AdcConfig(a) =
              [cb |-> "eol_adc_callback", buflen |-> Total(a) % WordMod,
               sample_width |-> a.sample_width, prescaler |-> a.prescaler,
               period |-> a.period, sample_time |-> a.sample_time, channels |-> a.channels]
        BY <1>2, AdcAskedSound
      <4>. HIDE DEF a
      <4>. QED  BY <4>1
    <3>. QED  BY <2>1, <3>1
  <2>3. ~ModemHalf  BY <2>2 DEF ModemHalf
  <2>4. CASE Sample
    <3>1. /\ stream' = [on |-> stream.left > 1, left |-> stream.left - 1]
          /\ tcif' = (stream.left = 1) /\ stream.left > 0
          /\ UNCHANGED <<saved_adc_config, take, main, down, up>>
      BY <2>4 DEF Sample
    <3>2. Sampled(a, take, eol_adc_buf', n_dmas(c) - (stream.left - 1))
      BY <1>2, <1>13, <2>4, AdcConverts
    <3>3. Sampled(asked'.arg, take', eol_adc_buf', n_dmas(saved_adc_config') - stream'.left)
      BY <1>1, <3>1, <3>2
    <3>4. stream.left \in 0 .. AdcBufLen
      BY DEF EolInv, TypeInv, BoardType, StreamType
    <3>5. (stream'.on <=> ~tcif') /\ (tcif' => stream'.left = 0)
      <4>1. stream'.on <=> stream.left > 1  BY <3>1
      <4>2. tcif' <=> stream.left = 1  BY <3>1
      <4>3. stream'.left = stream.left - 1  BY <3>1
      <4>. QED  BY <3>1, <3>4, <4>1, <4>2, <4>3, Constants
    <3>6. AdcSampling'
      BY <1>1, <1>3, <2>1, <3>1, <3>3, <3>5 DEF AdcSampling, AdcBegun
    <3>. QED  BY <1>2, <3>6 DEF AdcStage
  <2>5. CASE dma2_stream0_isr
    <3>1. /\ tcif /\ tcif' = FALSE /\ eol_adc_callback
          /\ UNCHANGED <<eol_adc_buf, saved_adc_config, take, down>>
      BY <2>2, <2>5 DEF dma2_stream0_isr
    <3>2. ~stream.on /\ stream.left = 0  BY <1>13, <3>1 DEF AdcSampling
    <3>. DEFINE b == Captured
                w == Total(a)
    <3>3. /\ stream' = [stream EXCEPT !.on = FALSE] /\ up' = up \o Strides(b) /\ main' = Loop
      <4>1. main.at # "xmitbuf" /\ main.at # "sending"  BY <2>1, <1>5
      <4>2. CutShort  BY <3>1, <4>1 DEF eol_adc_callback
      <4>3. main' = main  BY <4>1, <4>2 DEF CutShort
      <4>. QED  BY <2>1, <3>1, <4>3 DEF eol_adc_callback, Captured
    <3>4. b \in Seq(Int) /\ b' = b /\ w' = w
      BY <1>1, <3>1, CapturedTyped DEF Captured
    <3>5. ~stream'.on
      <4>1. stream \in [on : BOOLEAN, left : 0 .. AdcBufLen]
        BY DEF EolInv, TypeInv, BoardType, StreamType
      <4>. QED  BY <3>3, <4>1
    <3>6. AdcComplete'
      <4>1. Sampled(a, take, eol_adc_buf, n_dmas(c) - stream.left)
        BY <1>13 DEF AdcSampling
      <4>2. n_dmas(c) \in Int
        BY DmasTyped DEF EolInv, TypeInv, BoardType, ConfigType
      <4>3. n_dmas(c) - stream.left = n_dmas(c)
        <5>. DEFINE n == n_dmas(c)
        <5>. HIDE DEF n
        <5>1. n \in Int /\ stream.left = 0  BY <3>2, <4>2 DEF n
        <5>2. n - stream.left = n  BY <5>1
        <5>. QED  BY <5>2 DEF n
      <4>4. Sampled(asked'.arg, take', eol_adc_buf', n_dmas(saved_adc_config'))
        BY <1>1, <3>1, <4>1, <4>3
      <4>. QED  BY <3>1, <3>5, <4>4 DEF AdcComplete
    <3>7. AdcHeard(b, 0, w, up', tgt')
      <4>. HIDE DEF b, w
      <4>1. Strides(b) = Remaining(b, 0) /\ Strides(b) \in Seq(Replies)
        BY <3>4, StridesRemain, StridesTyped
      <4>2. up' = Remaining(b, 0)
        <5>1. ASSUME NEW V, NEW s \in Seq(V) PROVE << >> \o s = s
          OBVIOUS
        <5>. QED  BY <2>1, <3>3, <4>1, <5>1
      <4>3. Carried(Len(b), 0) = 0
        <5>. DEFINE L == Len(b)
        <5>1. L \in Nat  BY <3>4
        <5>. HIDE DEF L
        <5>2. Carried(L, 0) = 0  BY <5>1, CarriersBound
        <5>. QED  BY <5>2 DEF L
      <4>4. SubSeq(b, 1, 0) = << >>  BY <3>4
      <4>5. w \in Nat /\ w > 0  BY <1>2, <2>1, AdcTotal DEF AdcRequested, w
      <4>6. tgt'.adc_buf = << >> /\ tgt'.printed = << >> /\ tgt'.pending_adc_bytes = w
        BY <1>1, <2>1 DEF AdcFresh, w
      <4>. QED  BY <4>2, <4>3, <4>4, <4>5, <4>6 DEF AdcHeard
    <3>8. AdcHeard(b', 0, w', up', tgt') /\ 0 \in 0 .. Carriers(Len(b'))
      <4>. HIDE DEF w
      <4>1. Len(b) \in Nat  BY <3>4
      <4>. HIDE DEF b
      <4>2. Carriers(Len(b)) \in Nat  BY <4>1, CarriersBound
      <4>. QED  BY <3>4, <3>7, <4>2
    <3>9. AdcBegun'
      BY <1>1, <1>3, <2>1, <3>1, <3>3 DEF AdcBegun
    <3>10. AdcSends'  BY <3>6, <3>8, <3>9 DEF AdcSends
    <3>. QED  BY <1>2, <3>10 DEF AdcStage
  <2>. QED  BY <2>3, <2>4, <2>5 DEF Hardware
<1>. QED  BY <1>2, <1>6, <1>7, <1>8, <1>9, <1>11, <1>12, <1>13 DEF AdcStage

\* AdcInv holds at first.
LEMMA AdcInit == Init => AdcInv
  BY DEF Init, AdcInv

\* Every step keeps it.
LEMMA AdcNext == EolInv /\ AdcInv /\ [Next]_vars => AdcInv'
<1>. SUFFICES ASSUME EolInv, AdcInv, [Next]_vars PROVE AdcInv'
  OBVIOUS
<1>1. CASE EchoStarts
  <2>1. Starts("echo", [kind |-> "echo"])  BY <1>1 DEF EchoStarts
  <2>. QED  BY <2>1, AdcBegins
<1>2. CASE AdcStarts
  <2>1. PICK a \in AdcRequests : Starts("adc", [kind |-> "adc", arg |-> a])
    BY <1>2 DEF AdcStarts
  <2>. QED  BY <1>2, <2>1, AdcBegins
<1>3. CASE DacStarts
  <2>1. PICK r \in DacRequests :
          Starts("dac", [kind |-> "dac", arg |-> r.arg, ops |-> r.ops])
    BY <1>3, Zenon DEF DacStarts
  <2>. DEFINE what == [kind |-> "dac", arg |-> r.arg, ops |-> r.ops]
  <2>2. what.kind # "adc" /\ Starts("dac", what)  BY <2>1
  <2>. HIDE DEF what
  <2>. QED  BY <2>2, AdcBegins
<1>4. CASE UserStarts
  <2>1. Starts("user", [kind |-> "user"])  BY <1>4 DEF UserStarts
  <2>. QED  BY <2>1, AdcBegins
<1>5. CASE Killed  BY <1>5 DEF Killed, AdcInv
<1>6. CASE Turns
  <2>1. PICK arrived \in BOOLEAN : Turn(arrived)  BY <1>6 DEF Turns
  <2>. QED  BY <2>1, AdcTurn
<1>7. CASE ScriptEnds  BY <1>7, AdcEnds
<1>8. CASE Tick
  <2>1. UNCHANGED <<boardVars, down, up, script, todo, asked, started, clean, trouble>>
        /\ tgt' = [tgt EXCEPT !.last_echo_sent = "old"]
    BY <1>8 DEF Tick
  <2>2. /\ tgt'.pending_frames = tgt.pending_frames /\ tgt'.adc_buf = tgt.adc_buf
        /\ tgt'.printed = tgt.printed /\ tgt'.pending_adc_bytes = tgt.pending_adc_bytes
    BY <2>1 DEF EolInv, TypeInv, TetherType, Targets
  <2>3. UNCHANGED <<main, saved_adc_config, stream, tcif, take, eol_adc_buf>>
    BY <2>1 DEF boardVars, adcVars
  <2>. QED  BY <2>1, <2>2, <2>3, AdcLeft
<1>9. CASE Undisturbed(Handle)  BY <1>9, AdcHandled DEF Undisturbed
<1>10. CASE Undisturbed(CaptureBegins)  BY <1>10, AdcSetUp DEF Undisturbed
<1>11. CASE Undisturbed(SendDone)  BY <1>11, AdcAnswered DEF Undisturbed
<1>12. CASE Undisturbed(Hardware)  BY <1>12, AdcRuns DEF Undisturbed
<1>13. CASE Disturbed(Recital) \/ Disturbed(Lost) \/ Disturbed(FcsMismatch)
  BY <1>13 DEF Disturbed, AdcInv
<1>14. CASE UNCHANGED vars
  <2>1. UNCHANGED <<asked, script, down, up, main, saved_adc_config, stream, tcif, take,
                    eol_adc_buf, tgt, clean>>
    BY <1>14 DEF vars, boardVars, adcVars, tether
  <2>. QED  BY <2>1, AdcLeft
<1>. QED
  BY <1>1, <1>2, <1>3, <1>4, <1>5, <1>6, <1>7, <1>8, <1>9, <1>10, <1>11, <1>12, <1>13, <1>14,
     Zenon DEF Next

\* It always holds.
LEMMA AdcAlways == Spec => [](EolInv /\ AdcInv)
<1>1. Init => EolInv /\ AdcInv  BY EolInit, AdcInit
<1>2. (EolInv /\ AdcInv) /\ [Next]_vars => (EolInv /\ AdcInv)'  BY EolNext, AdcNext
<1>. QED  BY <1>1, <1>2, PTL DEF Spec

\* A capture that was shown
LEMMA AdcShown ==
    ASSUME EolInv, AdcInv, Capture, tgt.printed # << >>
    PROVE  /\ AdcAsked(asked) /\ saved_adc_config = AdcConfig(asked.arg) /\ AdcComplete
           /\ tgt.printed = Captured /\ Len(Captured) = Total(asked.arg)
<1>1. AdcAsked(asked) /\ AdcStage  BY DEF Capture, AdcInv
<1>2. CASE AdcWaits \/ AdcSent \/ AdcRefused \/ AdcReady \/ AdcSampling
  BY <1>2 DEF AdcWaits, AdcSent, AdcRefused, AdcReady, AdcSampling, AdcFresh
<1>3. CASE AdcSends
  <2>. DEFINE b == Captured
              w == Total(asked.arg)
  <2>1. PICK k \in 0 .. Carriers(Len(b)) : AdcHeard(b, k, w, up, tgt)
    BY <1>3 DEF AdcSends
  <2>2. AdcBegun /\ AdcComplete  BY <1>3 DEF AdcSends
  <2>3. b \in Seq(Int) /\ Len(b) \in Nat /\ Len(b) <= w /\ w \in Nat
    <3>1. b \in Seq(Int) /\ Len(b) = saved_adc_config.buflen  BY CapturedTyped
    <3>2. saved_adc_config = AdcConfig(asked.arg)  BY <2>2 DEF AdcBegun
    <3>3. AdcConfig(asked.arg).buflen <= w /\ w \in Nat  BY <1>1, AdcTotal
    <3>. QED  BY <3>1, <3>2, <3>3
  <2>4. Carried(Len(b), k) \in 0 .. Len(b)
    <3>1. Carriers(Len(b)) \in Nat  BY <2>3, CarriersBound
    <3>2. k \in Nat  BY <2>1, <3>1
    <3>. QED  BY <2>3, <3>2, CarriersBound
  <2>5. /\ tgt.pending_adc_bytes = w - Carried(Len(b), k)
        /\ tgt.printed = IF tgt.pending_adc_bytes = 0 THEN b ELSE << >>
    BY <2>1 DEF AdcHeard
  <2>. HIDE DEF b, w
  <2>6. tgt.pending_adc_bytes = 0 /\ tgt.printed = b  BY <2>5
  <2>7. Len(b) = w  BY <2>3, <2>4, <2>5, <2>6
  <2>. QED  BY <1>1, <2>2, <2>6, <2>7 DEF AdcBegun, b, w
<1>4. CASE AdcOver
  BY <1>1, <1>4 DEF AdcOver
<1>. QED  BY <1>1, <1>2, <1>3, <1>4 DEF AdcStage

\* As many whole samples as there are bytes
LEMMA WholeSamples ==
    ASSUME NEW c, NEW n \in Nat, NEW w \in 1 .. 2, c.sample_width = w, c.buflen = n * w
    PROVE  n_dmas(c) * w = c.buflen
<1>1. n_dmas(c) = c.buflen \div w  BY DEF n_dmas, Udiv
<1>2. CASE w = 1  BY <1>1, <1>2
<1>3. CASE w = 2
  <2>1. c.buflen = 2 * n  BY <1>3
  <2>2. c.buflen \div 2 = n  BY <2>1
  <2>. QED  BY <1>1, <1>3, <2>1, <2>2
<1>. QED  BY <1>2, <1>3

\* What adc_control.py shows of an undisturbed capture are the channels' readings, in
\* their order, at every place of every sample: across its arguments' packing, the
\* DMA's count, the packets and the tether's buffer.
THEOREM CapturesExact == Spec => []CaptureExact
<1>1. EolInv /\ AdcInv => CaptureExact
  <2>. SUFFICES ASSUME EolInv, AdcInv, Capture, tgt.printed # << >>,
                       asked.arg.sample_width \in 1 .. 2
                PROVE  tgt.printed = [p \in 1 .. Wanted |->
                         LET conversion == (p - 1) \div asked.arg.sample_width
                         IN  Reading(take, asked.arg.channels[
                               (conversion % Len(asked.arg.channels)) + 1], p)]
    BY DEF CaptureExact
  <2>. DEFINE a == asked.arg
              c == saved_adc_config
              w == a.sample_width
              n == a.num_points * Len(a.channels)
  <2>1. /\ AdcAsked(asked) /\ c = AdcConfig(a) /\ AdcComplete
        /\ tgt.printed = Captured /\ Len(Captured) = Total(a)
    BY AdcShown
  <2>2. Captured \in Seq(Int) /\ Len(Captured) = c.buflen  BY CapturedTyped
  <2>3. c.sample_width = w /\ c.buflen = Total(a)
    <3>1. AdcConfig(a) =
            [cb |-> "eol_adc_callback", buflen |-> Total(a) % WordMod,
             sample_width |-> a.sample_width, prescaler |-> a.prescaler,
             period |-> a.period, sample_time |-> a.sample_time, channels |-> a.channels]
      BY <2>1, AdcAskedSound
    <3>. HIDE DEF a
    <3>2. AdcConfig(a).sample_width = w  BY <3>1
    <3>. QED  BY <2>1, <2>2, <3>2
  <2>4. Total(a) = n * w /\ n \in Nat
    <3>1. a \in AdcArguments  BY <2>1, AdcAskedSound
    <3>. HIDE DEF a
    <3>2. a.num_points \in 0 .. WordMod - 1 /\ a.channels \in Seq(Bytes)  BY <3>1 DEF AdcArguments
    <3>. DEFINE x == a.num_points
                y == Len(a.channels)
    <3>3. x \in Nat /\ y \in Nat /\ w \in Nat  BY <3>2 DEF a
    <3>4. Total(a) = x * w * y /\ n = x * y  BY DEF Total
    <3>. HIDE DEF x, y, w, n
    <3>5. x * w * y = (x * y) * w /\ x * y \in Nat  BY <3>3
    <3>. QED  BY <3>4, <3>5
  <2>5. n_dmas(c) * w = Total(a)
    <3>. HIDE DEF n, c, a
    <3>1. w \in 1 .. 2  BY DEF a
    <3>. HIDE DEF w
    <3>. QED  BY <2>3, <2>4, <3>1, WholeSamples
  <2>6. \A p \in 1 .. Total(a) : eol_adc_buf[p] = Expect(a, take, p)
    <3>1. Sampled(a, take, eol_adc_buf, n_dmas(c))  BY <2>1 DEF AdcComplete
    <3>. QED  BY <2>5, <3>1 DEF Sampled
  <2>7. Total(a) \in Nat /\ Total(a) <= Len(eol_adc_buf) /\ eol_adc_buf \in Seq(Int)
    <3>1. c.buflen <= AdcBufLen /\ eol_adc_buf \in Seq(Int) /\ Len(eol_adc_buf) = AdcBufLen
      BY DEF EolInv, TypeInv, BoardType, ConfigType, AdcBufType
    <3>2. Total(a) \in Nat  BY <2>1, AdcTotal
    <3>. QED  BY <2>3, <3>1, <3>2
  <2>8. Captured = SubSeq(eol_adc_buf, 1, Total(a))  BY <2>3 DEF Captured
  <2>9. Captured = [p \in 1 .. Total(a) |-> Expect(a, take, p)]
    <3>. DEFINE t == Total(a)
    <3>. HIDE DEF t, a
    <3>1. SubSeq(eol_adc_buf, 1, t) = [p \in 1 .. t |-> eol_adc_buf[p]]
      BY <2>7 DEF t
    <3>. QED  BY <2>6, <2>8, <3>1 DEF t
  <2>10. Wanted = Total(a)  BY DEF Wanted, Total
  <2>. QED  BY <2>1, <2>9, <2>10 DEF Expect
<1>. QED  BY <1>1, AdcAlways, PTL

\* While an undisturbed capture goes on, what the tether expects is what is on the line
\* and what the board has yet to send.
THEOREM PendingCounts == Spec => []PendingMatches
<1>1. EolInv /\ AdcInv => PendingMatches
  <2>. DEFINE arriving == Len(FlattenSeq([n \in DOMAIN up |-> up[n].data]))
              unsent   == \/ tgt.pending_frames # << >> \/ down # << >> \/ main.at = "capture"
                          \/ stream.on /\ saved_adc_config.cb = "eol_adc_callback"
                          \/ tcif /\ saved_adc_config.cb = "eol_adc_callback"
              w == Total(asked.arg)
  <2>. SUFFICES ASSUME EolInv, AdcInv, CaptureOn
                PROVE  tgt.pending_adc_bytes = arriving + (IF unsent THEN w ELSE 0)
    BY DEF PendingMatches, Wanted, Total
  <2>1. AdcAsked(asked) /\ AdcStage /\ script = "adc" /\ w <= AdcBufLen
    BY DEF CaptureOn, Capture, AdcInv, Wanted, Total
  <2>2. w \in Nat /\ AdcConfig(asked.arg).buflen = w  BY <2>1, AdcTotal
  <2>3. up = << >> => arriving = 0
    <3>. SUFFICES ASSUME up = << >> PROVE arriving = 0
      OBVIOUS
    <3>. DEFINE s == [n \in DOMAIN up |-> up[n].data]
    <3>1. Len(s) = 0 /\ s = << >>
      <4>1. DOMAIN up = {}  OBVIOUS
      <4>. QED  BY <4>1
    <3>. HIDE DEF s
    <3>2. FlattenSeq(s) = << >>  BY <3>1, FlattenNone
    <3>3. Len(FlattenSeq(s)) = 0  BY <3>2
    <3>. QED  BY <3>3 DEF s
  <2>. HIDE DEF arriving
  <2>4. CASE up = << >> /\ unsent /\ AdcFresh
    BY <2>2, <2>3, <2>4 DEF AdcFresh
  <2>5. CASE AdcWaits
    <3>1. tgt.pending_frames # << >>
      <4>1. ASSUME NEW v PROVE <<v>> # << >>
        OBVIOUS
      <4>. QED  BY <2>5, <4>1 DEF AdcWaits
    <3>. QED  BY <2>4, <2>5, <3>1 DEF AdcWaits
  <2>6. CASE AdcSent
    <3>1. down # << >>
      <4>1. ASSUME NEW v PROVE <<v>> # << >>
        OBVIOUS
      <4>. QED  BY <2>6, <4>1 DEF AdcSent
    <3>. QED  BY <2>4, <2>6, <3>1 DEF AdcSent
  <2>7. CASE AdcRefused
    BY <2>1, <2>2, <2>7, Constants DEF AdcRefused
  <2>8. CASE AdcReady
    <3>1. main.at = "capture"  BY <2>8 DEF AdcReady
    <3>. QED  BY <2>4, <2>8, <3>1 DEF AdcReady
  <2>9. CASE AdcSampling
    <3>1. saved_adc_config = AdcConfig(asked.arg)  BY <2>9 DEF AdcSampling, AdcBegun
    <3>2. AdcConfig(asked.arg).cb = "eol_adc_callback"
      <4>. DEFINE a == asked.arg
      <4>1. AdcConfig(a) =
              [cb |-> "eol_adc_callback", buflen |-> Total(a) % WordMod,
               sample_width |-> a.sample_width, prescaler |-> a.prescaler,
               period |-> a.period, sample_time |-> a.sample_time, channels |-> a.channels]
        BY <2>1, AdcAskedSound
      <4>. HIDE DEF a
      <4>2. AdcConfig(a).cb = "eol_adc_callback"  BY <4>1
      <4>. QED  BY <4>2 DEF a
    <3>3. stream.on \/ tcif  BY <2>9 DEF AdcSampling
    <3>. QED  BY <2>4, <2>9, <3>1, <3>2, <3>3 DEF AdcSampling
  <2>10. CASE AdcSends
    <3>. DEFINE b == Captured
    <3>1. PICK k \in 0 .. Carriers(Len(b)) : AdcHeard(b, k, w, up, tgt)
      BY <2>10 DEF AdcSends
    <3>2. b \in Seq(Int) /\ Len(b) = w
      <4>1. saved_adc_config = AdcConfig(asked.arg)  BY <2>10 DEF AdcSends, AdcBegun
      <4>. QED  BY <2>2, <4>1, CapturedTyped
    <3>3. ~unsent
      BY <2>10 DEF AdcSends, AdcBegun, AdcRequested, AdcComplete, Loop
    <3>. HIDE DEF b, w
    <3>4. k \in Nat /\ k <= Carriers(Len(b)) /\ Carriers(Len(b)) \in Nat
      <4>1. Carriers(Len(b)) \in Nat  BY <2>2, <3>2, CarriersBound
      <4>. QED  BY <3>1, <4>1
    <3>5. up = Remaining(b, k) /\ tgt.pending_adc_bytes = w - Carried(Len(b), k)
      BY <3>1 DEF AdcHeard
    <3>6. arriving = Len(b) - Carried(Len(b), k)
      BY <3>2, <3>4, <3>5, RemainingCarry DEF arriving
    <3>7. Carried(Len(b), k) \in 0 .. Len(b)  BY <2>2, <3>2, <3>4, CarriersBound
    <3>. QED  BY <2>2, <3>2, <3>3, <3>5, <3>6, <3>7
  <2>11. CASE AdcOver  BY <2>1, <2>11 DEF AdcOver
  <2>. QED  BY <2>1, <2>5, <2>6, <2>7, <2>8, <2>9, <2>10, <2>11 DEF AdcStage
<1>. QED  BY <1>1, AdcAlways, PTL

\* What an undisturbed script asked for is what the board does: the DAC's wave, timing
\* and state, and every parameter of a capture, the period up to TIM3's 16 bits.
THEOREM RequestsObeyed == Spec => []RequestObeyed
<1>1. EolInv /\ DacInv /\ AdcInv => RequestObeyed
  <2>. SUFFICES ASSUME EolInv, DacInv, AdcInv PROVE RequestObeyed
    OBVIOUS
  <2>1. DacObeys  BY DacObeyedInTheEnd
  <2>2. ASSUME Capture, tgt.printed # << >>
        PROVE  /\ AdcTimer(saved_adc_config).prescaler = asked.arg.prescaler
               /\ asked.arg.period < WordMod =>
                    AdcTimer(saved_adc_config).period = asked.arg.period
               /\ asked.arg.sample_time \in SampleTimes =>
                    AdcRegisters(saved_adc_config).cycles = asked.arg.sample_time
               /\ AdcRegisters(saved_adc_config).sequence = asked.arg.channels
    <3>. DEFINE a == asked.arg
                c == saved_adc_config
    <3>1. AdcAsked(asked) /\ c = AdcConfig(a)  BY <2>2, AdcShown
    <3>2. a \in AdcArguments  BY <3>1, AdcAskedSound
    <3>3. c = [cb |-> "eol_adc_callback", buflen |-> Total(a) % WordMod,
               sample_width |-> a.sample_width, prescaler |-> a.prescaler,
               period |-> a.period, sample_time |-> a.sample_time, channels |-> a.channels]
      BY <3>1, AdcAskedSound
    <3>. HIDE DEF a, c
    <3>4. /\ c.prescaler = a.prescaler /\ c.period = a.period
          /\ c.sample_time = a.sample_time /\ c.channels = a.channels
      BY <3>3
    <3>5. AdcTimer(c) = [prescaler |-> a.prescaler, period |-> a.period % WordMod]
      BY <3>4 DEF AdcTimer, timer_setup_adcdac, CounterMod
    <3>6. a.period < WordMod => a.period % WordMod = a.period
      <4>1. a.period \in Nat
        <5>1. a.period \in 0 .. WordMod * WordMod - 1  BY <3>2 DEF AdcArguments
        <5>. QED  BY <5>1
      <4>. QED  BY <4>1, WordFacts
    <3>7. AdcRegisters(c).sequence = a.channels
          /\ (a.sample_time \in SampleTimes => AdcRegisters(c).cycles = a.sample_time)
      BY <3>4 DEF AdcRegisters
    <3>. QED  BY <3>5, <3>6, <3>7 DEF a, c
  <2>. QED  BY <2>1, <2>2 DEF RequestObeyed, DacObeys
<1>. QED  BY <1>1, AdcAlways, DacAlways, PTL
===========================================================================
