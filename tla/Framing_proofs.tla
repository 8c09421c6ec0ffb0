-------------------------- MODULE Framing_proofs --------------------------
(* Lemmas about the framing's two loops, the one that escapes bytes and the    *)
(* one that sums them up.  They are recursive functions over the numbers up to *)
(* a length; that they satisfy their own equations is proved by induction,     *)
(* through the least counterexample.  The proofs of both links, CommandLink's    *)
(* and TelemetryLink's, rest on them and on where the bytes of a packet stand   *)
(* among its escapes and flags.                                                *)
EXTENDS Framing, Integers, SequenceTheorems, WellFoundedInduction, TLAPS

---------------------------------------------------------------------------
(* Induction and recursion over the numbers.                                 *)

\* Every set of numbers that is not empty has a least one.
LEMMA Least ==
    ASSUME NEW T \in SUBSET Nat, T # {}
    PROVE  \E n \in T : \A m \in T : n <= m
<1>1. IsWellFoundedOn(OpToRel(<, Nat), Nat)
  BY NatLessThanWellFounded
<1>2. PICK n \in T : \A m \in T : ~ (<<m, n>> \in OpToRel(<, Nat))
  BY <1>1, WFMin
<1>3. \A m \in T : ~(m < n)
  BY <1>2 DEF OpToRel
<1> QED BY <1>3

\* What holds of 0 and of the successor of each number it holds of, as a set.
LEMMA Induct ==
    ASSUME NEW S, 0 \in S, \A n \in Nat : n \in S => n + 1 \in S
    PROVE  Nat \subseteq S
<1> DEFINE T == {n \in Nat : n \notin S}
<1>1. SUFFICES ASSUME T # {} PROVE FALSE
  OBVIOUS
<1>2. PICK n \in T : \A m \in T : n <= m
  BY <1>1, Least
<1>3. n # 0 /\ n - 1 \in Nat /\ n - 1 < n
  OBVIOUS
<1>4. n - 1 \in S
  BY <1>2, <1>3
<1> QED BY <1>3, <1>4

\* The same up to N.
LEMMA BoundedInduct ==
    ASSUME NEW N \in Nat, NEW S, 0 \in S,
           \A n \in Nat : n \in S /\ n + 1 <= N => n + 1 \in S
    PROVE  \A n \in Nat : n <= N => n \in S
<1> DEFINE T == {n \in Nat : n <= N => n \in S}
<1>1. 0 \in T
  OBVIOUS
<1>2. ASSUME NEW n \in Nat, n \in T PROVE n + 1 \in T
  <2>1. n + 1 \in Nat /\ (n + 1 <= N => n <= N)
    OBVIOUS
  <2>2. n <= N => n \in S
    BY <1>2
  <2> QED BY <2>1, <2>2
<1> HIDE DEF T
<1>3. Nat \subseteq T
  BY <1>1, <1>2, Induct
<1> QED BY <1>3, Zenon DEF T

\* f is what a loop computes that starts from b and, in its n-th turn, makes
\* h[n][x] of x.
Iterates(f, b, h, N, V) ==
    /\ f \in [0 .. N -> V]
    /\ f[0] = b
    /\ \A n \in 1 .. N : f[n] = h[n][f[n - 1]]

\* There is such a function.
LEMMA Recursion ==
    ASSUME NEW V, NEW b \in V, NEW h \in [Nat -> [V -> V]], NEW N \in Nat
    PROVE  \E f : Iterates(f, b, h, N, V)
<1> DEFINE S == {k \in Nat : \E f : Iterates(f, b, h, k, V)}
<1>1. 0 \in S
  <2> DEFINE f == [n \in 0 .. 0 |-> b]
  <2>1. Iterates(f, b, h, 0, V)
    BY DEF Iterates
  <2> QED BY <2>1
<1>2. ASSUME NEW k \in Nat, k \in S PROVE k + 1 \in S
  <2>1. PICK f : Iterates(f, b, h, k, V)
    BY <1>2
  <2> DEFINE g == [n \in 0 .. k + 1 |-> IF n <= k THEN f[n] ELSE h[k + 1][f[k]]]
  <2>2. f \in [0 .. k -> V] /\ h[k + 1][f[k]] \in V
    BY <2>1 DEF Iterates
  <2>3. g \in [0 .. k + 1 -> V]
    BY <2>2
  <2>4. g[0] = b
    BY <2>1 DEF Iterates
  <2>5. ASSUME NEW n \in 1 .. k + 1 PROVE g[n] = h[n][g[n - 1]]
    <3>1. g[n - 1] = f[n - 1]
      OBVIOUS
    <3>2. CASE n <= k
      <4>1. n \in 1 .. k
        BY <3>2
      <4>2. g[n] = f[n]
        BY <3>2
      <4> HIDE DEF g
      <4> QED BY <2>1, <3>1, <4>1, <4>2 DEF Iterates
    <3>3. CASE n = k + 1
      BY <3>1, <3>3
    <3> QED BY <3>2, <3>3
  <2> HIDE DEF g
  <2>6. Iterates(g, b, h, k + 1, V)
    BY <2>3, <2>4, <2>5 DEF Iterates
  <2> QED BY <2>6
<1> HIDE DEF S
<1>3. Nat \subseteq S
  BY <1>1, <1>2, Induct
<1> QED BY <1>3 DEF S

\* A function that satisfies the equations of a loop has its values in V.
LEMMA Iterated ==
    ASSUME NEW V, NEW b \in V, NEW h \in [Nat -> [V -> V]], NEW N \in Nat,
           NEW f, DOMAIN f = 0 .. N, f = [n \in 0 .. N |-> f[n]], f[0] = b,
           \A n \in 1 .. N : f[n - 1] \in V => f[n] = h[n][f[n - 1]]
    PROVE  Iterates(f, b, h, N, V)
<1> DEFINE S == {k \in Nat : k \in 0 .. N => f[k] \in V}
<1>1. 0 \in S
  OBVIOUS
<1>2. ASSUME NEW k \in Nat, k \in S PROVE k + 1 \in S
  <2> SUFFICES ASSUME k + 1 \in 0 .. N PROVE f[k + 1] \in V
    OBVIOUS
  <2> DEFINE n == k + 1
  <2>1. n \in 1 .. N /\ n - 1 = k /\ n \in Nat
    OBVIOUS
  <2>2. f[n - 1] \in V
    BY <1>2, <2>1
  <2>3. f[n] = h[n][f[n - 1]]
    BY <2>1, <2>2
  <2> QED BY <2>1, <2>2, <2>3
<1> HIDE DEF S
<1>3. Nat \subseteq S
  BY <1>1, <1>2, Induct
<1>4. ASSUME NEW k \in 0 .. N PROVE f[k] \in V
  <2>1. k \in Nat
    OBVIOUS
  <2> QED BY <1>3, <2>1, Zenon DEF S
<1>5. f \in [0 .. N -> V]
  BY <1>4
<1>6. ASSUME NEW n \in 1 .. N PROVE f[n] = h[n][f[n - 1]]
  <2>1. n - 1 \in 0 .. N
    OBVIOUS
  <2>2. f[n - 1] \in V
    BY <1>4, <2>1
  <2> QED BY <2>2
<1> QED BY <1>5, <1>6 DEF Iterates

\* A loop's recursive function, taken apart.
LEMMA Unrolled ==
    ASSUME NEW N \in Nat, NEW b, NEW r, NEW f,
           f = [n \in 0 .. N |-> IF n = 0 THEN b ELSE r[n]]
    PROVE  /\ DOMAIN f = 0 .. N
           /\ f = [n \in 0 .. N |-> f[n]]
           /\ f[0] = b
           /\ \A n \in 1 .. N : f[n] = r[n]
<1>1. DOMAIN f = 0 .. N
  BY Zenon
<1>2. \A n \in 0 .. N : f[n] = IF n = 0 THEN b ELSE r[n]
  BY Zenon
<1>3. f[0] = b
  BY <1>2
<1>4. \A n \in 1 .. N : n \in 0 .. N /\ n # 0
  OBVIOUS
<1>5. \A n \in 1 .. N : f[n] = r[n]
  BY <1>2, <1>4, Zenon
<1>6. f = [n \in 0 .. N |-> f[n]]
  BY <1>1, Zenon
<1> QED BY <1>1, <1>3, <1>5, <1>6

---------------------------------------------------------------------------
(* The two loops of the framing.                                             *)

\* add_escaped writes two bytes for a flag or an escape, and one for any other.
LEMMA EscapedFacts ==
    ASSUME NEW v \in Nat
    PROVE  /\ Escaped(v) \in Seq(Nat)
           /\ v \in {FLAG, ESCAPE} => /\ Len(Escaped(v)) = 2
                                      /\ Escaped(v)[1] = ESCAPE /\ Escaped(v)[2] = v
           /\ v \notin {FLAG, ESCAPE} => Len(Escaped(v)) = 1 /\ Escaped(v)[1] = v
BY HdlcAssumption DEF Escaped, Bytes

\* The loop of packet_frame that escapes its bytes (packet.c:130) does what it
\* says: what TLC evaluates satisfies its equations, for a sequence of any length.
LEMMA EscapesDef ==
    ASSUME NEW s \in Seq(Nat)
    PROVE  /\ Escapes(s) \in [0 .. Len(s) -> Seq(Nat)]
           /\ Escapes(s)[0] = << >>
           /\ \A n \in 1 .. Len(s) : Escapes(s)[n] = Escapes(s)[n - 1] \o Escaped(s[n])
<1> DEFINE N == Len(s)
           V == Seq(Nat)
           b == << >>
           step(n, x) == x \o Escaped(s[n])
           h == [n \in Nat |-> [x \in V |-> IF n \in 1 .. N THEN step(n, x) ELSE x]]
           Body(w) == [n \in 0 .. N |-> IF n = 0 THEN b ELSE step(n, w[n - 1])]
<1>1. N \in Nat /\ b \in V
  OBVIOUS
<1>2. ASSUME NEW n \in Nat, NEW x \in V
      PROVE  (IF n \in 1 .. N THEN step(n, x) ELSE x) \in V
  <2>1. CASE n \in 1 .. N
    <3>1. s[n] \in Nat
      BY <2>1
    <3>2. Escaped(s[n]) \in Seq(Nat)
      BY <3>1, EscapedFacts
    <3>3. step(n, x) \in V
      BY <3>2, ConcatProperties
    <3> QED BY <2>1, <3>3
  <2>2. CASE n \notin 1 .. N
    BY <2>2
  <2> QED BY <2>1, <2>2
<1>3. h \in [Nat -> [V -> V]]
  BY <1>2, Zenon
<1>4. ASSUME NEW w, NEW n \in 1 .. N, w[n - 1] \in V
      PROVE  h[n][w[n - 1]] = step(n, w[n - 1])
  <2>1. n \in Nat
    OBVIOUS
  <2> QED BY <1>4, <2>1, Zenon
<1>5. Escapes(s) = CHOOSE w : w = Body(w)
  BY Zenon DEF Escapes
<1> HIDE DEF N, V, b, step, h
<1>6. PICK g : Iterates(g, b, h, N, V)
  BY <1>1, <1>3, Recursion
<1>7. g = Body(g)
  <2>1. g \in [0 .. N -> V] /\ g[0] = b /\ \A n \in 1 .. N : g[n] = h[n][g[n - 1]]
    BY <1>6, Zenon DEF Iterates
  <2>2. ASSUME NEW n \in 1 .. N PROVE g[n] = step(n, g[n - 1])
    <3>1. g[n - 1] \in V
      <4>1. n - 1 \in 0 .. N
        BY <1>1
      <4> QED BY <2>1, <4>1
    <3> QED BY <1>4, <2>1, <3>1, Zenon
  <2>3. ASSUME NEW n \in 0 .. N
        PROVE  g[n] = IF n = 0 THEN b ELSE step(n, g[n - 1])
    <3>1. n = 0 \/ n \in 1 .. N
      BY <1>1
    <3> QED BY <2>1, <2>2, <3>1, Zenon
  <2> QED BY <2>1, <2>3, Zenon
<1> DEFINE e == Escapes(s)
<1>8. e = Body(e)
  BY <1>5, <1>7, Zenon
<1> HIDE DEF e
<1>9. /\ DOMAIN e = 0 .. N
      /\ e = [n \in 0 .. N |-> e[n]]
      /\ e[0] = b
      /\ \A n \in 1 .. N : e[n] = step(n, e[n - 1])
  <2> DEFINE r == [n \in 0 .. N |-> step(n, e[n - 1])]
  <2>1. e = [n \in 0 .. N |-> IF n = 0 THEN b ELSE r[n]]
    BY <1>8, Zenon
  <2>2. \A n \in 1 .. N : r[n] = step(n, e[n - 1])
    <3>1. \A n \in 1 .. N : n \in 0 .. N
      BY <1>1
    <3> QED BY <3>1, Zenon
  <2> HIDE DEF r
  <2>3. /\ DOMAIN e = 0 .. N /\ e = [n \in 0 .. N |-> e[n]]
        /\ e[0] = b /\ \A n \in 1 .. N : e[n] = r[n]
    BY <1>1, <2>1, Unrolled
  <2> QED BY <2>2, <2>3, Zenon
<1>10. \A n \in 1 .. N : e[n - 1] \in V => e[n] = h[n][e[n - 1]]
  BY <1>4, <1>9, Zenon
<1>11. Iterates(e, b, h, N, V)
  BY <1>1, <1>3, <1>9, <1>10, Iterated
<1>12. e \in [0 .. N -> V]
  BY <1>11, Zenon DEF Iterates
<1> QED BY <1>9, <1>12, Zenon DEF N, V, b, step, e

\* So does the loop of packet_fcs (packet.c:175).
LEMMA ChecksumsDef ==
    ASSUME NEW s \in Seq(Bytes)
    PROVE  /\ Checksums(s) \in [0 .. Len(s) -> Words]
           /\ Checksums(s)[0] = PACKET_FCS_INITIAL
           /\ \A n \in 1 .. Len(s) : Checksums(s)[n] = fcs_step(s[n], Checksums(s)[n - 1])
<1> DEFINE N == Len(s)
           V == Words
           b == PACKET_FCS_INITIAL
           step(n, x) == fcs_step(s[n], x)
           h == [n \in Nat |-> [x \in V |-> IF n \in 1 .. N THEN step(n, x) ELSE x]]
           Body(w) == [n \in 0 .. N |-> IF n = 0 THEN b ELSE step(n, w[n - 1])]
<1>1. N \in Nat /\ b \in V
  BY HdlcAssumption
<1>2. ASSUME NEW n \in Nat, NEW x \in V
      PROVE  (IF n \in 1 .. N THEN step(n, x) ELSE x) \in V
  <2>1. CASE n \in 1 .. N
    <3>1. s[n] \in Bytes
      BY <2>1, ElementOfSeq
    <3>2. step(n, x) \in V
      BY <3>1, HdlcAssumption, Zenon
    <3> QED BY <2>1, <3>2
  <2>2. CASE n \notin 1 .. N
    BY <2>2
  <2> QED BY <2>1, <2>2
<1>3. h \in [Nat -> [V -> V]]
  BY <1>2, Zenon
<1>4. ASSUME NEW w, NEW n \in 1 .. N, w[n - 1] \in V
      PROVE  h[n][w[n - 1]] = step(n, w[n - 1])
  <2>1. n \in Nat
    OBVIOUS
  <2> QED BY <1>4, <2>1, Zenon
<1>5. Checksums(s) = CHOOSE w : w = Body(w)
  BY Zenon DEF Checksums
<1> HIDE DEF N, V, b, step, h
<1>6. PICK g : Iterates(g, b, h, N, V)
  BY <1>1, <1>3, Recursion
<1>7. g = Body(g)
  <2>1. g \in [0 .. N -> V] /\ g[0] = b /\ \A n \in 1 .. N : g[n] = h[n][g[n - 1]]
    BY <1>6, Zenon DEF Iterates
  <2>2. ASSUME NEW n \in 1 .. N PROVE g[n] = step(n, g[n - 1])
    <3>1. g[n - 1] \in V
      <4>1. n - 1 \in 0 .. N
        BY <1>1
      <4> QED BY <2>1, <4>1
    <3> QED BY <1>4, <2>1, <3>1, Zenon
  <2>3. ASSUME NEW n \in 0 .. N
        PROVE  g[n] = IF n = 0 THEN b ELSE step(n, g[n - 1])
    <3>1. n = 0 \/ n \in 1 .. N
      BY <1>1
    <3> QED BY <2>1, <2>2, <3>1, Zenon
  <2> QED BY <2>1, <2>3, Zenon
<1> DEFINE e == Checksums(s)
<1>8. e = Body(e)
  BY <1>5, <1>7, Zenon
<1> HIDE DEF e
<1>9. /\ DOMAIN e = 0 .. N
      /\ e = [n \in 0 .. N |-> e[n]]
      /\ e[0] = b
      /\ \A n \in 1 .. N : e[n] = step(n, e[n - 1])
  <2> DEFINE r == [n \in 0 .. N |-> step(n, e[n - 1])]
  <2>1. e = [n \in 0 .. N |-> IF n = 0 THEN b ELSE r[n]]
    BY <1>8, Zenon
  <2>2. \A n \in 1 .. N : r[n] = step(n, e[n - 1])
    <3>1. \A n \in 1 .. N : n \in 0 .. N
      BY <1>1
    <3> QED BY <3>1, Zenon
  <2> HIDE DEF r
  <2>3. /\ DOMAIN e = 0 .. N /\ e = [n \in 0 .. N |-> e[n]]
        /\ e[0] = b /\ \A n \in 1 .. N : e[n] = r[n]
    BY <1>1, <2>1, Unrolled
  <2> QED BY <2>2, <2>3, Zenon
<1>10. \A n \in 1 .. N : e[n - 1] \in V => e[n] = h[n][e[n - 1]]
  BY <1>4, <1>9, Zenon
<1>11. Iterates(e, b, h, N, V)
  BY <1>1, <1>3, <1>9, <1>10, Iterated
<1>12. e \in [0 .. N -> V]
  BY <1>11, Zenon DEF Iterates
<1> QED BY <1>9, <1>12, Zenon DEF N, V, b, step, e

---------------------------------------------------------------------------
(* Where the bytes of a sequence end up among the escapes.                    *)

\* The same with the index of the byte before.
LEMMA EscapesStep ==
    ASSUME NEW s \in Seq(Nat)
    PROVE  /\ Len(s) \in Nat
           /\ Escapes(s)[0] = << >>
           /\ \A n \in Nat : n <= Len(s) => Escapes(s)[n] \in Seq(Nat)
           /\ \A n \in Nat : n + 1 <= Len(s) =>
                /\ s[n + 1] \in Nat
                /\ Escapes(s)[n + 1] = Escapes(s)[n] \o Escaped(s[n + 1])
<1> DEFINE e == Escapes(s)
           N == Len(s)
<1>1. /\ e \in [0 .. N -> Seq(Nat)] /\ e[0] = << >>
      /\ \A n \in 1 .. N : e[n] = e[n - 1] \o Escaped(s[n])
  BY EscapesDef
<1>2. N \in Nat /\ \A n \in 1 .. N : s[n] \in Nat
  OBVIOUS
<1> HIDE DEF e, N
<1>3. ASSUME NEW n \in Nat, n <= N PROVE e[n] \in Seq(Nat)
  BY <1>1, <1>2, <1>3
<1>4. ASSUME NEW n \in Nat, n + 1 <= N
      PROVE  s[n + 1] \in Nat /\ e[n + 1] = e[n] \o Escaped(s[n + 1])
  <2> DEFINE k == n + 1
  <2>1. k \in 1 .. N /\ k - 1 = n
    BY <1>2, <1>4
  <2> HIDE DEF k
  <2>2. s[k] \in Nat /\ e[k] = e[n] \o Escaped(s[k])
    BY <1>1, <1>2, <2>1
  <2> QED BY <2>2 DEF k
<1> QED BY <1>1, <1>2, <1>3, <1>4 DEF e, N

\* What the loop has written stays as it goes on.
Prefix(t, u) == Len(t) <= Len(u) /\ \A i \in 1 .. Len(t) : u[i] = t[i]

\* Writing on keeps what is written.
LEMMA PrefixGrows ==
    ASSUME NEW t \in Seq(Nat), NEW u \in Seq(Nat), NEW v \in Seq(Nat), Prefix(t, u)
    PROVE  Prefix(t, u \o v)
<1>1. /\ Len(u \o v) = Len(u) + Len(v)
      /\ \A i \in 1 .. Len(u) + Len(v) : (u \o v)[i] = IF i <= Len(u) THEN u[i] ELSE v[i - Len(u)]
  BY ConcatProperties
<1>2. Len(t) \in Nat /\ Len(u) \in Nat /\ Len(v) \in Nat
  OBVIOUS
<1>3. \A i \in 1 .. Len(u) : (u \o v)[i] = u[i]
  BY <1>1, <1>2
<1> DEFINE w == u \o v
<1> HIDE DEF w
<1>4. Len(t) <= Len(w)
  BY <1>1, <1>2 DEF Prefix, w
<1>5. ASSUME NEW i \in 1 .. Len(t) PROVE w[i] = t[i]
  <2>1. i \in 1 .. Len(u)
    BY <1>2 DEF Prefix
  <2> QED BY <1>3, <2>1 DEF Prefix, w
<1> QED BY <1>4, <1>5 DEF Prefix, w

\* What the loop has written after m bytes is still there after n.
LEMMA EscapesPrefix ==
    ASSUME NEW s \in Seq(Nat), NEW m \in Nat, NEW n \in Nat, m <= n, n <= Len(s)
    PROVE  Prefix(Escapes(s)[m], Escapes(s)[n])
<1> DEFINE N == Len(s)
           e == Escapes(s)
           S == {k \in Nat : m <= k => Prefix(e[m], e[k])}
<1>1. /\ N \in Nat
      /\ \A k \in Nat : k <= N => e[k] \in Seq(Nat)
      /\ \A k \in Nat : k + 1 <= N => s[k + 1] \in Nat /\ e[k + 1] = e[k] \o Escaped(s[k + 1])
  BY EscapesStep
<1> HIDE DEF e, N
<1>2. Prefix(e[m], e[m])
  <2>1. m <= N
    BY <1>1 DEF N
  <2>2. e[m] \in Seq(Nat)
    BY <1>1, <2>1
  <2> QED BY <2>2 DEF Prefix
<1>3. 0 \in S
  <2>1. m <= 0 => m = 0
    OBVIOUS
  <2> QED BY <1>2, <2>1
<1>4. ASSUME NEW k \in Nat, k \in S, k + 1 <= N PROVE k + 1 \in S
  <2> SUFFICES ASSUME m <= k + 1 PROVE Prefix(e[m], e[k + 1])
    OBVIOUS
  <2>1. CASE m = k + 1
    BY <1>2, <2>1
  <2>2. CASE m <= k
    <3>1. k <= N /\ m <= N
      BY <1>1, <1>4, <2>2
    <3>2. e[m] \in Seq(Nat) /\ e[k] \in Seq(Nat) /\ s[k + 1] \in Nat
      BY <1>1, <1>4, <3>1
    <3>3. Escaped(s[k + 1]) \in Seq(Nat)
      BY <3>2, EscapedFacts
    <3>4. Prefix(e[m], e[k])
      BY <1>4, <2>2
    <3>5. Prefix(e[m], e[k] \o Escaped(s[k + 1]))
      BY <3>2, <3>3, <3>4, PrefixGrows
    <3> QED BY <1>1, <1>4, <3>5
  <2> QED BY <2>1, <2>2
<1> HIDE DEF S
<1>5. \A k \in Nat : k <= N => k \in S
  BY <1>1, <1>3, <1>4, BoundedInduct
<1>6. n \in S
  BY <1>5 DEF N
<1> QED BY <1>6 DEF S, e

\* The n-th byte of s goes right behind what was written before it, in one
\* place or, with its escape, in two.
Placed(s, n, before, after, whole) ==
    /\ before \in Nat /\ after \in Nat /\ after <= Len(whole)
    /\ s[n + 1] \in {FLAG, ESCAPE} =>
         /\ after = before + 2
         /\ whole[before + 1] = ESCAPE
         /\ whole[before + 2] = s[n + 1]
    /\ s[n + 1] \notin {FLAG, ESCAPE} =>
         /\ after = before + 1
         /\ whole[before + 1] = s[n + 1]

\* Each byte's place in the escaped sequence.
LEMMA EscapedPlace ==
    ASSUME NEW s \in Seq(Nat), NEW n \in Nat, n + 1 <= Len(s)
    PROVE  Placed(s, n, Len(Escapes(s)[n]), Len(Escapes(s)[n + 1]), EscapeAll(s))
<1> DEFINE t == Escapes(s)[n]
           x == s[n + 1]
           u == Escaped(x)
           v == Escapes(s)[n + 1]
           w == EscapeAll(s)
<1>1. t \in Seq(Nat) /\ v \in Seq(Nat) /\ v = t \o u /\ x \in Nat
  <2>1. n <= Len(s) /\ n + 1 \in Nat
    OBVIOUS
  <2> QED BY <2>1, EscapesStep
<1>2. /\ u \in Seq(Nat)
      /\ x \in {FLAG, ESCAPE} => Len(u) = 2 /\ u[1] = ESCAPE /\ u[2] = x
      /\ x \notin {FLAG, ESCAPE} => Len(u) = 1 /\ u[1] = x
  BY <1>1, EscapedFacts
<1>3. Prefix(v, w)
  <2>1. n + 1 \in Nat /\ Len(s) \in Nat /\ Len(s) <= Len(s)
    OBVIOUS
  <2> QED BY <2>1, EscapesPrefix DEF EscapeAll
<1> HIDE DEF t, u, v, w, x
<1>4. /\ Len(t) \in Nat /\ Len(u) \in Nat /\ Len(v) = Len(t) + Len(u)
      /\ \A i \in 1 .. Len(t) + Len(u) : v[i] = IF i <= Len(t) THEN t[i] ELSE u[i - Len(t)]
  BY <1>1, <1>2, ConcatProperties
<1>5. ASSUME NEW j \in 1 .. Len(u) PROVE w[Len(t) + j] = u[j]
  <2> DEFINE i == Len(t) + j
  <2>1. i \in 1 .. Len(t) + Len(u) /\ ~(i <= Len(t)) /\ i - Len(t) = j
    BY <1>4
  <2> HIDE DEF i
  <2>2. v[i] = u[j]
    BY <1>4, <2>1
  <2>3. w[i] = v[i]
    BY <1>3, <1>4, <2>1 DEF Prefix
  <2> QED BY <2>2, <2>3 DEF i
<1>6. x \in {FLAG, ESCAPE} =>
        Len(v) = Len(t) + 2 /\ w[Len(t) + 1] = ESCAPE /\ w[Len(t) + 2] = x
  <2> SUFFICES ASSUME x \in {FLAG, ESCAPE}
               PROVE  Len(v) = Len(t) + 2 /\ w[Len(t) + 1] = ESCAPE /\ w[Len(t) + 2] = x
    OBVIOUS
  <2>1. Len(u) = 2 /\ u[1] = ESCAPE /\ u[2] = x
    BY <1>2
  <2>2. 1 \in 1 .. Len(u) /\ 2 \in 1 .. Len(u)
    BY <2>1
  <2>3. w[Len(t) + 1] = u[1] /\ w[Len(t) + 2] = u[2]
    BY <1>5, <2>2
  <2> QED BY <1>4, <2>1, <2>3
<1>7. x \notin {FLAG, ESCAPE} => Len(v) = Len(t) + 1 /\ w[Len(t) + 1] = x
  <2> SUFFICES ASSUME x \notin {FLAG, ESCAPE}
               PROVE  Len(v) = Len(t) + 1 /\ w[Len(t) + 1] = x
    OBVIOUS
  <2>1. Len(u) = 1 /\ u[1] = x
    BY <1>2
  <2>2. 1 \in 1 .. Len(u)
    BY <2>1
  <2>3. w[Len(t) + 1] = u[1]
    BY <1>5, <2>2
  <2> QED BY <1>4, <2>1, <2>3
<1>8. Len(v) \in Nat /\ Len(v) <= Len(w)
  BY <1>1, <1>3 DEF Prefix
<1>9. Placed(s, n, Len(t), Len(v), w)
  BY <1>4, <1>6, <1>7, <1>8 DEF Placed, x
<1> QED BY <1>9 DEF t, v, w

\* Concatenation is associative.
LEMMA Associative ==
    ASSUME NEW a \in Seq(Nat), NEW b \in Seq(Nat), NEW c \in Seq(Nat)
    PROVE  (a \o b) \o c = a \o (b \o c)
BY ConcatAssociative

\* Escaping goes byte by byte: what follows changes nothing.
LEMMA EscapesOfConcat ==
    ASSUME NEW s \in Seq(Nat), NEW t \in Seq(Nat)
    PROVE  /\ \A n \in Nat : n <= Len(s) => Escapes(s \o t)[n] = Escapes(s)[n]
           /\ EscapeAll(s \o t) = EscapeAll(s) \o EscapeAll(t)
<1> DEFINE u == s \o t
           M == Len(s)
           N == Len(t)
<1>1. /\ u \in Seq(Nat) /\ Len(u) = M + N /\ M \in Nat /\ N \in Nat
      /\ \A i \in 1 .. M + N : u[i] = IF i <= M THEN s[i] ELSE t[i - M]
  BY ConcatProperties
<1>2. ASSUME NEW n \in Nat, n + 1 <= M PROVE u[n + 1] = s[n + 1]
  <2> DEFINE k == n + 1
  <2>1. k \in 1 .. M + N /\ k <= M
    BY <1>1, <1>2
  <2> HIDE DEF k, u, M, N
  <2>2. u[k] = s[k]
    BY <1>1, <2>1
  <2> QED BY <2>2 DEF k
<1>3. ASSUME NEW n \in Nat, n + 1 <= N PROVE u[(M + n) + 1] = t[n + 1]
  <2> DEFINE k == (M + n) + 1
             j == n + 1
  <2>1. k \in 1 .. M + N /\ ~(k <= M) /\ k - M = j
    BY <1>1, <1>3
  <2> HIDE DEF k, j, u, M, N
  <2>2. u[k] = t[j]
    BY <1>1, <2>1
  <2> QED BY <2>2 DEF k, j
<1> DEFINE e == Escapes(u)
           f == Escapes(s)
           g == Escapes(t)
<1> HIDE DEF u
<1>4. /\ e[0] = << >>
      /\ \A n \in Nat : n <= M + N => e[n] \in Seq(Nat)
      /\ \A n \in Nat : n + 1 <= M + N => e[n + 1] = e[n] \o Escaped(u[n + 1])
  <2> HIDE DEF M, N
  <2> QED BY <1>1, EscapesStep
<1>5. /\ f[0] = << >>
      /\ \A n \in Nat : n + 1 <= M => f[n + 1] = f[n] \o Escaped(s[n + 1])
  BY EscapesStep
<1>6. /\ g[0] = << >>
      /\ \A n \in Nat : n <= N => g[n] \in Seq(Nat)
      /\ \A n \in Nat : n + 1 <= N =>
           t[n + 1] \in Nat /\ g[n + 1] = g[n] \o Escaped(t[n + 1])
  BY EscapesStep
<1>7. EscapeAll(u) = e[M + N] /\ EscapeAll(s) = f[M] /\ EscapeAll(t) = g[N]
  BY <1>1 DEF EscapeAll
<1> HIDE DEF e, f, g, M, N
<1>8. \A n \in Nat : n <= M => e[n] = f[n]
  <2> DEFINE S == {n \in Nat : e[n] = f[n]}
  <2>1. 0 \in S
    BY <1>4, <1>5
  <2>2. ASSUME NEW n \in Nat, n \in S, n + 1 <= M PROVE n + 1 \in S
    <3>1. n + 1 <= M + N /\ n + 1 \in Nat
      BY <1>1, <2>2
    <3>2. e[n] = f[n]
      BY <2>2
    <3>3. e[n + 1] = e[n] \o Escaped(u[n + 1])
      BY <1>4, <3>1
    <3>4. f[n + 1] = f[n] \o Escaped(s[n + 1])
      BY <1>5, <2>2
    <3>5. u[n + 1] = s[n + 1]
      BY <1>2, <2>2
    <3>6. e[n + 1] = f[n + 1]
      BY <3>2, <3>3, <3>4, <3>5, Zenon
    <3> QED BY <3>1, <3>6
  <2> HIDE DEF S
  <2>3. \A n \in Nat : n <= M => n \in S
    BY <1>1, <2>1, <2>2, BoundedInduct
  <2> QED BY <2>3, Zenon DEF S
<1>9. \A n \in Nat : n <= N => e[M + n] = e[M] \o g[n]
  <2> DEFINE S == {n \in Nat : e[M + n] = e[M] \o g[n]}
  <2>1. M <= M + N /\ M + 0 = M
    BY <1>1
  <2>2. e[M] \in Seq(Nat)
    BY <1>1, <1>4, <2>1
  <2>3. 0 \in S
    <3>1. e[M] \o << >> = e[M]
      BY <2>2, ConcatEmptySeq
    <3> QED BY <1>6, <2>1, <3>1
  <2>4. ASSUME NEW n \in Nat, n \in S, n + 1 <= N PROVE n + 1 \in S
    <3>1. /\ (M + n) + 1 <= M + N /\ n + 1 \in Nat /\ M + n \in Nat /\ n <= N
          /\ M + (n + 1) = (M + n) + 1
      BY <1>1, <2>4
    <3>2. e[M + n] = e[M] \o g[n]
      BY <2>4
    <3>3. e[(M + n) + 1] = e[M + n] \o Escaped(u[(M + n) + 1])
      BY <1>4, <3>1
    <3>4. g[n + 1] = g[n] \o Escaped(t[n + 1]) /\ t[n + 1] \in Nat
      BY <1>6, <2>4
    <3>5. u[(M + n) + 1] = t[n + 1]
      BY <1>3, <2>4
    <3>6. g[n] \in Seq(Nat)
      BY <1>6, <3>1
    <3> DEFINE z == Escaped(t[n + 1])
               a == e[M]
               b == g[n]
    <3>7. z \in Seq(Nat) /\ a \in Seq(Nat) /\ b \in Seq(Nat)
      BY <2>2, <3>4, <3>6, EscapedFacts
    <3>8. e[(M + n) + 1] = (a \o b) \o z /\ g[n + 1] = b \o z
      BY <3>2, <3>3, <3>4, <3>5, Zenon
    <3> HIDE DEF a, b, z
    <3>9. (a \o b) \o z = a \o (b \o z)
      BY <3>7, Associative, SMTT(30)
    <3>10. e[(M + n) + 1] = a \o g[n + 1]
      BY <3>8, <3>9
    <3> QED BY <3>1, <3>10 DEF a
  <2> HIDE DEF S
  <2>5. \A n \in Nat : n <= N => n \in S
    BY <1>1, <2>3, <2>4, BoundedInduct
  <2> QED BY <2>5, Zenon DEF S
<1>10. e[M + N] = f[M] \o g[N]
  <2>1. M <= M /\ N <= N
    BY <1>1
  <2> QED BY <1>1, <1>8, <1>9, <2>1, Zenon
<1> QED BY <1>7, <1>8, <1>10 DEF u, e, f, M

\* Escaping bytes yields numbers.
LEMMA EscapeAllType ==
    ASSUME NEW s \in Seq(Nat)
    PROVE  EscapeAll(s) \in Seq(Nat)
<1>1. Len(s) \in Nat /\ Len(s) <= Len(s)
  OBVIOUS
<1> QED BY <1>1, EscapesStep DEF EscapeAll

\* Bytes and their escapes are bytes.
LEMMA EscapedBytes ==
    ASSUME NEW s \in Seq(Bytes)
    PROVE  EscapeAll(s) \in Seq(Bytes)
<1> DEFINE N == Len(s)
           e == Escapes(s)
           S == {n \in Nat : e[n] \in Seq(Bytes)}
<1>1. s \in Seq(Nat)
  <2>1. Bytes \subseteq Nat
    BY DEF Bytes
  <2> QED BY <2>1, SeqMonotonic
<1>2. /\ e[0] = << >> /\ N \in Nat
      /\ \A n \in Nat : n + 1 <= N => e[n + 1] = e[n] \o Escaped(s[n + 1])
  BY <1>1, EscapesStep
<1>3. ASSUME NEW n \in Nat, n + 1 <= N PROVE s[n + 1] \in Bytes
  <2>1. n + 1 \in 1 .. Len(s)
    BY <1>2, <1>3
  <2> QED BY <2>1, ElementOfSeq
<1> HIDE DEF e
<1>4. 0 \in S
  <2>1. << >> \in Seq(Bytes)
    OBVIOUS
  <2> QED BY <1>2, <2>1
<1>5. ASSUME NEW n \in Nat, n \in S, n + 1 <= N PROVE n + 1 \in S
  <2>1. e[n] \in Seq(Bytes) /\ n + 1 \in Nat
    BY <1>5
  <2>2. s[n + 1] \in Bytes /\ e[n + 1] = e[n] \o Escaped(s[n + 1])
    BY <1>2, <1>3, <1>5
  <2>3. Escaped(s[n + 1]) \in Seq(Bytes)
    BY <2>2, HdlcAssumption DEF Escaped
  <2>4. e[n] \o Escaped(s[n + 1]) \in Seq(Bytes)
    BY <2>1, <2>3, ConcatProperties
  <2> QED BY <2>1, <2>2, <2>4
<1> HIDE DEF S
<1>6. \A n \in Nat : n <= N => n \in S
  BY <1>2, <1>4, <1>5, BoundedInduct
<1>7. e[N] \in Seq(Bytes)
  BY <1>2, <1>6 DEF S
<1> QED BY <1>7 DEF EscapeAll, e

---------------------------------------------------------------------------
(* A frame's content: a header of four bytes, a payload and a checksum.       *)

Content(h, p, w) == (h \o p) \o BigEndian(w)

\* Two bytes make up the word they were made of.
LEMMA TwoBytes ==
    ASSUME NEW w \in Nat
    PROVE  /\ HighByte(w) \in Nat /\ LowByte(w) \in Nat
           /\ HighByte(w) * ByteMod + LowByte(w) = w
           /\ LowByte(w) \in Bytes
           /\ w < ByteMod * ByteMod => HighByte(w) \in Bytes
           /\ BigEndian(w) = <<HighByte(w), LowByte(w)>>
<1>1. ByteMod \in Nat /\ ByteMod > 0
  BY HdlcAssumption DEF Bytes
<1>2. /\ w \div ByteMod \in Nat /\ w % ByteMod \in Nat /\ w % ByteMod < ByteMod
      /\ w = ByteMod * (w \div ByteMod) + (w % ByteMod)
  BY <1>1, Z3
<1>3. w < ByteMod * ByteMod => w \div ByteMod < ByteMod
  BY <1>1, Z3
<1>4. HighByte(w) * ByteMod + LowByte(w) = w
  BY <1>1, <1>2, Z3 DEF HighByte, LowByte
<1> QED BY <1>1, <1>2, <1>3, <1>4 DEF HighByte, LowByte, BigEndian, Bytes

\* The two bytes as a sequence.
LEMMA BigEndianType ==
    ASSUME NEW w \in Nat
    PROVE  /\ BigEndian(w) \in Seq(Nat) /\ Len(BigEndian(w)) = 2
           /\ BigEndian(w)[1] = HighByte(w) /\ BigEndian(w)[2] = LowByte(w)
<1> DEFINE x == HighByte(w)
           y == LowByte(w)
           b == BigEndian(w)
<1>1. x \in Nat /\ y \in Nat /\ b = <<x, y>>
  BY TwoBytes
<1> HIDE DEF x, y, b
<1>2. b \in Seq(Nat) /\ Len(b) = 2 /\ b[1] = x /\ b[2] = y
  BY <1>1
<1> QED BY <1>2 DEF x, y, b

\* Two pairs make a sequence of four.
LEMMA FourBytes ==
    ASSUME NEW a, NEW b, NEW x, NEW y
    PROVE  <<a, b>> \o <<x, y>> = <<a, b, x, y>>
<1> DEFINE S == {a, b, x, y}
           s == <<a, b>>
           t == <<x, y>>
           u == <<a, b, x, y>>
<1>1. s \in Seq(S) /\ t \in Seq(S) /\ u \in Seq(S)
  OBVIOUS
<1>2. /\ Len(s) = 2 /\ Len(t) = 2 /\ Len(u) = 4
      /\ s[1] = a /\ s[2] = b /\ t[1] = x /\ t[2] = y
      /\ u[1] = a /\ u[2] = b /\ u[3] = x /\ u[4] = y
  OBVIOUS
<1> HIDE DEF S, s, t, u
<1>3. /\ s \o t \in Seq(S) /\ Len(s \o t) = Len(s) + Len(t)
      /\ \A i \in 1 .. Len(s) + Len(t) : (s \o t)[i] = IF i <= Len(s) THEN s[i] ELSE t[i - Len(s)]
  BY <1>1, ConcatProperties
<1>4. Len(s \o t) = 4 /\ (s \o t)[1] = a /\ (s \o t)[2] = b /\ (s \o t)[3] = x /\ (s \o t)[4] = y
  BY <1>2, <1>3
<1>5. s \o t = u
  BY <1>1, <1>2, <1>3, <1>4, SeqEqual
<1> QED BY <1>5 DEF s, t, u

\* What is where in a concatenation.
LEMMA Joined ==
    ASSUME NEW s \in Seq(Nat), NEW t \in Seq(Nat)
    PROVE  /\ s \o t \in Seq(Nat) /\ Len(s) \in Nat /\ Len(t) \in Nat
           /\ Len(s \o t) = Len(s) + Len(t)
           /\ \A i \in 1 .. Len(s) : (s \o t)[i] = s[i]
           /\ \A i \in 1 .. Len(t) : (s \o t)[Len(s) + i] = t[i]
<1> DEFINE u == s \o t
           M == Len(s)
           N == Len(t)
<1>1. /\ u \in Seq(Nat) /\ Len(u) = M + N /\ M \in Nat /\ N \in Nat
      /\ \A i \in 1 .. M + N : u[i] = IF i <= M THEN s[i] ELSE t[i - M]
  BY ConcatProperties
<1> HIDE DEF u, M, N
<1>2. \A i \in 1 .. M : u[i] = s[i]
  BY <1>1
<1>3. ASSUME NEW i \in 1 .. N PROVE u[M + i] = t[i]
  <2> DEFINE j == M + i
  <2>1. j \in 1 .. M + N /\ ~(j <= M) /\ j - M = i
    BY <1>1
  <2> HIDE DEF j
  <2>2. u[j] = t[i]
    BY <1>1, <2>1
  <2> QED BY <2>2 DEF j
<1> QED BY <1>1, <1>2, <1>3 DEF u, M, N

\* The places of a header's, a payload's and a checksum's bytes in a content s.
Composed(h, p, w, s) ==
    /\ s \in Seq(Nat) /\ Len(p) \in Nat /\ Len(s) = 4 + Len(p) + 2
    /\ \A i \in 1 .. 4 : s[i] = h[i]
    /\ \A i \in 1 .. Len(p) : s[4 + i] = p[i]
    /\ s[4 + Len(p) + 1] = HighByte(w) /\ s[4 + Len(p) + 2] = LowByte(w)

\* Content puts them there.
LEMMA ContentFacts ==
    ASSUME NEW h \in Seq(Nat), Len(h) = 4, NEW p \in Seq(Nat), NEW w \in Nat
    PROVE  Composed(h, p, w, Content(h, p, w))
<1> DEFINE b == BigEndian(w)
           t == h \o p
           s == t \o b
           N == Len(p)
           L == 4 + N
<1>1. b \in Seq(Nat) /\ Len(b) = 2 /\ b[1] = HighByte(w) /\ b[2] = LowByte(w)
  BY BigEndianType
<1> HIDE DEF b
<1>2. /\ t \in Seq(Nat) /\ N \in Nat /\ Len(t) = Len(h) + Len(p)
      /\ \A i \in 1 .. Len(h) : t[i] = h[i]
      /\ \A i \in 1 .. Len(p) : t[Len(h) + i] = p[i]
  BY Joined
<1> HIDE DEF t
<1>3. /\ s \in Seq(Nat) /\ Len(s) = Len(t) + Len(b)
      /\ \A i \in 1 .. Len(t) : s[i] = t[i]
      /\ \A i \in 1 .. Len(b) : s[Len(t) + i] = b[i]
  <2>1. t \in Seq(Nat) /\ b \in Seq(Nat)
    BY <1>1, <1>2
  <2> QED BY <2>1, Joined
<1> HIDE DEF s
<1>4. Len(t) = L /\ L \in Nat /\ N \in Nat
  BY <1>2
<1>5. Len(s) = 4 + N + 2
  BY <1>1, <1>3, <1>4
<1>6. ASSUME NEW i \in 1 .. 4 PROVE s[i] = h[i]
  <2>1. i \in 1 .. Len(t) /\ i \in 1 .. Len(h)
    BY <1>4
  <2> QED BY <1>2, <1>3, <2>1
<1>7. ASSUME NEW i \in 1 .. N PROVE s[4 + i] = p[i]
  <2> DEFINE j == 4 + i
  <2>1. j \in 1 .. Len(t)
    BY <1>4
  <2>2. t[4 + i] = p[i]
    BY <1>2
  <2> HIDE DEF j
  <2>3. s[j] = t[j]
    BY <1>3, <2>1
  <2> QED BY <2>2, <2>3 DEF j
<1>8. s[L + 1] = HighByte(w) /\ s[L + 2] = LowByte(w)
  <2>1. 1 \in 1 .. Len(b) /\ 2 \in 1 .. Len(b)
    BY <1>1
  <2> HIDE DEF L
  <2>2. s[Len(t) + 1] = b[1] /\ s[Len(t) + 2] = b[2]
    BY <1>3, <2>1
  <2> QED BY <1>1, <1>4, <2>2
<1>9. Content(h, p, w) = s
  BY DEF Content, s, t, b
<1> QED BY <1>3, <1>4, <1>5, <1>6, <1>7, <1>8, <1>9 DEF Composed

\* The places of the escapes in a content s, v being its header and its payload
\* with their escapes.
Stuffing(p, w, s, v) ==
    /\ EscapeAll(s) \in Seq(Nat) /\ Len(EscapeAll(s)) \in Nat /\ Len(v) \in Nat
    /\ EscapeAll(s) = v \o EscapeAll(BigEndian(w))
    /\ \A i \in 1 .. Len(v) : EscapeAll(s)[i] = v[i]
    /\ Len(Escapes(s)[0]) = 0
    /\ Len(Escapes(s)[4 + Len(p) + 2]) = Len(EscapeAll(s))
    /\ Len(Escapes(s)[4 + Len(p)]) = Len(v)
    /\ Len(Escapes(s)[4]) + Len(EscapeAll(p)) = Len(v)

\* Escaping puts them there.
LEMMA ContentEscapes ==
    ASSUME NEW h \in Seq(Nat), Len(h) = 4, NEW p \in Seq(Nat), NEW w \in Nat,
           NEW s, s = Content(h, p, w), NEW v, v = EscapeAll(h) \o EscapeAll(p)
    PROVE  Stuffing(p, w, s, v)
<1> DEFINE b == BigEndian(w)
           t == h \o p
           e == EscapeAll(b)
<1>1. b \in Seq(Nat)
  BY BigEndianType
<1>2. s \in Seq(Nat) /\ Len(s) = 4 + Len(p) + 2 /\ Len(p) \in Nat
  BY ContentFacts DEF Composed
<1>3. EscapeAll(h) \in Seq(Nat) /\ EscapeAll(p) \in Seq(Nat) /\ e \in Seq(Nat)
  BY <1>1, EscapeAllType
<1>4. v \in Seq(Nat) /\ Len(v) \in Nat /\ Len(v) = Len(EscapeAll(h)) + Len(EscapeAll(p))
  BY <1>3, ConcatProperties
<1>5. s = t \o b
  BY DEF Content
<1> HIDE DEF b, e
<1>6. t \in Seq(Nat) /\ Len(t) = Len(h) + Len(p)
  BY ConcatProperties
<1>7. /\ \A n \in Nat : n <= Len(h) => Escapes(t)[n] = Escapes(h)[n]
      /\ EscapeAll(t) = v
  BY EscapesOfConcat
<1> HIDE DEF t
<1>8. /\ \A n \in Nat : n <= Len(t) => Escapes(s)[n] = Escapes(t)[n]
      /\ EscapeAll(s) = v \o e
  <2>1. /\ \A n \in Nat : n <= Len(t) => Escapes(t \o b)[n] = Escapes(t)[n]
        /\ EscapeAll(t \o b) = EscapeAll(t) \o EscapeAll(b)
    BY <1>1, <1>6, EscapesOfConcat
  <2> QED BY <1>5, <1>7, <2>1 DEF e
<1>9. /\ EscapeAll(s) \in Seq(Nat) /\ Len(EscapeAll(s)) \in Nat
      /\ \A i \in 1 .. Len(v) : EscapeAll(s)[i] = v[i]
  <2>1. /\ v \o e \in Seq(Nat) /\ \A i \in 1 .. Len(v) : (v \o e)[i] = v[i]
    BY <1>3, <1>4, Joined
  <2> QED BY <1>8, <2>1
<1>10. Len(Escapes(s)[0]) = 0
  <2>1. Escapes(s)[0] = << >>
    BY <1>2, EscapesStep
  <2> HIDE DEF Content
  <2> QED BY <2>1
<1>11. Len(Escapes(s)[4 + Len(p) + 2]) = Len(EscapeAll(s))
  BY <1>2 DEF EscapeAll
<1>12. Len(Escapes(s)[4 + Len(p)]) = Len(v)
  <2>1. 4 + Len(p) = Len(t) /\ Len(t) \in Nat /\ Len(t) <= Len(t)
    BY <1>2, <1>6
  <2>2. Escapes(s)[Len(t)] = EscapeAll(t)
    BY <1>8, <2>1 DEF EscapeAll
  <2> QED BY <1>7, <2>1, <2>2
<1>13. Len(Escapes(s)[4]) + Len(EscapeAll(p)) = Len(v)
  <2>1. 4 <= Len(t) /\ 4 <= Len(h) /\ 4 = Len(h)
    BY <1>2, <1>6
  <2>2. Escapes(s)[4] = Escapes(t)[4] /\ Escapes(t)[4] = Escapes(h)[4]
    BY <1>7, <1>8, <2>1
  <2>3. Escapes(h)[4] = EscapeAll(h)
    BY DEF EscapeAll
  <2> QED BY <1>4, <2>2, <2>3
<1> QED BY <1>4, <1>8, <1>9, <1>10, <1>11, <1>12, <1>13 DEF e, b, Stuffing

\* The bytes of a sequence lie among the escapes in their order.
LEMMA EscapesGrow ==
    ASSUME NEW s \in Seq(Nat), NEW m \in Nat, NEW n \in Nat, m <= n, n <= Len(s)
    PROVE  /\ Len(Escapes(s)[m]) \in Nat /\ Len(Escapes(s)[n]) \in Nat
           /\ Len(Escapes(s)[m]) <= Len(Escapes(s)[n])
           /\ Len(Escapes(s)[n]) <= Len(EscapeAll(s))
<1>1. Len(s) \in Nat /\ m <= Len(s)
  OBVIOUS
<1>2. Escapes(s)[m] \in Seq(Nat) /\ Escapes(s)[n] \in Seq(Nat)
  BY <1>1, EscapesStep
<1>3. Prefix(Escapes(s)[m], Escapes(s)[n])
  BY <1>1, EscapesPrefix
<1>4. Prefix(Escapes(s)[n], EscapeAll(s))
  BY <1>1, EscapesPrefix DEF EscapeAll
<1> QED BY <1>2, <1>3, <1>4 DEF Prefix

---------------------------------------------------------------------------
(* Frames on the wire.                                                        *)

\* A run of flags and nothing else.
LEMMA RunFacts ==
    ASSUME NEW n \in Nat
    PROVE  Run(n) \in Seq(Nat) /\ Len(Run(n)) = n /\ \A i \in 1 .. n : Run(n)[i] = FLAG
<1>1. FLAG \in Nat
  BY HdlcAssumption DEF Bytes
<1>2. Run(n) \in [1 .. n -> Nat] /\ \A i \in 1 .. n : Run(n)[i] = FLAG
  BY <1>1 DEF Run
<1>3. Run(n) \in Seq(Nat) /\ DOMAIN Run(n) = 1 .. n
  BY <1>2, SeqDef
<1> QED BY <1>2, <1>3, LenProperties

\* Flags, then the bytes r, then flags to the end, of which there is at least one.
Flagged(w, lead, r) ==
    /\ lead \in Nat /\ lead >= 2
    /\ w \in Seq(Nat) /\ Len(w) \in Nat /\ Len(r) \in Nat
    /\ Len(w) > lead + Len(r)
    /\ \A i \in Nat : i < lead => w[i + 1] = FLAG
    /\ \A i \in Nat : i < Len(r) => w[(lead + i) + 1] = r[i + 1]
    /\ \A i \in Nat : lead + Len(r) <= i /\ i < Len(w) => w[i + 1] = FLAG

\* A frame among runs of flags.
LEMMA FramedBytes ==
    ASSUME NEW N \in Nat, N > 0, NEW r \in Seq(Nat), NEW t \in Seq(Nat),
           \A i \in 1 .. Len(t) : t[i] = FLAG,
           NEW w, w = (Run(N) \o ((<<FLAG>> \o r) \o <<FLAG>>)) \o t
    PROVE  Flagged(w, N + 1, r)
<1> DEFINE f == <<FLAG>>
           g == f \o r
           h == g \o f
           p == Run(N)
           q == p \o h
           Lead == N + 1
<1>1. FLAG \in Nat
  BY HdlcAssumption DEF Bytes
<1>2. Len(r) \in Nat
  OBVIOUS
<1>3. f \in Seq(Nat) /\ Len(f) = 1 /\ f[1] = FLAG
  BY <1>1
<1>4. p \in Seq(Nat) /\ Len(p) = N /\ \A i \in 1 .. N : p[i] = FLAG
  BY <1>1, RunFacts
<1>5. Len(t) \in Nat
  OBVIOUS
<1>6. w = q \o t
  OBVIOUS
<1> HIDE DEF f, p, Lead
<1>7. /\ g \in Seq(Nat) /\ Len(g) = Len(f) + Len(r)
      /\ \A i \in 1 .. Len(f) + Len(r) : g[i] = IF i <= Len(f) THEN f[i] ELSE r[i - Len(f)]
  BY <1>2, <1>3, ConcatProperties
<1> HIDE DEF g
<1>8. /\ h \in Seq(Nat) /\ Len(h) = Len(g) + Len(f)
      /\ \A i \in 1 .. Len(g) + Len(f) : h[i] = IF i <= Len(g) THEN g[i] ELSE f[i - Len(g)]
  <2>1. g \in Seq(Nat) /\ f \in Seq(Nat)
    BY <1>3, <1>7
  <2> QED BY <2>1, ConcatProperties
<1> HIDE DEF h
<1>9. /\ q \in Seq(Nat) /\ Len(q) = Len(p) + Len(h)
      /\ \A i \in 1 .. Len(p) + Len(h) : q[i] = IF i <= Len(p) THEN p[i] ELSE h[i - Len(p)]
  <2>1. p \in Seq(Nat) /\ h \in Seq(Nat)
    BY <1>4, <1>8
  <2> QED BY <2>1, ConcatProperties
<1> HIDE DEF q
<1>10. /\ w \in Seq(Nat) /\ Len(w) = Len(q) + Len(t)
       /\ \A i \in 1 .. Len(q) + Len(t) : w[i] = IF i <= Len(q) THEN q[i] ELSE t[i - Len(q)]
  <2> DEFINE qt == q \o t
  <2>1. q \in Seq(Nat) /\ t \in Seq(Nat)
    BY <1>5, <1>9
  <2>2. /\ qt \in Seq(Nat) /\ Len(qt) = Len(q) + Len(t)
        /\ \A i \in 1 .. Len(q) + Len(t) : qt[i] = IF i <= Len(q) THEN q[i] ELSE t[i - Len(q)]
    BY <2>1, ConcatProperties
  <2>3. qt = w
    BY <1>6
  <2> HIDE DEF qt
  <2> QED BY <2>2, <2>3
<1> DEFINE R == Len(r)
           T == Len(t)
<1>11. /\ R \in Nat /\ T \in Nat /\ Len(g) = R + 1 /\ Len(h) = R + 2 /\ Len(q) = N + (R + 2)
       /\ Len(w) = N + (R + 2) + T
  BY <1>1, <1>2, <1>3, <1>4, <1>5, <1>7, <1>8, <1>9, <1>10
<1> HIDE DEF R, T
<1>12. \A i \in 1 .. R + 1 : g[i] = IF i <= 1 THEN FLAG ELSE r[i - 1]
  <2>1. \A i \in 1 .. R + 1 : i \in 1 .. Len(f) + Len(r)
    BY <1>3, <1>11 DEF R
  <2> QED BY <1>3, <1>7, <2>1
<1>13. h[1] = FLAG /\ h[R + 2] = FLAG /\ \A i \in 2 .. R + 1 : h[i] = r[i - 1]
  <2>1. Len(g) + Len(f) = R + 2
    BY <1>3, <1>11
  <2>2. \A i \in 1 .. R + 2 : h[i] = IF i <= R + 1 THEN g[i] ELSE f[i - (R + 1)]
    BY <1>8, <1>11, <2>1
  <2>3. \A i \in 1 .. R + 1 : h[i] = g[i]
    BY <1>11, <2>2
  <2>4. h[R + 2] = f[1]
    <3> DEFINE j == R + 2
    <3>1. j \in 1 .. R + 2 /\ ~(j <= R + 1) /\ j - (R + 1) = 1
      BY <1>11
    <3> HIDE DEF j
    <3>2. h[j] = f[1]
      BY <2>2, <3>1
    <3> QED BY <3>2 DEF j
  <2>5. 1 \in 1 .. R + 1 /\ R \in Nat
    BY <1>11
  <2>6. h[1] = FLAG
    <3>1. h[1] = g[1]
      BY <2>3, <2>5
    <3>2. g[1] = FLAG
      <4> HIDE DEF R
      <4>1. \A i \in 1 .. R + 1 : i = 1 => g[i] = FLAG
        BY <1>12
      <4> QED BY <2>5, <4>1
    <3> QED BY <3>1, <3>2
  <2>7. \A i \in 2 .. R + 1 : i \in 1 .. R + 1 /\ ~(i <= 1)
    BY <2>5
  <2>8. \A i \in 2 .. R + 1 : h[i] = r[i - 1]
    BY <1>12, <2>3, <2>7
  <2> QED BY <1>3, <2>4, <2>6, <2>8
<1>14. /\ \A i \in 1 .. N : q[i] = FLAG
       /\ \A i \in 1 .. R + 2 : q[N + i] = h[i]
  <2>1. \A i \in 1 .. N + (R + 2) : q[i] = IF i <= N THEN p[i] ELSE h[i - N]
    BY <1>4, <1>9, <1>11
  <2>2. \A i \in 1 .. N : q[i] = FLAG
    BY <1>1, <1>4, <1>11, <2>1
  <2>3. ASSUME NEW i \in 1 .. R + 2 PROVE q[N + i] = h[i]
    <3> DEFINE j == N + i
    <3>1. j \in 1 .. N + (R + 2) /\ ~(j <= N) /\ j - N = i
      BY <1>1, <1>11
    <3> HIDE DEF j
    <3>2. q[j] = h[i]
      BY <2>1, <3>1
    <3> QED BY <3>2 DEF j
  <2> QED BY <2>2, <2>3
<1> DEFINE L == N + (R + 2)
<1>15. /\ \A i \in 1 .. L : w[i] = q[i]
       /\ \A i \in L + 1 .. L + T : w[i] = FLAG
  <2>1. L \in Nat /\ Len(q) = L /\ Len(t) = T
    BY <1>1, <1>11 DEF T
  <2> HIDE DEF L
  <2>2. \A i \in 1 .. L + T : w[i] = IF i <= L THEN q[i] ELSE t[i - L]
    BY <1>10, <2>1
  <2>3. \A i \in 1 .. L : w[i] = q[i]
    BY <1>11, <2>1, <2>2
  <2>4. ASSUME NEW i \in L + 1 .. L + T PROVE w[i] = FLAG
    <3> DEFINE j == i - L
    <3>1. j \in 1 .. T /\ i \in 1 .. L + T /\ ~(i <= L)
      BY <1>11, <2>1
    <3> HIDE DEF j
    <3>2. t[j] = FLAG
      BY <1>5, <3>1 DEF T
    <3>3. w[i] = t[j]
      BY <2>2, <3>1 DEF j
    <3> QED BY <3>2, <3>3
  <2> QED BY <2>3, <2>4
<1>16. Lead = N + 1
  BY DEF Lead
<1>17. ASSUME NEW i \in Nat, i < Lead PROVE w[i + 1] = FLAG
  <2> DEFINE j == i + 1
  <2>1. j \in 1 .. L /\ (j \in 1 .. N \/ j = N + 1)
    BY <1>1, <1>11, <1>16, <1>17
  <2>2. q[N + 1] = FLAG
    <3>1. 1 \in 1 .. R + 2
      BY <1>11
    <3> QED BY <1>13, <1>14, <3>1
  <2> HIDE DEF j, L
  <2>3. w[j] = FLAG
    BY <1>14, <1>15, <2>1, <2>2
  <2> QED BY <2>3 DEF j
<1>18. ASSUME NEW i \in Nat, i < R PROVE w[(Lead + i) + 1] = r[i + 1]
  <2> DEFINE j == (Lead + i) + 1
             m == i + 2
             o == i + 1
  <2>1. j \in 1 .. L /\ j = N + m /\ m \in 1 .. R + 2 /\ m \in 2 .. R + 1 /\ m - 1 = o
    BY <1>1, <1>11, <1>16, <1>18
  <2> HIDE DEF j, m, o, L
  <2>2. w[j] = q[j] /\ q[N + m] = h[m] /\ h[m] = r[o]
    BY <1>13, <1>14, <1>15, <2>1
  <2>3. w[j] = r[o]
    BY <2>1, <2>2
  <2> QED BY <2>3 DEF j, o
<1>19. ASSUME NEW i \in Nat, Lead + R <= i, i < Len(w) PROVE w[i + 1] = FLAG
  <2> DEFINE j == i + 1
             m == R + 2
  <2>1. j \in L + 1 .. L + T \/ (j \in 1 .. L /\ j = N + m)
    BY <1>1, <1>11, <1>16, <1>19
  <2>2. m \in 1 .. R + 2
    BY <1>11
  <2>3. q[N + m] = FLAG
    BY <1>13, <1>14, <2>2
  <2> HIDE DEF j, L, m
  <2>4. w[j] = FLAG
    BY <1>15, <2>1, <2>3
  <2> QED BY <2>4 DEF j
<1>20. Lead \in Nat /\ Lead >= 2 /\ Len(w) \in Nat /\ Len(w) > Lead + R
  BY <1>1, <1>11, <1>16
<1>21. R = Len(r)
  BY DEF R
<1>22. Flagged(w, Lead, r)
  <2>1. Len(r) \in Nat
    BY <1>2
  <2> QED BY <1>10, <1>17, <1>18, <1>19, <1>20, <1>21, <2>1 DEF Flagged
<1> QED BY <1>16, <1>22

\* A parser has n bytes of s, of which o says whether it has the escape of the
\* next one too, and k bytes of the wire, of which lead are before the escapes of
\* s: what the next byte on the wire is, and whether it completes one of s.  z is
\* any place in s.
Amid(s, z, n, o, k, lead) ==
    /\ Len(Escapes(s)[n]) \in Nat /\ Len(Escapes(s)[n + 1]) \in Nat
    /\ Len(Escapes(s)[z]) \in Nat
    /\ Len(Escapes(s)[n + 1]) <= Len(EscapeAll(s))
    /\ k + 1 <= lead + Len(Escapes(s)[n + 1])
    /\ k + 1 = lead + Len(Escapes(s)[n + 1]) <=> o = 1 \/ s[n + 1] \notin {FLAG, ESCAPE}
    /\ EscapeAll(s)[(k - lead) + 1] =
          IF k + 1 = lead + Len(Escapes(s)[n + 1]) THEN s[n + 1] ELSE ESCAPE
    /\ n < z => Len(Escapes(s)[n + 1]) <= Len(Escapes(s)[z])
    /\ Len(Escapes(s)[n + 1]) = Len(Escapes(s)[z]) <=> n + 1 = z

\* And so it is.
LEMMA AmidFacts ==
    ASSUME NEW s \in Seq(Nat), NEW z \in Nat, z <= Len(s), NEW n \in Nat, n < Len(s),
           NEW o \in {0, 1}, NEW lead \in Nat, NEW k \in Nat,
           k = lead + Len(Escapes(s)[n]) + o,
           o = 1 => s[n + 1] \in {FLAG, ESCAPE}
    PROVE  Amid(s, z, n, o, k, lead)
<1> DEFINE u == Len(Escapes(s)[n])
           v == Len(Escapes(s)[n + 1])
           r == EscapeAll(s)
           w == Len(Escapes(s)[z])
<1>1. Len(s) \in Nat /\ n + 1 <= Len(s)
  OBVIOUS
<1>2. Placed(s, n, u, v, r)
  BY <1>1, EscapedPlace
<1>3. /\ u \in Nat /\ v \in Nat /\ v <= Len(r)
      /\ s[n + 1] \in {FLAG, ESCAPE} => v = u + 2 /\ r[u + 1] = ESCAPE /\ r[u + 2] = s[n + 1]
      /\ s[n + 1] \notin {FLAG, ESCAPE} => v = u + 1 /\ r[u + 1] = s[n + 1]
  BY <1>2 DEF Placed
<1>5. w \in Nat
  BY EscapesGrow
<1>6. n < z => v <= w
  <2> SUFFICES ASSUME n < z PROVE v <= w
    OBVIOUS
  <2>1. n + 1 \in Nat /\ n + 1 <= z
    BY <1>1
  <2> QED BY <2>1, EscapesGrow
<1>7. n + 1 < z => v < w
  <2> SUFFICES ASSUME n + 1 < z PROVE v < w
    OBVIOUS
  <2> DEFINE m == n + 1
  <2>1. m \in Nat /\ m + 1 <= Len(s) /\ m + 1 \in Nat /\ m + 1 <= z
    BY <1>1
  <2>2. v = Len(Escapes(s)[m])
    OBVIOUS
  <2> HIDE DEF m
  <2>3. Placed(s, m, Len(Escapes(s)[m]), Len(Escapes(s)[m + 1]), r)
    BY <2>1, EscapedPlace
  <2>4. /\ Len(Escapes(s)[m]) \in Nat /\ Len(Escapes(s)[m + 1]) \in Nat
        /\ Len(Escapes(s)[m]) < Len(Escapes(s)[m + 1])
    BY <2>3 DEF Placed
  <2>5. Len(Escapes(s)[m + 1]) <= w
    BY <2>1, EscapesGrow
  <2> QED BY <1>5, <2>2, <2>4, <2>5
<1>8. n + 1 = z => v = w
  OBVIOUS
<1>9. n + 1 > z => v > w
  <2> SUFFICES ASSUME n + 1 > z PROVE v > w
    OBVIOUS
  <2>1. z <= n /\ n <= Len(s)
    BY <1>1
  <2>2. w <= u
    BY <1>1, <2>1, EscapesGrow
  <2> QED BY <1>3, <1>5, <2>2
<1>10. /\ k = lead + u + o /\ lead \in Nat /\ k \in Nat /\ (o = 0 \/ o = 1)
       /\ u \in Nat /\ v \in Nat /\ (v = u + 1 \/ v = u + 2) /\ (o = 1 => v = u + 2)
  <2>1. k = lead + u + o
    OBVIOUS
  <2> HIDE DEF u, v, r
  <2> QED BY <1>3, <2>1
<1>4. /\ v = u + 2 <=> s[n + 1] \in {FLAG, ESCAPE}
      /\ v = u + 2 => r[u + 1] = ESCAPE /\ r[u + 2] = s[n + 1]
      /\ v = u + 1 => r[u + 1] = s[n + 1]
  <2> HIDE DEF u, v, r
  <2> QED BY <1>3
<1> HIDE DEF u, v, r, w
<1>11. k + 1 <= lead + v /\ (k + 1 = lead + v <=> o = 1 \/ v # u + 2)
  BY <1>10, SMTT(30)
<1>12. r[(k - lead) + 1] = IF k + 1 = lead + v THEN s[n + 1] ELSE ESCAPE
  <2>1. k - lead = u + o
    BY <1>3, <1>10
  <2>2. CASE o = 1
    <3>1. (k - lead) + 1 = u + 2 /\ k + 1 = lead + v /\ v = u + 2
      BY <1>10, <2>2, SMTT(30)
    <3>2. r[u + 2] = s[n + 1]
      BY <1>4, <3>1
    <3> QED BY <3>1, <3>2
  <2>3. CASE o = 0
    <3>1. (k - lead) + 1 = u + 1 /\ (k + 1 = lead + v <=> v = u + 1)
      BY <1>10, <2>3, SMTT(30)
    <3>2. r[u + 1] = IF v = u + 1 THEN s[n + 1] ELSE ESCAPE
      BY <1>4, <1>10
    <3> QED BY <3>1, <3>2
  <2> QED BY <1>10, <2>2, <2>3
<1>13. v = w <=> n + 1 = z
  BY <1>1, <1>3, <1>5, <1>7, <1>8, <1>9
<1>14. k + 1 = lead + v <=> o = 1 \/ s[n + 1] \notin {FLAG, ESCAPE}
  BY <1>4, <1>11
<1> QED BY <1>3, <1>5, <1>6, <1>11, <1>12, <1>13, <1>14 DEF u, v, r, w, Amid

\* Two bytes that need no escape stay as they are.
LEMMA PlainEscapes ==
    ASSUME NEW x \in Nat, NEW y \in Nat, x \notin {FLAG, ESCAPE}, y \notin {FLAG, ESCAPE}
    PROVE  EscapeAll(<<x, y>>) = <<x, y>>
<1> DEFINE s == <<x, y>>
           e == Escapes(s)
           f == <<x>>
           g == <<y>>
<1>1. s \in Seq(Nat) /\ Len(s) = 2 /\ s[1] = x /\ s[2] = y
  OBVIOUS
<1>2. f \in Seq(Nat) /\ g \in Seq(Nat) /\ Len(f) = 1 /\ Len(g) = 1 /\ f[1] = x /\ g[1] = y
  OBVIOUS
<1>3. Escaped(x) = f /\ Escaped(y) = g
  BY DEF Escaped
<1> HIDE DEF s, f, g
<1>4. e[0] = << >> /\ \A n \in 1 .. 2 : e[n] = e[n - 1] \o Escaped(s[n])
  BY <1>1, EscapesDef
<1>5. EscapeAll(s) = e[2]
  BY <1>1 DEF EscapeAll
<1> HIDE DEF e
<1>6. e[1] = << >> \o f /\ e[2] = e[1] \o g
  <2>1. 1 \in 1 .. 2 /\ 2 \in 1 .. 2 /\ 1 - 1 = 0 /\ 2 - 1 = 1
    OBVIOUS
  <2>2. e[1] = e[1 - 1] \o Escaped(s[1]) /\ e[2] = e[2 - 1] \o Escaped(s[2])
    BY <1>4, <2>1, Zenon
  <2> QED BY <1>1, <1>3, <1>4, <2>1, <2>2
<1>7. << >> \o f = f
  BY <1>2, ConcatEmptySeq
<1>8. /\ f \o g \in Seq(Nat) /\ Len(f \o g) = Len(f) + Len(g)
      /\ \A i \in 1 .. Len(f) : (f \o g)[i] = f[i]
      /\ \A i \in 1 .. Len(g) : (f \o g)[Len(f) + i] = g[i]
  <2>1. f \in Seq(Nat) /\ g \in Seq(Nat)
    BY <1>2
  <2> QED BY <2>1, Joined
<1>9. Len(f \o g) = 2 /\ (f \o g)[1] = x /\ (f \o g)[2] = y
  BY <1>2, <1>8
<1>10. f \o g = s
  <2> DEFINE t == f \o g
  <2>1. t \in Seq(Nat) /\ Len(t) = 2 /\ t[1] = x /\ t[2] = y
    BY <1>8, <1>9
  <2> HIDE DEF t
  <2>2. ASSUME NEW i \in 1 .. Len(t) PROVE t[i] = s[i]
    <3>1. i = 1 \/ i = 2
      BY <2>1
    <3> QED BY <1>1, <2>1, <3>1
  <2>3. t = s
    BY <1>1, <2>1, <2>2, SeqEqual
  <2> QED BY <2>3 DEF t
<1> QED BY <1>5, <1>6, <1>7, <1>10 DEF s

===========================================================================
