--------------------------- MODULE Modem_proofs ---------------------------
(* Proofs about Modem: the decoder, type correctness and the two safety       *)
(* invariants of the noisy run, for every pi, any threshold and loudness, any *)
(* noise, any pattern of presence and a main loop of any speed; and the two   *)
(* of the recital, over a clean channel.                                      *)
EXTENDS Modem, TLAPS

USE TimeoutAssumption, ReciterAssumption, EnvironmentAssumption
    DEF Emotions, Cursors, WRONG, Sounds, LoopTop

OnAir == {"SENDING", "WAITING_STOP"}

\* Which emotion and which return address main() carries through its calls.
ControlInv ==
    /\ pc \in {"stop_state", "stop_dac", "stop_adc"} =>
          \/ ret = "check" /\ current_emotion # "BORED"
          \/ ret = "reset" /\ current_emotion = "BORED"
    /\ pc \in Labels \ {"check", "tamo", "stop_state", "stop_dac", "stop_adc"} =>
          current_emotion = "BORED"
    /\ pc \in {"pick", "sending", "fill", "dac_setup", "dac_start", "adc_setup", "adc_start"}
          => ret \in LoopTop

\* The states main() sets survive until its next assignment: the ISR acts in
\* SENDING and WAITING_STOP only.
OwnedInv ==
    /\ pc \in {"stop_dac", "stop_adc", "reset"} => modem_state = "IDLE"
    /\ pc = "stop_adc" => ~dac
    /\ pc \in {"pick", "sending"} => modem_state = "WAITING_SEND"

\* The local next_digit is the expected digit until the waveform is written,
\* unless the ISR has ended the symbol meanwhile.
DigitInv ==
    /\ pc = "sending" => next_digit = pi_reciter_next_digit(digit_cursor)
    /\ pc = "fill" /\ modem_state \in OnAir =>
          next_digit = pi_reciter_next_digit(digit_cursor)

IInv == TypeOK /\ ControlInv /\ OwnedInv /\ DigitInv /\ OnAirIsExpected /\ SilentUnlessBored

---------------------------------------------------------------------------

(* The decoder (dtmf.c): what it makes of the magnitudes of a buffer.         *)

\* The table holds the symbols, each of them and nothing else.
LEMMA Table ==
    /\ \A i \in 0 .. 15 : dtmf_symbols[i + 1] \in Symbols
    /\ \A s \in Symbols : \E i \in 0 .. 15 : dtmf_symbols[i + 1] = s
    /\ "A" \in Symbols /\ "#" \in Symbols
<1>1. \A i \in 0 .. 15 : i + 1 \in 1 .. 16  OBVIOUS
<1>2. \A i \in 1 .. 16 : i - 1 \in 0 .. 15 /\ (i - 1) + 1 = i  OBVIOUS
<1>3. dtmf_symbols[4] = "A" /\ dtmf_symbols[15] = "#"
  BY DEF dtmf_symbols
<1>4. 4 \in 1 .. 16 /\ 15 \in 1 .. 16 OBVIOUS
<1>. QED  BY <1>1, <1>2, <1>3, <1>4 DEF Symbols

\* Of four numbers one is the first of the greatest.
LEMMA FirstOfFour ==
    ASSUME NEW a \in Int, NEW m, \A k \in a .. a + 3 : m[k] \in Nat
    PROVE  \E k \in a .. a + 3 : \A other \in a .. a + 3 :
              m[other] <= m[k] /\ (other < k => m[other] < m[k])
<1>. DEFINE First(k) == \A other \in a .. a + 3 :
              m[other] <= m[k] /\ (other < k => m[other] < m[k])
<1>1. \A w, x, y, z \in Nat :
        \/ x <= w /\ y <= w /\ z <= w
        \/ w < x /\ y <= x /\ z <= x
        \/ w < y /\ x < y /\ z <= y
        \/ w < z /\ x < z /\ y < z
  OBVIOUS
<1>2. a .. a + 3 = {a, a + 1, a + 2, a + 3}
  OBVIOUS
<1>3. m[a] \in Nat /\ m[a + 1] \in Nat /\ m[a + 2] \in Nat /\ m[a + 3] \in Nat
  BY <1>2
<1>4. CASE m[a + 1] <= m[a] /\ m[a + 2] <= m[a] /\ m[a + 3] <= m[a]
  <2>1. First(a)  BY <1>2, <1>3, <1>4
  <2>. QED  BY <1>2, <2>1
<1>5. CASE m[a] < m[a + 1] /\ m[a + 2] <= m[a + 1] /\ m[a + 3] <= m[a + 1]
  <2>1. First(a + 1)  BY <1>2, <1>3, <1>5
  <2>. QED  BY <1>2, <2>1
<1>6. CASE m[a] < m[a + 2] /\ m[a + 1] < m[a + 2] /\ m[a + 3] <= m[a + 2]
  <2>1. First(a + 2)  BY <1>2, <1>3, <1>6, SMTT(30)
  <2>. QED  BY <1>2, <2>1
<1>7. CASE m[a] < m[a + 3] /\ m[a + 1] < m[a + 3] /\ m[a + 2] < m[a + 3]
  <2>1. First(a + 3)  BY <1>2, <1>3, <1>7, SMTT(30)
  <2>. QED  BY <1>2, <2>1
<1>. QED  BY <1>1, <1>3, <1>4, <1>5, <1>6, <1>7

\* The strongest row or column, if there is one.
LEMMA BestTone ==
    ASSUME NEW mag \in [Tones -> Nat], NEW tones \in {Rows, Cols}
    PROVE  \/ Best(mag, tones) = NO_TONE /\ \A k \in tones : mag[k] = 0
           \/ /\ Best(mag, tones) \in tones
              /\ \A k \in tones : mag[k] <= mag[Best(mag, tones)]
<1>. DEFINE First(k) == \A other \in tones :
              mag[other] <= mag[k] /\ (other < k => mag[other] < mag[k])
<1>1. \A k \in tones : mag[k] \in Nat
  BY DEF Tones
<1>2. \E k \in tones : First(k)
  <2>1. CASE tones = Rows
    <3>1. tones = 0 .. 0 + 3  BY <2>1 DEF Rows
    <3>. QED  BY <1>1, <3>1, FirstOfFour, SMTT(30)
  <2>2. CASE tones = Cols
    <3>1. tones = 4 .. 4 + 3  BY <2>2 DEF Cols
    <3>. QED  BY <1>1, <3>1, FirstOfFour, SMTT(30)
  <2>. QED  BY <2>1, <2>2
<1>3. CASE \A k \in tones : mag[k] = 0
  BY <1>3 DEF Best
<1>4. CASE ~ \A k \in tones : mag[k] = 0
  <2>1. Best(mag, tones) = CHOOSE k \in tones : First(k)
    BY <1>4 DEF Best
  <2>. QED  BY <1>2, <2>1
<1>. QED  BY <1>3, <1>4

\* Reading a symbol for a row and a column that were found, or one of them not.
LEMMA DecodeFacts ==
    ASSUME NEW row \in Rows \cup {NO_TONE}, NEW col \in Cols \cup {NO_TONE}
    PROVE  /\ row # NO_TONE /\ col # NO_TONE =>
                /\ 4 * row + (col - 4) \in 0 .. 15
                /\ decode_symbol(row, (col - 4) % 256) = dtmf_symbols[4 * row + (col - 4) + 1]
           /\ row = NO_TONE \/ col = NO_TONE => decode_symbol(row, (col - 4) % 256) = NONE
<1>1. col # NO_TONE => (col - 4) % 256 = col - 4
  BY DEF NO_TONE, Cols
<1>2. col = NO_TONE => (col - 4) % 256 = 251
  BY DEF NO_TONE
<1>3. ASSUME row # NO_TONE, col # NO_TONE
      PROVE  /\ 4 * row + (col - 4) \in 0 .. 15
             /\ decode_symbol(row, (col - 4) % 256) = dtmf_symbols[4 * row + (col - 4) + 1]
  BY <1>1, <1>3 DEF NO_TONE, Rows, Cols, decode_symbol
<1>4. ASSUME row = NO_TONE \/ col = NO_TONE
      PROVE  decode_symbol(row, (col - 4) % 256) = NONE
  <2>1. (col - 4) % 256 \in Nat
    BY <1>1, <1>2 DEF Cols, NO_TONE
  <2>2. 4 * row + ((col - 4) % 256) > 16
    BY <1>2, <1>4, <2>1 DEF NO_TONE, Rows, Cols
  <2>. QED  BY <2>2 DEF decode_symbol
<1>. QED  BY <1>3, <1>4

\* Whatever the magnitudes and the threshold, the table is read at one of its symbols.
THEOREM DecodesSymbol ==
    ASSUME NEW mag \in [Tones -> Nat], NEW threshold \in Nat
    PROVE  dtmf_process(mag, threshold) \in Symbols \cup {NONE}
<1>. DEFINE row == Best(mag, Rows)
            col == Best(mag, Cols)
<1>1. row \in Rows \cup {NO_TONE} /\ col \in Cols \cup {NO_TONE}
  BY BestTone
<1>. HIDE DEF row, col
<1>2. decode_symbol(row, (col - 4) % 256) \in Symbols \cup {NONE}
  BY <1>1, DecodeFacts, Table, SMTT(30)
<1>. QED  BY <1>2 DEF dtmf_process, row, col

\* The tones of a symbol.
LEMMA TonesOfSymbol ==
    ASSUME NEW s \in Symbols
    PROVE  LET t == dtmf_get_tones(s)
           IN  /\ t.status = "OKAY" /\ t.row \in Rows /\ t.col \in Cols
               /\ dtmf_symbols[4 * t.row + (t.col - 4) + 1] = s
<1>. DEFINE i == CHOOSE n \in 0 .. 15 : dtmf_symbols[n + 1] = s
            t == dtmf_get_tones(s)
<1>1. i \in 0 .. 15 /\ dtmf_symbols[i + 1] = s
  BY Table
<1>. HIDE DEF i
<1>2. t.status = "OKAY" /\ t.row = i \div 4 /\ t.col = 4 + (i % 4)
  BY DEF dtmf_get_tones, i
<1>3. i \div 4 \in 0 .. 3 /\ i % 4 \in 0 .. 3 /\ 4 * (i \div 4) + (i % 4) = i
  BY <1>1
<1>. QED  BY <1>1, <1>2, <1>3 DEF Rows, Cols

\* Where no tones but those of a symbol are as strong as the threshold, that symbol is
\* decoded if both of its own are, and none else.
THEOREM DecodesWhatSounded ==
    ASSUME NEW s \in Symbols, NEW mag \in [Tones -> Nat], NEW threshold \in Nat \ {0},
           \A k \in Tones \ TonesOf(s) : mag[k] < threshold
    PROVE  dtmf_process(mag, threshold) =
             IF \A k \in TonesOf(s) : mag[k] >= threshold THEN s ELSE NONE
<1>. DEFINE row == Best(mag, Rows)
            col == Best(mag, Cols)
            t == dtmf_get_tones(s)
<1>1. /\ t.row \in Rows /\ t.col \in Cols /\ TonesOf(s) = {t.row, t.col}
      /\ dtmf_symbols[4 * t.row + (t.col - 4) + 1] = s
  BY TonesOfSymbol, ReciterAssumption DEF TonesOf
<1>2. /\ row = NO_TONE => \A k \in Rows : mag[k] = 0
      /\ row # NO_TONE => row \in Rows /\ \A k \in Rows : mag[k] <= mag[row]
      /\ col = NO_TONE => \A k \in Cols : mag[k] = 0
      /\ col # NO_TONE => col \in Cols /\ \A k \in Cols : mag[k] <= mag[col]
  <2>1. NO_TONE \notin Rows /\ NO_TONE \notin Cols
    BY DEF NO_TONE, Rows, Cols
  <2>2. \/ row = NO_TONE /\ \A k \in Rows : mag[k] = 0
        \/ row \in Rows /\ \A k \in Rows : mag[k] <= mag[row]
    BY BestTone
  <2>3. \/ col = NO_TONE /\ \A k \in Cols : mag[k] = 0
        \/ col \in Cols /\ \A k \in Cols : mag[k] <= mag[col]
    BY BestTone
  <2>. HIDE DEF row, col
  <2>. QED  BY <2>1, <2>2, <2>3
<1>3. \A k \in Rows \cup Cols : mag[k] \in Nat /\ k \in Tones /\ k # NO_TONE
  BY DEF Tones, Rows, Cols, NO_TONE
<1>4. Rows \cap Cols = {}
  BY DEF Rows, Cols
<1>. HIDE DEF row, col, t
<1>5. Magnitude(mag, row) >= threshold <=> mag[t.row] >= threshold /\ row = t.row
  <2>1. CASE row = NO_TONE
    BY <1>1, <1>2, <1>3, <2>1 DEF Magnitude
  <2>2. CASE row # NO_TONE
    <3>1. row \in Rows /\ mag[t.row] <= mag[row] /\ Magnitude(mag, row) = mag[row]
      BY <1>1, <1>2, <2>2 DEF Magnitude
    <3>2. row # t.row => mag[row] < threshold
      BY <1>1, <1>3, <1>4, <3>1
    <3>. QED  BY <1>1, <1>3, <3>1, <3>2
  <2>. QED  BY <2>1, <2>2
<1>6. Magnitude(mag, col) >= threshold <=> mag[t.col] >= threshold /\ col = t.col
  <2>1. CASE col = NO_TONE
    BY <1>1, <1>2, <1>3, <2>1 DEF Magnitude
  <2>2. CASE col # NO_TONE
    <3>1. col \in Cols /\ mag[t.col] <= mag[col] /\ Magnitude(mag, col) = mag[col]
      BY <1>1, <1>2, <2>2 DEF Magnitude
    <3>2. col # t.col => mag[col] < threshold
      BY <1>1, <1>3, <1>4, <3>1
    <3>. QED  BY <1>1, <1>3, <3>1, <3>2
  <2>. QED  BY <2>1, <2>2
<1>7. Magnitude(mag, row) \in Nat /\ Magnitude(mag, col) \in Nat
  BY <1>2, <1>3 DEF Magnitude
<1>8. CASE \A k \in TonesOf(s) : mag[k] >= threshold
  <2>1. mag[t.row] >= threshold /\ mag[t.col] >= threshold
    BY <1>1, <1>8
  <2>2. \/ Magnitude(mag, row) >= threshold /\ Magnitude(mag, col) >= threshold
        \/ row = NO_TONE \/ col = NO_TONE \/ row # t.row \/ col # t.col
    BY <1>5, <1>6, <2>1
  <2>3. row # NO_TONE /\ col # NO_TONE
    BY <1>1, <1>2, <1>3, <2>1
  <2>4. row \in Rows /\ mag[t.row] <= mag[row] /\ col \in Cols /\ mag[t.col] <= mag[col]
    BY <1>1, <1>2, <2>3
  <2>5. mag[row] >= threshold /\ mag[col] >= threshold
    BY <1>1, <1>3, <2>1, <2>4
  <2>6. Magnitude(mag, row) >= threshold /\ Magnitude(mag, col) >= threshold
    BY <2>3, <2>5 DEF Magnitude
  <2>7. row = t.row /\ col = t.col
    BY <1>5, <1>6, <2>6
  <2>8. decode_symbol(row, (col - 4) % 256) = s
    BY <1>1, <2>3, <2>4, <2>7, DecodeFacts
  <2>. QED  BY <1>7, <1>8, <2>6, <2>8 DEF dtmf_process, row, col
<1>9. CASE ~ \A k \in TonesOf(s) : mag[k] >= threshold
  <2>1. ~(mag[t.row] >= threshold) \/ ~(mag[t.col] >= threshold)
    BY <1>1, <1>9
  <2>2. Magnitude(mag, row) < threshold \/ Magnitude(mag, col) < threshold
    BY <1>5, <1>6, <1>7, <2>1
  <2>. QED  BY <1>9, <2>2 DEF dtmf_process, row, col
<1>. QED  BY <1>8, <1>9

\* Magnitudes of a buffer with one sound, with silence, or with both.
LEMMA MagnitudesType ==
    ASSUME NEW h, NEW mag \in Magnitudes(h), \A s \in h : TonesOf(s) \subseteq Tones
    PROVE  /\ mag \in [Tones -> Nat]
           /\ \A k \in Tones : k \notin UNION {TonesOf(s) : s \in h} /\ h # {} => mag[k] < Threshold
           /\ \A k \in Tones : (\A s \in h : k \in TonesOf(s)) => mag[k] >= Threshold
<1>. DEFINE always    == {k \in Tones : \A sound \in h : k \in TonesOf(sound)}
            sometimes == (UNION {TonesOf(sound) : sound \in h}) \ always
<1>1. PICK m \in [sometimes -> 0 .. Loudest] :
        mag = [k \in Tones |-> IF k \in sometimes THEN m[k]
                               ELSE IF k \in always THEN Loudest ELSE Threshold - 1]
  BY DEF Magnitudes
<1>2. Loudest \in Nat /\ Threshold \in Nat /\ Threshold > 0 /\ Threshold <= Loudest
  BY EnvironmentAssumption
<1>3. \A k \in sometimes : m[k] \in Nat
  BY <1>2
<1>4. \A k \in Tones : mag[k] = IF k \in sometimes THEN m[k]
                                ELSE IF k \in always THEN Loudest ELSE Threshold - 1
  BY <1>1
<1>5. mag \in [Tones -> Nat]
  <2>1. \A k \in Tones : mag[k] \in Nat
    BY <1>2, <1>3, <1>4
  <2>2. DOMAIN mag = Tones /\ mag = [k \in Tones |-> mag[k]]
    BY <1>1
  <2>. QED  BY <2>1, <2>2
<1>6. ASSUME NEW k \in Tones, k \notin UNION {TonesOf(s) : s \in h}, h # {}
      PROVE  mag[k] < Threshold
  <2>1. k \notin sometimes /\ k \notin always
    BY <1>6
  <2>. QED  BY <1>2, <1>4, <2>1
<1>7. ASSUME NEW k \in Tones, \A s \in h : k \in TonesOf(s)
      PROVE  mag[k] >= Threshold
  <2>1. k \in always /\ k \notin sometimes
    BY <1>7
  <2>. HIDE DEF sometimes, always
  <2>. QED  BY <1>2, <1>4, <2>1
<1>. QED  BY <1>5, <1>6, <1>7

\* One sound and silence decode to one of them, silence to silence.
LEMMA CleanDecodable ==
    ASSUME Noise = {}, NEW e \in Symbols, NEW h, h # {}, h \subseteq {NONE, e}
    PROVE  /\ Decodable(h) \subseteq {NONE, e}
           /\ h \subseteq {NONE} => Decodable(h) \subseteq {NONE}
           /\ h \subseteq {e} => Decodable(h) \subseteq {e}
<1>0. /\ TonesOf(NONE) = {} /\ TonesOf(e) \subseteq Tones /\ TonesOf(e) # {}
      /\ Threshold \in Nat \ {0}
  BY TonesOfSymbol, ReciterAssumption, EnvironmentAssumption DEF TonesOf, Tones
<1>1. SUFFICES ASSUME NEW mag \in Magnitudes(h)
               PROVE  /\ dtmf_process(mag, Threshold) \in {NONE, e}
                      /\ h \subseteq {NONE} => dtmf_process(mag, Threshold) = NONE
                      /\ h \subseteq {e} => dtmf_process(mag, Threshold) = e
  BY DEF Decodable
<1>2. \A s \in h : TonesOf(s) \subseteq Tones
  BY <1>0
<1>3. /\ mag \in [Tones -> Nat]
      /\ \A k \in Tones : k \notin UNION {TonesOf(s) : s \in h} => mag[k] < Threshold
      /\ \A k \in Tones : (\A s \in h : k \in TonesOf(s)) => mag[k] >= Threshold
  BY <1>2, MagnitudesType
<1>4. UNION {TonesOf(s) : s \in h} \subseteq TonesOf(e)
  BY <1>0
<1>5. dtmf_process(mag, Threshold) =
        IF \A k \in TonesOf(e) : mag[k] >= Threshold THEN e ELSE NONE
  <2>1. \A k \in Tones \ TonesOf(e) : mag[k] < Threshold
    BY <1>3, <1>4
  <2>. QED  BY <1>0, <1>3, <2>1, DecodesWhatSounded
<1>6. ASSUME h \subseteq {NONE} PROVE dtmf_process(mag, Threshold) = NONE
  <2>1. UNION {TonesOf(s) : s \in h} = {}
    BY <1>0, <1>6
  <2>2. PICK k \in TonesOf(e) : TRUE
    BY <1>0
  <2>3. mag[k] < Threshold /\ mag[k] \in Nat
    BY <1>0, <1>3, <2>1, <2>2
  <2>. QED  BY <1>0, <1>5, <2>3
<1>7. ASSUME h \subseteq {e} PROVE dtmf_process(mag, Threshold) = e
  <2>1. \A k \in TonesOf(e) : mag[k] >= Threshold
    BY <1>0, <1>3, <1>7
  <2>. QED  BY <1>5, <2>1
<1>. QED  BY <1>5, <1>6, <1>7

\* Whatever is decoded is a symbol or nothing.
LEMMA DecodableType ==
    ASSUME NEW h \in SUBSET Sounds
    PROVE  Decodable(h) \subseteq Sounds
<1>1. ASSUME NEW s \in h PROVE TonesOf(s) \subseteq Tones
  <2>1. s = NONE \/ s \in Symbols
    BY DEF Sounds
  <2>. QED  BY <2>1, TonesOfSymbol DEF TonesOf, Tones
<1>2. Threshold \in Nat /\ Noise \subseteq Symbols
  BY EnvironmentAssumption
<1>3. ASSUME NEW mag \in Magnitudes(h) PROVE dtmf_process(mag, Threshold) \in Symbols \cup {NONE}
  <2>1. mag \in [Tones -> Nat]
    BY <1>1, MagnitudesType
  <2>. QED  BY <1>2, <2>1, DecodesSymbol
<1>. QED  BY <1>2, <1>3 DEF Decodable, Sounds

---------------------------------------------------------------------------
(* Types of the reciter and of what is heard.                               *)

LEMMA NextDigitType ==
    ASSUME NEW c \in Cursors
    PROVE  pi_reciter_next_digit(c) \in Symbols
BY Table DEF pi_reciter_next_digit

LEMMA RxDigitType ==
    ASSUME NEW c \in Cursors, NEW s
    PROVE  pi_reciter_rx_digit(c, s).cursor \in Cursors
BY DEF pi_reciter_rx_digit, Rx

\* What is heard stays a set of sounds.
LEMMA ListenType ==
    ASSUME heard \subseteq Sounds, dac_buf' \in Sounds, Listen
    PROVE  heard' \subseteq Sounds
<1>1. Signal' \in Sounds
  BY DEF Signal
<1> QED BY <1>1 DEF Listen

\* A modem as the callbacks see it.
Modems == [state : ModemStates, cursor : Cursors, cur : Sounds, dac : BOOLEAN]

\* What neither callback, hence no run of the decoder, may do: touch a modem
\* that is not on the air, turn the DAC on, or move the cursor and stay on air.
Tame(m, n) ==
    /\ n \in Modems
    /\ n.dac => m.dac
    /\ m.state \notin OnAir => n.state = m.state /\ n.cursor = m.cursor /\ n.dac = m.dac
    /\ n.state \in OnAir => m.state \in OnAir /\ n.cursor = m.cursor

LEMMA TameTrans ==
    ASSUME NEW m, NEW n, NEW k, Tame(m, n), Tame(n, k)
    PROVE  Tame(m, k)
BY DEF Tame

LEMMA TameSetCur ==
    ASSUME NEW m \in Modems, NEW s \in Sounds
    PROVE  Tame(m, m) /\ Tame(m, [m EXCEPT !.cur = s])
BY DEF Tame, Modems

LEMMA EndedTame ==
    ASSUME NEW m \in Modems, m.state \in OnAir,
           NEW c \in Cursors, NEW t \in {"DONE", "RESTART"}
    PROVE  Tame(m, [m EXCEPT !.cursor = c, !.state = t])
<1> DEFINE n == [m EXCEPT !.cursor = c, !.state = t]
<1>1. n \in Modems
  BY ZenonT(30) DEF Modems, ModemStates
<1>2. n.state = t /\ n.dac = m.dac
  BY DEF Modems
<1> QED BY <1>1, <1>2 DEF Tame, OnAir

LEMMA StopTame ==
    ASSUME NEW m \in Modems, NEW s
    PROVE  Tame(m, dtmf_tone_stop_cb(m, s))
<1> DEFINE rx == pi_reciter_rx_digit(m.cursor, s)
           t  == IF rx.status = "OKAY" THEN "DONE" ELSE "RESTART"
<1>1. rx.cursor \in Cursors
  BY RxDigitType DEF Modems
<1>2. t \in {"DONE", "RESTART"}
  OBVIOUS
<1>3. Tame(m, m)
  BY DEF Tame
<1>4. dtmf_tone_stop_cb(m, s) =
        IF m.state \notin OnAir THEN m ELSE [m EXCEPT !.cursor = rx.cursor, !.state = t]
  BY DEF dtmf_tone_stop_cb, OnAir
<1> HIDE DEF rx, t
<1>5. CASE m.state \notin OnAir
  <2>1. dtmf_tone_stop_cb(m, s) = m
    BY <1>4, <1>5
  <2> QED BY <2>1, <1>3
<1>6. CASE m.state \in OnAir
  <2>1. dtmf_tone_stop_cb(m, s) = [m EXCEPT !.cursor = rx.cursor, !.state = t]
    BY <1>4, <1>6
  <2>2. Tame(m, [m EXCEPT !.cursor = rx.cursor, !.state = t])
    BY <1>1, <1>2, <1>6, EndedTame
  <2> QED BY <2>1, <2>2
<1> QED BY <1>5, <1>6

LEMMA StartTame ==
    ASSUME NEW m \in Modems, NEW s
    PROVE  Tame(m, dtmf_tone_start_cb(m, s))
BY ZenonT(30) DEF dtmf_tone_start_cb, Tame, Modems, ModemStates, OnAir

LEMMA DecodedTame ==
    ASSUME NEW m \in Modems, NEW s \in Sounds
    PROVE  Tame(m, dtmf_sym_decoded(m, s))
<1> DEFINE up  == IF m.cur # NONE THEN dtmf_tone_stop_cb(m, m.cur) ELSE m
           set == [up EXCEPT !.cur = s]
           dn  == IF s # NONE THEN dtmf_tone_start_cb(set, s) ELSE set
<1>1. Tame(m, up)
  BY StopTame, TameSetCur
<1>2. up \in Modems
  BY <1>1 DEF Tame
<1>3. Tame(up, set) /\ set \in Modems
  BY <1>2, TameSetCur DEF Tame
<1>4. Tame(set, dn)
  BY <1>3, StartTame, TameSetCur
<1>5. Tame(m, dn)
  BY <1>1, <1>3, <1>4, TameTrans
<1>6. Tame(m, m)
  BY TameSetCur
<1>7. dtmf_sym_decoded(m, s) = IF s = m.cur THEN m ELSE dn
  BY DEF dtmf_sym_decoded
<1> QED BY <1>5, <1>6, <1>7

---------------------------------------------------------------------------
(* The interrupt.                                                            *)

\* What the control state says of the ISR's variables is kept by it.
LEMMA IsrInv ==
    ASSUME IInv, AdcIsr
    PROVE  IInv'
<1> DEFINE m == Shared
           n == dtmf_sym_decoded(m, adc_half[target])
<1>1. /\ m \in Modems /\ m.state = modem_state /\ m.cursor = digit_cursor
      /\ m.cur = cur_symbol /\ m.dac = dac
  BY DEF Shared, Modems, IInv, TypeOK
<1>2. adc_half[target] \in Sounds
  BY DEF IInv, TypeOK
<1>3. Tame(m, n)
  BY <1>1, <1>2, DecodedTame
<1>4. /\ modem_state' = n.state /\ digit_cursor' = n.cursor /\ cur_symbol' = n.cur
      /\ dac' = n.dac /\ tcif' = FALSE
      /\ UNCHANGED <<mainVars, dac_buf, adc, adc_half, target, lapped>>
      /\ Listen
  BY DEF AdcIsr
<1> HIDE DEF m, n
<1>5. /\ modem_state' \in ModemStates /\ digit_cursor' \in Cursors
      /\ cur_symbol' \in Sounds /\ dac' \in BOOLEAN
  BY <1>3, <1>4 DEF Tame, Modems
<1>6. /\ dac' => dac
      /\ modem_state \notin OnAir => modem_state' = modem_state /\ digit_cursor' = digit_cursor
      /\ modem_state' \in OnAir => modem_state \in OnAir /\ digit_cursor' = digit_cursor
  BY <1>1, <1>3, <1>4 DEF Tame
<1>7. UNCHANGED <<pc, ret, next_digit, current_emotion, dac_buf, adc>>
  BY <1>4 DEF mainVars
<1>8. TypeOK'
  <2>1. UNCHANGED <<pc, ret, next_digit, current_emotion, dac_buf, adc, adc_half,
                    target, lapped>> /\ tcif' \in BOOLEAN
    BY <1>4, <1>7
  <2>2. heard' \subseteq Sounds
    BY <1>4, <1>7, ListenType DEF IInv, TypeOK
  <2> QED BY <1>5, <2>1, <2>2 DEF IInv, TypeOK
<1>9. ControlInv'
  BY <1>7 DEF IInv, ControlInv
<1>10. OwnedInv'
  BY <1>5, <1>6, <1>7 DEF IInv, OwnedInv, TypeOK, OnAir
<1>11. DigitInv'
  BY <1>6, <1>7 DEF IInv, DigitInv, OwnedInv, OnAir
<1>12. OnAirIsExpected'
  BY <1>6, <1>7 DEF IInv, OnAirIsExpected, OnAir
<1>13. SilentUnlessBored'
  BY <1>5, <1>6, <1>7 DEF IInv, SilentUnlessBored, OnAir, TypeOK
<1> QED BY <1>8, <1>9, <1>10, <1>11, <1>12, <1>13 DEF IInv

---------------------------------------------------------------------------
(* The rest of the steps.                                                    *)

LEMMA InitInv == Init => IInv
<1> SUFFICES ASSUME Init PROVE IInv
  OBVIOUS
<1>1. TypeOK
  <2>1. dac \in BOOLEAN /\ adc \in BOOLEAN /\ tcif \in BOOLEAN /\ lapped \in BOOLEAN
    BY DEF Init
  <2> QED BY <2>1 DEF Init, dtmf_init, TypeOK, Labels, ModemStates
<1>2. ControlInv /\ OwnedInv /\ DigitInv /\ OnAirIsExpected /\ SilentUnlessBored
  BY DEF Init, dtmf_init, ControlInv, OwnedInv, DigitInv, OnAirIsExpected, SilentUnlessBored, Labels
<1> QED BY <1>1, <1>2 DEF IInv

LEMMA HalfInv ==
    ASSUME IInv, HalfDone
    PROVE  IInv'
<1> USE DEF HalfDone, mainVars
<1>1. TypeOK'
  <2>1. adc_half' \in [0 .. 1 -> Sounds]
    BY DecodableType DEF IInv, TypeOK
  <2>2. heard' \subseteq Sounds
    BY DEF Signal, IInv, TypeOK
  <2>3. lapped' \in BOOLEAN
    BY Zenon
  <2>4. target' \in 0 .. 1 /\ tcif' \in BOOLEAN
    BY DEF IInv, TypeOK
  <2> QED BY <2>1, <2>2, <2>3, <2>4 DEF IInv, TypeOK
<1>2. ControlInv' /\ OwnedInv' /\ DigitInv' /\ OnAirIsExpected' /\ SilentUnlessBored'
  BY DEF IInv, ControlInv, OwnedInv, DigitInv, OnAirIsExpected, SilentUnlessBored
<1> QED BY <1>1, <1>2 DEF IInv

\* All of IInv but the variable that every step of main() sets in Main.
Rest == 
    /\ pc \in Labels
    /\ ret \in {"check", "reset", "tamo"}
    /\ next_digit \in Sounds
    /\ current_emotion \in Emotions
    /\ modem_state \in ModemStates
    /\ digit_cursor \in Cursors
    /\ cur_symbol \in Sounds
    /\ dac_buf \in Sounds
    /\ dac \in BOOLEAN
    /\ adc \in BOOLEAN
    /\ adc_half \in [0 .. 1 -> Sounds]
    /\ target \in 0 .. 1
    /\ tcif \in BOOLEAN
    /\ heard \subseteq Sounds

\* tamo_state_update: what the switch in main() relies on.
LEMMA TamoFacts ==
    ASSUME NEW e \in Emotions, NEW dt \in Int, NEW present \in BOOLEAN
    PROVE  LET r == tamo_state_update(e, dt, present)
           IN  r.emotion \in Emotions /\ (~r.changed => r.emotion = e)
BY DEF tamo_state_update, tamo_state_compute_next, Verdict, WhenLonely, WhenHappy, WhenBored

\* The stream's last half is decodable like any other.
LEMMA DisableType ==
    ASSUME TypeOK, DisableStream
    PROVE  /\ adc' = FALSE /\ tcif' \in BOOLEAN /\ heard' = {}
           /\ adc_half' \in [0 .. 1 -> Sounds]
           /\ UNCHANGED <<modem_state, digit_cursor, cur_symbol, dac_buf, dac, target>>
<1>1. adc_half[target] \in Sounds
  BY DEF TypeOK
<1>2. Decodable(heard \cup {adc_half[target]}) \subseteq Sounds
  BY <1>1, DecodableType DEF TypeOK
<1>3. adc_half' \in [0 .. 1 -> Sounds]
  <2>1. CASE adc
    <3>1. PICK s \in Decodable(heard \cup {adc_half[target]}) :
            adc_half' = [adc_half EXCEPT ![target] = s]
      BY <2>1 DEF DisableStream
    <3> QED BY <1>2, <3>1 DEF TypeOK
  <2>2. CASE ~adc
    BY <2>2 DEF DisableStream, TypeOK
  <2> QED BY <2>1, <2>2
<1> QED BY <1>3 DEF DisableStream, TypeOK

LEMMA MainInv ==
    ASSUME IInv, Main
    PROVE  IInv'
<1> USE DEF adcVars, Goto
<1>t. TypeOK /\ ControlInv /\ OwnedInv /\ DigitInv /\ OnAirIsExpected /\ SilentUnlessBored
  BY DEF IInv
<1>lapped. lapped' \in BOOLEAN
  BY Zenon DEF Main
<1>suff. ASSUME Rest', ControlInv', OwnedInv', DigitInv', OnAirIsExpected', SilentUnlessBored'
         PROVE  IInv'
  BY <1>lapped, <1>suff DEF IInv, TypeOK, Rest
<1>1. CASE Check
  <2>1. Rest'
    BY <1>t, <1>1 DEF Check, Rest, TypeOK, Labels, ModemStates
  <2>2. ControlInv'
    BY <1>t, <1>1 DEF Check, ControlInv, TypeOK, Labels, SilentUnlessBored, OwnedInv
  <2>3. OwnedInv'
    BY <1>t, <1>1 DEF Check, OwnedInv
  <2>4. DigitInv'
    BY <1>t, <1>1 DEF Check, DigitInv, OwnedInv, OnAir
  <2>5. OnAirIsExpected'
    BY <1>t, <1>1 DEF Check, OnAirIsExpected, OwnedInv, DigitInv, OnAir
  <2>6. SilentUnlessBored'
    BY <1>t, <1>1 DEF Check, SilentUnlessBored, OwnedInv, ControlInv, TypeOK, Labels
  <2> QED BY <1>suff, <2>1, <2>2, <2>3, <2>4, <2>5, <2>6
<1>2. CASE Reset
  <2>1. Rest'
    BY <1>t, <1>2 DEF Reset, Rest, TypeOK, Labels, ModemStates
  <2>2. ControlInv'
    BY <1>t, <1>2 DEF Reset, ControlInv, TypeOK, Labels, SilentUnlessBored, OwnedInv
  <2>3. OwnedInv'
    BY <1>t, <1>2 DEF Reset, OwnedInv
  <2>4. DigitInv'
    BY <1>t, <1>2 DEF Reset, DigitInv, OwnedInv, OnAir
  <2>5. OnAirIsExpected'
    BY <1>t, <1>2 DEF Reset, OnAirIsExpected, OwnedInv, DigitInv, OnAir
  <2>6. SilentUnlessBored'
    BY <1>t, <1>2 DEF Reset, SilentUnlessBored, OwnedInv, ControlInv, TypeOK, Labels
  <2> QED BY <1>suff, <2>1, <2>2, <2>3, <2>4, <2>5, <2>6
<1>3. CASE Advance
  <2>1. Rest'
    BY <1>t, <1>3 DEF Advance, WaitingSend, Rest, TypeOK, Labels, ModemStates
  <2>2. ControlInv'
    BY <1>t, <1>3 DEF Advance, WaitingSend, ControlInv, TypeOK, Labels, SilentUnlessBored, OwnedInv
  <2>3. OwnedInv'
    BY <1>t, <1>3 DEF Advance, WaitingSend, OwnedInv
  <2>4. DigitInv'
    BY <1>t, <1>3 DEF Advance, WaitingSend, DigitInv, OwnedInv, OnAir
  <2>5. OnAirIsExpected'
    BY <1>t, <1>3 DEF Advance, WaitingSend, OnAirIsExpected, OwnedInv, DigitInv, OnAir
  <2>6. SilentUnlessBored'
    BY <1>t, <1>3 DEF Advance, WaitingSend, SilentUnlessBored, OwnedInv, ControlInv, TypeOK, Labels
  <2> QED BY <1>suff, <2>1, <2>2, <2>3, <2>4, <2>5, <2>6
<1>4. CASE Begin
  <2>1. Rest'
    BY <1>t, <1>4 DEF Begin, WaitingSend, Rest, TypeOK, Labels, ModemStates
  <2>2. ControlInv'
    BY <1>t, <1>4 DEF Begin, WaitingSend, ControlInv, TypeOK, Labels, SilentUnlessBored, OwnedInv
  <2>3. OwnedInv'
    BY <1>t, <1>4 DEF Begin, WaitingSend, OwnedInv
  <2>4. DigitInv'
    BY <1>t, <1>4 DEF Begin, WaitingSend, DigitInv, OwnedInv, OnAir
  <2>5. OnAirIsExpected'
    BY <1>t, <1>4 DEF Begin, WaitingSend, OnAirIsExpected, OwnedInv, DigitInv, OnAir
  <2>6. SilentUnlessBored'
    BY <1>t, <1>4 DEF Begin, WaitingSend, SilentUnlessBored, OwnedInv, ControlInv, TypeOK, Labels
  <2> QED BY <1>suff, <2>1, <2>2, <2>3, <2>4, <2>5, <2>6
<1>5. CASE StopState
  <2>1. Rest'
    BY <1>t, <1>5 DEF StopState, Rest, TypeOK, Labels, ModemStates
  <2>2. ControlInv'
    BY <1>t, <1>5 DEF StopState, ControlInv, TypeOK, Labels, SilentUnlessBored, OwnedInv
  <2>3. OwnedInv'
    BY <1>t, <1>5 DEF StopState, OwnedInv
  <2>4. DigitInv'
    BY <1>t, <1>5 DEF StopState, DigitInv, OwnedInv, OnAir
  <2>5. OnAirIsExpected'
    BY <1>t, <1>5 DEF StopState, OnAirIsExpected, OwnedInv, DigitInv, OnAir
  <2>6. SilentUnlessBored'
    BY <1>t, <1>5 DEF StopState, SilentUnlessBored, OwnedInv, ControlInv, TypeOK, Labels
  <2> QED BY <1>suff, <2>1, <2>2, <2>3, <2>4, <2>5, <2>6
<1>6. CASE StopDac
  <2>0. heard' \subseteq Sounds
    BY <1>t, <1>6, ListenType DEF StopDac, TypeOK
  <2>b. dac' \in BOOLEAN
    BY <1>6 DEF StopDac
  <2>1. Rest'
    BY <1>t, <1>6, <2>0, <2>b DEF StopDac, Rest, TypeOK, Labels, ModemStates
  <2>2. ControlInv'
    BY <1>t, <1>6 DEF StopDac, ControlInv, TypeOK, Labels, SilentUnlessBored, OwnedInv
  <2>3. OwnedInv'
    BY <1>t, <1>6 DEF StopDac, OwnedInv
  <2>4. DigitInv'
    BY <1>t, <1>6 DEF StopDac, DigitInv, OwnedInv, OnAir
  <2>5. OnAirIsExpected'
    BY <1>t, <1>6 DEF StopDac, OnAirIsExpected, OwnedInv, DigitInv, OnAir
  <2>6. SilentUnlessBored'
    BY <1>t, <1>6 DEF StopDac, SilentUnlessBored, OwnedInv, ControlInv, TypeOK, Labels
  <2> QED BY <1>suff, <2>1, <2>2, <2>3, <2>4, <2>5, <2>6
<1>7. CASE StopAdc
  <2>0. DisableStream
    BY <1>7 DEF StopAdc
  <2>d. /\ adc' = FALSE /\ tcif' \in BOOLEAN /\ heard' = {}
        /\ adc_half' \in [0 .. 1 -> Sounds]
        /\ UNCHANGED <<modem_state, digit_cursor, cur_symbol, dac_buf, dac, target>>
    BY <1>t, <2>0, DisableType
  <2>b. adc' \in BOOLEAN
    BY <2>d
  <2>h. heard' \subseteq Sounds
    BY <2>d
  <2>1. Rest'
    BY <1>t, <1>7, <2>d, <2>b, <2>h DEF StopAdc, Rest, TypeOK, Labels, ModemStates
  <2>2. ControlInv'
    BY <1>t, <1>7, <2>d DEF StopAdc, ControlInv, TypeOK, Labels, SilentUnlessBored, OwnedInv
  <2>3. OwnedInv'
    BY <1>t, <1>7, <2>d DEF StopAdc, OwnedInv, ControlInv
  <2>4. DigitInv'
    BY <1>t, <1>7, <2>d DEF StopAdc, DigitInv, OwnedInv, OnAir, ControlInv
  <2>5. OnAirIsExpected'
    BY <1>t, <1>7, <2>d DEF StopAdc, OnAirIsExpected, OwnedInv, DigitInv, OnAir
  <2>6. SilentUnlessBored'
    BY <1>t, <1>7, <2>d DEF StopAdc, SilentUnlessBored, OwnedInv, ControlInv, TypeOK, Labels
  <2> QED BY <1>suff, <2>1, <2>2, <2>3, <2>4, <2>5, <2>6
<1>8. CASE Pick
  <2>0. digit_cursor' \in Cursors /\ next_digit' \in Symbols
    BY <1>t, <1>8, NextDigitType DEF Pick, TypeOK
  <2>1. Rest'
    BY <1>t, <1>8, <2>0 DEF Pick, Rest, TypeOK, Labels, ModemStates
  <2>2. ControlInv'
    BY <1>t, <1>8 DEF Pick, ControlInv, TypeOK, Labels, SilentUnlessBored, OwnedInv
  <2>3. OwnedInv'
    BY <1>t, <1>8 DEF Pick, OwnedInv
  <2>4. DigitInv'
    BY <1>t, <1>8 DEF Pick, DigitInv, OwnedInv, OnAir
  <2>5. OnAirIsExpected'
    BY <1>t, <1>8 DEF Pick, OnAirIsExpected, OwnedInv, DigitInv, OnAir
  <2>6. SilentUnlessBored'
    BY <1>t, <1>8 DEF Pick, SilentUnlessBored, OwnedInv, ControlInv, TypeOK, Labels
  <2> QED BY <1>suff, <2>1, <2>2, <2>3, <2>4, <2>5, <2>6
<1>9. CASE Sending
  <2>1. Rest'
    BY <1>t, <1>9 DEF Sending, Rest, TypeOK, Labels, ModemStates
  <2>2. ControlInv'
    BY <1>t, <1>9 DEF Sending, ControlInv, TypeOK, Labels, SilentUnlessBored, OwnedInv
  <2>3. OwnedInv'
    BY <1>t, <1>9 DEF Sending, OwnedInv
  <2>4. DigitInv'
    BY <1>t, <1>9 DEF Sending, DigitInv, OwnedInv, OnAir
  <2>5. OnAirIsExpected'
    BY <1>t, <1>9 DEF Sending, OnAirIsExpected, OwnedInv, DigitInv, OnAir
  <2>6. SilentUnlessBored'
    BY <1>t, <1>9 DEF Sending, SilentUnlessBored, OwnedInv, ControlInv, TypeOK, Labels
  <2> QED BY <1>suff, <2>1, <2>2, <2>3, <2>4, <2>5, <2>6
<1>10. CASE Fill
  <2>0. heard' \subseteq Sounds
    BY <1>t, <1>10, ListenType DEF Fill, TypeOK
  <2>1. Rest'
    BY <1>t, <1>10, <2>0 DEF Fill, Rest, TypeOK, Labels, ModemStates
  <2>2. ControlInv'
    BY <1>t, <1>10 DEF Fill, ControlInv, TypeOK, Labels, SilentUnlessBored, OwnedInv
  <2>3. OwnedInv'
    BY <1>t, <1>10 DEF Fill, OwnedInv
  <2>4. DigitInv'
    BY <1>t, <1>10 DEF Fill, DigitInv, OwnedInv, OnAir
  <2>5. OnAirIsExpected'
    BY <1>t, <1>10 DEF Fill, OnAirIsExpected, OwnedInv, DigitInv, OnAir
  <2>6. SilentUnlessBored'
    BY <1>t, <1>10 DEF Fill, SilentUnlessBored, OwnedInv, ControlInv, TypeOK, Labels
  <2> QED BY <1>suff, <2>1, <2>2, <2>3, <2>4, <2>5, <2>6
<1>11. CASE DacSetup
  <2>0. heard' \subseteq Sounds
    BY <1>t, <1>11, ListenType DEF DacSetup, TypeOK
  <2>b. dac' \in BOOLEAN
    BY <1>11 DEF DacSetup
  <2>1. Rest'
    BY <1>t, <1>11, <2>0, <2>b DEF DacSetup, Rest, TypeOK, Labels, ModemStates
  <2>2. ControlInv'
    BY <1>t, <1>11 DEF DacSetup, ControlInv, TypeOK, Labels, SilentUnlessBored, OwnedInv
  <2>3. OwnedInv'
    BY <1>t, <1>11 DEF DacSetup, OwnedInv
  <2>4. DigitInv'
    BY <1>t, <1>11 DEF DacSetup, DigitInv, OwnedInv, OnAir
  <2>5. OnAirIsExpected'
    BY <1>t, <1>11 DEF DacSetup, OnAirIsExpected, OwnedInv, DigitInv, OnAir
  <2>6. SilentUnlessBored'
    BY <1>t, <1>11 DEF DacSetup, SilentUnlessBored, OwnedInv, ControlInv, TypeOK, Labels
  <2> QED BY <1>suff, <2>1, <2>2, <2>3, <2>4, <2>5, <2>6
<1>12. CASE DacStart
  <2>0. heard' \subseteq Sounds
    BY <1>t, <1>12, ListenType DEF DacStart, TypeOK
  <2>1. Rest'
    BY <1>t, <1>12, <2>0 DEF DacStart, Rest, TypeOK, Labels, ModemStates
  <2>2. ControlInv'
    BY <1>t, <1>12 DEF DacStart, ControlInv, TypeOK, Labels, SilentUnlessBored, OwnedInv
  <2>3. OwnedInv'
    BY <1>t, <1>12 DEF DacStart, OwnedInv
  <2>4. DigitInv'
    BY <1>t, <1>12 DEF DacStart, DigitInv, OwnedInv, OnAir
  <2>5. OnAirIsExpected'
    BY <1>t, <1>12 DEF DacStart, OnAirIsExpected, OwnedInv, DigitInv, OnAir
  <2>6. SilentUnlessBored'
    BY <1>t, <1>12 DEF DacStart, SilentUnlessBored, OwnedInv, ControlInv, TypeOK, Labels
  <2> QED BY <1>suff, <2>1, <2>2, <2>3, <2>4, <2>5, <2>6
<1>13. CASE AdcSetup
  <2>0. DisableStream
    BY <1>13 DEF AdcSetup
  <2>d. /\ adc' = FALSE /\ tcif' \in BOOLEAN /\ heard' = {}
        /\ adc_half' \in [0 .. 1 -> Sounds]
        /\ UNCHANGED <<modem_state, digit_cursor, cur_symbol, dac_buf, dac, target>>
    BY <1>t, <2>0, DisableType
  <2>b. adc' \in BOOLEAN
    BY <2>d
  <2>h. heard' \subseteq Sounds
    BY <2>d
  <2>1. Rest'
    BY <1>t, <1>13, <2>d, <2>b, <2>h DEF AdcSetup, Rest, TypeOK, Labels, ModemStates
  <2>2. ControlInv'
    BY <1>t, <1>13, <2>d DEF AdcSetup, ControlInv, TypeOK, Labels, SilentUnlessBored, OwnedInv
  <2>3. OwnedInv'
    BY <1>t, <1>13, <2>d DEF AdcSetup, OwnedInv
  <2>4. DigitInv'
    BY <1>t, <1>13, <2>d DEF AdcSetup, DigitInv, OwnedInv, OnAir
  <2>5. OnAirIsExpected'
    BY <1>t, <1>13, <2>d DEF AdcSetup, OnAirIsExpected, OwnedInv, DigitInv, OnAir
  <2>6. SilentUnlessBored'
    BY <1>t, <1>13, <2>d DEF AdcSetup, SilentUnlessBored, OwnedInv, ControlInv, TypeOK, Labels
  <2> QED BY <1>suff, <2>1, <2>2, <2>3, <2>4, <2>5, <2>6
<1>14. CASE AdcStart
  <2>0. heard' \subseteq Sounds
    BY <1>t, <1>14 DEF AdcStart, Signal, TypeOK
  <2>1. Rest'
    BY <1>t, <1>14, <2>0 DEF AdcStart, Rest, TypeOK, Labels, ModemStates
  <2>2. ControlInv'
    BY <1>t, <1>14 DEF AdcStart, ControlInv, TypeOK, Labels, SilentUnlessBored, OwnedInv
  <2>3. OwnedInv'
    BY <1>t, <1>14 DEF AdcStart, OwnedInv, ControlInv
  <2>4. DigitInv'
    BY <1>t, <1>14 DEF AdcStart, DigitInv, OwnedInv, OnAir, ControlInv
  <2>5. OnAirIsExpected'
    BY <1>t, <1>14 DEF AdcStart, OnAirIsExpected, OwnedInv, DigitInv, OnAir
  <2>6. SilentUnlessBored'
    BY <1>t, <1>14 DEF AdcStart, SilentUnlessBored, OwnedInv, ControlInv, TypeOK, Labels
  <2> QED BY <1>suff, <2>1, <2>2, <2>3, <2>4, <2>5, <2>6
<1>15. CASE Tamo
  <2>0. /\ current_emotion' \in Emotions
        /\ \/ current_emotion' # "BORED" /\ pc' = "stop_state" /\ ret' = "check"
           \/ current_emotion' = "BORED" /\ pc' \in {"begin", "check"} /\ ret' = ret
           \/ current_emotion' = current_emotion /\ pc' = "check" /\ ret' = ret
    <3>1. PICK present \in Presence, dt \in Dts :
            LET r == tamo_state_update(current_emotion, dt, present)
            IN  /\ current_emotion' = r.emotion
                /\ IF r.changed /\ r.emotion # "BORED"
                   THEN pc' = "stop_state" /\ ret' = "check"
                   ELSE /\ pc' = IF r.changed /\ modem_state = "IDLE" THEN "begin" ELSE "check"
                        /\ UNCHANGED ret
      BY <1>15 DEF Tamo
    <3> DEFINE r == tamo_state_update(current_emotion, dt, present)
    <3>2. dt \in Int /\ present \in BOOLEAN
      BY DEF Dts
    <3>3. r.emotion \in Emotions /\ (~r.changed => r.emotion = current_emotion)
      BY <1>t, <3>2, TamoFacts DEF TypeOK
    <3>4. CASE ~r.changed
      BY <3>1, <3>3, <3>4
    <3>5. CASE r.changed /\ r.emotion # "BORED"
      BY <3>1, <3>3, <3>5
    <3>6. CASE r.changed /\ r.emotion = "BORED"
      BY <3>1, <3>3, <3>6
    <3> QED BY <3>4, <3>5, <3>6
  <2>u. /\ pc = "tamo"
        /\ UNCHANGED <<next_digit, modem_state, digit_cursor, cur_symbol, dac_buf, dac,
                       adcVars, heard>>
    BY <1>15 DEF Tamo
  <2>1. Rest'
    BY <1>t, <2>0, <2>u DEF Rest, TypeOK, Labels
  <2>2. ControlInv'
    BY <1>t, <2>0, <2>u DEF TypeOK, Labels, ControlInv, SilentUnlessBored, OwnedInv
  <2>3. OwnedInv'
    BY <1>t, <2>0, <2>u DEF TypeOK, Labels, OwnedInv
  <2>4. DigitInv'
    BY <1>t, <2>0, <2>u DEF TypeOK, Labels, DigitInv, OwnedInv, OnAir
  <2>5. OnAirIsExpected'
    BY <1>t, <2>0, <2>u DEF TypeOK, Labels, OnAirIsExpected, OwnedInv, DigitInv, OnAir
  <2>6. SilentUnlessBored'
    BY <1>t, <2>0, <2>u DEF TypeOK, Labels, SilentUnlessBored, OwnedInv, ControlInv
  <2> QED BY <1>suff, <2>1, <2>2, <2>3, <2>4, <2>5, <2>6
<1> QED
  BY <1>1, <1>2, <1>3, <1>4, <1>5, <1>6, <1>7, <1>8, <1>9, <1>10, <1>11, <1>12, <1>13, <1>14, <1>15 DEF Main, MainStep

---------------------------------------------------------------------------
(* The theorems.                                                             *)

LEMMA NextInv == IInv /\ [Next]_vars => IInv'
<1> SUFFICES ASSUME IInv, [Next]_vars PROVE IInv'
  OBVIOUS
<1>1. CASE Main
  BY <1>1, MainInv
<1>2. CASE HalfDone
  BY <1>2, HalfInv
<1>3. CASE AdcIsr
  BY <1>3, IsrInv
<1>4. CASE UNCHANGED vars
  <2> USE <1>4 DEF vars, mainVars, adcVars
  <2>1. TypeOK'
    BY DEF IInv, TypeOK
  <2>2. ControlInv' /\ OwnedInv' /\ DigitInv' /\ OnAirIsExpected' /\ SilentUnlessBored'
    BY DEF IInv, ControlInv, OwnedInv, DigitInv, OnAirIsExpected, SilentUnlessBored
  <2> QED BY <2>1, <2>2 DEF IInv
<1> QED BY <1>1, <1>2, <1>3, <1>4 DEF Next

LEMMA Invariance == Spec => []IInv
BY InitInv, NextInv, PTL DEF Spec

\* Every variable of the recital keeps its type: in particular digit_cursor
\* (pi_reciter.c) never leaves 0 .. N_PI_DIGITS and 0xFF, so pi_digits is never
\* read outside its bounds, whoever calls the reciter, main() or the ISR.
THEOREM TypeCorrect == Spec => []TypeOK
<1>1. IInv => TypeOK
  BY DEF IInv
<1> QED BY <1>1, Invariance, PTL

\* Whatever main() and the ADC interrupt do in whatever order, the waveform in
\* dac_buf is that of the digit the reciter expects next (main.c,
\* tone_start_next_digit and dtmf_tone_stop_cb).
THEOREM OnAirCorrect == Spec => []OnAirIsExpected
<1>1. IInv => OnAirIsExpected
  BY DEF IInv
<1> QED BY <1>1, Invariance, PTL

\* A board that is not bored is silent, deaf and idle at every pass of its
\* loop, whatever interrupt was still in flight when it stopped (main.c,
\* tone_stop and the guards of both callbacks).
THEOREM SilenceCorrect == Spec => []SilentUnlessBored
<1>1. IInv => SilentUnlessBored
  BY DEF IInv
<1> QED BY <1>1, Invariance, PTL

---------------------------------------------------------------------------
(* A clean channel and a user who stays: what the two halves of adc_buf, and  *)
(* the one being filled, may hold.                                            *)

CleanChannel == Noise = {} /\ Presence = {TRUE} /\ ~SlowMain

Expected == pi_reciter_next_digit(digit_cursor)
Older    == adc_half[target]        \* the half that CT names ...
Newer    == adc_half[1 - target]    \* ... and the other

\* The digit that is being sent may be on the air, or still in a buffer.
Ringing == modem_state \in OnAir /\ pc \notin {"fill", "dac_setup", "dac_start"}

PlaceInv ==
    /\ pc \in {"fill", "dac_setup", "dac_start", "adc_setup"} => modem_state = "SENDING"
    /\ pc = "adc_start" => modem_state \in OnAir /\ ~adc
    /\ pc \in {"stop_state", "advance", "begin"} => modem_state \notin OnAir

\* Before a digit rings, the last one is gone from both halves.
HushInv ==
    ~Ringing =>
        /\ ~dac /\ cur_symbol = NONE
        /\ Older = NONE /\ Newer = NONE
        /\ heard \subseteq {NONE}

OneSoundInv ==
    Ringing =>
        /\ Older \in {NONE, Expected} /\ Newer \in {NONE, Expected}
        /\ heard \subseteq {NONE, Expected}

\* While main() sets the ADC up, the half it has yet to decode is silent: it does
\* not turn the DAC on after the digit was heard.
SendingInv ==
    modem_state = "SENDING" /\ Ringing =>
        /\ dac /\ cur_symbol = NONE
        /\ pc = "adc_setup" => Older = NONE /\ (lapped \/ Newer = NONE)
        /\ pc \in LoopTop => heard \subseteq {Expected} /\ (tcif => Newer = Expected)

\* A half that is silent after the tone has stopped is followed by silence only.
FadingInv ==
    modem_state = "WAITING_STOP" =>
        /\ ~dac /\ cur_symbol = Expected
        /\ pc = "adc_start" => ~tcif
        /\ tcif => heard \subseteq {NONE} /\ (Older = NONE => Newer = NONE)
        /\ ~tcif /\ Newer = NONE => heard \subseteq {NONE}

\* While the ADC's stream runs, the half that it fills has heard something.
HearsInv == adc => heard # {}

CleanInv ==
    /\ HearsInv /\ NeverWrong /\ PlaceInv /\ HushInv /\ OneSoundInv /\ SendingInv /\ FadingInv

\* A digit that is heard as it was sent is never refused.
LEMMA RxExpected ==
    ASSUME NEW c \in Cursors, c # WRONG
    PROVE  pi_reciter_rx_digit(c, pi_reciter_next_digit(c)).cursor # WRONG
BY DEF pi_reciter_rx_digit, pi_reciter_next_digit, Rx

\* Halves of a buffer: the one that is written and the other.
LEMMA Halves ==
    ASSUME TypeOK
    PROVE  /\ target \in {0, 1} /\ 1 - target \in {0, 1} /\ 1 - (1 - target) = target
           /\ 1 - target # target
           /\ \A s : LET w == [adc_half EXCEPT ![target] = s]
                    IN  w[target] = s /\ w[1 - target] = Newer
<1>1. /\ target \in {0, 1} /\ 1 - target \in {0, 1} /\ 1 - (1 - target) = target
      /\ 1 - target # target
  BY DEF TypeOK
<1>2. DOMAIN adc_half = 0 .. 1
  BY DEF TypeOK
<1> QED BY <1>1, <1>2 DEF Newer

LEMMA CleanInit == CleanChannel /\ Init => CleanInv
BY DEF Init, dtmf_init, CleanInv, HearsInv, NeverWrong, PlaceInv, HushInv, OneSoundInv, SendingInv, FadingInv,
       Ringing, OnAir, Older, Newer, Expected, HearsInv, pi_reciter_next_digit

\* A half is completed: the sound it was filled with becomes the newer one.
LEMMA CleanHalf ==
    ASSUME CleanChannel, IInv, CleanInv, HalfDone
    PROVE  CleanInv'
<1>t. TypeOK /\ OwnedInv /\ OnAirIsExpected
  BY DEF IInv
<1>c. HearsInv /\ NeverWrong /\ PlaceInv /\ HushInv /\ OneSoundInv /\ SendingInv /\ FadingInv
  BY DEF CleanInv
<1>1. PICK s \in Decodable(heard) : adc_half' = [adc_half EXCEPT ![target] = s]
  BY DEF HalfDone
<1>2. /\ adc /\ ~tcif /\ tcif' = TRUE /\ target' = 1 - target /\ heard' = {Signal}
      /\ ~lapped /\ lapped' = (pc \notin LoopTop)
      /\ UNCHANGED <<pc, modem_state, digit_cursor, cur_symbol, dac_buf, dac, adc>>
  BY DEF HalfDone, mainVars, CleanChannel
<1>h. Noise = {} /\ heard # {}
  BY <1>2, <1>c DEF HearsInv, CleanChannel
<1>3. Older' = Newer /\ Newer' = s /\ Expected' = Expected /\ (Ringing' <=> Ringing)
  <2>1. adc_half'[target] = s /\ adc_half'[1 - target] = Newer
    BY <1>1, <1>t, Halves
  <2>2. 1 - (1 - target) = target
    BY <1>t, Halves
  <2> QED BY <1>2, <2>1, <2>2 DEF Older, Newer, Expected, Ringing
<1>4. HearsInv' /\ NeverWrong' /\ PlaceInv'
  BY <1>2, <1>c DEF HearsInv, NeverWrong, PlaceInv
<1>e. Expected \in Symbols /\ Expected # NONE
  BY <1>t, NextDigitType DEF Expected, TypeOK
<1>5. HushInv'
  <2>1. ASSUME ~Ringing PROVE s = NONE /\ Signal = NONE
    BY <2>1, <1>h, <1>c, <1>e, CleanDecodable DEF HushInv, Signal
  <2> QED BY <1>2, <1>3, <1>c, <2>1 DEF HushInv
<1>6. ASSUME Ringing
      PROVE  s \in {NONE, Expected} /\ Signal \in {NONE, Expected}
  <2>1. s \in {NONE, Expected}
    BY <1>6, <1>h, <1>c, <1>e, CleanDecodable DEF OneSoundInv
  <2>2. dac_buf = Expected
    BY <1>6, <1>t DEF OnAirIsExpected, Ringing, OnAir, Expected
  <2> QED BY <2>1, <2>2 DEF Signal
<1>7. OneSoundInv'
  BY <1>2, <1>3, <1>6, <1>c DEF OneSoundInv
<1>8. SendingInv'
  <2>1. ASSUME modem_state = "SENDING", Ringing
        PROVE  /\ dac /\ cur_symbol = NONE
               /\ pc = "adc_setup" => Newer = NONE /\ lapped'
               /\ pc \in LoopTop => Signal = Expected /\ s = Expected
    <3>1. dac /\ cur_symbol = NONE
      BY <2>1, <1>c DEF SendingInv
    <3>2. pc = "adc_setup" => Newer = NONE /\ lapped'
      BY <2>1, <1>2, <1>c DEF SendingInv
    <3>3. Signal = Expected
      BY <2>1, <3>1, <1>t DEF Signal, OnAirIsExpected, Ringing, OnAir, Expected
    <3>4. pc \in LoopTop => s = Expected
      BY <2>1, <1>h, <1>c, <1>e, CleanDecodable DEF SendingInv
    <3> QED BY <3>1, <3>2, <3>3, <3>4
  <2> QED BY <1>2, <1>3, <2>1 DEF SendingInv
<1>9. FadingInv'
  <2>1. ASSUME modem_state = "WAITING_STOP"
        PROVE  /\ ~dac /\ cur_symbol = Expected /\ pc # "adc_start"
               /\ Signal = NONE
               /\ Newer = NONE => s = NONE
    <3>1. ~dac /\ cur_symbol = Expected /\ (Newer = NONE => heard \subseteq {NONE})
      BY <2>1, <1>2, <1>c DEF FadingInv
    <3>2. pc # "adc_start"
      BY <1>2, <1>c DEF PlaceInv
    <3> QED BY <3>1, <3>2, <1>h, <1>e, CleanDecodable DEF Signal
  <2> QED BY <1>2, <1>3, <2>1 DEF FadingInv
<1> QED BY <1>4, <1>5, <1>7, <1>8, <1>9 DEF CleanInv

\* What the decoder makes of a modem whose symbol is silence or the expected digit.
LEMMA DecodedClean ==
    ASSUME NEW m \in Modems, m.cursor # WRONG, NEW s,
           NEW e \in Symbols, e = pi_reciter_next_digit(m.cursor), s \in {NONE, e}
    PROVE  LET n == dtmf_sym_decoded(m, s)
           IN  /\ s = m.cur => n = m
               /\ m.state = "SENDING" /\ m.cur = NONE /\ s = e =>
                    n.state = "WAITING_STOP" /\ ~n.dac /\ n.cur = e /\ n.cursor = m.cursor
               /\ m.state = "WAITING_STOP" /\ m.cur = e /\ s = NONE =>
                    n.state \in {"DONE", "RESTART"} /\ n.dac = m.dac /\ n.cur = NONE
                      /\ n.cursor # WRONG
<1>0. e # NONE
  OBVIOUS
<1>1. ASSUME s = m.cur PROVE dtmf_sym_decoded(m, s) = m
  BY <1>1 DEF dtmf_sym_decoded
<1>2. ASSUME m.state = "SENDING", m.cur = NONE, s = e
      PROVE  dtmf_sym_decoded(m, s) = [[m EXCEPT !.cur = e] EXCEPT !.state = "WAITING_STOP", !.dac = FALSE]
  BY <1>0, <1>2 DEF dtmf_sym_decoded, dtmf_tone_start_cb, Modems
<1>3. ASSUME m.state = "WAITING_STOP", m.cur = e, s = NONE
      PROVE  LET rx == pi_reciter_rx_digit(m.cursor, e)
             IN  dtmf_sym_decoded(m, s) =
                   [[m EXCEPT !.cursor = rx.cursor,
                              !.state = IF rx.status = "OKAY" THEN "DONE" ELSE "RESTART"]
                      EXCEPT !.cur = NONE]
  BY <1>0, <1>3 DEF dtmf_sym_decoded, dtmf_tone_stop_cb
<1>4. pi_reciter_rx_digit(m.cursor, e).cursor # WRONG
  BY RxExpected DEF Modems
<1>5. ASSUME m.state = "SENDING", m.cur = NONE, s = e
      PROVE  LET n == dtmf_sym_decoded(m, s)
             IN  n.state = "WAITING_STOP" /\ ~n.dac /\ n.cur = e /\ n.cursor = m.cursor
  <2> DEFINE set == [m EXCEPT !.cur = e]
  <2>1. set \in Modems /\ set.cur = e /\ set.cursor = m.cursor
    BY DEF Modems
  <2>2. dtmf_sym_decoded(m, s) = [set EXCEPT !.state = "WAITING_STOP", !.dac = FALSE]
    BY <1>2, <1>5
  <2> HIDE DEF set
  <2> QED BY <2>1, <2>2 DEF Modems
<1>6. ASSUME m.state = "WAITING_STOP", m.cur = e, s = NONE
      PROVE  LET n == dtmf_sym_decoded(m, s)
             IN  n.state \in {"DONE", "RESTART"} /\ n.dac = m.dac /\ n.cur = NONE
                   /\ n.cursor # WRONG
  <2> DEFINE rx == pi_reciter_rx_digit(m.cursor, e)
             t  == IF rx.status = "OKAY" THEN "DONE" ELSE "RESTART"
             up == [m EXCEPT !.cursor = rx.cursor, !.state = t]
  <2>1. rx.cursor \in Cursors /\ t \in {"DONE", "RESTART"}
    BY RxDigitType DEF Modems
  <2>2. dtmf_sym_decoded(m, s) = [up EXCEPT !.cur = NONE]
    BY <1>3, <1>6
  <2>3. rx.cursor # WRONG
    BY <1>4
  <2> HIDE DEF rx, t
  <2>4. up \in Modems /\ up.state = t /\ up.cursor = rx.cursor /\ up.dac = m.dac
    BY <2>1 DEF Modems, ModemStates
  <2> HIDE DEF up
  <2>5. LET n == [up EXCEPT !.cur = NONE]
        IN  n.state = up.state /\ n.cursor = up.cursor /\ n.dac = up.dac /\ n.cur = NONE
    BY <2>4 DEF Modems
  <2> QED BY <2>1, <2>2, <2>3, <2>4, <2>5
<1> QED BY <1>1, <1>5, <1>6

\* The interrupt decodes the older half: silence or the digit that rings.
LEMMA CleanIsr ==
    ASSUME CleanChannel, IInv, CleanInv, AdcIsr
    PROVE  CleanInv'
<1> DEFINE m == Shared
           n == dtmf_sym_decoded(m, Older)
<1>t. TypeOK /\ OwnedInv /\ OnAirIsExpected
  BY DEF IInv
<1>c. HearsInv /\ NeverWrong /\ PlaceInv /\ HushInv /\ OneSoundInv /\ SendingInv /\ FadingInv
  BY DEF CleanInv
<1>1. /\ m \in Modems /\ m.state = modem_state /\ m.cursor = digit_cursor
      /\ m.cur = cur_symbol /\ m.dac = dac
  BY <1>t DEF Shared, Modems, TypeOK
<1>2. /\ modem_state' = n.state /\ digit_cursor' = n.cursor /\ cur_symbol' = n.cur
      /\ dac' = n.dac /\ tcif /\ tcif' = FALSE
      /\ UNCHANGED <<pc, dac_buf, adc, adc_half, target, lapped>>
      /\ Older' = Older /\ Newer' = Newer
      /\ heard' = IF adc THEN heard \cup {Signal'} ELSE {}
  BY DEF AdcIsr, mainVars, Older, Newer, Listen
<1>e. Expected \in Symbols /\ Expected # NONE /\ Expected = pi_reciter_next_digit(m.cursor)
  BY <1>1, <1>t, NextDigitType DEF Expected, TypeOK
<1>o. Older \in {NONE, Expected}
  BY <1>c DEF HushInv, OneSoundInv
<1>w. m.cursor # WRONG
  BY <1>1, <1>c DEF NeverWrong
<1>d. /\ Older = m.cur => n = m
      /\ m.state = "SENDING" /\ m.cur = NONE /\ Older = Expected =>
           n.state = "WAITING_STOP" /\ ~n.dac /\ n.cur = Expected /\ n.cursor = m.cursor
      /\ m.state = "WAITING_STOP" /\ m.cur = Expected /\ Older = NONE =>
           n.state \in {"DONE", "RESTART"} /\ n.dac = m.dac /\ n.cur = NONE
             /\ n.cursor # WRONG
  BY <1>1, <1>e, <1>o, <1>w, DecodedClean
<1> HIDE DEF m, n
<1>3. CASE Older = cur_symbol
  <2>1. UNCHANGED <<modem_state, digit_cursor, cur_symbol, dac>>
    BY <1>1, <1>2, <1>3, <1>d
  <2>2. Expected' = Expected /\ (Ringing' <=> Ringing) /\ Signal' = Signal
    BY <1>2, <2>1 DEF Expected, Ringing, Signal
  <2>3. HearsInv' /\ NeverWrong' /\ PlaceInv'
    BY <1>2, <2>1, <1>c DEF HearsInv, NeverWrong, PlaceInv
  <2>4. HushInv'
    BY <1>2, <2>1, <2>2, <1>c DEF HushInv, Signal
  <2>5. Ringing => Signal \in {NONE, Expected}
    BY <1>t DEF Signal, OnAirIsExpected, Ringing, OnAir, Expected
  <2>6. OneSoundInv'
    BY <1>2, <2>2, <2>5, <1>c DEF OneSoundInv
  <2>7. modem_state = "SENDING" /\ Ringing => Signal = Expected
    BY <1>c, <1>t DEF SendingInv, Signal, OnAirIsExpected, Ringing, OnAir, Expected
  <2>8. SendingInv'
    BY <1>2, <2>1, <2>2, <2>7, <1>c DEF SendingInv
  <2>9. FadingInv'
    BY <1>2, <2>1, <2>2, <1>c DEF FadingInv, Signal
  <2> QED BY <2>3, <2>4, <2>6, <2>8, <2>9 DEF CleanInv
<1>4. CASE Older # cur_symbol
  <2>1. Ringing /\ modem_state \in OnAir
    BY <1>4, <1>c DEF HushInv, Ringing
  <2>2. CASE modem_state = "SENDING"
    <3>1. cur_symbol = NONE /\ Older = Expected
      BY <1>4, <1>c, <1>o, <2>1, <2>2 DEF SendingInv
    <3>2. /\ modem_state' = "WAITING_STOP" /\ ~dac' /\ cur_symbol' = Expected
          /\ digit_cursor' = digit_cursor
      BY <1>1, <1>2, <1>d, <2>2, <3>1
    <3>3. Expected' = Expected /\ Ringing' /\ Signal' = NONE
      BY <1>2, <3>2, <2>1 DEF Expected, Ringing, Signal, OnAir
    <3>4. pc \in LoopTop \cup {"adc_start"}
      BY <1>e, <1>c, <1>t, <2>1, <2>2, <3>1 DEF PlaceInv, OwnedInv, SendingInv, Ringing, OnAir, TypeOK, Labels
    <3>5. HearsInv' /\ NeverWrong' /\ PlaceInv'
      BY <1>2, <3>2, <3>4, <1>c DEF HearsInv, NeverWrong, PlaceInv, OnAir
    <3>6. HushInv' /\ OneSoundInv' /\ SendingInv'
      BY <1>2, <3>2, <3>3, <2>1, <1>c DEF HushInv, OneSoundInv, SendingInv
    <3>7. FadingInv'
      <4>1. pc = "adc_start" => heard' = {}
        BY <1>2, <1>c DEF PlaceInv
      <4>2. pc \in LoopTop => Newer' = Expected
        BY <1>2, <2>1, <2>2, <1>c DEF SendingInv
      <4> QED BY <1>2, <1>e, <3>2, <3>3, <3>4, <4>1, <4>2 DEF FadingInv
    <3> QED BY <3>5, <3>6, <3>7 DEF CleanInv
  <2>3. CASE modem_state = "WAITING_STOP"
    <3>1. cur_symbol = Expected /\ Older = NONE /\ ~dac /\ Newer = NONE /\ heard \subseteq {NONE}
      BY <1>2, <1>4, <1>c, <1>o, <2>3 DEF FadingInv
    <3>2. /\ modem_state' \in {"DONE", "RESTART"} /\ ~dac' /\ cur_symbol' = NONE
          /\ digit_cursor' # WRONG
      BY <1>1, <1>2, <1>d, <2>3, <3>1
    <3>3. Signal' = NONE /\ ~Ringing'
      BY <3>2 DEF Signal, Ringing, OnAir
    <3>4. pc \in LoopTop
      BY <1>2, <1>c, <1>t, <2>1, <2>3 DEF PlaceInv, OwnedInv, FadingInv, Ringing, OnAir, TypeOK, Labels
    <3>5. HearsInv' /\ NeverWrong' /\ PlaceInv'
      BY <1>2, <3>2, <3>4 DEF HearsInv, NeverWrong, PlaceInv
    <3>6. HushInv'
      BY <1>2, <3>1, <3>2, <3>3 DEF HushInv
    <3>7. OneSoundInv' /\ SendingInv' /\ FadingInv'
      BY <3>2, <3>3 DEF OneSoundInv, SendingInv, FadingInv
    <3> QED BY <3>5, <3>6, <3>7 DEF CleanInv
  <2> QED BY <2>1, <2>2, <2>3 DEF OnAir
<1> QED BY <1>3, <1>4

\* Of a hushed board the stream's last half is silent; else it holds one sound.
LEMMA CleanDisable ==
    ASSUME CleanChannel, TypeOK, CleanInv, DisableStream
    PROVE  /\ ~adc' /\ heard' = {} /\ Newer' = Newer
           /\ UNCHANGED <<modem_state, digit_cursor, cur_symbol, dac_buf, dac, target>>
           /\ ~Ringing => Older' = NONE
           /\ Ringing => Older' \in {NONE, Expected}
<1>c. HushInv /\ OneSoundInv /\ Noise = {}
  BY DEF CleanInv, CleanChannel
<1>e. Expected \in Symbols
  BY NextDigitType DEF Expected, TypeOK
<1>1. /\ ~adc' /\ heard' = {}
      /\ UNCHANGED <<modem_state, digit_cursor, cur_symbol, dac_buf, dac, target>>
  BY DEF DisableStream
<1>2. CASE adc
  <2>1. PICK s \in Decodable(heard \cup {Older}) : adc_half' = [adc_half EXCEPT ![target] = s]
    BY <1>2 DEF DisableStream, Older
  <2>2. Older' = s /\ Newer' = Newer
    BY <1>1, <2>1, Halves DEF Older, Newer
  <2>3. ~Ringing => s = NONE
    <3> DEFINE h == heard \cup {Older}
    <3>1. ~Ringing => h \subseteq {NONE}
      BY <1>c DEF HushInv
    <3>2. h # {} /\ s \in Decodable(h)
      BY <2>1
    <3> HIDE DEF h
    <3>3. ~Ringing => Decodable(h) \subseteq {NONE}
      BY <1>c, <1>e, <3>1, <3>2, CleanDecodable
    <3> QED BY <3>2, <3>3
  <2>4. ASSUME Ringing PROVE s \in {NONE, Expected}
    <3> DEFINE h == heard \cup {Older}
    <3>1. h \subseteq {NONE, Expected} /\ h # {} /\ s \in Decodable(h)
      BY <1>c, <2>1, <2>4 DEF OneSoundInv
    <3> HIDE DEF h
    <3>2. Decodable(h) \subseteq {NONE, Expected}
      BY <1>c, <1>e, <3>1, CleanDecodable
    <3> QED BY <3>1, <3>2
  <2> QED BY <1>1, <2>2, <2>3, <2>4
<1>3. CASE ~adc
  <2>1. Older' = Older /\ Newer' = Newer
    BY <1>1, <1>3 DEF DisableStream, Older, Newer
  <2> QED BY <1>1, <2>1, <1>c DEF HushInv, OneSoundInv
<1> QED BY <1>2, <1>3

\* A user who stays keeps the board bored, and only main() of a bored board
\* ever starts a tone.
LEMMA CleanTamo ==
    ASSUME CleanChannel, IInv, CleanInv, Tamo
    PROVE  CleanInv'
<1>1. PICK present \in Presence, dt \in Dts :
        LET r == tamo_state_update(current_emotion, dt, present)
        IN  /\ dt < 0 => current_emotion = "LONELY"
            /\ current_emotion' = r.emotion
            /\ IF r.changed /\ r.emotion # "BORED"
               THEN pc' = "stop_state" /\ ret' = "check"
               ELSE /\ pc' = IF r.changed /\ modem_state = "IDLE" THEN "begin" ELSE "check"
                    /\ UNCHANGED ret
  BY DEF Tamo
<1>2. /\ pc = "tamo"
      /\ UNCHANGED <<modem_state, digit_cursor, cur_symbol, dac_buf, dac, adc_half, target,
                     tcif, adc, heard>>
  BY DEF Tamo, adcVars
<1>3. current_emotion = "BORED" => pc' = "check"
  <2>1. present = TRUE /\ dt \in Int
    BY DEF CleanChannel, Dts
  <2>2. current_emotion = "BORED" => ~(dt < 0)
    BY <1>1
  <2>3. current_emotion = "BORED" =>
          ~tamo_state_update(current_emotion, dt, present).changed
    BY <2>1, <2>2 DEF tamo_state_update, tamo_state_compute_next, Verdict, WhenBored
  <2> QED BY <1>1, <2>3
<1>4. current_emotion # "BORED" => modem_state = "IDLE" /\ pc' \in {"stop_state", "begin", "check"}
  BY <1>1, <1>2 DEF IInv, SilentUnlessBored
<1>5. UNCHANGED <<Older, Newer, Expected, Signal>>
  BY <1>2 DEF Older, Newer, Expected, Signal
<1>6. pc' \in {"stop_state", "begin", "check"} /\ (Ringing' <=> Ringing)
  BY <1>2, <1>3, <1>4 DEF Ringing, OnAir
<1>7. HearsInv' /\ NeverWrong' /\ PlaceInv'
  BY <1>2, <1>3, <1>4 DEF CleanInv, HearsInv, NeverWrong, PlaceInv, OnAir
<1>8. HushInv' /\ OneSoundInv' /\ SendingInv' /\ FadingInv'
  BY <1>2, <1>5, <1>6 DEF CleanInv, HushInv, OneSoundInv, SendingInv, FadingInv
<1> QED BY <1>7, <1>8 DEF CleanInv

\* Steps of main() that take the recital from one digit to the next are taken by
\* a hushed board and leave it hushed.
LEMMA CleanBetween ==
    ASSUME CleanChannel, IInv, CleanInv, ~tcif,
           Reset \/ Advance \/ Begin \/ StopState \/ StopDac \/ Pick \/ Sending
             \/ Fill \/ DacSetup
    PROVE  CleanInv'
<1> USE DEF adcVars, Goto
<1>t. TypeOK /\ OwnedInv /\ DigitInv
  BY DEF IInv
<1>c. HearsInv /\ NeverWrong /\ PlaceInv /\ HushInv
  BY DEF CleanInv
<1>1. ~Ringing /\ ~Ringing'
  BY <1>t, <1>c DEF Reset, Advance, Begin, WaitingSend, StopState, StopDac, Pick, Sending, Fill,
     DacSetup, Ringing, OnAir, OwnedInv, PlaceInv
<1>2. digit_cursor' # WRONG
  BY <1>c DEF Reset, Advance, Begin, WaitingSend, StopState, StopDac, Pick, Sending, Fill,
     DacSetup, NeverWrong
<1>3. PlaceInv'
  BY <1>t, <1>c DEF Reset, Advance, Begin, WaitingSend, StopState, StopDac, Pick, Sending, Fill,
     DacSetup, PlaceInv, OwnedInv, OnAir
<1>4. ~dac' /\ UNCHANGED <<cur_symbol, adc_half, target>>
  BY <1>1, <1>c DEF Reset, Advance, Begin, WaitingSend, StopState, StopDac, Pick, Sending, Fill,
     DacSetup, HushInv
<1>5. heard' \subseteq {NONE}
  <2>1. Signal' = NONE
    BY <1>4 DEF Signal
  <2>2. heard \subseteq {NONE}
    BY <1>1, <1>c DEF HushInv
  <2>3. heard' = heard \/ Listen
    BY DEF Reset, Advance, Begin, WaitingSend, StopState, StopDac, Pick, Sending, Fill, DacSetup
  <2> QED BY <2>1, <2>2, <2>3 DEF Listen
<1>6. HushInv' /\ OneSoundInv'
  BY <1>1, <1>4, <1>5, <1>c DEF HushInv, OneSoundInv, Older, Newer
<1>h. HearsInv'
  <2>1. adc' = adc /\ (heard' = heard \/ Listen)
    BY DEF Reset, Advance, Begin, WaitingSend, StopState, StopDac, Pick, Sending, Fill, DacSetup
  <2> QED BY <2>1, <1>c DEF Listen, HearsInv
<1>7. SendingInv' /\ FadingInv'
  <2>1. modem_state' # "WAITING_STOP"
    BY <1>t, <1>c, <1>1 DEF Reset, Advance, Begin, WaitingSend, StopState, StopDac, Pick, Sending,
       Fill, DacSetup, Ringing, OnAir, OwnedInv, PlaceInv
  <2> QED BY <1>1, <2>1 DEF SendingInv, FadingInv
<1> QED BY <1>2, <1>3, <1>6, <1>7, <1>h DEF CleanInv, NeverWrong

LEMMA CleanMain ==
    ASSUME CleanChannel, IInv, CleanInv, Main
    PROVE  CleanInv'
<1> USE DEF adcVars, Goto
<1>t. TypeOK /\ OwnedInv /\ OnAirIsExpected
  BY DEF IInv
<1>c. HearsInv /\ NeverWrong /\ PlaceInv /\ HushInv /\ OneSoundInv /\ SendingInv /\ FadingInv
  BY DEF CleanInv
<1>m. ~tcif /\ lapped' = (lapped /\ pc' \notin LoopTop)
  BY DEF Main
<1>e. Expected \in Symbols /\ Expected # NONE
  BY <1>t, NextDigitType DEF Expected, TypeOK
<1>1. CASE Check
  <2>1. /\ UNCHANGED <<modem_state, digit_cursor, cur_symbol, dac_buf, dac, adc_half, target,
                      tcif, adc, heard>>
        /\ pc = "check"
        /\ \/ pc' = "stop_state" /\ modem_state = "RESTART"
           \/ pc' = "advance" /\ modem_state = "DONE"
           \/ pc' = "tamo"
    BY <1>1 DEF Check
  <2>2. UNCHANGED <<Older, Newer, Expected>> /\ (Ringing' <=> Ringing)
    BY <2>1 DEF Older, Newer, Expected, Ringing, OnAir
  <2>3. HearsInv' /\ NeverWrong' /\ PlaceInv'
    BY <2>1, <1>c DEF HearsInv, NeverWrong, PlaceInv, OnAir
  <2>4. HushInv' /\ OneSoundInv' /\ SendingInv' /\ FadingInv'
    BY <2>1, <2>2, <1>c DEF HushInv, OneSoundInv, SendingInv, FadingInv, Ringing, OnAir
  <2> QED BY <2>3, <2>4 DEF CleanInv
<1>2. CASE DacStart
  <2>1. /\ pc = "dac_start" /\ pc' = "adc_setup" /\ dac' = TRUE /\ Listen
        /\ UNCHANGED <<modem_state, digit_cursor, cur_symbol, dac_buf, adc_half, target, tcif, adc>>
    BY <1>2 DEF DacStart
  <2>2. UNCHANGED <<Older, Newer, Expected>> /\ modem_state' = "SENDING" /\ ~Ringing /\ Ringing'
    BY <2>1, <1>c DEF Older, Newer, Expected, Ringing, OnAir, PlaceInv
  <2>3. Signal' = Expected
    BY <2>1, <2>2, <1>t, <1>c DEF Signal, OnAirIsExpected, Expected, PlaceInv
  <2>4. heard' \subseteq {NONE, Expected}
    BY <2>1, <2>2, <2>3, <1>c DEF Listen, HushInv
  <2>5. HearsInv' /\ NeverWrong' /\ PlaceInv'
    <3>1. HearsInv'
      BY <2>1 DEF HearsInv, Listen
    <3>2. NeverWrong' /\ PlaceInv'
      BY <2>1, <2>2, <1>c DEF NeverWrong, PlaceInv
    <3> QED BY <3>1, <3>2
  <2>6. HushInv' /\ OneSoundInv' /\ SendingInv' /\ FadingInv'
    BY <2>1, <2>2, <2>4, <1>c DEF HushInv, OneSoundInv, SendingInv, FadingInv
  <2> QED BY <2>5, <2>6 DEF CleanInv
<1>3. CASE AdcSetup
  <2>1. pc = "adc_setup" /\ pc' = "adc_start" /\ DisableStream
    BY <1>3 DEF AdcSetup
  <2>2. modem_state = "SENDING" /\ Ringing
    BY <2>1, <1>c DEF PlaceInv, Ringing, OnAir
  <2>3. /\ ~adc' /\ heard' = {} /\ Newer' = Newer /\ Older' \in {NONE, Expected}
        /\ UNCHANGED <<modem_state, digit_cursor, cur_symbol, dac_buf, dac, target>>
    BY <2>1, <2>2, <1>t, CleanDisable
  <2>4. Expected' = Expected /\ Ringing'
    BY <2>1, <2>2, <2>3 DEF Expected, Ringing, OnAir
  <2>5. HearsInv' /\ NeverWrong' /\ PlaceInv'
    BY <2>1, <2>2, <2>3, <1>c DEF HearsInv, NeverWrong, PlaceInv, OnAir
  <2>6. HushInv' /\ OneSoundInv' /\ SendingInv' /\ FadingInv'
    BY <2>1, <2>2, <2>3, <2>4, <1>c DEF HushInv, OneSoundInv, SendingInv, FadingInv
  <2> QED BY <2>5, <2>6 DEF CleanInv
<1>4. CASE StopAdc
  <2>1. pc = "stop_adc" /\ pc' = ret /\ ret \in {"check", "reset"} /\ DisableStream
    BY <1>4 DEF StopAdc, IInv, ControlInv
  <2>2. modem_state = "IDLE" /\ ~Ringing
    BY <2>1, <1>t DEF OwnedInv, Ringing, OnAir
  <2>3. /\ ~adc' /\ heard' = {} /\ Newer' = Newer /\ Older' = NONE
        /\ UNCHANGED <<modem_state, digit_cursor, cur_symbol, dac_buf, dac, target>>
    BY <2>1, <2>2, <1>t, CleanDisable
  <2>4. ~Ringing' /\ HearsInv' /\ NeverWrong' /\ PlaceInv'
    BY <2>1, <2>2, <2>3, <1>c DEF HearsInv, NeverWrong, PlaceInv, Ringing, OnAir
  <2>5. HushInv' /\ OneSoundInv' /\ SendingInv' /\ FadingInv'
    BY <2>2, <2>3, <2>4, <1>c DEF HushInv, OneSoundInv, SendingInv, FadingInv
  <2> QED BY <2>4, <2>5 DEF CleanInv
<1>5. CASE AdcStart
  <2>1. /\ pc = "adc_start" /\ pc' = ret /\ adc' /\ target' = 0 /\ heard' = {Signal}
        /\ UNCHANGED <<modem_state, digit_cursor, cur_symbol, dac_buf, dac, adc_half, tcif>>
    BY <1>5 DEF AdcStart
  <2>2. modem_state \in OnAir /\ Ringing /\ ret \in LoopTop
    BY <2>1, <1>c DEF PlaceInv, Ringing, IInv, ControlInv, Labels
  <2>3. Expected' = Expected /\ Ringing'
    BY <2>1, <2>2 DEF Expected, Ringing
  <2>4. adc_half[0] \in {NONE, Expected} /\ adc_half[1] \in {NONE, Expected}
    BY <2>2, <1>t, <1>c, Halves DEF OneSoundInv, Older, Newer
  <2>5. Older' \in {NONE, Expected} /\ Newer' \in {NONE, Expected}
    BY <2>1, <2>4 DEF Older, Newer
  <2>6. modem_state = "SENDING" => dac /\ cur_symbol = NONE /\ Signal = Expected
    BY <2>1, <2>2, <1>t, <1>c DEF SendingInv, Signal, OnAirIsExpected, Expected
  <2>7. modem_state = "WAITING_STOP" => ~dac /\ cur_symbol = Expected /\ Signal = NONE
    BY <1>c DEF FadingInv, Signal
  <2>8. HearsInv' /\ NeverWrong' /\ PlaceInv'
    BY <2>1, <2>2, <1>c DEF HearsInv, NeverWrong, PlaceInv
  <2>9. HushInv' /\ OneSoundInv' /\ SendingInv' /\ FadingInv'
    BY <1>m, <2>1, <2>2, <2>3, <2>5, <2>6, <2>7
       DEF HushInv, OneSoundInv, SendingInv, FadingInv, OnAir
  <2> QED BY <2>8, <2>9 DEF CleanInv
<1> QED
  BY <1>m, <1>1, <1>2, <1>3, <1>4, <1>5, CleanTamo, CleanBetween DEF Main, MainStep

LEMMA CleanNext == CleanChannel /\ IInv /\ CleanInv /\ [Next]_vars => CleanInv'
<1> SUFFICES ASSUME CleanChannel, IInv, CleanInv, [Next]_vars PROVE CleanInv'
  OBVIOUS
<1>1. CASE UNCHANGED vars
  BY <1>1 DEF vars, mainVars, adcVars, CleanInv, HearsInv, NeverWrong, PlaceInv, HushInv, OneSoundInv,
     SendingInv, FadingInv, Ringing, Older, Newer, Expected
<1> QED BY <1>1, CleanMain, CleanHalf, CleanIsr DEF Next

LEMMA CleanInvariance == CleanChannel => (Spec => []CleanInv)
<1> SUFFICES ASSUME CleanChannel PROVE Spec => []CleanInv
  OBVIOUS
<1>1. Init => CleanInv
  BY CleanInit
<1>2. IInv /\ CleanInv /\ [Next]_vars => CleanInv'
  BY CleanNext
<1> QED BY <1>1, <1>2, Invariance, PTL DEF Spec

\* Over a clean channel, before a user who stays, and with an interrupt at most once
\* in a call of tone_stop or tone_start_next_digit, the board never refuses a digit
\* that it has sent itself (pi_reciter_rx_digit): neither what the buffers still hold
\* of the last digit nor the half that a new set-up cuts short is taken for another.
THEOREM RecitalNeverWrong ==
    ASSUME CleanChannel
    PROVE  Spec => []NeverWrong
<1>1. CleanInv => NeverWrong
  BY DEF CleanInv
<1> QED BY <1>1, CleanInvariance, PTL

\* Under the same conditions the DAC is silent from the moment a digit is heard
\* (dtmf_tone_start_cb) until it is confirmed: main() never turns it on after that.
THEOREM HeardStops ==
    ASSUME CleanChannel
    PROVE  Spec => []HeardMeansStopped
<1>1. CleanInv => HeardMeansStopped
  BY DEF CleanInv, FadingInv, HeardMeansStopped
<1> QED BY <1>1, CleanInvariance, PTL

===========================================================================
