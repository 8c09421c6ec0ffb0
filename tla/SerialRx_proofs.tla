-------------------------- MODULE SerialRx_proofs --------------------------
(* SerialRx for halves and a serbuf of any size, and any number of bytes.     *)
EXTENDS SerialRx, TLAPS

---------------------------------------------------------------------------
(* The inductive invariant                                                   *)

\* What main() has compared lies below what it then reads at.
RegisterInv ==
    pc \in {"head_loaded", "compare", "read"} => serbuf_head \in {head, 0}

\* The last byte that was handed to console_line_handler.
Handed == received - place - (IF tcif THEN 2 * Half ELSE Half)

\* One half holds the last Half bytes that filled one; the other, what has come since
\* and, if its interrupt is pending, the half before.
DmaInv ==
    /\ tcif => place = 0
    /\ \A p \in Places : console_rx_buffer[1 - target][p] = received - place - Half + p + 1
    /\ \A p \in Places : p < place =>
           console_rx_buffer[target][p] = received - place + p + 1
    /\ \A p \in Places : tcif =>
           console_rx_buffer[target][p] = received - 2 * Half + p + 1

\* serbuf holds successive bytes, and the last of them is the last one handed over.
BufInv ==
    /\ serbuf_tail = 0 \/ serbuf_tail >= Half
    /\ \A i \in 0 .. SERBUFLEN - 1 :
           i < serbuf_tail => serbuf[i] = Handed - serbuf_tail + 1 + i

\* What the parser has got lies before what is still to be read.
NewestInv ==
    /\ dropped => newest <= Handed - serbuf_tail
    /\ pc \notin {"advance", "store"} =>
           newest <= Handed /\ newest <= Handed - serbuf_tail + serbuf_head
    /\ pc \in {"advance", "store"} /\ ~dropped =>
           serbuf_head < serbuf_tail /\ newest <= Handed - serbuf_tail + serbuf_head + 1

\* An empty serbuf has been rewound under main().
Rewound == struck /\ serbuf_head = 0 /\ serbuf_tail = Half

\* While serbuf is not dropped under main(), a comparison that lets it read is right
\* about the cursors as they are now.
ComparedInv ==
    /\ pc = "test" => ~dropped
    /\ ~dropped =>
         /\ pc = "head_loaded" => head = serbuf_head \/ (Rewound /\ head >= Half)
         /\ pc = "tail_loaded" => tail <= serbuf_tail \/ Rewound
         /\ pc = "compare" /\ head < tail => head = serbuf_head /\ serbuf_head < serbuf_tail
         /\ pc = "read" => head = serbuf_head /\ serbuf_head < serbuf_tail
         /\ pc = "store" => head = serbuf_head

\* As long as nothing was dropped, nothing is missing.
ParsedInv ==
    /\ ~dropped
    /\ serbuf_head <= serbuf_tail
    /\ parsed = Handed - serbuf_tail + serbuf_head
                  + (IF pc \in {"advance", "store"} THEN 1 ELSE 0)

Inv ==
    /\ TypeOK /\ RegisterInv
    /\ ~late => DmaInv /\ BufInv /\ NewestInv /\ ComparedInv
    /\ ~late /\ ~overflowed => ParsedInv

---------------------------------------------------------------------------
(* Types                                                                     *)

\* The DMA's place goes round the half it fills.
LEMMA NextPlace ==
    ASSUME NEW p \in Places
    PROVE  /\ (p + 1) % Half = IF p + 1 = Half THEN 0 ELSE p + 1
           /\ (p + 1) % Half \in Places
<1>. Half \in Nat \ {0} /\ p \in 0 .. Half - 1  BY SerialAssumption DEF Places
<1>1. CASE p + 1 = Half  BY <1>1 DEF Places
<1>2. CASE p + 1 # Half
  <2>1. p + 1 \in 0 .. Half - 1  BY <1>2
  <2>2. (p + 1) % Half = p + 1  BY <2>1
  <2>. QED  BY <1>2, <2>1, <2>2 DEF Places
<1>. QED  BY <1>1, <1>2

\* Every variable keeps its type and every cursor its range, whatever the interrupt's
\* place in main()'s loop.
LEMMA TypeInit == Init => TypeOK /\ RegisterInv
<1>. SUFFICES ASSUME Init PROVE TypeOK /\ RegisterInv
  OBVIOUS
<1>1. /\ tcif \in BOOLEAN /\ struck \in BOOLEAN /\ late \in BOOLEAN
      /\ overflowed \in BOOLEAN /\ dropped \in BOOLEAN
  BY DEF Init, console_setup
<1>2. 0 \in Received /\ 0 \in Cursors /\ 0 \in Places /\ 0 < SERBUFLEN
  BY SerialAssumption DEF Received, Cursors, Places
<1>3. /\ console_rx_buffer \in [0 .. 1 -> [Places -> Received]]
      /\ serbuf \in [0 .. SERBUFLEN - 1 -> Received]
  BY <1>2, SerialAssumption DEF Init, console_setup, Received, Places
<1>. QED  BY <1>1, <1>2, <1>3, SerialAssumption DEF Init, console_setup, TypeOK, RegisterInv

\* A line appended to serbuf is made of bytes.
LEMMA AppendedType ==
    ASSUME TypeOK, NEW at \in 0 .. SERBUFLEN, NEW line \in [Places -> Received]
    PROVE  Appended(at, line) \in [0 .. SERBUFLEN - 1 -> Received]
<1>1. ASSUME NEW i \in 0 .. SERBUFLEN - 1
      PROVE  (IF i \in at .. at + Half - 1 THEN line[i - at] ELSE serbuf[i]) \in Received
  BY <1>1, SerialAssumption DEF TypeOK, Places
<1>. QED  BY <1>1 DEF Appended

LEMMA TypeArrive == TypeOK /\ RegisterInv /\ Arrive => (TypeOK /\ RegisterInv)'
<1>. SUFFICES ASSUME TypeOK, RegisterInv, Arrive PROVE (TypeOK /\ RegisterInv)'
  OBVIOUS
<1>1. place' \in Places  BY NextPlace DEF TypeOK, Arrive
<1>2. received' \in 0 .. MAX_BYTES /\ received' \in Received
  BY SerialAssumption DEF TypeOK, Arrive, Received
<1>3. console_rx_buffer' \in [0 .. 1 -> [Places -> Received]]
  BY <1>2 DEF TypeOK, Arrive
<1>4. target' \in 0 .. 1  BY DEF TypeOK, Arrive
<1>5. tcif' \in BOOLEAN /\ late' \in BOOLEAN  BY DEF TypeOK, Arrive
<1>. QED
  BY <1>1, <1>2, <1>3, <1>4, <1>5 DEF TypeOK, RegisterInv, Arrive, bufVars, out

LEMMA TypeIsr == TypeOK /\ RegisterInv /\ dma1_stream1_isr => (TypeOK /\ RegisterInv)'
<1>. SUFFICES ASSUME TypeOK, RegisterInv, dma1_stream1_isr PROVE (TypeOK /\ RegisterInv)'
  OBVIOUS
<1>. DEFINE line == console_rx_buffer[target]
<1>1. line \in [Places -> Received]  BY DEF TypeOK
<1>2. console_line_handler(line)  BY DEF dma1_stream1_isr
<1>. HIDE DEF line
<1>3. serbuf' \in [0 .. SERBUFLEN - 1 -> Received]
  BY <1>1, <1>2, AppendedType, SerialAssumption DEF console_line_handler, TypeOK, Cursors
<1>4. /\ serbuf_head' \in {serbuf_head, 0}
      /\ serbuf_head' \in Cursors /\ serbuf_tail' \in Cursors
      /\ overflowed' \in BOOLEAN /\ dropped' \in BOOLEAN
  BY <1>2, SerialAssumption DEF console_line_handler, TypeOK, Cursors
<1>5. tcif' \in BOOLEAN /\ struck' \in BOOLEAN /\ late' \in BOOLEAN
  BY DEF dma1_stream1_isr, TypeOK
<1>6. pc \in {"read", "advance"} => serbuf_head' < SERBUFLEN
  BY <1>4, SerialAssumption DEF TypeOK, Cursors
<1>7. RegisterInv'
  BY <1>4 DEF RegisterInv, dma1_stream1_isr
<1>. QED
  BY <1>3, <1>4, <1>5, <1>6, <1>7 DEF TypeOK, dma1_stream1_isr, out

LEMMA TypeMain == TypeOK /\ RegisterInv /\ Main => (TypeOK /\ RegisterInv)'
<1>. SUFFICES ASSUME TypeOK, RegisterInv, Main PROVE (TypeOK /\ RegisterInv)'
  OBVIOUS
<1>. USE SerialAssumption DEF TypeOK, RegisterInv, Step, dmaVars, bufVars, out, Cursors
<1>1. CASE LoadHead("test", "head_loaded")  BY <1>1 DEF LoadHead
<1>2. CASE LoadTail("head_loaded", "compare")  BY <1>2 DEF LoadTail
<1>3. CASE LoadTail("test", "tail_loaded")  BY <1>3 DEF LoadTail
<1>4. CASE LoadHead("tail_loaded", "compare")  BY <1>4 DEF LoadHead
<1>5. CASE Compare
  <2>1. struck' \in BOOLEAN /\ dropped' \in BOOLEAN  BY <1>5 DEF Compare
  <2>2. pc' \in {"read", "rest"} /\ (pc' = "read" => head < tail)  BY <1>5 DEF Compare
  <2>3. RegisterInv'  BY <1>5 DEF Compare
  <2>4. pc' = "read" => head' < SERBUFLEN /\ serbuf_head' < SERBUFLEN
    BY <1>5, <2>2, <2>3 DEF Compare
  <2>. QED  BY <1>5, <2>1, <2>2, <2>3, <2>4 DEF Compare
<1>6. CASE Rest  BY <1>6 DEF Rest
<1>7. CASE Read
  <2>1. parsed' \in Received  BY <1>7 DEF Read
  <2>2. newest' \in Received \cup {0 - Half}  BY <1>7, <2>1 DEF Read
  <2>. QED  BY <1>7, <2>1, <2>2 DEF Read
<1>8. CASE LoadHead("advance", "store")  BY <1>8 DEF LoadHead
<1>9. CASE Store
  <2>1. struck' \in BOOLEAN /\ dropped' \in BOOLEAN  BY <1>9 DEF Store
  <2>2. serbuf_head' \in Cursors  BY <1>9 DEF Store
  <2>. QED  BY <1>9, <2>1, <2>2 DEF Store
<1>. QED  BY <1>1, <1>2, <1>3, <1>4, <1>5, <1>6, <1>7, <1>8, <1>9 DEF Main

\* The cursors stay inside serbuf and main() reads inside it.
THEOREM TypeCorrect == Spec => []TypeOK
<1>1. TypeOK /\ RegisterInv /\ [Next]_vars => (TypeOK /\ RegisterInv)'
  <2>. SUFFICES ASSUME TypeOK, RegisterInv, [Next]_vars PROVE (TypeOK /\ RegisterInv)'
    OBVIOUS
  <2>1. CASE UNCHANGED vars
    BY <2>1 DEF vars, dmaVars, bufVars, out, TypeOK, RegisterInv
  <2>. QED  BY <2>1, TypeArrive, TypeIsr, TypeMain DEF Next
<1>. QED  BY TypeInit, <1>1, PTL DEF Spec

---------------------------------------------------------------------------
(* Every byte, once and in order                                             *)

\* What holds until the timing is missed.
Timely == DmaInv /\ BufInv /\ NewestInv /\ ComparedInv

LEMMA InvInit == Init => Inv
<1>. SUFFICES ASSUME Init PROVE Inv
  OBVIOUS
<1>. USE SerialAssumption DEF Init, console_setup
<1>1. TypeOK /\ RegisterInv  BY TypeInit
<1>2. Handed = 0 - Half  BY DEF Handed
<1>3. DmaInv  BY DEF DmaInv, Places
<1>4. BufInv  BY DEF BufInv
<1>5. NewestInv  BY <1>2 DEF NewestInv
<1>6. ComparedInv  BY DEF ComparedInv
<1>7. ParsedInv  BY <1>2 DEF ParsedInv
<1>. QED  BY <1>1, <1>3, <1>4, <1>5, <1>6, <1>7 DEF Inv

---------------------------------------------------------------------------
(* A byte arrives                                                            *)

LEMMA ArriveDma ==
    ASSUME TypeOK, DmaInv, ~tcif, Arrive
    PROVE  DmaInv' /\ Handed' = Handed
<1>. USE SerialAssumption
<1>1. /\ received \in Int /\ place \in 0 .. Half - 1 /\ target \in 0 .. 1
      /\ received' = received + 1
  BY DEF TypeOK, Arrive, Places
<1>2. /\ \A p \in Places : console_rx_buffer'[1 - target][p] = console_rx_buffer[1 - target][p]
      /\ \A p \in Places : p # place =>
             console_rx_buffer'[target][p] = console_rx_buffer[target][p]
      /\ console_rx_buffer'[target][place] = received + 1
  BY <1>1 DEF TypeOK, Arrive
<1>3. CASE place + 1 = Half
  <2>1. place' = 0 /\ target' = 1 - target /\ tcif'
    BY <1>1, <1>3, NextPlace DEF Arrive, Places
  <2>2. Handed' = Handed
    BY <1>1, <1>3, <2>1 DEF Handed
  <2>3. \A p \in Places : console_rx_buffer'[1 - target'][p] = received' - place' - Half + p + 1
    <3>. SUFFICES ASSUME NEW p \in Places
         PROVE  console_rx_buffer'[target][p] = received' - place' - Half + p + 1
      BY <1>1, <2>1
    <3>1. CASE p = place  BY <1>1, <1>2, <1>3, <2>1, <3>1
    <3>2. CASE p < place  BY <1>1, <1>2, <1>3, <2>1, <3>2 DEF DmaInv, Places
    <3>. QED  BY <1>1, <1>3, <3>1, <3>2 DEF Places
  <2>4. \A p \in Places : console_rx_buffer'[target'][p] = received' - 2 * Half + p + 1
    BY <1>1, <1>2, <1>3, <2>1 DEF DmaInv, Places
  <2>. QED  BY <2>1, <2>2, <2>3, <2>4 DEF DmaInv, Places
<1>4. CASE place + 1 # Half
  <2>1. place' = place + 1 /\ place' # 0 /\ target' = target
    BY <1>1, <1>4, NextPlace DEF Arrive, Places
  <2>2. ~tcif'
    BY <2>1 DEF Arrive
  <2>3. Handed' = Handed
    BY <1>1, <2>1, <2>2 DEF Handed
  <2>4. \A p \in Places : console_rx_buffer'[1 - target'][p] = received' - place' - Half + p + 1
    BY <1>1, <1>2, <2>1 DEF DmaInv, Places
  <2>5. \A p \in Places : p < place' =>
            console_rx_buffer'[target'][p] = received' - place' + p + 1
    BY <1>1, <1>2, <2>1 DEF DmaInv, Places
  <2>. QED  BY <2>2, <2>3, <2>4, <2>5 DEF DmaInv
<1>. QED  BY <1>3, <1>4

LEMMA ArriveInv == Inv /\ Arrive => Inv'
<1>. SUFFICES ASSUME Inv, Arrive PROVE Inv'
  OBVIOUS
<1>1. (TypeOK /\ RegisterInv)'  BY TypeArrive DEF Inv
<1>2. ASSUME ~late' PROVE Timely' /\ Handed' = Handed /\ ~late
  <2>1. ~late /\ ~tcif  BY <1>2 DEF Arrive
  <2>2. DmaInv' /\ Handed' = Handed  BY <2>1, ArriveDma DEF Inv
  <2>3. BufInv'  BY <2>1, <2>2 DEF Inv, BufInv, Arrive, bufVars
  <2>4. NewestInv'  BY <2>1, <2>2 DEF Inv, NewestInv, Arrive, bufVars, out
  <2>5. ComparedInv'  BY <2>1 DEF Inv, ComparedInv, Rewound, Arrive, bufVars
  <2>. QED  BY <2>1, <2>2, <2>3, <2>4, <2>5 DEF Timely
<1>3. ASSUME ~late', ~overflowed' PROVE ParsedInv'
  BY <1>2, <1>3 DEF Inv, ParsedInv, Arrive, bufVars, out
<1>. QED  BY <1>1, <1>2, <1>3 DEF Inv, Timely

---------------------------------------------------------------------------
(* The interrupt                                                             *)

\* The interrupt either drops serbuf
IsrDrops ==
    /\ serbuf_head' = 0 /\ serbuf_tail' = 0 /\ overflowed'
    /\ dropped' = (dropped \/ pc # "test")

\* or appends a half, starting over when main() has emptied it.
IsrAppends ==
    \E start \in {0, serbuf_tail} :
        /\ start = IF serbuf_head = serbuf_tail THEN 0 ELSE serbuf_tail
        /\ serbuf_head' = IF serbuf_head = serbuf_tail THEN 0 ELSE serbuf_head
        /\ serbuf_tail' = start + Half /\ start + Half <= SERBUFLEN
        /\ serbuf' = Appended(start, console_rx_buffer[target])
        /\ overflowed' = overflowed /\ dropped' = dropped

\* What it hands over is later by a half.
LEMMA IsrEffect ==
    ASSUME TypeOK, DmaInv, dma1_stream1_isr
    PROVE  /\ Handed' = Handed + Half /\ Handed \in Int /\ received \in Int
           /\ UNCHANGED <<pc, head, tail, parsed, newest>> /\ struck'
           /\ IsrDrops \/ IsrAppends
<1>. USE SerialAssumption
<1>1. received \in Int /\ place = 0 /\ tcif /\ ~tcif'
  BY DEF TypeOK, DmaInv, dma1_stream1_isr
<1>2. Handed' = Handed + Half /\ Handed \in Int
  BY <1>1 DEF Handed, dma1_stream1_isr
<1>3. UNCHANGED <<pc, head, tail, parsed, newest>> /\ struck'
  BY DEF dma1_stream1_isr, out
<1>. DEFINE start == IF serbuf_head = serbuf_tail THEN 0 ELSE serbuf_tail
<1>4. start \in {0, serbuf_tail} /\ start \in Nat /\ serbuf_tail \in Nat
  BY DEF TypeOK, Cursors
<1>5. console_line_handler(console_rx_buffer[target])
  BY DEF dma1_stream1_isr
<1>6. CASE start + Half > SERBUFLEN
  <2>1. serbuf_head' = 0 /\ serbuf_tail' = 0 /\ overflowed'
    BY <1>5, <1>6 DEF console_line_handler
  <2>2. dropped' = (dropped \/ pc # "test")
    BY <1>5, <1>6 DEF console_line_handler
  <2>. QED  BY <1>2, <1>3, <1>1, <2>1, <2>2 DEF IsrDrops
<1>7. CASE ~(start + Half > SERBUFLEN)
  <2>1. /\ serbuf_head' = IF serbuf_head = serbuf_tail THEN 0 ELSE serbuf_head
        /\ serbuf_tail' = start + Half
        /\ serbuf' = Appended(start, console_rx_buffer[target])
    BY <1>5, <1>7 DEF console_line_handler
  <2>2. start + Half <= SERBUFLEN
    BY <1>4, <1>7
  <2>3. overflowed' = overflowed /\ dropped' = dropped
    BY <1>5, <1>7 DEF console_line_handler, TypeOK
  <2>. QED  BY <1>1, <1>2, <1>3, <1>4, <2>1, <2>2, <2>3 DEF IsrAppends
<1>. QED  BY <1>6, <1>7

\* Successive bytes are appended to successive bytes.
LEMMA IsrBuf ==
    ASSUME TypeOK, DmaInv, BufInv, dma1_stream1_isr
    PROVE  BufInv'
<1>. USE SerialAssumption
<1>1. CASE serbuf_tail' = 0
  BY <1>1 DEF BufInv
<1>2. CASE serbuf_tail' # 0
  <2>1. PICK start \in {0, serbuf_tail} :
            /\ serbuf_tail' = start + Half /\ start + Half <= SERBUFLEN
            /\ serbuf' = Appended(start, console_rx_buffer[target])
    BY <1>2, IsrEffect DEF IsrDrops, IsrAppends
  <2>2. /\ start \in Nat /\ serbuf_tail \in Nat /\ received \in Int
        /\ Handed \in Int /\ Handed' = Handed + Half
        /\ Handed = received - 2 * Half
    BY <2>1, IsrEffect DEF TypeOK, Cursors, DmaInv, dma1_stream1_isr, Handed
  <2>3. \A p \in Places : console_rx_buffer[target][p] = received - 2 * Half + p + 1
    BY DEF DmaInv, dma1_stream1_isr
  <2>4. ASSUME NEW i \in 0 .. SERBUFLEN - 1, i < serbuf_tail'
        PROVE  serbuf'[i] = Handed' - serbuf_tail' + 1 + i
    <3>1. CASE i < start
      <4>1. serbuf'[i] = serbuf[i] /\ start = serbuf_tail
        BY <2>1, <2>2, <2>4, <3>1 DEF Appended
      <4>2. serbuf[i] = Handed - serbuf_tail + 1 + i
        BY <2>4, <3>1, <4>1 DEF BufInv
      <4>. QED  BY <2>1, <2>2, <4>1, <4>2
    <3>2. CASE ~(i < start)
      <4>1. i - start \in Places /\ i \in start .. start + Half - 1
        BY <2>1, <2>2, <2>4, <3>2 DEF Places
      <4>2. serbuf'[i] = console_rx_buffer[target][i - start]
        BY <2>1, <2>4, <4>1 DEF Appended
      <4>3. serbuf'[i] = received - 2 * Half + (i - start) + 1
        BY <2>3, <4>1, <4>2
      <4>. QED  BY <2>1, <2>2, <4>3
    <3>. QED  BY <3>1, <3>2
  <2>5. serbuf_tail' >= Half
    BY <2>1, <2>2
  <2>. QED  BY <2>4, <2>5 DEF BufInv
<1>. QED  BY <1>1, <1>2

\* What is appended is later than anything main() has got, or is about to get.
LEMMA IsrNewest ==
    ASSUME TypeOK, DmaInv, BufInv, NewestInv, dma1_stream1_isr
    PROVE  NewestInv'
<1>. USE SerialAssumption
<1>1. /\ Handed \in Int /\ Handed' = Handed + Half
      /\ serbuf_head \in Nat /\ serbuf_tail \in Nat /\ newest \in Int
      /\ UNCHANGED <<pc, newest>>
  BY IsrEffect DEF TypeOK, Cursors, Received
<1>2. CASE IsrDrops
  <2>1. newest <= Handed
    <3>1. CASE dropped  BY <1>1, <3>1 DEF NewestInv
    <3>2. CASE ~dropped  BY <1>1, <3>2 DEF NewestInv
    <3>. QED  BY <3>1, <3>2
  <2>2. newest <= Handed'
    BY <1>1, <2>1
  <2>3. pc' \in {"advance", "store"} => dropped'
    BY <1>1, <1>2 DEF IsrDrops
  <2>. QED  BY <1>1, <1>2, <2>2, <2>3 DEF NewestInv, IsrDrops
<1>3. CASE IsrAppends
  <2>1. dropped' => newest <= Handed' - serbuf_tail'
    BY <1>1, <1>3 DEF NewestInv, IsrAppends
  <2>2. pc' \notin {"advance", "store"} =>
            newest <= Handed' /\ newest <= Handed' - serbuf_tail' + serbuf_head'
    BY <1>1, <1>3 DEF NewestInv, IsrAppends
  <2>3. pc' \in {"advance", "store"} /\ ~dropped' =>
            serbuf_head' < serbuf_tail' /\ newest <= Handed' - serbuf_tail' + serbuf_head' + 1
    BY <1>1, <1>3 DEF NewestInv, IsrAppends
  <2>. QED  BY <1>1, <2>1, <2>2, <2>3 DEF NewestInv
<1>. QED  BY <1>2, <1>3, IsrEffect

\* An interrupt in the middle of main()'s loop leaves what main() has compared, and
\* a second one before its next step would be untimely.
LEMMA IsrCompared ==
    ASSUME TypeOK, DmaInv, BufInv, NewestInv, ComparedInv, dma1_stream1_isr, ~late'
    PROVE  ComparedInv'
<1>. USE SerialAssumption
<1>1. /\ serbuf_head \in Nat /\ serbuf_tail \in Nat /\ head \in Nat /\ tail \in Nat
      /\ UNCHANGED <<pc, head, tail>> /\ struck'
  BY IsrEffect DEF TypeOK, Cursors
<1>2. struck => pc \in {"advance", "rest"}
  BY DEF dma1_stream1_isr, Slow
<1>3. CASE IsrDrops
  BY <1>1, <1>3 DEF ComparedInv, IsrDrops
<1>4. CASE IsrAppends
  <2>1. pc' = "test" => ~dropped'
    BY <1>1, <1>4 DEF ComparedInv, IsrAppends
  <2>. SUFFICES ASSUME ~dropped' PROVE ComparedInv'
    BY <2>1 DEF ComparedInv
  <2>2. ~dropped
    BY <1>4 DEF IsrAppends
  <2>3. pc = "head_loaded" => head' = serbuf_head' \/ (Rewound' /\ head' >= Half)
    <3>. SUFFICES ASSUME pc = "head_loaded" PROVE head' = serbuf_head' \/ (Rewound' /\ head' >= Half)
      OBVIOUS
    <3>1. ~struck /\ head = serbuf_head
      BY <1>2, <2>2 DEF ComparedInv, Rewound
    <3>2. serbuf_tail = 0 \/ serbuf_tail >= Half
      BY DEF BufInv
    <3>3. CASE serbuf_head # serbuf_tail
      BY <1>1, <1>4, <3>1, <3>3 DEF IsrAppends
    <3>4. CASE serbuf_head = serbuf_tail
      <4>1. serbuf_head' = 0 /\ serbuf_tail' = Half
        BY <1>1, <1>4, <3>4 DEF IsrAppends
      <4>. QED  BY <1>1, <3>1, <3>2, <3>4, <4>1 DEF Rewound
    <3>. QED  BY <3>3, <3>4
  <2>4. pc = "tail_loaded" => tail' <= serbuf_tail' \/ Rewound'
    BY <1>1, <1>2, <1>4, <2>2 DEF IsrAppends, ComparedInv, Rewound
  <2>5. pc = "compare" /\ head < tail => head' = serbuf_head' /\ serbuf_head' < serbuf_tail'
    BY <1>1, <1>4, <2>2 DEF IsrAppends, ComparedInv
  <2>6. pc = "read" => head' = serbuf_head' /\ serbuf_head' < serbuf_tail'
    BY <1>1, <1>4, <2>2 DEF IsrAppends, ComparedInv
  <2>7. pc = "store" => head' = serbuf_head'
    BY <1>1, <1>4, <2>2 DEF IsrAppends, ComparedInv, NewestInv
  <2>. QED  BY <1>1, <2>1, <2>3, <2>4, <2>5, <2>6, <2>7 DEF ComparedInv
<1>. QED  BY <1>3, <1>4, IsrEffect

\* Nothing goes missing unless serbuf is dropped.
LEMMA IsrParsed ==
    ASSUME TypeOK, DmaInv, NewestInv, ParsedInv, dma1_stream1_isr, ~overflowed'
    PROVE  ParsedInv'
<1>. USE SerialAssumption
<1>1. /\ Handed \in Int /\ Handed' = Handed + Half
      /\ serbuf_head \in Nat /\ serbuf_tail \in Nat
      /\ UNCHANGED <<pc, parsed>>
  BY IsrEffect DEF TypeOK, Cursors
<1>2. PICK start \in {0, serbuf_tail} :
          /\ start = IF serbuf_head = serbuf_tail THEN 0 ELSE serbuf_tail
          /\ serbuf_head' = IF serbuf_head = serbuf_tail THEN 0 ELSE serbuf_head
          /\ serbuf_tail' = start + Half /\ dropped' = dropped
  BY IsrEffect DEF IsrDrops, IsrAppends
<1>3. pc \in {"advance", "store"} => serbuf_head < serbuf_tail
  BY DEF NewestInv, ParsedInv
<1>4. ~dropped' /\ serbuf_head' <= serbuf_tail'
  BY <1>1, <1>2 DEF ParsedInv
<1>5. parsed' = Handed' - serbuf_tail' + serbuf_head'
                    + (IF pc' \in {"advance", "store"} THEN 1 ELSE 0)
  <2>1. CASE serbuf_head = serbuf_tail  BY <1>1, <1>2, <1>3, <2>1 DEF ParsedInv
  <2>2. CASE serbuf_head # serbuf_tail  BY <1>1, <1>2, <2>2 DEF ParsedInv
  <2>. QED  BY <2>1, <2>2
<1>. QED  BY <1>4, <1>5 DEF ParsedInv

LEMMA IsrInv == Inv /\ dma1_stream1_isr => Inv'
<1>. SUFFICES ASSUME Inv, dma1_stream1_isr PROVE Inv'
  OBVIOUS
<1>1. (TypeOK /\ RegisterInv)'  BY TypeIsr DEF Inv
<1>2. ASSUME ~late' PROVE Timely'
  <2>1. TypeOK /\ DmaInv /\ BufInv /\ NewestInv /\ ComparedInv
    BY <1>2 DEF Inv, dma1_stream1_isr
  <2>2. DmaInv'  BY <2>1 DEF DmaInv, dma1_stream1_isr, TypeOK, Places
  <2>. QED  BY <1>2, <2>1, <2>2, IsrBuf, IsrNewest, IsrCompared DEF Timely
<1>3. ASSUME ~late', ~overflowed' PROVE ParsedInv'
  <2>1. ~late  BY <1>3 DEF dma1_stream1_isr
  <2>2. ~overflowed  BY <2>1, <1>3, IsrEffect DEF Inv, IsrDrops, IsrAppends
  <2>. QED  BY <1>3, <2>1, <2>2, IsrParsed DEF Inv
<1>. QED  BY <1>1, <1>2, <1>3 DEF Inv, Timely

---------------------------------------------------------------------------
(* main()                                                                    *)

\* main() leaves the DMA alone and serbuf's bytes where they are.
LEMMA MainInv == Inv /\ Main => Inv'
<1>. SUFFICES ASSUME Inv, Main PROVE Inv'
  OBVIOUS
<1>. USE SerialAssumption
<1>1. (TypeOK /\ RegisterInv)'  BY TypeMain DEF Inv
<1>2. UNCHANGED <<received, console_rx_buffer, target, place, tcif, late,
                  serbuf, serbuf_tail, overflowed>> /\ ~struck'
  BY DEF Main, LoadHead, LoadTail, Compare, Rest, Read, Store, Step, dmaVars, bufVars
<1>3. Handed' = Handed
  BY <1>2 DEF Handed
<1>4. CASE late
  BY <1>1, <1>2, <1>4 DEF Inv
<1>5. CASE ~late
  <2>1. DmaInv /\ BufInv /\ NewestInv /\ ComparedInv /\ (~overflowed => ParsedInv)
    BY <1>5 DEF Inv
  <2>2. DmaInv' /\ BufInv'
    BY <1>2, <1>3, <2>1 DEF DmaInv, BufInv
  <2>3. /\ Handed \in Int /\ serbuf_head \in Nat /\ serbuf_tail \in Nat
        /\ head \in Nat /\ tail \in Nat /\ newest \in Int /\ parsed \in Int
        /\ serbuf_head <= SERBUFLEN /\ serbuf_tail <= SERBUFLEN
    BY <1>3 DEF Inv, TypeOK, Cursors, Received, Places, Handed
  <2>4. SUFFICES NewestInv' /\ ComparedInv' /\ (~overflowed' => ParsedInv')
    BY <1>1, <1>2, <2>2 DEF Inv
  <2>5. CASE LoadHead("test", "head_loaded")
    <3>1. /\ pc = "test" /\ pc' = "head_loaded" /\ head' = serbuf_head
          /\ (dropped' <=> dropped) /\ UNCHANGED <<serbuf_head, newest, parsed, tail>>
      BY <2>5 DEF LoadHead, Step, bufVars, out
    <3>2. NewestInv'  BY <1>2, <1>3, <2>1, <2>3, <3>1 DEF NewestInv
    <3>3. ComparedInv'  BY <1>2, <2>1, <2>3, <3>1 DEF ComparedInv
    <3>4. ~overflowed' => ParsedInv'  BY <1>2, <1>3, <2>1, <2>3, <3>1 DEF ParsedInv
    <3>. QED  BY <3>2, <3>3, <3>4
  <2>6. CASE LoadTail("head_loaded", "compare")
    <3>1. /\ pc = "head_loaded" /\ pc' = "compare" /\ tail' = serbuf_tail
          /\ (dropped' <=> dropped) /\ UNCHANGED <<serbuf_head, newest, parsed, head>>
      BY <2>6 DEF LoadTail, Step, bufVars, out
    <3>2. NewestInv'  BY <1>2, <1>3, <2>1, <2>3, <3>1 DEF NewestInv
    <3>3. ComparedInv'  BY <1>2, <2>1, <2>3, <3>1 DEF ComparedInv, Rewound
    <3>4. ~overflowed' => ParsedInv'  BY <1>2, <1>3, <2>1, <2>3, <3>1 DEF ParsedInv
    <3>. QED  BY <3>2, <3>3, <3>4
  <2>7. CASE LoadTail("test", "tail_loaded")
    <3>1. /\ pc = "test" /\ pc' = "tail_loaded" /\ tail' = serbuf_tail
          /\ (dropped' <=> dropped) /\ UNCHANGED <<serbuf_head, newest, parsed, head>>
      BY <2>7 DEF LoadTail, Step, bufVars, out
    <3>2. NewestInv'  BY <1>2, <1>3, <2>1, <2>3, <3>1 DEF NewestInv
    <3>3. ComparedInv'  BY <1>2, <2>1, <2>3, <3>1 DEF ComparedInv
    <3>4. ~overflowed' => ParsedInv'  BY <1>2, <1>3, <2>1, <2>3, <3>1 DEF ParsedInv
    <3>. QED  BY <3>2, <3>3, <3>4
  <2>8. CASE LoadHead("tail_loaded", "compare")
    <3>1. /\ pc = "tail_loaded" /\ pc' = "compare" /\ head' = serbuf_head
          /\ (dropped' <=> dropped) /\ UNCHANGED <<serbuf_head, newest, parsed, tail>>
      BY <2>8 DEF LoadHead, Step, bufVars, out
    <3>2. NewestInv'  BY <1>2, <1>3, <2>1, <2>3, <3>1 DEF NewestInv
    <3>3. ComparedInv'  BY <1>2, <2>1, <2>3, <3>1 DEF ComparedInv, Rewound
    <3>4. ~overflowed' => ParsedInv'  BY <1>2, <1>3, <2>1, <2>3, <3>1 DEF ParsedInv
    <3>. QED  BY <3>2, <3>3, <3>4
  <2>9. CASE Compare
    <3>1. /\ pc = "compare" /\ pc' = (IF head < tail THEN "read" ELSE "rest")
          /\ (dropped' <=> dropped) /\ UNCHANGED <<serbuf_head, newest, parsed, head, tail>>
      BY <2>9 DEF Compare, Step, bufVars, out
    <3>2. NewestInv'  BY <1>2, <1>3, <2>1, <2>3, <3>1 DEF NewestInv
    <3>3. ComparedInv'  BY <1>2, <2>1, <2>3, <3>1 DEF ComparedInv
    <3>4. ~overflowed' => ParsedInv'  BY <1>2, <1>3, <2>1, <2>3, <3>1 DEF ParsedInv
    <3>. QED  BY <3>2, <3>3, <3>4
  <2>10. CASE Rest
    <3>1. /\ pc = "rest" /\ pc' = "test"
          /\ ~dropped' /\ UNCHANGED <<serbuf_head, newest, parsed, head, tail>>
      BY <2>10 DEF Rest, Step, bufVars, out
    <3>2. NewestInv'  BY <1>2, <1>3, <2>1, <2>3, <3>1 DEF NewestInv
    <3>3. ComparedInv'  BY <1>2, <2>1, <2>3, <3>1 DEF ComparedInv
    <3>4. ~overflowed' => ParsedInv'  BY <1>2, <1>3, <2>1, <2>3, <3>1 DEF ParsedInv
    <3>. QED  BY <3>2, <3>3, <3>4
  <2>11. CASE Read
    <3>1. pc = "read" /\ pc' = "advance" /\ dropped' = dropped /\ UNCHANGED <<serbuf_head, head, tail>>
      BY <2>11 DEF Read, Step, bufVars, Inv, TypeOK
    <3>2. CASE dropped
      <4>1. newest' = newest  BY <2>11, <3>2 DEF Read
      <4>. QED  BY <1>2, <1>3, <2>1, <2>3, <3>1, <3>2, <4>1 DEF NewestInv, ComparedInv, ParsedInv
    <3>3. CASE ~dropped
      <4>1. head = serbuf_head /\ serbuf_head < serbuf_tail
        BY <2>1, <3>1, <3>3 DEF ComparedInv
      <4>2. serbuf[serbuf_head] = Handed - serbuf_tail + 1 + serbuf_head
        BY <2>1, <2>3, <4>1 DEF BufInv
      <4>3. parsed' = Handed - serbuf_tail + 1 + serbuf_head
        BY <2>11, <4>1, <4>2 DEF Read
      <4>4. newest' <= Handed - serbuf_tail + serbuf_head + 1
        BY <2>1, <2>3, <2>11, <3>1, <4>3 DEF Read, NewestInv
      <4>. QED
        BY <1>2, <1>3, <2>1, <2>3, <3>1, <3>3, <4>1, <4>3, <4>4 DEF NewestInv, ComparedInv, ParsedInv
    <3>. QED  BY <3>2, <3>3
  <2>12. CASE LoadHead("advance", "store")
    <3>1. /\ pc = "advance" /\ pc' = "store" /\ head' = serbuf_head
          /\ (dropped' <=> dropped) /\ UNCHANGED <<serbuf_head, newest, parsed, tail>>
      BY <2>12 DEF LoadHead, Step, bufVars, out
    <3>2. NewestInv'  BY <1>2, <1>3, <2>1, <2>3, <3>1 DEF NewestInv
    <3>3. ComparedInv'  BY <1>2, <2>1, <2>3, <3>1 DEF ComparedInv
    <3>4. ~overflowed' => ParsedInv'  BY <1>2, <1>3, <2>1, <2>3, <3>1 DEF ParsedInv
    <3>. QED  BY <3>2, <3>3, <3>4
  <2>13. CASE Store
    <3>1. pc = "store" /\ pc' = "test" /\ ~dropped' /\ UNCHANGED <<head, tail, newest, parsed>>
      BY <2>13 DEF Store, Step, out
    <3>2. serbuf_head' = head + 1
      BY <2>13 DEF Store
    <3>3. CASE dropped
      BY <1>2, <1>3, <2>1, <2>3, <3>1, <3>2, <3>3 DEF NewestInv, ComparedInv, ParsedInv
    <3>4. CASE ~dropped
      BY <1>2, <1>3, <2>1, <2>3, <3>1, <3>2, <3>4 DEF NewestInv, ComparedInv, ParsedInv
    <3>. QED  BY <3>3, <3>4
  <2>. QED  BY <2>5, <2>6, <2>7, <2>8, <2>9, <2>10, <2>11, <2>12, <2>13 DEF Main
<1>. QED  BY <1>4, <1>5

LEMMA NextInv == Inv /\ [Next]_vars => Inv'
<1>. SUFFICES ASSUME Inv, [Next]_vars PROVE Inv'
  OBVIOUS
<1>1. CASE UNCHANGED vars
  BY <1>1 DEF vars, dmaVars, bufVars, out, Inv, TypeOK, RegisterInv, DmaInv, BufInv,
              NewestInv, ComparedInv, ParsedInv, Rewound, Handed
<1>. QED  BY <1>1, ArriveInv, IsrInv, MainInv DEF Next

\* Only Read goes from "read" to "advance".
LEMMA ReadStep ==
    ASSUME TypeOK, [Next]_vars, pc = "read", pc' = "advance"
    PROVE  Read
<1>1. pc' # pc  OBVIOUS
<1>2. Main  BY <1>1 DEF Next, Arrive, dma1_stream1_isr, vars
<1>. QED  BY <1>2 DEF Main, LoadHead, LoadTail, Compare, Rest, Store, Step

\* The parser gets every byte once and in order, wherever the interrupt cuts in.
THEOREM BytesInOrder == Spec => EveryByteOnce
<1>1. Inv /\ [Next]_vars =>
        [pc = "read" /\ pc' = "advance" /\ ~late /\ ~overflowed => parsed' = parsed + 1]_vars
  <2>. SUFFICES ASSUME Inv, [Next]_vars, pc = "read", pc' = "advance", ~late, ~overflowed
       PROVE  parsed' = parsed + 1
    OBVIOUS
  <2>1. /\ BufInv /\ ~dropped /\ head = serbuf_head /\ serbuf_head < serbuf_tail
        /\ parsed = Handed - serbuf_tail + serbuf_head + 0
    BY DEF Inv, ParsedInv, ComparedInv
  <2>2. serbuf_head \in Nat /\ serbuf_tail \in Nat /\ serbuf_tail <= SERBUFLEN /\ Handed \in Int
    BY SerialAssumption DEF Inv, TypeOK, Cursors, Places, Handed
  <2>3. serbuf[serbuf_head] = Handed - serbuf_tail + 1 + serbuf_head
    BY <2>1, <2>2, SerialAssumption DEF BufInv
  <2>4. Read
    BY ReadStep DEF Inv
  <2>. QED  BY <2>1, <2>2, <2>3, <2>4 DEF Read
<1>. QED  BY <1>1, InvInit, NextInv, PTL DEF Spec, EveryByteOnce

\* Whatever overflows, no byte comes back.
THEOREM NothingTwice == Spec => NeverTwice
<1>1. Inv /\ [Next]_vars =>
        [pc = "read" /\ pc' = "advance" /\ ~late /\ ~dropped => parsed' > newest]_vars
  <2>. SUFFICES ASSUME Inv, [Next]_vars, pc = "read", pc' = "advance", ~late, ~dropped
       PROVE  parsed' > newest
    OBVIOUS
  <2>1. /\ BufInv /\ head = serbuf_head /\ serbuf_head < serbuf_tail
        /\ newest <= Handed - serbuf_tail + serbuf_head
    BY DEF Inv, ComparedInv, NewestInv
  <2>2. /\ serbuf_head \in Nat /\ serbuf_tail \in Nat /\ serbuf_tail <= SERBUFLEN
        /\ Handed \in Int /\ newest \in Int
    BY SerialAssumption DEF Inv, TypeOK, Cursors, Places, Handed, Received
  <2>3. serbuf[serbuf_head] = Handed - serbuf_tail + 1 + serbuf_head
    BY <2>1, <2>2, SerialAssumption DEF BufInv
  <2>4. Read
    BY ReadStep DEF Inv
  <2>. QED  BY <2>1, <2>2, <2>3, <2>4 DEF Read
<1>. QED  BY <1>1, InvInit, NextInv, PTL DEF Spec, NeverTwice

\* Once main() has emptied serbuf, what it has not seen is still in the DMA's halves.
THEOREM BehindBound == Spec => []LessThanTwoHalvesBehind
<1>1. Inv => LessThanTwoHalvesBehind
  <2>. SUFFICES ASSUME Inv, pc = "test", serbuf_head = serbuf_tail, ~tcif, ~late, ~overflowed
       PROVE  received - parsed < 2 * Half
    BY DEF LessThanTwoHalvesBehind
  <2>1. parsed = Handed - serbuf_tail + serbuf_head + 0
    BY DEF Inv, ParsedInv
  <2>2. received \in Int /\ place \in 0 .. Half - 1 /\ serbuf_tail \in Nat
    BY DEF Inv, TypeOK, Cursors, Places
  <2>3. Handed = received - place - Half
    BY DEF Handed
  <2>. QED  BY <2>1, <2>2, <2>3, SerialAssumption
<1>. QED  BY <1>1, InvInit, NextInv, PTL DEF Spec

---------------------------------------------------------------------------
(* The line of bytes                                                         *)

\* While nothing is lost, no byte is set aside.
NoneAside == ~late /\ ~overflowed => newest = parsed

LineInv == Inv /\ NoneAside

\* What was late or has overflowed stays so.
LEMMA FaultsStay ==
    ASSUME TypeOK, [Next]_vars
    PROVE  (late => late') /\ (overflowed => overflowed')
<1>. USE DEF TypeOK
<1>1. CASE UNCHANGED vars  BY <1>1 DEF vars, dmaVars, bufVars
<1>2. CASE Arrive  BY <1>2 DEF Arrive, bufVars
<1>3. CASE dma1_stream1_isr  BY <1>3 DEF dma1_stream1_isr, console_line_handler
<1>4. CASE Main
  BY <1>4 DEF Main, LoadHead, LoadTail, Compare, Rest, Read, Store, Step, dmaVars, bufVars
<1>. QED  BY <1>1, <1>2, <1>3, <1>4 DEF Next

\* It holds initially, and every step keeps it.
LEMMA LineInvInit == Init => LineInv
BY InvInit DEF Init, LineInv, NoneAside

LEMMA LineInvNext == LineInv /\ [Next]_vars => LineInv'
<1>. SUFFICES ASSUME LineInv, [Next]_vars, ~late', ~overflowed' PROVE newest' = parsed'
  BY NextInv DEF LineInv, NoneAside
<1>1. Inv /\ TypeOK /\ ~late /\ ~overflowed /\ newest = parsed
  BY FaultsStay DEF LineInv, NoneAside, Inv
<1>2. ~dropped  BY <1>1 DEF Inv, ParsedInv
<1>3. CASE UNCHANGED vars  BY <1>1, <1>3 DEF vars, out
<1>4. CASE Arrive  BY <1>1, <1>4 DEF Arrive, out
<1>5. CASE dma1_stream1_isr  BY <1>1, <1>5 DEF dma1_stream1_isr, out
<1>6. CASE Main
  BY <1>1, <1>2, <1>6 DEF Main, LoadHead, LoadTail, Compare, Rest, Read, Store, out
<1>. QED  BY <1>3, <1>4, <1>5, <1>6 DEF Next

\* The byte main() reads, while serbuf is not dropped under it, is a later one than any
\* before, a half has filled behind it, and it is the next one unless some are missing.
LEMMA ReadsLater ==
    ASSUME LineInv, Read, ~late, ~dropped
    PROVE  /\ newest' > newest /\ newest' <= received - Half
           /\ ~overflowed => newest' = newest + 1
<1>1. /\ BufInv /\ head = serbuf_head /\ serbuf_head < serbuf_tail
      /\ newest <= Handed - serbuf_tail + serbuf_head
  BY DEF LineInv, Inv, ComparedInv, NewestInv, Read, Step
<1>2. /\ serbuf_head \in Nat /\ serbuf_tail \in Nat /\ serbuf_tail <= SERBUFLEN
      /\ received \in Nat /\ newest \in Int /\ place \in Nat
  BY SerialAssumption DEF LineInv, Inv, TypeOK, Cursors, Places, Received
<1>3. Handed \in Int /\ Handed <= received - Half
  BY <1>2, SerialAssumption DEF Handed
<1>4. serbuf[serbuf_head] = Handed - serbuf_tail + 1 + serbuf_head
  BY <1>1, <1>2, SerialAssumption DEF BufInv
<1>5. newest' = Handed - serbuf_tail + 1 + serbuf_head
  BY <1>1, <1>4 DEF Read
<1>6. ~overflowed => newest = Handed - serbuf_tail + serbuf_head + 0
  BY DEF LineInv, NoneAside, Inv, ParsedInv, Read, Step
<1>. QED  BY <1>1, <1>2, <1>3, <1>5, <1>6, SerialAssumption

\* Every step is one of the line's, or none.
LEMMA LineStep == LineInv /\ [Next]_vars => [Line!Next]_(Line!vars)
<1>. SUFFICES ASSUME LineInv, [Next]_vars PROVE [Line!Next]_(Line!vars)
  OBVIOUS
<1>. USE DEF Line!Next, Line!vars
<1>1. TypeOK  BY DEF LineInv, Inv
<1>2. late \in BOOLEAN /\ late' \in BOOLEAN
  BY <1>1, NextInv DEF TypeOK, LineInv, Inv
<1>3. CASE late'
  BY <1>2, <1>3 DEF Line!Miss
<1>4. CASE ~late'
  <2>1. ~late /\ late' = late  BY <1>1, <1>2, <1>4, FaultsStay
  <2>2. CASE UNCHANGED vars
    BY <2>2 DEF vars, dmaVars, bufVars, out
  <2>3. CASE Arrive
    BY <2>1, <2>3 DEF Arrive, bufVars, out, Line!Arrive
  <2>4. CASE dma1_stream1_isr
    <3>1. UNCHANGED <<received, newest>>  BY <2>4 DEF dma1_stream1_isr, out
    <3>2. overflowed' = TRUE \/ overflowed' = overflowed
      BY <1>1, <2>4 DEF dma1_stream1_isr, console_line_handler, TypeOK
    <3>. QED  BY <2>1, <3>1, <3>2 DEF Line!Drop
  <2>5. CASE Read
    <3>1. UNCHANGED <<received, overflowed>>  BY <2>5 DEF Read, Step, dmaVars, bufVars
    <3>2. CASE dropped
      BY <2>1, <2>5, <3>1, <3>2 DEF Read
    <3>3. CASE ~dropped
      <4>1. CASE overflowed
        BY <2>1, <2>5, <3>1, <3>3, <4>1, ReadsLater DEF Line!Skip
      <4>2. CASE ~overflowed
        BY <2>1, <2>5, <3>1, <3>3, <4>2, ReadsLater DEF Line!Deliver
      <4>. QED  BY <4>1, <4>2
    <3>. QED  BY <3>2, <3>3
  <2>6. CASE Main /\ ~Read
    <3>1. UNCHANGED <<received, newest, overflowed, late>>
      BY <2>6 DEF Main, LoadHead, LoadTail, Compare, Rest, Store, Step, dmaVars, bufVars, out
    <3>. QED  BY <3>1
  <2>. QED  BY <2>2, <2>3, <2>4, <2>5, <2>6 DEF Next
<1>. QED  BY <1>3, <1>4

\* However the interrupt cuts into main()'s loop, and whatever overflows: what
\* packet_rx_byte is given is a line of bytes in order and none of them twice, complete
\* until serbuf is dropped, and each of them at least a half late.
THEOREM LineImplemented == Spec => ImplementsLine
<1>1. Init => Line!Init
  BY DEF Init, console_setup, Line!Init
<1>. QED  BY <1>1, LineInvInit, LineInvNext, LineStep, PTL DEF Spec, ImplementsLine, Line!Spec

===========================================================================
