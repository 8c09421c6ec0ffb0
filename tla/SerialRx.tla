----------------------------- MODULE SerialRx -----------------------------
(* How a byte from the serial line reaches packet_rx_byte: the console's DMA   *)
(* fills the two halves of console_rx_buffer in turn; its interrupt            *)
(* (console.c) hands a half to console_line_handler (main.c), which appends    *)
(* it to serbuf; main()'s loop takes serbuf's bytes one by one.  The interrupt *)
(* may come between any two of main's accesses to serbuf's cursors.            *)
(*                                                                           *)
(* A byte stands for its place in the stream: the k-th byte received is k, and *)
(* what console_rx_buffer holds at first gets the places before 1.             *)
EXTENDS Integers

CONSTANTS Half,         \* bytes in half of console_rx_buffer (4)
          SERBUFLEN,    \* 2048
          MAX_BYTES     \* bound: how many bytes are received

ASSUME SerialAssumption ==
    /\ Half \in Nat \ {0}
    /\ SERBUFLEN \in Nat /\ Half <= SERBUFLEN
    /\ MAX_BYTES \in Nat

VARIABLES
    received,                \* how many bytes the DMA has stored
    console_rx_buffer,       \* half -> place in it -> byte
    target, place,           \* CT, and where the next byte goes
    tcif,                    \* transfer-complete interrupt pending
    serbuf, serbuf_head, serbuf_tail,
    pc, head, tail,          \* main(), and its registers
    parsed,                  \* the byte last handed to packet_rx_byte
    struck,                  \* the interrupt has come since main()'s last step
    late,                    \* the timing below has been missed
    overflowed,              \* serbuf has been dropped
    dropped,                 \* ... since main() last began to compare its cursors
    newest                   \* the byte last handed to packet_rx_byte otherwise

dmaVars == <<received, console_rx_buffer, target, place, tcif, late>>
bufVars == <<serbuf, serbuf_head, serbuf_tail, overflowed>>
out     == <<parsed, newest>>
vars    == <<dmaVars, bufVars, pc, head, tail, out, struck, dropped>>

Received == 1 - Half .. MAX_BYTES
Cursors  == 0 .. SERBUFLEN
Places   == 0 .. Half - 1

---------------------------------------------------------------------------
(* The DMA and its interrupt.                                                *)

\* A byte arrives.  When it completes a half, the DMA swaps halves and asks for
\* its interrupt; an interrupt not yet served by then is lost.
Arrive ==
    /\ received < MAX_BYTES
    /\ received' = received + 1
    /\ console_rx_buffer' = [console_rx_buffer EXCEPT ![target][place] = received']
    /\ place' = (place + 1) % Half
    /\ target' = IF place' = 0 THEN 1 - target ELSE target
    /\ tcif' = (tcif \/ place' = 0)
    /\ late' = (late \/ tcif)
    /\ UNCHANGED <<bufVars, pc, head, tail, out, struck, dropped>>

\* serbuf, with line appended at the cursor at.
Appended(at, line) ==
    [i \in 0 .. SERBUFLEN - 1 |->
        IF i \in at .. at + Half - 1 THEN line[i - at] ELSE serbuf[i]]

\* Mutant: the cursors are put back although bytes are still to be read.
AlwaysRewinds(line) ==
    /\ serbuf' = Appended(0, line)
    /\ serbuf_head' = 0 /\ serbuf_tail' = Half
    /\ UNCHANGED <<overflowed, dropped>>

\* Mutant: the last byte of the line is left out.
ShortLine(line) ==
    LET start == IF serbuf_head = serbuf_tail THEN 0 ELSE serbuf_tail
    IN  /\ serbuf_head' = IF start = 0 THEN 0 ELSE serbuf_head
        /\ IF start + Half > SERBUFLEN
           THEN /\ serbuf_tail' = 0 /\ overflowed' = TRUE /\ UNCHANGED <<serbuf, dropped>>
           ELSE /\ serbuf' = Appended(start, line)
                /\ serbuf_tail' = start + Half - 1 /\ UNCHANGED <<overflowed, dropped>>

\* Mutant: the room left is compared before the line is counted.
ForgetsLength(line) ==
    LET start == IF serbuf_head = serbuf_tail THEN 0 ELSE serbuf_tail
    IN  /\ serbuf_head' = IF start = 0 \/ start > SERBUFLEN THEN 0 ELSE serbuf_head
        /\ serbuf' = Appended(start, line)
        /\ serbuf_tail' = IF start > SERBUFLEN THEN 0 ELSE start + Half
        /\ UNCHANGED <<overflowed, dropped>>

\* Mutant: only the head is put back when serbuf is full.
KeepsTail(line) ==
    LET empty == serbuf_head = serbuf_tail
        start == IF empty THEN 0 ELSE serbuf_tail
        full  == start + Half > SERBUFLEN
    IN  /\ serbuf' = IF full THEN serbuf ELSE Appended(start, line)
        /\ serbuf_head' = IF empty \/ full THEN 0 ELSE serbuf_head
        /\ serbuf_tail' = IF full THEN serbuf_tail ELSE start + Half
        /\ overflowed' = (overflowed \/ full)
        /\ dropped' = (dropped \/ (full /\ pc # "test"))

\* An empty serbuf starts over from its beginning; a full one is dropped, and
\* the line with it.
console_line_handler(line) ==
    LET empty == serbuf_head = serbuf_tail
        start == IF empty THEN 0 ELSE serbuf_tail
        full  == start + Half > SERBUFLEN
    IN  /\ serbuf' = IF full THEN serbuf ELSE Appended(start, line)
        /\ serbuf_head' = IF empty \/ full THEN 0 ELSE serbuf_head
        /\ serbuf_tail' = IF full THEN 0 ELSE start + Half
        /\ overflowed' = (overflowed \/ full)
        /\ dropped' = (dropped \/ (full /\ pc # "test"))

\* Where main() may spend the time of many bytes: in packet_rx_byte, whose
\* callbacks log, and in the rest of its loop.  Elsewhere its next step is the next
\* instruction, and is outpaced by a second interrupt only if other interrupts keep
\* main() from running for the time of a whole half.
Slow == {"advance", "rest"}

\* The half handed on is the one CT names: the DMA has just turned to it, so it
\* still holds the bytes of one half ago.
dma1_stream1_isr ==
    /\ tcif
    /\ tcif' = FALSE
    /\ console_line_handler(console_rx_buffer[target])
    /\ struck' = TRUE
    /\ late' = (late \/ (struck /\ pc \notin Slow))
    /\ UNCHANGED <<received, console_rx_buffer, target, place, pc, head, tail, out>>

---------------------------------------------------------------------------
(* main(): while serbuf_head < serbuf_tail, packet_rx_byte of the byte at      *)
(* serbuf_head, then serbuf_head++.                                           *)

Step(from, to) ==
    /\ pc = from /\ pc' = to
    /\ struck' = FALSE /\ dropped' = (dropped /\ to # "test")
    /\ UNCHANGED dmaVars

\* The comparison loads the two cursors one after the other, in an order the
\* compiler chose.
LoadHead(from, to) == Step(from, to) /\ head' = serbuf_head /\ UNCHANGED <<bufVars, tail, out>>
LoadTail(from, to) == Step(from, to) /\ tail' = serbuf_tail /\ UNCHANGED <<bufVars, head, out>>

Compare ==
    /\ Step("compare", IF head < tail THEN "read" ELSE "rest")
    /\ UNCHANGED <<bufVars, head, tail, out>>

\* The rest of the loop, and round again.
Rest == Step("rest", "test") /\ UNCHANGED <<bufVars, head, tail, out>>

\* The byte is read at the cursor just compared, or at one loaded anew.
Read ==
    /\ Step("read", "advance")
    /\ \E at \in {head, serbuf_head} : parsed' = serbuf[at]
    /\ newest' = IF dropped THEN newest ELSE parsed'
    /\ UNCHANGED <<bufVars, head, tail>>

\* serbuf_head++: what was loaded is stored, whatever happened in between.
Store ==
    /\ Step("store", "test")
    /\ serbuf_head' = head + 1
    /\ UNCHANGED <<serbuf, serbuf_tail, overflowed, head, tail, out>>

Main ==
    \/ LoadHead("test", "head_loaded") \/ LoadTail("head_loaded", "compare")
    \/ LoadTail("test", "tail_loaded") \/ LoadHead("tail_loaded", "compare")
    \/ Compare \/ Rest \/ Read
    \/ LoadHead("advance", "store") \/ Store

\* The USART receives through a circular, double-buffered DMA, which begins with the
\* first half.
console_setup ==
    /\ received = 0
    /\ console_rx_buffer = [h \in 0 .. 1 |-> [p \in Places |-> p + 1 - Half]]
    /\ target = 0 /\ place = 0 /\ tcif = FALSE

\* Both cursors start as NULL, and the first line, finding them equal, sets them to
\* serbuf.
Init ==
    /\ console_setup
    /\ serbuf = [i \in 0 .. SERBUFLEN - 1 |-> 0]
    /\ serbuf_head = 0 /\ serbuf_tail = 0
    /\ pc = "test" /\ head = 0 /\ tail = 0
    /\ parsed = 0 - Half /\ newest = parsed
    /\ struck = FALSE /\ late = FALSE /\ overflowed = FALSE /\ dropped = FALSE

Next == Arrive \/ dma1_stream1_isr \/ Main

\* main()'s loop never ends, and interrupts are served.
Spec == Init /\ [][Next]_vars /\ WF_vars(Main) /\ WF_vars(dma1_stream1_isr)

---------------------------------------------------------------------------

\* The cursors, which the two sides write without a lock, never leave serbuf,
\* and main never reads past its end; even when an overflow is noticed in the
\* middle of main's increment.
TypeOK ==
    /\ received \in 0 .. MAX_BYTES
    /\ console_rx_buffer \in [0 .. 1 -> [Places -> Received]]
    /\ target \in 0 .. 1 /\ place \in Places /\ tcif \in BOOLEAN
    /\ serbuf \in [0 .. SERBUFLEN - 1 -> Received]
    /\ serbuf_head \in Cursors /\ serbuf_tail \in Cursors
    /\ pc \in {"test", "head_loaded", "tail_loaded", "compare", "rest", "read", "advance", "store"}
    /\ head \in Cursors /\ tail \in Cursors
    /\ pc \in {"read", "store"} => head < SERBUFLEN
    /\ pc \in {"read", "advance"} => serbuf_head < SERBUFLEN
    /\ parsed \in Received \cup {0 - Half} /\ newest \in Received \cup {0 - Half}
    /\ struck \in BOOLEAN /\ late \in BOOLEAN
    /\ overflowed \in BOOLEAN /\ dropped \in BOOLEAN

\* However the interrupt cuts into main's loop, the parser gets every byte,
\* once and in order, as long as an interrupt is served before the next byte
\* arrives, no two come between adjacent instructions of main, and serbuf has not
\* overflowed.
EveryByteOnce ==
    [][pc = "read" /\ pc' = "advance" /\ ~late /\ ~overflowed => parsed' = parsed + 1]_vars

\* What argali_target.py relies on when it writes flags after a frame: once
\* serbuf is empty, fewer than two halves (8 bytes) of what was received have
\* not reached the parser.
LessThanTwoHalvesBehind ==
    pc = "test" /\ serbuf_head = serbuf_tail /\ ~tcif /\ ~late /\ ~overflowed
        => received - parsed < 2 * Half

\* An overflow costs bytes, but brings none back: whatever main()'s cursors are left at
\* by it, and by any number more, the bytes main() hands to the parser are ever later
\* ones, if the one it had been about to read when serbuf was dropped is set aside.
NeverTwice ==
    [][pc = "read" /\ pc' = "advance" /\ ~late /\ ~dropped => parsed' > newest]_vars

\* The DMA's halves, the interrupt, serbuf and main()'s loop are a line of bytes: in
\* order, none of them twice, complete until serbuf is dropped, and late by a half at
\* least, since the console hands on the half that is about to be overwritten.
Line == INSTANCE ByteLine WITH dropped <- overflowed

ImplementsLine == Line!Spec

\* Whenever the line falls silent, all but the last bytes reach the parser, though no
\* more interrupts come.
Drains == Line!Fairness

===========================================================================
