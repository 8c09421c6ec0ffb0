----------------------------- MODULE ByteLine -----------------------------
(* What the way from the serial line to packet_rx_byte promises, whatever      *)
(* buffers, interrupts and cursors it is made of (SerialRx): the bytes come in *)
(* order, each of them once; they come late, by a half at least and, when      *)
(* main() goes on, by less than two; and some are lost only when a buffer has  *)
(* been dropped.  Nothing is promised once the timing has been missed.         *)
EXTENDS Integers

CONSTANT Half           \* bytes in half of console_rx_buffer (4)

VARIABLES received,     \* how many bytes have come in
          newest,       \* the latest handed on, by its place in the stream
          dropped,      \* some may be missing
          late          \* the timing has been missed

vars == <<received, newest, dropped, late>>

Init == received = 0 /\ newest = 0 - Half /\ ~dropped /\ ~late

Arrive == received' = received + 1 /\ UNCHANGED <<newest, dropped, late>>

\* The next byte is handed on, which has waited for a half to fill behind it.
Deliver ==
    /\ newest' = newest + 1 /\ newest' <= received - Half
    /\ UNCHANGED <<received, dropped, late>>

\* A buffer is dropped ...
Drop == dropped' = TRUE /\ UNCHANGED <<received, newest, late>>

\* ... and what comes next is not the next byte, but a later one.
Skip ==
    /\ dropped
    /\ newest' > newest /\ newest' <= received - Half
    /\ UNCHANGED <<received, dropped, late>>

\* From here on anything may happen.
Miss == late' = TRUE

Next == Miss \/ Arrive \/ Deliver \/ Drop \/ Skip

\* A byte with two halves behind it does not wait for more.
Due ==
    /\ ~dropped /\ ~late
    /\ newest + 2 * Half <= received
    /\ Deliver

Spec == Init /\ [][Next]_vars

\* As long as main() goes on.
Fairness == WF_vars(Due)

===========================================================================
