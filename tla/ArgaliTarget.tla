-------------------------- MODULE ArgaliTarget --------------------------
(* argali_target.py: the tether's record of what it has asked for and is       *)
(* still waiting for.  Its methods are operators on that record.               *)
EXTENDS Packets

\* __init__.  last_echo_sent is None ("never"), or a time less ("recent") or more
\* ("old") than the 3 s ago that echo.py allows; printed is what the user saw last.
NewTarget ==
    [pending_frames |-> << >>, pending_echo |-> FALSE, pending_dac |-> FALSE,
     pending_adc_bytes |-> 0, adc_buf |-> << >>, last_echo_sent |-> "never",
     printed |-> << >>]

\* Mutant: any number of bytes but 0 is pending.
PendingNonZero(t) == t.pending_echo \/ t.pending_dac \/ t.pending_adc_bytes # 0

pending_input(t) == t.pending_echo \/ t.pending_dac \/ t.pending_adc_bytes > 0

enqueue(t, msg) == [t EXCEPT !.pending_frames = Append(@, msg)]

queue_packet(t, cls, values) == enqueue(t, pack(cls, values))

Frame(family, type, data) == [family |-> family, type |-> type, data |-> data]

echo(t, s, rq) ==
    [enqueue(t, Frame("E", rq, s)) EXCEPT !.pending_echo = TRUE, !.last_echo_sent = "recent"]

reset_req(t)     == enqueue(t, Frame("R", "Q", << >>))
dac_start_req(t) == [enqueue(t, Frame("D", "S", << >>)) EXCEPT !.pending_dac = TRUE]
dac_stop_req(t)  == [enqueue(t, Frame("D", "T", << >>)) EXCEPT !.pending_dac = TRUE]
bogon(t)         == enqueue(t, Frame("x", "x", << >>))

\* The echo and the table of all bytes; a request of the other side's is answered.
_echo_rx(t, f) ==
    IF f.type \in {"R", "U"}
    THEN [t EXCEPT !.pending_echo = FALSE, !.last_echo_sent = "never", !.printed = f.data]
    ELSE IF f.type = "Q" THEN echo(t, f.data, "R") ELSE t

_dac_rx(t, f) == [t EXCEPT !.pending_dac = FALSE]

\* The capture is shown when its last byte is in, and only if they come out even.
_adc_rx(t, f) ==
    IF f.type # "C" THEN t
    ELSE LET left == t.pending_adc_bytes - Len(f.data)
         IN  [t EXCEPT !.adc_buf = @ \o f.data, !.pending_adc_bytes = left,
                       !.printed = IF left = 0 THEN t.adc_buf \o f.data ELSE @]

\* Errors and unknown families are only printed.
frame_cb(t, f) ==
    CASE f.family = "E" -> _echo_rx(t, f)
      [] f.family = "D" -> _dac_rx(t, f)
      [] f.family = "A" -> _adc_rx(t, f)
      [] OTHER -> t

===========================================================================
