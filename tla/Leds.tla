------------------------------- MODULE Leds -------------------------------
(* The three LEDs as the pins they hang on: the driver                         *)
(* src/code/src/targets/nucleo_f413zh/leds.c.  main() uses red and blue, the   *)
(* ADC's interrupt toggles green.                                              *)

Pins == [red : BOOLEAN, blue : BOOLEAN, green : BOOLEAN]

\* The pins become outputs; they come out of a reset low.
led_setup == [red |-> FALSE, blue |-> FALSE, green |-> FALSE]

led_red_on(leds)     == [leds EXCEPT !.red = TRUE]
led_red_off(leds)    == [leds EXCEPT !.red = FALSE]
led_red_toggle(leds) == [leds EXCEPT !.red = ~leds.red]

led_blue_on(leds)     == [leds EXCEPT !.blue = TRUE]
led_blue_off(leds)    == [leds EXCEPT !.blue = FALSE]
led_blue_toggle(leds) == [leds EXCEPT !.blue = ~leds.blue]

led_green_toggle(leds) == [leds EXCEPT !.green = ~leds.green]

===========================================================================
