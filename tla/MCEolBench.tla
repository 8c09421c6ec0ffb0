--------------------------- MODULE MCEolBench ---------------------------
(* A byte has 4 values and a word 16; buffers hold 12 points and 6 samples. *)
EXTENDS EolBench

MCSinTable == [i \in 0 .. 3 |-> <<0, 48, 89, 117>>[i + 1]]

\* Floats of eight bits: the second of two waves drifts by a place of the table.
MCUlps == {2 ^ k : k \in 0 .. 6}

MCReading(t, ch, p) == 100 * t + 10 * ch + p

Adc(np, sw, chs) == [prescaler |-> 1, period |-> 7, num_points |-> np,
                     sample_width |-> sw, sample_time |-> 15, channels |-> chs]

\* One byte a sample and two channels in two strides; two bytes a sample in two
\* strides, with a period that TIM3 cannot count; three bytes in a stride and a half;
\* three bytes a sample, which is not supported; as many as 2 modulo 2^16; more than
\* the buffer holds.
MCAdcRequests == {Adc(2, 1, <<0, 2>>), [Adc(2, 2, <<1>>) EXCEPT !.period = 41],
                  Adc(3, 1, <<1>>), Adc(1, 3, <<0>>), Adc(9, 1, <<0, 1>>), Adc(4, 2, <<0>>)}

Dac(scale, ppw, waves, theta) ==
    [prescaler |-> 6, period |-> 33, scale |-> scale, points_per_wave |-> ppw,
     num_waves |-> waves, theta0_u8 |-> theta]

\* Two waves; two odd ones, shifted; too few points; 27 points, or 11 modulo 2^16;
\* 18, or 2, which is too short for a wave.
MCDacRequests ==
    {[ops |-> {"stop"}, arg |-> Dac(1, 4, 1, 0)],
     [ops |-> {"start"}, arg |-> Dac(1, 4, 1, 0)],
     [ops |-> {"configure", "start"}, arg |-> Dac(1, 4, 2, 0)],
     [ops |-> {"stop", "configure", "start"}, arg |-> Dac(2, 5, 2, 1)],
     [ops |-> {"configure"}, arg |-> Dac(1, 3, 2, 0)],
     [ops |-> {"configure"}, arg |-> Dac(1, 9, 3, 0)],
     [ops |-> {"stop", "configure"}, arg |-> Dac(1, 6, 3, 0)]}

MCUserRequests(t) ==
    {echo(t, << >>, "T"), enqueue(t, Frame("L", "S", << >>)), reset_req(t), bogon(t),
     dac_start_req(t), enqueue(t, Frame("A", "S", << >>))}

MCEchoContent == <<3>>
===========================================================================
