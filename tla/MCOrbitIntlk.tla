---------------------------- MODULE MCOrbitIntlk ----------------------------
EXTENDS OrbitIntlkProps

\* 3-bit words.  Positions: a pair of X positions; Y stays at zero but in one
\* sample.  Sums: 3 is enough, 0 is not.
Pos(xds, xus, yds, yus) ==
    [b \in BPMs |-> IF b = "DS" THEN [X |-> xds, Y |-> yds]
                                ELSE [X |-> xus, Y |-> yus]]
Sum(ds, us) == [b \in BPMs |-> IF b = "DS" THEN ds ELSE us]
Smp(p, s)   == [pos |-> p, sum |-> s]

MCChans == {"X", "Y"}
MCSamples ==
    {Smp(Pos(0, 0, 0, 0), Sum(3, 3)),       \* inside, enough sum
     Smp(Pos(0, 0, 0, 0), Sum(0, 0)),       \* inside, small sum
     Smp(Pos(1, 1, 0, 0), Sum(0, 3)),       \* X translation too big
     Smp(Pos(1, 1, 0, 0), Sum(0, 0)),       \* the same with a small sum
     Smp(Pos(0, 0, 1, -1), Sum(3, 0)),      \* Y angle too big
     Smp(Pos(3, 1, 0, 0), Sum(3, 3))}       \* the sum of X overflows

On == [rst |-> FALSE, en |-> TRUE, clr |-> FALSE, min_sum_en |-> TRUE,
       trans_en |-> TRUE, trans_clr |-> FALSE,
       ang_en |-> TRUE, ang_clr |-> FALSE]
MCCtrls == {On,
            [On EXCEPT !.clr = TRUE, !.trans_clr = TRUE, !.ang_clr = TRUE],
            [On EXCEPT !.trans_en = FALSE],
            [On EXCEPT !.rst = TRUE]}

Lim(sum, tmax, tmin, amax, amin) ==
    [min_sum   |-> sum,
     trans_max |-> [i \in MCChans |-> tmax],
     trans_min |-> [i \in MCChans |-> tmin],
     ang_max   |-> [i \in MCChans |-> amax],
     ang_min   |-> [i \in MCChans |-> amin]]
MCLimits == {Lim(2, 1, -2, 2, -3)}

\* The interlock stays on.
OnCtrls == {On}
=============================================================================
