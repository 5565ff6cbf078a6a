-------------------------- MODULE OrbitIntlkProps --------------------------
(***************************************************************************)
(* What the orbit interlock promises, stated against the arithmetic the    *)
(* comments of the VHDL files give rather than against the circuit.  The   *)
(* history variables watch the machine without influencing it.             *)
(***************************************************************************)
EXTENDS OrbitIntlk

VARIABLES
    due,      \* cycles since an unanswered sample that has to trip, 0: none
    prevBad,  \* the last sample presented was outside the limits
    cause,    \* a sample outside the limits, or the one after it, had sum
    ownCause, \* a sample outside the limits had enough sum itself
    upset     \* there was a reset, or the limits were changed

monVars == <<due, prevBad, cause, ownCause, upset>>
allVars == <<vars, monVars>>

-----------------------------------------------------------------------------
\* Reference definitions.  The translation is the mean of the two positions
\* rounded down, the angle their difference; reaching a limit trips.
TransBad(s, l) == \E i \in Chans :
    LET t == s.pos["US"][i] + s.pos["DS"][i]
    IN  t >= 2 * l.trans_max[i] \/ t <= 2 * l.trans_min[i] + 1

AngBad(s, l) == \E i \in Chans :
    LET d == s.pos["DS"][i] - s.pos["US"][i]
    IN  d >= l.ang_max[i] \/ d <= l.ang_min[i]

SumOk(s, l, c) == c.min_sum_en =>
    \E b \in BPMs : Unsigned(s.sum[b]) >= Unsigned(l.min_sum)

\* A sample is on the bus, and it has to trip the interlock.
Presented == \A b \in BPMs : valid[b]
MustTrip  == /\ Presented
             /\ SumOk(sample, lim, ctrl)
             /\ \/ ctrl.trans_en /\ TransBad(sample, lim)
                \/ ctrl.ang_en /\ AngBad(sample, lim)

\* The interlock is on and nothing is being cleared, reset or reconfigured.
Steady == /\ ctrl.en
          /\ ~ctrl.rst /\ ~ctrl.clr /\ ~ctrl.trans_clr /\ ~ctrl.ang_clr
          /\ ctrl' = ctrl /\ lim' = lim

MonInit == /\ Init
           /\ due = 0 /\ prevBad = FALSE /\ cause = FALSE /\ ownCause = FALSE
           /\ upset = FALSE

Monitor ==
    LET bad == TransBad(sample, lim) \/ AngBad(sample, lim)
    IN  /\ due' = IF ~Steady \/ intlk_ltc' THEN 0
                  ELSE IF due > 0 THEN due + 1
                  ELSE IF MustTrip THEN 1 ELSE 0
        /\ prevBad' = IF Presented THEN bad ELSE prevBad
        /\ cause' = (cause \/ /\ Presented
                              /\ SumOk(sample, lim, ctrl)
                              /\ bad \/ prevBad)
        /\ ownCause' = (ownCause \/ /\ Presented
                                    /\ SumOk(sample, lim, ctrl)
                                    /\ bad)
        /\ upset' = (upset \/ ctrl.rst \/ lim' # lim)

MonSpec == MonInit /\ [][Next /\ Monitor]_allVars

-----------------------------------------------------------------------------
\* A sample outside the limits with enough sum trips the latched interlock
\* output within 2*AdderLatency+5 edges if the interlock stays enabled,
\* whatever samples follow it: the gate of a later sample with a small sum
\* never overtakes the verdict of an earlier one (orbit_intlk.vhd).
TripWithinDeadline == due <= 2 * AdderLatency + 4

\* With the minimum sum gate on, a trip is always justified: some sample was
\* outside the limits, and it or the sample after it had enough sum.  (After
\* a reset or a change of the limits the verdicts in flight are no sample's.)
TripHasCause == intlk_ltc /\ ~upset => cause

\* What TEST #5 of xwb_orbit_intlk_tb.vhd states ("X/Y outside limits, but sum
\* too small": no interlock): a sample trips only with enough sum of its own.
\* orbit_intlk.vhd breaks it: the gate of the next sample opens before that
\* sample's verdict replaces the one of the sample with the small sum.
SmallSumNeverTrips == intlk_ltc => ownCause

\* Until a reset the latched flag covers the level flag at every level of
\* the design: the status register never shows an interlock that is active
\* and not latched (p_latch of both detectors, p_out).
LatchCoversLevel == ~upset =>
    /\ intlk => intlk_ltc
    /\ intlk_trans_bigger => intlk_trans_bigger_ltc
    /\ intlk_trans_smaller => intlk_trans_smaller_ltc
    /\ intlk_ang_bigger => intlk_ang_bigger_ltc
    /\ intlk_ang_smaller => intlk_ang_smaller_ltc
=============================================================================
