---------------------------- MODULE BpmSwapSync ----------------------------
(***************************************************************************)
(* The switching clock under the trigger that synchronises it.  sync_trig  *)
(* is periodic (sync_trig_slow_i of wb_position_calc_core.vhd) and its     *)
(* period a whole number of periods of the switching clock, but its phase  *)
(* is arbitrary: the first trigger finds the switching clock anywhere.     *)
(***************************************************************************)
EXTENDS BpmSwap

CONSTANT Turns   \* periods of the switching clock between two triggers

ASSUME TurnsAssumption == Turns \in Nat \ {0}

VARIABLES
    divisor,  \* the divisor, set once
    phase,    \* cycles since the last trigger
    trig_q,   \* a trigger arrived at the last edge
    synced,   \* a trigger has been remembered by p_freq_swap
    half,     \* cycles since clk_swap changed
    settled   \* clk_swap has changed since the first trigger was served

syncVars == <<vars, divisor, phase, trig_q, synced, half, settled>>

HalfPeriod == ((divisor - 1) % DivRange) + 1
Period     == 2 * HalfPeriod * Turns

SyncInit ==
    /\ Init
    /\ divisor \in Divs
    /\ phase \in 0 .. (Period - 1)
    /\ trig_q = FALSE
    /\ synced = FALSE
    /\ half = 0
    /\ settled = FALSE

SyncNext ==
    /\ Edge(FALSE, phase = 0, TRUE, divisor, "swap_deswap", TRUE)
    /\ phase' = (phase + 1) % Period
    /\ trig_q' = (phase = 0)
    /\ synced' = (synced \/ Synch(phase = 0))
    /\ half' = IF clk_swap' # clk_swap THEN 1
               ELSE IF half < Period THEN half + 1 ELSE half
    /\ settled' = (settled \/ (synced /\ phase # 1 /\ clk_swap' # clk_swap))
    /\ UNCHANGED divisor

SyncSpec == SyncInit /\ [][SyncNext]_syncVars

\* SyncSpec with a clock that keeps running.
FairSyncSpec == SyncSpec /\ WF_syncVars(SyncNext)

-----------------------------------------------------------------------------
\* Once a trigger has been remembered, every later trigger finds the switching
\* clock in its own phase: two cycles after each the clock begins its high
\* half (swap_freqgen.vhd, p_freq_swap).
StaysInPhase == synced /\ phase = 2 => count = 0 /\ clk_swap

\* Triggers in phase disturb nothing: after the first one has been served no
\* half period is cut short or drawn out, so each antenna spends as long in
\* either path.
EvenHalves ==
    [][settled /\ clk_swap' # clk_swap => half = HalfPeriod]_syncVars

\* What the comment of p_freq_swap says of a trigger ("Clear SW counter on
\* sync_trig"): two cycles after any trigger the clock begins its high half.
\* The code breaks it: a trigger that finds the clock at the end of its high
\* half is dropped, and so is every trigger after it.
TriggerClears ==
    [][trig_q /\ ~NewDivider => count' = 0 /\ clk_swap']_syncVars
=============================================================================
