------------------------------ MODULE BpmSwap ------------------------------
(***************************************************************************)
(* bpm_swap.vhd with swap_freqgen.vhd, swmode_sel.vhd and                  *)
(* deswap_channels.vhd: the switching of a BPM.  The RF front end crosses  *)
(* the antennas of each pair at the rate of a divided clock, and the       *)
(* gateware uncrosses the digitised channels a set delay later.            *)
(*                                                                         *)
(* One step is one rising edge of clk_i.  The front end and the ADCs are   *)
(* outside the gateware: they are a delay of RfDelay cycles from the       *)
(* switching clock to the channels' inputs.  A sample is the antenna it    *)
(* came from.  en_i is left open by bpm_swap.vhd and is always '1'.        *)
(***************************************************************************)
EXTENDS Integers

CONSTANTS
    DivRange,     \* 2^g_swap_div_freq_vec_width
    Divs,         \* the divisors the environment may set
    DeswapDelay,  \* deswap_delay_i
    RfDelay       \* clock cycles from swap_o to the channels' inputs

\* The delay is set to what the front end takes; gc_shiftreg adds a cycle.
ASSUME SwapAssumption == /\ DivRange \in Nat \ {0}
                         /\ Divs \subseteq 0 .. (DivRange - 1)
                         /\ DeswapDelay \in Nat
                         /\ RfDelay = DeswapDelay + 1

VARIABLES
    cnst_swap_div_f_old, cnst_swap_div_f,      \* p_reg_swap_div
    count, clk_swap, synch_pending,            \* p_freq_swap
    swap, deswap, mode,     \* swmode_sel, and the mode they were set in
    shiftreg,               \* cmp_gc_shiftreg
    rf,                     \* the signal under way from switch to ADC
    ch_o, ch_tag_o, ch_valid_o,                \* deswap_channels
    rf_o                    \* the switch as the sample in ch_o passed it

freqVars == <<cnst_swap_div_f_old, cnst_swap_div_f, count, clk_swap,
              synch_pending>>
pathVars == <<swap, deswap, mode, shiftreg, rf, ch_o, ch_tag_o, ch_valid_o,
              rf_o>>
vars     == <<freqVars, pathVars>>

Modes == {"rffe_swap", "static_direct", "static_inverted", "swap_deswap"}
Chans == {"a", "b", "c", "d"}
Other == [c \in Chans |-> IF c = "a" THEN "b" ELSE IF c = "b" THEN "a"
                         ELSE IF c = "c" THEN "d" ELSE "c"]
Switch == [swap : BOOLEAN, mode : Modes]
Direct == [swap |-> FALSE, mode |-> "static_direct"]

TypeOK ==
    /\ cnst_swap_div_f_old \in 0 .. (DivRange - 1)
    /\ cnst_swap_div_f \in 0 .. (DivRange - 1)
    /\ count \in 0 .. (DivRange - 1)
    /\ clk_swap \in BOOLEAN
    /\ synch_pending \in BOOLEAN
    /\ swap \in BOOLEAN
    /\ deswap \in BOOLEAN
    /\ mode \in Modes
    /\ shiftreg \in [0 .. DeswapDelay -> BOOLEAN]
    /\ rf \in [1 .. RfDelay -> Switch]
    /\ ch_o \in [Chans -> Chans \cup {"zero"}]
    /\ ch_tag_o \in BOOLEAN
    /\ ch_valid_o \in BOOLEAN
    /\ rf_o \in Switch

Init ==
    /\ cnst_swap_div_f_old = 0
    /\ cnst_swap_div_f = 0
    /\ count = 0
    /\ clk_swap = TRUE
    /\ synch_pending = FALSE
    /\ swap = FALSE
    /\ deswap = FALSE
    /\ mode = "static_direct"
    /\ shiftreg = [k \in 0 .. DeswapDelay |-> FALSE]
    /\ rf = [k \in 1 .. RfDelay |-> Direct]
    /\ ch_o = [c \in Chans |-> "zero"]
    /\ ch_tag_o = FALSE
    /\ ch_valid_o = FALSE
    /\ rf_o = Direct

-----------------------------------------------------------------------------
\* Mutant: the terminal count is a signed number.
RegSwapDivSigned(rst, div) ==
    /\ cnst_swap_div_f_old' = IF rst THEN 0 ELSE div - 1
    /\ cnst_swap_div_f' = IF rst THEN 0 ELSE cnst_swap_div_f_old

\* Mutant: both registers take the divisor at once.
RegSwapDivAtOnce(rst, div) ==
    /\ cnst_swap_div_f_old' = IF rst THEN 0 ELSE (div - 1) % DivRange
    /\ cnst_swap_div_f' = IF rst THEN 0 ELSE (div - 1) % DivRange

\* p_reg_swap_div.  A divisor of zero gives -1, all ones in the register.
RegSwapDiv(rst, div) ==
    /\ cnst_swap_div_f_old' = IF rst THEN 0 ELSE (div - 1) % DivRange
    /\ cnst_swap_div_f' = IF rst THEN 0 ELSE cnst_swap_div_f_old

\* What p_freq_swap does to the counter and the clock, by its conditions.
NewDivider == cnst_swap_div_f # cnst_swap_div_f_old

\* Mutant: the counter wraps a cycle early.
WrappedEarly == count + 1 = cnst_swap_div_f

Wrapped == count = cnst_swap_div_f

\* Mutant: the counter restarts and the phase stays.
RestartCount == count' = 0 /\ UNCHANGED clk_swap

Restart  == count' = 0 /\ clk_swap' = TRUE
Toggle   == count' = 0 /\ clk_swap' = ~clk_swap
CountUp  == count' = (count + 1) % DivRange /\ UNCHANGED clk_swap
HoldSwap == UNCHANGED <<count, clk_swap>>

\* A trigger is remembered unless the clock is at the end of its high half.
Synch(trig) == trig /\ (~Wrapped \/ ~clk_swap)

FreqSwap(rst, trig, cnt_en) ==
    \/ rst /\ Restart /\ synch_pending' = FALSE
    \/ /\ ~rst /\ NewDivider
       /\ Restart
       /\ synch_pending' = (synch_pending \/ Synch(trig))
    \/ /\ ~rst /\ ~NewDivider /\ ~cnt_en
       /\ HoldSwap
       /\ synch_pending' = (synch_pending \/ Synch(trig))
    \/ /\ ~rst /\ ~NewDivider /\ cnt_en /\ synch_pending
       /\ Restart
       /\ synch_pending' = Synch(trig)
    \/ /\ ~rst /\ ~NewDivider /\ cnt_en /\ ~synch_pending
       /\ IF Wrapped THEN Toggle ELSE CountUp
       /\ synch_pending' = Synch(trig)

\* p_swap_mode
SwapMode(rst, m) ==
    /\ swap' = /\ ~rst
               /\ \/ m \in {"swap_deswap", "rffe_swap"} /\ clk_swap
                  \/ m = "static_inverted"
    /\ deswap' = (~rst /\ m = "swap_deswap" /\ clk_swap)
    /\ mode' = IF rst THEN "static_direct" ELSE m

\* The delay line of deswap, and its tap deswap_delay_i.
ShiftReg == shiftreg' = [k \in 0 .. DeswapDelay |->
                            IF k = 0 THEN deswap ELSE shiftreg[k - 1]]

\* Mutant: the tap is one short.
DeswapTapEarly == shiftreg[DeswapDelay - 1]

deswap_o == shiftreg[DeswapDelay]

\* From the switch of the front end, which rffe_swclk_o = not swap drives, to
\* the ADCs.
RfPath == rf' = [k \in 1 .. RfDelay |->
                    IF k = 1 THEN [swap |-> swap, mode |-> mode]
                    ELSE rf[k - 1]]
ch_i(c) == IF rf[RfDelay].swap THEN Other[c] ELSE c

\* deswap_proc of both instances
DeswapChannels(rst, ch_valid) ==
    /\ ch_valid_o' = (~rst /\ ch_valid)
    /\ ch_o' = IF rst THEN [c \in Chans |-> "zero"]
               ELSE IF ch_valid
               THEN [c \in Chans |-> ch_i(IF deswap_o THEN Other[c] ELSE c)]
               ELSE ch_o
    /\ ch_tag_o' = IF ~rst /\ ch_valid THEN deswap_o ELSE ch_tag_o
    /\ rf_o' = IF ~rst /\ ch_valid THEN rf[RfDelay] ELSE rf_o

Edge(rst, trig, cnt_en, div, m, ch_valid) ==
    /\ RegSwapDiv(rst, div)
    /\ FreqSwap(rst, trig, cnt_en)
    /\ SwapMode(rst, m)
    /\ ShiftReg
    /\ RfPath
    /\ DeswapChannels(rst, ch_valid)

Next == \E rst, trig, cnt_en, ch_valid \in BOOLEAN, div \in Divs, m \in Modes :
            Edge(rst, trig, cnt_en, div, m, ch_valid)

Spec == Init /\ [][Next]_vars

-----------------------------------------------------------------------------
\* The counter is never past its terminal count when it is compared with it
\* for equality, whatever divisor is set when: a counter that has passed it
\* would leave the antennas crossed for a whole turn of the counter
\* (swap_freqgen.vhd, p_freq_swap).
CountBounded == count <= cnst_swap_div_f \/ NewDivider

\* Every valid sample leaves uncrossed if the mode in force when it passed the
\* RF switch was one that uncrosses, and crossed only in the modes that ask
\* for it; the tag tells how the switch stood.  This survives changes of
\* mode, of divisor and of phase, and resets, at any cycle (bpm_swap.vhd).
DeswapExact == ch_valid_o =>
    /\ \A c \in Chans : ch_o[c] =
           IF rf_o.swap /\ rf_o.mode # "swap_deswap" THEN Other[c] ELSE c
    /\ rf_o.mode = "swap_deswap" => (ch_tag_o <=> rf_o.swap)
=============================================================================
