--------------------------- MODULE BpmSwapProofs ---------------------------
(***************************************************************************)
(* The switching, for every divider width, set of divisors and delay, and  *)
(* the switching clock under a periodic trigger, for every number of its   *)
(* periods between two triggers and whatever their phase at first.         *)
(***************************************************************************)
EXTENDS BpmSwapSync, TLAPS

\* A stage of the delay line carries what its sample will need: the switch
\* was crossed and the mode was one that uncrosses.
Uncross(e) == e.swap /\ e.mode = "swap_deswap"

\* The switch and the de-switching agree as they leave swmode_sel, and the
\* delay line keeps pace with the signal path, stage by stage.
PathAligned ==
    /\ deswap <=> swap /\ mode = "swap_deswap"
    /\ \A k \in 0 .. DeswapDelay : shiftreg[k] <=> Uncross(rf[k + 1])

Inv == TypeOK /\ CountBounded /\ PathAligned /\ DeswapExact

\* What a terminal count or a counter is reduced to stays within its register.
LEMMA ModRange ==
    ASSUME NEW n \in Int
    PROVE  n % DivRange \in 0 .. (DivRange - 1)
BY SwapAssumption

\* Initially nothing is under way and the counter is at zero.
LEMMA InitInv == Init => Inv
<1> SUFFICES ASSUME Init PROVE Inv
  OBVIOUS
<1>1. TypeOK
  <2>1. 0 \in 0 .. (DivRange - 1)
    BY SwapAssumption
  <2>2. Direct \in Switch /\ "static_direct" \in Modes
    BY DEF Direct, Switch, Modes
  <2>3. shiftreg \in [0 .. DeswapDelay -> BOOLEAN]
    BY DEF Init
  <2>4. rf \in [1 .. RfDelay -> Switch] /\ rf_o \in Switch
    BY <2>2 DEF Init
  <2>5. ch_o \in [Chans -> Chans \cup {"zero"}]
    BY DEF Init
  <2> QED
    BY <2>1, <2>2, <2>3, <2>4, <2>5 DEF Init, TypeOK
<1>2. CountBounded
  BY DEF Init, CountBounded
<1>3. PathAligned
  BY SwapAssumption DEF Init, PathAligned, Uncross, Direct
<1>4. DeswapExact
  BY DEF Init, DeswapExact
<1> QED
  BY <1>1, <1>2, <1>3, <1>4 DEF Inv

\* The divider's registers keep their range.
LEMMA DivType ==
    ASSUME TypeOK, NEW rst \in BOOLEAN, NEW div \in Divs, RegSwapDiv(rst, div)
    PROVE  /\ cnst_swap_div_f_old' \in 0 .. (DivRange - 1)
           /\ cnst_swap_div_f' \in 0 .. (DivRange - 1)
<1>1. (div - 1) % DivRange \in 0 .. (DivRange - 1)
  BY SwapAssumption, ModRange
<1>2. 0 \in 0 .. (DivRange - 1)
  BY SwapAssumption
<1> QED
  BY <1>1, <1>2 DEF RegSwapDiv, TypeOK

\* The counter and the clock keep their range, in each case of p_freq_swap.
LEMMA FreqType ==
    ASSUME TypeOK, NEW rst \in BOOLEAN, NEW trig \in BOOLEAN,
           NEW cnt_en \in BOOLEAN, FreqSwap(rst, trig, cnt_en)
    PROVE  /\ count' \in 0 .. (DivRange - 1)
           /\ clk_swap' \in BOOLEAN
           /\ synch_pending' \in BOOLEAN
<1>0. count + 1 \in Int
  <2>1. count \in 0 .. (DivRange - 1)
    BY DEF TypeOK
  <2> QED
    BY <2>1, SwapAssumption
<1>1. (count + 1) % DivRange \in 0 .. (DivRange - 1)
  BY <1>0, ModRange
<1>2. 0 \in 0 .. (DivRange - 1)
  BY SwapAssumption
<1>3. Synch(trig) \in BOOLEAN
  BY DEF Synch
<1>4. count' \in 0 .. (DivRange - 1)
  BY <1>1, <1>2
     DEF FreqSwap, Restart, Toggle, CountUp, HoldSwap, TypeOK
<1>5. clk_swap' \in BOOLEAN
  BY DEF FreqSwap, Restart, Toggle, CountUp, HoldSwap, TypeOK
<1>6. synch_pending' \in BOOLEAN
  BY <1>3 DEF FreqSwap, TypeOK
<1> QED
  BY <1>4, <1>5, <1>6

\* The path from swmode_sel to the outputs keeps its types.
LEMMA PathType ==
    ASSUME TypeOK, NEW rst \in BOOLEAN, NEW m \in Modes,
           NEW ch_valid \in BOOLEAN,
           SwapMode(rst, m), ShiftReg, RfPath, DeswapChannels(rst, ch_valid)
    PROVE  /\ swap' \in BOOLEAN /\ deswap' \in BOOLEAN /\ mode' \in Modes
           /\ shiftreg' \in [0 .. DeswapDelay -> BOOLEAN]
           /\ rf' \in [1 .. RfDelay -> Switch]
           /\ ch_o' \in [Chans -> Chans \cup {"zero"}]
           /\ ch_tag_o' \in BOOLEAN /\ ch_valid_o' \in BOOLEAN
           /\ rf_o' \in Switch
<1>1. swap' \in BOOLEAN /\ deswap' \in BOOLEAN /\ mode' \in Modes
  BY DEF SwapMode, Modes
<1>2. shiftreg' \in [0 .. DeswapDelay -> BOOLEAN]
  BY SwapAssumption DEF ShiftReg, TypeOK
<1>3. rf' \in [1 .. RfDelay -> Switch]
  BY SwapAssumption DEF RfPath, TypeOK, Switch
<1>4. rf[RfDelay] \in Switch /\ deswap_o \in BOOLEAN
  BY SwapAssumption DEF TypeOK, deswap_o
<1>5. \A c \in Chans : Other[c] \in Chans
  BY DEF Other, Chans
<1>6. \A c \in Chans : ch_i(c) \in Chans
  BY <1>5 DEF ch_i
<1>7. ch_o' \in [Chans -> Chans \cup {"zero"}]
  BY <1>5, <1>6 DEF DeswapChannels, TypeOK
<1>8. ch_tag_o' \in BOOLEAN /\ ch_valid_o' \in BOOLEAN /\ rf_o' \in Switch
  BY <1>4 DEF DeswapChannels, TypeOK
<1> QED
  BY <1>1, <1>2, <1>3, <1>7, <1>8

\* A divisor that takes effect finds the counter at zero: the cycle in which
\* the two registers differ restarts it.
LEMMA CountStep ==
    ASSUME Inv, NEW rst \in BOOLEAN, NEW trig \in BOOLEAN,
           NEW cnt_en \in BOOLEAN, NEW div \in Divs,
           RegSwapDiv(rst, div), FreqSwap(rst, trig, cnt_en)
    PROVE  CountBounded'
<1>1. cnst_swap_div_f' \in 0 .. (DivRange - 1)
  BY DivType DEF Inv
<1>2. CASE rst \/ NewDivider
  <2>1. count' = 0
    BY <1>2 DEF FreqSwap, Restart
  <2> QED
    BY <1>1, <2>1 DEF CountBounded
<1>3. CASE ~rst /\ ~NewDivider
  <2>1. cnst_swap_div_f' = cnst_swap_div_f
    BY <1>3 DEF RegSwapDiv, NewDivider
  <2>2. count <= cnst_swap_div_f
    BY <1>3 DEF Inv, CountBounded
  <2>3. CASE count' = 0
    BY <1>1, <2>3 DEF CountBounded
  <2>4. CASE count' = count
    BY <2>1, <2>2, <2>4 DEF CountBounded
  <2>5. CASE ~Wrapped /\ CountUp
    <3>0. /\ count \in 0 .. (DivRange - 1)
          /\ cnst_swap_div_f \in 0 .. (DivRange - 1)
      BY DEF Inv, TypeOK
    <3>1. count + 1 <= cnst_swap_div_f /\ count + 1 \in 0 .. (DivRange - 1)
      BY <2>2, <2>5, <3>0, SwapAssumption DEF Wrapped
    <3>2. (count + 1) % DivRange = count + 1
      BY <3>1, SwapAssumption
    <3> QED
      BY <2>1, <2>5, <3>1, <3>2 DEF CountUp, CountBounded
  <2> QED
    BY <1>3, <2>3, <2>4, <2>5
       DEF FreqSwap, Restart, Toggle, HoldSwap
<1> QED
  BY <1>2, <1>3

\* The delay line and the signal path advance together.
LEMMA PathStep ==
    ASSUME Inv, NEW rst \in BOOLEAN, NEW m \in Modes,
           SwapMode(rst, m), ShiftReg, RfPath
    PROVE  PathAligned'
<1>1. (deswap <=> swap /\ mode = "swap_deswap")'
  BY DEF SwapMode, Modes, Inv, TypeOK
<1>2. ASSUME NEW k \in 0 .. DeswapDelay
      PROVE  (shiftreg[k] <=> Uncross(rf[k + 1]))'
  <2>1. k + 1 \in 1 .. RfDelay
    BY SwapAssumption
  <2>2. CASE k = 0
    <3>1. shiftreg'[k] = deswap /\ rf'[k + 1] = [swap |-> swap, mode |-> mode]
      BY <2>1, <2>2 DEF ShiftReg, RfPath
    <3> QED
      BY <3>1 DEF Uncross, Inv, PathAligned, TypeOK
  <2>3. CASE k # 0
    <3>1. k - 1 \in 0 .. DeswapDelay /\ (k - 1) + 1 = k /\ (k + 1) - 1 = k
      BY <2>3, SwapAssumption
    <3>2. shiftreg'[k] = shiftreg[k - 1] /\ rf'[k + 1] = rf[k]
      BY <2>1, <2>3, <3>1, SwapAssumption DEF ShiftReg, RfPath
    <3>3. shiftreg[k - 1] <=> Uncross(rf[k])
      BY <3>1 DEF Inv, PathAligned
    <3> QED
      BY <3>2, <3>3 DEF Uncross
  <2> QED
    BY <2>2, <2>3
<1> QED
  BY <1>1, <1>2 DEF PathAligned

\* Crossing twice is crossing not at all.
LEMMA OtherTwice == \A c \in Chans : Other[c] \in Chans /\ Other[Other[c]] = c
BY DEF Other, Chans

\* The tap of the delay line belongs to the sample at the inputs.
LEMMA DeswapStep ==
    ASSUME Inv, NEW rst \in BOOLEAN, NEW ch_valid \in BOOLEAN,
           DeswapChannels(rst, ch_valid)
    PROVE  DeswapExact'
<1> SUFFICES ASSUME ch_valid_o' PROVE DeswapExact'
  BY DEF DeswapExact
<1> DEFINE e == rf[RfDelay]
<1>1. ~rst /\ ch_valid
  BY DEF DeswapChannels
<1>2. rf_o' = e /\ (ch_tag_o' <=> deswap_o)
  BY <1>1 DEF DeswapChannels
<1>3. deswap_o <=> Uncross(e)
  BY SwapAssumption DEF Inv, PathAligned, deswap_o
<1>4. e \in Switch
  BY SwapAssumption DEF Inv, TypeOK
<1>5. ASSUME NEW c \in Chans
      PROVE  ch_o'[c] = IF e.swap /\ e.mode # "swap_deswap"
                        THEN Other[c] ELSE c
  <2>1. ch_o'[c] = ch_i(IF deswap_o THEN Other[c] ELSE c)
    BY <1>1 DEF DeswapChannels
  <2> QED
    BY <2>1, <1>3, <1>4, OtherTwice DEF ch_i, Uncross, Switch
<1> QED
  BY <1>2, <1>3, <1>4, <1>5 DEF DeswapExact, Uncross, Switch

\* Every edge keeps the invariant, and so does standing still.
LEMMA NextInv == Inv /\ [Next]_vars => Inv'
<1> SUFFICES ASSUME Inv, [Next]_vars PROVE Inv'
  OBVIOUS
<1>1. CASE Next
  <2>1. PICK rst \in BOOLEAN, trig \in BOOLEAN, cnt_en \in BOOLEAN,
             ch_valid \in BOOLEAN, div \in Divs, m \in Modes :
             Edge(rst, trig, cnt_en, div, m, ch_valid)
    BY <1>1 DEF Next
  <2>2. /\ RegSwapDiv(rst, div) /\ FreqSwap(rst, trig, cnt_en)
        /\ SwapMode(rst, m) /\ ShiftReg /\ RfPath
        /\ DeswapChannels(rst, ch_valid)
    BY <2>1 DEF Edge
  <2>3. TypeOK'
    <3>1. TypeOK
      BY DEF Inv
    <3> QED
      BY <2>2, <3>1, DivType, FreqType, PathType DEF TypeOK
  <2>4. CountBounded' /\ PathAligned' /\ DeswapExact'
    BY <2>2, CountStep, PathStep, DeswapStep
  <2> QED
    BY <2>3, <2>4 DEF Inv
<1>2. CASE UNCHANGED vars
  BY <1>2 DEF vars, freqVars, pathVars, Inv, TypeOK, CountBounded, NewDivider,
              PathAligned, Uncross, DeswapExact
<1> QED
  BY <1>1, <1>2

\* The counter of the switching clock never runs past its terminal count,
\* whenever the divisor is changed (swap_freqgen.vhd).
THEOREM CounterBounded == Spec => []CountBounded
<1>1. Inv => CountBounded
  BY DEF Inv
<1> QED
  BY <1>1, InitInv, NextInv, PTL DEF Spec

\* Every valid sample leaves the switching as the mode of its own time wants
\* it, for every delay (bpm_swap.vhd).
THEOREM ChannelsUncrossed == Spec => []DeswapExact
<1>1. Inv => DeswapExact
  BY DEF Inv
<1> QED
  BY <1>1, InitInv, NextInv, PTL DEF Spec

\* The registers of the switching keep their widths; the terminal count of a
\* divisor of zero included (swap_freqgen.vhd, bpm_swap.vhd).
THEOREM SwapTypeCorrect == Spec => []TypeOK
<1>1. Inv => TypeOK
  BY DEF Inv
<1> QED
  BY <1>1, InitInv, NextInv, PTL DEF Spec

-----------------------------------------------------------------------------
\* Position x of a clock of m cycles is that of a trigger seen p cycles ago,
\* if it began its high half two cycles after the trigger.
Level(p, x, m) == \E q \in Int : p + m = x + 2 + q * m

\* A product is at least its factor, or not positive.
LEMMA Multiples ==
    ASSUME NEW k \in Int, NEW m \in Nat \ {0}
    PROVE  /\ k >= 1 => k * m >= m
           /\ k >= 2 => k * m >= 2 * m
           /\ k <= 0 => k * m <= 0
<1>1. k >= 1 => (k - 1) * m >= 0
  OBVIOUS
<1>2. k >= 2 => (k - 2) * m >= 0
  OBVIOUS
<1>3. k <= 0 => (0 - k) * m >= 0
  OBVIOUS
<1>4. (k - 1) * m = k * m - m /\ (k - 2) * m = k * m - 2 * m
      /\ (0 - k) * m = 0 - k * m
  OBVIOUS
<1> QED
  BY <1>1, <1>2, <1>3, <1>4

\* Clock and trigger advance together, and wrap without losing step.
LEMMA LevelNext ==
    ASSUME NEW p \in Int, NEW x \in Int, NEW m \in Nat \ {0}, Level(p, x, m)
    PROVE  /\ Level(p + 1, x + 1, m)
           /\ x = m => Level(p, 0, m)
           /\ \A n \in Int : p = m * n => Level(0, x, m)
<1>1. PICK q \in Int : p + m = x + 2 + q * m
  BY DEF Level
<1>2. Level(p + 1, x + 1, m)
  BY <1>1 DEF Level
<1>3. ASSUME x = m PROVE Level(p, 0, m)
  <2>1. (q + 1) * m = q * m + m
    OBVIOUS
  <2>2. p + m = 0 + 2 + (q + 1) * m
    BY <1>1, <1>3, <2>1
  <2> QED
    BY <2>2 DEF Level
<1>4. ASSUME NEW n \in Int, p = m * n PROVE Level(0, x, m)
  <2>1. (q - n) * m = q * m - m * n
    OBVIOUS
  <2>2. 0 + m = x + 2 + (q - n) * m
    BY <1>1, <1>4, <2>1
  <2> QED
    BY <2>2 DEF Level
<1> QED
  BY <1>2, <1>3, <1>4

\* Where the clock is one and two cycles after a trigger.
LEMMA LevelAt ==
    ASSUME NEW x \in Int, NEW m \in Nat \ {0}, 0 <= x, x < m
    PROVE  /\ Level(2, x, m) => x = 0
           /\ Level(1, x, m) => x = m - 1
<1>1. ASSUME Level(2, x, m) PROVE x = 0
  <2>1. PICK q \in Int : 2 + m = x + 2 + q * m
    BY <1>1 DEF Level
  <2>2. q >= 1 /\ ~(q >= 2)
    BY <2>1, Multiples
  <2>3. q = 1
    BY <2>2
  <2> QED
    BY <2>1, <2>3
<1>2. ASSUME Level(1, x, m) PROVE x = m - 1
  <2>1. PICK q \in Int : 1 + m = x + 2 + q * m
    BY <1>2 DEF Level
  <2>2. ~(q >= 1)
    BY <2>1, Multiples
  <2>3. (q + 1) * m = q * m + m
    OBVIOUS
  <2>4. q + 1 >= 1
    BY <2>1, <2>3, Multiples
  <2>5. q = 0
    BY <2>2, <2>4
  <2> QED
    BY <2>1, <2>5
<1> QED
  BY <1>1, <1>2

Last == (divisor - 1) % DivRange

\* Where the switching clock is in its period, which begins with the high half.
Pos == IF clk_swap THEN count ELSE count + HalfPeriod

\* The divisor has reached both registers...
Running == /\ cnst_swap_div_f_old = Last /\ cnst_swap_div_f = Last
           /\ count \in 0 .. Last

\* ... or the counter is in one of its first two cycles.
Starting ==
    /\ ~synced /\ ~synch_pending /\ ~settled
    /\ count = 0 /\ cnst_swap_div_f = 0
    /\ \/ cnst_swap_div_f_old = 0 /\ clk_swap
       \/ cnst_swap_div_f_old = Last /\ ~clk_swap

\* From the first trigger that is remembered on, the clock is level with the
\* triggers, but for the cycle in which that trigger is still pending.
InStep == synced =>
    /\ Running
    /\ \/ Level(phase, Pos, 2 * HalfPeriod)
       \/ phase = 1 /\ synch_pending /\ ~settled

SyncTypes ==
    /\ divisor \in Divs /\ phase \in 0 .. (Period - 1)
    /\ clk_swap \in BOOLEAN /\ synch_pending \in BOOLEAN
    /\ synced \in BOOLEAN /\ settled \in BOOLEAN

SyncInv ==
    /\ SyncTypes
    /\ Running \/ Starting
    /\ synch_pending => phase = 1
    /\ InStep
    /\ settled => synced /\ half = count + 1

\* The lengths of a half period and of the time between two triggers.
LEMMA Lengths ==
    ASSUME divisor \in Divs
    PROVE  /\ Last \in 0 .. (DivRange - 1) /\ Last \in Nat
           /\ HalfPeriod = Last + 1 /\ HalfPeriod \in Nat \ {0}
           /\ 2 * HalfPeriod \in Nat \ {0}
           /\ Period = (2 * HalfPeriod) * Turns
           /\ Period \in Nat /\ Period >= 2 * HalfPeriod
<1>1. divisor - 1 \in Int
  BY SwapAssumption
<1>2. Last \in 0 .. (DivRange - 1)
  BY <1>1, ModRange DEF Last
<1>3. Last \in Nat
  BY <1>2, SwapAssumption
<1>4. HalfPeriod = Last + 1
  BY DEF HalfPeriod, Last
<1>5. HalfPeriod \in Nat \ {0} /\ 2 * HalfPeriod \in Nat \ {0}
  BY <1>3, <1>4
<1>6. Period = (2 * HalfPeriod) * Turns
  BY DEF Period
<1>7. PICK m \in Nat \ {0} : m = 2 * HalfPeriod
  BY <1>5
<1>8. m * Turns \in Nat /\ m * Turns >= m
  <2>1. Turns \in Int /\ Turns >= 1 /\ m * Turns = Turns * m
    BY TurnsAssumption
  <2>2. Turns * m >= m
    BY <2>1, Multiples
  <2> QED
    BY <2>1, <2>2, TurnsAssumption
<1> QED
  BY <1>2, <1>3, <1>4, <1>5, <1>6, <1>7, <1>8

\* What p_freq_swap does when neither reset nor count enable interferes.
LEMMA FreqEffect ==
    ASSUME SyncNext
    PROVE  /\ cnst_swap_div_f_old' = Last
           /\ cnst_swap_div_f' = cnst_swap_div_f_old
           /\ NewDivider =>
                /\ count' = 0 /\ clk_swap' = TRUE
                /\ synch_pending' = (synch_pending \/ Synch(phase = 0))
           /\ ~NewDivider => synch_pending' = Synch(phase = 0)
           /\ ~NewDivider /\ synch_pending => count' = 0 /\ clk_swap' = TRUE
           /\ ~NewDivider /\ ~synch_pending /\ Wrapped =>
                count' = 0 /\ clk_swap' = ~clk_swap
           /\ ~NewDivider /\ ~synch_pending /\ ~Wrapped =>
                count' = (count + 1) % DivRange /\ clk_swap' = clk_swap
<1>1. RegSwapDiv(FALSE, divisor) /\ FreqSwap(FALSE, phase = 0, TRUE)
  BY DEF SyncNext, Edge
<1>2. cnst_swap_div_f_old' = Last /\ cnst_swap_div_f' = cnst_swap_div_f_old
  BY <1>1 DEF RegSwapDiv, Last
<1> QED
  BY <1>1, <1>2 DEF FreqSwap, Restart, Toggle, CountUp

\* The trigger's period goes on by a cycle.
LEMMA PhaseNext ==
    ASSUME SyncTypes, SyncNext
    PROVE  /\ divisor' = divisor /\ HalfPeriod' = HalfPeriod
           /\ Period' = Period /\ Last' = Last
           /\ phase' = IF phase + 1 = Period THEN 0 ELSE phase + 1
           /\ phase' \in 0 .. (Period - 1)
<1>1. divisor' = divisor /\ phase' = (phase + 1) % Period
  BY DEF SyncNext
<1>2. HalfPeriod' = HalfPeriod /\ Period' = Period /\ Last' = Last
  BY <1>1 DEF HalfPeriod, Period, Last
<1>3. PICK n \in Nat : n = Period /\ n >= 1
  BY Lengths DEF SyncTypes
<1>4. PICK p \in 0 .. (n - 1) : p = phase
  BY <1>3 DEF SyncTypes
<1>5. (p + 1) % n = IF p + 1 = n THEN 0 ELSE p + 1
  <2>1. CASE p + 1 = n
    BY <1>3, <2>1
  <2>2. CASE p + 1 # n
    <3>1. p + 1 \in 0 .. (n - 1)
      BY <1>3, <2>2
    <3> QED
      BY <1>3, <2>2, <3>1
  <2> QED
    BY <2>1, <2>2
<1>6. (IF p + 1 = n THEN 0 ELSE p + 1) \in 0 .. (n - 1)
  BY <1>3
<1> QED
  BY <1>1, <1>2, <1>3, <1>4, <1>5, <1>6

\* What a cycle does once the divisor has reached both registers.
LEMMA RunningNext ==
    ASSUME SyncTypes, Running, SyncNext
    PROVE  /\ Running'
           /\ synch_pending' = Synch(phase = 0)
           /\ synch_pending => count' = 0 /\ clk_swap' = TRUE
           /\ ~synch_pending /\ count = Last =>
                count' = 0 /\ clk_swap' = ~clk_swap
           /\ ~synch_pending /\ count # Last =>
                count' = count + 1 /\ clk_swap' = clk_swap
<1>1. ~NewDivider /\ (Wrapped <=> count = Last)
  BY DEF Running, NewDivider, Wrapped
<1>2. PICK l \in Nat : l = Last /\ l \in 0 .. (DivRange - 1)
  BY Lengths DEF SyncTypes
<1>3. PICK c \in 0 .. l : c = count
  BY <1>2 DEF Running
<1>4. c # l => (c + 1) % DivRange = c + 1 /\ c + 1 \in 0 .. l
  <2> SUFFICES ASSUME c # l
               PROVE  (c + 1) % DivRange = c + 1 /\ c + 1 \in 0 .. l
    OBVIOUS
  <2>1. c + 1 \in 0 .. l /\ c + 1 \in 0 .. (DivRange - 1)
    BY <1>2, SwapAssumption
  <2> QED
    BY <2>1, SwapAssumption
<1>5. /\ synch_pending' = Synch(phase = 0)
      /\ synch_pending => count' = 0 /\ clk_swap' = TRUE
      /\ ~synch_pending /\ count = Last => count' = 0 /\ clk_swap' = ~clk_swap
      /\ ~synch_pending /\ count # Last =>
           count' = (count + 1) % DivRange /\ clk_swap' = clk_swap
  BY <1>1, FreqEffect
<1>6. ~synch_pending /\ count # Last => count' = count + 1
  BY <1>2, <1>3, <1>4, <1>5
<1>7. count' \in 0 .. l
  <2>1. CASE synch_pending \/ count = Last
    BY <1>2, <1>5, <2>1
  <2>2. CASE ~synch_pending /\ count # Last
    BY <1>2, <1>3, <1>4, <1>6, <2>2
  <2> QED
    BY <2>1, <2>2
<1>8. cnst_swap_div_f_old' = Last /\ cnst_swap_div_f' = Last /\ Last' = Last
  BY FreqEffect, PhaseNext DEF Running
<1>9. Running'
  BY <1>2, <1>7, <1>8 DEF Running
<1> QED
  BY <1>5, <1>6, <1>9

\* Where the clock is in its period: a number below the period's length, the
\* last one at the end of the low half only.
LEMMA PosRange ==
    ASSUME SyncTypes, Running
    PROVE  /\ Pos \in Nat /\ Pos < 2 * HalfPeriod
           /\ Pos = 2 * HalfPeriod - 1 <=> count = Last /\ ~clk_swap
<1>1. PICK l \in Nat : l = Last /\ HalfPeriod = l + 1
  BY Lengths DEF SyncTypes
<1>2. PICK c \in 0 .. l : c = count
  BY <1>1 DEF Running
<1>3. CASE clk_swap
  BY <1>1, <1>2, <1>3 DEF Pos
<1>4. CASE ~clk_swap
  BY <1>1, <1>2, <1>4 DEF Pos
<1> QED
  BY <1>3, <1>4

\* A clock that is level with the triggers goes through its period: a pending
\* trigger finds it at the end of the period, where it would restart anyway.
LEMMA PosNext ==
    ASSUME SyncTypes, Running, SyncNext, synch_pending => phase = 1,
           Level(phase, Pos, 2 * HalfPeriod)
    PROVE  /\ synch_pending => Pos = 2 * HalfPeriod - 1
           /\ Pos' = IF Pos = 2 * HalfPeriod - 1 THEN 0 ELSE Pos + 1
<1>1. PICK l \in Nat : l = Last /\ HalfPeriod = l + 1
  BY Lengths DEF SyncTypes
<1>2. PICK c \in 0 .. l : c = count
  BY <1>1 DEF Running
<1>3. HalfPeriod' = HalfPeriod
  BY PhaseNext
<1>4. ASSUME synch_pending PROVE Pos = 2 * HalfPeriod - 1
  <2>1. PICK m \in Nat \ {0} : m = 2 * HalfPeriod
    BY <1>1
  <2>2. PICK x \in Int : x = Pos /\ 0 <= x /\ x < m
    BY <2>1, PosRange
  <2>3. Level(1, x, m)
    BY <1>4, <2>1, <2>2
  <2>4. x = m - 1
    BY <2>2, <2>3, LevelAt
  <2> QED
    BY <2>1, <2>2, <2>4
<1>5. CASE synch_pending
  <2>1. Pos' = 0
    BY <1>5, RunningNext DEF Pos
  <2> QED
    BY <1>4, <1>5, <2>1
<1>6. CASE ~synch_pending /\ count = Last
  <2>1. count' = 0 /\ clk_swap' = ~clk_swap
    BY <1>6, RunningNext
  <2>2. CASE clk_swap
    <3>1. Pos = l
      BY <1>1, <1>6, <2>2 DEF Pos
    <3>2. ~clk_swap'
      BY <2>1, <2>2
    <3>3. Pos' = 0 + (l + 1)
      BY <1>1, <1>3, <2>1, <3>2 DEF Pos
    <3> QED
      BY <1>1, <1>6, <3>1, <3>3
  <2>3. CASE ~clk_swap
    <3>1. Pos = 2 * HalfPeriod - 1
      BY <1>6, <2>3, PosRange
    <3>2. Pos' = 0
      BY <2>1, <2>3 DEF Pos
    <3> QED
      BY <1>6, <3>1, <3>2
  <2> QED
    BY <2>2, <2>3
<1>7. CASE ~synch_pending /\ count # Last
  <2>1. count' = count + 1 /\ clk_swap' = clk_swap
    BY <1>7, RunningNext
  <2>2. Pos # 2 * HalfPeriod - 1
    BY <1>7, PosRange
  <2>3. Pos' = Pos + 1
    <3>1. CASE clk_swap
      BY <2>1, <3>1 DEF Pos
    <3>2. CASE ~clk_swap
      <4>1. Pos = c + (l + 1) /\ Pos' = (c + 1) + (l + 1)
        BY <1>1, <1>2, <1>3, <2>1, <3>2 DEF Pos
      <4> QED
        BY <4>1
    <3> QED
      BY <3>1, <3>2
  <2> QED
    BY <1>7, <2>2, <2>3
<1> QED
  BY <1>4, <1>5, <1>6, <1>7

\* A clock that is level with the triggers stays so.
LEMMA LevelKept ==
    ASSUME SyncTypes, Running, SyncNext, synch_pending => phase = 1,
           Level(phase, Pos, 2 * HalfPeriod)
    PROVE  Level(phase', Pos', (2 * HalfPeriod)')
<1>1. PICK m \in Nat \ {0} : m = 2 * HalfPeriod /\ Period = m * Turns
  BY Lengths DEF SyncTypes
<1>2. PICK x \in Nat : x = Pos
  BY PosRange
<1>3. PICK p \in Int : p = phase
  BY Lengths DEF SyncTypes
<1>4. Level(p, x, m)
  BY <1>1, <1>2, <1>3
<1>5. PICK y \in Int : y = IF x = m - 1 THEN 0 ELSE x + 1
  BY <1>2
<1>6. Level(p + 1, x + 1, m)
  BY <1>4, LevelNext
<1>7. Level(p + 1, y, m)
  <2>1. CASE x = m - 1
    <3>1. x + 1 = m /\ x + 1 \in Int /\ p + 1 \in Int
      BY <2>1
    <3>2. Level(p + 1, 0, m)
      BY <1>6, <3>1, LevelNext
    <3> QED
      BY <1>5, <2>1, <3>2
  <2>2. CASE x # m - 1
    BY <1>5, <1>6, <2>2
  <2> QED
    BY <2>1, <2>2
<1>8. p + 1 = m * Turns => Level(0, y, m)
  <2>1. p + 1 \in Int /\ Turns \in Int
    BY TurnsAssumption
  <2> QED
    BY <1>7, <2>1, LevelNext
<1>9. phase' = (IF p + 1 = m * Turns THEN 0 ELSE p + 1)
  BY <1>1, <1>3, PhaseNext
<1>10. Pos' = y /\ (2 * HalfPeriod)' = m
  BY <1>1, <1>2, <1>5, PosNext, PhaseNext
<1> QED
  BY <1>7, <1>8, <1>9, <1>10

\* In its first two cycles the counter waits for the divisor.
LEMMA StartingNext ==
    ASSUME SyncTypes, Starting, ~Running, SyncNext
    PROVE  SyncInv'
<1>1. /\ cnst_swap_div_f_old' = Last /\ cnst_swap_div_f' = cnst_swap_div_f_old
      /\ Last' = Last /\ Wrapped /\ count = 0 /\ cnst_swap_div_f = 0
      /\ ~synced /\ ~settled /\ ~synch_pending
  BY FreqEffect, PhaseNext DEF Starting, Wrapped
<1>2. ~settled'
  BY <1>1 DEF SyncNext
<1>3. CASE cnst_swap_div_f_old = 0 /\ clk_swap
  <2>1. ~NewDivider /\ ~Synch(phase = 0)
    BY <1>1, <1>3 DEF NewDivider, Synch
  <2>2. /\ count' = 0 /\ clk_swap' = ~clk_swap
        /\ synch_pending' = Synch(phase = 0)
    BY <1>1, <2>1, FreqEffect
  <2>3. /\ ~clk_swap' /\ clk_swap' \in BOOLEAN
        /\ ~synch_pending' /\ synch_pending' \in BOOLEAN
    <3>1. ~clk_swap' /\ clk_swap' \in BOOLEAN
      BY <1>3, <2>2
    <3>2. Synch(phase = 0) \in BOOLEAN
      BY DEF Synch
    <3>3. ~synch_pending' /\ synch_pending' \in BOOLEAN
      BY <2>1, <2>2, <3>2
    <3> QED
      BY <3>1, <3>3
  <2>4. ~synced' /\ synced' \in BOOLEAN /\ settled' \in BOOLEAN
    BY <1>1, <2>1 DEF SyncNext
  <2>5. SyncTypes'
    BY <2>3, <2>4, PhaseNext DEF SyncTypes
  <2>6. Starting'
    BY <1>1, <1>2, <1>3, <2>2, <2>3, <2>4 DEF Starting
  <2> QED
    BY <1>2, <2>3, <2>4, <2>5, <2>6 DEF SyncInv, InStep
<1>4. CASE cnst_swap_div_f_old = Last /\ ~clk_swap
  <2>0. Last \in Nat
    BY Lengths DEF SyncTypes
  <2>1. NewDivider
    <3>1. ASSUME Last = 0 PROVE FALSE
      <4>1. count \in 0 .. Last
        BY <1>1, <3>1
      <4> QED
        BY <1>1, <1>4, <3>1, <4>1 DEF Running
    <3> QED
      BY <1>1, <1>4, <3>1 DEF NewDivider
  <2>2. Synch(phase = 0) = (phase = 0)
    BY <1>4 DEF Synch
  <2>3. /\ count' = 0 /\ clk_swap' = TRUE
        /\ synch_pending' = (synch_pending \/ Synch(phase = 0))
    BY <2>1, FreqEffect
  <2>4. synch_pending' = (phase = 0)
    BY <1>1, <2>2, <2>3
  <2>5. synced' = (phase = 0) /\ settled' \in BOOLEAN
    BY <1>1, <2>2 DEF SyncNext
  <2>6. SyncTypes'
    BY <2>3, <2>4, <2>5, PhaseNext DEF SyncTypes
  <2>7. Running'
    <3>1. count' \in 0 .. Last
      BY <2>0, <2>3
    <3> QED
      BY <1>1, <1>4, <3>1 DEF Running
  <2>8. phase = 0 => phase' = 1
    BY PhaseNext, Lengths DEF SyncTypes
  <2> QED
    BY <1>2, <2>4, <2>5, <2>6, <2>7, <2>8 DEF SyncInv, InStep
<1> QED
  BY <1>3, <1>4 DEF Starting

\* A clock that has settled has run for one cycle more than its counter says.
LEMMA HalfNext ==
    ASSUME SyncTypes, Running, SyncNext, synch_pending => phase = 1, InStep,
           settled => synced /\ half = count + 1
    PROVE  /\ settled' => half' = count' + 1
           /\ settled /\ clk_swap' # clk_swap => half = HalfPeriod
<1>1. PICK l \in Nat : l = Last /\ HalfPeriod = l + 1
  BY Lengths DEF SyncTypes
<1>2. PICK c \in 0 .. l : c = count
  BY <1>1 DEF Running
<1>3. PICK n \in Nat : n = Period /\ n >= 2 * (l + 1)
  BY <1>1, Lengths DEF SyncTypes
<1>4. half' = IF clk_swap' # clk_swap THEN 1
              ELSE IF half < Period THEN half + 1 ELSE half
  BY DEF SyncNext
<1>5. settled /\ synch_pending => count = Last /\ ~clk_swap
  BY PosNext, PosRange DEF InStep
<1>6. clk_swap' # clk_swap => count' = 0
  BY RunningNext
<1>7. settled' => settled \/ clk_swap' # clk_swap
  BY DEF SyncNext
<1>8. ASSUME settled, clk_swap' = clk_swap PROVE half' = count' + 1
  <2>1. ~synch_pending
    BY <1>5, <1>8, RunningNext
  <2>2. count # Last
    BY <1>8, <2>1, RunningNext DEF SyncTypes
  <2>3. count' = c + 1
    BY <1>2, <2>1, <2>2, RunningNext
  <2>4. half = c + 1 /\ half < n
    BY <1>2, <1>3, <1>8
  <2> QED
    BY <1>3, <1>4, <1>8, <2>3, <2>4
<1>9. ASSUME clk_swap' # clk_swap PROVE half' = count' + 1
  BY <1>4, <1>6, <1>9
<1>10. ASSUME settled, clk_swap' # clk_swap PROVE half = HalfPeriod
  <2>1. count = Last
    <3>1. CASE synch_pending
      BY <1>5, <1>10, <3>1
    <3>2. CASE ~synch_pending
      BY <1>10, <3>2, RunningNext
    <3> QED
      BY <3>1, <3>2
  <2> QED
    BY <1>1, <1>2, <1>10, <2>1
<1> QED
  BY <1>7, <1>8, <1>9, <1>10

\* Once a trigger has been remembered the clock is in step at every cycle.
LEMMA InStepNext ==
    ASSUME SyncTypes, Running, SyncNext, synch_pending => phase = 1, InStep,
           settled => synced
    PROVE  InStep'
<1>1. Running'
  BY RunningNext
<1>2. CASE synced /\ Level(phase, Pos, 2 * HalfPeriod)
  BY <1>1, <1>2, LevelKept DEF InStep
<1>3. CASE synced /\ phase = 1 /\ synch_pending /\ ~settled
  <2>1. Pos' = 0
    BY <1>3, RunningNext DEF Pos
  <2>2. PICK m \in Nat \ {0} : m = 2 * HalfPeriod /\ Period = m * Turns
    BY Lengths DEF SyncTypes
  <2>3. Level(2, 0, m)
    <3>1. 2 + m = 0 + 2 + 1 * m
      OBVIOUS
    <3> QED
      BY <3>1 DEF Level
  <2>4. 2 = m * Turns => Level(0, 0, m)
    <3>1. 2 \in Int /\ 0 \in Int /\ Turns \in Int
      BY TurnsAssumption
    <3>2. \A n \in Int : 2 = m * n => Level(0, 0, m)
      BY <2>3, <3>1, LevelNext
    <3> QED
      BY <3>1, <3>2
  <2>5. phase' = IF 2 = m * Turns THEN 0 ELSE 2
    BY <1>3, <2>2, PhaseNext
  <2>6. (2 * HalfPeriod)' = m
    BY <2>2, PhaseNext
  <2>7. Level(phase', Pos', (2 * HalfPeriod)')
    BY <2>1, <2>3, <2>4, <2>5, <2>6
  <2> QED
    BY <1>1, <2>7 DEF InStep
<1>4. CASE ~synced /\ synced'
  <2>1. Synch(phase = 0) /\ ~settled'
    BY <1>4 DEF SyncNext
  <2>2. synch_pending'
    BY <2>1, RunningNext
  <2>3. phase' = 1
    BY <2>1, PhaseNext, Lengths DEF SyncTypes, Synch
  <2> QED
    BY <1>1, <2>1, <2>2, <2>3 DEF InStep
<1>5. CASE ~synced'
  BY <1>5 DEF InStep
<1> QED
  BY <1>2, <1>3, <1>4, <1>5 DEF InStep

\* A cycle keeps the clock in step, and a settled clock's halves even.
LEMMA SyncStep ==
    ASSUME SyncInv, SyncNext
    PROVE  /\ SyncInv'
           /\ settled /\ clk_swap' # clk_swap => half = HalfPeriod
<1>1. CASE Running
  <2>1. /\ SyncTypes /\ InStep /\ (synch_pending => phase = 1)
        /\ (settled => synced /\ half = count + 1)
    BY DEF SyncInv
  <2>2. /\ clk_swap' \in BOOLEAN
        /\ synch_pending' = Synch(phase = 0) /\ synch_pending' \in BOOLEAN
    BY <1>1, <2>1, RunningNext DEF SyncTypes, Synch
  <2>3. synced' \in BOOLEAN /\ settled' \in BOOLEAN /\ (settled' => synced')
    BY <2>1 DEF SyncNext
  <2>4. SyncTypes'
    BY <2>1, <2>2, <2>3, PhaseNext DEF SyncTypes
  <2>5. synch_pending' => phase' = 1
    <3>1. phase = 0 => phase' = 1
      BY <2>1, PhaseNext, Lengths DEF SyncTypes
    <3>2. synch_pending' => phase = 0
      BY <2>2 DEF Synch
    <3> QED
      BY <3>1, <3>2
  <2>6. Running' /\ InStep'
    BY <1>1, <2>1, RunningNext, InStepNext
  <2>7. /\ settled' => half' = count' + 1
        /\ settled /\ clk_swap' # clk_swap => half = HalfPeriod
    BY <1>1, <2>1, HalfNext
  <2> QED
    BY <2>3, <2>4, <2>5, <2>6, <2>7 DEF SyncInv
<1>2. CASE ~Running
  <2>1. SyncTypes /\ Starting
    BY <1>2 DEF SyncInv
  <2> QED
    BY <1>2, <2>1, StartingNext DEF Starting
<1> QED
  BY <1>1, <1>2

\* At first the counter waits for the divisor.
LEMMA SyncStart == SyncInit => SyncInv
<1> SUFFICES ASSUME SyncInit PROVE SyncInv
  OBVIOUS
<1>1. SyncTypes /\ Starting
  BY DEF SyncInit, Init, SyncTypes, Starting
<1> QED
  BY <1>1 DEF SyncInv, Starting, InStep

\* Two cycles after a trigger a clock in step begins its high half.
LEMMA InStepInPhase == SyncInv => StaysInPhase
<1> SUFFICES ASSUME SyncInv, synced, phase = 2 PROVE count = 0 /\ clk_swap
  BY DEF StaysInPhase
<1>1. SyncTypes /\ Running /\ Level(2, Pos, 2 * HalfPeriod)
  BY DEF SyncInv, InStep
<1>2. PICK l \in Nat : l = Last /\ HalfPeriod = l + 1
  BY <1>1, Lengths DEF SyncTypes
<1>3. PICK m \in Nat \ {0} : m = 2 * HalfPeriod
  BY <1>2
<1>4. PICK x \in Int : x = Pos /\ 0 <= x /\ x < m
  BY <1>1, <1>3, PosRange
<1>5. Pos = 0
  BY <1>1, <1>3, <1>4, LevelAt
<1>6. PICK c \in 0 .. l : c = count
  BY <1>1, <1>2 DEF Running
<1> QED
  BY <1>2, <1>5, <1>6 DEF Pos

\* The clock is in step, and settled halves are even, from cycle to cycle.
LEMMA SyncInductive ==
    SyncInv /\ [SyncNext]_syncVars =>
        /\ SyncInv'
        /\ [settled /\ clk_swap' # clk_swap => half = HalfPeriod]_syncVars
<1> SUFFICES ASSUME SyncInv, [SyncNext]_syncVars
             PROVE  /\ SyncInv'
                    /\ [settled /\ clk_swap' # clk_swap =>
                            half = HalfPeriod]_syncVars
  OBVIOUS
<1>1. CASE SyncNext
  BY <1>1, SyncStep
<1>2. CASE UNCHANGED syncVars
  <2>1. SyncInv'
    BY <1>2 DEF SyncInv, SyncTypes, Running, Starting, InStep, Level, Pos,
                Last, HalfPeriod, Period, syncVars, vars, freqVars
  <2> QED
    BY <1>2, <2>1
<1> QED
  BY <1>1, <1>2

\* Once a trigger has been remembered, the switching clock begins its high
\* half two cycles after every trigger, for every divisor and every number of
\* periods between triggers (swap_freqgen.vhd, p_freq_swap).
THEOREM PhaseKept == SyncSpec => []StaysInPhase
<1>1. SyncSpec => []SyncInv
  BY SyncStart, SyncInductive, PTL DEF SyncSpec
<1> QED
  BY <1>1, InStepInPhase, PTL

\* After the first remembered trigger has been served no half period of the
\* switching clock is cut short or drawn out (swap_freqgen.vhd, p_freq_swap).
THEOREM HalvesEven == SyncSpec => EvenHalves
<1>1. SyncSpec => []SyncInv
  BY SyncStart, SyncInductive, PTL DEF SyncSpec
<1> QED
  BY <1>1, SyncInductive, PTL DEF SyncSpec, EvenHalves
=============================================================================
