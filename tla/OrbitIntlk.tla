----------------------------- MODULE OrbitIntlk -----------------------------
(***************************************************************************)
(* orbit_intlk.vhd: the orbit interlock of a BPM pair, composed of the     *)
(* translation and the angular interlock, the minimum sum gate that        *)
(* enables them and the interlock output with its latch.                   *)
(*                                                                         *)
(* One step is one rising edge of ref_clk_i.  The entity's inputs are      *)
(* variables too: ctrl and lim are the register bank's outputs, sample is  *)
(* what the clock domain crossing FIFOs present in this cycle.  At every   *)
(* edge the environment may change each of them; the only promise it makes *)
(* is that two samples are at least MinGap cycles apart, MinGap being      *)
(* larger than the adder's latency (the positions of dbe_bpm_gen.vhd are   *)
(* the monit1 ones, decimated by thousands).                               *)
(***************************************************************************)
EXTENDS OrbitIntlkTrans, OrbitIntlkAng

CONSTANTS
    MinGap,     \* the least distance of two samples, in ref_clk cycles
    Ctrls,      \* the control words the environment may apply
    Limits,     \* the limits the environment may apply
    Samples     \* the samples the environment may present

CtrlWords ==
    [rst : BOOLEAN, en : BOOLEAN, clr : BOOLEAN, min_sum_en : BOOLEAN,
     trans_en : BOOLEAN, trans_clr : BOOLEAN,
     ang_en : BOOLEAN, ang_clr : BOOLEAN]

LimitSets ==
    [min_sum : Words,
     trans_max : [Chans -> Words], trans_min : [Chans -> Words],
     ang_max : [Chans -> Words], ang_min : [Chans -> Words]]

SampleSet == [pos : [BPMs -> [Chans -> Words]], sum : [BPMs -> Words]]

ASSUME GapAssumption    == MinGap \in Nat /\ MinGap > AdderLatency
ASSUME CtrlsAssumption  == Ctrls \subseteq CtrlWords
ASSUME LimitsAssumption == Limits \subseteq LimitSets
ASSUME SampleAssumption == Samples \subseteq SampleSet /\ Samples # {}

VARIABLES
    ctrl, lim,                         \* from the register bank
    sample, valid, since,              \* from the CDC: the data, the valid
                                       \* flags, cycles since the last one
    sum_adder,                         \* cmp_trans_thold_bigger, per BPM
    intlk_sum_bigger_reg, intlk_sum_bigger_any,
    intlk_trans_master_en, intlk_ang_master_en,
    intlk_ltc, intlk

envVars  == <<ctrl, lim, sample, valid, since>>
gateVars == <<sum_adder, intlk_sum_bigger_reg, intlk_sum_bigger_any,
              intlk_trans_master_en, intlk_ang_master_en>>
outVars  == <<intlk_ltc, intlk>>
vars     == <<envVars, gateVars, outVars, transVars, angVars>>

TypeOK ==
    /\ ctrl \in Ctrls
    /\ lim \in Limits
    /\ sample \in Samples
    /\ valid \in [BPMs -> BOOLEAN]
    /\ since \in 0 .. MinGap
    /\ sum_adder \in [BPMs -> Pipes]
    /\ intlk_sum_bigger_reg \in [BPMs -> BOOLEAN]
    /\ intlk_sum_bigger_any \in BOOLEAN
    /\ intlk_trans_master_en \in BOOLEAN
    /\ intlk_ang_master_en \in BOOLEAN
    /\ intlk_ltc \in BOOLEAN
    /\ intlk \in BOOLEAN
    /\ TransTypeOK
    /\ AngTypeOK

Init ==
    /\ ctrl \in Ctrls
    /\ lim \in Limits
    /\ sample \in Samples
    /\ valid = [b \in BPMs |-> FALSE]
    /\ since = MinGap
    /\ sum_adder = [b \in BPMs |-> EmptyPipe]
    /\ intlk_sum_bigger_reg = [b \in BPMs |-> FALSE]
    /\ intlk_sum_bigger_any = FALSE
    /\ intlk_trans_master_en = FALSE
    /\ intlk_ang_master_en = FALSE
    /\ intlk_ltc = FALSE
    /\ intlk = FALSE
    /\ TransInit
    /\ AngInit

-----------------------------------------------------------------------------
\* cmp_trans_thold_bigger and p_sum_thold_bigger_reg, for both BPMs: the
\* carry of sum - min_sum, that is sum >= min_sum as unsigned numbers.
SumThold ==
    /\ sum_adder' = [b \in BPMs |->
           Shift(sum_adder[b],
                 Feed(valid[b], sample.sum[b], Not(lim.min_sum), 1))]
    /\ intlk_sum_bigger_reg' = [b \in BPMs |->
           IF ctrl.rst THEN FALSE
           ELSE IF Out(sum_adder[b]).valid THEN AddC2(Out(sum_adder[b]))
           ELSE intlk_sum_bigger_reg[b]]

\* Mutant: the gate is always open.
SumGateOpen == TRUE

intlk_sum_bigger_en == ctrl.min_sum_en => intlk_sum_bigger_any

\* Mutant: the gate asks both BPMs for enough sum.
RegEnableBoth ==
    /\ intlk_sum_bigger_any' =
           (~ctrl.rst /\ \A b \in BPMs : intlk_sum_bigger_reg[b])
    /\ intlk_trans_master_en' =
           (~ctrl.rst /\ ctrl.trans_en /\ intlk_sum_bigger_en)
    /\ intlk_ang_master_en' =
           (~ctrl.rst /\ ctrl.ang_en /\ intlk_sum_bigger_en)

\* p_reg_enable
RegEnable ==
    /\ intlk_sum_bigger_any' =
           (~ctrl.rst /\ \E b \in BPMs : intlk_sum_bigger_reg[b])
    /\ intlk_trans_master_en' =
           (~ctrl.rst /\ ctrl.trans_en /\ intlk_sum_bigger_en)
    /\ intlk_ang_master_en' =
           (~ctrl.rst /\ ctrl.ang_en /\ intlk_sum_bigger_en)

\* The merged interlocks of the two detectors.
intlk_trans     == intlk_trans_bigger \/ intlk_trans_smaller
intlk_trans_ltc == intlk_trans_bigger_ltc \/ intlk_trans_smaller_ltc
intlk_ang       == intlk_ang_bigger \/ intlk_ang_smaller
intlk_ang_ltc   == intlk_ang_bigger_ltc \/ intlk_ang_smaller_ltc
intlk_all       == (intlk_trans \/ intlk_ang) /\ ctrl.en

\* Mutant: the clear reaches the latch and not the level.
IntlkOutLevelNotCleared ==
    /\ intlk_ltc' = (~ctrl.rst /\ ~ctrl.clr /\ (intlk_ltc \/ intlk_all))
    /\ intlk' = (~ctrl.rst /\ ctrl.en /\ intlk_all)

\* p_out
IntlkOut ==
    /\ intlk_ltc' = (~ctrl.rst /\ ~ctrl.clr /\ (intlk_ltc \/ intlk_all))
    /\ intlk' = (~ctrl.rst /\ ~ctrl.clr /\ ctrl.en /\ intlk_all)

-----------------------------------------------------------------------------
\* The crossing presents a sample of both BPMs, or none.
NewSample ==
    /\ since + 1 >= MinGap
    /\ sample' \in Samples
    /\ valid' = [b \in BPMs |-> TRUE]
    /\ since' = 0

NoSample ==
    /\ sample' = sample
    /\ valid' = [b \in BPMs |-> FALSE]
    /\ since' = IF since < MinGap THEN since + 1 ELSE since

\* The register bank's outputs in the next cycle.
RegisterBank ==
    /\ ctrl' \in Ctrls
    /\ lim' \in Limits

\* Everything orbit_intlk.vhd clocks at a rising edge of ref_clk_i.
Edge ==
    /\ SumThold
    /\ RegEnable
    /\ TransTick(ctrl.rst, valid, sample.pos, intlk_trans_master_en,
                 ctrl.trans_clr, lim.trans_max, lim.trans_min)
    /\ AngTick(ctrl.rst, valid, sample.pos, intlk_ang_master_en,
               ctrl.ang_clr, lim.ang_max, lim.ang_min)
    /\ IntlkOut

Next == Edge /\ RegisterBank /\ (NewSample \/ NoSample)

Spec == Init /\ [][Next]_vars

-----------------------------------------------------------------------------
\* The verdict registered for a sample is the comparison of that sample's own
\* value with the limit, although the sign bits and the limit are read
\* AdderLatency cycles after the operands entered the comparator
\* (orbit_intlk_trans.vhd, orbit_intlk_ang.vhd: trans_bigger, trans_smaller,
\* ang_bigger, ang_smaller), as long as the limit was not changed meanwhile.
VerdictExact == \A i \in Chans :
    /\ LET e == Out(trans_bigger_adder[i]) IN
       e.valid /\ e.b = Not(lim.trans_max[i])
         => (TransBigger(i, lim.trans_max) <=> e.a >= lim.trans_max[i])
    /\ LET e == Out(trans_smaller_adder[i]) IN
       e.valid /\ e.b = lim.trans_min[i]
         => (TransSmaller(i, lim.trans_min) <=> Not(e.a) <= lim.trans_min[i])
    /\ LET e == Out(ang_bigger_adder[i]) IN
       e.valid /\ e.b = Not(lim.ang_max[i])
         => (AngBigger(i, lim.ang_max) <=> e.a >= lim.ang_max[i])
    /\ LET e == Out(ang_smaller_adder[i]) IN
       e.valid /\ e.b = lim.ang_min[i]
         => (AngSmaller(i, lim.ang_min) <=> Not(e.a) <= lim.ang_min[i])
=============================================================================
