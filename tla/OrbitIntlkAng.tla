--------------------------- MODULE OrbitIntlkAng ---------------------------
(***************************************************************************)
(* orbit_intlk_ang.vhd: the angular interlock of a BPM pair.  As the       *)
(* translation interlock, on the difference of the two positions and       *)
(* without the dividing stage: ang is the sum register itself.             *)
(***************************************************************************)
EXTENDS OrbitIntlkPkg

VARIABLES
    ang_adder,                 \* cmp_ang_adder, per channel
    ang_sum_reg, ang_sum_valid_reg,
    ang_bigger_adder, ang_smaller_adder,
    ang_bigger_reg, ang_smaller_reg,
    ang_intlk_bigger_ltc_all, ang_intlk_smaller_ltc_all,
    ang_intlk_bigger_all, ang_intlk_smaller_all

angVars == <<ang_adder, ang_sum_reg, ang_sum_valid_reg,
             ang_bigger_adder, ang_smaller_adder,
             ang_bigger_reg, ang_smaller_reg,
             ang_intlk_bigger_ltc_all, ang_intlk_smaller_ltc_all,
             ang_intlk_bigger_all, ang_intlk_smaller_all>>

AngTypeOK ==
    /\ ang_adder \in [Chans -> Pipes]
    /\ ang_sum_reg \in [Chans -> Words]
    /\ ang_sum_valid_reg \in [Chans -> BOOLEAN]
    /\ ang_bigger_adder \in [Chans -> Pipes]
    /\ ang_smaller_adder \in [Chans -> Pipes]
    /\ ang_bigger_reg \in [Chans -> BOOLEAN]
    /\ ang_smaller_reg \in [Chans -> BOOLEAN]
    /\ ang_intlk_bigger_ltc_all \in [Chans -> BOOLEAN]
    /\ ang_intlk_smaller_ltc_all \in [Chans -> BOOLEAN]
    /\ ang_intlk_bigger_all \in [Chans -> BOOLEAN]
    /\ ang_intlk_smaller_all \in [Chans -> BOOLEAN]

\* The registers as the FPGA's configuration leaves them.
AngInit ==
    /\ ang_adder = [i \in Chans |-> EmptyPipe]
    /\ ang_sum_reg = [i \in Chans |-> 0]
    /\ ang_sum_valid_reg = [i \in Chans |-> FALSE]
    /\ ang_bigger_adder = [i \in Chans |-> EmptyPipe]
    /\ ang_smaller_adder = [i \in Chans |-> EmptyPipe]
    /\ ang_bigger_reg = [i \in Chans |-> FALSE]
    /\ ang_smaller_reg = [i \in Chans |-> FALSE]
    /\ ang_intlk_bigger_ltc_all = [i \in Chans |-> FALSE]
    /\ ang_intlk_smaller_ltc_all = [i \in Chans |-> FALSE]
    /\ ang_intlk_bigger_all = [i \in Chans |-> FALSE]
    /\ ang_intlk_smaller_all = [i \in Chans |-> FALSE]

-----------------------------------------------------------------------------
\* cmp_ang_adder: x_ds - x_us, fed when both BPMs present a sample.  The
\* adder has no reset.
AngAdder(valid, pos) ==
    ang_adder' = [i \in Chans |->
        Shift(ang_adder[i],
              Feed(\A b \in BPMs : valid[b],
                   pos["DS"][i], Not(pos["US"][i]), 1))]

\* p_ang_reg
AngReg(rst) ==
    /\ ang_sum_reg' = [i \in Chans |->
           IF ~rst /\ Out(ang_adder[i]).valid
           THEN AddX2(Out(ang_adder[i])) ELSE ang_sum_reg[i]]
    /\ ang_sum_valid_reg' = [i \in Chans |->
           ~rst /\ Out(ang_adder[i]).valid]

\* The angle compared is the sum register, unregistered.
ang       == ang_sum_reg
ang_valid == ang_sum_valid_reg

\* ang_bigger, the selected comparison result of channel i at this cycle.
AngBigger(i, max) ==
    BiggerComb(Out(ang_bigger_adder[i]), ang[i], max[i])

\* cmp_ang_thold_bigger and p_ang_thold_bigger_reg
AngTholdBigger(rst, max) ==
    /\ ang_bigger_adder' = [i \in Chans |->
           Shift(ang_bigger_adder[i],
                 Feed(ang_valid[i], ang[i], Not(max[i]), 1))]
    /\ ang_bigger_reg' = [i \in Chans |->
           IF rst THEN FALSE
           ELSE IF Out(ang_bigger_adder[i]).valid THEN AngBigger(i, max)
           ELSE ang_bigger_reg[i]]

\* ang_smaller, the selected comparison result of channel i at this cycle.
AngSmaller(i, min) ==
    SmallerComb(Out(ang_smaller_adder[i]), ang[i], min[i])

\* cmp_ang_thold_smaller and p_ang_thold_smaller_reg
AngTholdSmaller(rst, min) ==
    /\ ang_smaller_adder' = [i \in Chans |->
           Shift(ang_smaller_adder[i],
                 Feed(ang_valid[i], Not(ang[i]), min[i], 1))]
    /\ ang_smaller_reg' = [i \in Chans |->
           IF rst THEN FALSE
           ELSE IF Out(ang_smaller_adder[i]).valid THEN AngSmaller(i, min)
           ELSE ang_smaller_reg[i]]

\* p_latch.  The reset branch leaves the two level flags alone.
AngLatch(rst, en, clr) ==
    /\ ang_intlk_bigger_ltc_all' = [i \in Chans |->
           ~rst /\ ~clr /\ (ang_intlk_bigger_ltc_all[i]
                              \/ (ang_bigger_reg[i] /\ en))]
    /\ ang_intlk_smaller_ltc_all' = [i \in Chans |->
           ~rst /\ ~clr /\ (ang_intlk_smaller_ltc_all[i]
                              \/ (ang_smaller_reg[i] /\ en))]
    /\ ang_intlk_bigger_all' = [i \in Chans |->
           IF rst THEN ang_intlk_bigger_all[i]
           ELSE ~clr /\ en /\ ang_bigger_reg[i]]
    /\ ang_intlk_smaller_all' = [i \in Chans |->
           IF rst THEN ang_intlk_smaller_all[i]
           ELSE ~clr /\ en /\ ang_smaller_reg[i]]

\* A rising edge of fs_clk_i.
AngTick(rst, valid, pos, en, clr, max, min) ==
    /\ AngAdder(valid, pos)
    /\ AngReg(rst)
    /\ AngTholdBigger(rst, max)
    /\ AngTholdSmaller(rst, min)
    /\ AngLatch(rst, en, clr)

-----------------------------------------------------------------------------
\* The merged outputs: intlk_ang_bigger_o and intlk_ang_smaller_o, and
\* their latched forms, ORed over the channels.
intlk_ang_bigger      == \E i \in Chans : ang_intlk_bigger_all[i]
intlk_ang_bigger_ltc  == \E i \in Chans : ang_intlk_bigger_ltc_all[i]
intlk_ang_smaller     == \E i \in Chans : ang_intlk_smaller_all[i]
intlk_ang_smaller_ltc == \E i \in Chans : ang_intlk_smaller_ltc_all[i]
=============================================================================
