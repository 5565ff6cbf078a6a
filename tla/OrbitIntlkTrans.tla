-------------------------- MODULE OrbitIntlkTrans --------------------------
(***************************************************************************)
(* orbit_intlk_trans.vhd: the translation interlock of a BPM pair.  For    *)
(* each channel the two positions are added, halved and compared with the  *)
(* limits; the verdict on the last sample is kept in a register and feeds  *)
(* a level and a latched flag.                                             *)
(*                                                                         *)
(* Every process of the file is one conjunct of TransTick, a rising edge   *)
(* of fs_clk_i.  The entity's inputs are the parameters of the operators.  *)
(***************************************************************************)
EXTENDS OrbitIntlkPkg

VARIABLES
    trans_adder,                 \* cmp_trans_adder, per channel
    trans_sum_reg, trans_sum_valid_reg,
    trans, trans_valid,
    trans_bigger_adder, trans_smaller_adder,
    trans_bigger_reg, trans_smaller_reg,
    trans_intlk_bigger_ltc_all, trans_intlk_smaller_ltc_all,
    trans_intlk_bigger_all, trans_intlk_smaller_all

transVars == <<trans_adder, trans_sum_reg, trans_sum_valid_reg, trans,
               trans_valid, trans_bigger_adder, trans_smaller_adder,
               trans_bigger_reg, trans_smaller_reg,
               trans_intlk_bigger_ltc_all, trans_intlk_smaller_ltc_all,
               trans_intlk_bigger_all, trans_intlk_smaller_all>>

TransTypeOK ==
    /\ trans_adder \in [Chans -> Pipes]
    /\ trans_sum_reg \in [Chans -> Words]
    /\ trans_sum_valid_reg \in [Chans -> BOOLEAN]
    /\ trans \in [Chans -> Words]
    /\ trans_valid \in [Chans -> BOOLEAN]
    /\ trans_bigger_adder \in [Chans -> Pipes]
    /\ trans_smaller_adder \in [Chans -> Pipes]
    /\ trans_bigger_reg \in [Chans -> BOOLEAN]
    /\ trans_smaller_reg \in [Chans -> BOOLEAN]
    /\ trans_intlk_bigger_ltc_all \in [Chans -> BOOLEAN]
    /\ trans_intlk_smaller_ltc_all \in [Chans -> BOOLEAN]
    /\ trans_intlk_bigger_all \in [Chans -> BOOLEAN]
    /\ trans_intlk_smaller_all \in [Chans -> BOOLEAN]

\* The registers as the FPGA's configuration leaves them.
TransInit ==
    /\ trans_adder = [i \in Chans |-> EmptyPipe]
    /\ trans_sum_reg = [i \in Chans |-> 0]
    /\ trans_sum_valid_reg = [i \in Chans |-> FALSE]
    /\ trans = [i \in Chans |-> 0]
    /\ trans_valid = [i \in Chans |-> FALSE]
    /\ trans_bigger_adder = [i \in Chans |-> EmptyPipe]
    /\ trans_smaller_adder = [i \in Chans |-> EmptyPipe]
    /\ trans_bigger_reg = [i \in Chans |-> FALSE]
    /\ trans_smaller_reg = [i \in Chans |-> FALSE]
    /\ trans_intlk_bigger_ltc_all = [i \in Chans |-> FALSE]
    /\ trans_intlk_smaller_ltc_all = [i \in Chans |-> FALSE]
    /\ trans_intlk_bigger_all = [i \in Chans |-> FALSE]
    /\ trans_intlk_smaller_all = [i \in Chans |-> FALSE]

-----------------------------------------------------------------------------
\* cmp_trans_adder: x_us + x_ds, fed when both BPMs present a sample.  The
\* adder has no reset.
TransAdder(valid, pos) ==
    trans_adder' = [i \in Chans |->
        Shift(trans_adder[i],
              Feed(\A b \in BPMs : valid[b], pos["US"][i], pos["DS"][i], 0))]

\* p_trans_reg
TransReg(rst) ==
    /\ trans_sum_reg' = [i \in Chans |->
           IF ~rst /\ Out(trans_adder[i]).valid
           THEN AddX2(Out(trans_adder[i])) ELSE trans_sum_reg[i]]
    /\ trans_sum_valid_reg' = [i \in Chans |->
           ~rst /\ Out(trans_adder[i]).valid]

\* p_trans_divide
TransDivide(rst) ==
    /\ trans' = [i \in Chans |->
           IF ~rst /\ trans_sum_valid_reg[i]
           THEN ShiftRight1(trans_sum_reg[i]) ELSE trans[i]]
    /\ trans_valid' = [i \in Chans |-> ~rst /\ trans_sum_valid_reg[i]]

\* trans_bigger, the selected comparison result of channel i at this cycle.
TransBigger(i, max) ==
    BiggerComb(Out(trans_bigger_adder[i]), trans[i], max[i])

\* cmp_trans_thold_bigger and p_trans_thold_bigger_reg
TransTholdBigger(rst, max) ==
    /\ trans_bigger_adder' = [i \in Chans |->
           Shift(trans_bigger_adder[i],
                 Feed(trans_valid[i], trans[i], Not(max[i]), 1))]
    /\ trans_bigger_reg' = [i \in Chans |->
           IF rst THEN FALSE
           ELSE IF Out(trans_bigger_adder[i]).valid THEN TransBigger(i, max)
           ELSE trans_bigger_reg[i]]

\* trans_smaller, the selected comparison result of channel i at this cycle.
TransSmaller(i, min) ==
    SmallerComb(Out(trans_smaller_adder[i]), trans[i], min[i])

\* cmp_trans_thold_smaller and p_trans_thold_smaller_reg
TransTholdSmaller(rst, min) ==
    /\ trans_smaller_adder' = [i \in Chans |->
           Shift(trans_smaller_adder[i],
                 Feed(trans_valid[i], Not(trans[i]), min[i], 1))]
    /\ trans_smaller_reg' = [i \in Chans |->
           IF rst THEN FALSE
           ELSE IF Out(trans_smaller_adder[i]).valid THEN TransSmaller(i, min)
           ELSE trans_smaller_reg[i]]

\* p_latch.  The reset branch leaves the two level flags alone.
TransLatch(rst, en, clr) ==
    /\ trans_intlk_bigger_ltc_all' = [i \in Chans |->
           ~rst /\ ~clr /\ (trans_intlk_bigger_ltc_all[i]
                              \/ (trans_bigger_reg[i] /\ en))]
    /\ trans_intlk_smaller_ltc_all' = [i \in Chans |->
           ~rst /\ ~clr /\ (trans_intlk_smaller_ltc_all[i]
                              \/ (trans_smaller_reg[i] /\ en))]
    /\ trans_intlk_bigger_all' = [i \in Chans |->
           IF rst THEN trans_intlk_bigger_all[i]
           ELSE ~clr /\ en /\ trans_bigger_reg[i]]
    /\ trans_intlk_smaller_all' = [i \in Chans |->
           IF rst THEN trans_intlk_smaller_all[i]
           ELSE ~clr /\ en /\ trans_smaller_reg[i]]

\* A rising edge of fs_clk_i.
TransTick(rst, valid, pos, en, clr, max, min) ==
    /\ TransAdder(valid, pos)
    /\ TransReg(rst)
    /\ TransDivide(rst)
    /\ TransTholdBigger(rst, max)
    /\ TransTholdSmaller(rst, min)
    /\ TransLatch(rst, en, clr)

-----------------------------------------------------------------------------
\* The merged outputs: intlk_trans_bigger_o and intlk_trans_smaller_o, and
\* their latched forms, ORed over the channels.
intlk_trans_bigger      == \E i \in Chans : trans_intlk_bigger_all[i]
intlk_trans_bigger_ltc  == \E i \in Chans : trans_intlk_bigger_ltc_all[i]
intlk_trans_smaller     == \E i \in Chans : trans_intlk_smaller_all[i]
intlk_trans_smaller_ltc == \E i \in Chans : trans_intlk_smaller_ltc_all[i]
=============================================================================
