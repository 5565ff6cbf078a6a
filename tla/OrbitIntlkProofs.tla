-------------------------- MODULE OrbitIntlkProofs --------------------------
(***************************************************************************)
(* The orbit interlock for every word width, adder latency, set of         *)
(* channels, limits, samples and control words: the types of its           *)
(* registers, the exactness of its comparators, its latches, that it trips *)
(* in time and that it never trips without a cause.                        *)
(*                                                                         *)
(* VerdictExact is not inductive.  The inductive invariant follows each    *)
(* sample through the stages of a detector: the samples in flight are more *)
(* than AdderLatency stages apart (Spaced), so the register the sign bit   *)
(* is taken from still holds the value whose subtraction is at the end of  *)
(* the comparator (Coherent).                                              *)
(*                                                                         *)
(* The promises about trips relate two pipelines of different length, the  *)
(* gate's and a detector's.  DuePlace says where the sample is that the    *)
(* deadline runs for, and that the gate still is its own; Apart says that  *)
(* no verdict outside the limits meets an open gate, as long as there was  *)
(* no cause.                                                               *)
(***************************************************************************)
EXTENDS OrbitIntlkProps, TLAPS

L == AdderLatency

\* A sample is k edges deep in channel i of the detector; k = 0 is the bus.
TransAt(i, k) ==
    CASE k = 0          -> \A b \in BPMs : valid[b]
      [] k \in 1 .. L   -> trans_adder[i][k].valid
      [] k = L + 1      -> trans_sum_valid_reg[i]
      [] k = L + 2      -> trans_valid[i]
      [] OTHER          -> trans_bigger_adder[i][k - L - 2].valid

AngAt(i, k) ==
    CASE k = 0          -> \A b \in BPMs : valid[b]
      [] k \in 1 .. L   -> ang_adder[i][k].valid
      [] k = L + 1      -> ang_sum_valid_reg[i]
      [] OTHER          -> ang_bigger_adder[i][k - L - 1].valid

TransSpaced == \A i \in Chans : \A k, m \in 0 .. (2 * L + 2) :
    /\ TransAt(i, k) => since <= k
    /\ k < m /\ TransAt(i, k) /\ TransAt(i, m) => m - k > L

AngSpaced == \A i \in Chans : \A k, m \in 0 .. (2 * L + 1) :
    /\ AngAt(i, k) => since <= k
    /\ k < m /\ AngAt(i, k) /\ AngAt(i, m) => m - k > L

TransCoherent == \A i \in Chans : \A j \in Stages :
    /\ trans_smaller_adder[i][j].valid = trans_bigger_adder[i][j].valid
    /\ trans_bigger_adder[i][j].valid =>
         /\ trans_bigger_adder[i][j].a = trans[i]
         /\ trans_bigger_adder[i][j].c = 1
         /\ trans_smaller_adder[i][j].a = Not(trans[i])
         /\ trans_smaller_adder[i][j].c = 1

AngCoherent == \A i \in Chans : \A j \in Stages :
    /\ ang_smaller_adder[i][j].valid = ang_bigger_adder[i][j].valid
    /\ ang_bigger_adder[i][j].valid =>
         /\ ang_bigger_adder[i][j].a = ang_sum_reg[i]
         /\ ang_bigger_adder[i][j].c = 1
         /\ ang_smaller_adder[i][j].a = Not(ang_sum_reg[i])
         /\ ang_smaller_adder[i][j].c = 1

IInv == TypeOK /\ TransSpaced /\ AngSpaced /\ TransCoherent /\ AngCoherent

-----------------------------------------------------------------------------
\* The word operators stay within the words (orbit_intlk_trans.vhd: trans_n,
\* intlk_trans_max_n, trans_sum, trans).
LEMMA WordClosure ==
    /\ 0 \in Words
    /\ \A w \in Words : Not(w) \in Words /\ ShiftRight1(w) \in Words
    /\ \A e \in Operands : AddX2(e) \in Words /\ AddC2(e) \in BOOLEAN
<1>1. 0 \in Words
  BY HalfAssumption DEF Words
<1>2. \A w \in Words : Not(w) \in Words
  BY HalfAssumption DEF Words, Not
<1>3. ASSUME NEW w \in Words PROVE ShiftRight1(w) \in Words
  <2>1. w \in Int /\ -Half <= w /\ w <= Half - 1
    BY HalfAssumption DEF Words
  <2>2. w \div 2 \in Int /\ 2 * (w \div 2) <= w /\ w <= 2 * (w \div 2) + 1
    BY <2>1
  <2> QED BY <2>1, <2>2, HalfAssumption DEF Words, ShiftRight1
<1>4. ASSUME NEW e \in Operands PROVE AddX2(e) \in Words /\ AddC2(e) \in BOOLEAN
  <2>1. /\ e.a \in Int /\ -Half <= e.a /\ e.a <= Half - 1
        /\ e.b \in Int /\ -Half <= e.b /\ e.b <= Half - 1
        /\ e.c \in {0, 1}
    BY HalfAssumption DEF Operands, Words
  <2> QED BY <2>1, HalfAssumption DEF AddX2, AddC2, Words, Unsigned
<1> QED BY <1>1, <1>2, <1>3, <1>4

\* The carry of the subtraction, corrected by the sign bits, is the signed
\* comparison: the identity the comments of cmp_trans_thold_bigger and
\* cmp_trans_thold_smaller rely on.
LEMMA ComparatorExact ==
    ASSUME NEW v \in Words, NEW l \in Words, NEW e \in Operands, e.c = 1
    PROVE  /\ e.a = v /\ e.b = Not(l) => (BiggerComb(e, v, l) <=> v >= l)
           /\ e.a = Not(v) /\ e.b = l => (SmallerComb(e, v, l) <=> v <= l)
<1>1. /\ v \in Int /\ -Half <= v /\ v <= Half - 1
      /\ l \in Int /\ -Half <= l /\ l <= Half - 1
  BY HalfAssumption DEF Words
<1> QED
  BY <1>1, HalfAssumption
  DEF BiggerComb, SmallerComb, HighBit, AddC2, Unsigned, Not

\* A delay line stays one, and its new contents are the old ones a stage on.
LEMMA PipeStep ==
    ASSUME NEW p \in Pipes, NEW x \in Operands
    PROVE  /\ Shift(p, x) \in Pipes
           /\ Shift(p, x)[1] = x
           /\ \A k \in Stages : k > 1 => /\ k - 1 \in Stages
                                         /\ Shift(p, x)[k] = p[k - 1]
           /\ Out(p) \in Operands
           /\ AdderLatency \in Stages /\ 1 \in Stages
BY LatencyAssumption DEF Pipes, Shift, Stages, Out

\* What the end of a delay line presents (x2_o, c2_o, c2x2_valid_o).
LEMMA OutType == \A p \in Pipes : Out(p) \in Operands
BY LatencyAssumption DEF Pipes, Stages, Out

\* The comparison logic yields a bit.
LEMMA CombType ==
    ASSUME NEW e \in Operands, NEW v \in Words, NEW l \in Words
    PROVE  BiggerComb(e, v, l) \in BOOLEAN /\ SmallerComb(e, v, l) \in BOOLEAN
<1>1. AddC2(e) \in BOOLEAN
  BY WordClosure
<1>2. HighBit(v) \in BOOLEAN /\ HighBit(l) \in BOOLEAN
  BY HalfAssumption DEF HighBit, Words
<1> QED BY <1>1, <1>2 DEF BiggerComb, SmallerComb

\* What enters a delay line (valid_i, a_i, b_i, c_i of gc_big_adder2).
LEMMA FeedType ==
    ASSUME NEW v \in BOOLEAN, NEW a \in Words, NEW b \in Words,
           NEW c \in {0, 1}
    PROVE  /\ Feed(v, a, b, c) \in Operands
           /\ Feed(v, a, b, c).valid = v
           /\ v => /\ Feed(v, a, b, c).a = a
                   /\ Feed(v, a, b, c).b = b
                   /\ Feed(v, a, b, c).c = c
BY WordClosure DEF Feed, Idle, Operands

\* An adder nothing was fed to yet presents nothing.
LEMMA EmptyPipeType == EmptyPipe \in Pipes
                       /\ \A k \in Stages : ~EmptyPipe[k].valid
BY WordClosure DEF EmptyPipe, Pipes, Idle, Operands

-----------------------------------------------------------------------------
\* The entity's inputs have the widths of its ports (orbit_intlk.vhd).
LEMMA InputTypes ==
    ASSUME TypeOK
    PROVE  /\ ctrl \in CtrlWords
           /\ lim.min_sum \in Words
           /\ lim.trans_max \in [Chans -> Words]
           /\ lim.trans_min \in [Chans -> Words]
           /\ lim.ang_max \in [Chans -> Words]
           /\ lim.ang_min \in [Chans -> Words]
           /\ \A b \in BPMs : /\ sample.sum[b] \in Words
                              /\ \A i \in Chans : sample.pos[b][i] \in Words
<1>1. ctrl \in CtrlWords /\ lim \in LimitSets /\ sample \in SampleSet
  BY CtrlsAssumption, LimitsAssumption, SampleAssumption DEF TypeOK
<1> QED BY <1>1 DEF LimitSets, SampleSet

\* The initial state is well typed.
LEMMA InitType == Init => TypeOK
<1> SUFFICES ASSUME Init PROVE TypeOK OBVIOUS
<1>1. TransTypeOK
  BY EmptyPipeType, WordClosure DEF Init, TransInit, TransTypeOK
<1>2. AngTypeOK
  BY EmptyPipeType, WordClosure DEF Init, AngInit, AngTypeOK
<1>3. since \in 0 .. MinGap
  BY GapAssumption, LatencyAssumption DEF Init
<1> QED BY <1>1, <1>2, <1>3, EmptyPipeType DEF Init, TypeOK

\* A clock edge keeps the translation detector's registers well typed
\* (orbit_intlk_trans.vhd).
LEMMA TransTypeStep ==
    ASSUME TypeOK, Edge
    PROVE  TransTypeOK'
<1> DEFINE rst == ctrl.rst
           en  == intlk_trans_master_en
           clr == ctrl.trans_clr
<1> USE InputTypes
<1>0. /\ TransTypeOK /\ ctrl \in CtrlWords /\ rst \in BOOLEAN
      /\ en \in BOOLEAN /\ clr \in BOOLEAN
  BY DEF TypeOK, CtrlWords
<1>1. TransTick(rst, valid, sample.pos, en, clr, lim.trans_max, lim.trans_min)
  BY DEF Edge
<1>2. trans_adder' \in [Chans -> Pipes]
  <2>1. TransAdder(valid, sample.pos)
    BY <1>1 DEF TransTick
  <2>2. ASSUME NEW i \in Chans
        PROVE  Shift(trans_adder[i],
                     Feed(\A b \in BPMs : valid[b], sample.pos["US"][i],
                          sample.pos["DS"][i], 0)) \in Pipes
    <3>1. sample.pos["US"][i] \in Words /\ sample.pos["DS"][i] \in Words
      BY DEF BPMs
    <3>2. trans_adder[i] \in Pipes
      BY <1>0 DEF TransTypeOK
    <3>3. Feed(\A b \in BPMs : valid[b], sample.pos["US"][i],
               sample.pos["DS"][i], 0) \in Operands
      BY <3>1, WordClosure DEF Feed, Idle, Operands
    <3> QED BY <3>2, <3>3, PipeStep
  <2> QED BY <2>1, <2>2 DEF TransAdder
<1>3. /\ trans_sum_reg' \in [Chans -> Words]
      /\ trans_sum_valid_reg' \in [Chans -> BOOLEAN]
  <2>1. TransReg(rst)
    BY <1>1 DEF TransTick
  <2>2. \A i \in Chans : Out(trans_adder[i]) \in Operands
    BY <1>0, OutType DEF TransTypeOK
  <2>3. \A i \in Chans : /\ AddX2(Out(trans_adder[i])) \in Words
                         /\ Out(trans_adder[i]).valid \in BOOLEAN
    BY <2>2, WordClosure DEF Operands
  <2> QED BY <1>0, <2>1, <2>3 DEF TransReg, TransTypeOK
<1>4. /\ trans' \in [Chans -> Words]
      /\ trans_valid' \in [Chans -> BOOLEAN]
  <2>1. TransDivide(rst)
    BY <1>1 DEF TransTick
  <2> QED BY <1>0, <2>1, WordClosure DEF TransDivide, TransTypeOK
<1>5. /\ trans_bigger_adder' \in [Chans -> Pipes]
      /\ trans_bigger_reg' \in [Chans -> BOOLEAN]
  <2>1. TransTholdBigger(rst, lim.trans_max)
    BY <1>1 DEF TransTick
  <2>2. ASSUME NEW i \in Chans
        PROVE  Shift(trans_bigger_adder[i],
                     Feed(trans_valid[i], trans[i], Not(lim.trans_max[i]), 1))
                 \in Pipes
    <3>1. trans_bigger_adder[i] \in Pipes /\ trans_valid[i] \in BOOLEAN
          /\ trans[i] \in Words /\ Not(lim.trans_max[i]) \in Words
      BY <1>0, WordClosure DEF TransTypeOK
    <3> QED BY <3>1, FeedType, PipeStep
  <2>3. ASSUME NEW i \in Chans
        PROVE  TransBigger(i, lim.trans_max) \in BOOLEAN
    <3>1. Out(trans_bigger_adder[i]) \in Operands /\ trans[i] \in Words
          /\ lim.trans_max[i] \in Words
      BY <1>0, OutType DEF TransTypeOK
    <3> QED BY <3>1, CombType DEF TransBigger
  <2> QED BY <1>0, <2>1, <2>2, <2>3 DEF TransTholdBigger, TransTypeOK
<1>6. /\ trans_smaller_adder' \in [Chans -> Pipes]
      /\ trans_smaller_reg' \in [Chans -> BOOLEAN]
  <2>1. TransTholdSmaller(rst, lim.trans_min)
    BY <1>1 DEF TransTick
  <2>2. ASSUME NEW i \in Chans
        PROVE  Shift(trans_smaller_adder[i],
                     Feed(trans_valid[i], Not(trans[i]), lim.trans_min[i], 1))
                 \in Pipes
    <3>1. trans_smaller_adder[i] \in Pipes /\ trans_valid[i] \in BOOLEAN
          /\ Not(trans[i]) \in Words /\ lim.trans_min[i] \in Words
      BY <1>0, WordClosure DEF TransTypeOK
    <3> QED BY <3>1, FeedType, PipeStep
  <2>3. ASSUME NEW i \in Chans
        PROVE  TransSmaller(i, lim.trans_min) \in BOOLEAN
    <3>1. Out(trans_smaller_adder[i]) \in Operands /\ trans[i] \in Words
          /\ lim.trans_min[i] \in Words
      BY <1>0, OutType DEF TransTypeOK
    <3> QED BY <3>1, CombType DEF TransSmaller
  <2> QED BY <1>0, <2>1, <2>2, <2>3 DEF TransTholdSmaller, TransTypeOK
<1>7. /\ trans_intlk_bigger_ltc_all' \in [Chans -> BOOLEAN]
      /\ trans_intlk_smaller_ltc_all' \in [Chans -> BOOLEAN]
      /\ trans_intlk_bigger_all' \in [Chans -> BOOLEAN]
      /\ trans_intlk_smaller_all' \in [Chans -> BOOLEAN]
  <2>1. TransLatch(rst, en, clr)
    BY <1>1 DEF TransTick
  <2> QED BY <1>0, <2>1 DEF TransLatch, TransTypeOK
<1> QED BY <1>2, <1>3, <1>4, <1>5, <1>6, <1>7 DEF TransTypeOK

\* A clock edge keeps the angular detector's registers well typed
\* (orbit_intlk_ang.vhd).
LEMMA AngTypeStep ==
    ASSUME TypeOK, Edge
    PROVE  AngTypeOK'
<1> DEFINE rst == ctrl.rst
           en  == intlk_ang_master_en
           clr == ctrl.ang_clr
<1> USE InputTypes
<1>0. /\ AngTypeOK /\ ctrl \in CtrlWords /\ rst \in BOOLEAN
      /\ en \in BOOLEAN /\ clr \in BOOLEAN
  BY DEF TypeOK, CtrlWords
<1>1. AngTick(rst, valid, sample.pos, en, clr, lim.ang_max, lim.ang_min)
  BY DEF Edge
<1>2. ang_adder' \in [Chans -> Pipes]
  <2>1. AngAdder(valid, sample.pos)
    BY <1>1 DEF AngTick
  <2>2. ASSUME NEW i \in Chans
        PROVE  Shift(ang_adder[i],
                     Feed(\A b \in BPMs : valid[b], sample.pos["DS"][i],
                          Not(sample.pos["US"][i]), 1)) \in Pipes
    <3>1. Not(sample.pos["US"][i]) \in Words /\ sample.pos["DS"][i] \in Words
      BY WordClosure DEF BPMs
    <3>2. ang_adder[i] \in Pipes
      BY <1>0 DEF AngTypeOK
    <3>3. Feed(\A b \in BPMs : valid[b], sample.pos["DS"][i],
               Not(sample.pos["US"][i]), 1) \in Operands
      BY <3>1, WordClosure DEF Feed, Idle, Operands
    <3> QED BY <3>2, <3>3, PipeStep
  <2> QED BY <2>1, <2>2 DEF AngAdder
<1>3. /\ ang_sum_reg' \in [Chans -> Words]
      /\ ang_sum_valid_reg' \in [Chans -> BOOLEAN]
  <2>1. AngReg(rst)
    BY <1>1 DEF AngTick
  <2>2. \A i \in Chans : Out(ang_adder[i]) \in Operands
    BY <1>0, OutType DEF AngTypeOK
  <2>3. \A i \in Chans : /\ AddX2(Out(ang_adder[i])) \in Words
                         /\ Out(ang_adder[i]).valid \in BOOLEAN
    BY <2>2, WordClosure DEF Operands
  <2> QED BY <1>0, <2>1, <2>3 DEF AngReg, AngTypeOK
<1>5. /\ ang_bigger_adder' \in [Chans -> Pipes]
      /\ ang_bigger_reg' \in [Chans -> BOOLEAN]
  <2>1. AngTholdBigger(rst, lim.ang_max)
    BY <1>1 DEF AngTick
  <2>2. ASSUME NEW i \in Chans
        PROVE  Shift(ang_bigger_adder[i],
                     Feed(ang_sum_valid_reg[i], ang_sum_reg[i], Not(lim.ang_max[i]), 1))
                 \in Pipes
    <3>1. ang_bigger_adder[i] \in Pipes /\ ang_sum_valid_reg[i] \in BOOLEAN
          /\ ang_sum_reg[i] \in Words /\ Not(lim.ang_max[i]) \in Words
      BY <1>0, WordClosure DEF AngTypeOK
    <3> QED BY <3>1, FeedType, PipeStep
  <2>3. ASSUME NEW i \in Chans
        PROVE  AngBigger(i, lim.ang_max) \in BOOLEAN
    <3>1. Out(ang_bigger_adder[i]) \in Operands /\ ang_sum_reg[i] \in Words
          /\ lim.ang_max[i] \in Words
      BY <1>0, OutType DEF AngTypeOK
    <3> QED BY <3>1, CombType DEF AngBigger, ang
  <2> QED BY <1>0, <2>1, <2>2, <2>3 DEF AngTholdBigger, AngTypeOK, ang, ang_valid
<1>6. /\ ang_smaller_adder' \in [Chans -> Pipes]
      /\ ang_smaller_reg' \in [Chans -> BOOLEAN]
  <2>1. AngTholdSmaller(rst, lim.ang_min)
    BY <1>1 DEF AngTick
  <2>2. ASSUME NEW i \in Chans
        PROVE  Shift(ang_smaller_adder[i],
                     Feed(ang_sum_valid_reg[i], Not(ang_sum_reg[i]), lim.ang_min[i], 1))
                 \in Pipes
    <3>1. ang_smaller_adder[i] \in Pipes /\ ang_sum_valid_reg[i] \in BOOLEAN
          /\ Not(ang_sum_reg[i]) \in Words /\ lim.ang_min[i] \in Words
      BY <1>0, WordClosure DEF AngTypeOK
    <3> QED BY <3>1, FeedType, PipeStep
  <2>3. ASSUME NEW i \in Chans
        PROVE  AngSmaller(i, lim.ang_min) \in BOOLEAN
    <3>1. Out(ang_smaller_adder[i]) \in Operands /\ ang_sum_reg[i] \in Words
          /\ lim.ang_min[i] \in Words
      BY <1>0, OutType DEF AngTypeOK
    <3> QED BY <3>1, CombType DEF AngSmaller, ang
  <2> QED BY <1>0, <2>1, <2>2, <2>3 DEF AngTholdSmaller, AngTypeOK, ang, ang_valid
<1>7. /\ ang_intlk_bigger_ltc_all' \in [Chans -> BOOLEAN]
      /\ ang_intlk_smaller_ltc_all' \in [Chans -> BOOLEAN]
      /\ ang_intlk_bigger_all' \in [Chans -> BOOLEAN]
      /\ ang_intlk_smaller_all' \in [Chans -> BOOLEAN]
  <2>1. AngLatch(rst, en, clr)
    BY <1>1 DEF AngTick
  <2> QED BY <1>0, <2>1 DEF AngLatch, AngTypeOK
<1> QED BY <1>2, <1>3, <1>5, <1>6, <1>7 DEF AngTypeOK

\* A clock edge keeps the gate and the output registers well typed
\* (orbit_intlk.vhd: p_sum_thold_bigger_reg, p_reg_enable, p_out).
LEMMA TopTypeStep ==
    ASSUME TypeOK, Edge
    PROVE  /\ sum_adder' \in [BPMs -> Pipes]
           /\ intlk_sum_bigger_reg' \in [BPMs -> BOOLEAN]
           /\ intlk_sum_bigger_any' \in BOOLEAN
           /\ intlk_trans_master_en' \in BOOLEAN
           /\ intlk_ang_master_en' \in BOOLEAN
           /\ intlk_ltc' \in BOOLEAN
           /\ intlk' \in BOOLEAN
<1> USE InputTypes
<1>1. ASSUME NEW b \in BPMs
      PROVE  /\ Shift(sum_adder[b], Feed(valid[b], sample.sum[b],
                                         Not(lim.min_sum), 1)) \in Pipes
             /\ AddC2(Out(sum_adder[b])) \in BOOLEAN
  <2>1. /\ sum_adder[b] \in Pipes /\ valid[b] \in BOOLEAN
        /\ sample.sum[b] \in Words /\ Not(lim.min_sum) \in Words
    BY WordClosure DEF TypeOK
  <2> QED BY <2>1, FeedType, PipeStep, WordClosure, OutType
<1>2. /\ sum_adder' \in [BPMs -> Pipes]
      /\ intlk_sum_bigger_reg' \in [BPMs -> BOOLEAN]
  BY <1>1 DEF Edge, SumThold, TypeOK
<1>3. /\ intlk_sum_bigger_any' \in BOOLEAN
      /\ intlk_trans_master_en' \in BOOLEAN
      /\ intlk_ang_master_en' \in BOOLEAN
  BY DEF Edge, RegEnable
<1>4. intlk_ltc' \in BOOLEAN /\ intlk' \in BOOLEAN
  BY DEF Edge, IntlkOut
<1> QED BY <1>2, <1>3, <1>4

\* The environment's part of a step is well typed.
LEMMA EnvTypeStep ==
    ASSUME TypeOK, RegisterBank, NewSample \/ NoSample
    PROVE  /\ ctrl' \in Ctrls /\ lim' \in Limits /\ sample' \in Samples
           /\ valid' \in [BPMs -> BOOLEAN] /\ since' \in 0 .. MinGap
<1>1. since \in 0 .. MinGap /\ MinGap \in Nat
  BY GapAssumption DEF TypeOK
<1>2. since' \in 0 .. MinGap
  BY <1>1 DEF NewSample, NoSample
<1> QED BY <1>2 DEF TypeOK, RegisterBank, NewSample, NoSample

\* A step of the interlock or a stuttering step preserves TypeOK.
LEMMA TypeStep == TypeOK /\ [Next]_vars => TypeOK'
<1> SUFFICES ASSUME TypeOK, [Next]_vars PROVE TypeOK' OBVIOUS
<1>1. CASE Next
  BY <1>1, TransTypeStep, AngTypeStep, TopTypeStep, EnvTypeStep
  DEF Next, TypeOK
<1>2. CASE UNCHANGED vars
  BY <1>2 DEF vars, envVars, gateVars, outVars, transVars, angVars,
              TypeOK, TransTypeOK, AngTypeOK
<1> QED BY <1>1, <1>2

\* Every register keeps the range of its VHDL type: in particular the sums
\* and differences of positions wrap and never leave the word.
THEOREM TypeCorrect == Spec => []TypeOK
<1>1. Init => TypeOK
  BY InitType
<1>2. TypeOK /\ [Next]_vars => TypeOK'
  BY TypeStep
<1> QED BY <1>1, <1>2, PTL DEF Spec

-----------------------------------------------------------------------------
\* Samples move one stage per edge and none appears from nowhere: what is k
\* edges deep in the translation detector was k-1 edges deep before.
LEMMA TransMoves ==
    ASSUME TypeOK, Edge, NEW i \in Chans, NEW k \in 1 .. (2 * L + 2),
           TransAt(i, k)'
    PROVE  TransAt(i, k - 1)
<1> USE InputTypes
<1>0. /\ TransTypeOK /\ L \in Nat /\ L >= 1
      /\ TransTick(ctrl.rst, valid, sample.pos, intlk_trans_master_en,
                   ctrl.trans_clr, lim.trans_max, lim.trans_min)
  BY LatencyAssumption DEF TypeOK, L, Edge
<1>1. CASE k \in 1 .. L
  <2> DEFINE in == Feed(\A b \in BPMs : valid[b], sample.pos["US"][i],
                        sample.pos["DS"][i], 0)
  <2>1. trans_adder'[i] = Shift(trans_adder[i], in)
    BY <1>0 DEF TransTick, TransAdder
  <2> HIDE DEF in
  <2>2. k \in Stages /\ k # 0 /\ trans_adder'[i][k].valid
    BY <1>0, <1>1 DEF TransAt, Stages, L
  <2>3. CASE k = 1
    <3>1. in.valid
      BY <2>1, <2>2, <2>3 DEF Shift
    <3>2. \A b \in BPMs : valid[b]
      BY <3>1 DEF in, Feed, Idle
    <3>3. k - 1 = 0
      BY <2>3
    <3> QED BY <1>0, <3>2, <3>3 DEF TransAt
  <2>4. CASE k > 1
    <3>1. trans_adder[i][k - 1].valid
      BY <1>0, <2>1, <2>2, <2>4 DEF Shift
    <3>2. k - 1 \in 1 .. L /\ k - 1 # 0
      BY <2>4, <1>0, <1>1
    <3> QED BY <1>0, <3>1, <3>2 DEF TransAt
  <2> QED BY <2>3, <2>4, <1>1
<1>2. CASE k = L + 1
  <2>1. trans_sum_valid_reg'[i]
    BY <1>0, <1>2 DEF TransAt
  <2>2. trans_adder[i][L].valid
    BY <2>1, <1>0 DEF TransTick, TransReg, Out, L
  <2> QED BY <2>2, <1>2, <1>0 DEF TransAt
<1>3. CASE k = L + 2
  <2>1. trans_valid'[i]
    BY <1>0, <1>3 DEF TransAt
  <2>2. trans_sum_valid_reg[i]
    BY <2>1, <1>0 DEF TransTick, TransDivide
  <2> QED BY <2>2, <1>3, <1>0 DEF TransAt
<1>4. CASE k > L + 2
  <2> DEFINE j  == k - L - 2
             in == Feed(trans_valid[i], trans[i], Not(lim.trans_max[i]), 1)
  <2>1. trans_bigger_adder'[i] = Shift(trans_bigger_adder[i], in)
    BY <1>0 DEF TransTick, TransTholdBigger
  <2>2. j \in Stages /\ trans_bigger_adder'[i][j].valid
    BY <1>0, <1>4 DEF TransAt, Stages, L
  <2>3. CASE j = 1
    <3>1. in.valid
      BY <2>1, <2>2, <2>3 DEF Shift
    <3>2. trans_valid[i]
      BY <3>1 DEF Feed, Idle
    <3>3. k - 1 = L + 2
      BY <2>3, <1>0
    <3> QED BY <3>2, <3>3, <1>0 DEF TransAt
  <2>4. CASE j > 1
    <3>1. trans_bigger_adder[i][j - 1].valid
      BY <2>1, <2>2, <2>4 DEF Shift
    <3>2. k - 1 > L + 2 /\ (k - 1) - L - 2 = j - 1
      BY <2>4, <1>0
    <3> QED BY <3>1, <3>2, <1>0 DEF TransAt
  <2> QED BY <2>2, <2>3, <2>4, <1>0 DEF Stages, L
<1> QED BY <1>0, <1>1, <1>2, <1>3, <1>4

\* Samples stay more than AdderLatency stages apart in the translation
\* detector, because they enter it at least MinGap cycles apart.
LEMMA TransSpacedStep ==
    ASSUME TypeOK, TransSpaced, Next
    PROVE  TransSpaced'
<1>0. /\ Edge /\ (NewSample \/ NoSample)
      /\ L \in Nat /\ L >= 1 /\ MinGap \in Nat /\ MinGap > L
      /\ since \in 0 .. MinGap
  BY LatencyAssumption, GapAssumption DEF Next, TypeOK, L
<1> SUFFICES ASSUME NEW i \in Chans, NEW k \in 0 .. (2 * L + 2),
                    NEW m \in 0 .. (2 * L + 2)
             PROVE  /\ TransAt(i, k)' => since' <= k
                    /\ k < m /\ TransAt(i, k)' /\ TransAt(i, m)' => m - k > L
  BY DEF TransSpaced, L
<1>1. TransAt(i, 0)' => since' = 0 /\ since + 1 >= MinGap
  BY <1>0 DEF TransAt, NewSample, NoSample, BPMs
<1>2. ASSUME NEW n \in 1 .. (2 * L + 2), TransAt(i, n)'
      PROVE  TransAt(i, n - 1) /\ since <= n - 1 /\ n - 1 \in 0 .. (2 * L + 2)
  <2>1. TransAt(i, n - 1)
    BY <1>0, <1>2, TransMoves
  <2> QED BY <2>1, <1>0 DEF TransSpaced
<1>3. since' <= since + 1 /\ since' \in Int
  BY <1>0 DEF NewSample, NoSample
<1>4. TransAt(i, k)' => since' <= k
  BY <1>0, <1>1, <1>2, <1>3
<1>5. ASSUME k < m, TransAt(i, k)', TransAt(i, m)' PROVE m - k > L
  <2>1. CASE k = 0
    BY <2>1, <1>0, <1>1, <1>2, <1>5
  <2>2. CASE k > 0
    <3>1. TransAt(i, k - 1) /\ TransAt(i, m - 1)
      BY <2>2, <1>0, <1>2, <1>5
    <3>2. (m - 1) - (k - 1) > L
      BY <3>1, <2>2, <1>5, <1>0 DEF TransSpaced
    <3> QED BY <3>2, <1>0
  <2> QED BY <2>1, <2>2, <1>0
<1> QED BY <1>4, <1>5

\* The value a comparison in flight belongs to stays in the register its
\* sign bit is read from.
LEMMA TransCoherentStep ==
    ASSUME TypeOK, TransSpaced, TransCoherent, Edge
    PROVE  TransCoherent'
<1> USE InputTypes
<1>0. /\ TransTypeOK /\ L \in Nat /\ L >= 1
      /\ TransTick(ctrl.rst, valid, sample.pos, intlk_trans_master_en,
                   ctrl.trans_clr, lim.trans_max, lim.trans_min)
  BY LatencyAssumption DEF TypeOK, L, Edge
<1> SUFFICES ASSUME NEW i \in Chans, NEW j \in Stages
             PROVE
    /\ trans_smaller_adder'[i][j].valid = trans_bigger_adder'[i][j].valid
    /\ trans_bigger_adder'[i][j].valid =>
         /\ trans_bigger_adder'[i][j].a = trans'[i]
         /\ trans_bigger_adder'[i][j].c = 1
         /\ trans_smaller_adder'[i][j].a = Not(trans'[i])
         /\ trans_smaller_adder'[i][j].c = 1
  BY DEF TransCoherent
<1> DEFINE b == Feed(trans_valid[i], trans[i], Not(lim.trans_max[i]), 1)
           s == Feed(trans_valid[i], Not(trans[i]), lim.trans_min[i], 1)
<1>1. /\ trans_bigger_adder'[i] = Shift(trans_bigger_adder[i], b)
      /\ trans_smaller_adder'[i] = Shift(trans_smaller_adder[i], s)
  BY <1>0 DEF TransTick, TransTholdBigger, TransTholdSmaller
<1>2. trans_sum_valid_reg[i] \/ trans'[i] = trans[i]
  BY <1>0 DEF TransTick, TransDivide
<1>3. CASE j = 1
  <2>1. trans_bigger_adder'[i][j] = b /\ trans_smaller_adder'[i][j] = s
    BY <1>1, <1>3 DEF Shift
  <2>2. /\ b.valid = trans_valid[i] /\ s.valid = trans_valid[i]
        /\ trans_valid[i] => /\ b.a = trans[i] /\ b.c = 1
                             /\ s.a = Not(trans[i]) /\ s.c = 1
    <3>1. /\ trans_valid[i] \in BOOLEAN /\ trans[i] \in Words
          /\ Not(trans[i]) \in Words /\ lim.trans_min[i] \in Words
          /\ Not(lim.trans_max[i]) \in Words
      BY <1>0, WordClosure DEF TransTypeOK
    <3> QED BY <3>1, FeedType
  <2>3. trans_valid[i] => trans'[i] = trans[i]
    <3> SUFFICES ASSUME trans_valid[i], trans_sum_valid_reg[i] PROVE FALSE
      BY <1>2
    <3>1. TransAt(i, L + 1) /\ TransAt(i, L + 2)
      BY <1>0 DEF TransAt
    <3> QED BY <3>1, <1>0 DEF TransSpaced
  <2> QED BY <2>1, <2>2, <2>3
<1>4. CASE j > 1
  <2>1. /\ j - 1 \in Stages
        /\ trans_bigger_adder'[i][j] = trans_bigger_adder[i][j - 1]
        /\ trans_smaller_adder'[i][j] = trans_smaller_adder[i][j - 1]
    BY <1>1, <1>4, LatencyAssumption DEF Shift, Stages
  <2>2. trans_bigger_adder[i][j - 1].valid => trans'[i] = trans[i]
    <3> SUFFICES ASSUME trans_bigger_adder[i][j - 1].valid,
                        trans_sum_valid_reg[i]
                 PROVE  FALSE
      BY <1>2
    <3>1. /\ L + 1 \in 0 .. (2 * L + 2) /\ L + 1 + j \in 0 .. (2 * L + 2)
          /\ L + 1 < L + 1 + j /\ (L + 1 + j) - (L + 1) <= L
          /\ (L + 1 + j) - L - 2 = j - 1
          /\ L + 1 + j > L + 2
      BY <1>0, <1>4 DEF Stages, L
    <3>2. TransAt(i, L + 1)
      BY <1>0 DEF TransAt
    <3>3. TransAt(i, L + 1 + j)
      BY <3>1, <1>0 DEF TransAt
    <3> QED BY <3>1, <3>2, <3>3, <1>0 DEF TransSpaced
  <2> QED BY <2>1, <2>2 DEF TransCoherent
<1> QED BY <1>3, <1>4, LatencyAssumption DEF Stages

\* Samples move one stage per edge and none appears from nowhere: what is k
\* edges deep in the angular detector was k-1 edges deep before.
LEMMA AngMoves ==
    ASSUME TypeOK, Edge, NEW i \in Chans, NEW k \in 1 .. (2 * L + 1),
           AngAt(i, k)'
    PROVE  AngAt(i, k - 1)
<1> USE InputTypes
<1>0. /\ AngTypeOK /\ L \in Nat /\ L >= 1
      /\ AngTick(ctrl.rst, valid, sample.pos, intlk_ang_master_en,
                   ctrl.ang_clr, lim.ang_max, lim.ang_min)
  BY LatencyAssumption DEF TypeOK, L, Edge
<1>1. CASE k \in 1 .. L
  <2> DEFINE in == Feed(\A b \in BPMs : valid[b], sample.pos["DS"][i],
                        Not(sample.pos["US"][i]), 1)
  <2>1. ang_adder'[i] = Shift(ang_adder[i], in)
    BY <1>0 DEF AngTick, AngAdder
  <2> HIDE DEF in
  <2>2. k \in Stages /\ k # 0 /\ ang_adder'[i][k].valid
    BY <1>0, <1>1 DEF AngAt, Stages, L
  <2>3. CASE k = 1
    <3>1. in.valid
      BY <2>1, <2>2, <2>3 DEF Shift
    <3>2. \A b \in BPMs : valid[b]
      BY <3>1 DEF in, Feed, Idle
    <3>3. k - 1 = 0
      BY <2>3
    <3> QED BY <1>0, <3>2, <3>3 DEF AngAt
  <2>4. CASE k > 1
    <3>1. ang_adder[i][k - 1].valid
      BY <1>0, <2>1, <2>2, <2>4 DEF Shift
    <3>2. k - 1 \in 1 .. L /\ k - 1 # 0
      BY <2>4, <1>0, <1>1
    <3> QED BY <1>0, <3>1, <3>2 DEF AngAt
  <2> QED BY <2>3, <2>4, <1>1
<1>2. CASE k = L + 1
  <2>1. ang_sum_valid_reg'[i]
    BY <1>0, <1>2 DEF AngAt
  <2>2. ang_adder[i][L].valid
    BY <2>1, <1>0 DEF AngTick, AngReg, Out, L
  <2> QED BY <2>2, <1>2, <1>0 DEF AngAt
<1>4. CASE k > L + 1
  <2> DEFINE j  == k - L - 1
             in == Feed(ang_sum_valid_reg[i], ang_sum_reg[i], Not(lim.ang_max[i]), 1)
  <2>1. ang_bigger_adder'[i] = Shift(ang_bigger_adder[i], in)
    BY <1>0 DEF AngTick, AngTholdBigger, ang, ang_valid
  <2>2. j \in Stages /\ ang_bigger_adder'[i][j].valid
    BY <1>0, <1>4 DEF AngAt, Stages, L
  <2>3. CASE j = 1
    <3>1. in.valid
      BY <2>1, <2>2, <2>3 DEF Shift
    <3>2. ang_sum_valid_reg[i]
      BY <3>1 DEF Feed, Idle
    <3>3. k - 1 = L + 1
      BY <2>3, <1>0
    <3> QED BY <3>2, <3>3, <1>0 DEF AngAt
  <2>4. CASE j > 1
    <3>1. ang_bigger_adder[i][j - 1].valid
      BY <2>1, <2>2, <2>4 DEF Shift
    <3>2. k - 1 > L + 1 /\ (k - 1) - L - 1 = j - 1
      BY <2>4, <1>0
    <3> QED BY <3>1, <3>2, <1>0 DEF AngAt
  <2> QED BY <2>2, <2>3, <2>4, <1>0 DEF Stages, L
<1> QED BY <1>0, <1>1, <1>2, <1>4

\* Samples stay more than AdderLatency stages apart in the angular
\* detector, because they enter it at least MinGap cycles apart.
LEMMA AngSpacedStep ==
    ASSUME TypeOK, AngSpaced, Next
    PROVE  AngSpaced'
<1>0. /\ Edge /\ (NewSample \/ NoSample)
      /\ L \in Nat /\ L >= 1 /\ MinGap \in Nat /\ MinGap > L
      /\ since \in 0 .. MinGap
  BY LatencyAssumption, GapAssumption DEF Next, TypeOK, L
<1> SUFFICES ASSUME NEW i \in Chans, NEW k \in 0 .. (2 * L + 1),
                    NEW m \in 0 .. (2 * L + 1)
             PROVE  /\ AngAt(i, k)' => since' <= k
                    /\ k < m /\ AngAt(i, k)' /\ AngAt(i, m)' => m - k > L
  BY DEF AngSpaced, L
<1>1. AngAt(i, 0)' => since' = 0 /\ since + 1 >= MinGap
  BY <1>0 DEF AngAt, NewSample, NoSample, BPMs
<1>2. ASSUME NEW n \in 1 .. (2 * L + 1), AngAt(i, n)'
      PROVE  AngAt(i, n - 1) /\ since <= n - 1 /\ n - 1 \in 0 .. (2 * L + 1)
  <2>1. AngAt(i, n - 1)
    BY <1>0, <1>2, AngMoves
  <2> QED BY <2>1, <1>0 DEF AngSpaced
<1>3. since' <= since + 1 /\ since' \in Int
  BY <1>0 DEF NewSample, NoSample
<1>4. AngAt(i, k)' => since' <= k
  BY <1>0, <1>1, <1>2, <1>3
<1>5. ASSUME k < m, AngAt(i, k)', AngAt(i, m)' PROVE m - k > L
  <2>1. CASE k = 0
    BY <2>1, <1>0, <1>1, <1>2, <1>5
  <2>2. CASE k > 0
    <3>1. AngAt(i, k - 1) /\ AngAt(i, m - 1)
      BY <2>2, <1>0, <1>2, <1>5
    <3>2. (m - 1) - (k - 1) > L
      BY <3>1, <2>2, <1>5, <1>0 DEF AngSpaced
    <3> QED BY <3>2, <1>0
  <2> QED BY <2>1, <2>2, <1>0
<1> QED BY <1>4, <1>5

\* The value a comparison in flight belongs to stays in the register its
\* sign bit is read from.
LEMMA AngCoherentStep ==
    ASSUME TypeOK, AngSpaced, AngCoherent, Edge
    PROVE  AngCoherent'
<1> USE InputTypes
<1>0. /\ AngTypeOK /\ L \in Nat /\ L >= 1
      /\ AngTick(ctrl.rst, valid, sample.pos, intlk_ang_master_en,
                   ctrl.ang_clr, lim.ang_max, lim.ang_min)
  BY LatencyAssumption DEF TypeOK, L, Edge
<1> SUFFICES ASSUME NEW i \in Chans, NEW j \in Stages
             PROVE
    /\ ang_smaller_adder'[i][j].valid = ang_bigger_adder'[i][j].valid
    /\ ang_bigger_adder'[i][j].valid =>
         /\ ang_bigger_adder'[i][j].a = ang_sum_reg'[i]
         /\ ang_bigger_adder'[i][j].c = 1
         /\ ang_smaller_adder'[i][j].a = Not(ang_sum_reg'[i])
         /\ ang_smaller_adder'[i][j].c = 1
  BY DEF AngCoherent
<1> DEFINE b == Feed(ang_sum_valid_reg[i], ang_sum_reg[i], Not(lim.ang_max[i]), 1)
           s == Feed(ang_sum_valid_reg[i], Not(ang_sum_reg[i]), lim.ang_min[i], 1)
<1>1. /\ ang_bigger_adder'[i] = Shift(ang_bigger_adder[i], b)
      /\ ang_smaller_adder'[i] = Shift(ang_smaller_adder[i], s)
  BY <1>0 DEF AngTick, AngTholdBigger, AngTholdSmaller, ang, ang_valid
<1>2. ang_adder[i][L].valid \/ ang_sum_reg'[i] = ang_sum_reg[i]
  BY <1>0 DEF AngTick, AngReg, Out, L
<1>3. CASE j = 1
  <2>1. ang_bigger_adder'[i][j] = b /\ ang_smaller_adder'[i][j] = s
    BY <1>1, <1>3 DEF Shift
  <2>2. /\ b.valid = ang_sum_valid_reg[i] /\ s.valid = ang_sum_valid_reg[i]
        /\ ang_sum_valid_reg[i] => /\ b.a = ang_sum_reg[i] /\ b.c = 1
                             /\ s.a = Not(ang_sum_reg[i]) /\ s.c = 1
    <3>1. /\ ang_sum_valid_reg[i] \in BOOLEAN /\ ang_sum_reg[i] \in Words
          /\ Not(ang_sum_reg[i]) \in Words /\ lim.ang_min[i] \in Words
          /\ Not(lim.ang_max[i]) \in Words
      BY <1>0, WordClosure DEF AngTypeOK
    <3> QED BY <3>1, FeedType
  <2>3. ang_sum_valid_reg[i] => ang_sum_reg'[i] = ang_sum_reg[i]
    <3> SUFFICES ASSUME ang_sum_valid_reg[i], ang_adder[i][L].valid PROVE FALSE
      BY <1>2
    <3>1. AngAt(i, L) /\ AngAt(i, L + 1)
      BY <1>0 DEF AngAt
    <3> QED BY <3>1, <1>0 DEF AngSpaced
  <2> QED BY <2>1, <2>2, <2>3
<1>4. CASE j > 1
  <2>1. /\ j - 1 \in Stages
        /\ ang_bigger_adder'[i][j] = ang_bigger_adder[i][j - 1]
        /\ ang_smaller_adder'[i][j] = ang_smaller_adder[i][j - 1]
    BY <1>1, <1>4, LatencyAssumption DEF Shift, Stages
  <2>2. ang_bigger_adder[i][j - 1].valid => ang_sum_reg'[i] = ang_sum_reg[i]
    <3> SUFFICES ASSUME ang_bigger_adder[i][j - 1].valid,
                        ang_adder[i][L].valid
                 PROVE  FALSE
      BY <1>2
    <3>1. /\ L \in 0 .. (2 * L + 1) /\ L + j \in 0 .. (2 * L + 1)
          /\ L < L + j /\ (L + j) - L <= L
          /\ (L + j) - L - 1 = j - 1
          /\ L + j > L + 1
      BY <1>0, <1>4 DEF Stages, L
    <3>2. AngAt(i, L)
      BY <1>0 DEF AngAt
    <3>3. AngAt(i, L + j)
      BY <3>1, <1>0 DEF AngAt
    <3> QED BY <3>1, <3>2, <3>3, <1>0 DEF AngSpaced
  <2> QED BY <2>1, <2>2 DEF AngCoherent
<1> QED BY <1>3, <1>4, LatencyAssumption DEF Stages

-----------------------------------------------------------------------------
\* Nothing is in flight when the FPGA starts.
LEMMA InitInv == Init => IInv
<1> SUFFICES ASSUME Init PROVE IInv OBVIOUS
<1>0. TypeOK /\ L \in Nat /\ L >= 1
  BY InitType, LatencyAssumption DEF L
<1>1. \A i \in Chans : \A k \in 0 .. (2 * L + 2) : ~TransAt(i, k)
  <2> SUFFICES ASSUME NEW i \in Chans, NEW k \in 0 .. (2 * L + 2)
               PROVE  ~TransAt(i, k)
    OBVIOUS
  <2>1. /\ \A n \in Stages : ~trans_adder[i][n].valid
                           /\ ~trans_bigger_adder[i][n].valid
        /\ ~trans_sum_valid_reg[i] /\ ~trans_valid[i]
        /\ ~valid["DS"]
    BY EmptyPipeType DEF Init, TransInit, BPMs
  <2>2. CASE k = 0
    BY <2>1, <2>2, <1>0 DEF TransAt, BPMs
  <2>3. CASE k \in 1 .. L
    BY <2>1, <2>3, <1>0 DEF TransAt, Stages, L
  <2>4. CASE k = L + 1 \/ k = L + 2
    BY <2>1, <2>4, <1>0 DEF TransAt
  <2>5. CASE k > L + 2
    <3>1. k - L - 2 \in Stages
      BY <2>5, <1>0 DEF Stages, L
    <3> QED BY <3>1, <2>1, <2>5, <1>0 DEF TransAt
  <2> QED BY <2>2, <2>3, <2>4, <2>5, <1>0
<1>2. \A i \in Chans : \A k \in 0 .. (2 * L + 1) : ~AngAt(i, k)
  <2> SUFFICES ASSUME NEW i \in Chans, NEW k \in 0 .. (2 * L + 1)
               PROVE  ~AngAt(i, k)
    OBVIOUS
  <2>1. /\ \A n \in Stages : ~ang_adder[i][n].valid
                           /\ ~ang_bigger_adder[i][n].valid
        /\ ~ang_sum_valid_reg[i]
        /\ ~valid["DS"]
    BY EmptyPipeType DEF Init, AngInit, BPMs
  <2>2. CASE k = 0
    BY <2>1, <2>2, <1>0 DEF AngAt, BPMs
  <2>3. CASE k \in 1 .. L
    BY <2>1, <2>3, <1>0 DEF AngAt, Stages, L
  <2>4. CASE k = L + 1
    BY <2>1, <2>4, <1>0 DEF AngAt
  <2>5. CASE k > L + 1
    <3>1. k - L - 1 \in Stages
      BY <2>5, <1>0 DEF Stages, L
    <3> QED BY <3>1, <2>1, <2>5, <1>0 DEF AngAt
  <2> QED BY <2>2, <2>3, <2>4, <2>5, <1>0
<1>3. TransSpaced /\ AngSpaced
  BY <1>1, <1>2 DEF TransSpaced, AngSpaced
<1>4. TransCoherent
  BY EmptyPipeType DEF Init, TransInit, TransCoherent
<1>5. AngCoherent
  BY EmptyPipeType DEF Init, AngInit, AngCoherent
<1> QED BY <1>0, <1>3, <1>4, <1>5 DEF IInv

\* The inductive invariant is preserved by every step.
LEMMA InvStep == IInv /\ [Next]_vars => IInv'
<1> SUFFICES ASSUME IInv, [Next]_vars PROVE IInv' OBVIOUS
<1>1. TypeOK'
  BY TypeStep DEF IInv
<1>2. CASE Next
  <2>1. Edge
    BY <1>2 DEF Next
  <2> QED
    BY <1>1, <1>2, <2>1, TransSpacedStep, AngSpacedStep, TransCoherentStep,
       AngCoherentStep DEF IInv
<1>3. CASE UNCHANGED vars
  <2>1. TransSpaced' /\ TransCoherent'
    BY <1>3 DEF IInv, vars, envVars, transVars, TransSpaced, TransCoherent,
                TransAt
  <2>2. AngSpaced' /\ AngCoherent'
    BY <1>3 DEF IInv, vars, envVars, angVars, AngSpaced, AngCoherent, AngAt
  <2> QED BY <1>1, <2>1, <2>2 DEF IInv
<1> QED BY <1>2, <1>3

\* At the end of the comparators, coherence makes the circuit's verdict the
\* comparison of the sample's own value.
LEMMA InvImpliesExact == IInv => VerdictExact
<1> SUFFICES ASSUME IInv, NEW i \in Chans
             PROVE
    /\ LET e == Out(trans_bigger_adder[i]) IN
       e.valid /\ e.b = Not(lim.trans_max[i])
         => (TransBigger(i, lim.trans_max) <=> e.a >= lim.trans_max[i])
    /\ LET e == Out(trans_smaller_adder[i]) IN
       e.valid /\ e.b = lim.trans_min[i]
         => (TransSmaller(i, lim.trans_min) <=> Not(e.a) <= lim.trans_min[i])
    /\ LET e == Out(ang_bigger_adder[i]) IN
       e.valid /\ e.b = Not(lim.ang_max[i])
         => (AngBigger(i, lim.ang_max) <=> e.a >= lim.ang_max[i])
    /\ LET e == Out(ang_smaller_adder[i]) IN
       e.valid /\ e.b = lim.ang_min[i]
         => (AngSmaller(i, lim.ang_min) <=> Not(e.a) <= lim.ang_min[i])
  BY DEF VerdictExact
<1> USE InputTypes DEF IInv
<1>0. AdderLatency \in Stages /\ \A w \in Words : Not(Not(w)) = w
  BY LatencyAssumption, HalfAssumption DEF Stages, Not, Words
<1>1. /\ trans[i] \in Words /\ ang_sum_reg[i] \in Words
      /\ lim.trans_max[i] \in Words /\ lim.trans_min[i] \in Words
      /\ lim.ang_max[i] \in Words /\ lim.ang_min[i] \in Words
      /\ Out(trans_bigger_adder[i]) \in Operands
      /\ Out(trans_smaller_adder[i]) \in Operands
      /\ Out(ang_bigger_adder[i]) \in Operands
      /\ Out(ang_smaller_adder[i]) \in Operands
  BY OutType DEF TypeOK, TransTypeOK, AngTypeOK
<1>2. /\ Out(trans_bigger_adder[i]).valid =>
             Out(trans_bigger_adder[i]).a = trans[i]
             /\ Out(trans_bigger_adder[i]).c = 1
      /\ Out(trans_smaller_adder[i]).valid =>
             Out(trans_smaller_adder[i]).a = Not(trans[i])
             /\ Out(trans_smaller_adder[i]).c = 1
  BY <1>0 DEF TransCoherent, Out
<1>3. /\ Out(ang_bigger_adder[i]).valid =>
             Out(ang_bigger_adder[i]).a = ang_sum_reg[i]
             /\ Out(ang_bigger_adder[i]).c = 1
      /\ Out(ang_smaller_adder[i]).valid =>
             Out(ang_smaller_adder[i]).a = Not(ang_sum_reg[i])
             /\ Out(ang_smaller_adder[i]).c = 1
  BY <1>0 DEF AngCoherent, Out
<1> QED
  BY <1>0, <1>1, <1>2, <1>3, ComparatorExact
  DEF TransBigger, TransSmaller, AngBigger, AngSmaller, ang

\* Every verdict the comparators register is the signed comparison of the
\* sample's own translation or angle with the limit, provided the limit did
\* not change while the comparison was in flight.
THEOREM VerdictCorrect == Spec => []VerdictExact
<1>1. Init => IInv
  BY InitInv
<1>2. IInv /\ [Next]_vars => IInv'
  BY InvStep
<1>3. IInv => VerdictExact
  BY InvImpliesExact
<1> QED BY <1>1, <1>2, <1>3, PTL DEF Spec
-----------------------------------------------------------------------------
(***************************************************************************)
(* What the interlock promises of the samples it is given.  A sample is    *)
(* followed through the gate and through a channel of a detector at the    *)
(* same time.                                                              *)
(***************************************************************************)
\* The depth of the last stage before the verdict's register.
TransLast == 2 * L + 2
AngLast   == 2 * L + 1

\* A sum of positions, a translation and an angle outside the limits.
SumOut(i, t)   == t >= 2 * lim.trans_max[i] \/ t <= 2 * lim.trans_min[i] + 1
TransOut(i, v) == v >= lim.trans_max[i] \/ v <= lim.trans_min[i]
AngOut(i, v)   == v >= lim.ang_max[i] \/ v <= lim.ang_min[i]

\* A sample outside the limits is k edges deep in channel i; in the
\* comparators it is compared with the limits that are still in force.
TransBadAt(i, k) ==
    CASE k \in 1 .. L -> /\ trans_adder[i][k].valid
                         /\ SumOut(i, trans_adder[i][k].a + trans_adder[i][k].b)
      [] k = L + 1    -> trans_sum_valid_reg[i] /\ SumOut(i, trans_sum_reg[i])
      [] k = L + 2    -> trans_valid[i] /\ TransOut(i, trans[i])
      [] OTHER        -> /\ trans_bigger_adder[i][k - L - 2].valid
                         /\ TransOut(i, trans_bigger_adder[i][k - L - 2].a)
                         /\ trans_bigger_adder[i][k - L - 2].b = Not(lim.trans_max[i])
                         /\ trans_smaller_adder[i][k - L - 2].b = lim.trans_min[i]

AngBadAt(i, k) ==
    CASE k \in 1 .. L -> /\ ang_adder[i][k].valid
                         /\ AngOut(i, ang_adder[i][k].a + ang_adder[i][k].b + 1)
      [] k = L + 1    -> ang_sum_valid_reg[i] /\ AngOut(i, ang_sum_reg[i])
      [] OTHER        -> /\ ang_bigger_adder[i][k - L - 1].valid
                         /\ AngOut(i, ang_bigger_adder[i][k - L - 1].a)
                         /\ ang_bigger_adder[i][k - L - 1].b = Not(lim.ang_max[i])
                         /\ ang_smaller_adder[i][k - L - 1].b = lim.ang_min[i]

\* The verdict in the registers, and the level flags it raises.
TransVerdict(i)  == trans_bigger_reg[i] \/ trans_smaller_reg[i]
AngVerdict(i)    == ang_bigger_reg[i] \/ ang_smaller_reg[i]
TransLevel(i) == trans_intlk_bigger_all[i] \/ trans_intlk_smaller_all[i]
AngLevel(i)   == ang_intlk_bigger_all[i] \/ ang_intlk_smaller_all[i]

\* What the gate holds k edges deep lets a verdict pass: the sum's adder, its
\* register and the OR of the two BPMs.
Enough(k) == ctrl.min_sum_en =>
    CASE k \in 1 .. L -> \E b \in BPMs : /\ sum_adder[b][k].valid
                                         /\ AddC2(sum_adder[b][k])
      [] k = L + 1    -> \E b \in BPMs : intlk_sum_bigger_reg[b]
      [] OTHER        -> intlk_sum_bigger_any

\* The valid flags of a pair are raised together, and the pipelines of the
\* sums and of both detectors carry the samples at the same depth.
Together ==
    /\ valid["DS"] = valid["US"]
    /\ \A i \in Chans : \A b \in BPMs : \A k \in Stages :
          /\ sum_adder[b][k].valid = trans_adder[i][k].valid
          /\ sum_adder[b][k].valid = ang_adder[i][k].valid

\* The sums and differences of positions fit their word, in the samples the
\* environment presents and in the adders.
NoOverflow == \A s \in Samples : \A i \in Chans :
    /\ s.pos["US"][i] + s.pos["DS"][i] \in Words
    /\ s.pos["DS"][i] - s.pos["US"][i] \in Words
Fits == \A i \in Chans : \A k \in Stages :
    /\ trans_adder[i][k].valid => /\ trans_adder[i][k].c = 0
                                  /\ trans_adder[i][k].a + trans_adder[i][k].b \in Words
    /\ ang_adder[i][k].valid => /\ ang_adder[i][k].c = 1
                                /\ ang_adder[i][k].a + ang_adder[i][k].b + 1 \in Words

\* Where the sample is that the deadline runs for, and what the gate holds.
\* No later sample takes its place there before the verdict is latched.
TransDue(i, d) ==
    /\ ctrl.trans_en /\ d <= TransLast + 2
    /\ d <= TransLast => TransBadAt(i, d)
    /\ d = TransLast + 1 => TransVerdict(i)
    /\ d = TransLast + 2 => TransLevel(i)
    /\ d <= L => Enough(d)
    /\ d \in L + 1 .. TransLast - 1 => Enough(L + 1)
    /\ d \in L + 2 .. TransLast => Enough(L + 2)
    /\ d \in L + 3 .. TransLast + 1 => intlk_trans_master_en
AngDue(i, d) ==
    /\ ctrl.ang_en /\ d <= AngLast + 2
    /\ d <= AngLast => AngBadAt(i, d)
    /\ d = AngLast + 1 => AngVerdict(i)
    /\ d = AngLast + 2 => AngLevel(i)
    /\ d <= L => Enough(d)
    /\ d \in L + 1 .. AngLast - 1 => Enough(L + 1)
    /\ d \in L + 2 .. AngLast => Enough(L + 2)
    /\ d \in L + 3 .. AngLast + 1 => intlk_ang_master_en
DuePlace ==
    /\ due \in Nat
    /\ due > 0 => /\ ctrl.en
                  /\ ~ctrl.rst /\ ~ctrl.clr /\ ~ctrl.trans_clr /\ ~ctrl.ang_clr
    /\ \A d \in Nat \ {0} :
          due = d => \E i \in Chans : TransDue(i, d) \/ AngDue(i, d)

\* Each level flag is latched, channel by channel, until there is a reset.
LevelLatched == ~upset =>
    /\ intlk => intlk_ltc
    /\ \A i \in Chans :
          /\ trans_intlk_bigger_all[i] => trans_intlk_bigger_ltc_all[i]
          /\ trans_intlk_smaller_all[i] => trans_intlk_smaller_ltc_all[i]
          /\ ang_intlk_bigger_all[i] => ang_intlk_bigger_ltc_all[i]
          /\ ang_intlk_smaller_all[i] => ang_intlk_smaller_ltc_all[i]

\* Before the limits change, every comparison in flight is one with them.
LimitsKept == ~upset => \A i \in Chans : \A j \in Stages :
    /\ trans_bigger_adder[i][j].valid =>
          /\ trans_bigger_adder[i][j].b = Not(lim.trans_max[i])
          /\ trans_smaller_adder[i][j].b = lim.trans_min[i]
    /\ ang_bigger_adder[i][j].valid =>
          /\ ang_bigger_adder[i][j].b = Not(lim.ang_max[i])
          /\ ang_smaller_adder[i][j].b = lim.ang_min[i]

(***************************************************************************)
(* No verdict meets a gate that would let it pass without a cause.  Of a   *)
(* channel with its last stage at depth N: S says where samples are, B     *)
(* where samples outside the limits are, E (to depth L+3, the enable) what *)
(* the gate lets pass, R is the registered verdict and P is prevBad.       *)
(***************************************************************************)
Apart(N, S, B, E, R, P) ==
    /\ \A k \in 1 .. N : \A m \in 1 .. L + 3 : B[k] /\ m <= k => ~E[m]
    /\ \A k \in 1 .. N : B[k] /\ ~P => \E m \in 1 .. k - 1 : S[m]
    /\ \A m \in 1 .. L + 3 : R /\ E[m] => \E n \in m + L + 1 .. N : S[n] /\ m <= L + 1
    /\ R /\ ~P => \E m \in 1 .. N : S[m]

TransApart(i) ==
    Apart(TransLast, [k \in 0 .. TransLast |-> TransAt(i, k)],
          [k \in 1 .. TransLast |-> TransBadAt(i, k)],
          [m \in 1 .. L + 3 |-> IF m = L + 3 THEN intlk_trans_master_en ELSE Enough(m)],
          TransVerdict(i), prevBad)
AngApart(i) ==
    Apart(AngLast, [k \in 0 .. AngLast |-> AngAt(i, k)],
          [k \in 1 .. AngLast |-> AngBadAt(i, k)],
          [m \in 1 .. L + 3 |-> IF m = L + 3 THEN intlk_ang_master_en ELSE Enough(m)],
          AngVerdict(i), prevBad)
Quiet == ~cause /\ ~upset =>
    /\ ~intlk_ltc
    /\ \A i \in Chans : /\ TransApart(i) /\ ~TransLevel(i)
                        /\ AngApart(i) /\ ~AngLevel(i)

-----------------------------------------------------------------------------
\* The sum is compared as the unsigned word it is: the carry of sum - min_sum
\* (cmp_trans_thold_bigger of orbit_intlk.vhd).
LEMMA SumExact ==
    ASSUME NEW s \in Words, NEW l \in Words
    PROVE  AddC2(Feed(TRUE, s, Not(l), 1)) <=> Unsigned(s) >= Unsigned(l)
<1>1. /\ s \in Int /\ -Half <= s /\ s <= Half - 1
      /\ l \in Int /\ -Half <= l /\ l <= Half - 1
  BY HalfAssumption DEF Words
<1>2. /\ Feed(TRUE, s, Not(l), 1).a = s /\ Feed(TRUE, s, Not(l), 1).b = -l - 1
      /\ Feed(TRUE, s, Not(l), 1).c = 1
  BY DEF Feed, Not
<1>3. PICK e \in {Feed(TRUE, s, Not(l), 1)} : e.a = s /\ e.b = -l - 1 /\ e.c = 1
  BY <1>2
<1>4. AddC2(e) <=> Unsigned(s) >= Unsigned(l)
  <2>1. AddC2(e) <=> Unsigned(s) + Unsigned(-l - 1) + 1 >= 2 * Half
    BY <1>3 DEF AddC2
  <2>2. /\ Unsigned(-l - 1) = 2 * Half - 1 - Unsigned(l)
        /\ Unsigned(s) \in Int /\ Unsigned(l) \in Int /\ Half \in Int
    BY <1>1, HalfAssumption DEF Unsigned
  <2>3. PICK u \in Int, v \in Int : u = Unsigned(s) /\ v = Unsigned(l)
    BY <2>2
  <2>4. u + (2 * Half - 1 - v) + 1 >= 2 * Half <=> u >= v
    BY <2>2
  <2> QED
    BY <2>1, <2>2, <2>3, <2>4
<1> QED
  BY <1>3, <1>4

\* Halving the sum with an arithmetic shift, which rounds down, compares as
\* the sum does with twice the limits (p_trans_divide).
LEMMA MeanExact ==
    ASSUME NEW t \in Words, NEW max \in Words, NEW min \in Words
    PROVE  (ShiftRight1(t) >= max \/ ShiftRight1(t) <= min)
             <=> (t >= 2 * max \/ t <= 2 * min + 1)
<1>1. t \in Int /\ max \in Int /\ min \in Int
  BY HalfAssumption DEF Words
<1>2. t \div 2 \in Int /\ 2 * (t \div 2) <= t /\ t <= 2 * (t \div 2) + 1
  BY <1>1
<1> QED
  BY <1>1, <1>2 DEF ShiftRight1

\* The registers of channel i of the translation detector after an edge
\* without reset (orbit_intlk_trans.vhd).
LEMMA TransStages ==
    ASSUME TypeOK, Edge, ~ctrl.rst, NEW i \in Chans
    PROVE  /\ trans_adder'[i][1] = Feed(Presented, sample.pos["US"][i],
                                        sample.pos["DS"][i], 0)
           /\ \A k \in 2 .. L : trans_adder'[i][k] = trans_adder[i][k - 1]
           /\ trans_sum_valid_reg'[i] <=> trans_adder[i][L].valid
           /\ trans_adder[i][L].valid => trans_sum_reg'[i] = AddX2(trans_adder[i][L])
           /\ trans_valid'[i] <=> trans_sum_valid_reg[i]
           /\ trans_sum_valid_reg[i] => trans'[i] = ShiftRight1(trans_sum_reg[i])
           /\ trans_bigger_adder'[i][1] =
                 Feed(trans_valid[i], trans[i], Not(lim.trans_max[i]), 1)
           /\ trans_smaller_adder'[i][1] =
                 Feed(trans_valid[i], Not(trans[i]), lim.trans_min[i], 1)
           /\ \A j \in 2 .. L :
                 /\ trans_bigger_adder'[i][j] = trans_bigger_adder[i][j - 1]
                 /\ trans_smaller_adder'[i][j] = trans_smaller_adder[i][j - 1]
           /\ trans_bigger_reg'[i] <=>
                 IF trans_bigger_adder[i][L].valid THEN TransBigger(i, lim.trans_max)
                 ELSE trans_bigger_reg[i]
           /\ trans_smaller_reg'[i] <=>
                 IF trans_smaller_adder[i][L].valid THEN TransSmaller(i, lim.trans_min)
                 ELSE trans_smaller_reg[i]
<1>0. /\ TransTick(ctrl.rst, valid, sample.pos, intlk_trans_master_en,
                   ctrl.trans_clr, lim.trans_max, lim.trans_min)
      /\ L \in Nat /\ L >= 1 /\ Stages = 1 .. L /\ AdderLatency = L
  BY LatencyAssumption DEF Edge, L, Stages
<1>1. trans_adder'[i] = Shift(trans_adder[i], Feed(Presented, sample.pos["US"][i],
                                                   sample.pos["DS"][i], 0))
  BY <1>0 DEF TransTick, TransAdder, Presented
<1>2. trans_bigger_adder'[i] = Shift(trans_bigger_adder[i],
          Feed(trans_valid[i], trans[i], Not(lim.trans_max[i]), 1))
  BY <1>0 DEF TransTick, TransTholdBigger
<1>3. trans_smaller_adder'[i] = Shift(trans_smaller_adder[i],
          Feed(trans_valid[i], Not(trans[i]), lim.trans_min[i], 1))
  BY <1>0 DEF TransTick, TransTholdSmaller
<1>4. /\ trans_adder'[i][1] = Feed(Presented, sample.pos["US"][i], sample.pos["DS"][i], 0)
      /\ \A k \in 2 .. L : trans_adder'[i][k] = trans_adder[i][k - 1]
  BY <1>0, <1>1 DEF Shift
<1>5. /\ trans_bigger_adder'[i][1] =
            Feed(trans_valid[i], trans[i], Not(lim.trans_max[i]), 1)
      /\ \A j \in 2 .. L : trans_bigger_adder'[i][j] = trans_bigger_adder[i][j - 1]
  BY <1>0, <1>2 DEF Shift
<1>6. /\ trans_smaller_adder'[i][1] =
            Feed(trans_valid[i], Not(trans[i]), lim.trans_min[i], 1)
      /\ \A j \in 2 .. L : trans_smaller_adder'[i][j] = trans_smaller_adder[i][j - 1]
  BY <1>0, <1>3 DEF Shift
<1>7. /\ trans_sum_valid_reg'[i] <=> trans_adder[i][L].valid
      /\ trans_adder[i][L].valid => trans_sum_reg'[i] = AddX2(trans_adder[i][L])
  BY <1>0 DEF TransTick, TransReg, Out
<1>8. /\ trans_valid'[i] <=> trans_sum_valid_reg[i]
      /\ trans_sum_valid_reg[i] => trans'[i] = ShiftRight1(trans_sum_reg[i])
  BY <1>0 DEF TransTick, TransDivide
<1>9. trans_bigger_reg'[i] <=>
         IF trans_bigger_adder[i][L].valid THEN TransBigger(i, lim.trans_max)
         ELSE trans_bigger_reg[i]
  BY <1>0 DEF TransTick, TransTholdBigger, Out
<1>10. trans_smaller_reg'[i] <=>
         IF trans_smaller_adder[i][L].valid THEN TransSmaller(i, lim.trans_min)
         ELSE trans_smaller_reg[i]
  BY <1>0 DEF TransTick, TransTholdSmaller, Out
<1> QED
  BY <1>4, <1>5, <1>6, <1>7, <1>8, <1>9, <1>10

\* The same of the angular detector (orbit_intlk_ang.vhd).
LEMMA AngStages ==
    ASSUME TypeOK, Edge, ~ctrl.rst, NEW i \in Chans
    PROVE  /\ ang_adder'[i][1] = Feed(Presented, sample.pos["DS"][i],
                                      Not(sample.pos["US"][i]), 1)
           /\ \A k \in 2 .. L : ang_adder'[i][k] = ang_adder[i][k - 1]
           /\ ang_sum_valid_reg'[i] <=> ang_adder[i][L].valid
           /\ ang_adder[i][L].valid => ang_sum_reg'[i] = AddX2(ang_adder[i][L])
           /\ ang_bigger_adder'[i][1] =
                 Feed(ang_sum_valid_reg[i], ang_sum_reg[i], Not(lim.ang_max[i]), 1)
           /\ ang_smaller_adder'[i][1] =
                 Feed(ang_sum_valid_reg[i], Not(ang_sum_reg[i]), lim.ang_min[i], 1)
           /\ \A j \in 2 .. L :
                 /\ ang_bigger_adder'[i][j] = ang_bigger_adder[i][j - 1]
                 /\ ang_smaller_adder'[i][j] = ang_smaller_adder[i][j - 1]
           /\ ang_bigger_reg'[i] <=>
                 IF ang_bigger_adder[i][L].valid THEN AngBigger(i, lim.ang_max)
                 ELSE ang_bigger_reg[i]
           /\ ang_smaller_reg'[i] <=>
                 IF ang_smaller_adder[i][L].valid THEN AngSmaller(i, lim.ang_min)
                 ELSE ang_smaller_reg[i]
<1>0. /\ AngTick(ctrl.rst, valid, sample.pos, intlk_ang_master_en,
                 ctrl.ang_clr, lim.ang_max, lim.ang_min)
      /\ L \in Nat /\ L >= 1 /\ Stages = 1 .. L /\ AdderLatency = L
  BY LatencyAssumption DEF Edge, L, Stages
<1>1. ang_adder'[i] = Shift(ang_adder[i], Feed(Presented, sample.pos["DS"][i],
                                               Not(sample.pos["US"][i]), 1))
  BY <1>0 DEF AngTick, AngAdder, Presented
<1>2. ang_bigger_adder'[i] = Shift(ang_bigger_adder[i],
          Feed(ang_sum_valid_reg[i], ang_sum_reg[i], Not(lim.ang_max[i]), 1))
  BY <1>0 DEF AngTick, AngTholdBigger, ang, ang_valid
<1>3. ang_smaller_adder'[i] = Shift(ang_smaller_adder[i],
          Feed(ang_sum_valid_reg[i], Not(ang_sum_reg[i]), lim.ang_min[i], 1))
  BY <1>0 DEF AngTick, AngTholdSmaller, ang, ang_valid
<1>4. /\ ang_adder'[i][1] = Feed(Presented, sample.pos["DS"][i],
                                 Not(sample.pos["US"][i]), 1)
      /\ \A k \in 2 .. L : ang_adder'[i][k] = ang_adder[i][k - 1]
  BY <1>0, <1>1 DEF Shift
<1>5. /\ ang_bigger_adder'[i][1] =
            Feed(ang_sum_valid_reg[i], ang_sum_reg[i], Not(lim.ang_max[i]), 1)
      /\ \A j \in 2 .. L : ang_bigger_adder'[i][j] = ang_bigger_adder[i][j - 1]
  BY <1>0, <1>2 DEF Shift
<1>6. /\ ang_smaller_adder'[i][1] =
            Feed(ang_sum_valid_reg[i], Not(ang_sum_reg[i]), lim.ang_min[i], 1)
      /\ \A j \in 2 .. L : ang_smaller_adder'[i][j] = ang_smaller_adder[i][j - 1]
  BY <1>0, <1>3 DEF Shift
<1>7. /\ ang_sum_valid_reg'[i] <=> ang_adder[i][L].valid
      /\ ang_adder[i][L].valid => ang_sum_reg'[i] = AddX2(ang_adder[i][L])
  BY <1>0 DEF AngTick, AngReg, Out
<1>8. ang_bigger_reg'[i] <=>
         IF ang_bigger_adder[i][L].valid THEN AngBigger(i, lim.ang_max)
         ELSE ang_bigger_reg[i]
  BY <1>0 DEF AngTick, AngTholdBigger, Out
<1>9. ang_smaller_reg'[i] <=>
         IF ang_smaller_adder[i][L].valid THEN AngSmaller(i, lim.ang_min)
         ELSE ang_smaller_reg[i]
  BY <1>0 DEF AngTick, AngTholdSmaller, Out
<1> QED
  BY <1>4, <1>5, <1>6, <1>7, <1>8, <1>9

\* The gate after an edge without reset (orbit_intlk.vhd).
LEMMA GateStages ==
    ASSUME TypeOK, Edge, ~ctrl.rst
    PROVE  /\ \A b \in BPMs :
                 /\ sum_adder'[b][1] = Feed(valid[b], sample.sum[b], Not(lim.min_sum), 1)
                 /\ \A k \in 2 .. L : sum_adder'[b][k] = sum_adder[b][k - 1]
                 /\ intlk_sum_bigger_reg'[b] <=>
                       IF sum_adder[b][L].valid THEN AddC2(sum_adder[b][L])
                       ELSE intlk_sum_bigger_reg[b]
           /\ intlk_sum_bigger_any' <=> \E b \in BPMs : intlk_sum_bigger_reg[b]
           /\ intlk_trans_master_en' <=>
                 ctrl.trans_en /\ (ctrl.min_sum_en => intlk_sum_bigger_any)
           /\ intlk_ang_master_en' <=>
                 ctrl.ang_en /\ (ctrl.min_sum_en => intlk_sum_bigger_any)
<1>0. L \in Nat /\ L >= 1 /\ Stages = 1 .. L /\ AdderLatency = L
  BY LatencyAssumption DEF L, Stages
<1>1. ASSUME NEW b \in BPMs
      PROVE  /\ sum_adder'[b][1] = Feed(valid[b], sample.sum[b], Not(lim.min_sum), 1)
             /\ \A k \in 2 .. L : sum_adder'[b][k] = sum_adder[b][k - 1]
  <2>1. sum_adder'[b] = Shift(sum_adder[b],
                              Feed(valid[b], sample.sum[b], Not(lim.min_sum), 1))
    BY DEF Edge, SumThold
  <2> QED
    BY <1>0, <2>1 DEF Shift
<1>2. ASSUME NEW b \in BPMs
      PROVE  intlk_sum_bigger_reg'[b] <=>
                IF sum_adder[b][L].valid THEN AddC2(sum_adder[b][L])
                ELSE intlk_sum_bigger_reg[b]
  BY <1>0 DEF Edge, SumThold, Out
<1>3. /\ intlk_sum_bigger_any' <=> \E b \in BPMs : intlk_sum_bigger_reg[b]
      /\ intlk_trans_master_en' <=>
            ctrl.trans_en /\ (ctrl.min_sum_en => intlk_sum_bigger_any)
      /\ intlk_ang_master_en' <=>
            ctrl.ang_en /\ (ctrl.min_sum_en => intlk_sum_bigger_any)
  BY DEF Edge, RegEnable, intlk_sum_bigger_en
<1> QED
  BY <1>1, <1>2, <1>3
\* A sample, and a sample outside the limits, moves one stage per edge in the
\* translation detector.
LEMMA TransFlow ==
    ASSUME IInv, Fits, Edge, ~ctrl.rst, lim' = lim, NEW i \in Chans
    PROVE  /\ \A k \in 0 .. 2 * L + 1 : TransAt(i, k + 1)' <=> TransAt(i, k)
           /\ TransBadAt(i, 1)' <=>
                 /\ Presented
                 /\ SumOut(i, sample.pos["US"][i] + sample.pos["DS"][i])
           /\ \A k \in 1 .. 2 * L + 1 : TransBadAt(i, k + 1)' <=> TransBadAt(i, k)
<1>0. /\ L \in Nat /\ L >= 1 /\ Stages = 1 .. L /\ TypeOK /\ TransTypeOK
      /\ lim.trans_max[i] \in Words /\ lim.trans_min[i] \in Words
  BY LatencyAssumption, InputTypes DEF L, Stages, IInv, TypeOK
<1>1. /\ trans_adder'[i][1] = Feed(Presented, sample.pos["US"][i],
                                   sample.pos["DS"][i], 0)
      /\ \A k \in 2 .. L : trans_adder'[i][k] = trans_adder[i][k - 1]
      /\ trans_sum_valid_reg'[i] <=> trans_adder[i][L].valid
      /\ trans_adder[i][L].valid => trans_sum_reg'[i] = AddX2(trans_adder[i][L])
  BY <1>0, TransStages
<1>2. /\ trans_valid'[i] <=> trans_sum_valid_reg[i]
      /\ trans_sum_valid_reg[i] => trans'[i] = ShiftRight1(trans_sum_reg[i])
      /\ trans_bigger_adder'[i][1] =
            Feed(trans_valid[i], trans[i], Not(lim.trans_max[i]), 1)
      /\ trans_smaller_adder'[i][1] =
            Feed(trans_valid[i], Not(trans[i]), lim.trans_min[i], 1)
      /\ \A j \in 2 .. L :
            /\ trans_bigger_adder'[i][j] = trans_bigger_adder[i][j - 1]
            /\ trans_smaller_adder'[i][j] = trans_smaller_adder[i][j - 1]
  BY <1>0, TransStages
<1>3. /\ trans_adder'[i][1].valid <=> Presented
      /\ Presented => /\ trans_adder'[i][1].a = sample.pos["US"][i]
                      /\ trans_adder'[i][1].b = sample.pos["DS"][i]
  BY <1>1 DEF Feed, Idle
<1>4. /\ trans_bigger_adder'[i][1].valid <=> trans_valid[i]
      /\ trans_valid[i] => /\ trans_bigger_adder'[i][1].a = trans[i]
                           /\ trans_bigger_adder'[i][1].b = Not(lim.trans_max[i])
                           /\ trans_smaller_adder'[i][1].b = lim.trans_min[i]
  BY <1>2 DEF Feed, Idle
<1>5. TransBadAt(i, 1)' <=>
         /\ Presented
         /\ SumOut(i, sample.pos["US"][i] + sample.pos["DS"][i])
  BY <1>0, <1>3 DEF TransBadAt, SumOut
<1>6. ASSUME NEW k \in 0 .. 2 * L + 1
      PROVE  /\ TransAt(i, k + 1)' <=> TransAt(i, k)
             /\ k >= 1 => (TransBadAt(i, k + 1)' <=> TransBadAt(i, k))
  <2>1. CASE k = 0
    <3>1. TransAt(i, 0) <=> Presented
      BY <1>0 DEF TransAt, Presented
    <3>2. TransAt(i, 1)' <=> trans_adder'[i][1].valid
      BY <1>0 DEF TransAt
    <3> QED
      BY <1>3, <2>1, <3>1, <3>2
  <2>2. CASE k >= 1 /\ k < L
    <3>1. /\ k \in 1 .. L /\ k + 1 \in 1 .. L /\ k + 1 \in 2 .. L /\ k # 0 /\ k + 1 # 0
          /\ (k + 1) - 1 = k /\ k # L + 1 /\ k # L + 2 /\ k + 1 # L + 1 /\ k + 1 # L + 2
      BY <1>0, <2>2
    <3>2. trans_adder'[i][k + 1] = trans_adder[i][k]
      BY <1>1, <3>1
    <3>3. /\ TransAt(i, k + 1)' <=> trans_adder'[i][k + 1].valid
          /\ TransAt(i, k) <=> trans_adder[i][k].valid
      BY <3>1 DEF TransAt
    <3>4. /\ TransBadAt(i, k + 1)' <=>
                /\ trans_adder'[i][k + 1].valid
                /\ SumOut(i, trans_adder'[i][k + 1].a + trans_adder'[i][k + 1].b)
          /\ TransBadAt(i, k) <=>
                /\ trans_adder[i][k].valid
                /\ SumOut(i, trans_adder[i][k].a + trans_adder[i][k].b)
      BY <3>1 DEF TransBadAt, SumOut
    <3> QED
      BY <3>2, <3>3, <3>4
  <2>3. CASE k = L
    <3>1. k \in 1 .. L /\ k + 1 = L + 1 /\ k + 1 # 0 /\ k # 0 /\ k + 1 \notin 1 .. L
      BY <1>0, <2>3
    <3>2. TransAt(i, k + 1)' <=> TransAt(i, k)
      BY <1>1, <2>3, <3>1 DEF TransAt
    <3>3. trans_adder[i][L].valid =>
             trans_sum_reg'[i] = trans_adder[i][L].a + trans_adder[i][L].b
      <4> SUFFICES ASSUME trans_adder[i][L].valid
                   PROVE  trans_sum_reg'[i] = trans_adder[i][L].a + trans_adder[i][L].b
        OBVIOUS
      <4>1. PICK e \in Operands : e = trans_adder[i][L]
        BY <1>0 DEF TransTypeOK, Pipes
      <4>2. e.c = 0 /\ e.a + e.b \in Words /\ e.a \in Words /\ e.b \in Words
        BY <1>0, <4>1 DEF Fits, Operands
      <4>3. AddX2(e) = e.a + e.b
        BY <4>2, HalfAssumption DEF AddX2, Words
      <4> QED
        BY <1>1, <4>1, <4>3
    <3>4. /\ TransBadAt(i, k + 1)' <=>
                trans_sum_valid_reg'[i] /\ SumOut(i, trans_sum_reg'[i])
          /\ TransBadAt(i, k) <=>
                /\ trans_adder[i][L].valid
                /\ SumOut(i, trans_adder[i][L].a + trans_adder[i][L].b)
      BY <2>3, <3>1 DEF TransBadAt, SumOut
    <3> QED
      BY <1>1, <3>2, <3>3, <3>4
  <2>4. CASE k = L + 1
    <3>1. /\ k \notin 1 .. L /\ k + 1 \notin 1 .. L /\ k + 1 = L + 2 /\ k # 0
          /\ k + 1 # 0 /\ k + 1 # L + 1
      BY <1>0, <2>4
    <3>2. TransAt(i, k + 1)' <=> TransAt(i, k)
      BY <1>2, <2>4, <3>1 DEF TransAt
    <3>3. /\ TransBadAt(i, k + 1)' <=> trans_valid'[i] /\ TransOut(i, trans'[i])
          /\ TransBadAt(i, k) <=> trans_sum_valid_reg[i] /\ SumOut(i, trans_sum_reg[i])
      BY <2>4, <3>1 DEF TransBadAt, SumOut, TransOut
    <3>4. TransOut(i, ShiftRight1(trans_sum_reg[i])) <=> SumOut(i, trans_sum_reg[i])
      <4>1. trans_sum_reg[i] \in Words
        BY <1>0 DEF TransTypeOK
      <4> QED
        BY <1>0, <4>1, MeanExact DEF TransOut, SumOut
    <3> QED
      BY <1>2, <3>2, <3>3, <3>4
  <2>5. CASE k = L + 2
    <3>1. /\ k \notin 1 .. L /\ k + 1 \notin 1 .. L /\ k # L + 1 /\ k # 0
          /\ k + 1 # 0 /\ k + 1 # L + 1 /\ k + 1 # L + 2 /\ (k + 1) - L - 2 = 1
      BY <1>0, <2>5
    <3>2. TransAt(i, k + 1)' <=> TransAt(i, k)
      BY <1>4, <2>5, <3>1 DEF TransAt
    <3>3. /\ TransBadAt(i, k + 1)' <=>
                /\ trans_bigger_adder'[i][1].valid
                /\ TransOut(i, trans_bigger_adder'[i][1].a)
                /\ trans_bigger_adder'[i][1].b = Not(lim.trans_max[i])
                /\ trans_smaller_adder'[i][1].b = lim.trans_min[i]
          /\ TransBadAt(i, k) <=> trans_valid[i] /\ TransOut(i, trans[i])
      BY <2>5, <3>1 DEF TransBadAt, TransOut
    <3> QED
      BY <1>4, <3>2, <3>3
  <2>6. CASE k > L + 2
    <3>1. PICK j \in 2 .. L : j = (k + 1) - L - 2
      BY <1>0, <2>6
    <3>2. /\ k \notin 1 .. L /\ k + 1 \notin 1 .. L /\ k # L + 1 /\ k # L + 2 /\ k # 0
          /\ k + 1 # 0 /\ k + 1 # L + 1 /\ k + 1 # L + 2 /\ k - L - 2 = j - 1
      BY <1>0, <2>6, <3>1
    <3>3. /\ trans_bigger_adder'[i][j] = trans_bigger_adder[i][j - 1]
          /\ trans_smaller_adder'[i][j] = trans_smaller_adder[i][j - 1]
      BY <1>2
    <3>4. /\ TransAt(i, k + 1)' <=> trans_bigger_adder'[i][j].valid
          /\ TransAt(i, k) <=> trans_bigger_adder[i][j - 1].valid
      BY <3>1, <3>2 DEF TransAt
    <3>5. /\ TransBadAt(i, k + 1)' <=>
                /\ trans_bigger_adder'[i][j].valid
                /\ TransOut(i, trans_bigger_adder'[i][j].a)
                /\ trans_bigger_adder'[i][j].b = Not(lim.trans_max[i])
                /\ trans_smaller_adder'[i][j].b = lim.trans_min[i]
          /\ TransBadAt(i, k) <=>
                /\ trans_bigger_adder[i][j - 1].valid
                /\ TransOut(i, trans_bigger_adder[i][j - 1].a)
                /\ trans_bigger_adder[i][j - 1].b = Not(lim.trans_max[i])
                /\ trans_smaller_adder[i][j - 1].b = lim.trans_min[i]
      BY <3>1, <3>2 DEF TransBadAt, TransOut
    <3> QED
      BY <3>3, <3>4, <3>5
  <2> QED
    BY <1>0, <2>1, <2>2, <2>3, <2>4, <2>5, <2>6
<1> QED
  BY <1>0, <1>5, <1>6

\* A sample outside the limits is a sample.
LEMMA TransBadIsAt ==
    ASSUME NEW i \in Chans, NEW k \in 1 .. TransLast, TransBadAt(i, k)
    PROVE  TransAt(i, k)
<1>0. L \in Nat /\ L >= 1
  BY LatencyAssumption DEF L
<1> QED
  BY <1>0 DEF TransAt, TransBadAt, TransLast

\* The same of the angular detector.
LEMMA AngFlow ==
    ASSUME IInv, Fits, Edge, ~ctrl.rst, lim' = lim, NEW i \in Chans
    PROVE  /\ \A k \in 0 .. 2 * L : AngAt(i, k + 1)' <=> AngAt(i, k)
           /\ AngBadAt(i, 1)' <=>
                 /\ Presented
                 /\ AngOut(i, sample.pos["DS"][i] - sample.pos["US"][i])
           /\ \A k \in 1 .. 2 * L : AngBadAt(i, k + 1)' <=> AngBadAt(i, k)
<1>0. /\ L \in Nat /\ L >= 1 /\ Stages = 1 .. L /\ TypeOK /\ AngTypeOK
      /\ lim.ang_max[i] \in Words /\ lim.ang_min[i] \in Words
      /\ sample.pos["DS"][i] \in Words /\ sample.pos["US"][i] \in Words
  BY LatencyAssumption, InputTypes DEF L, Stages, IInv, TypeOK, BPMs
<1>1. /\ ang_adder'[i][1] = Feed(Presented, sample.pos["DS"][i],
                                 Not(sample.pos["US"][i]), 1)
      /\ \A k \in 2 .. L : ang_adder'[i][k] = ang_adder[i][k - 1]
      /\ ang_sum_valid_reg'[i] <=> ang_adder[i][L].valid
      /\ ang_adder[i][L].valid => ang_sum_reg'[i] = AddX2(ang_adder[i][L])
  BY <1>0, AngStages
<1>2. /\ ang_bigger_adder'[i][1] =
            Feed(ang_sum_valid_reg[i], ang_sum_reg[i], Not(lim.ang_max[i]), 1)
      /\ ang_smaller_adder'[i][1] =
            Feed(ang_sum_valid_reg[i], Not(ang_sum_reg[i]), lim.ang_min[i], 1)
      /\ \A j \in 2 .. L :
            /\ ang_bigger_adder'[i][j] = ang_bigger_adder[i][j - 1]
            /\ ang_smaller_adder'[i][j] = ang_smaller_adder[i][j - 1]
  BY <1>0, AngStages
<1>3. /\ ang_adder'[i][1].valid <=> Presented
      /\ Presented => /\ ang_adder'[i][1].a = sample.pos["DS"][i]
                      /\ ang_adder'[i][1].b = Not(sample.pos["US"][i])
  BY <1>1 DEF Feed, Idle
<1>4. /\ ang_bigger_adder'[i][1].valid <=> ang_sum_valid_reg[i]
      /\ ang_sum_valid_reg[i] => /\ ang_bigger_adder'[i][1].a = ang_sum_reg[i]
                                 /\ ang_bigger_adder'[i][1].b = Not(lim.ang_max[i])
                                 /\ ang_smaller_adder'[i][1].b = lim.ang_min[i]
  BY <1>2 DEF Feed, Idle
<1>5. AngBadAt(i, 1)' <=>
         /\ Presented
         /\ AngOut(i, sample.pos["DS"][i] - sample.pos["US"][i])
  <2>1. sample.pos["DS"][i] + Not(sample.pos["US"][i]) + 1
           = sample.pos["DS"][i] - sample.pos["US"][i]
    <3>1. PICK d \in Words, u \in Words : d = sample.pos["DS"][i] /\ u = sample.pos["US"][i]
      BY <1>0
    <3>2. d + Not(u) + 1 = d - u
      BY HalfAssumption DEF Words, Not
    <3> QED
      BY <3>1, <3>2
  <2>2. AngBadAt(i, 1)' <=>
           /\ ang_adder'[i][1].valid
           /\ AngOut(i, ang_adder'[i][1].a + ang_adder'[i][1].b + 1)
    BY <1>0 DEF AngBadAt, AngOut
  <2> QED
    BY <1>3, <2>1, <2>2
<1>6. ASSUME NEW k \in 0 .. 2 * L
      PROVE  /\ AngAt(i, k + 1)' <=> AngAt(i, k)
             /\ k >= 1 => (AngBadAt(i, k + 1)' <=> AngBadAt(i, k))
  <2>1. CASE k = 0
    <3>1. AngAt(i, 0) <=> Presented
      BY <1>0 DEF AngAt, Presented
    <3>2. AngAt(i, 1)' <=> ang_adder'[i][1].valid
      BY <1>0 DEF AngAt
    <3> QED
      BY <1>3, <2>1, <3>1, <3>2
  <2>2. CASE k >= 1 /\ k < L
    <3>1. /\ k \in 1 .. L /\ k + 1 \in 1 .. L /\ k + 1 \in 2 .. L /\ k # 0 /\ k + 1 # 0
          /\ (k + 1) - 1 = k /\ k # L + 1 /\ k # L + 2 /\ k + 1 # L + 1 /\ k + 1 # L + 2
      BY <1>0, <2>2
    <3>2. ang_adder'[i][k + 1] = ang_adder[i][k]
      BY <1>1, <3>1
    <3>3. /\ AngAt(i, k + 1)' <=> ang_adder'[i][k + 1].valid
          /\ AngAt(i, k) <=> ang_adder[i][k].valid
      BY <3>1 DEF AngAt
    <3>4. /\ AngBadAt(i, k + 1)' <=>
                /\ ang_adder'[i][k + 1].valid
                /\ AngOut(i, ang_adder'[i][k + 1].a + ang_adder'[i][k + 1].b + 1)
          /\ AngBadAt(i, k) <=>
                /\ ang_adder[i][k].valid
                /\ AngOut(i, ang_adder[i][k].a + ang_adder[i][k].b + 1)
      BY <3>1 DEF AngBadAt, AngOut
    <3> QED
      BY <3>2, <3>3, <3>4
  <2>3. CASE k = L
    <3>1. k \in 1 .. L /\ k + 1 = L + 1 /\ k + 1 # 0 /\ k # 0 /\ k + 1 \notin 1 .. L
      BY <1>0, <2>3
    <3>2. AngAt(i, k + 1)' <=> AngAt(i, k)
      BY <1>1, <2>3, <3>1 DEF AngAt
    <3>3. ang_adder[i][L].valid =>
             ang_sum_reg'[i] = ang_adder[i][L].a + ang_adder[i][L].b + 1
      <4> SUFFICES ASSUME ang_adder[i][L].valid
                   PROVE  ang_sum_reg'[i] = ang_adder[i][L].a + ang_adder[i][L].b + 1
        OBVIOUS
      <4>1. PICK e \in Operands : e = ang_adder[i][L]
        BY <1>0 DEF AngTypeOK, Pipes
      <4>2. e.c = 1 /\ e.a + e.b + 1 \in Words /\ e.a \in Words /\ e.b \in Words
        BY <1>0, <4>1 DEF Fits, Operands
      <4>3. AddX2(e) = e.a + e.b + 1
        BY <4>2, HalfAssumption DEF AddX2, Words
      <4> QED
        BY <1>1, <4>1, <4>3
    <3>4. /\ AngBadAt(i, k + 1)' <=>
                ang_sum_valid_reg'[i] /\ AngOut(i, ang_sum_reg'[i])
          /\ AngBadAt(i, k) <=>
                /\ ang_adder[i][L].valid
                /\ AngOut(i, ang_adder[i][L].a + ang_adder[i][L].b + 1)
      BY <2>3, <3>1 DEF AngBadAt, AngOut
    <3> QED
      BY <1>1, <3>2, <3>3, <3>4
  <2>4. CASE k = L + 1
    <3>1. /\ k \notin 1 .. L /\ k + 1 \notin 1 .. L /\ k # 0
          /\ k + 1 # 0 /\ k + 1 # L + 1 /\ (k + 1) - L - 1 = 1
      BY <1>0, <2>4
    <3>2. AngAt(i, k + 1)' <=> AngAt(i, k)
      BY <1>4, <2>4, <3>1 DEF AngAt
    <3>3. /\ AngBadAt(i, k + 1)' <=>
                /\ ang_bigger_adder'[i][1].valid
                /\ AngOut(i, ang_bigger_adder'[i][1].a)
                /\ ang_bigger_adder'[i][1].b = Not(lim.ang_max[i])
                /\ ang_smaller_adder'[i][1].b = lim.ang_min[i]
          /\ AngBadAt(i, k) <=> ang_sum_valid_reg[i] /\ AngOut(i, ang_sum_reg[i])
      BY <2>4, <3>1 DEF AngBadAt, AngOut
    <3> QED
      BY <1>4, <3>2, <3>3
  <2>5. CASE k > L + 1
    <3>1. PICK j \in 2 .. L : j = (k + 1) - L - 1
      BY <1>0, <2>5
    <3>2. /\ k \notin 1 .. L /\ k + 1 \notin 1 .. L /\ k # L + 1 /\ k # 0
          /\ k + 1 # 0 /\ k + 1 # L + 1 /\ k - L - 1 = j - 1
      BY <1>0, <2>5, <3>1
    <3>3. /\ ang_bigger_adder'[i][j] = ang_bigger_adder[i][j - 1]
          /\ ang_smaller_adder'[i][j] = ang_smaller_adder[i][j - 1]
      BY <1>2
    <3>4. /\ AngAt(i, k + 1)' <=> ang_bigger_adder'[i][j].valid
          /\ AngAt(i, k) <=> ang_bigger_adder[i][j - 1].valid
      BY <3>1, <3>2 DEF AngAt
    <3>5. /\ AngBadAt(i, k + 1)' <=>
                /\ ang_bigger_adder'[i][j].valid
                /\ AngOut(i, ang_bigger_adder'[i][j].a)
                /\ ang_bigger_adder'[i][j].b = Not(lim.ang_max[i])
                /\ ang_smaller_adder'[i][j].b = lim.ang_min[i]
          /\ AngBadAt(i, k) <=>
                /\ ang_bigger_adder[i][j - 1].valid
                /\ AngOut(i, ang_bigger_adder[i][j - 1].a)
                /\ ang_bigger_adder[i][j - 1].b = Not(lim.ang_max[i])
                /\ ang_smaller_adder[i][j - 1].b = lim.ang_min[i]
      BY <3>1, <3>2 DEF AngBadAt, AngOut
    <3> QED
      BY <3>3, <3>4, <3>5
  <2> QED
    BY <1>0, <2>1, <2>2, <2>3, <2>4, <2>5
<1> QED
  BY <1>0, <1>5, <1>6

\* A sample outside the limits is a sample.
LEMMA AngBadIsAt ==
    ASSUME NEW i \in Chans, NEW k \in 1 .. AngLast, AngBadAt(i, k)
    PROVE  AngAt(i, k)
<1>0. L \in Nat /\ L >= 1
  BY LatencyAssumption DEF L
<1> QED
  BY <1>0 DEF AngAt, AngBadAt, AngLast

\* The registered verdict is that of the sample that was at the end of the
\* comparators: outside the limits if that sample was and, as long as the
\* limits are kept, only then.
LEMMA TransVerdictStep ==
    ASSUME IInv, Edge, ~ctrl.rst, NEW i \in Chans
    PROVE  /\ TransBadAt(i, TransLast) => TransVerdict(i)'
           /\ ~TransAt(i, TransLast) /\ TransVerdict(i)' => TransVerdict(i)
           /\ LimitsKept /\ ~upset /\ TransAt(i, TransLast) /\ TransVerdict(i)'
                 => TransBadAt(i, TransLast)
<1>0. /\ L \in Nat /\ L >= 1 /\ L \in Stages /\ TypeOK /\ TransTypeOK /\ TransLast - L - 2 = L
      /\ TransLast \notin 1 .. L /\ TransLast # L + 1 /\ TransLast # L + 2 /\ TransLast # 0
      /\ AdderLatency = L
  BY LatencyAssumption DEF L, Stages, IInv, TypeOK, TransLast
<1>1. /\ trans_bigger_reg'[i] <=>
            IF trans_bigger_adder[i][L].valid THEN TransBigger(i, lim.trans_max)
            ELSE trans_bigger_reg[i]
      /\ trans_smaller_reg'[i] <=>
            IF trans_smaller_adder[i][L].valid THEN TransSmaller(i, lim.trans_min)
            ELSE trans_smaller_reg[i]
  BY <1>0, TransStages
<1>2. /\ trans_smaller_adder[i][L].valid = trans_bigger_adder[i][L].valid
      /\ trans_bigger_adder[i][L].valid =>
            /\ trans_bigger_adder[i][L].a = trans[i]
            /\ trans_smaller_adder[i][L].a = Not(trans[i])
  BY <1>0 DEF IInv, TransCoherent
<1>3. Not(Not(trans[i])) = trans[i]
  <2>1. trans[i] \in Words
    BY <1>0 DEF TransTypeOK
  <2> QED
    BY <2>1, HalfAssumption DEF Words, Not
<1>4. /\ trans_bigger_adder[i][L].valid
            /\ trans_bigger_adder[i][L].b = Not(lim.trans_max[i])
            => (TransBigger(i, lim.trans_max) <=> trans[i] >= lim.trans_max[i])
      /\ trans_bigger_adder[i][L].valid
            /\ trans_smaller_adder[i][L].b = lim.trans_min[i]
            => (TransSmaller(i, lim.trans_min) <=> trans[i] <= lim.trans_min[i])
  <2>1. VerdictExact
    BY InvImpliesExact
  <2>2. /\ Out(trans_bigger_adder[i]) = trans_bigger_adder[i][L]
        /\ Out(trans_smaller_adder[i]) = trans_smaller_adder[i][L]
    BY <1>0 DEF Out
  <2> QED
    BY <1>2, <1>3, <2>1, <2>2 DEF VerdictExact
<1>5. TransAt(i, TransLast) <=> trans_bigger_adder[i][L].valid
  BY <1>0 DEF TransAt
<1>6. TransBadAt(i, TransLast) <=>
         /\ trans_bigger_adder[i][L].valid
         /\ TransOut(i, trans_bigger_adder[i][L].a)
         /\ trans_bigger_adder[i][L].b = Not(lim.trans_max[i])
         /\ trans_smaller_adder[i][L].b = lim.trans_min[i]
  BY <1>0 DEF TransBadAt
<1>7. /\ TransVerdict(i)' <=> trans_bigger_reg'[i] \/ trans_smaller_reg'[i]
      /\ TransVerdict(i) <=> trans_bigger_reg[i] \/ trans_smaller_reg[i]
  BY DEF TransVerdict
<1>8. TransBadAt(i, TransLast) => TransVerdict(i)'
  BY <1>1, <1>2, <1>4, <1>6, <1>7 DEF TransOut
<1>9. ~TransAt(i, TransLast) /\ TransVerdict(i)' => TransVerdict(i)
  BY <1>1, <1>2, <1>5, <1>7
<1>10. ASSUME LimitsKept, ~upset, TransAt(i, TransLast), TransVerdict(i)'
       PROVE  TransBadAt(i, TransLast)
  <2>1. /\ trans_bigger_adder[i][L].b = Not(lim.trans_max[i])
        /\ trans_smaller_adder[i][L].b = lim.trans_min[i]
    BY <1>0, <1>5, <1>10 DEF LimitsKept
  <2> QED
    BY <1>1, <1>2, <1>4, <1>5, <1>6, <1>7, <1>10, <2>1 DEF TransOut
<1> QED
  BY <1>8, <1>9, <1>10

\* The same of the angular detector.
LEMMA AngVerdictStep ==
    ASSUME IInv, Edge, ~ctrl.rst, NEW i \in Chans
    PROVE  /\ AngBadAt(i, AngLast) => AngVerdict(i)'
           /\ ~AngAt(i, AngLast) /\ AngVerdict(i)' => AngVerdict(i)
           /\ LimitsKept /\ ~upset /\ AngAt(i, AngLast) /\ AngVerdict(i)'
                 => AngBadAt(i, AngLast)
<1>0. /\ L \in Nat /\ L >= 1 /\ L \in Stages /\ TypeOK /\ AngTypeOK /\ AngLast - L - 1 = L
      /\ AngLast \notin 1 .. L /\ AngLast # L + 1 /\ AngLast # 0
      /\ AdderLatency = L
  BY LatencyAssumption DEF L, Stages, IInv, TypeOK, AngLast
<1>1. /\ ang_bigger_reg'[i] <=>
            IF ang_bigger_adder[i][L].valid THEN AngBigger(i, lim.ang_max)
            ELSE ang_bigger_reg[i]
      /\ ang_smaller_reg'[i] <=>
            IF ang_smaller_adder[i][L].valid THEN AngSmaller(i, lim.ang_min)
            ELSE ang_smaller_reg[i]
  BY <1>0, AngStages
<1>2. /\ ang_smaller_adder[i][L].valid = ang_bigger_adder[i][L].valid
      /\ ang_bigger_adder[i][L].valid =>
            /\ ang_bigger_adder[i][L].a = ang_sum_reg[i]
            /\ ang_smaller_adder[i][L].a = Not(ang_sum_reg[i])
  BY <1>0 DEF IInv, AngCoherent
<1>3. Not(Not(ang_sum_reg[i])) = ang_sum_reg[i]
  <2>1. ang_sum_reg[i] \in Words
    BY <1>0 DEF AngTypeOK
  <2> QED
    BY <2>1, HalfAssumption DEF Words, Not
<1>4. /\ ang_bigger_adder[i][L].valid
            /\ ang_bigger_adder[i][L].b = Not(lim.ang_max[i])
            => (AngBigger(i, lim.ang_max) <=> ang_sum_reg[i] >= lim.ang_max[i])
      /\ ang_bigger_adder[i][L].valid
            /\ ang_smaller_adder[i][L].b = lim.ang_min[i]
            => (AngSmaller(i, lim.ang_min) <=> ang_sum_reg[i] <= lim.ang_min[i])
  <2>1. VerdictExact
    BY InvImpliesExact
  <2>2. /\ Out(ang_bigger_adder[i]) = ang_bigger_adder[i][L]
        /\ Out(ang_smaller_adder[i]) = ang_smaller_adder[i][L]
    BY <1>0 DEF Out
  <2> QED
    BY <1>2, <1>3, <2>1, <2>2 DEF VerdictExact, ang
<1>5. AngAt(i, AngLast) <=> ang_bigger_adder[i][L].valid
  BY <1>0 DEF AngAt
<1>6. AngBadAt(i, AngLast) <=>
         /\ ang_bigger_adder[i][L].valid
         /\ AngOut(i, ang_bigger_adder[i][L].a)
         /\ ang_bigger_adder[i][L].b = Not(lim.ang_max[i])
         /\ ang_smaller_adder[i][L].b = lim.ang_min[i]
  BY <1>0 DEF AngBadAt
<1>7. /\ AngVerdict(i)' <=> ang_bigger_reg'[i] \/ ang_smaller_reg'[i]
      /\ AngVerdict(i) <=> ang_bigger_reg[i] \/ ang_smaller_reg[i]
  BY DEF AngVerdict
<1>8. AngBadAt(i, AngLast) => AngVerdict(i)'
  BY <1>1, <1>2, <1>4, <1>6, <1>7 DEF AngOut
<1>9. ~AngAt(i, AngLast) /\ AngVerdict(i)' => AngVerdict(i)
  BY <1>1, <1>2, <1>5, <1>7
<1>10. ASSUME LimitsKept, ~upset, AngAt(i, AngLast), AngVerdict(i)'
       PROVE  AngBadAt(i, AngLast)
  <2>1. /\ ang_bigger_adder[i][L].b = Not(lim.ang_max[i])
        /\ ang_smaller_adder[i][L].b = lim.ang_min[i]
    BY <1>0, <1>5, <1>10 DEF LimitsKept
  <2> QED
    BY <1>1, <1>2, <1>4, <1>5, <1>6, <1>7, <1>10, <2>1 DEF AngOut
<1> QED
  BY <1>8, <1>9, <1>10
\* What the gate holds moves with the sample it belongs to, up to the register
\* that keeps it until the next sample.
LEMMA GateFlow ==
    ASSUME IInv, Together, Edge, ~ctrl.rst, lim' = lim,
           ctrl'.min_sum_en = ctrl.min_sum_en, NEW i \in Chans
    PROVE  /\ Presented => (Enough(1)' <=> SumOk(sample, lim, ctrl))
           /\ ctrl.min_sum_en /\ Enough(1)' => Presented
           /\ \A k \in 1 .. L - 1 : Enough(k + 1)' <=> Enough(k)
           /\ Enough(L + 1)' <=> IF trans_adder[i][L].valid THEN Enough(L)
                                 ELSE Enough(L + 1)
           /\ Enough(L + 2)' <=> Enough(L + 1)
           /\ intlk_trans_master_en' <=> ctrl.trans_en /\ Enough(L + 2)
           /\ intlk_ang_master_en' <=> ctrl.ang_en /\ Enough(L + 2)
<1>0. /\ L \in Nat /\ L >= 1 /\ Stages = 1 .. L /\ TypeOK /\ lim.min_sum \in Words
      /\ L + 1 \notin 1 .. L /\ L + 2 \notin 1 .. L /\ L + 2 # L + 1
      /\ L \in 1 .. L /\ 1 \in 1 .. L
  BY LatencyAssumption, InputTypes DEF L, Stages, IInv
<1>1. /\ \A b \in BPMs :
            /\ sum_adder'[b][1] = Feed(valid[b], sample.sum[b], Not(lim.min_sum), 1)
            /\ \A k \in 2 .. L : sum_adder'[b][k] = sum_adder[b][k - 1]
            /\ intlk_sum_bigger_reg'[b] <=>
                  IF sum_adder[b][L].valid THEN AddC2(sum_adder[b][L])
                  ELSE intlk_sum_bigger_reg[b]
      /\ intlk_sum_bigger_any' <=> \E b \in BPMs : intlk_sum_bigger_reg[b]
      /\ intlk_trans_master_en' <=>
            ctrl.trans_en /\ (ctrl.min_sum_en => intlk_sum_bigger_any)
      /\ intlk_ang_master_en' <=>
            ctrl.ang_en /\ (ctrl.min_sum_en => intlk_sum_bigger_any)
  BY <1>0, GateStages
<1>2. \A b \in BPMs : sum_adder[b][L].valid = trans_adder[i][L].valid
  BY <1>0 DEF Together
<1>3. /\ Enough(1)' <=> (ctrl.min_sum_en => \E b \in BPMs : /\ sum_adder'[b][1].valid
                                                            /\ AddC2(sum_adder'[b][1]))
      /\ Enough(L) <=> (ctrl.min_sum_en => \E b \in BPMs : /\ sum_adder[b][L].valid
                                                           /\ AddC2(sum_adder[b][L]))
      /\ Enough(L + 1) <=> (ctrl.min_sum_en => \E b \in BPMs : intlk_sum_bigger_reg[b])
      /\ Enough(L + 1)' <=> (ctrl.min_sum_en => \E b \in BPMs : intlk_sum_bigger_reg'[b])
      /\ Enough(L + 2) <=> (ctrl.min_sum_en => intlk_sum_bigger_any)
      /\ Enough(L + 2)' <=> (ctrl.min_sum_en => intlk_sum_bigger_any')
  BY <1>0 DEF Enough
<1>4. ASSUME NEW b \in BPMs
      PROVE  sum_adder'[b][1].valid /\ AddC2(sum_adder'[b][1])
                <=> valid[b] /\ Unsigned(sample.sum[b]) >= Unsigned(lim.min_sum)
  <2>1. CASE valid[b]
    <3>1. sum_adder'[b][1] = Feed(TRUE, sample.sum[b], Not(lim.min_sum), 1)
      BY <1>1, <2>1 DEF Feed
    <3>2. sum_adder'[b][1].valid
      BY <3>1 DEF Feed
    <3>3. sample.sum[b] \in Words
      BY <1>0, InputTypes
    <3> QED
      BY <1>0, <2>1, <3>1, <3>2, <3>3, SumExact
  <2>2. CASE ~valid[b]
    <3>1. sum_adder'[b][1] = Idle
      BY <1>1, <2>2 DEF Feed
    <3>2. ~sum_adder'[b][1].valid
      BY <3>1 DEF Idle
    <3> QED
      BY <2>2, <3>2
  <2> QED
    BY <2>1, <2>2
<1>5. Presented => (Enough(1)' <=> SumOk(sample, lim, ctrl))
  BY <1>3, <1>4 DEF Presented, SumOk
<1>6. ctrl.min_sum_en /\ Enough(1)' => Presented
  BY <1>3, <1>4 DEF Presented, Together, BPMs
<1>7. ASSUME NEW k \in 1 .. L - 1
      PROVE  Enough(k + 1)' <=> Enough(k)
  <2>1. /\ k \in 1 .. L /\ k + 1 \in 1 .. L /\ k + 1 \in 2 .. L /\ (k + 1) - 1 = k
        /\ k # L + 1 /\ k + 1 # L + 1
    BY <1>0
  <2>2. \A b \in BPMs : sum_adder'[b][k + 1] = sum_adder[b][k]
    BY <1>1, <2>1
  <2>3. /\ Enough(k) <=> (ctrl.min_sum_en => \E b \in BPMs : /\ sum_adder[b][k].valid
                                                             /\ AddC2(sum_adder[b][k]))
        /\ Enough(k + 1)' <=>
              (ctrl.min_sum_en => \E b \in BPMs : /\ sum_adder'[b][k + 1].valid
                                                  /\ AddC2(sum_adder'[b][k + 1]))
    BY <2>1 DEF Enough
  <2> QED
    BY <2>2, <2>3
<1>8. Enough(L + 1)' <=> IF trans_adder[i][L].valid THEN Enough(L) ELSE Enough(L + 1)
  BY <1>1, <1>2, <1>3
<1>9. /\ Enough(L + 2)' <=> Enough(L + 1)
      /\ intlk_trans_master_en' <=> ctrl.trans_en /\ Enough(L + 2)
      /\ intlk_ang_master_en' <=> ctrl.ang_en /\ Enough(L + 2)
  BY <1>1, <1>3
<1> QED
  BY <1>5, <1>6, <1>7, <1>8, <1>9

\* The pipelines stay in step.
LEMMA TogetherStep ==
    ASSUME TypeOK, Together, Next
    PROVE  Together'
<1>0. /\ Edge /\ (NewSample \/ NoSample) /\ L \in Nat /\ L >= 1 /\ Stages = 1 .. L
      /\ TransTick(ctrl.rst, valid, sample.pos, intlk_trans_master_en,
                   ctrl.trans_clr, lim.trans_max, lim.trans_min)
      /\ AngTick(ctrl.rst, valid, sample.pos, intlk_ang_master_en,
                 ctrl.ang_clr, lim.ang_max, lim.ang_min)
  BY LatencyAssumption DEF Next, Edge, L, Stages
<1>1. valid'["DS"] = valid'["US"]
  BY <1>0 DEF NewSample, NoSample, BPMs
<1>2. ASSUME NEW i \in Chans, NEW b \in BPMs, NEW k \in Stages
      PROVE  /\ sum_adder'[b][k].valid = trans_adder'[i][k].valid
             /\ sum_adder'[b][k].valid = ang_adder'[i][k].valid
  <2> DEFINE s == Feed(valid[b], sample.sum[b], Not(lim.min_sum), 1)
             t == Feed(Presented, sample.pos["US"][i], sample.pos["DS"][i], 0)
             a == Feed(Presented, sample.pos["DS"][i], Not(sample.pos["US"][i]), 1)
  <2>1. /\ sum_adder'[b] = Shift(sum_adder[b], s)
        /\ trans_adder'[i] = Shift(trans_adder[i], t)
        /\ ang_adder'[i] = Shift(ang_adder[i], a)
    BY <1>0 DEF Edge, SumThold, TransTick, TransAdder, AngTick, AngAdder, Presented
  <2>2. s.valid = valid[b] /\ t.valid = valid[b] /\ a.valid = valid[b]
    <3>1. valid[b] \in BOOLEAN /\ (Presented <=> valid[b])
      BY DEF Together, TypeOK, Presented, BPMs
    <3>2. CASE valid[b]
      <4>1. s.valid = TRUE /\ t.valid = TRUE /\ a.valid = TRUE /\ valid[b] = TRUE
        BY <3>1, <3>2 DEF Feed
      <4> QED
        BY <4>1
    <3>3. CASE ~valid[b]
      <4>1. s.valid = FALSE /\ t.valid = FALSE /\ a.valid = FALSE /\ valid[b] = FALSE
        BY <3>1, <3>3 DEF Feed, Idle
      <4> QED
        BY <4>1
    <3> QED
      BY <3>2, <3>3
  <2> HIDE DEF s, t, a
  <2>3. CASE k = 1
    <3>1. sum_adder'[b][k] = s /\ trans_adder'[i][k] = t /\ ang_adder'[i][k] = a
      BY <2>1, <2>3 DEF Shift
    <3> QED
      BY <2>2, <3>1
  <2>4. CASE k > 1
    <3>1. PICK n \in Stages : n = k - 1
      BY <1>0, <2>4
    <3>2. /\ sum_adder'[b][k] = sum_adder[b][n] /\ trans_adder'[i][k] = trans_adder[i][n]
          /\ ang_adder'[i][k] = ang_adder[i][n]
      BY <2>1, <2>4, <3>1 DEF Shift
    <3> QED
      BY <3>2 DEF Together
  <2> QED
    BY <1>0, <2>3, <2>4
<1> QED
  BY <1>1, <1>2 DEF Together

\* If the samples fit, what is in the adders does.
LEMMA FitsStep ==
    ASSUME NoOverflow, TypeOK, Fits, Next
    PROVE  Fits'
<1>0. /\ Edge /\ L \in Nat /\ L >= 1 /\ Stages = 1 .. L /\ sample \in Samples
      /\ TransTick(ctrl.rst, valid, sample.pos, intlk_trans_master_en,
                   ctrl.trans_clr, lim.trans_max, lim.trans_min)
      /\ AngTick(ctrl.rst, valid, sample.pos, intlk_ang_master_en,
                 ctrl.ang_clr, lim.ang_max, lim.ang_min)
  BY LatencyAssumption DEF Next, Edge, L, Stages, TypeOK
<1> SUFFICES ASSUME NEW i \in Chans, NEW k \in Stages
             PROVE
    /\ trans_adder'[i][k].valid =>
          /\ trans_adder'[i][k].c = 0
          /\ trans_adder'[i][k].a + trans_adder'[i][k].b \in Words
    /\ ang_adder'[i][k].valid =>
          /\ ang_adder'[i][k].c = 1
          /\ ang_adder'[i][k].a + ang_adder'[i][k].b + 1 \in Words
  BY DEF Fits
<1> DEFINE t == Feed(Presented, sample.pos["US"][i], sample.pos["DS"][i], 0)
           a == Feed(Presented, sample.pos["DS"][i], Not(sample.pos["US"][i]), 1)
<1>1. /\ trans_adder'[i] = Shift(trans_adder[i], t)
      /\ ang_adder'[i] = Shift(ang_adder[i], a)
  BY <1>0 DEF TransTick, TransAdder, AngTick, AngAdder, Presented
<1>2. /\ t.valid => t.c = 0 /\ t.a + t.b \in Words
      /\ a.valid => a.c = 1 /\ a.a + a.b + 1 \in Words
  <2>1. PICK u \in Words, d \in Words : u = sample.pos["US"][i] /\ d = sample.pos["DS"][i]
    BY InputTypes DEF BPMs
  <2>2. u + d \in Words /\ d - u \in Words
    BY <1>0, <2>1 DEF NoOverflow
  <2>3. d + Not(u) + 1 = d - u
    BY HalfAssumption DEF Words, Not
  <2>4. CASE Presented
    <3>1. /\ t.c = 0 /\ t.a = u /\ t.b = d
          /\ a.c = 1 /\ a.a = d /\ a.b = Not(u)
      BY <2>1, <2>4 DEF Feed
    <3> QED
      BY <2>2, <2>3, <3>1
  <2>5. CASE ~Presented
    <3>1. ~t.valid /\ ~a.valid
      BY <2>5 DEF Feed, Idle
    <3> QED
      BY <3>1
  <2> QED
    BY <2>4, <2>5
<1> HIDE DEF t, a
<1>3. CASE k = 1
  <2>1. trans_adder'[i][k] = t /\ ang_adder'[i][k] = a
    BY <1>1, <1>3 DEF Shift
  <2> QED
    BY <1>2, <2>1
<1>4. CASE k > 1
  <2>1. PICK n \in Stages : n = k - 1
    BY <1>0, <1>4
  <2>2. trans_adder'[i][k] = trans_adder[i][n] /\ ang_adder'[i][k] = ang_adder[i][n]
    BY <1>1, <1>4, <2>1 DEF Shift
  <2> QED
    BY <2>2 DEF Fits
<1> QED
  BY <1>0, <1>3, <1>4

\* What no reset and no change of the limits so far says of a step.
LEMMA NotUpset ==
    ASSUME Monitor, ~upset'
    PROVE  ~upset /\ ~ctrl.rst /\ lim' = lim
<1>1. upset' = (upset \/ ctrl.rst \/ lim' # lim)
  BY DEF Monitor
<1> QED
  BY <1>1

\* Until the limits change, what enters a comparator is compared with them.
LEMMA LimitsKeptStep ==
    ASSUME IInv, LimitsKept, Next, Monitor
    PROVE  LimitsKept'
<1> SUFFICES ASSUME ~upset', NEW i \in Chans, NEW j \in Stages
             PROVE
    /\ trans_bigger_adder'[i][j].valid =>
          /\ trans_bigger_adder'[i][j].b = Not(lim'.trans_max[i])
          /\ trans_smaller_adder'[i][j].b = lim'.trans_min[i]
    /\ ang_bigger_adder'[i][j].valid =>
          /\ ang_bigger_adder'[i][j].b = Not(lim'.ang_max[i])
          /\ ang_smaller_adder'[i][j].b = lim'.ang_min[i]
  BY DEF LimitsKept
<1>0. /\ ~upset /\ ~ctrl.rst /\ lim' = lim /\ Edge /\ TypeOK
      /\ L \in Nat /\ L >= 1 /\ Stages = 1 .. L
  BY NotUpset, LatencyAssumption DEF Next, IInv, L, Stages
<1>1. /\ trans_bigger_adder'[i][1] =
            Feed(trans_valid[i], trans[i], Not(lim.trans_max[i]), 1)
      /\ trans_smaller_adder'[i][1] =
            Feed(trans_valid[i], Not(trans[i]), lim.trans_min[i], 1)
      /\ \A n \in 2 .. L :
            /\ trans_bigger_adder'[i][n] = trans_bigger_adder[i][n - 1]
            /\ trans_smaller_adder'[i][n] = trans_smaller_adder[i][n - 1]
  BY <1>0, TransStages
<1>2. /\ ang_bigger_adder'[i][1] =
            Feed(ang_sum_valid_reg[i], ang_sum_reg[i], Not(lim.ang_max[i]), 1)
      /\ ang_smaller_adder'[i][1] =
            Feed(ang_sum_valid_reg[i], Not(ang_sum_reg[i]), lim.ang_min[i], 1)
      /\ \A n \in 2 .. L :
            /\ ang_bigger_adder'[i][n] = ang_bigger_adder[i][n - 1]
            /\ ang_smaller_adder'[i][n] = ang_smaller_adder[i][n - 1]
  BY <1>0, AngStages
<1>3. CASE j = 1
  <2>1. trans_bigger_adder'[i][1].valid =>
           /\ trans_bigger_adder'[i][1].b = Not(lim.trans_max[i])
           /\ trans_smaller_adder'[i][1].b = lim.trans_min[i]
    BY <1>1 DEF Feed, Idle
  <2>2. ang_bigger_adder'[i][1].valid =>
           /\ ang_bigger_adder'[i][1].b = Not(lim.ang_max[i])
           /\ ang_smaller_adder'[i][1].b = lim.ang_min[i]
    BY <1>2 DEF Feed, Idle
  <2> QED
    BY <1>0, <1>3, <2>1, <2>2
<1>4. CASE j > 1
  <2>1. PICK n \in Stages : n = j - 1 /\ j \in 2 .. L
    BY <1>0, <1>4
  <2> QED
    BY <1>0, <1>1, <1>2, <2>1 DEF LimitsKept
<1> QED
  BY <1>0, <1>3, <1>4

\* Without a reset, what raises a level flag sets its latch (p_latch, p_out).
LEMMA LevelLatchedStep ==
    ASSUME Next, Monitor
    PROVE  LevelLatched'
<1> SUFFICES ASSUME ~upset'
             PROVE  /\ intlk' => intlk_ltc'
                    /\ \A i \in Chans :
                          /\ trans_intlk_bigger_all'[i] => trans_intlk_bigger_ltc_all'[i]
                          /\ trans_intlk_smaller_all'[i] => trans_intlk_smaller_ltc_all'[i]
                          /\ ang_intlk_bigger_all'[i] => ang_intlk_bigger_ltc_all'[i]
                          /\ ang_intlk_smaller_all'[i] => ang_intlk_smaller_ltc_all'[i]
  BY DEF LevelLatched
<1>0. /\ ~ctrl.rst /\ IntlkOut
      /\ TransLatch(ctrl.rst, intlk_trans_master_en, ctrl.trans_clr)
      /\ AngLatch(ctrl.rst, intlk_ang_master_en, ctrl.ang_clr)
  BY DEF Monitor, Next, Edge, TransTick, AngTick
<1>1. intlk' => intlk_ltc'
  BY <1>0 DEF IntlkOut
<1>2. \A i \in Chans :
         /\ trans_intlk_bigger_all'[i] => trans_intlk_bigger_ltc_all'[i]
         /\ trans_intlk_smaller_all'[i] => trans_intlk_smaller_ltc_all'[i]
  BY <1>0 DEF TransLatch
<1>3. \A i \in Chans :
         /\ ang_intlk_bigger_all'[i] => ang_intlk_bigger_ltc_all'[i]
         /\ ang_intlk_smaller_all'[i] => ang_intlk_smaller_ltc_all'[i]
  BY <1>0 DEF AngLatch
<1> QED
  BY <1>1, <1>2, <1>3

\* Until a reset the latched flag covers the level flag of each interlock and
\* of the output.
THEOREM LatchCovers == MonSpec => []LatchCoversLevel
<1>1. MonInit => LevelLatched
  BY DEF MonInit, Init, TransInit, AngInit, LevelLatched
<1>2. LevelLatched /\ [Next /\ Monitor]_allVars => LevelLatched'
  <2> SUFFICES ASSUME LevelLatched, [Next /\ Monitor]_allVars PROVE LevelLatched'
    OBVIOUS
  <2>1. CASE Next /\ Monitor
    BY <2>1, LevelLatchedStep
  <2>2. CASE UNCHANGED allVars
    BY <2>2 DEF allVars, vars, monVars, outVars, transVars, angVars, LevelLatched
  <2> QED
    BY <2>1, <2>2
<1>3. LevelLatched => LatchCoversLevel
  BY DEF LevelLatched, LatchCoversLevel, intlk_trans_bigger, intlk_trans_bigger_ltc,
         intlk_trans_smaller, intlk_trans_smaller_ltc, intlk_ang_bigger,
         intlk_ang_bigger_ltc, intlk_ang_smaller, intlk_ang_smaller_ltc
<1> QED
  BY <1>1, <1>2, <1>3, PTL DEF MonSpec

-----------------------------------------------------------------------------
\* The sample the deadline runs for moves on, and so does its gate: no later
\* sample is close enough behind it to reach the sum's register first.
LEMMA TransDueStep ==
    ASSUME IInv, Together, Fits, Edge, ctrl' = ctrl, lim' = lim,
           ctrl.en, ~ctrl.rst, ~ctrl.clr, ~ctrl.trans_clr,
           NEW i \in Chans, NEW d \in Nat \ {0}, TransDue(i, d),
           NEW n \in Nat, n = d + 1, ~intlk_ltc'
    PROVE  TransDue(i, n)'
<1>0. /\ L \in Nat /\ L >= 1 /\ Stages = 1 .. L /\ TypeOK /\ TransSpaced
      /\ TransLast = 2 * L + 2
  BY LatencyAssumption DEF L, Stages, IInv, TransLast
<1>1. d # TransLast + 2
  <2> SUFFICES ASSUME d = TransLast + 2 PROVE FALSE
    OBVIOUS
  <2>1. TransLevel(i)
    BY DEF TransDue
  <2>2. intlk_all
    BY <2>1 DEF TransLevel, intlk_all, intlk_trans, intlk_trans_bigger, intlk_trans_smaller
  <2> QED
    BY <2>2 DEF Edge, IntlkOut
<1>2. d <= TransLast + 1 /\ n <= TransLast + 2
  BY <1>0, <1>1 DEF TransDue
<1>3. /\ \A k \in 1 .. 2 * L + 1 : TransBadAt(i, k + 1)' <=> TransBadAt(i, k)
      /\ TransBadAt(i, TransLast) => TransVerdict(i)'
  BY TransFlow, TransVerdictStep
<1>4. /\ \A k \in 1 .. L - 1 : Enough(k + 1)' <=> Enough(k)
      /\ Enough(L + 1)' <=> IF trans_adder[i][L].valid THEN Enough(L) ELSE Enough(L + 1)
      /\ Enough(L + 2)' <=> Enough(L + 1)
      /\ intlk_trans_master_en' <=> ctrl.trans_en /\ Enough(L + 2)
  BY GateFlow
<1>5. n <= TransLast => TransBadAt(i, n)'
  <2> SUFFICES ASSUME n <= TransLast PROVE TransBadAt(i, n)'
    OBVIOUS
  <2>1. d \in 1 .. 2 * L + 1 /\ d <= TransLast
    BY <1>0
  <2>2. TransBadAt(i, d)
    BY <2>1 DEF TransDue
  <2> QED
    BY <1>3, <2>1, <2>2
<1>6. n = TransLast + 1 => TransVerdict(i)'
  <2> SUFFICES ASSUME n = TransLast + 1 PROVE TransVerdict(i)'
    OBVIOUS
  <2>1. d = TransLast /\ d <= TransLast
    BY <1>0
  <2>2. TransBadAt(i, TransLast)
    BY <2>1 DEF TransDue
  <2> QED
    BY <1>3, <2>2
<1>7. n = TransLast + 2 => TransLevel(i)'
  <2> SUFFICES ASSUME n = TransLast + 2 PROVE TransLevel(i)'
    OBVIOUS
  <2>1. TransVerdict(i) /\ intlk_trans_master_en
    BY <1>0 DEF TransDue
  <2>2. TransLatch(ctrl.rst, intlk_trans_master_en, ctrl.trans_clr)
    BY DEF Edge, TransTick
  <2> QED
    BY <2>1, <2>2 DEF TransLatch, TransVerdict, TransLevel
<1>8. n <= L => Enough(n)'
  <2> SUFFICES ASSUME n <= L PROVE Enough(n)'
    OBVIOUS
  <2>1. d \in 1 .. L - 1 /\ d <= L
    BY <1>0
  <2>2. Enough(d)
    BY <2>1 DEF TransDue
  <2> QED
    BY <1>4, <2>1, <2>2
<1>9. n \in L + 1 .. TransLast - 1 => Enough(L + 1)'
  <2> SUFFICES ASSUME n \in L + 1 .. TransLast - 1 PROVE Enough(L + 1)'
    OBVIOUS
  <2>1. d \in 1 .. TransLast /\ d >= L /\ d <= 2 * L /\ L \in 1 .. TransLast
    BY <1>0
  <2>2. TransAt(i, d)
    BY <2>1, TransBadIsAt DEF TransDue
  <2>3. TransAt(i, L) <=> trans_adder[i][L].valid
    BY <1>0 DEF TransAt
  <2>4. CASE d = L
    BY <1>4, <2>1, <2>2, <2>3, <2>4 DEF TransDue
  <2>5. CASE d > L
    <3>1. ~trans_adder[i][L].valid
      BY <1>0, <2>1, <2>2, <2>3, <2>5 DEF TransSpaced
    <3>2. d \in L + 1 .. TransLast - 1
      BY <1>0, <2>1, <2>5
    <3> QED
      BY <1>4, <3>1, <3>2 DEF TransDue
  <2> QED
    BY <1>0, <2>1, <2>4, <2>5
<1>10. n \in L + 2 .. TransLast => Enough(L + 2)'
  <2> SUFFICES ASSUME n \in L + 2 .. TransLast PROVE Enough(L + 2)'
    OBVIOUS
  <2>1. d \in L + 1 .. TransLast - 1
    BY <1>0
  <2> QED
    BY <1>4, <2>1 DEF TransDue
<1>11. n \in L + 3 .. TransLast + 1 => intlk_trans_master_en'
  <2> SUFFICES ASSUME n \in L + 3 .. TransLast + 1 PROVE intlk_trans_master_en'
    OBVIOUS
  <2>1. d \in L + 2 .. TransLast
    BY <1>0
  <2> QED
    BY <1>4, <2>1 DEF TransDue
<1>12. ctrl'.trans_en
  BY DEF TransDue
<1> QED
  BY <1>2, <1>5, <1>6, <1>7, <1>8, <1>9, <1>10, <1>11, <1>12 DEF TransDue, TransLast, L


\* The same of the angular detector.
LEMMA AngDueStep ==
    ASSUME IInv, Together, Fits, Edge, ctrl' = ctrl, lim' = lim,
           ctrl.en, ~ctrl.rst, ~ctrl.clr, ~ctrl.ang_clr,
           NEW i \in Chans, NEW d \in Nat \ {0}, AngDue(i, d),
           NEW n \in Nat, n = d + 1, ~intlk_ltc'
    PROVE  AngDue(i, n)'
<1>0. /\ L \in Nat /\ L >= 1 /\ Stages = 1 .. L /\ TypeOK /\ AngSpaced
      /\ AngLast = 2 * L + 1
  BY LatencyAssumption DEF L, Stages, IInv, AngLast
<1>1. d # AngLast + 2
  <2> SUFFICES ASSUME d = AngLast + 2 PROVE FALSE
    OBVIOUS
  <2>1. AngLevel(i)
    BY DEF AngDue
  <2>2. intlk_all
    BY <2>1 DEF AngLevel, intlk_all, intlk_ang, intlk_ang_bigger, intlk_ang_smaller
  <2> QED
    BY <2>2 DEF Edge, IntlkOut
<1>2. d <= AngLast + 1 /\ n <= AngLast + 2
  BY <1>0, <1>1 DEF AngDue
<1>3. /\ \A k \in 1 .. 2 * L : AngBadAt(i, k + 1)' <=> AngBadAt(i, k)
      /\ AngBadAt(i, AngLast) => AngVerdict(i)'
  BY AngFlow, AngVerdictStep
<1>4. /\ \A k \in 1 .. L - 1 : Enough(k + 1)' <=> Enough(k)
      /\ Enough(L + 1)' <=> IF ang_adder[i][L].valid THEN Enough(L) ELSE Enough(L + 1)
      /\ Enough(L + 2)' <=> Enough(L + 1)
      /\ intlk_ang_master_en' <=> ctrl.ang_en /\ Enough(L + 2)
  <2>1. ang_adder[i][L].valid = trans_adder[i][L].valid
    BY <1>0 DEF Together, BPMs
  <2> QED
    BY <2>1, GateFlow
<1>5. n <= AngLast => AngBadAt(i, n)'
  <2> SUFFICES ASSUME n <= AngLast PROVE AngBadAt(i, n)'
    OBVIOUS
  <2>1. d \in 1 .. 2 * L /\ d <= AngLast
    BY <1>0
  <2>2. AngBadAt(i, d)
    BY <2>1 DEF AngDue
  <2> QED
    BY <1>3, <2>1, <2>2
<1>6. n = AngLast + 1 => AngVerdict(i)'
  <2> SUFFICES ASSUME n = AngLast + 1 PROVE AngVerdict(i)'
    OBVIOUS
  <2>1. d = AngLast /\ d <= AngLast
    BY <1>0
  <2>2. AngBadAt(i, AngLast)
    BY <2>1 DEF AngDue
  <2> QED
    BY <1>3, <2>2
<1>7. n = AngLast + 2 => AngLevel(i)'
  <2> SUFFICES ASSUME n = AngLast + 2 PROVE AngLevel(i)'
    OBVIOUS
  <2>1. AngVerdict(i) /\ intlk_ang_master_en
    BY <1>0 DEF AngDue
  <2>2. AngLatch(ctrl.rst, intlk_ang_master_en, ctrl.ang_clr)
    BY DEF Edge, AngTick
  <2> QED
    BY <2>1, <2>2 DEF AngLatch, AngVerdict, AngLevel
<1>8. n <= L => Enough(n)'
  <2> SUFFICES ASSUME n <= L PROVE Enough(n)'
    OBVIOUS
  <2>1. d \in 1 .. L - 1 /\ d <= L
    BY <1>0
  <2>2. Enough(d)
    BY <2>1 DEF AngDue
  <2> QED
    BY <1>4, <2>1, <2>2
<1>9. n \in L + 1 .. AngLast - 1 => Enough(L + 1)'
  <2> SUFFICES ASSUME n \in L + 1 .. AngLast - 1 PROVE Enough(L + 1)'
    OBVIOUS
  <2>1. d \in 1 .. AngLast /\ d >= L /\ d <= 2 * L - 1 /\ L \in 1 .. AngLast
    BY <1>0
  <2>2. AngAt(i, d)
    BY <2>1, AngBadIsAt DEF AngDue
  <2>3. AngAt(i, L) <=> ang_adder[i][L].valid
    BY <1>0 DEF AngAt
  <2>4. CASE d = L
    BY <1>4, <2>1, <2>2, <2>3, <2>4 DEF AngDue
  <2>5. CASE d > L
    <3>1. ~ang_adder[i][L].valid
      BY <1>0, <2>1, <2>2, <2>3, <2>5 DEF AngSpaced
    <3>2. d \in L + 1 .. AngLast - 1
      BY <1>0, <2>1, <2>5
    <3> QED
      BY <1>4, <3>1, <3>2 DEF AngDue
  <2> QED
    BY <1>0, <2>1, <2>4, <2>5
<1>10. n \in L + 2 .. AngLast => Enough(L + 2)'
  <2> SUFFICES ASSUME n \in L + 2 .. AngLast PROVE Enough(L + 2)'
    OBVIOUS
  <2>1. d \in L + 1 .. AngLast - 1
    BY <1>0
  <2> QED
    BY <1>4, <2>1 DEF AngDue
<1>11. n \in L + 3 .. AngLast + 1 => intlk_ang_master_en'
  <2> SUFFICES ASSUME n \in L + 3 .. AngLast + 1 PROVE intlk_ang_master_en'
    OBVIOUS
  <2>1. d \in L + 2 .. AngLast
    BY <1>0
  <2> QED
    BY <1>4, <2>1 DEF AngDue
<1>12. ctrl'.ang_en
  BY DEF AngDue
<1> QED
  BY <1>2, <1>5, <1>6, <1>7, <1>8, <1>9, <1>10, <1>11, <1>12 DEF AngDue, AngLast, L

\* A sample that has to trip enters both the detector and the gate.
LEMMA DueStarts ==
    ASSUME IInv, Together, Fits, Edge, ctrl' = ctrl, lim' = lim, ~ctrl.rst, MustTrip
    PROVE  \E i \in Chans : TransDue(i, 1)' \/ AngDue(i, 1)'
<1>0. L \in Nat /\ L >= 1 /\ TransLast = 2 * L + 2 /\ AngLast = 2 * L + 1
  BY LatencyAssumption DEF L, TransLast, AngLast
<1>1. CASE ctrl.trans_en /\ TransBad(sample, lim)
  <2>1. PICK i \in Chans : SumOut(i, sample.pos["US"][i] + sample.pos["DS"][i])
    BY <1>1 DEF TransBad, SumOut
  <2>2. TransBadAt(i, 1)' /\ Enough(1)'
    BY <2>1, TransFlow, GateFlow DEF MustTrip
  <2>3. TransDue(i, 1)'
    <3>1. ctrl'.trans_en
      BY <1>1
    <3>2. /\ 1 <= TransLast + 2 /\ 1 # TransLast + 1 /\ 1 # TransLast + 2
          /\ 1 \notin L + 1 .. TransLast - 1 /\ 1 \notin L + 2 .. TransLast
          /\ 1 \notin L + 3 .. TransLast + 1
      BY <1>0
    <3> QED
      BY <2>2, <3>1, <3>2 DEF TransDue, TransLast, L
  <2> QED
    BY <2>3
<1>2. CASE ctrl.ang_en /\ AngBad(sample, lim)
  <2>1. PICK i \in Chans : AngOut(i, sample.pos["DS"][i] - sample.pos["US"][i])
    BY <1>2 DEF AngBad, AngOut
  <2>2. AngBadAt(i, 1)' /\ Enough(1)'
    BY <2>1, AngFlow, GateFlow DEF MustTrip
  <2>3. AngDue(i, 1)'
    <3>1. ctrl'.ang_en
      BY <1>2
    <3>2. /\ 1 <= AngLast + 2 /\ 1 # AngLast + 1 /\ 1 # AngLast + 2
          /\ 1 \notin L + 1 .. AngLast - 1 /\ 1 \notin L + 2 .. AngLast
          /\ 1 \notin L + 3 .. AngLast + 1
      BY <1>0
    <3> QED
      BY <2>2, <3>1, <3>2 DEF AngDue, AngLast, L
  <2> QED
    BY <2>3
<1> QED
  BY <1>1, <1>2 DEF MustTrip

\* The deadline runs for a sample that is still on its way.
LEMMA DueStep ==
    ASSUME IInv, Together, Fits, DuePlace, Next, Monitor
    PROVE  DuePlace'
<1>1. /\ Edge
      /\ due' = IF ~Steady \/ intlk_ltc' THEN 0
                ELSE IF due > 0 THEN due + 1
                ELSE IF MustTrip THEN 1 ELSE 0
      /\ due \in Nat
  BY DEF Next, Monitor, DuePlace
<1>2. CASE due' = 0
  BY <1>2 DEF DuePlace
<1>3. CASE due' # 0
  <2>1. Steady /\ ~intlk_ltc'
    BY <1>1, <1>3
  <2>2. /\ ctrl' = ctrl /\ lim' = lim /\ ctrl.en /\ ~ctrl.rst /\ ~ctrl.clr
        /\ ~ctrl.trans_clr /\ ~ctrl.ang_clr
    BY <2>1 DEF Steady
  <2>3. /\ ctrl'.en /\ ~ctrl'.rst /\ ~ctrl'.clr /\ ~ctrl'.trans_clr /\ ~ctrl'.ang_clr
    BY <2>2
  <2>4. due' \in Nat
    BY <1>1
  <2>5. ASSUME NEW n \in Nat \ {0}, due' = n
        PROVE  \E i \in Chans : TransDue(i, n)' \/ AngDue(i, n)'
    <3>1. CASE due = 0
      <4>1. MustTrip /\ n = 1
        BY <1>1, <1>3, <2>1, <2>5, <3>1
      <4>2. \E i \in Chans : TransDue(i, 1)' \/ AngDue(i, 1)'
        BY <1>1, <2>2, <4>1, DueStarts
      <4> QED
        BY <4>1, <4>2
    <3>2. CASE due # 0
      <4>1. PICK d \in Nat \ {0} : due = d
        BY <1>1, <3>2
      <4>2. n = d + 1
        BY <1>1, <2>1, <2>5, <4>1
      <4>3. PICK i \in Chans : TransDue(i, d) \/ AngDue(i, d)
        BY <4>1 DEF DuePlace
      <4>4. CASE TransDue(i, d)
        BY <1>1, <2>1, <2>2, <4>2, <4>4, TransDueStep
      <4>5. CASE AngDue(i, d)
        BY <1>1, <2>1, <2>2, <4>2, <4>5, AngDueStep
      <4> QED
        BY <4>3, <4>4, <4>5
    <3> QED
      BY <3>1, <3>2
  <2> QED
    BY <2>3, <2>4, <2>5 DEF DuePlace
<1> QED
  BY <1>2, <1>3

\* The invariant behind the promises, of samples that fit.
MonInv == IInv /\ Together /\ Fits /\ DuePlace

\* Nothing is in flight when the FPGA starts.
LEMMA MonInitInv == MonInit => MonInv
<1> SUFFICES ASSUME MonInit PROVE MonInv
  OBVIOUS
<1>1. IInv
  BY InitInv DEF MonInit
<1>2. Together
  BY EmptyPipeType DEF MonInit, Init, TransInit, AngInit, Together, BPMs, EmptyPipe
<1>3. Fits
  BY EmptyPipeType DEF MonInit, Init, TransInit, AngInit, Fits
<1>4. DuePlace
  BY DEF MonInit, DuePlace
<1> QED
  BY <1>1, <1>2, <1>3, <1>4 DEF MonInv

\* No edge breaks it.
LEMMA MonInvStep ==
    ASSUME NoOverflow
    PROVE  MonInv /\ [Next /\ Monitor]_allVars => MonInv'
<1> SUFFICES ASSUME MonInv, [Next /\ Monitor]_allVars PROVE MonInv'
  OBVIOUS
<1>1. CASE Next /\ Monitor
  <2>1. IInv'
    BY <1>1, InvStep DEF MonInv
  <2>2. TypeOK
    BY DEF MonInv, IInv
  <2> QED
    BY <1>1, <2>1, <2>2, TogetherStep, FitsStep, DueStep DEF MonInv
<1>2. CASE UNCHANGED allVars
  <2>1. UNCHANGED vars /\ UNCHANGED monVars
    BY <1>2 DEF allVars
  <2>2. IInv'
    BY <2>1, InvStep DEF MonInv
  <2>3. Together' /\ Fits'
    BY <2>1 DEF MonInv, vars, envVars, gateVars, transVars, angVars, Together, Fits
  <2>4. DuePlace'
    BY <2>1 DEF MonInv, vars, envVars, gateVars, transVars, angVars, monVars, DuePlace,
                TransDue, AngDue, TransBadAt, AngBadAt, TransVerdict, AngVerdict,
                TransLevel, AngLevel, Enough, SumOut, TransOut, AngOut
  <2> QED
    BY <2>2, <2>3, <2>4 DEF MonInv
<1> QED
  BY <1>1, <1>2

\* A sample outside the limits with enough sum trips the latched output in
\* time, for every latency, word width and schedule of samples, limits and
\* control words, as long as the sums and differences of the positions fit
\* their word.
THEOREM TripsInTime ==
    ASSUME NoOverflow
    PROVE  MonSpec => []TripWithinDeadline
<1>1. MonInv => TripWithinDeadline
  <2> SUFFICES ASSUME MonInv PROVE TripWithinDeadline
    OBVIOUS
  <2>0. L \in Nat /\ L = AdderLatency /\ due \in Nat
    BY LatencyAssumption DEF L, MonInv, DuePlace
  <2>1. CASE due = 0
    BY <2>0, <2>1 DEF TripWithinDeadline
  <2>2. CASE due # 0
    <3>1. PICK d \in Nat \ {0} : due = d
      BY <2>0, <2>2
    <3>2. PICK i \in Chans : TransDue(i, d) \/ AngDue(i, d)
      BY <3>1 DEF MonInv, DuePlace
    <3>3. d <= 2 * L + 4
      BY <2>0, <3>2 DEF TransDue, AngDue, TransLast, AngLast
    <3> QED
      BY <2>0, <3>1, <3>3 DEF TripWithinDeadline
  <2> QED
    BY <2>1, <2>2
<1> QED
  BY <1>1, MonInitInv, MonInvStep, PTL DEF MonSpec

-----------------------------------------------------------------------------
\* An edge without a cause moves the samples of a channel and what the gate
\* holds one stage on.  T, C, F, q and z are S, B, E, R and P after the edge,
\* x says that the sample on the bus is outside the limits.
Moves(N, S, B, E, r, p, T, C, F, q, z, x) ==
    /\ \A k \in 0 .. N - 1 : T[k + 1] <=> S[k]
    /\ \A k \in 1 .. N - 1 : C[k + 1] => B[k]
    /\ C[1] => S[0] /\ x /\ z
    /\ q => B[N] \/ (r /\ ~S[N])
    /\ \A m \in 1 .. L + 2 : m # L /\ F[m + 1] => E[m]
    /\ F[L + 1] => E[L] \/ (E[L + 1] /\ ~S[L])
    /\ F[1] => S[0] /\ ~x /\ ~p
    /\ \A k \in 1 .. N : B[k] => S[k]
    /\ ~z => S[0] \/ ~p
    /\ \A k, m \in 0 .. N : k < m /\ S[k] /\ S[m] => m - k > L

\* The step of a channel and of the gate, by their depths alone.
LEMMA ApartStep ==
    ASSUME NEW N \in {2 * L + 1, 2 * L + 2},
           NEW S, NEW B, NEW E, NEW r \in BOOLEAN, NEW p \in BOOLEAN,
           NEW T, NEW C, NEW F, NEW q \in BOOLEAN, NEW z \in BOOLEAN,
           NEW x \in BOOLEAN,
           Moves(N, S, B, E, r, p, T, C, F, q, z, x), Apart(N, S, B, E, r, p)
    PROVE  Apart(N, T, C, F, q, z)
<1> USE DEF Moves
<1>0. L \in Nat /\ L >= 1 /\ N \in Nat /\ N >= 2 * L + 1 /\ N <= 2 * L + 2
  BY LatencyAssumption DEF L
<1>1. /\ \A k \in 1 .. N : \A m \in 1 .. L + 3 : B[k] /\ m <= k => ~E[m]
      /\ \A k \in 1 .. N : B[k] /\ ~p => \E m \in 1 .. k - 1 : S[m]
      /\ \A m \in 1 .. L + 3 : r /\ E[m] => \E n \in m + L + 1 .. N : S[n] /\ m <= L + 1
      /\ r /\ ~p => \E m \in 1 .. N : S[m]
  BY DEF Apart
<1>2. ASSUME NEW k \in 1 .. N, k # 1, C[k]
      PROVE  B[k - 1] /\ S[k - 1] /\ k - 1 \in 1 .. N - 1 /\ k - 1 \in 1 .. N
  <2>1. PICK j \in 1 .. N - 1 : k = j + 1
    BY <1>0, <1>2
  <2>2. B[j] /\ S[j]
    BY <1>0, <1>2, <2>1
  <2> QED
    BY <1>0, <2>1, <2>2
<1>3. ASSUME NEW m \in 1 .. L + 3, m # 1, m # L + 1, F[m]
      PROVE  E[m - 1] /\ m - 1 \in 1 .. L + 2
  <2>1. PICK j \in 1 .. L + 2 : m = j + 1 /\ j # L
    BY <1>0, <1>3
  <2> QED
    BY <1>0, <1>3, <2>1
<1>4. \A n \in 0 .. N - 1 : S[n] => T[n + 1] /\ n + 1 \in 1 .. N
  BY <1>0
<1>5. ASSUME NEW k \in 1 .. N, NEW m \in 1 .. L + 3, C[k], m <= k, F[m]
      PROVE  FALSE
  <2>1. CASE m = 1
    <3>0. S[0] /\ ~x /\ ~p
      BY <1>5, <2>1
    <3>1. k # 1
      BY <1>5, <3>0
    <3>2. B[k - 1] /\ S[k - 1] /\ k - 1 \in 1 .. N - 1 /\ k - 1 \in 1 .. N
      BY <1>2, <1>5, <3>1
    <3>3. PICK n \in 1 .. (k - 1) - 1 : S[n]
      BY <1>1, <3>0, <3>2
    <3>4. n \in 0 .. N /\ 0 \in 0 .. N /\ k - 1 \in 0 .. N /\ 0 < n /\ n < k - 1
      BY <1>0, <3>2
    <3>5. n - 0 > L /\ (k - 1) - n > L
      BY <3>0, <3>2, <3>3, <3>4
    <3> QED
      BY <1>0, <3>2, <3>4, <3>5
  <2>2. CASE m # 1 /\ m # L + 1
    <3>1. E[m - 1] /\ m - 1 \in 1 .. L + 2 /\ m - 1 \in 1 .. L + 3
      BY <1>0, <1>3, <1>5, <2>2
    <3>2. k # 1 /\ m - 1 <= k - 1
      BY <1>0, <1>5, <2>2
    <3>3. B[k - 1] /\ k - 1 \in 1 .. N
      BY <1>2, <1>5, <3>2
    <3> QED
      BY <1>1, <3>1, <3>2, <3>3
  <2>3. CASE m = L + 1
    <3>1. k # 1 /\ L <= k - 1 /\ L \in 1 .. L + 3 /\ L + 1 \in 1 .. L + 3
      BY <1>0, <1>5, <2>3
    <3>2. B[k - 1] /\ S[k - 1] /\ k - 1 \in 1 .. N
      BY <1>2, <1>5, <3>1
    <3>3. ~E[L]
      BY <1>1, <3>1, <3>2
    <3>4. E[L + 1] /\ ~S[L]
      BY <1>5, <2>3, <3>3
    <3>5. L + 1 <= k - 1
      BY <1>0, <3>1, <3>2, <3>4
    <3> QED
      BY <1>1, <3>1, <3>2, <3>4, <3>5
  <2> QED
    BY <2>1, <2>2, <2>3
<1>6. ASSUME NEW k \in 1 .. N, C[k], ~z
      PROVE  \E m \in 1 .. k - 1 : T[m]
  <2>1. k # 1
    BY <1>6
  <2>2. B[k - 1] /\ k - 1 \in 1 .. N - 1 /\ k - 1 \in 1 .. N
    BY <1>2, <1>6, <2>1
  <2>3. CASE S[0]
    <3>1. T[0 + 1] /\ 0 + 1 = 1 /\ 1 \in 1 .. k - 1
      BY <1>0, <1>4, <2>2, <2>3
    <3> QED
      BY <3>1
  <2>4. CASE ~S[0]
    <3>1. PICK n \in 1 .. (k - 1) - 1 : S[n]
      BY <1>1, <1>6, <2>2, <2>4
    <3>2. n \in 0 .. N - 1 /\ n + 1 \in 1 .. k - 1
      BY <1>0, <2>2
    <3>3. T[n + 1]
      BY <1>4, <3>1, <3>2
    <3> QED
      BY <3>2, <3>3
  <2> QED
    BY <2>3, <2>4
<1>7. ASSUME NEW m \in 1 .. L + 3, q, F[m]
      PROVE  \E n \in m + L + 1 .. N : T[n] /\ m <= L + 1
  <2>1. CASE B[N]
    <3>0. N \in 1 .. N
      BY <1>0
    <3>1. m = 1
      <4>1. CASE m # 1 /\ m # L + 1
        <5>1. E[m - 1] /\ m - 1 \in 1 .. L + 3 /\ m - 1 <= N
          BY <1>0, <1>3, <1>7, <4>1
        <5> QED
          BY <1>1, <2>1, <3>0, <5>1
      <4>2. CASE m = L + 1
        <5>1. L \in 1 .. L + 3 /\ L + 1 \in 1 .. L + 3 /\ L <= N /\ L + 1 <= N
          BY <1>0
        <5> QED
          BY <1>1, <1>7, <2>1, <3>0, <4>2, <5>1
      <4> QED
        BY <4>1, <4>2
    <3>2. S[0] /\ ~p
      BY <1>7, <3>1
    <3>3. PICK n \in 1 .. N - 1 : S[n]
      BY <1>1, <2>1, <3>0, <3>2
    <3>4. n \in 0 .. N /\ 0 \in 0 .. N /\ 0 < n /\ n \in 0 .. N - 1
      BY <1>0
    <3>5. n - 0 > L
      BY <3>2, <3>3, <3>4
    <3>6. n + 1 \in m + L + 1 .. N /\ m <= L + 1
      BY <1>0, <3>1, <3>5
    <3>7. T[n + 1]
      BY <1>4, <3>3, <3>4
    <3> QED
      BY <3>6, <3>7
  <2>2. CASE r /\ ~S[N]
    <3>1. CASE m = 1
      <4>1. S[0] /\ ~p
        BY <1>7, <3>1
      <4>2. PICK n \in 1 .. N : S[n]
        BY <1>1, <2>2, <4>1
      <4>3. n # N
        BY <2>2, <4>2
      <4>4. n \in 0 .. N /\ 0 \in 0 .. N /\ 0 < n /\ n \in 0 .. N - 1
        BY <1>0, <4>3
      <4>5. n - 0 > L
        BY <4>1, <4>2, <4>4
      <4>6. n + 1 \in m + L + 1 .. N /\ m <= L + 1
        BY <1>0, <3>1, <4>4, <4>5
      <4>7. T[n + 1]
        BY <1>4, <4>2, <4>4
      <4> QED
        BY <4>6, <4>7
    <3>2. CASE m # 1 /\ m # L + 1
      <4>1. E[m - 1] /\ m - 1 \in 1 .. L + 3
        BY <1>0, <1>3, <1>7, <3>2
      <4>2. PICK n \in (m - 1) + L + 1 .. N : S[n] /\ m - 1 <= L + 1
        BY <1>1, <2>2, <4>1
      <4>3. n # N
        BY <2>2, <4>2
      <4>4. n \in 0 .. N - 1 /\ n + 1 \in m + L + 1 .. N /\ m <= L + 1
        BY <1>0, <3>2, <4>2, <4>3
      <4>5. T[n + 1]
        BY <1>4, <4>2, <4>4
      <4> QED
        BY <4>4, <4>5
    <3>3. CASE m = L + 1
      <4>0. L \in 1 .. L + 3 /\ L + 1 \in 1 .. L + 3
        BY <1>0
      <4>1. CASE E[L]
        <5>1. PICK n \in L + L + 1 .. N : S[n]
          BY <1>1, <2>2, <4>0, <4>1
        <5>2. n # N
          BY <2>2, <5>1
        <5>3. n \in 0 .. N - 1 /\ n + 1 \in m + L + 1 .. N /\ m <= L + 1
          BY <1>0, <3>3, <5>2
        <5>4. T[n + 1]
          BY <1>4, <5>1, <5>3
        <5> QED
          BY <5>3, <5>4
      <4>2. CASE E[L + 1]
        <5>1. PICK n \in (L + 1) + L + 1 .. N : S[n]
          BY <1>1, <2>2, <4>0, <4>2
        <5>2. n = N
          BY <1>0
        <5> QED
          BY <2>2, <5>1, <5>2
      <4> QED
        BY <1>7, <3>3, <4>1, <4>2
    <3> QED
      BY <3>1, <3>2, <3>3
  <2> QED
    BY <1>7, <2>1, <2>2
<1>8. ASSUME q, ~z
      PROVE  \E m \in 1 .. N : T[m]
  <2>1. CASE S[0]
    <3>1. T[0 + 1] /\ 0 + 1 = 1 /\ 1 \in 1 .. N
      BY <1>0, <1>4, <2>1
    <3> QED
      BY <3>1
  <2>2. CASE ~S[0]
    <3>1. PICK n \in 1 .. N : S[n] /\ n # N
      <4>1. CASE B[N]
        <5>1. N \in 1 .. N
          BY <1>0
        <5>2. PICK n \in 1 .. N - 1 : S[n]
          BY <1>1, <1>8, <2>2, <4>1, <5>1
        <5>3. n \in 1 .. N /\ n # N
          BY <1>0
        <5> QED
          BY <5>2, <5>3
      <4>2. CASE r /\ ~S[N]
        BY <1>1, <1>8, <2>2, <4>2
      <4> QED
        BY <1>8, <4>1, <4>2
    <3>2. n \in 0 .. N - 1
      BY <1>0, <3>1
    <3> QED
      BY <1>4, <3>1, <3>2
  <2> QED
    BY <2>1, <2>2
<1> QED
  BY <1>5, <1>6, <1>7, <1>8 DEF Apart

\* The minimum sum gate is on.
GateOn == \A c \in Ctrls : c.min_sum_en

\* Where the gate lets something pass, a sample is; where the detector holds a
\* sample outside the limits, it was presented.  What an edge without a cause
\* does to both.
LEMMA GateMoves ==
    ASSUME GateOn, IInv, Together, Edge, ~ctrl.rst, lim' = lim, ctrl' \in Ctrls,
           NEW i \in Chans
    PROVE  /\ \A m \in 1 .. L + 1 : m # L /\ Enough(m + 1)' => Enough(m)
           /\ Enough(L + 1)' => Enough(L) \/ (Enough(L + 1) /\ ~trans_adder[i][L].valid)
           /\ Enough(1)' => Presented /\ SumOk(sample, lim, ctrl)
           /\ intlk_trans_master_en' => Enough(L + 2)
           /\ intlk_ang_master_en' => Enough(L + 2)
           /\ ang_adder[i][L].valid = trans_adder[i][L].valid
<1>0. /\ L \in Nat /\ L >= 1 /\ ctrl.min_sum_en /\ ctrl'.min_sum_en
      /\ L \in Stages
  BY LatencyAssumption DEF L, Stages, GateOn, IInv, TypeOK
<1>1. ctrl'.min_sum_en = ctrl.min_sum_en
  <2>1. ctrl \in CtrlWords /\ ctrl' \in CtrlWords
    BY CtrlsAssumption DEF IInv, TypeOK
  <2>2. ctrl.min_sum_en = TRUE /\ ctrl'.min_sum_en = TRUE
    BY <1>0, <2>1 DEF CtrlWords
  <2> QED
    BY <2>2
<1>2. /\ Presented => (Enough(1)' <=> SumOk(sample, lim, ctrl))
      /\ ctrl.min_sum_en /\ Enough(1)' => Presented
      /\ \A k \in 1 .. L - 1 : Enough(k + 1)' <=> Enough(k)
      /\ Enough(L + 1)' <=> IF trans_adder[i][L].valid THEN Enough(L) ELSE Enough(L + 1)
      /\ Enough(L + 2)' <=> Enough(L + 1)
      /\ intlk_trans_master_en' <=> ctrl.trans_en /\ Enough(L + 2)
      /\ intlk_ang_master_en' <=> ctrl.ang_en /\ Enough(L + 2)
  BY <1>1, GateFlow
<1>3. ASSUME NEW m \in 1 .. L + 1, m # L, Enough(m + 1)'
      PROVE  Enough(m)
  <2>1. CASE m \in 1 .. L - 1
    BY <1>2, <1>3, <2>1
  <2>2. CASE m = L + 1
    <3>1. m + 1 = L + 2
      BY <1>0, <2>2
    <3>2. Enough(L + 2)'
      BY <1>3, <3>1
    <3> QED
      BY <1>2, <2>2, <3>2
  <2> QED
    BY <1>0, <1>3, <2>1, <2>2
<1>4. ang_adder[i][L].valid = trans_adder[i][L].valid
  BY <1>0 DEF Together, BPMs
<1> QED
  BY <1>0, <1>2, <1>3, <1>4

\* The step of a channel of the translation detector.
LEMMA TransApartStep ==
    ASSUME GateOn, IInv, Together, Fits, LimitsKept, ~upset, Edge, ~ctrl.rst, lim' = lim,
           ctrl' \in Ctrls, NEW i \in Chans, TransApart(i),
           NEW p \in BOOLEAN, p <=> prevBad, NEW z \in BOOLEAN, z <=> prevBad',
           NEW x \in BOOLEAN, x <=> TransBad(sample, lim) \/ AngBad(sample, lim),
           z <=> IF Presented THEN x ELSE p,
           ~(Presented /\ SumOk(sample, lim, ctrl) /\ (x \/ p))
    PROVE  TransApart(i)'
<1>0. /\ L \in Nat /\ L >= 1 /\ TransSpaced /\ TransLast = 2 * L + 2
      /\ TransLast \in {2 * L + 1, 2 * L + 2} /\ TransLast - 1 = 2 * L + 1
  BY LatencyAssumption DEF L, IInv, TransLast
<1>1. PICK r \in BOOLEAN, q \in BOOLEAN : /\ r <=> TransVerdict(i)
                                          /\ q <=> TransVerdict(i)'
  OBVIOUS
<1> DEFINE S == [k \in 0 .. TransLast |-> TransAt(i, k)]
           T == [k \in 0 .. TransLast |-> TransAt(i, k)']
           B == [k \in 1 .. TransLast |-> TransBadAt(i, k)]
           C == [k \in 1 .. TransLast |-> TransBadAt(i, k)']
           E == [m \in 1 .. L + 3 |->
                    IF m = L + 3 THEN intlk_trans_master_en ELSE Enough(m)]
           F == [m \in 1 .. L + 3 |->
                    IF m = L + 3 THEN intlk_trans_master_en' ELSE Enough(m)']
<1>2. /\ \A k \in 0 .. TransLast : (S[k] <=> TransAt(i, k)) /\ (T[k] <=> TransAt(i, k)')
      /\ \A k \in 1 .. TransLast : (B[k] <=> TransBadAt(i, k))
                                   /\ (C[k] <=> TransBadAt(i, k)')
      /\ \A m \in 1 .. L + 2 : (E[m] <=> Enough(m)) /\ (F[m] <=> Enough(m)')
      /\ E[L + 3] <=> intlk_trans_master_en
      /\ F[L + 3] <=> intlk_trans_master_en'
  BY <1>0
<1>3. Apart(TransLast, S, B, E, r, p)
  <2>1. Apart(TransLast, S, B, E, TransVerdict(i), prevBad)
    BY DEF TransApart
  <2> HIDE DEF S, B, E
  <2> QED
    BY <1>1, <2>1 DEF Apart
<1>4. Apart(TransLast, T, C, F, q, z) => TransApart(i)'
  <2>1. Apart(TransLast, T, C, F, TransVerdict(i)', prevBad') => TransApart(i)'
    BY DEF TransApart, TransLast, L
  <2> HIDE DEF T, C, F
  <2>2. Apart(TransLast, T, C, F, q, z) =>
           Apart(TransLast, T, C, F, TransVerdict(i)', prevBad')
    BY <1>1 DEF Apart
  <2> QED
    BY <2>1, <2>2
<1> HIDE DEF S, B, E, T, C, F
<1>5. /\ \A k \in 0 .. 2 * L + 1 : TransAt(i, k + 1)' <=> TransAt(i, k)
      /\ TransBadAt(i, 1)' <=>
            /\ Presented
            /\ SumOut(i, sample.pos["US"][i] + sample.pos["DS"][i])
      /\ \A k \in 1 .. 2 * L + 1 : TransBadAt(i, k + 1)' <=> TransBadAt(i, k)
  BY TransFlow
<1>6. \A k \in 0 .. TransLast - 1 : T[k + 1] <=> S[k]
  <2> SUFFICES ASSUME NEW k \in 0 .. TransLast - 1 PROVE T[k + 1] <=> S[k]
    OBVIOUS
  <2>1. PICK n \in 1 .. TransLast : n = k + 1
    BY <1>0
  <2>2. k \in 0 .. TransLast /\ n \in 0 .. TransLast /\ k \in 0 .. 2 * L + 1
    BY <1>0
  <2>3. TransAt(i, n)' <=> TransAt(i, k)
    BY <1>5, <2>1, <2>2
  <2> QED
    BY <1>2, <2>1, <2>2, <2>3
<1>7. \A k \in 1 .. TransLast - 1 : C[k + 1] => B[k]
  <2> SUFFICES ASSUME NEW k \in 1 .. TransLast - 1 PROVE C[k + 1] => B[k]
    OBVIOUS
  <2>1. PICK n \in 1 .. TransLast : n = k + 1
    BY <1>0
  <2>2. k \in 1 .. TransLast /\ k \in 1 .. 2 * L + 1
    BY <1>0
  <2>3. TransBadAt(i, n)' <=> TransBadAt(i, k)
    BY <1>5, <2>1, <2>2
  <2> QED
    BY <1>2, <2>1, <2>2, <2>3
<1>8. S[0] <=> Presented
  <2>1. 0 \in 0 .. TransLast
    BY <1>0
  <2>2. TransAt(i, 0) <=> Presented
    BY <1>0 DEF TransAt, Presented
  <2> QED
    BY <1>2, <2>1, <2>2
<1>9. C[1] => S[0] /\ x /\ z
  <2>1. 1 \in 1 .. TransLast
    BY <1>0
  <2>2. SumOut(i, sample.pos["US"][i] + sample.pos["DS"][i]) => TransBad(sample, lim)
    BY DEF SumOut, TransBad
  <2> QED
    BY <1>2, <1>5, <1>8, <2>1, <2>2
<1>10. q => B[TransLast] \/ (r /\ ~S[TransLast])
  <2>1. TransLast \in 1 .. TransLast /\ TransLast \in 0 .. TransLast
    BY <1>0
  <2>2. /\ ~TransAt(i, TransLast) /\ TransVerdict(i)' => TransVerdict(i)
        /\ TransAt(i, TransLast) /\ TransVerdict(i)' => TransBadAt(i, TransLast)
    BY TransVerdictStep
  <2> QED
    BY <1>1, <1>2, <2>1, <2>2
<1>11. /\ \A m \in 1 .. L + 1 : m # L /\ Enough(m + 1)' => Enough(m)
       /\ Enough(L + 1)' => Enough(L) \/ (Enough(L + 1) /\ ~trans_adder[i][L].valid)
       /\ Enough(1)' => Presented /\ SumOk(sample, lim, ctrl)
       /\ intlk_trans_master_en' => Enough(L + 2)
  BY GateMoves
<1>12. ASSUME NEW m \in 1 .. L + 2, m # L, F[m + 1]
       PROVE  E[m]
  <2>1. CASE m \in 1 .. L + 1
    <3>1. PICK n \in 1 .. L + 2 : n = m + 1
      BY <1>0, <2>1
    <3>2. Enough(n)'
      BY <1>2, <1>12, <3>1
    <3>3. Enough(m)
      BY <1>11, <1>12, <2>1, <3>1, <3>2
    <3> QED
      BY <1>2, <3>3
  <2>2. CASE m = L + 2
    <3>1. m + 1 = L + 3
      BY <1>0, <2>2
    <3>2. Enough(L + 2)
      BY <1>2, <1>11, <1>12, <3>1
    <3> QED
      BY <1>2, <2>2, <3>2
  <2> QED
    BY <1>0, <2>1, <2>2
<1>13. F[L + 1] => E[L] \/ (E[L + 1] /\ ~S[L])
  <2>1. L \in 1 .. L + 2 /\ L + 1 \in 1 .. L + 2 /\ L \in 0 .. TransLast
    BY <1>0
  <2>2. TransAt(i, L) <=> trans_adder[i][L].valid
    BY <1>0 DEF TransAt
  <2> QED
    BY <1>2, <1>11, <2>1, <2>2
<1>14. F[1] => S[0] /\ ~x /\ ~p
  <2>1. 1 \in 1 .. L + 2
    BY <1>0
  <2> QED
    BY <1>2, <1>8, <1>11, <2>1
<1>15. \A k \in 1 .. TransLast : B[k] => S[k]
  <2> SUFFICES ASSUME NEW k \in 1 .. TransLast, B[k] PROVE S[k]
    OBVIOUS
  <2>1. k \in 0 .. TransLast
    BY <1>0
  <2>2. TransAt(i, k)
    BY <1>2, TransBadIsAt
  <2> QED
    BY <1>2, <2>1, <2>2
<1>16. ~z => S[0] \/ ~p
  BY <1>8
<1>17. \A k, m \in 0 .. TransLast : k < m /\ S[k] /\ S[m] => m - k > L
  BY <1>0, <1>2 DEF TransSpaced
<1>18. \A m \in 1 .. L + 2 : m # L /\ F[m + 1] => E[m]
  BY <1>12
<1>19. Moves(TransLast, S, B, E, r, p, T, C, F, q, z, x)
  BY <1>6, <1>7, <1>9, <1>10, <1>13, <1>14, <1>15, <1>16, <1>17, <1>18 DEF Moves
<1>20. Apart(TransLast, T, C, F, q, z)
  BY <1>0, <1>3, <1>19, ApartStep
<1> QED
  BY <1>4, <1>20


\* The same of the angular detector.
LEMMA AngApartStep ==
    ASSUME GateOn, IInv, Together, Fits, LimitsKept, ~upset, Edge, ~ctrl.rst, lim' = lim,
           ctrl' \in Ctrls, NEW i \in Chans, AngApart(i),
           NEW p \in BOOLEAN, p <=> prevBad, NEW z \in BOOLEAN, z <=> prevBad',
           NEW x \in BOOLEAN, x <=> TransBad(sample, lim) \/ AngBad(sample, lim),
           z <=> IF Presented THEN x ELSE p,
           ~(Presented /\ SumOk(sample, lim, ctrl) /\ (x \/ p))
    PROVE  AngApart(i)'
<1>0. /\ L \in Nat /\ L >= 1 /\ AngSpaced /\ AngLast = 2 * L + 1
      /\ AngLast \in {2 * L + 1, 2 * L + 2} /\ AngLast - 1 = 2 * L
  BY LatencyAssumption DEF L, IInv, AngLast
<1>1. PICK r \in BOOLEAN, q \in BOOLEAN : /\ r <=> AngVerdict(i)
                                          /\ q <=> AngVerdict(i)'
  OBVIOUS
<1> DEFINE S == [k \in 0 .. AngLast |-> AngAt(i, k)]
           T == [k \in 0 .. AngLast |-> AngAt(i, k)']
           B == [k \in 1 .. AngLast |-> AngBadAt(i, k)]
           C == [k \in 1 .. AngLast |-> AngBadAt(i, k)']
           E == [m \in 1 .. L + 3 |->
                    IF m = L + 3 THEN intlk_ang_master_en ELSE Enough(m)]
           F == [m \in 1 .. L + 3 |->
                    IF m = L + 3 THEN intlk_ang_master_en' ELSE Enough(m)']
<1>2. /\ \A k \in 0 .. AngLast : (S[k] <=> AngAt(i, k)) /\ (T[k] <=> AngAt(i, k)')
      /\ \A k \in 1 .. AngLast : (B[k] <=> AngBadAt(i, k))
                                   /\ (C[k] <=> AngBadAt(i, k)')
      /\ \A m \in 1 .. L + 2 : (E[m] <=> Enough(m)) /\ (F[m] <=> Enough(m)')
      /\ E[L + 3] <=> intlk_ang_master_en
      /\ F[L + 3] <=> intlk_ang_master_en'
  BY <1>0
<1>3. Apart(AngLast, S, B, E, r, p)
  <2>1. Apart(AngLast, S, B, E, AngVerdict(i), prevBad)
    BY DEF AngApart
  <2> HIDE DEF S, B, E
  <2> QED
    BY <1>1, <2>1 DEF Apart
<1>4. Apart(AngLast, T, C, F, q, z) => AngApart(i)'
  <2>1. Apart(AngLast, T, C, F, AngVerdict(i)', prevBad') => AngApart(i)'
    BY DEF AngApart, AngLast, L
  <2> HIDE DEF T, C, F
  <2>2. Apart(AngLast, T, C, F, q, z) =>
           Apart(AngLast, T, C, F, AngVerdict(i)', prevBad')
    BY <1>1 DEF Apart
  <2> QED
    BY <2>1, <2>2
<1> HIDE DEF S, B, E, T, C, F
<1>5. /\ \A k \in 0 .. 2 * L : AngAt(i, k + 1)' <=> AngAt(i, k)
      /\ AngBadAt(i, 1)' <=>
            /\ Presented
            /\ AngOut(i, sample.pos["DS"][i] - sample.pos["US"][i])
      /\ \A k \in 1 .. 2 * L : AngBadAt(i, k + 1)' <=> AngBadAt(i, k)
  BY AngFlow
<1>6. \A k \in 0 .. AngLast - 1 : T[k + 1] <=> S[k]
  <2> SUFFICES ASSUME NEW k \in 0 .. AngLast - 1 PROVE T[k + 1] <=> S[k]
    OBVIOUS
  <2>1. PICK n \in 1 .. AngLast : n = k + 1
    BY <1>0
  <2>2. k \in 0 .. AngLast /\ n \in 0 .. AngLast /\ k \in 0 .. 2 * L
    BY <1>0
  <2>3. AngAt(i, n)' <=> AngAt(i, k)
    BY <1>5, <2>1, <2>2
  <2> QED
    BY <1>2, <2>1, <2>2, <2>3
<1>7. \A k \in 1 .. AngLast - 1 : C[k + 1] => B[k]
  <2> SUFFICES ASSUME NEW k \in 1 .. AngLast - 1 PROVE C[k + 1] => B[k]
    OBVIOUS
  <2>1. PICK n \in 1 .. AngLast : n = k + 1
    BY <1>0
  <2>2. k \in 1 .. AngLast /\ k \in 1 .. 2 * L
    BY <1>0
  <2>3. AngBadAt(i, n)' <=> AngBadAt(i, k)
    BY <1>5, <2>1, <2>2
  <2> QED
    BY <1>2, <2>1, <2>2, <2>3
<1>8. S[0] <=> Presented
  <2>1. 0 \in 0 .. AngLast
    BY <1>0
  <2>2. AngAt(i, 0) <=> Presented
    BY <1>0 DEF AngAt, Presented
  <2> QED
    BY <1>2, <2>1, <2>2
<1>9. C[1] => S[0] /\ x /\ z
  <2>1. 1 \in 1 .. AngLast
    BY <1>0
  <2>2. AngOut(i, sample.pos["DS"][i] - sample.pos["US"][i]) => AngBad(sample, lim)
    BY DEF AngOut, AngBad
  <2> QED
    BY <1>2, <1>5, <1>8, <2>1, <2>2
<1>10. q => B[AngLast] \/ (r /\ ~S[AngLast])
  <2>1. AngLast \in 1 .. AngLast /\ AngLast \in 0 .. AngLast
    BY <1>0
  <2>2. /\ ~AngAt(i, AngLast) /\ AngVerdict(i)' => AngVerdict(i)
        /\ AngAt(i, AngLast) /\ AngVerdict(i)' => AngBadAt(i, AngLast)
    BY AngVerdictStep
  <2> QED
    BY <1>1, <1>2, <2>1, <2>2
<1>11. /\ \A m \in 1 .. L + 1 : m # L /\ Enough(m + 1)' => Enough(m)
       /\ Enough(L + 1)' => Enough(L) \/ (Enough(L + 1) /\ ~ang_adder[i][L].valid)
       /\ Enough(1)' => Presented /\ SumOk(sample, lim, ctrl)
       /\ intlk_ang_master_en' => Enough(L + 2)
  <2>1. ang_adder[i][L].valid = trans_adder[i][L].valid
    BY GateMoves
  <2> QED
    BY <2>1, GateMoves
<1>12. ASSUME NEW m \in 1 .. L + 2, m # L, F[m + 1]
       PROVE  E[m]
  <2>1. CASE m \in 1 .. L + 1
    <3>1. PICK n \in 1 .. L + 2 : n = m + 1
      BY <1>0, <2>1
    <3>2. Enough(n)'
      BY <1>2, <1>12, <3>1
    <3>3. Enough(m)
      BY <1>11, <1>12, <2>1, <3>1, <3>2
    <3> QED
      BY <1>2, <3>3
  <2>2. CASE m = L + 2
    <3>1. m + 1 = L + 3
      BY <1>0, <2>2
    <3>2. Enough(L + 2)
      BY <1>2, <1>11, <1>12, <3>1
    <3> QED
      BY <1>2, <2>2, <3>2
  <2> QED
    BY <1>0, <2>1, <2>2
<1>13. F[L + 1] => E[L] \/ (E[L + 1] /\ ~S[L])
  <2>1. L \in 1 .. L + 2 /\ L + 1 \in 1 .. L + 2 /\ L \in 0 .. AngLast
    BY <1>0
  <2>2. AngAt(i, L) <=> ang_adder[i][L].valid
    BY <1>0 DEF AngAt
  <2> QED
    BY <1>2, <1>11, <2>1, <2>2
<1>14. F[1] => S[0] /\ ~x /\ ~p
  <2>1. 1 \in 1 .. L + 2
    BY <1>0
  <2> QED
    BY <1>2, <1>8, <1>11, <2>1
<1>15. \A k \in 1 .. AngLast : B[k] => S[k]
  <2> SUFFICES ASSUME NEW k \in 1 .. AngLast, B[k] PROVE S[k]
    OBVIOUS
  <2>1. k \in 0 .. AngLast
    BY <1>0
  <2>2. AngAt(i, k)
    BY <1>2, AngBadIsAt
  <2> QED
    BY <1>2, <2>1, <2>2
<1>16. ~z => S[0] \/ ~p
  BY <1>8
<1>17. \A k, m \in 0 .. AngLast : k < m /\ S[k] /\ S[m] => m - k > L
  BY <1>0, <1>2 DEF AngSpaced
<1>18. \A m \in 1 .. L + 2 : m # L /\ F[m + 1] => E[m]
  BY <1>12
<1>19. Moves(AngLast, S, B, E, r, p, T, C, F, q, z, x)
  BY <1>6, <1>7, <1>9, <1>10, <1>13, <1>14, <1>15, <1>16, <1>17, <1>18 DEF Moves
<1>20. Apart(AngLast, T, C, F, q, z)
  BY <1>0, <1>3, <1>19, ApartStep
<1> QED
  BY <1>4, <1>20

\* Without a cause no verdict outside the limits meets an open gate.
LEMMA QuietStep ==
    ASSUME GateOn, IInv, Together, Fits, LimitsKept, Quiet, prevBad \in BOOLEAN,
           Next, Monitor
    PROVE  Quiet'
<1> SUFFICES ASSUME ~cause', ~upset'
             PROVE  /\ ~intlk_ltc'
                    /\ \A i \in Chans : /\ TransApart(i)' /\ ~TransLevel(i)'
                                        /\ AngApart(i)' /\ ~AngLevel(i)'
  BY DEF Quiet
<1>0. /\ ~upset /\ ~ctrl.rst /\ lim' = lim /\ Edge /\ ctrl' \in Ctrls
      /\ L \in Nat /\ L >= 1
  BY NotUpset, LatencyAssumption DEF Next, RegisterBank, L
<1>1. PICK x \in BOOLEAN : x <=> TransBad(sample, lim) \/ AngBad(sample, lim)
  OBVIOUS
<1>2. /\ ~cause /\ ~(Presented /\ SumOk(sample, lim, ctrl) /\ (x \/ prevBad))
      /\ prevBad' \in BOOLEAN
      /\ prevBad' <=> IF Presented THEN x ELSE prevBad
  <2>1. cause' = (cause \/ /\ Presented
                           /\ SumOk(sample, lim, ctrl)
                           /\ \/ TransBad(sample, lim) \/ AngBad(sample, lim)
                              \/ prevBad)
    BY DEF Monitor
  <2>2. prevBad' = IF Presented THEN TransBad(sample, lim) \/ AngBad(sample, lim)
                   ELSE prevBad
    BY DEF Monitor
  <2>3. prevBad' \in BOOLEAN
    <3>1. CASE Presented
      <4>1. prevBad' = (TransBad(sample, lim) \/ AngBad(sample, lim))
        BY <2>2, <3>1
      <4> QED
        BY <4>1
    <3>2. CASE ~Presented
      BY <2>2, <3>2
    <3> QED
      BY <3>1, <3>2
  <2> QED
    BY <1>1, <2>1, <2>2, <2>3
<1>3. /\ ~intlk_ltc
      /\ \A i \in Chans : TransApart(i) /\ ~TransLevel(i) /\ AngApart(i) /\ ~AngLevel(i)
  BY <1>0, <1>2 DEF Quiet
<1>4. PICK p \in BOOLEAN, z \in BOOLEAN : p = prevBad /\ z = prevBad'
  BY <1>2
<1>5. ASSUME NEW i \in Chans
      PROVE  TransApart(i)' /\ AngApart(i)'
  <2>1. /\ p <=> prevBad
        /\ z <=> prevBad'
        /\ z <=> IF Presented THEN x ELSE p
        /\ ~(Presented /\ SumOk(sample, lim, ctrl) /\ (x \/ p))
    BY <1>2, <1>4
  <2>2. TransApart(i) /\ AngApart(i)
    BY <1>3
  <2> QED
    BY <1>0, <1>1, <2>1, <2>2, TransApartStep, AngApartStep
<1>6. ASSUME NEW i \in Chans
      PROVE  ~TransLevel(i)' /\ ~AngLevel(i)'
  <2>0. L + 3 \in 1 .. L + 3 /\ ~(L + 3 <= L + 1)
    BY <1>0
  <2>1. ~(TransVerdict(i) /\ intlk_trans_master_en)
    <3>1. TransApart(i)
      BY <1>3
    <3> QED
      BY <2>0, <3>1 DEF TransApart, Apart
  <2>2. ~(AngVerdict(i) /\ intlk_ang_master_en)
    <3>1. AngApart(i)
      BY <1>3
    <3> QED
      BY <2>0, <3>1 DEF AngApart, Apart
  <2>3. /\ TransLatch(ctrl.rst, intlk_trans_master_en, ctrl.trans_clr)
        /\ AngLatch(ctrl.rst, intlk_ang_master_en, ctrl.ang_clr)
    BY <1>0 DEF Edge, TransTick, AngTick
  <2>4. ~TransLevel(i)'
    BY <1>0, <2>1, <2>3 DEF TransLatch, TransLevel, TransVerdict
  <2>5. ~AngLevel(i)'
    BY <1>0, <2>2, <2>3 DEF AngLatch, AngLevel, AngVerdict
  <2> QED
    BY <2>4, <2>5
<1>7. ~intlk_ltc'
  <2>1. ~intlk_all
    BY <1>3 DEF intlk_all, intlk_trans, intlk_ang, intlk_trans_bigger, intlk_trans_smaller,
                intlk_ang_bigger, intlk_ang_smaller, TransLevel, AngLevel
  <2>2. IntlkOut
    BY <1>0 DEF Edge
  <2> QED
    BY <1>3, <2>1, <2>2 DEF IntlkOut
<1> QED
  BY <1>5, <1>6, <1>7

\* The invariant of a trip with a cause.
CauseInv == IInv /\ Together /\ Fits /\ LimitsKept /\ Quiet /\ prevBad \in BOOLEAN

\* Nothing is in flight and nothing is latched when the FPGA starts.
LEMMA CauseInit ==
    ASSUME GateOn, MonInit
    PROVE  CauseInv
<1>1. IInv /\ Together /\ Fits
  BY MonInitInv DEF MonInv
<1>2. LimitsKept
  BY EmptyPipeType DEF MonInit, Init, TransInit, AngInit, LimitsKept
<1>3. L \in Nat /\ L >= 1 /\ Stages = 1 .. L /\ ctrl.min_sum_en
  BY LatencyAssumption DEF L, Stages, GateOn, MonInit, Init
<1>4. ASSUME NEW i \in Chans
      PROVE  TransApart(i) /\ AngApart(i)
  <2>1. ~TransVerdict(i) /\ ~AngVerdict(i)
    BY DEF MonInit, Init, TransInit, AngInit, TransVerdict, AngVerdict
  <2>2. ASSUME NEW k \in 1 .. TransLast PROVE ~TransBadAt(i, k)
    <3>1. /\ \A n \in Stages : ~trans_adder[i][n].valid
                             /\ ~trans_bigger_adder[i][n].valid
          /\ ~trans_sum_valid_reg[i] /\ ~trans_valid[i]
      BY EmptyPipeType DEF MonInit, Init, TransInit
    <3>2. CASE k \in 1 .. L
      BY <1>3, <3>1, <3>2 DEF TransBadAt
    <3>3. CASE k = L + 1 \/ k = L + 2
      BY <1>3, <3>1, <3>3 DEF TransBadAt
    <3>4. CASE k > L + 2
      <4>1. k - L - 2 \in Stages
        BY <1>3, <3>4 DEF TransLast
      <4> QED
        BY <1>3, <3>1, <3>4, <4>1 DEF TransBadAt
    <3> QED
      BY <1>3, <3>2, <3>3, <3>4
  <2>3. ASSUME NEW k \in 1 .. AngLast PROVE ~AngBadAt(i, k)
    <3>1. /\ \A n \in Stages : ~ang_adder[i][n].valid /\ ~ang_bigger_adder[i][n].valid
          /\ ~ang_sum_valid_reg[i]
      BY EmptyPipeType DEF MonInit, Init, AngInit
    <3>2. CASE k \in 1 .. L
      BY <1>3, <3>1, <3>2 DEF AngBadAt
    <3>3. CASE k = L + 1
      BY <1>3, <3>1, <3>3 DEF AngBadAt
    <3>4. CASE k > L + 1
      <4>1. k - L - 1 \in Stages
        BY <1>3, <3>4 DEF AngLast
      <4> QED
        BY <1>3, <3>1, <3>4, <4>1 DEF AngBadAt
    <3> QED
      BY <1>3, <3>2, <3>3, <3>4
  <2>4. TransApart(i)
    BY <2>1, <2>2 DEF TransApart, Apart
  <2>5. AngApart(i)
    BY <2>1, <2>3 DEF AngApart, Apart
  <2> QED
    BY <2>4, <2>5
<1>5. /\ ~intlk_ltc /\ \A i \in Chans : ~TransLevel(i) /\ ~AngLevel(i)
  BY DEF MonInit, Init, TransInit, AngInit, TransLevel, AngLevel
<1>6. prevBad \in BOOLEAN
  BY DEF MonInit
<1> QED
  BY <1>1, <1>2, <1>4, <1>5, <1>6 DEF CauseInv, Quiet

\* prevBad is a bit.
LEMMA PrevBadStep ==
    ASSUME prevBad \in BOOLEAN, Monitor
    PROVE  prevBad' \in BOOLEAN
<1>1. prevBad' = IF Presented THEN TransBad(sample, lim) \/ AngBad(sample, lim)
                 ELSE prevBad
  BY DEF Monitor
<1>2. CASE Presented
  <2>1. prevBad' = (TransBad(sample, lim) \/ AngBad(sample, lim))
    BY <1>1, <1>2
  <2> QED
    BY <2>1
<1>3. CASE ~Presented
  BY <1>1, <1>3
<1> QED
  BY <1>2, <1>3

\* No edge breaks it.
LEMMA CauseStep ==
    ASSUME NoOverflow, GateOn
    PROVE  CauseInv /\ [Next /\ Monitor]_allVars => CauseInv'
<1> SUFFICES ASSUME CauseInv, [Next /\ Monitor]_allVars PROVE CauseInv'
  OBVIOUS
<1>1. CASE Next /\ Monitor
  <2>1. IInv'
    BY <1>1, InvStep DEF CauseInv
  <2>2. TypeOK
    BY DEF CauseInv, IInv
  <2> QED
    BY <1>1, <2>1, <2>2, TogetherStep, FitsStep, LimitsKeptStep, QuietStep, PrevBadStep
    DEF CauseInv
<1>2. CASE UNCHANGED allVars
  <2>1. UNCHANGED vars /\ UNCHANGED monVars
    BY <1>2 DEF allVars
  <2>2. IInv'
    BY <2>1, InvStep DEF CauseInv
  <2>3. Together' /\ Fits' /\ LimitsKept' /\ prevBad' \in BOOLEAN
    BY <2>1 DEF CauseInv, vars, envVars, gateVars, transVars, angVars, monVars, Together,
                Fits, LimitsKept
  <2>4. Quiet'
    <3>1. /\ \A i \in Chans : TransLevel(i)' = TransLevel(i) /\ AngLevel(i)' = AngLevel(i)
          /\ cause' = cause /\ upset' = upset /\ intlk_ltc' = intlk_ltc
      BY <2>1 DEF vars, outVars, transVars, angVars, monVars, TransLevel, AngLevel
    <3>2. ASSUME NEW i \in Chans PROVE TransApart(i)' = TransApart(i)
      <4>1. /\ \A k \in 0 .. TransLast : TransAt(i, k)' = TransAt(i, k)
            /\ \A k \in 1 .. TransLast : TransBadAt(i, k)' = TransBadAt(i, k)
            /\ \A m \in 1 .. L + 3 : Enough(m)' = Enough(m)
            /\ TransVerdict(i)' = TransVerdict(i) /\ prevBad' = prevBad
            /\ intlk_trans_master_en' = intlk_trans_master_en
        BY <2>1 DEF vars, envVars, gateVars, transVars, monVars, TransAt, TransBadAt,
                    TransVerdict, Enough, SumOut, TransOut
      <4>2. /\ [k \in 0 .. TransLast |-> TransAt(i, k)']
                  = [k \in 0 .. TransLast |-> TransAt(i, k)]
            /\ [k \in 1 .. TransLast |-> TransBadAt(i, k)']
                  = [k \in 1 .. TransLast |-> TransBadAt(i, k)]
            /\ [m \in 1 .. L + 3 |-> IF m = L + 3 THEN intlk_trans_master_en'
                                     ELSE Enough(m)']
                  = [m \in 1 .. L + 3 |-> IF m = L + 3 THEN intlk_trans_master_en
                                          ELSE Enough(m)]
        BY <4>1
      <4> QED
        BY <4>1, <4>2 DEF TransApart, TransLast, L
    <3>3. ASSUME NEW i \in Chans PROVE AngApart(i)' = AngApart(i)
      <4>1. /\ \A k \in 0 .. AngLast : AngAt(i, k)' = AngAt(i, k)
            /\ \A k \in 1 .. AngLast : AngBadAt(i, k)' = AngBadAt(i, k)
            /\ \A m \in 1 .. L + 3 : Enough(m)' = Enough(m)
            /\ AngVerdict(i)' = AngVerdict(i) /\ prevBad' = prevBad
            /\ intlk_ang_master_en' = intlk_ang_master_en
        BY <2>1 DEF vars, envVars, gateVars, angVars, monVars, AngAt, AngBadAt,
                    AngVerdict, Enough, AngOut
      <4>2. /\ [k \in 0 .. AngLast |-> AngAt(i, k)']
                  = [k \in 0 .. AngLast |-> AngAt(i, k)]
            /\ [k \in 1 .. AngLast |-> AngBadAt(i, k)']
                  = [k \in 1 .. AngLast |-> AngBadAt(i, k)]
            /\ [m \in 1 .. L + 3 |-> IF m = L + 3 THEN intlk_ang_master_en'
                                     ELSE Enough(m)']
                  = [m \in 1 .. L + 3 |-> IF m = L + 3 THEN intlk_ang_master_en
                                          ELSE Enough(m)]
        BY <4>1
      <4> QED
        BY <4>1, <4>2 DEF AngApart, AngLast, L
    <3> QED
      BY <3>1, <3>2, <3>3 DEF CauseInv, Quiet
  <2> QED
    BY <2>2, <2>3, <2>4 DEF CauseInv
<1> QED
  BY <1>1, <1>2

\* With the minimum sum gate on, a trip has a cause: some sample was outside
\* the limits, and it or the sample after it had enough sum, as long as the
\* sums and differences of the positions fit their word.
THEOREM TripIsCaused ==
    ASSUME NoOverflow, GateOn
    PROVE  MonSpec => []TripHasCause
<1>1. MonInit => CauseInv
  BY CauseInit
<1>2. CauseInv => TripHasCause
  BY DEF CauseInv, Quiet, TripHasCause
<1> QED
  BY <1>1, <1>2, CauseStep, PTL DEF MonSpec

=============================================================================
