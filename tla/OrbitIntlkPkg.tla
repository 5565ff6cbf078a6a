--------------------------- MODULE OrbitIntlkPkg ---------------------------
(***************************************************************************)
(* Constants and word arithmetic shared by the orbit interlock modules.    *)
(*                                                                         *)
(* A word of the gateware (g_DECIM_WIDTH bits, two's complement) is the    *)
(* integer it denotes, in -Half .. Half-1 with Half = 2^(width-1).  The    *)
(* pipelined adder gc_big_adder2 comes from the general-cores submodule,   *)
(* which is not part of the repository: it is modelled from the way the    *)
(* interlock uses it, as a delay line of its operands with the sum and the *)
(* carry formed at its end.                                                *)
(***************************************************************************)
EXTENDS Integers

CONSTANTS
    Half,           \* 2^(g_DECIM_WIDTH-1)
    AdderLatency,   \* clock cycles from valid_i to c2x2_valid_o
    Chans           \* the monitored channels (c_CHAN_X_IDX, c_CHAN_Y_IDX)

ASSUME HalfAssumption    == Half \in Nat \ {0}
ASSUME LatencyAssumption == AdderLatency \in Nat \ {0}

\* The two BPMs of a pair: downstream and upstream.
BPMs == {"DS", "US"}

Words == -Half .. (Half - 1)

\* The VHDL "not" of a word, its sign bit and its unsigned reading.
Not(w)      == -w - 1
HighBit(w)  == w < 0
Unsigned(w) == IF w < 0 THEN w + 2 * Half ELSE w

\* Mutant: the sum is not reduced modulo 2^width.
AddX2NoWrap(e) == e.a + e.b + e.c

\* x2_o and c2_o of gc_big_adder2: the sum modulo 2^width and its carry out.
AddX2(e) == LET s == e.a + e.b + e.c
            IN  IF s >= Half THEN s - 2 * Half
                ELSE IF s < -Half THEN s + 2 * Half ELSE s
AddC2(e) == Unsigned(e.a) + Unsigned(e.b) + e.c >= 2 * Half

\* shift_right(signed(w), 1)
ShiftRight1(w) == w \div 2

(***************************************************************************)
(* The adder's delay line.  Operands of a cycle without valid_i are never  *)
(* looked at, every consumer being gated by c2x2_valid_o: they are Idle.   *)
(***************************************************************************)
Operands == [valid : BOOLEAN, a : Words, b : Words, c : {0, 1}]
Idle     == [valid |-> FALSE, a |-> 0, b |-> 0, c |-> 0]
Feed(v, a, b, c) == IF v THEN [valid |-> TRUE, a |-> a, b |-> b, c |-> c]
                    ELSE Idle

Stages       == 1 .. AdderLatency
Pipes        == [Stages -> Operands]
EmptyPipe    == [k \in Stages |-> Idle]
Shift(p, in) == [k \in Stages |-> IF k = 1 THEN in ELSE p[k - 1]]
Out(p)       == p[AdderLatency]

\* Mutant: the carry alone, as for unsigned words.
BiggerCombUnsigned(e, val, max) == AddC2(e)

(***************************************************************************)
(* The comparison circuit of orbit_intlk_trans.vhd and orbit_intlk_ang.vhd *)
(* as combinational logic: the carry of the delayed subtraction e, unless  *)
(* the sign bits of the value and of the limit differ NOW.                 *)
(***************************************************************************)
BiggerComb(e, val, max)  == IF HighBit(val) = HighBit(max) THEN AddC2(e)
                            ELSE HighBit(max)
SmallerComb(e, val, min) == IF HighBit(val) = HighBit(min) THEN AddC2(e)
                            ELSE HighBit(val)
=============================================================================
