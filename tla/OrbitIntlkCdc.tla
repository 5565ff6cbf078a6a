--------------------------- MODULE OrbitIntlkCdc ---------------------------
(***************************************************************************)
(* orbit_intlk_cdc.vhd and orbit_intlk_cdc_fifo.vhd: the positions of the  *)
(* two BPMs of a pair cross from their sampling clocks to ref_clk through  *)
(* one asynchronous FIFO per BPM and per channel.  All FIFOs are written   *)
(* blindly (wr_full_o is open) and read together, when channel 0 of every  *)
(* BPM is not empty.                                                       *)
(*                                                                         *)
(* A sample is its number in its BPM's stream.  inferred_async_fifo comes  *)
(* from a submodule and is modelled from its use: a write to a full FIFO   *)
(* and a read of an empty one do nothing, and each side learns of the      *)
(* other's pointer later, at a moment of its own for each FIFO.  The       *)
(* streams are decimated by thousands of clock cycles, so everything       *)
(* settles between two samples of the same BPM; the phase between the two  *)
(* streams is arbitrary.                                                   *)
(***************************************************************************)
EXTENDS Integers, Sequences

CONSTANTS
    BPMs,       \* c_BPM_DS_IDX and c_BPM_US_IDX
    Chans,      \* the position channels
    Chan0,      \* channel 0, whose empty flags drive the read
    Size,       \* c_CDC_REF_SIZE
    Drift,      \* a BPM leads the other one by at most this many samples
    MaxWrites   \* bound: samples a BPM produces

ASSUME CdcAssumption == /\ BPMs # {}
                        /\ Chan0 \in Chans
                        /\ Size \in Nat
                        /\ Size > 1
                        /\ Drift \in Nat
                        /\ MaxWrites \in Nat

VARIABLES
    written,    \* samples each BPM has produced
    busy,       \* the BPMs that wrote since everything was last settled
    fifo,       \* per BPM and channel: the contents
    seen,       \* per BPM and channel: entries the read side knows of
    held,       \* per BPM and channel: entries the write side counts
    data_o,     \* per BPM and channel: the FIFO's output register
    valid_o     \* per BPM: fifo_cdc_valid of channel 0

vars == <<written, busy, fifo, seen, held, data_o, valid_o>>

TypeOK ==
    /\ written \in [BPMs -> 0 .. MaxWrites]
    /\ busy \in SUBSET BPMs
    /\ fifo \in [BPMs -> [Chans -> Seq(1 .. MaxWrites)]]
    /\ seen \in [BPMs -> [Chans -> 0 .. Size]]
    /\ held \in [BPMs -> [Chans -> 0 .. Size]]
    /\ data_o \in [BPMs -> [Chans -> 0 .. MaxWrites]]
    /\ valid_o \in [BPMs -> BOOLEAN]

Init ==
    /\ written = [b \in BPMs |-> 0]
    /\ busy = {}
    /\ fifo = [b \in BPMs |-> [c \in Chans |-> <<>>]]
    /\ seen = [b \in BPMs |-> [c \in Chans |-> 0]]
    /\ held = [b \in BPMs |-> [c \in Chans |-> 0]]
    /\ data_o = [b \in BPMs |-> [c \in Chans |-> 0]]
    /\ valid_o = [b \in BPMs |-> FALSE]

-----------------------------------------------------------------------------
\* Mutant: the almost empty flag in place of the empty one.
AlmostEmpty(b, c) == seen[b][c] <= 1

\* empty_o and, on the write side, full.
Empty(b, c) == seen[b][c] = 0
Full(b, c)  == held[b][c] = Size

\* Mutant: the read starts when any BPM has a sample.
ReadAny == \E b \in BPMs : ~Empty(b, Chan0)

\* decim_pos_synch_rd
decim_pos_synch_rd == \A b \in BPMs : ~Empty(b, Chan0)

\* A sample of BPM b (decim_*_pos_valid_i): offered to the FIFO of every
\* channel, and lost where that FIFO is full.
Write(b) ==
    /\ b \notin busy
    /\ written[b] < MaxWrites
    /\ \A p \in BPMs : written[b] - written[p] < Drift
    /\ written' = [written EXCEPT ![b] = written[b] + 1]
    /\ busy' = busy \cup {b}
    /\ fifo' = [fifo EXCEPT ![b] = [c \in Chans |->
           IF Full(b, c) THEN fifo[b][c]
           ELSE Append(fifo[b][c], written[b] + 1)]]
    /\ held' = [held EXCEPT ![b] = [c \in Chans |->
           IF Full(b, c) THEN Size ELSE held[b][c] + 1]]
    /\ UNCHANGED <<seen, data_o, valid_o>>

\* The write pointer of a FIFO reaches its read side.
Cross(b, c) ==
    /\ seen[b][c] < Len(fifo[b][c])
    /\ seen' = [seen EXCEPT ![b][c] = Len(fifo[b][c])]
    /\ UNCHANGED <<written, busy, fifo, held, data_o, valid_o>>

\* The read pointer of a FIFO reaches its write side.
CrossBack(b, c) ==
    /\ held[b][c] > Len(fifo[b][c])
    /\ held' = [held EXCEPT ![b][c] = Len(fifo[b][c])]
    /\ UNCHANGED <<written, busy, fifo, seen, data_o, valid_o>>

\* Mutant: the read pointer moves on an empty FIFO too.
ReadUnderflow ==
    /\ decim_pos_synch_rd
    /\ data_o' = [b \in BPMs |-> [c \in Chans |->
           IF Empty(b, c) THEN data_o[b][c] ELSE Head(fifo[b][c])]]
    /\ fifo' = [b \in BPMs |-> [c \in Chans |->
           IF Empty(b, c) THEN fifo[b][c] ELSE Tail(fifo[b][c])]]
    /\ seen' = [b \in BPMs |-> [c \in Chans |-> seen[b][c] - 1]]
    /\ valid_o' = [b \in BPMs |-> ~Empty(b, Chan0)]
    /\ UNCHANGED <<written, busy, held>>

\* Mutant: only channel 0 is taken off its FIFO.
ReadChan0Only ==
    /\ decim_pos_synch_rd
    /\ data_o' = [b \in BPMs |-> [c \in Chans |->
           IF Empty(b, c) THEN data_o[b][c] ELSE Head(fifo[b][c])]]
    /\ fifo' = [b \in BPMs |->
           [fifo[b] EXCEPT ![Chan0] = Tail(fifo[b][Chan0])]]
    /\ seen' = [b \in BPMs |->
           [seen[b] EXCEPT ![Chan0] = seen[b][Chan0] - 1]]
    /\ valid_o' = [b \in BPMs |-> ~Empty(b, Chan0)]
    /\ UNCHANGED <<written, busy, held>>

\* A rising edge of ref_clk_i with the read asserted: every FIFO that is not
\* empty puts its head on its output, and p_gen_cdc_valid sets the flag.
Read ==
    /\ decim_pos_synch_rd
    /\ data_o' = [b \in BPMs |-> [c \in Chans |->
           IF Empty(b, c) THEN data_o[b][c] ELSE Head(fifo[b][c])]]
    /\ fifo' = [b \in BPMs |-> [c \in Chans |->
           IF Empty(b, c) THEN fifo[b][c] ELSE Tail(fifo[b][c])]]
    /\ seen' = [b \in BPMs |-> [c \in Chans |->
           IF Empty(b, c) THEN 0 ELSE seen[b][c] - 1]]
    /\ valid_o' = [b \in BPMs |-> ~Empty(b, Chan0)]
    /\ UNCHANGED <<written, busy, held>>

\* A rising edge of ref_clk_i without it.
NoRead ==
    /\ ~decim_pos_synch_rd
    /\ \E b \in BPMs : valid_o[b]
    /\ valid_o' = [b \in BPMs |-> FALSE]
    /\ UNCHANGED <<written, busy, fifo, seen, held, data_o>>

\* Both pointers of every FIFO have crossed and the reader has stopped: time
\* enough has passed for every BPM to produce its next sample.
Settled == /\ ~decim_pos_synch_rd
           /\ \A b \in BPMs : ~valid_o[b]
           /\ \A b \in BPMs, c \in Chans : /\ seen[b][c] = Len(fifo[b][c])
                                           /\ held[b][c] = Len(fifo[b][c])
Settle ==
    /\ busy # {}
    /\ Settled
    /\ busy' = {}
    /\ UNCHANGED <<written, fifo, seen, held, data_o, valid_o>>

Next ==
    \/ \E b \in BPMs : Write(b)
    \/ \E b \in BPMs, c \in Chans : Cross(b, c) \/ CrossBack(b, c)
    \/ Read
    \/ NoRead
    \/ Settle

Spec == Init /\ [][Next]_vars

\* The pointer synchronisers and ref_clk do not stop.
FairSpec == /\ Spec
            /\ WF_vars(Read)
            /\ \A b \in BPMs, c \in Chans : WF_vars(Cross(b, c))

-----------------------------------------------------------------------------
\* While no BPM leads its partner by more than the FIFOs can hold, a valid
\* pair of positions is one of the same sample number: no crossing order, no
\* late pointer and no phase between the clocks ever shifts the streams
\* against each other (orbit_intlk_cdc.vhd, decim_pos_synch_rd).
PairAligned == \A b, p \in BPMs :
    data_o[b][Chan0] = data_o[p][Chan0]

\* Only channel 0 is asked whether it is empty, so Y and the sum may repeat
\* their previous word under a valid flag; they then stay one sample behind X,
\* never two, and never ahead of it (orbit_intlk_cdc.vhd, the unmangling of
\* decim_*_pos_valid_o from channel 0).
ChannelLag == \A b \in BPMs, c \in Chans :
    data_o[b][Chan0] - data_o[b][c] \in {0, 1}

\* Whatever the drift and the losses, at every read one BPM of the pair
\* contributes the newest sample it has produced: only its partner's may be
\* old (orbit_intlk_cdc.vhd, decim_pos_synch_rd).
FreshPair ==
    [][Read => \E b \in BPMs : data_o'[b][Chan0] = written[b]]_vars

\* However full the FIFOs are, pairs are never presented back to back: a pair
\* is only read after the previous one has left the output and the crossing
\* has settled.  The detectors behind the crossing rely on that gap, their
\* verdict being taken a comparator latency after the sample.
NoBurst == [][Read => \A b \in BPMs : ~valid_o[b]]_vars

\* A sample of a BPM whose partner has a sample waiting is eventually
\* presented, or the partner's is (the read is never blocked by a FIFO of
\* another channel).
PairEventuallyRead ==
    (\A b \in BPMs : fifo[b][Chan0] # <<>>) ~> (\E b \in BPMs : valid_o[b])
=============================================================================
