------------------------ MODULE OrbitIntlkCdcProofs ------------------------
(***************************************************************************)
(* While no BPM leads the other one by more than Size-2 samples, the clock *)
(* domain crossing loses nothing and presents pairs of the same sample     *)
(* number, for every number of BPMs, channels and samples.                 *)
(*                                                                         *)
(* Whatever the lead, samples lost included, one sample of each pair is    *)
(* the newest of its BPM, and pairs do not come back to back.              *)
(***************************************************************************)
EXTENDS OrbitIntlkCdc, TLAPS

\* The types the argument needs.
Types ==
    /\ written \in [BPMs -> Int]
    /\ busy \in SUBSET BPMs
    /\ fifo \in [BPMs -> [Chans -> Seq(Int)]]
    /\ seen \in [BPMs -> [Chans -> Int]]
    /\ held \in [BPMs -> [Chans -> Int]]
    /\ data_o \in [BPMs -> [Chans -> Int]]

\* Nothing was lost: a FIFO holds the samples that follow its output, up to
\* the last one its BPM produced.
NoLoss == \A b \in BPMs, c \in Chans :
    /\ Len(fifo[b][c]) = written[b] - data_o[b][c]
    /\ \A i \in 1 .. Len(fifo[b][c]) : fifo[b][c][i] = data_o[b][c] + i

\* What the two sides know of each other's pointers.
Pointers == \A b \in BPMs, c \in Chans :
    /\ seen[b][c] >= 0
    /\ Len(fifo[b][c]) - seen[b][c] \in {0, 1}
    /\ b \notin busy => seen[b][c] = Len(fifo[b][c])
    /\ held[b][c] >= Len(fifo[b][c])

\* The room the write side counts on.  At the last settled moment some BPM p
\* had nothing waiting, so what b holds is what b is ahead of p, but for the
\* sample p may have added since and the one a late channel may owe.
Slack(p, c) == (IF p \in busy THEN 1 ELSE 0) + (IF c = Chan0 THEN 0 ELSE 1)
Room == \A b \in BPMs, c \in Chans : \E p \in BPMs :
    held[b][c] <= written[b] - written[p] + Slack(p, c)

Inv == Types /\ NoLoss /\ Pointers /\ Room /\ PairAligned /\ ChannelLag

\* Initially every FIFO is empty and nothing has been produced.
LEMMA InitInv == Init => Inv
<1> SUFFICES ASSUME Init PROVE Inv
  OBVIOUS
<1>1. Types
  BY DEF Init, Types
<1>2. NoLoss /\ Pointers
  BY DEF Init, NoLoss, Pointers
<1>3. Room
  BY CdcAssumption DEF Init, Room, Slack
<1>4. PairAligned /\ ChannelLag
  BY CdcAssumption DEF Init, PairAligned, ChannelLag
<1> QED
  BY <1>1, <1>2, <1>3, <1>4 DEF Inv

\* With the drift bounded by Size-2, no channel of a BPM that may write is
\* full.
LEMMA NotFull ==
    ASSUME Drift + 2 <= Size, Inv, NEW b \in BPMs, Write(b)
    PROVE  \A c \in Chans : ~Full(b, c)
<1> SUFFICES ASSUME NEW c \in Chans PROVE ~Full(b, c)
  OBVIOUS
<1>1. PICK p \in BPMs : held[b][c] <= written[b] - written[p] + Slack(p, c)
  BY DEF Inv, Room
<1>2. Slack(p, c) \in {0, 1, 2}
  BY DEF Slack
<1>3. written[b] - written[p] < Drift
  BY DEF Write
<1>4. /\ held[b][c] \in Int /\ written[b] \in Int /\ written[p] \in Int
      /\ Drift \in Int /\ Size \in Int
  BY CdcAssumption DEF Inv, Types
<1> QED
  BY <1>1, <1>2, <1>3, <1>4 DEF Full

\* A sample that is written reaches every FIFO of its BPM.
LEMMA WriteStep ==
    ASSUME Drift + 2 <= Size, Inv, NEW b \in BPMs, Write(b)
    PROVE  Inv'
<1>0. \A c \in Chans : ~Full(b, c)
  BY NotFull
<1>1. /\ written' = [written EXCEPT ![b] = written[b] + 1]
      /\ busy' = busy \cup {b}
      /\ fifo' = [fifo EXCEPT ![b] = [c \in Chans |->
                     Append(fifo[b][c], written[b] + 1)]]
      /\ held' = [held EXCEPT ![b] = [c \in Chans |-> held[b][c] + 1]]
      /\ seen' = seen /\ data_o' = data_o
      /\ b \notin busy
  BY <1>0 DEF Write
<1> USE DEF Inv
<1>2. Types'
  BY <1>1 DEF Types
<1>3. NoLoss'
  <2> SUFFICES ASSUME NEW d \in BPMs, NEW c \in Chans
               PROVE /\ Len(fifo'[d][c]) = written'[d] - data_o'[d][c]
                     /\ \A i \in 1 .. Len(fifo'[d][c]) :
                           fifo'[d][c][i] = data_o'[d][c] + i
    BY DEF NoLoss
  <2>1. CASE d = b
    <3>1. /\ fifo[b][c] \in Seq(Int) /\ written[b] \in Int
          /\ data_o[b][c] \in Int
      BY DEF Types
    <3>2. /\ fifo'[b][c] = Append(fifo[b][c], written[b] + 1)
          /\ written'[b] = written[b] + 1
      BY <1>1 DEF Types
    <3>3. /\ Len(fifo[b][c]) = written[b] - data_o[b][c]
          /\ \A i \in 1 .. Len(fifo[b][c]) : fifo[b][c][i] = data_o[b][c] + i
      BY DEF NoLoss
    <3> QED
      BY <1>1, <2>1, <3>1, <3>2, <3>3, SMTT(40)
  <2>2. CASE d # b
    BY <1>1, <2>2 DEF NoLoss, Types
  <2> QED
    BY <2>1, <2>2
<1>4. Pointers'
  <2> SUFFICES ASSUME NEW d \in BPMs, NEW c \in Chans
               PROVE /\ seen'[d][c] >= 0
                     /\ Len(fifo'[d][c]) - seen'[d][c] \in {0, 1}
                     /\ d \notin busy' => seen'[d][c] = Len(fifo'[d][c])
                     /\ held'[d][c] >= Len(fifo'[d][c])
    BY DEF Pointers
  <2>1. CASE d = b
    <3>1. /\ fifo'[b][c] = Append(fifo[b][c], written[b] + 1)
          /\ held'[b][c] = held[b][c] + 1
      BY <1>1 DEF Types
    <3>2. Len(fifo'[b][c]) = Len(fifo[b][c]) + 1 /\ Len(fifo[b][c]) \in Nat
      BY <3>1 DEF Types
    <3>3. /\ seen[b][c] = Len(fifo[b][c])
          /\ held[b][c] >= Len(fifo[b][c])
      BY <1>1 DEF Pointers
    <3>4. seen[b][c] \in Int /\ held[b][c] \in Int
      BY DEF Types
    <3> QED
      BY <1>1, <2>1, <3>1, <3>2, <3>3, <3>4
  <2>2. CASE d # b
    BY <1>1, <2>2 DEF Pointers, Types
  <2> QED
    BY <2>1, <2>2
<1>5. Room'
  <2> SUFFICES ASSUME NEW d \in BPMs, NEW c \in Chans
               PROVE \E p \in BPMs :
                   held'[d][c] <= written'[d] - written'[p] + Slack(p, c)'
    BY DEF Room
  <2>1. PICK p \in BPMs :
            held[d][c] <= written[d] - written[p] + Slack(p, c)
    BY DEF Room
  <2>2. /\ Slack(p, c)' = Slack(p, c) + (IF p = b THEN 1 ELSE 0)
        /\ Slack(p, c) \in Int
    BY <1>1 DEF Slack
  <2>4. written[p] \in Int /\ written[d] \in Int /\ held[d][c] \in Int
    BY DEF Types
  <2>3. /\ written'[p] = written[p] + (IF p = b THEN 1 ELSE 0)
        /\ written'[d] = written[d] + (IF d = b THEN 1 ELSE 0)
        /\ held'[d][c] = held[d][c] + (IF d = b THEN 1 ELSE 0)
    <3>1. \A q \in BPMs :
              written'[q] = IF q = b THEN written[b] + 1 ELSE written[q]
      BY <1>1 DEF Types
    <3>2. held'[d][c] = IF d = b THEN held[b][c] + 1 ELSE held[d][c]
      BY <1>1 DEF Types
    <3> QED
      BY <2>4, <3>1, <3>2
  <2> QED
    BY <2>1, <2>2, <2>3, <2>4
<1>6. PairAligned' /\ ChannelLag'
  BY <1>1 DEF PairAligned, ChannelLag
<1> QED
  BY <1>2, <1>3, <1>4, <1>5, <1>6

\* The two pointers of a FIFO reach the other side.
LEMMA CrossStep ==
    ASSUME Inv, NEW b \in BPMs, NEW c \in Chans, Cross(b, c) \/ CrossBack(b, c)
    PROVE  Inv'
<1> USE DEF Inv
<1>0. /\ written' = written /\ busy' = busy /\ fifo' = fifo
      /\ data_o' = data_o
  BY DEF Cross, CrossBack
<1>1. \A d \in BPMs, e \in Chans :
          /\ Len(fifo[d][e]) \in Nat /\ seen[d][e] \in Int
          /\ held[d][e] \in Int
  BY DEF Types
<1>2. \A d \in BPMs, e \in Chans :
          /\ seen'[d][e] \in {seen[d][e], Len(fifo[d][e])}
          /\ held'[d][e] \in {held[d][e], Len(fifo[d][e])}
  <2>1. CASE Cross(b, c)
    BY <2>1 DEF Cross, Types
  <2>2. CASE CrossBack(b, c)
    BY <2>2 DEF CrossBack, Types
  <2> QED
    BY <2>1, <2>2
<1>3. Types'
  <2>1. CASE Cross(b, c)
    BY <1>0, <1>1, <2>1 DEF Types, Cross
  <2>2. CASE CrossBack(b, c)
    BY <1>0, <1>1, <2>2 DEF Types, CrossBack
  <2> QED
    BY <2>1, <2>2
<1>4. NoLoss' /\ PairAligned' /\ ChannelLag'
  BY <1>0 DEF NoLoss, PairAligned, ChannelLag
<1>5. Pointers'
  <2> SUFFICES ASSUME NEW d \in BPMs, NEW e \in Chans
               PROVE /\ seen'[d][e] >= 0
                     /\ Len(fifo[d][e]) - seen'[d][e] \in {0, 1}
                     /\ d \notin busy => seen'[d][e] = Len(fifo[d][e])
                     /\ held'[d][e] >= Len(fifo[d][e])
    BY <1>0 DEF Pointers
  <2>1. /\ seen[d][e] >= 0
        /\ Len(fifo[d][e]) - seen[d][e] \in {0, 1}
        /\ d \notin busy => seen[d][e] = Len(fifo[d][e])
        /\ held[d][e] >= Len(fifo[d][e])
    BY DEF Pointers
  <2> QED
    BY <1>1, <1>2, <2>1
<1>6. Room'
  <2> SUFFICES ASSUME NEW d \in BPMs, NEW e \in Chans
               PROVE \E p \in BPMs :
                   held'[d][e] <= written[d] - written[p] + Slack(p, e)
    BY <1>0 DEF Room, Slack
  <2>1. PICK p \in BPMs :
            held[d][e] <= written[d] - written[p] + Slack(p, e)
    BY DEF Room
  <2>2. held'[d][e] <= held[d][e]
    BY <1>1, <1>2 DEF Pointers
  <2>3. /\ held'[d][e] \in Int /\ written[d] \in Int /\ written[p] \in Int
        /\ Slack(p, e) \in Int
    <3>1. held'[d][e] \in Int
      BY <1>1, <1>2
    <3>2. written[d] \in Int /\ written[p] \in Int
      BY DEF Types
    <3>3. Slack(p, e) \in Int
      BY DEF Slack
    <3> QED
      BY <3>1, <3>2, <3>3
  <2> QED
    BY <1>1, <2>1, <2>2, <2>3
<1> QED
  BY <1>3, <1>4, <1>5, <1>6

\* A read advances the output of every FIFO by one sample, but for a channel
\* that is seen empty: that one was level with channel 0 and falls one behind.
LEMMA ReadStep == Inv /\ Read => Inv'
<1> SUFFICES ASSUME Inv, Read PROVE Inv'
  OBVIOUS
<1> USE DEF Inv
<1>0. written' = written /\ busy' = busy /\ held' = held
  BY DEF Read
<1>1. \A b \in BPMs, c \in Chans :
          /\ fifo[b][c] \in Seq(Int) /\ Len(fifo[b][c]) \in Nat
          /\ seen[b][c] \in Int /\ held[b][c] \in Int
          /\ data_o[b][c] \in Int /\ written[b] \in Int
  BY DEF Types
<1>2. \A b \in BPMs, c \in Chans : ~Empty(b, c) =>
          /\ Len(fifo[b][c]) >= 1 /\ seen[b][c] >= 1
          /\ Head(fifo[b][c]) = data_o[b][c] + 1
  <2> SUFFICES ASSUME NEW b \in BPMs, NEW c \in Chans, ~Empty(b, c)
               PROVE /\ Len(fifo[b][c]) >= 1 /\ seen[b][c] >= 1
                     /\ Head(fifo[b][c]) = data_o[b][c] + 1
    OBVIOUS
  <2>1. seen[b][c] >= 1 /\ Len(fifo[b][c]) >= 1
    BY <1>1 DEF Empty, Pointers
  <2>2. fifo[b][c][1] = data_o[b][c] + 1
    BY <1>1, <2>1 DEF NoLoss
  <2>3. Head(fifo[b][c]) = fifo[b][c][1]
    BY <1>1, <2>1
  <2> QED
    BY <2>1, <2>2, <2>3
<1>3. \A b \in BPMs, c \in Chans :
          /\ Empty(b, c) => /\ data_o'[b][c] = data_o[b][c]
                            /\ fifo'[b][c] = fifo[b][c]
                            /\ seen'[b][c] = 0
          /\ ~Empty(b, c) => /\ data_o'[b][c] = data_o[b][c] + 1
                             /\ fifo'[b][c] = Tail(fifo[b][c])
                             /\ seen'[b][c] = seen[b][c] - 1
  BY <1>2 DEF Read
<1>4. \A b \in BPMs : ~Empty(b, Chan0)
  BY DEF Read, decim_pos_synch_rd
<1>5. Types'
  <2>1. /\ written' \in [BPMs -> Int] /\ busy' \in SUBSET BPMs
        /\ held' \in [BPMs -> [Chans -> Int]]
    BY <1>0 DEF Types
  <2>2. \A b \in BPMs, c \in Chans : ~Empty(b, c) =>
            Tail(fifo[b][c]) \in Seq(Int) /\ Head(fifo[b][c]) \in Int
    BY <1>1, <1>2
  <2>3. data_o' \in [BPMs -> [Chans -> Int]]
    BY <1>1, <2>2 DEF Read
  <2>4. seen' \in [BPMs -> [Chans -> Int]]
    BY <1>1 DEF Read
  <2>5. fifo' \in [BPMs -> [Chans -> Seq(Int)]]
    BY <1>1, <2>2 DEF Read
  <2> QED
    BY <2>1, <2>3, <2>4, <2>5 DEF Types
<1>6. NoLoss'
  <2> SUFFICES ASSUME NEW b \in BPMs, NEW c \in Chans
               PROVE /\ Len(fifo'[b][c]) = written[b] - data_o'[b][c]
                     /\ \A i \in 1 .. Len(fifo'[b][c]) :
                           fifo'[b][c][i] = data_o'[b][c] + i
    BY <1>0 DEF NoLoss
  <2>1. /\ Len(fifo[b][c]) = written[b] - data_o[b][c]
        /\ \A i \in 1 .. Len(fifo[b][c]) : fifo[b][c][i] = data_o[b][c] + i
    BY DEF NoLoss
  <2>2. CASE Empty(b, c)
    BY <1>3, <2>1, <2>2
  <2>3. CASE ~Empty(b, c)
    <3>1. /\ fifo'[b][c] = Tail(fifo[b][c])
          /\ data_o'[b][c] = data_o[b][c] + 1
          /\ Len(fifo[b][c]) >= 1
      BY <1>2, <1>3, <2>3
    <3>2. /\ Len(Tail(fifo[b][c])) = Len(fifo[b][c]) - 1
          /\ \A i \in 1 .. (Len(fifo[b][c]) - 1) :
                Tail(fifo[b][c])[i] = fifo[b][c][i + 1]
      BY <1>1, <3>1
    <3> QED
      BY <1>1, <2>1, <3>1, <3>2, SMTT(40)
  <2> QED
    BY <2>2, <2>3
<1>7. Pointers'
  <2> SUFFICES ASSUME NEW b \in BPMs, NEW c \in Chans
               PROVE /\ seen'[b][c] >= 0
                     /\ Len(fifo'[b][c]) - seen'[b][c] \in {0, 1}
                     /\ b \notin busy => seen'[b][c] = Len(fifo'[b][c])
                     /\ held[b][c] >= Len(fifo'[b][c])
    BY <1>0 DEF Pointers
  <2>1. /\ seen[b][c] >= 0
        /\ Len(fifo[b][c]) - seen[b][c] \in {0, 1}
        /\ b \notin busy => seen[b][c] = Len(fifo[b][c])
        /\ held[b][c] >= Len(fifo[b][c])
    BY DEF Pointers
  <2>2. CASE Empty(b, c)
    BY <1>3, <2>1, <2>2 DEF Empty
  <2>3. CASE ~Empty(b, c)
    <3>1. /\ fifo'[b][c] = Tail(fifo[b][c])
          /\ seen'[b][c] = seen[b][c] - 1
          /\ Len(fifo[b][c]) >= 1 /\ seen[b][c] >= 1
      BY <1>2, <1>3, <2>3
    <3>2. /\ fifo[b][c] \in Seq(Int) /\ Len(fifo[b][c]) \in Nat
          /\ seen[b][c] \in Int /\ held[b][c] \in Int
      BY <1>1
    <3>3. Len(fifo'[b][c]) = Len(fifo[b][c]) - 1
      BY <3>1, <3>2
    <3>4. /\ seen'[b][c] \in Int /\ Len(fifo'[b][c]) \in Int
          /\ Len(fifo[b][c]) \in Int
      BY <3>1, <3>2, <3>3
    <3>5. /\ seen'[b][c] = seen[b][c] - 1 /\ seen[b][c] >= 1
          /\ Len(fifo[b][c]) - seen[b][c] \in {0, 1}
      BY <2>1, <3>1
    <3>6. /\ seen'[b][c] >= 0
          /\ Len(fifo'[b][c]) - seen'[b][c] \in {0, 1}
          /\ seen[b][c] = Len(fifo[b][c]) => seen'[b][c] = Len(fifo'[b][c])
          /\ Len(fifo'[b][c]) <= Len(fifo[b][c])
      <4> DEFINE n == Len(fifo[b][c])  m == seen[b][c]
                 k == Len(fifo'[b][c]) l == seen'[b][c]
      <4>1. n \in Int /\ m \in Int /\ k \in Int /\ l \in Int
        BY <3>2, <3>4
      <4>2. k = n - 1 /\ l = m - 1 /\ m >= 1 /\ n - m \in {0, 1}
        BY <3>3, <3>5
      <4> HIDE DEF n, m, k, l
      <4>3. l >= 0 /\ k - l \in {0, 1} /\ (m = n => l = k) /\ k <= n
        BY <4>1, <4>2
      <4> QED
        BY <4>3 DEF n, m, k, l
    <3>7. held[b][c] >= Len(fifo'[b][c])
      BY <2>1, <3>2, <3>4, <3>6
    <3> QED
      BY <2>1, <3>6, <3>7
  <2> QED
    BY <2>2, <2>3
<1>8. Room'
  BY <1>0 DEF Room, Slack
<1>9. PairAligned'
  BY <1>3, <1>4, CdcAssumption DEF PairAligned
<1>10. ChannelLag'
  <2> SUFFICES ASSUME NEW b \in BPMs, NEW c \in Chans
               PROVE data_o'[b][Chan0] - data_o'[b][c] \in {0, 1}
    BY DEF ChannelLag
  <2>1. data_o'[b][Chan0] = data_o[b][Chan0] + 1
    BY <1>3, <1>4, CdcAssumption
  <2>2. data_o[b][Chan0] - data_o[b][c] \in {0, 1}
    BY DEF ChannelLag
  <2>3. data_o[b][Chan0] \in Int /\ data_o[b][c] \in Int
    BY <1>1, CdcAssumption
  <2>4. CASE ~Empty(b, c)
    BY <1>3, <2>1, <2>2, <2>3, <2>4
  <2>5. CASE Empty(b, c)
    <3>1. /\ Len(fifo[b][Chan0]) = written[b] - data_o[b][Chan0]
          /\ Len(fifo[b][c]) = written[b] - data_o[b][c]
          /\ Len(fifo[b][c]) - seen[b][c] \in {0, 1}
      BY CdcAssumption DEF NoLoss, Pointers
    <3>2. Len(fifo[b][Chan0]) >= 1
      BY <1>2, <1>4, CdcAssumption
    <3>3. seen[b][c] = 0
      BY <2>5 DEF Empty
    <3>4. data_o[b][Chan0] - data_o[b][c] = 0
      BY <1>1, <2>2, <2>3, <3>1, <3>2, <3>3, CdcAssumption
    <3> QED
      BY <1>3, <2>1, <2>3, <2>5, <3>4
  <2> QED
    BY <2>4, <2>5
<1> QED
  BY <1>5, <1>6, <1>7, <1>8, <1>9, <1>10

\* When everything has settled the read has stopped, so some BPM has nothing
\* waiting in channel 0: what the others hold is their lead over it.
LEMMA SettleStep == Inv /\ Settle => Inv'
<1> SUFFICES ASSUME Inv, Settle PROVE Inv'
  OBVIOUS
<1> USE DEF Inv
<1>0. /\ written' = written /\ busy' = {} /\ fifo' = fifo /\ seen' = seen
      /\ held' = held /\ data_o' = data_o
      /\ \A b \in BPMs, c \in Chans : /\ seen[b][c] = Len(fifo[b][c])
                                      /\ held[b][c] = Len(fifo[b][c])
  BY DEF Settle, Settled
<1>1. Types' /\ NoLoss' /\ PairAligned' /\ ChannelLag'
  BY <1>0 DEF Types, NoLoss, PairAligned, ChannelLag
<1>2. Pointers'
  BY <1>0 DEF Pointers
<1>3. PICK p \in BPMs : Empty(p, Chan0)
  BY DEF Settle, Settled, decim_pos_synch_rd
<1>4. Room'
  <2> SUFFICES ASSUME NEW b \in BPMs, NEW c \in Chans
               PROVE held[b][c] <= written[b] - written[p] + Slack(p, c)'
    BY <1>0 DEF Room
  <2>1. Slack(p, c)' = IF c = Chan0 THEN 0 ELSE 1
    BY <1>0 DEF Slack
  <2>2. held[b][c] = written[b] - data_o[b][c]
    BY <1>0 DEF NoLoss
  <2>3. data_o[p][Chan0] = written[p]
    <3>1. Len(fifo[p][Chan0]) = 0
      BY <1>0, <1>3, CdcAssumption DEF Empty
    <3>2. data_o[p][Chan0] \in Int /\ written[p] \in Int
      BY CdcAssumption DEF Types
    <3> QED
      BY <3>1, <3>2, CdcAssumption DEF NoLoss
  <2>4. data_o[b][Chan0] = data_o[p][Chan0]
    BY DEF PairAligned
  <2>5. data_o[b][Chan0] - data_o[b][c] \in {0, 1}
    BY DEF ChannelLag
  <2>6. /\ data_o[b][Chan0] \in Int /\ data_o[b][c] \in Int
        /\ written[b] \in Int /\ written[p] \in Int
    BY CdcAssumption DEF Types
  <2> QED
    BY <2>1, <2>2, <2>3, <2>4, <2>5, <2>6
<1> QED
  BY <1>1, <1>2, <1>4

\* No step breaks the invariant.
LEMMA InvStep ==
    ASSUME Drift + 2 <= Size, Inv, [Next]_vars
    PROVE  Inv'
<1>1. ASSUME NEW b \in BPMs, Write(b) PROVE Inv'
  BY <1>1, WriteStep
<1>2. ASSUME NEW b \in BPMs, NEW c \in Chans, Cross(b, c) \/ CrossBack(b, c)
      PROVE  Inv'
  BY <1>2, CrossStep
<1>3. CASE Read
  BY <1>3, ReadStep
<1>4. CASE NoRead \/ UNCHANGED vars
  <2>1. /\ written' = written /\ busy' = busy /\ fifo' = fifo /\ seen' = seen
        /\ held' = held /\ data_o' = data_o
    BY <1>4 DEF NoRead, vars
  <2>2. Types' /\ NoLoss' /\ Pointers'
    BY <2>1 DEF Inv, Types, NoLoss, Pointers
  <2>3. Room' /\ PairAligned' /\ ChannelLag'
    BY <2>1 DEF Inv, Room, Slack, PairAligned, ChannelLag
  <2> QED
    BY <2>2, <2>3 DEF Inv
<1>5. CASE Settle
  BY <1>5, SettleStep
<1> QED
  BY <1>1, <1>2, <1>3, <1>4, <1>5 DEF Next

\* As long as no BPM leads the other by more than Size-2 samples, the valid
\* pairs orbit_intlk_cdc.vhd presents are pairs of the same sample number.
THEOREM PairsAligned ==
    ASSUME Drift + 2 <= Size
    PROVE  Spec => []PairAligned
<1>1. Init => Inv
  BY InitInv
<1>2. Inv /\ [Next]_vars => Inv'
  BY InvStep
<1>3. Inv => PairAligned
  BY DEF Inv
<1> QED
  BY <1>1, <1>2, <1>3, PTL DEF Spec

\* Under the same bound the channels read without a look at their own empty
\* flag are level with channel 0 or one sample behind it, for good.
THEOREM LagBounded ==
    ASSUME Drift + 2 <= Size
    PROVE  Spec => []ChannelLag
<1>1. Init => Inv
  BY InitInv
<1>2. Inv /\ [Next]_vars => Inv'
  BY InvStep
<1>3. Inv => ChannelLag
  BY DEF Inv
<1> QED
  BY <1>1, <1>2, <1>3, PTL DEF Spec

-----------------------------------------------------------------------------
(***************************************************************************)
(* Whatever the drift, samples lost to full FIFOs included.                *)
(***************************************************************************)

\* Neither side of a FIFO thinks better of it than it is: the reader sees no
\* entry that is not there, the writer no room that is not there.
Cautious == \A b \in BPMs, c \in Chans :
    /\ seen[b][c] <= Len(fifo[b][c])
    /\ Len(fifo[b][c]) <= held[b][c]

\* BPM p had nothing waiting in channel 0 when everything was last settled,
\* so the one sample it may hold by now is its newest; and a pair on the
\* output has taken that one.
Newest(p) ==
    /\ p \notin busy => Len(fifo[p][Chan0]) = 0 /\ held[p][Chan0] = 0
    /\ p \in busy => \/ Len(fifo[p][Chan0]) = 0
                     \/ /\ Len(fifo[p][Chan0]) = 1
                        /\ fifo[p][Chan0][1] = written[p]
    /\ (\E b \in BPMs : valid_o[b]) => p \in busy /\ Len(fifo[p][Chan0]) = 0

LossyInv == TypeOK /\ Cautious /\ \E p \in BPMs : Newest(p)

\* Initially every FIFO is empty and no pair is on the output.
LEMMA InitLossy == Init => LossyInv
<1> SUFFICES ASSUME Init PROVE LossyInv
  OBVIOUS
<1>1. TypeOK
  BY CdcAssumption DEF Init, TypeOK
<1>2. Cautious
  BY DEF Init, Cautious
<1>3. PICK p \in BPMs : TRUE
  BY CdcAssumption
<1>4. Newest(p)
  BY CdcAssumption DEF Init, Newest
<1> QED
  BY <1>1, <1>2, <1>4 DEF LossyInv

\* The members of TypeOK, entry by entry.
LEMMA Entries ==
    ASSUME TypeOK, NEW b \in BPMs, NEW c \in Chans
    PROVE  /\ written[b] \in 0 .. MaxWrites
           /\ fifo[b][c] \in Seq(1 .. MaxWrites) /\ Len(fifo[b][c]) \in Nat
           /\ seen[b][c] \in 0 .. Size /\ held[b][c] \in 0 .. Size
           /\ data_o[b][c] \in 0 .. MaxWrites /\ valid_o[b] \in BOOLEAN
<1>1. /\ written[b] \in 0 .. MaxWrites
      /\ fifo[b][c] \in Seq(1 .. MaxWrites)
      /\ seen[b][c] \in 0 .. Size /\ held[b][c] \in 0 .. Size
      /\ data_o[b][c] \in 0 .. MaxWrites /\ valid_o[b] \in BOOLEAN
  BY DEF TypeOK
<1>2. Len(fifo[b][c]) \in Nat
  BY <1>1
<1> QED
  BY <1>1, <1>2

\* A write that a full FIFO loses leaves that FIFO and its count alone.
LEMMA WriteLossy ==
    ASSUME LossyInv, NEW b \in BPMs, Write(b)
    PROVE  LossyInv'
<1> USE DEF LossyInv
<1>0. /\ b \notin busy /\ written[b] < MaxWrites
      /\ written' = [written EXCEPT ![b] = written[b] + 1]
      /\ busy' = busy \cup {b}
      /\ fifo' = [fifo EXCEPT ![b] = [c \in Chans |->
             IF Full(b, c) THEN fifo[b][c]
             ELSE Append(fifo[b][c], written[b] + 1)]]
      /\ held' = [held EXCEPT ![b] = [c \in Chans |->
             IF Full(b, c) THEN Size ELSE held[b][c] + 1]]
      /\ seen' = seen /\ data_o' = data_o /\ valid_o' = valid_o
  BY DEF Write
<1>1. \A c \in Chans :
          /\ Full(b, c) => /\ fifo'[b][c] = fifo[b][c]
                           /\ held'[b][c] = held[b][c]
          /\ ~Full(b, c) => /\ fifo'[b][c] = Append(fifo[b][c], written[b] + 1)
                            /\ held'[b][c] = held[b][c] + 1
  BY <1>0 DEF TypeOK, Full
<1>2. \A d \in BPMs : d # b =>
          fifo'[d] = fifo[d] /\ held'[d] = held[d] /\ written'[d] = written[d]
  BY <1>0 DEF TypeOK
<1>3. written[b] + 1 \in 1 .. MaxWrites /\ written'[b] = written[b] + 1
  <2>1. written'[b] = written[b] + 1
    BY <1>0 DEF TypeOK
  <2>2. written[b] \in 0 .. MaxWrites
    BY DEF TypeOK
  <2> QED
    BY <1>0, <2>1, <2>2, CdcAssumption
<1>4. \A c \in Chans :
          /\ fifo'[b][c] \in Seq(1 .. MaxWrites)
          /\ held'[b][c] \in 0 .. Size
          /\ seen[b][c] <= Len(fifo'[b][c])
          /\ Len(fifo'[b][c]) <= held'[b][c]
  <2> SUFFICES ASSUME NEW c \in Chans
               PROVE  /\ fifo'[b][c] \in Seq(1 .. MaxWrites)
                      /\ held'[b][c] \in 0 .. Size
                      /\ seen[b][c] <= Len(fifo'[b][c])
                      /\ Len(fifo'[b][c]) <= held'[b][c]
    OBVIOUS
  <2>1. /\ fifo[b][c] \in Seq(1 .. MaxWrites) /\ Len(fifo[b][c]) \in Nat
        /\ seen[b][c] \in 0 .. Size /\ held[b][c] \in 0 .. Size
    BY Entries
  <2>2. seen[b][c] <= Len(fifo[b][c]) /\ Len(fifo[b][c]) <= held[b][c]
    BY DEF Cautious
  <2>3. CASE Full(b, c)
    BY <1>1, <2>1, <2>2, <2>3
  <2>4. CASE ~Full(b, c)
    <3>1. /\ fifo'[b][c] = Append(fifo[b][c], written[b] + 1)
          /\ held'[b][c] = held[b][c] + 1
      BY <1>1, <2>4
    <3>2. /\ fifo'[b][c] \in Seq(1 .. MaxWrites)
          /\ Len(fifo'[b][c]) = Len(fifo[b][c]) + 1
      BY <1>3, <2>1, <3>1
    <3>3. held[b][c] # Size
      BY <2>4 DEF Full
    <3>4. held'[b][c] \in 0 .. Size
      BY <2>1, <3>1, <3>3, CdcAssumption
    <3> QED
      BY <2>1, <2>2, <3>1, <3>2, <3>4
  <2> QED
    BY <2>3, <2>4
<1>5. TypeOK'
  <2>1. /\ written' \in [BPMs -> 0 .. MaxWrites] /\ busy' \in SUBSET BPMs
        /\ seen' \in [BPMs -> [Chans -> 0 .. Size]]
        /\ data_o' \in [BPMs -> [Chans -> 0 .. MaxWrites]]
        /\ valid_o' \in [BPMs -> BOOLEAN]
    BY <1>0, <1>3 DEF TypeOK
  <2>2. fifo' \in [BPMs -> [Chans -> Seq(1 .. MaxWrites)]]
    <3>1. fifo'[b] = [c \in Chans |-> fifo'[b][c]]
      BY <1>0 DEF TypeOK
    <3>2. fifo'[b] \in [Chans -> Seq(1 .. MaxWrites)]
      BY <1>4, <3>1
    <3>3. fifo' = [fifo EXCEPT ![b] = fifo'[b]]
      BY <1>0 DEF TypeOK
    <3> QED
      BY <3>2, <3>3 DEF TypeOK
  <2>3. held' \in [BPMs -> [Chans -> 0 .. Size]]
    <3>1. held'[b] = [c \in Chans |-> held'[b][c]]
      BY <1>0 DEF TypeOK
    <3>2. held'[b] \in [Chans -> 0 .. Size]
      BY <1>4, <3>1
    <3>3. held' = [held EXCEPT ![b] = held'[b]]
      BY <1>0 DEF TypeOK
    <3> QED
      BY <3>2, <3>3 DEF TypeOK
  <2> QED
    BY <2>1, <2>2, <2>3 DEF TypeOK
<1>6. Cautious'
  <2> SUFFICES ASSUME NEW d \in BPMs, NEW c \in Chans
               PROVE  /\ seen'[d][c] <= Len(fifo'[d][c])
                      /\ Len(fifo'[d][c]) <= held'[d][c]
    BY DEF Cautious
  <2>1. CASE d = b
    BY <1>0, <1>4, <2>1
  <2>2. CASE d # b
    BY <1>0, <1>2, <2>2 DEF Cautious
  <2> QED
    BY <2>1, <2>2
<1>7. PICK p \in BPMs : Newest(p)
  OBVIOUS
<1>8. Newest(p)'
  <2>1. CASE p = b
    <3>1. /\ Len(fifo[p][Chan0]) = 0 /\ held[p][Chan0] = 0
          /\ ~(\E d \in BPMs : valid_o[d])
      BY <1>0, <1>7, <2>1 DEF Newest
    <3>2. fifo[p][Chan0] \in Seq(1 .. MaxWrites)
      BY Entries, CdcAssumption
    <3>3. ~Full(b, Chan0)
      BY <2>1, <3>1, CdcAssumption DEF Full
    <3>4. fifo'[p][Chan0] = Append(fifo[p][Chan0], written[b] + 1)
      BY <1>1, <2>1, <3>3, CdcAssumption
    <3>5. Len(fifo'[p][Chan0]) = 1 /\ fifo'[p][Chan0][1] = written'[p]
      BY <1>3, <2>1, <3>1, <3>2, <3>4
    <3>6. p \in busy' /\ ~(\E d \in BPMs : valid_o'[d])
      BY <1>0, <2>1, <3>1
    <3> QED
      BY <3>5, <3>6 DEF Newest
  <2>2. CASE p # b
    <3>1. /\ fifo'[p] = fifo[p] /\ held'[p] = held[p]
          /\ written'[p] = written[p] /\ valid_o' = valid_o
          /\ p \in busy' <=> p \in busy
      BY <1>0, <1>2, <2>2
    <3> QED
      BY <1>7, <3>1 DEF Newest
  <2> QED
    BY <2>1, <2>2
<1> QED
  BY <1>5, <1>6, <1>8

\* The two pointers of a FIFO reach the other side.
LEMMA CrossLossy ==
    ASSUME LossyInv, NEW b \in BPMs, NEW c \in Chans,
           Cross(b, c) \/ CrossBack(b, c)
    PROVE  LossyInv'
<1> USE DEF LossyInv
<1>0. /\ written' = written /\ busy' = busy /\ fifo' = fifo
      /\ data_o' = data_o /\ valid_o' = valid_o
  BY DEF Cross, CrossBack
<1>1. /\ Len(fifo[b][c]) \in Nat /\ seen[b][c] \in 0 .. Size
      /\ held[b][c] \in 0 .. Size
      /\ seen[b][c] <= Len(fifo[b][c]) /\ Len(fifo[b][c]) <= held[b][c]
  BY Entries DEF Cautious
<1>2. Len(fifo[b][c]) \in 0 .. Size
  BY <1>1, CdcAssumption
<1>3. /\ seen' \in [BPMs -> [Chans -> 0 .. Size]]
      /\ held' \in [BPMs -> [Chans -> 0 .. Size]]
  <2>1. CASE Cross(b, c)
    BY <1>2, <2>1 DEF Cross, TypeOK
  <2>2. CASE CrossBack(b, c)
    BY <1>2, <2>2 DEF CrossBack, TypeOK
  <2> QED
    BY <2>1, <2>2
<1>4. TypeOK'
  BY <1>0, <1>3 DEF TypeOK
<1>5. \A d \in BPMs, e \in Chans :
          /\ seen'[d][e] = seen[d][e] \/ seen'[d][e] = Len(fifo[d][e])
          /\ held'[d][e] = held[d][e] \/ held'[d][e] = Len(fifo[d][e])
  <2>1. CASE Cross(b, c)
    BY <2>1 DEF Cross, TypeOK
  <2>2. CASE CrossBack(b, c)
    BY <2>2 DEF CrossBack, TypeOK
  <2> QED
    BY <2>1, <2>2
<1>6. Cautious'
  <2> SUFFICES ASSUME NEW d \in BPMs, NEW e \in Chans
               PROVE  /\ seen'[d][e] <= Len(fifo[d][e])
                      /\ Len(fifo[d][e]) <= held'[d][e]
    BY <1>0 DEF Cautious
  <2>1. Len(fifo[d][e]) \in Nat
    BY Entries
  <2> QED
    BY <1>5, <2>1 DEF Cautious
<1>7. PICK p \in BPMs : Newest(p)
  OBVIOUS
<1>8. Newest(p)'
  <2>1. p \notin busy => held'[p][Chan0] = 0
    BY <1>5, <1>7, CdcAssumption DEF Newest
  <2> QED
    BY <1>0, <1>7, <2>1 DEF Newest
<1> QED
  BY <1>4, <1>6, <1>8

\* When the read is asserted, the BPM whose sample is the newest one holds
\* exactly that sample, and no pair is on the output.
LEMMA ReadTakesNewest ==
    ASSUME LossyInv, decim_pos_synch_rd, NEW p \in BPMs, Newest(p)
    PROVE  /\ p \in busy
           /\ Len(fifo[p][Chan0]) = 1
           /\ Head(fifo[p][Chan0]) = written[p]
           /\ \A b \in BPMs : ~valid_o[b]
<1>1. /\ fifo[p][Chan0] \in Seq(1 .. MaxWrites)
      /\ Len(fifo[p][Chan0]) \in Nat /\ seen[p][Chan0] \in 0 .. Size
  BY Entries, CdcAssumption DEF LossyInv
<1>2. Len(fifo[p][Chan0]) # 0
  BY <1>1, CdcAssumption
     DEF LossyInv, Cautious, decim_pos_synch_rd, Empty
<1>3. p \in busy
  BY <1>2 DEF Newest
<1>4. /\ Len(fifo[p][Chan0]) = 1 /\ fifo[p][Chan0][1] = written[p]
      /\ \A b \in BPMs : ~valid_o[b]
  BY <1>2, <1>3 DEF Newest
<1> QED
  BY <1>1, <1>3, <1>4

\* What a read takes off a FIFO and what it leaves.
LEMMA HeadAndTail ==
    ASSUME NEW S, NEW q \in Seq(S), Len(q) >= 1
    PROVE  Head(q) \in S /\ Tail(q) \in Seq(S) /\ Len(Tail(q)) = Len(q) - 1
<1>1. Head(q) = q[1] /\ 1 \in DOMAIN q /\ q[1] \in S
  OBVIOUS
<1>2. Tail(q) \in Seq(S) /\ Len(Tail(q)) = Len(q) - 1
  OBVIOUS
<1> QED
  BY <1>1, <1>2

\* A read takes the newest sample of one BPM off its FIFO.
LEMMA ReadLossy == LossyInv /\ Read => LossyInv'
<1> SUFFICES ASSUME LossyInv, Read PROVE LossyInv'
  OBVIOUS
<1> USE DEF LossyInv
<1>0. /\ decim_pos_synch_rd
      /\ data_o' = [b \in BPMs |-> [c \in Chans |->
             IF Empty(b, c) THEN data_o[b][c] ELSE Head(fifo[b][c])]]
      /\ fifo' = [b \in BPMs |-> [c \in Chans |->
             IF Empty(b, c) THEN fifo[b][c] ELSE Tail(fifo[b][c])]]
      /\ seen' = [b \in BPMs |-> [c \in Chans |->
             IF Empty(b, c) THEN 0 ELSE seen[b][c] - 1]]
      /\ valid_o' = [b \in BPMs |-> ~Empty(b, Chan0)]
      /\ written' = written /\ busy' = busy /\ held' = held
  BY DEF Read
<1>1. \A b \in BPMs, c \in Chans :
          /\ data_o'[b][c] \in 0 .. MaxWrites
          /\ fifo'[b][c] \in Seq(1 .. MaxWrites)
          /\ seen'[b][c] \in 0 .. Size
          /\ seen'[b][c] <= Len(fifo'[b][c])
          /\ Len(fifo'[b][c]) <= held[b][c]
  <2> SUFFICES ASSUME NEW b \in BPMs, NEW c \in Chans
               PROVE  /\ data_o'[b][c] \in 0 .. MaxWrites
                      /\ fifo'[b][c] \in Seq(1 .. MaxWrites)
                      /\ seen'[b][c] \in 0 .. Size
                      /\ seen'[b][c] <= Len(fifo'[b][c])
                      /\ Len(fifo'[b][c]) <= held[b][c]
    OBVIOUS
  <2>1. /\ fifo[b][c] \in Seq(1 .. MaxWrites) /\ Len(fifo[b][c]) \in Nat
        /\ seen[b][c] \in 0 .. Size /\ held[b][c] \in 0 .. Size
        /\ data_o[b][c] \in 0 .. MaxWrites
    BY Entries
  <2>2. seen[b][c] <= Len(fifo[b][c]) /\ Len(fifo[b][c]) <= held[b][c]
    BY DEF Cautious
  <2>3. CASE Empty(b, c)
    <3>1. /\ data_o'[b][c] = data_o[b][c] /\ fifo'[b][c] = fifo[b][c]
          /\ seen'[b][c] = 0 /\ seen[b][c] = 0
      BY <1>0, <2>3 DEF Empty
    <3> QED
      BY <2>1, <2>2, <3>1
  <2>4. CASE ~Empty(b, c)
    <3>1. /\ data_o'[b][c] = Head(fifo[b][c])
          /\ fifo'[b][c] = Tail(fifo[b][c])
          /\ seen'[b][c] = seen[b][c] - 1
      BY <1>0, <2>4
    <3>2. seen[b][c] >= 1 /\ Len(fifo[b][c]) >= 1
      BY <2>1, <2>2, <2>4, CdcAssumption DEF Empty
    <3>3. /\ Head(fifo[b][c]) \in 1 .. MaxWrites
          /\ Tail(fifo[b][c]) \in Seq(1 .. MaxWrites)
          /\ Len(Tail(fifo[b][c])) = Len(fifo[b][c]) - 1
      BY <2>1, <3>2, HeadAndTail
    <3>4. data_o'[b][c] \in 0 .. MaxWrites
      BY <3>1, <3>3, CdcAssumption
    <3>5. seen'[b][c] \in 0 .. Size
      BY <2>1, <3>1, <3>2, CdcAssumption
    <3>6. fifo'[b][c] \in Seq(1 .. MaxWrites)
      BY <3>1, <3>3
    <3>7. /\ seen'[b][c] <= Len(fifo'[b][c])
          /\ Len(fifo'[b][c]) <= held[b][c]
      <4> DEFINE n == Len(fifo[b][c])  h == held[b][c]  m == seen[b][c]
      <4>1. n \in Int /\ h \in Int /\ m \in Int
        BY <2>1
      <4>2. m <= n /\ n <= h
        BY <2>2
      <4>3. seen'[b][c] = m - 1 /\ Len(fifo'[b][c]) = n - 1
        BY <3>1, <3>3
      <4> HIDE DEF n, h, m
      <4>4. m - 1 <= n - 1 /\ n - 1 <= h
        BY <4>1, <4>2
      <4> QED
        BY <4>3, <4>4 DEF h
    <3> QED
      BY <3>4, <3>5, <3>6, <3>7
  <2> QED
    BY <2>3, <2>4
<1>2. TypeOK'
  <2>1. /\ written' \in [BPMs -> 0 .. MaxWrites] /\ busy' \in SUBSET BPMs
        /\ held' \in [BPMs -> [Chans -> 0 .. Size]]
    BY <1>0 DEF TypeOK
  <2>2. /\ data_o' = [b \in BPMs |-> [c \in Chans |-> data_o'[b][c]]]
        /\ fifo' = [b \in BPMs |-> [c \in Chans |-> fifo'[b][c]]]
        /\ seen' = [b \in BPMs |-> [c \in Chans |-> seen'[b][c]]]
    BY <1>0
  <2>3. data_o' \in [BPMs -> [Chans -> 0 .. MaxWrites]]
    BY <1>1, <2>2
  <2>4. fifo' \in [BPMs -> [Chans -> Seq(1 .. MaxWrites)]]
    BY <1>1, <2>2
  <2>5. seen' \in [BPMs -> [Chans -> 0 .. Size]]
    BY <1>1, <2>2
  <2>6. valid_o' \in [BPMs -> BOOLEAN]
    BY <1>0, Zenon
  <2> QED
    BY <2>1, <2>3, <2>4, <2>5, <2>6 DEF TypeOK
<1>3. Cautious'
  BY <1>0, <1>1 DEF Cautious
<1>4. PICK p \in BPMs : Newest(p)
  OBVIOUS
<1>5. /\ p \in busy
      /\ Len(fifo[p][Chan0]) = 1
  BY <1>0, <1>4, ReadTakesNewest
<1>6. Len(fifo'[p][Chan0]) = 0
  <2>1. fifo'[p][Chan0] = Tail(fifo[p][Chan0])
    BY <1>0, CdcAssumption DEF decim_pos_synch_rd
  <2>2. fifo[p][Chan0] \in Seq(1 .. MaxWrites)
    BY Entries, CdcAssumption
  <2> QED
    BY <1>5, <2>1, <2>2
<1>7. Newest(p)'
  BY <1>0, <1>5, <1>6 DEF Newest
<1> QED
  BY <1>2, <1>3, <1>7

\* When everything has settled, the BPM that kept the read from going on has
\* nothing waiting: its next sample will be the newest.
LEMMA SettleLossy == LossyInv /\ Settle => LossyInv'
<1> SUFFICES ASSUME LossyInv, Settle PROVE LossyInv'
  OBVIOUS
<1> USE DEF LossyInv
<1>0. /\ written' = written /\ busy' = {} /\ fifo' = fifo /\ seen' = seen
      /\ held' = held /\ data_o' = data_o /\ valid_o' = valid_o
      /\ \A b \in BPMs : ~valid_o[b]
      /\ \A b \in BPMs, c \in Chans : /\ seen[b][c] = Len(fifo[b][c])
                                      /\ held[b][c] = Len(fifo[b][c])
  BY DEF Settle, Settled
<1>1. TypeOK' /\ Cautious'
  BY <1>0 DEF TypeOK, Cautious
<1>2. PICK p \in BPMs : Empty(p, Chan0)
  BY DEF Settle, Settled, decim_pos_synch_rd
<1>3. Len(fifo[p][Chan0]) = 0 /\ held[p][Chan0] = 0
  BY <1>0, <1>2, CdcAssumption DEF Empty
<1>4. Newest(p)'
  BY <1>0, <1>3 DEF Newest
<1> QED
  BY <1>1, <1>4

\* No step breaks the invariant, however far a BPM may lead the other.
LEMMA LossyStep ==
    ASSUME LossyInv, [Next]_vars
    PROVE  LossyInv'
<1>1. ASSUME NEW b \in BPMs, Write(b) PROVE LossyInv'
  BY <1>1, WriteLossy
<1>2. ASSUME NEW b \in BPMs, NEW c \in Chans, Cross(b, c) \/ CrossBack(b, c)
      PROVE  LossyInv'
  BY <1>2, CrossLossy
<1>3. CASE Read
  BY <1>3, ReadLossy
<1>4. CASE NoRead
  <2>1. /\ written' = written /\ busy' = busy /\ fifo' = fifo /\ seen' = seen
        /\ held' = held /\ data_o' = data_o
        /\ valid_o' = [b \in BPMs |-> FALSE]
    BY <1>4 DEF NoRead
  <2>2. valid_o' \in [BPMs -> BOOLEAN]
    BY <2>1
  <2>3. TypeOK' /\ Cautious'
    BY <2>1, <2>2 DEF LossyInv, TypeOK, Cautious
  <2>4. PICK p \in BPMs : Newest(p)
    BY DEF LossyInv
  <2>5. ~(\E b \in BPMs : valid_o'[b])
    BY <2>1
  <2>6. Newest(p)'
    BY <2>1, <2>4, <2>5 DEF Newest
  <2> QED
    BY <2>3, <2>6 DEF LossyInv
<1>5. CASE Settle
  BY <1>5, SettleLossy
<1>6. CASE UNCHANGED vars
  <2>1. /\ written' = written /\ busy' = busy /\ fifo' = fifo /\ seen' = seen
        /\ held' = held /\ data_o' = data_o /\ valid_o' = valid_o
    BY <1>6 DEF vars
  <2> QED
    BY <2>1 DEF LossyInv, TypeOK, Cautious, Newest
<1> QED
  BY <1>1, <1>2, <1>3, <1>4, <1>5, <1>6 DEF Next

\* The crossing keeps its types for every drift: no pointer passes the other
\* one, and no count leaves the range of the FIFO.
THEOREM CdcTypes == Spec => []TypeOK
<1>1. Init => LossyInv
  BY InitLossy
<1>2. LossyInv /\ [Next]_vars => LossyInv'
  BY LossyStep
<1>3. LossyInv => TypeOK
  BY DEF LossyInv
<1> QED
  BY <1>1, <1>2, <1>3, PTL DEF Spec

\* Whatever the drift and the losses, at every read one BPM contributes the
\* newest sample it has produced.
THEOREM OneIsFresh == Spec => FreshPair
<1>1. Init => LossyInv
  BY InitLossy
<1>2. LossyInv /\ [Next]_vars => LossyInv'
  BY LossyStep
<1>3. LossyInv /\ [Next]_vars
        => [Read => \E b \in BPMs : data_o'[b][Chan0] = written[b]]_vars
  <2> SUFFICES ASSUME LossyInv, Read
               PROVE  \E b \in BPMs : data_o'[b][Chan0] = written[b]
    OBVIOUS
  <2>1. PICK p \in BPMs : Newest(p)
    BY DEF LossyInv
  <2>2. decim_pos_synch_rd
    BY DEF Read
  <2>3. Head(fifo[p][Chan0]) = written[p]
    BY <2>1, <2>2, ReadTakesNewest
  <2>4. data_o'[p][Chan0] = Head(fifo[p][Chan0])
    BY <2>2, CdcAssumption DEF Read, decim_pos_synch_rd
  <2> QED
    BY <2>3, <2>4
<1> QED
  BY <1>1, <1>2, <1>3, PTL DEF Spec, FreshPair

\* Pairs are never presented back to back: a pair is only read after the
\* previous one has left the output.
THEOREM PairsApart == Spec => NoBurst
<1>1. Init => LossyInv
  BY InitLossy
<1>2. LossyInv /\ [Next]_vars => LossyInv'
  BY LossyStep
<1>3. LossyInv /\ [Next]_vars => [Read => \A b \in BPMs : ~valid_o[b]]_vars
  <2> SUFFICES ASSUME LossyInv, Read PROVE \A b \in BPMs : ~valid_o[b]
    OBVIOUS
  <2>1. PICK p \in BPMs : Newest(p)
    BY DEF LossyInv
  <2>2. decim_pos_synch_rd
    BY DEF Read
  <2> QED
    BY <2>1, <2>2, ReadTakesNewest
<1> QED
  BY <1>1, <1>2, <1>3, PTL DEF Spec, NoBurst
=============================================================================
