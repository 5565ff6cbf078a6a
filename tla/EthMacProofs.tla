---------------------------- MODULE EthMacProofs ----------------------------
(***************************************************************************)
(* The frames that the MAC transmits are the ones tx_packet was given, in  *)
(* that order, and every good frame it stored is handed to user_recv once: *)
(* for rings of any size, any number of frames and peers, and any          *)
(* interleaving of the main loop, the interrupt handler and the MAC.       *)
(*                                                                         *)
(* Nothing in the driver says which descriptors are in use; it follows     *)
(* from how many frames were queued and sent.  Reply k sits in descriptor  *)
(* (k - 1) % OETH_TXBD_NUM from tx_packet's store until the MAC has sent   *)
(* it, and exactly these descriptors are ready.                            *)
(***************************************************************************)
EXTENDS EthMac, SequenceTheorems, TLAPS

-----------------------------------------------------------------------------
Descriptors == [ready : BOOLEAN, irq : BOOLEAN, frame : Replies \cup {None}]

\* The types, by the part of the program that they concern.
TxTypes  == /\ txbd \in [TxIdx -> Descriptors] /\ macTx \in TxIdx
            /\ next_tx_buf_num \in TxIdx
            /\ queued \in Seq(Replies) /\ wire \in Seq(Replies)
RxTypes  == /\ rxbd \in [RxIdx -> [empty : BOOLEAN, frame : Frames \cup {None}]]
            /\ macRx \in RxIdx /\ arrived \in 0 .. MaxRx
            /\ stored \in Seq(Frames) /\ taken \in Seq(Frames)
HdlTypes == /\ int_src \subseteq {"RX", "TX", "BUSY"}
            /\ int_events \subseteq {"RX", "TX", "BUSY"}
            /\ irq \in {"off", "ack", "rx", "tx", "eb"}
            /\ i \in 0 .. OETH_TXBD_NUM + OETH_RXBD_NUM
            /\ moder \in BOOLEAN
MainTypes == /\ pc \in {"setup", "arp?", "ping?", "dest", "mac", "ip", "body", "sum",
                        "len", "wait", "send", "next", "done", "overrun"}
             /\ buf \in Replies
HisTypes  == /\ sawARP \in BOOLEAN /\ sawPING \in BOOLEAN
             /\ hisMAC \in Hosts /\ hisIP \in Hosts /\ hisBody \in Hosts
             /\ hisBodyLen \in Int
Types == TxTypes /\ RxTypes /\ HdlTypes /\ MainTypes /\ HisTypes

\* Before ethmac_setup the MAC is disabled and nothing has happened.
Setup ==
    /\ pc = "setup" <=> ~moder
    /\ pc = "setup" => /\ irq = "off" /\ int_src = {} /\ arrived = 0
                       /\ stored = << >> /\ taken = << >>
                       /\ queued = << >> /\ wire = << >>

\* The descriptor of reply k, and the one that tx_packet is at.
Place(k) == (k - 1) % OETH_TXBD_NUM
AtNext(n) == n % OETH_TXBD_NUM

\* The replies that are on their way.
Pending == Len(wire) + 1 .. Len(queued)

RingCount ==
    /\ Len(wire) <= Len(queued) /\ Len(queued) <= Len(wire) + OETH_TXBD_NUM
    /\ macTx = AtNext(Len(wire))
    /\ pc # "next" => next_tx_buf_num = AtNext(Len(queued))
    /\ pc = "next" => Len(queued) > 0 /\ next_tx_buf_num = Place(Len(queued))
RingSent == \A k \in 1 .. Len(wire) : wire[k] = queued[k]
RingReady == \A t \in TxIdx : txbd[t].ready => \E k \in Pending : Place(k) = t
RingFilled == \A k \in Pending : /\ txbd[Place(k)].ready /\ txbd[Place(k)].irq
                                 /\ txbd[Place(k)].frame = queued[k]
RingNext == pc = "send" => /\ ~txbd[next_tx_buf_num].irq
                           /\ txbd[next_tx_buf_num].frame = buf
Ring == RingCount /\ RingSent /\ RingReady /\ RingFilled /\ RingNext

\* The descriptor r holds a frame that the MAC stored.
Full(r) == moder /\ ~rxbd[r].empty

\* No two frames have the same number.
Numbers ==
    /\ \A r \in RxIdx : Full(r) => rxbd[r].frame \in Frames /\ rxbd[r].frame.id <= arrived
    /\ \A r, s \in RxIdx : Full(r) /\ Full(s) /\ rxbd[r].frame = rxbd[s].frame => r = s
    /\ \A f \in Range(stored) : f.id <= arrived

Inv == Types /\ Setup /\ (moder => Ring) /\ Numbers /\ TakenOnce

-----------------------------------------------------------------------------
(***************************************************************************)
(* Positions in a ring of n descriptors.                                   *)
(***************************************************************************)

\* The remainder is a position.
LEMMA RingPosition ==
    ASSUME NEW n \in Nat \ {0}, NEW k \in Nat
    PROVE  k % n \in 0 .. n - 1
OBVIOUS

\* Quotient and remainder are unique.
LEMMA RemainderUnique ==
    ASSUME NEW n \in Nat \ {0}, NEW k \in Nat, NEW d \in Nat,
           NEW r \in 0 .. n - 1, k = d * n + r
    PROVE  k % n = r
<1> DEFINE e == k \div n
           m == k % n
<1>1. e \in Nat /\ m \in 0 .. n - 1 /\ k = e * n + m
  OBVIOUS
<1> HIDE DEF e, m
<1>2. e * n + m = d * n + r
  BY <1>1
<1>3. e <= d
  <2> SUFFICES ASSUME e >= d + 1 PROVE FALSE
    BY <1>1
  <2>1. e * n >= (d + 1) * n /\ (d + 1) * n = d * n + n
    BY <1>1
  <2> QED
    BY <1>1, <1>2, <2>1
<1>4. d <= e
  <2> SUFFICES ASSUME d >= e + 1 PROVE FALSE
    BY <1>1
  <2>1. d * n >= (e + 1) * n /\ (e + 1) * n = e * n + n
    BY <1>1
  <2> QED
    BY <1>1, <1>2, <2>1
<1>5. e = d
  BY <1>1, <1>3, <1>4
<1>6. m = r
  BY <1>1, <1>2, <1>5
<1> QED
  BY <1>6 DEF m

\* The next position, as the driver and the MAC compute it.
LEMMA NextPosition ==
    ASSUME NEW n \in Nat \ {0}, NEW k \in Nat
    PROVE  ((k % n) + 1) % n = (k + 1) % n
<1> DEFINE d == k \div n
           r == k % n
<1>1. d \in Nat /\ r \in 0 .. n - 1 /\ k = d * n + r
  OBVIOUS
<1> HIDE DEF d, r
<1>2. CASE r + 1 < n
  <2>1. r + 1 \in 0 .. n - 1 /\ r + 1 \in Nat /\ k + 1 = d * n + (r + 1) /\ k + 1 \in Nat
    BY <1>1, <1>2
  <2>2. (k + 1) % n = r + 1
    <3>1. PICK j \in Nat : j = k + 1
      BY <2>1
    <3>2. PICK s \in 0 .. n - 1 : s = r + 1
      BY <2>1
    <3>3. j = d * n + s
      BY <2>1, <3>1, <3>2
    <3>4. j % n = s
      BY <1>1, <3>3, RemainderUnique
    <3> QED
      BY <3>1, <3>2, <3>4
  <2>3. (r + 1) % n = r + 1
    <3>1. PICK j \in Nat : j = r + 1
      BY <2>1
    <3>2. j \in 0 .. n - 1 /\ j = 0 * n + j
      BY <2>1, <3>1
    <3>3. j % n = j
      BY <3>2, RemainderUnique
    <3> QED
      BY <3>1, <3>3
  <2> QED
    BY <2>2, <2>3 DEF r
<1>3. CASE r + 1 = n
  <2>1. k + 1 = (d + 1) * n + 0 /\ k + 1 \in Nat /\ d + 1 \in Nat
    BY <1>1, <1>3
  <2>2. (k + 1) % n = 0
    <3>1. PICK j \in Nat : j = k + 1
      BY <2>1
    <3>2. PICK e \in Nat : e = d + 1
      BY <2>1
    <3>3. j = e * n + 0 /\ 0 \in 0 .. n - 1
      BY <2>1, <3>1, <3>2
    <3>4. j % n = 0
      BY <3>3, RemainderUnique
    <3> QED
      BY <3>1, <3>4
  <2>3. (r + 1) % n = 0
    <3>1. n = 1 * n + 0 /\ 0 \in 0 .. n - 1 /\ n \in Nat
      OBVIOUS
    <3>2. n % n = 0
      BY <3>1, RemainderUnique
    <3> QED
      BY <1>3, <3>2
  <2> QED
    BY <2>2, <2>3 DEF r
<1> QED
  BY <1>1, <1>2, <1>3

\* Fewer than n steps apart, no two positions are the same; n steps apart
\* they are.
LEMMA PositionsDiffer ==
    ASSUME NEW n \in Nat \ {0}, NEW j \in Nat, NEW k \in Nat,
           j <= k, k < j + n, j % n = k % n
    PROVE  j = k
<1> DEFINE d == j \div n
           e == k \div n
           r == j % n
<1>1. d \in Nat /\ r \in 0 .. n - 1 /\ j = d * n + r
  OBVIOUS
<1>2. e \in Nat /\ k = e * n + r
  OBVIOUS
<1> HIDE DEF d, e, r
<1>3. e < d + 1
  <2> SUFFICES ASSUME e >= d + 1 PROVE FALSE
    BY <1>1, <1>2
  <2>1. e * n >= (d + 1) * n /\ (d + 1) * n = d * n + n
    BY <1>1, <1>2
  <2> QED
    BY <1>1, <1>2, <2>1
<1>4. d <= e
  <2> SUFFICES ASSUME d >= e + 1 PROVE FALSE
    BY <1>1, <1>2
  <2>1. d * n >= (e + 1) * n /\ (e + 1) * n = e * n + n
    BY <1>1, <1>2
  <2> QED
    BY <1>1, <1>2, <2>1
<1>5. d = e
  BY <1>1, <1>2, <1>3, <1>4
<1> QED
  BY <1>1, <1>2, <1>5

LEMMA PositionsMeet ==
    ASSUME NEW n \in Nat \ {0}, NEW k \in Nat
    PROVE  (k + n) % n = k % n
<1> DEFINE d == k \div n
           r == k % n
<1>1. d \in Nat /\ r \in 0 .. n - 1 /\ k = d * n + r
  OBVIOUS
<1> HIDE DEF d, r
<1>2. PICK j \in Nat : j = k + n
  OBVIOUS
<1>3. PICK e \in Nat : e = d + 1
  BY <1>1
<1>4. e * n = d * n + n
  BY <1>1, <1>3
<1>5. j = e * n + r
  BY <1>1, <1>2, <1>4
<1>6. j % n = r
  BY <1>1, <1>5, RemainderUnique
<1> QED
  BY <1>2, <1>6 DEF r

-----------------------------------------------------------------------------
(***************************************************************************)
(* What the steps leave alone.                                             *)
(***************************************************************************)

\* The descriptors that tx_packet and the MAC are at.
LEMMA PositionTypes ==
    /\ OETH_TXBD_NUM \in Nat \ {0} /\ OETH_RXBD_NUM \in Nat \ {0} /\ MaxRx \in Nat
    /\ \A k \in Nat : AtNext(k) \in TxIdx
    /\ \A k \in Nat \ {0} : Place(k) \in TxIdx /\ Place(k) = AtNext(k - 1)
    /\ 0 \in TxIdx /\ 0 \in RxIdx
<1>1. OETH_TXBD_NUM \in Nat \ {0} /\ OETH_RXBD_NUM \in Nat \ {0} /\ MaxRx \in Nat
  BY EthMacAssumption
<1>2. \A k \in Nat : AtNext(k) \in TxIdx
  BY <1>1, RingPosition DEF AtNext, TxIdx
<1>3. \A k \in Nat \ {0} : k - 1 \in Nat
  OBVIOUS
<1>4. \A k \in Nat \ {0} : Place(k) = AtNext(k - 1)
  BY DEF Place, AtNext
<1>5. \A k \in Nat \ {0} : Place(k) \in TxIdx
  BY <1>2, <1>3, <1>4
<1> QED
  BY <1>1, <1>2, <1>4, <1>5 DEF TxIdx, RxIdx

LEMMA TypesAre == Types => TypeOK
BY DEF Types, TxTypes, RxTypes, HdlTypes, MainTypes, HisTypes, TypeOK, Descriptors

\* A step that does not touch the transmit ring.
LEMMA RingFrame ==
    ASSUME Ring, txbd' = txbd, macTx' = macTx, next_tx_buf_num' = next_tx_buf_num,
           queued' = queued, wire' = wire,
           pc' = "next" <=> pc = "next", pc' = "send" => pc = "send" /\ buf' = buf
    PROVE  Ring'
BY DEF Ring, RingCount, RingSent, RingReady, RingFilled, RingNext, Pending

\* A step that does not touch the receive ring.
LEMMA RxFrame ==
    ASSUME Numbers, TakenOnce, rxbd' = rxbd, moder' = moder, arrived' = arrived,
           stored' = stored, taken' = taken, irq' = "eb" <=> irq = "eb"
    PROVE  Numbers' /\ TakenOnce'
<1>1. Numbers'
  BY DEF Numbers, Full
<1>2. TakenOnce'
  BY DEF TakenOnce
<1> QED
  BY <1>1, <1>2

\* A step of the handler or of the main loop that only moves its own actor
\* on, once the MAC is set up.
LEMMA QuietStep ==
    ASSUME Inv, moder, moder' = moder,
           txbd' = txbd, macTx' = macTx, next_tx_buf_num' = next_tx_buf_num,
           queued' = queued, wire' = wire, macRx' = macRx,
           rxbd' = rxbd, arrived' = arrived, stored' = stored, taken' = taken,
           HdlTypes', MainTypes', HisTypes',
           pc' # "setup", irq' = "eb" <=> irq = "eb",
           pc' = "next" <=> pc = "next", pc' = "send" => pc = "send" /\ buf' = buf
    PROVE  Inv'
<1>1. Types'
  BY DEF Inv, Types, TxTypes, RxTypes
<1>2. Setup'
  BY DEF Setup
<1>3. Ring'
  BY RingFrame DEF Inv
<1>4. Numbers' /\ TakenOnce'
  BY RxFrame DEF Inv
<1> QED
  BY <1>1, <1>2, <1>3, <1>4 DEF Inv

\* The handler only runs, and the MAC is only on, after ethmac_setup.
LEMMA AfterSetup ==
    ASSUME Inv, irq # "off" \/ int_src # {} \/ moder \/ pc # "setup"
    PROVE  moder /\ pc # "setup"
BY DEF Inv, Setup

\* The steps of the handler that look at no frame.
LEMMA HandlerStep ==
    ASSUME Inv, Enter \/ Ack \/ RxEmpty \/ RxDone \/ TxDone
    PROVE  Inv'
<1>1. moder /\ pc # "setup"
  BY AfterSetup DEF Enter, Ack, RxEmpty, RxDone, TxDone
<1>2. /\ txbd' = txbd /\ rxbd' = rxbd /\ macTx' = macTx /\ macRx' = macRx /\ moder' = moder
      /\ next_tx_buf_num' = next_tx_buf_num
      /\ pc' = pc /\ buf' = buf
      /\ arrived' = arrived /\ stored' = stored /\ taken' = taken /\ queued' = queued
      /\ wire' = wire
      /\ sawARP' = sawARP /\ sawPING' = sawPING /\ hisMAC' = hisMAC /\ hisIP' = hisIP
      /\ hisBody' = hisBody /\ hisBodyLen' = hisBodyLen
  BY DEF Enter, Ack, RxEmpty, RxDone, TxDone, mac, his, main, hist
<1>3. HdlTypes' /\ (irq' = "eb" <=> irq = "eb")
  <2>0. HdlTypes /\ OETH_TXBD_NUM \in Nat \ {0} /\ OETH_RXBD_NUM \in Nat \ {0}
    BY EthMacAssumption DEF Inv, Types
  <2>1. CASE Enter
    BY <1>2, <2>0, <2>1 DEF Enter, Goto, HdlTypes, mac
  <2>2. CASE Ack
    BY <1>2, <2>0, <2>2 DEF Ack, Goto, HdlTypes
  <2>3. CASE RxEmpty
    BY <1>2, <2>0, <2>3 DEF RxEmpty, Goto, HdlTypes, mac
  <2>4. CASE RxDone
    BY <1>2, <2>0, <2>4 DEF RxDone, Goto, HdlTypes, mac
  <2>5. CASE TxDone
    BY <1>2, <2>0, <2>5 DEF TxDone, Goto, HdlTypes, mac
  <2> QED
    BY <2>1, <2>2, <2>3, <2>4, <2>5
<1>4. MainTypes' /\ HisTypes'
  BY <1>2 DEF Inv, Types, MainTypes, HisTypes
<1> QED
  BY <1>1, <1>2, <1>3, <1>4, QuietStep

\* A reply stays one when a part of it is copied.
LEMMA ReplyCopied ==
    ASSUME NEW b \in Replies, NEW h \in Hosts, NEW n \in Int
    PROVE  /\ b.kind \in {"arp", "ping"}
           /\ [b EXCEPT !.dest = h] \in Replies /\ [b EXCEPT !.mac = h] \in Replies
           /\ [b EXCEPT !.ip = h] \in Replies /\ [b EXCEPT !.body = h] \in Replies
           /\ [b EXCEPT !.len = n] \in Replies
           /\ [b EXCEPT !.kind = "arp"] \in Replies /\ [b EXCEPT !.kind = "ping"] \in Replies
BY DEF Replies

\* The steps of the main loop that do not touch the ring.
LEMMA MainStep ==
    ASSUME Inv, \/ PollARP \/ PollPING \/ CopyDest \/ CopyMac \/ CopyIp \/ CopyBody
                \/ SumBody \/ ReplyLen \/ ClearSaw
    PROVE  Inv'
<1>0. pc # "setup" /\ pc # "next" /\ pc # "send" /\ irq = "off"
  BY DEF PollARP, PollPING, Poll, CopyDest, CopyMac, CopyIp, CopyBody, SumBody, ReplyLen,
         ClearSaw, Running
<1>1. moder
  BY <1>0, AfterSetup
<1>2. /\ txbd' = txbd /\ rxbd' = rxbd /\ macTx' = macTx /\ macRx' = macRx /\ moder' = moder
      /\ next_tx_buf_num' = next_tx_buf_num /\ int_src' = int_src
      /\ irq' = irq /\ i' = i /\ int_events' = int_events
      /\ arrived' = arrived /\ stored' = stored /\ taken' = taken /\ queued' = queued
      /\ wire' = wire
      /\ hisMAC' = hisMAC /\ hisIP' = hisIP /\ hisBody' = hisBody
      /\ hisBodyLen' = hisBodyLen
  BY DEF PollARP, PollPING, Poll, CopyDest, CopyMac, CopyIp, CopyBody, SumBody, ReplyLen,
         ClearSaw,
         mac, his, hdl, hist
<1>3. HdlTypes'
  BY <1>2 DEF Inv, Types, HdlTypes
<1>4. buf \in Replies /\ hisMAC \in Hosts /\ hisIP \in Hosts /\ hisBody \in Hosts
      /\ hisBodyLen \in Int
  BY DEF Inv, Types, MainTypes, HisTypes
<1>5. buf' \in Replies
  <2>1. CASE PollARP \/ PollPING
    <3>1. buf' \in {buf, [buf EXCEPT !.kind = "arp"], [buf EXCEPT !.kind = "ping"]}
      BY <2>1 DEF PollARP, PollPING, Poll
    <3> QED
      BY <1>4, <3>1, ReplyCopied
  <2>2. CASE CopyDest
    BY <1>4, <2>2, ReplyCopied DEF CopyDest
  <2>3. CASE CopyMac
    BY <1>4, <2>3, ReplyCopied DEF CopyMac
  <2>4. CASE CopyIp
    BY <1>4, <2>4, ReplyCopied DEF CopyIp
  <2>5. CASE CopyBody
    BY <1>4, <2>5, ReplyCopied DEF CopyBody
  <2>6. CASE ReplyLen
    BY <1>4, <2>6, ReplyCopied DEF ReplyLen
  <2>7. CASE ClearSaw \/ SumBody
    BY <1>4, <2>7 DEF ClearSaw, SumBody
  <2> QED
    BY <2>1, <2>2, <2>3, <2>4, <2>5, <2>6, <2>7
<1>6. pc' \in {"arp?", "ping?", "dest", "mac", "ip", "body", "sum", "len", "wait", "overrun"}
  BY DEF PollARP, PollPING, Poll, CopyDest, CopyMac, CopyIp, CopyBody, SumBody, ReplyLen,
         ClearSaw
<1>7. MainTypes'
  BY <1>5, <1>6 DEF MainTypes
<1>8. sawARP' \in BOOLEAN /\ sawPING' \in BOOLEAN
  <2>1. sawARP \in BOOLEAN /\ sawPING \in BOOLEAN
    BY DEF Inv, Types, HisTypes
  <2>2. CASE ClearSaw
    BY <2>2, Zenon DEF ClearSaw
  <2>3. CASE ~ClearSaw
    <3>1. sawARP' = sawARP /\ sawPING' = sawPING
      BY <2>3 DEF PollARP, PollPING, Poll, CopyDest, CopyMac, CopyIp, CopyBody, SumBody, ReplyLen,
         his
    <3> QED
      BY <2>1, <3>1, Zenon
  <2> QED
    BY <2>2, <2>3
<1>9. HisTypes'
  BY <1>2, <1>4, <1>8 DEF HisTypes
<1>10. pc' # "setup" /\ pc' # "next" /\ pc' # "send"
  BY <1>6
<1> QED
  BY <1>0, <1>1, <1>2, <1>3, <1>7, <1>9, <1>10, QuietStep

-----------------------------------------------------------------------------
(***************************************************************************)
(* The transmit ring.                                                      *)
(***************************************************************************)

\* What a step on the ring has to show: the rest is left alone.
LEMMA RingStep ==
    ASSUME Inv, moder, moder' = moder, TxTypes', Ring', MainTypes', HdlTypes',
           pc' # "setup", irq' = "eb" <=> irq = "eb",
           rxbd' = rxbd, macRx' = macRx, arrived' = arrived, stored' = stored,
           taken' = taken, UNCHANGED his
    PROVE  Inv'
<1>1. HisTypes'
  BY DEF Inv, Types, HisTypes, his
<1>2. Types'
  BY <1>1 DEF Inv, Types, RxTypes
<1>3. Setup'
  BY DEF Setup
<1>4. Numbers' /\ TakenOnce'
  BY RxFrame DEF Inv
<1> QED
  BY <1>2, <1>3, <1>4 DEF Inv

\* A descriptor whose bits or frame are set is a descriptor.
LEMMA DescriptorSet ==
    ASSUME NEW d \in Descriptors
    PROVE  /\ \A b \in BOOLEAN : /\ [d EXCEPT !.ready = b] \in Descriptors
                                 /\ [d EXCEPT !.irq = b] \in Descriptors
           /\ \A f \in Replies : [d EXCEPT !.frame = f] \in Descriptors
           /\ [d EXCEPT !.ready = TRUE, !.irq = TRUE] \in Descriptors
BY DEF Descriptors

\* oeth_tx only takes back descriptors that are not ready.
LEMMA TxReclaimStep ==
    ASSUME Inv, TxReclaim
    PROVE  Inv'
<1>1. moder /\ pc # "setup"
  BY AfterSetup DEF TxReclaim
<1>2. /\ rxbd' = rxbd /\ macTx' = macTx /\ macRx' = macRx /\ moder' = moder
      /\ next_tx_buf_num' = next_tx_buf_num /\ int_src' = int_src
      /\ pc' = pc /\ buf' = buf /\ int_events' = int_events /\ UNCHANGED his
      /\ arrived' = arrived /\ stored' = stored /\ taken' = taken /\ queued' = queued
      /\ wire' = wire /\ irq = "tx" /\ irq' = "tx" /\ i' = i + 1 /\ i < OETH_TXBD_NUM
  BY DEF TxReclaim, Goto, mac, main, hist
<1>3. HdlTypes' /\ MainTypes'
  BY <1>2, EthMacAssumption DEF Inv, Types, HdlTypes, MainTypes
<1>4. i \in TxIdx /\ txbd \in [TxIdx -> Descriptors]
  BY <1>2, EthMacAssumption DEF Inv, Types, HdlTypes, TxTypes, TxIdx
<1>5. PICK d \in Descriptors : d = txbd[i]
  BY <1>4
<1>6. PICK b \in BOOLEAN : b = (d.irq /\ d.ready)
  BY Zenon
<1>7. txbd' = [txbd EXCEPT ![i] = [d EXCEPT !.irq = b]]
  BY <1>5, <1>6 DEF TxReclaim
<1>8. [d EXCEPT !.irq = b] \in Descriptors
  BY DescriptorSet
<1>9. [d EXCEPT !.irq = b].ready = d.ready /\ [d EXCEPT !.irq = b].irq = b
      /\ [d EXCEPT !.irq = b].frame = d.frame
  BY DEF Descriptors
<1>10. TxTypes'
  <2>1. txbd' \in [TxIdx -> Descriptors]
    BY <1>4, <1>7, <1>8
  <2> QED
    BY <1>2, <2>1 DEF Inv, Types, TxTypes
<1>11. \A t \in TxIdx : /\ txbd'[t].ready <=> txbd[t].ready
                        /\ txbd'[t].irq <=> (txbd[t].irq /\ (t = i => txbd[t].ready))
                        /\ txbd'[t].frame = txbd[t].frame
  BY <1>4, <1>5, <1>6, <1>7, <1>9
<1>12. Ring'
  <2>0. Ring /\ next_tx_buf_num \in TxIdx
    BY <1>1 DEF Inv, Types, TxTypes
  <2>1. RingCount' /\ RingSent'
    BY <1>2, <2>0 DEF Ring, RingCount, RingSent
  <2>2. Pending' = Pending
    BY <1>2 DEF Pending
  <2>3. RingReady'
    BY <1>11, <2>0, <2>2 DEF Ring, RingReady
  <2>4. RingFilled'
    <3>1. \A k \in Pending : Place(k) \in TxIdx
      <4>1. Pending \subseteq Nat \ {0}
        BY DEF Pending, Inv, Types, TxTypes
      <4> QED
        BY <4>1, PositionTypes
    <3> QED
      BY <1>2, <1>11, <2>0, <2>2, <3>1 DEF Ring, RingFilled
  <2>5. RingNext'
    BY <1>2, <1>11, <2>0 DEF Ring, RingNext
  <2> QED
    BY <2>1, <2>3, <2>4, <2>5 DEF Ring
<1> QED
  BY <1>1, <1>2, <1>3, <1>10, <1>12, RingStep

\* The replies that are on their way have a descriptor each.
LEMMA PendingFacts ==
    ASSUME Inv
    PROVE  /\ Len(queued) \in Nat /\ Len(wire) \in Nat
           /\ \A k \in Pending : k \in Nat \ {0} /\ Place(k) \in TxIdx
<1>1. Len(queued) \in Nat /\ Len(wire) \in Nat
  BY DEF Inv, Types, TxTypes
<1>2. Pending \subseteq Nat \ {0}
  BY <1>1 DEF Pending
<1> QED
  BY <1>1, <1>2, PositionTypes

\* A descriptor that oeth_tx has taken back is the place of no reply, so the
\* ring has room for one more.
LEMMA RoomInRing ==
    ASSUME Inv, moder, pc # "next", ~txbd[next_tx_buf_num].irq
    PROVE  /\ Len(queued) < Len(wire) + OETH_TXBD_NUM
           /\ ~txbd[next_tx_buf_num].ready
           /\ \A k \in Pending : Place(k) # next_tx_buf_num
<1>0. Ring /\ OETH_TXBD_NUM \in Nat \ {0}
  BY PositionTypes DEF Inv
<1>1. Len(queued) \in Nat /\ Len(wire) \in Nat /\ next_tx_buf_num \in TxIdx
  BY PendingFacts DEF Inv, Types, TxTypes
<1>2. \A k \in Pending : Place(k) # next_tx_buf_num
  BY <1>0 DEF Ring, RingFilled
<1>3. ~txbd[next_tx_buf_num].ready
  BY <1>0, <1>1, <1>2 DEF Ring, RingReady
<1>4. Len(queued) < Len(wire) + OETH_TXBD_NUM
  <2> SUFFICES ASSUME Len(queued) = Len(wire) + OETH_TXBD_NUM PROVE FALSE
    BY <1>0, <1>1 DEF Ring, RingCount
  <2>1. Len(wire) + 1 \in Pending /\ (Len(wire) + 1) - 1 = Len(wire)
    BY <1>0, <1>1 DEF Pending
  <2>2. Place(Len(wire) + 1) = Len(wire) % OETH_TXBD_NUM
    BY <2>1 DEF Place
  <2>3. PICK w \in Nat : w = Len(wire)
    BY <1>1
  <2>4. (w + OETH_TXBD_NUM) % OETH_TXBD_NUM = w % OETH_TXBD_NUM
    BY <1>0, PositionsMeet
  <2>5. next_tx_buf_num = (w + OETH_TXBD_NUM) % OETH_TXBD_NUM
    BY <1>0, <2>3 DEF Ring, RingCount, AtNext
  <2> QED
    BY <1>2, <2>1, <2>2, <2>3, <2>4, <2>5
<1> QED
  BY <1>2, <1>3, <1>4

\* tx_packet fills a descriptor that is no reply's place.
LEMMA TxFillStep ==
    ASSUME Inv, TxFill
    PROVE  Inv'
<1>0. pc = "wait" /\ irq = "off" /\ ~txbd[next_tx_buf_num].irq /\ pc' = "send"
  BY DEF TxFill, Running
<1>1. moder
  BY <1>0, AfterSetup
<1>2. /\ rxbd' = rxbd /\ macTx' = macTx /\ macRx' = macRx /\ moder' = moder
      /\ next_tx_buf_num' = next_tx_buf_num /\ int_src' = int_src
      /\ buf' = buf /\ int_events' = int_events /\ UNCHANGED his
      /\ arrived' = arrived /\ stored' = stored /\ taken' = taken /\ queued' = queued
      /\ wire' = wire /\ irq' = irq /\ i' = i
  BY DEF TxFill, mac, hdl, hist
<1>3. HdlTypes' /\ MainTypes'
  BY <1>0, <1>2 DEF Inv, Types, HdlTypes, MainTypes
<1>4. next_tx_buf_num \in TxIdx /\ txbd \in [TxIdx -> Descriptors] /\ buf \in Replies
  BY DEF Inv, Types, TxTypes, MainTypes
<1>5. PICK d \in Descriptors : d = txbd[next_tx_buf_num]
  BY <1>4
<1>6. txbd' = [txbd EXCEPT ![next_tx_buf_num] = [d EXCEPT !.frame = buf]]
  BY <1>5 DEF TxFill
<1>7. [d EXCEPT !.frame = buf] \in Descriptors
  BY <1>4, DescriptorSet
<1>8. [d EXCEPT !.frame = buf].ready = d.ready /\ [d EXCEPT !.frame = buf].irq = d.irq
      /\ [d EXCEPT !.frame = buf].frame = buf
  BY DEF Descriptors
<1>9. TxTypes'
  <2>1. txbd' \in [TxIdx -> Descriptors]
    BY <1>4, <1>6, <1>7
  <2> QED
    BY <1>2, <2>1 DEF Inv, Types, TxTypes
<1>10. /\ \A t \in TxIdx : /\ txbd'[t].ready <=> txbd[t].ready
                           /\ txbd'[t].irq <=> txbd[t].irq
                           /\ t # next_tx_buf_num => txbd'[t].frame = txbd[t].frame
       /\ txbd'[next_tx_buf_num].frame = buf
  BY <1>4, <1>5, <1>6, <1>8
<1>11. Ring'
  <2>0. Ring
    BY <1>1 DEF Inv
  <2>1. RingCount' /\ RingSent'
    BY <1>0, <1>2, <2>0 DEF Ring, RingCount, RingSent
  <2>2. Pending' = Pending
    BY <1>2 DEF Pending
  <2>3. RingReady'
    BY <1>10, <2>0, <2>2 DEF Ring, RingReady
  <2>4. RingFilled'
    <3>1. \A k \in Pending : Place(k) \in TxIdx /\ Place(k) # next_tx_buf_num
      BY <1>0, <1>1, PendingFacts, RoomInRing
    <3> QED
      BY <1>2, <1>10, <2>0, <2>2, <3>1 DEF Ring, RingFilled
  <2>5. RingNext'
    BY <1>0, <1>2, <1>4, <1>10 DEF RingNext
  <2> QED
    BY <2>1, <2>3, <2>4, <2>5 DEF Ring
<1>12. pc' # "setup"
  BY <1>0
<1> QED
  BY <1>1, <1>2, <1>3, <1>9, <1>11, <1>12, RingStep

\* tx_packet gives the descriptor to the MAC: reply Len(queued) + 1.
LEMMA TxSendStep ==
    ASSUME Inv, TxSend
    PROVE  Inv'
<1>0. pc = "send" /\ irq = "off" /\ pc' = "next" /\ queued' = Append(queued, buf)
  BY DEF TxSend, Running
<1>1. moder
  BY <1>0, AfterSetup
<1>2. /\ rxbd' = rxbd /\ macTx' = macTx /\ macRx' = macRx /\ moder' = moder
      /\ next_tx_buf_num' = next_tx_buf_num /\ int_src' = int_src
      /\ buf' = buf /\ int_events' = int_events /\ UNCHANGED his
      /\ arrived' = arrived /\ stored' = stored /\ taken' = taken
      /\ wire' = wire /\ irq' = irq /\ i' = i
  BY DEF TxSend, mac, hdl
<1>3. HdlTypes' /\ MainTypes'
  BY <1>0, <1>2 DEF Inv, Types, HdlTypes, MainTypes
<1>4. /\ next_tx_buf_num \in TxIdx /\ txbd \in [TxIdx -> Descriptors] /\ buf \in Replies
      /\ queued \in Seq(Replies) /\ wire \in Seq(Replies)
  BY DEF Inv, Types, TxTypes, MainTypes
<1>5. PICK d \in Descriptors : d = txbd[next_tx_buf_num]
  BY <1>4
<1> DEFINE e == [d EXCEPT !.ready = TRUE, !.irq = TRUE]
<1>6. txbd' = [txbd EXCEPT ![next_tx_buf_num] = e]
  BY <1>4, <1>5 DEF TxSend
<1>7. e \in Descriptors
  BY DescriptorSet
<1>8. e.ready /\ e.irq /\ e.frame = d.frame
  BY DEF Descriptors
<1> HIDE DEF e
<1>9. TxTypes'
  <2>1. txbd' \in [TxIdx -> Descriptors]
    BY <1>4, <1>6, <1>7
  <2>2. queued' \in Seq(Replies)
    BY <1>0, <1>4
  <2> QED
    BY <1>2, <2>1, <2>2 DEF Inv, Types, TxTypes
<1>10. Ring'
  <2>0. Ring /\ ~txbd[next_tx_buf_num].irq /\ txbd[next_tx_buf_num].frame = buf
        /\ OETH_TXBD_NUM \in Nat \ {0}
    BY <1>0, <1>1, PositionTypes DEF Inv, Ring, RingNext
  <2>1. PICK q \in Nat : q = Len(queued)
    BY <1>4
  <2>2. PICK w \in Nat : w = Len(wire)
    BY <1>4
  <2>3. /\ Len(queued') = q + 1 /\ queued'[q + 1] = buf
        /\ \A k \in 1 .. q : queued'[k] = queued[k]
    BY <1>0, <1>4, <2>1
  <2>4. w <= q /\ q < w + OETH_TXBD_NUM /\ \A k \in Pending : Place(k) # next_tx_buf_num
    <3>1. w <= q
      BY <2>0, <2>1, <2>2 DEF Ring, RingCount
    <3>2. q < w + OETH_TXBD_NUM /\ \A k \in Pending : Place(k) # next_tx_buf_num
      BY <1>0, <1>1, <2>0, <2>1, <2>2, RoomInRing
    <3> QED
      BY <3>1, <3>2
  <2>5. Place(q + 1) = next_tx_buf_num
    <3>1. next_tx_buf_num = AtNext(q)
      BY <1>0, <2>0, <2>1 DEF Ring, RingCount
    <3>2. q + 1 \in Nat \ {0} /\ (q + 1) - 1 = q
      OBVIOUS
    <3> QED
      BY <3>1, <3>2 DEF Place, AtNext
  <2>6. Pending = w + 1 .. q /\ Pending' = w + 1 .. q + 1 /\ q + 1 \in Pending'
        /\ \A k \in Pending' : k \in Pending \/ k = q + 1
    BY <1>2, <2>1, <2>2, <2>3, <2>4 DEF Pending
  <2>7. RingCount'
    <3>1. macTx = AtNext(w)
      BY <2>0, <2>2 DEF Ring, RingCount
    <3>2. Len(wire') = w /\ w <= q + 1 /\ q + 1 <= w + OETH_TXBD_NUM /\ q + 1 > 0
      BY <1>2, <2>0, <2>2, <2>4
    <3> QED
      BY <1>0, <1>2, <2>3, <2>5, <3>1, <3>2 DEF RingCount
  <2>8. RingSent'
    <3>1. \A k \in 1 .. w : k \in 1 .. q /\ wire[k] = queued[k]
      BY <2>0, <2>2, <2>4 DEF Ring, RingSent
    <3> QED
      BY <1>2, <2>2, <2>3, <3>1 DEF RingSent
  <2>9. /\ \A t \in TxIdx : t # next_tx_buf_num => txbd'[t] = txbd[t]
        /\ txbd'[next_tx_buf_num] = e
    BY <1>4, <1>6
  <2>10. RingReady'
    BY <2>0, <2>5, <2>6, <2>9 DEF Ring, RingReady
  <2>11. RingFilled'
    <3> SUFFICES ASSUME NEW k \in Pending'
                 PROVE  /\ txbd'[Place(k)].ready /\ txbd'[Place(k)].irq
                        /\ txbd'[Place(k)].frame = queued'[k]
      BY DEF RingFilled
    <3>1. CASE k = q + 1
      BY <1>5, <1>8, <2>0, <2>3, <2>5, <2>9, <3>1
    <3>2. CASE k \in Pending
      <4>1. Place(k) \in TxIdx /\ Place(k) # next_tx_buf_num /\ k \in 1 .. q
        BY <2>4, <2>6, <3>2, PendingFacts
      <4>2. txbd'[Place(k)] = txbd[Place(k)] /\ queued'[k] = queued[k]
        BY <2>3, <2>9, <4>1
      <4> QED
        BY <2>0, <3>2, <4>2 DEF Ring, RingFilled
    <3> QED
      BY <2>6, <3>1, <3>2
  <2>12. RingNext'
    BY <1>0 DEF RingNext
  <2> QED
    BY <2>7, <2>8, <2>10, <2>11, <2>12 DEF Ring
<1>11. pc' # "setup"
  BY <1>0
<1> QED
  BY <1>1, <1>2, <1>3, <1>9, <1>10, <1>11, RingStep

\* The index goes on to the place of the next reply.
LEMMA TxNextStep ==
    ASSUME Inv, TxNext
    PROVE  Inv'
<1>0. /\ pc = "next" /\ irq = "off" /\ pc' = "done"
      /\ next_tx_buf_num' = (next_tx_buf_num + 1) % OETH_TXBD_NUM
  BY DEF TxNext, Running
<1>1. moder
  BY <1>0, AfterSetup
<1>2. /\ rxbd' = rxbd /\ macTx' = macTx /\ macRx' = macRx /\ moder' = moder
      /\ txbd' = txbd /\ int_src' = int_src
      /\ buf' = buf /\ int_events' = int_events /\ UNCHANGED his
      /\ arrived' = arrived /\ stored' = stored /\ taken' = taken /\ queued' = queued
      /\ wire' = wire /\ irq' = irq /\ i' = i
  BY DEF TxNext, mac, hdl, hist
<1>3. HdlTypes' /\ MainTypes'
  BY <1>0, <1>2 DEF Inv, Types, HdlTypes, MainTypes
<1>4. Ring /\ OETH_TXBD_NUM \in Nat \ {0} /\ Len(queued) \in Nat
  BY <1>1, PositionTypes, PendingFacts DEF Inv
<1>5. next_tx_buf_num' = AtNext(Len(queued))
  <2>1. Len(queued) > 0 /\ next_tx_buf_num = Place(Len(queued))
    BY <1>0, <1>4 DEF Ring, RingCount
  <2>2. PICK k \in Nat : k = Len(queued) - 1
    BY <1>4, <2>1
  <2>3. next_tx_buf_num = k % OETH_TXBD_NUM
    BY <2>1, <2>2 DEF Place
  <2>4. ((k % OETH_TXBD_NUM) + 1) % OETH_TXBD_NUM = (k + 1) % OETH_TXBD_NUM
    BY <1>4, NextPosition
  <2>5. k + 1 = Len(queued)
    BY <1>4, <2>2
  <2> QED
    BY <1>0, <2>3, <2>4, <2>5 DEF AtNext
<1>6. TxTypes'
  BY <1>2, <1>4, <1>5, PositionTypes DEF Inv, Types, TxTypes
<1>7. Ring'
  BY <1>0, <1>2, <1>4, <1>5 DEF Ring, RingCount, RingSent, RingReady, RingFilled,
     RingNext, Pending
<1>8. pc' # "setup"
  BY <1>0
<1> QED
  BY <1>1, <1>2, <1>3, <1>6, <1>7, <1>8, RingStep

\* The MAC finds the first reply that it has not sent.
LEMMA MacTransmitStep ==
    ASSUME Inv, MacTransmit
    PROVE  Inv'
<1>1. moder /\ pc # "setup" /\ txbd[macTx].ready
  BY AfterSetup DEF MacTransmit
<1>2. /\ rxbd' = rxbd /\ macRx' = macRx /\ moder' = moder
      /\ next_tx_buf_num' = next_tx_buf_num /\ pc' = pc
      /\ buf' = buf /\ int_events' = int_events /\ UNCHANGED his
      /\ arrived' = arrived /\ stored' = stored /\ taken' = taken /\ queued' = queued
      /\ irq' = irq /\ i' = i
      /\ wire' = Append(wire, txbd[macTx].frame)
      /\ macTx' = (macTx + 1) % OETH_TXBD_NUM
      /\ int_src' \in {int_src, int_src \cup {"TX"}}
  BY DEF MacTransmit, main, hdl
<1>3. HdlTypes' /\ MainTypes'
  BY <1>2 DEF Inv, Types, HdlTypes, MainTypes
<1>4. /\ macTx \in TxIdx /\ txbd \in [TxIdx -> Descriptors]
      /\ queued \in Seq(Replies) /\ wire \in Seq(Replies)
      /\ Ring /\ OETH_TXBD_NUM \in Nat \ {0} /\ next_tx_buf_num \in TxIdx
  BY <1>1, PositionTypes DEF Inv, Types, TxTypes
<1>5. PICK d \in Descriptors : d = txbd[macTx]
  BY <1>4
<1> DEFINE e == [d EXCEPT !.ready = FALSE]
<1>6. txbd' = [txbd EXCEPT ![macTx] = e]
  BY <1>4, <1>5 DEF MacTransmit
<1>7. e \in Descriptors
  BY DescriptorSet
<1>8. ~e.ready /\ (e.irq <=> d.irq) /\ e.frame = d.frame
  BY DEF Descriptors
<1> HIDE DEF e
<1>9. PICK q \in Nat : q = Len(queued)
  BY <1>4
<1>10. PICK w \in Nat : w = Len(wire)
  BY <1>4
<1>11. w <= q /\ q <= w + OETH_TXBD_NUM /\ macTx = w % OETH_TXBD_NUM
  BY <1>4, <1>9, <1>10 DEF Ring, RingCount, AtNext
<1>12. Pending = w + 1 .. q
  BY <1>9, <1>10 DEF Pending
\* Only the first reply on its way has this place.
<1>13. \A k \in Pending : Place(k) = macTx => k = w + 1
  <2> SUFFICES ASSUME NEW k \in Pending, Place(k) = macTx PROVE k = w + 1
    OBVIOUS
  <2>1. PICK j \in Nat : j = k - 1
    BY <1>12
  <2>2. w <= j /\ j < w + OETH_TXBD_NUM /\ w % OETH_TXBD_NUM = j % OETH_TXBD_NUM
    BY <1>4, <1>11, <1>12, <2>1 DEF Place
  <2>3. w = j
    BY <1>4, <2>2, PositionsDiffer
  <2> QED
    BY <1>12, <2>1, <2>3
<1>14. w + 1 \in Pending /\ Place(w + 1) = macTx
  <2>1. PICK k \in Pending : Place(k) = macTx
    BY <1>1, <1>4 DEF Ring, RingReady
  <2> QED
    BY <1>13, <2>1
<1>15. d.frame = queued[w + 1] /\ w + 1 \in 1 .. q
  BY <1>4, <1>5, <1>12, <1>14 DEF Ring, RingFilled
<1>16. queued[w + 1] \in Replies
  BY <1>4, <1>9, <1>15
<1>17. /\ wire' \in Seq(Replies) /\ Len(wire') = w + 1 /\ wire'[w + 1] = queued[w + 1]
       /\ \A k \in 1 .. w : wire'[k] = wire[k]
  BY <1>2, <1>4, <1>5, <1>10, <1>15, <1>16
<1>18. macTx' = AtNext(w + 1)
  BY <1>2, <1>4, <1>11, NextPosition DEF AtNext
<1>19. TxTypes'
  <2>1. txbd' \in [TxIdx -> Descriptors]
    BY <1>4, <1>6, <1>7
  <2>2. macTx' \in TxIdx
    <3>1. w + 1 \in Nat
      OBVIOUS
    <3> QED
      BY <1>18, <3>1, PositionTypes
  <2> QED
    BY <1>2, <1>4, <1>17, <2>1, <2>2 DEF TxTypes
<1>20. Ring'
  <2>1. Pending' = (w + 1) + 1 .. q
    BY <1>2, <1>9, <1>17 DEF Pending
  <2>2. \A k \in Pending' : k \in Pending /\ k # w + 1
    BY <1>12, <2>1
  <2>3. \A k \in Pending : k # w + 1 => k \in Pending'
    BY <1>12, <2>1
  <2>4. /\ \A t \in TxIdx : t # macTx => txbd'[t] = txbd[t]
        /\ txbd'[macTx] = e
    BY <1>4, <1>6
  <2>5. RingCount'
    <3>1. w + 1 <= q /\ q <= (w + 1) + OETH_TXBD_NUM
      BY <1>4, <1>11, <1>15
    <3>2. /\ pc # "next" => next_tx_buf_num = AtNext(q)
          /\ pc = "next" => q > 0 /\ next_tx_buf_num = Place(q)
      BY <1>4, <1>9 DEF Ring, RingCount
    <3> QED
      BY <1>2, <1>9, <1>17, <1>18, <3>1, <3>2 DEF RingCount
  <2>6. RingSent'
    <3>1. \A k \in 1 .. w : wire'[k] = queued[k]
      BY <1>4, <1>10, <1>17 DEF Ring, RingSent
    <3>2. \A k \in 1 .. w + 1 : k \in 1 .. w \/ k = w + 1
      OBVIOUS
    <3> QED
      BY <1>2, <1>17, <3>1, <3>2 DEF RingSent
  <2>7. RingReady'
    <3> SUFFICES ASSUME NEW t \in TxIdx, txbd'[t].ready
                 PROVE  \E k \in Pending' : Place(k) = t
      BY DEF RingReady
    <3>1. t # macTx
      BY <1>8, <2>4
    <3>2. PICK k \in Pending : Place(k) = t
      BY <1>4, <2>4, <3>1 DEF Ring, RingReady
    <3>3. k # w + 1
      BY <1>14, <3>1, <3>2
    <3> QED
      BY <2>3, <3>2, <3>3
  <2>8. RingFilled'
    <3> SUFFICES ASSUME NEW k \in Pending'
                 PROVE  /\ txbd'[Place(k)].ready /\ txbd'[Place(k)].irq
                        /\ txbd'[Place(k)].frame = queued'[k]
      BY DEF RingFilled
    <3>1. k \in Pending /\ Place(k) # macTx /\ Place(k) \in TxIdx
      BY <1>13, <2>2, PendingFacts
    <3> QED
      BY <1>2, <1>4, <2>4, <3>1 DEF Ring, RingFilled
  <2>9. RingNext'
    <3>1. txbd'[next_tx_buf_num].frame = txbd[next_tx_buf_num].frame
          /\ (txbd'[next_tx_buf_num].irq <=> txbd[next_tx_buf_num].irq)
      BY <1>4, <1>5, <1>8, <2>4
    <3> QED
      BY <1>2, <1>4, <3>1 DEF Ring, RingNext
  <2> QED
    BY <2>5, <2>6, <2>7, <2>8, <2>9 DEF Ring
<1> QED
  BY <1>1, <1>2, <1>3, <1>19, <1>20, RingStep

-----------------------------------------------------------------------------
(***************************************************************************)
(* The receive ring.                                                       *)
(***************************************************************************)

\* The frames in the descriptors.
InRing == {rxbd[r].frame : r \in {q \in RxIdx : Full(q)}}

LEMMA TakenOnceIs ==
    TakenOnce <=> /\ IsInjective(taken)
                  /\ {f \in Range(stored) : ~f.bad} = Range(taken) \cup {f \in InRing : ~f.bad}
                  /\ irq # "eb" => Range(taken) \cap InRing = {}
BY DEF TakenOnce, InRing, Full

\* A list with one more element.
LEMMA AppendRange ==
    ASSUME NEW S, NEW s \in Seq(S), NEW e \in S
    PROVE  /\ Append(s, e) \in Seq(S)
           /\ Range(Append(s, e)) = Range(s) \cup {e}
           /\ IsInjective(s) /\ e \notin Range(s) => IsInjective(Append(s, e))
<1> DEFINE t == Append(s, e)
           n == Len(s)
<1>1. /\ n \in Nat /\ t \in Seq(S) /\ DOMAIN s = 1 .. n /\ DOMAIN t = 1 .. n + 1
      /\ t[n + 1] = e /\ \A k \in 1 .. n : t[k] = s[k]
  OBVIOUS
<1>2. /\ \A k \in 1 .. n + 1 : k \in 1 .. n \/ k = n + 1
      /\ \A k \in 1 .. n : k \in 1 .. n + 1
      /\ n + 1 \in 1 .. n + 1
  BY <1>1
<1> HIDE DEF t, n
<1>3. Range(t) = Range(s) \cup {e}
  BY <1>1, <1>2 DEF Range
<1>4. ASSUME IsInjective(s), e \notin Range(s) PROVE IsInjective(t)
  <2>1. \A k \in 1 .. n : s[k] # e
    BY <1>1, <1>4 DEF Range
  <2>2. \A j, k \in 1 .. n : s[j] = s[k] => j = k
    BY <1>1, <1>4 DEF IsInjective
  <2> SUFFICES ASSUME NEW j \in 1 .. n + 1, NEW k \in 1 .. n + 1, t[j] = t[k]
               PROVE  j = k
    BY <1>1 DEF IsInjective
  <2> QED
    BY <1>1, <1>2, <2>1, <2>2
<1> QED
  BY <1>1, <1>3, <1>4 DEF t

\* What a step on the receive ring has to show: the rest is left alone.
LEMMA RxStep ==
    ASSUME Inv, moder, moder' = moder, RxTypes', HdlTypes', HisTypes',
           Numbers', TakenOnce',
           txbd' = txbd, macTx' = macTx, next_tx_buf_num' = next_tx_buf_num,
           queued' = queued, wire' = wire, pc' = pc, buf' = buf
    PROVE  Inv'
<1>0. pc # "setup"
  BY AfterSetup
<1>1. Types'
  BY DEF Inv, Types, TxTypes, MainTypes
<1>2. Setup'
  BY <1>0 DEF Setup
<1>3. Ring'
  BY RingFrame DEF Inv
<1> QED
  BY <1>1, <1>2, <1>3 DEF Inv

\* A frame arrives; its number is new.
LEMMA MacReceiveStep ==
    ASSUME Inv, MacReceive
    PROVE  Inv'
<1>1. /\ moder /\ arrived < MaxRx /\ arrived' = arrived + 1
      /\ txbd' = txbd /\ macTx' = macTx /\ moder' = moder
      /\ next_tx_buf_num' = next_tx_buf_num /\ pc' = pc /\ buf' = buf
      /\ int_events' = int_events /\ irq' = irq /\ i' = i
      /\ UNCHANGED his /\ taken' = taken /\ queued' = queued /\ wire' = wire
      /\ int_src' \in {int_src \cup {"RX"}, int_src \cup {"BUSY"}}
  BY DEF MacReceive, main, hdl
<1>2. HdlTypes' /\ HisTypes'
  BY <1>1 DEF Inv, Types, HdlTypes, HisTypes, his
<1>3. /\ RxTypes /\ Numbers /\ TakenOnce /\ MaxRx \in Nat /\ OETH_RXBD_NUM \in Nat \ {0}
      /\ arrived \in Nat /\ arrived' \in 0 .. MaxRx
  BY <1>1, EthMacAssumption DEF Inv, Types, RxTypes
<1>4. CASE UNCHANGED <<rxbd, macRx, stored>>
  <2>1. RxTypes'
    BY <1>1, <1>3, <1>4 DEF RxTypes
  <2>2. Numbers'
    <3>1. \A r \in RxIdx : Full(r)' <=> Full(r)
      BY <1>1, <1>4 DEF Full
    <3>2. \A n \in Int : n <= arrived => n <= arrived'
      BY <1>1, <1>3
    <3>3. \A f \in Frames : f.id \in Int
      BY DEF Frames
    <3>4. \A f \in Range(stored) : f \in Frames
      BY <1>3 DEF RxTypes, Range
    <3> QED
      BY <1>3, <1>4, <3>1, <3>2, <3>3, <3>4 DEF Numbers
  <2>3. TakenOnce'
    BY <1>1, <1>3, <1>4 DEF TakenOnce
  <2> QED
    BY <1>1, <1>2, <2>1, <2>2, <2>3, RxStep
<1>5. CASE ~UNCHANGED <<rxbd, macRx, stored>>
  <2>1. PICK h \in Hosts, k \in Kinds, b \in BOOLEAN, l \in IpLens \cup {0} :
          LET f == [id |-> arrived + 1, from |-> h, kind |-> k, iplen |-> l, bad |-> b] IN
          /\ rxbd' = [rxbd EXCEPT ![macRx] = [empty |-> FALSE, frame |-> f]]
          /\ stored' = Append(stored, f)
    BY <1>5 DEF MacReceive
  <2>2. rxbd[macRx].empty /\ macRx' = (macRx + 1) % OETH_RXBD_NUM
    BY <1>5 DEF MacReceive
  <2>3. PICK f \in Frames :
          f = [id |-> arrived + 1, from |-> h, kind |-> k, iplen |-> l, bad |-> b]
    <3>1. arrived + 1 \in 1 .. MaxRx
      BY <1>1, <1>3
    <3> QED
      BY <3>1 DEF Frames
  <2>4. f.id = arrived + 1
    BY <2>3
  <2>5. rxbd' = [rxbd EXCEPT ![macRx] = [empty |-> FALSE, frame |-> f]]
        /\ stored' = Append(stored, f)
    BY <2>1, <2>3
  <2>6. macRx \in RxIdx /\ macRx' \in RxIdx
    <3>1. macRx \in 0 .. OETH_RXBD_NUM - 1
      BY <1>3 DEF RxTypes, RxIdx
    <3>2. macRx + 1 \in Nat
      BY <1>3, <3>1
    <3>3. (macRx + 1) % OETH_RXBD_NUM \in 0 .. OETH_RXBD_NUM - 1
      BY <1>3, <3>2, RingPosition
    <3> QED
      BY <2>2, <3>1, <3>3 DEF RxIdx
  <2>7. /\ stored' \in Seq(Frames) /\ Range(stored') = Range(stored) \cup {f}
    BY <1>3, <2>5, AppendRange DEF RxTypes
  <2>8. /\ \A r \in RxIdx : r # macRx => rxbd'[r] = rxbd[r]
        /\ ~rxbd'[macRx].empty /\ rxbd'[macRx].frame = f
    BY <1>3, <2>5, <2>6 DEF RxTypes
  <2>9. RxTypes'
    <3>1. [empty |-> FALSE, frame |-> f] \in [empty : BOOLEAN, frame : Frames \cup {None}]
      OBVIOUS
    <3>2. rxbd' \in [RxIdx -> [empty : BOOLEAN, frame : Frames \cup {None}]]
      BY <1>3, <2>5, <2>6, <3>1 DEF RxTypes
    <3> QED
      BY <1>1, <1>3, <2>6, <2>7, <3>2 DEF RxTypes
  <2>10. \A r \in RxIdx : IF r = macRx THEN Full(r)' /\ ~Full(r) ELSE Full(r)' <=> Full(r)
    BY <1>1, <2>2, <2>8 DEF Full
  <2>11. \A g \in Frames : g.id <= arrived => g.id <= arrived' /\ g # f
    <3>1. \A g \in Frames : g.id \in Int
      BY DEF Frames
    <3> QED
      BY <1>1, <1>3, <2>4, <3>1
  <2>12. f.id <= arrived'
    BY <1>1, <1>3, <2>4
  <2>13. \A g \in Range(stored) : g \in Frames /\ g.id <= arrived
    BY <1>3 DEF RxTypes, Range, Numbers
  <2>14. \A r \in RxIdx : Full(r) => rxbd[r].frame \in Frames /\ rxbd[r].frame.id <= arrived
    BY <1>3 DEF Numbers
  <2>15. Numbers'
    <3>1. \A r \in RxIdx : Full(r)' => rxbd'[r].frame \in Frames /\ rxbd'[r].frame.id <= arrived'
      BY <2>8, <2>10, <2>11, <2>12, <2>14
    <3>2. ASSUME NEW r \in RxIdx, NEW s \in RxIdx, Full(r)', Full(s)',
                 rxbd'[r].frame = rxbd'[s].frame
          PROVE  r = s
      <4>1. CASE r # macRx /\ s # macRx
        BY <1>3, <2>8, <2>10, <3>2, <4>1 DEF Numbers
      <4>2. CASE r = macRx \/ s = macRx
        BY <2>8, <2>10, <2>11, <2>14, <3>2, <4>2
      <4> QED
        BY <4>1, <4>2
    <3>3. \A g \in Range(stored') : g.id <= arrived'
      BY <2>7, <2>11, <2>12, <2>13
    <3> QED
      BY <3>1, <3>2, <3>3 DEF Numbers
  <2>16. InRing' = InRing \cup {f}
    BY <2>6, <2>8, <2>10 DEF InRing
  <2>17. /\ IsInjective(taken)
         /\ {g \in Range(stored) : ~g.bad} = Range(taken) \cup {g \in InRing : ~g.bad}
         /\ irq # "eb" => Range(taken) \cap InRing = {}
    BY <1>3, TakenOnceIs
  <2>18. f \notin Range(taken)
    <3>1. f \notin Range(stored)
      BY <2>11, <2>13
    <3> QED
      BY <2>17, <3>1
  <2>19. TakenOnce'
    <3>1. {g \in Range(stored') : ~g.bad} = Range(taken') \cup {g \in InRing' : ~g.bad}
      BY <1>1, <2>7, <2>16, <2>17
    <3>2. irq' # "eb" => Range(taken') \cap InRing' = {}
      BY <1>1, <2>16, <2>17, <2>18
    <3>3. IsInjective(taken')
      BY <1>1, <2>17
    <3> QED
      BY <3>1, <3>2, <3>3 DEF TakenOnce, InRing, Full
  <2> QED
    BY <1>1, <1>2, <2>9, <2>15, <2>19, RxStep
<1> QED
  BY <1>4, <1>5

\* oeth_rx gives a descriptor back: nothing else holds its frame.
LEMMA RxEmptied ==
    ASSUME Inv, moder, moder' = moder, NEW r \in RxIdx, ~rxbd[r].empty,
           rxbd' = [rxbd EXCEPT ![r] = Empty], arrived' = arrived, stored' = stored
    PROVE  /\ rxbd' \in [RxIdx -> [empty : BOOLEAN, frame : Frames \cup {None}]]
           /\ Numbers'
           /\ rxbd[r].frame \in InRing /\ rxbd[r].frame \in Frames
           /\ InRing' = InRing \ {rxbd[r].frame}
<1>0. RxTypes /\ Numbers
  BY DEF Inv, Types
<1>1. Empty \in [empty : BOOLEAN, frame : Frames \cup {None}] /\ Empty.empty
  BY DEF Empty
<1>2. rxbd' \in [RxIdx -> [empty : BOOLEAN, frame : Frames \cup {None}]]
      /\ rxbd'[r] = Empty /\ \A s \in RxIdx : s # r => rxbd'[s] = rxbd[s]
  BY <1>0, <1>1 DEF RxTypes
<1>3. Full(r) /\ \A s \in RxIdx : Full(s)' <=> Full(s) /\ s # r
  BY <1>1, <1>2 DEF Full
<1>4. Numbers'
  BY <1>0, <1>2, <1>3 DEF Numbers
<1>5. rxbd[r].frame \in InRing /\ rxbd[r].frame \in Frames
  BY <1>0, <1>3 DEF InRing, Numbers
<1>6. \A s \in RxIdx : Full(s) /\ s # r => rxbd[s].frame # rxbd[r].frame
  BY <1>0, <1>3 DEF Numbers
<1>7. InRing' = InRing \ {rxbd[r].frame}
  BY <1>2, <1>3, <1>6 DEF InRing
<1> QED
  BY <1>2, <1>4, <1>5, <1>7

\* The length of the body of any frame, and the room that takes an empty one.
LEMMA FrameLens ==
    /\ \A f \in Frames : BodyLen(f) \in Int
    /\ 0 \in 0 .. EchoRoom /\ EchoRoom \in Nat
<1>1. EchoHead \in Nat /\ EchoRoom \in Nat /\ IpLens \subseteq Nat
  BY EthMacAssumption
<1>2. ASSUME NEW f \in Frames PROVE BodyLen(f) \in Int
  <2>1. PICK l \in IpLens \cup {0} : l = f.iplen
    BY DEF Frames
  <2>2. l \in Int
    BY <1>1
  <2>3. l - EchoHead \in Int
    BY <1>1, <2>2
  <2> QED
    BY <2>1, <2>3 DEF BodyLen
<1> QED
  BY <1>1, <1>2

\* user_recv records a request.
LEMMA RecordTypes ==
    ASSUME HisTypes, NEW f \in Frames, Record(f)
    PROVE  HisTypes'
<1>1. f.from \in Hosts
  BY DEF Frames
<1>2. sawARP' \in BOOLEAN /\ sawPING' \in BOOLEAN
  BY Zenon DEF Record
<1>3. hisMAC' \in Hosts /\ hisIP' \in Hosts /\ hisBody' \in Hosts
  BY <1>1 DEF Record, HisTypes
<1>4. BodyLen(f) \in Int
  BY FrameLens
<1>5. hisBodyLen' \in Int
  BY <1>4 DEF Record, HisTypes
<1> QED
  BY <1>2, <1>3, <1>5 DEF HisTypes

\* A frame moves from its descriptor to user_recv, or is dropped for its
\* error.
LEMMA RxTakeStep ==
    ASSUME Inv, RxGood \/ RxBad
    PROVE  Inv'
<1>0. /\ irq = "rx" /\ i < OETH_RXBD_NUM /\ ~rxbd[i].empty
      /\ rxbd' = [rxbd EXCEPT ![i] = Empty] /\ irq' = "rx" /\ i' = i + 1
      /\ txbd' = txbd /\ macTx' = macTx /\ macRx' = macRx /\ moder' = moder
      /\ next_tx_buf_num' = next_tx_buf_num /\ pc' = pc /\ buf' = buf
      /\ int_events' = int_events /\ int_src' = int_src
      /\ arrived' = arrived /\ stored' = stored /\ queued' = queued /\ wire' = wire
  BY DEF RxGood, RxBad, Goto, mac, main, hist
<1>1. moder /\ pc # "setup"
  BY <1>0, AfterSetup
<1>2. HdlTypes'
  BY <1>0, EthMacAssumption DEF Inv, Types, HdlTypes
<1>3. i \in RxIdx
  BY <1>0, EthMacAssumption DEF Inv, Types, HdlTypes, RxIdx
<1>4. PICK f : f = rxbd[i].frame
  OBVIOUS
<1>5. /\ rxbd' \in [RxIdx -> [empty : BOOLEAN, frame : Frames \cup {None}]]
      /\ Numbers' /\ f \in InRing /\ f \in Frames /\ InRing' = InRing \ {f}
  BY <1>0, <1>1, <1>3, <1>4, RxEmptied
<1>6. /\ IsInjective(taken)
      /\ {g \in Range(stored) : ~g.bad} = Range(taken) \cup {g \in InRing : ~g.bad}
      /\ Range(taken) \cap InRing = {} /\ taken \in Seq(Frames)
  BY <1>0, TakenOnceIs DEF Inv, Types, RxTypes
<1>7. CASE RxGood
  <2>1. ~f.bad /\ Record(f) /\ taken' = Append(taken, f)
    BY <1>4, <1>7 DEF RxGood, Record
  <2>2. HisTypes'
    BY <1>5, <2>1, RecordTypes DEF Inv, Types
  <2>3. /\ taken' \in Seq(Frames) /\ Range(taken') = Range(taken) \cup {f}
        /\ IsInjective(taken')
    <3>1. f \notin Range(taken)
      BY <1>5, <1>6
    <3> QED
      BY <1>5, <1>6, <2>1, <3>1, AppendRange
  <2>4. RxTypes'
    BY <1>0, <1>5, <2>3 DEF Inv, Types, RxTypes
  <2>5. TakenOnce'
    <3>1. {g \in Range(stored') : ~g.bad} = Range(taken') \cup {g \in InRing' : ~g.bad}
      BY <1>0, <1>5, <1>6, <2>1, <2>3
    <3>2. Range(taken') \cap InRing' = {}
      BY <1>5, <1>6, <2>3
    <3> QED
      BY <2>3, <3>1, <3>2 DEF TakenOnce, InRing, Full
  <2> QED
    BY <1>0, <1>1, <1>2, <1>5, <2>2, <2>4, <2>5, RxStep
<1>8. CASE RxBad
  <2>1. f.bad /\ taken' = taken /\ UNCHANGED his
    BY <1>4, <1>8 DEF RxBad, hist
  <2>2. HisTypes'
    BY <2>1 DEF Inv, Types, HisTypes, his
  <2>3. RxTypes'
    BY <1>0, <1>5, <2>1 DEF Inv, Types, RxTypes
  <2>4. TakenOnce'
    <3>1. {g \in Range(stored') : ~g.bad} = Range(taken') \cup {g \in InRing' : ~g.bad}
      BY <1>0, <1>5, <1>6, <2>1
    <3>2. Range(taken') \cap InRing' = {} /\ IsInjective(taken')
      BY <1>5, <1>6, <2>1
    <3> QED
      BY <3>1, <3>2 DEF TakenOnce, InRing, Full
  <2> QED
    BY <1>0, <1>1, <1>2, <1>5, <2>2, <2>3, <2>4, RxStep
<1> QED
  BY <1>7, <1>8

\* A UDP frame is handed over, and the handler waits with it.
LEMMA RxUdpStep ==
    ASSUME Inv, RxUdp
    PROVE  Inv'
<1>0. /\ irq = "rx" /\ i < OETH_RXBD_NUM /\ ~rxbd[i].empty /\ ~rxbd[i].frame.bad
      /\ rxbd' = rxbd /\ irq' = "eb" /\ i' = i
      /\ txbd' = txbd /\ macTx' = macTx /\ macRx' = macRx /\ moder' = moder
      /\ next_tx_buf_num' = next_tx_buf_num /\ pc' = pc /\ buf' = buf
      /\ int_events' = int_events /\ int_src' = int_src
      /\ arrived' = arrived /\ stored' = stored /\ queued' = queued /\ wire' = wire
      /\ sawARP' = sawARP /\ sawPING' = sawPING /\ hisMAC' = hisMAC /\ hisIP' = hisIP
      /\ hisBodyLen' = hisBodyLen
      /\ hisBody' = rxbd[i].frame.from /\ taken' = Append(taken, rxbd[i].frame)
  BY DEF RxUdp, Goto, mac, main
<1>1. moder /\ pc # "setup"
  BY <1>0, AfterSetup
<1>2. HdlTypes'
  BY <1>0 DEF Inv, Types, HdlTypes
<1>3. i \in RxIdx
  BY <1>0, EthMacAssumption DEF Inv, Types, HdlTypes, RxIdx
<1>4. PICK f : f = rxbd[i].frame
  OBVIOUS
<1>5. f \in Frames /\ f \in InRing /\ f.from \in Hosts
  <2>1. Full(i)
    BY <1>0, <1>1 DEF Full
  <2>2. f \in Frames /\ f \in InRing
    BY <1>3, <1>4, <2>1 DEF Inv, Numbers, InRing
  <2> QED
    BY <2>2 DEF Frames
<1>6. /\ IsInjective(taken)
      /\ {g \in Range(stored) : ~g.bad} = Range(taken) \cup {g \in InRing : ~g.bad}
      /\ Range(taken) \cap InRing = {} /\ taken \in Seq(Frames)
  BY <1>0, TakenOnceIs DEF Inv, Types, RxTypes
<1>7. /\ taken' \in Seq(Frames) /\ Range(taken') = Range(taken) \cup {f}
      /\ IsInjective(taken')
  <2>1. f \notin Range(taken) /\ taken' = Append(taken, f)
    BY <1>0, <1>4, <1>5, <1>6
  <2> QED
    BY <1>5, <1>6, <2>1, AppendRange
<1>8. HisTypes'
  BY <1>0, <1>4, <1>5 DEF Inv, Types, HisTypes
<1>9. RxTypes'
  BY <1>0, <1>7 DEF Inv, Types, RxTypes
<1>10. Numbers'
  BY <1>0 DEF Inv, Numbers, Full
<1>11. TakenOnce'
  <2>1. InRing' = InRing
    BY <1>0 DEF InRing, Full
  <2>2. {g \in Range(stored') : ~g.bad} = Range(taken') \cup {g \in InRing' : ~g.bad}
    BY <1>0, <1>4, <1>5, <1>6, <1>7, <2>1
  <2> QED
    BY <1>0, <1>7, <2>2 DEF TakenOnce, InRing, Full
<1> QED
  BY <1>0, <1>1, <1>2, <1>8, <1>9, <1>10, <1>11, RxStep

-----------------------------------------------------------------------------
\* ethmac_setup makes both rings empty before it enables the MAC.
LEMMA SetupStep ==
    ASSUME Inv, ethmac_setup
    PROVE  Inv'
<1>0. /\ pc = "setup" /\ irq = "off" /\ pc' = "arp?"
      /\ txbd' = [t \in TxIdx |-> Unused] /\ rxbd' = [r \in RxIdx |-> Empty]
      /\ macTx' = 0 /\ macRx' = 0 /\ int_src' = {} /\ moder' = TRUE
      /\ next_tx_buf_num' = 0 /\ buf' = buf
      /\ irq' = irq /\ int_events' = int_events /\ i' = i
      /\ UNCHANGED his /\ arrived' = arrived /\ stored' = stored /\ taken' = taken
      /\ queued' = queued /\ wire' = wire
  BY DEF ethmac_setup, Running, hdl, hist
<1>1. /\ stored' = << >> /\ taken' = << >> /\ queued' = << >> /\ wire' = << >>
  BY <1>0 DEF Inv, Setup
<1>2. 0 \in TxIdx /\ 0 \in RxIdx /\ OETH_TXBD_NUM \in Nat \ {0}
  BY PositionTypes
<1>3. Unused \in Descriptors /\ ~Unused.ready
      /\ Empty \in [empty : BOOLEAN, frame : Frames \cup {None}] /\ Empty.empty
  BY DEF Unused, Descriptors, Empty
<1>4. Types'
  <2>1. TxTypes'
    BY <1>0, <1>1, <1>2, <1>3 DEF TxTypes
  <2>2. RxTypes'
    BY <1>0, <1>1, <1>2, <1>3 DEF Inv, Types, RxTypes
  <2>3. HdlTypes'
    BY <1>0 DEF Inv, Types, HdlTypes
  <2>4. MainTypes' /\ HisTypes'
    BY <1>0 DEF Inv, Types, MainTypes, HisTypes, his
  <2> QED
    BY <2>1, <2>2, <2>3, <2>4 DEF Types
<1>5. Setup'
  BY <1>0 DEF Setup
<1>6. Ring'
  <2>1. Len(wire') = 0 /\ Len(queued') = 0 /\ Pending' = {}
    BY <1>1 DEF Pending
  <2>2. AtNext(0) = 0
    BY <1>2 DEF AtNext
  <2>3. \A t \in TxIdx : txbd'[t] = Unused
    BY <1>0
  <2> QED
    BY <1>0, <1>2, <1>3, <2>1, <2>2, <2>3 DEF Ring, RingCount, RingSent, RingReady, RingFilled, RingNext
<1>7. \A r \in RxIdx : ~Full(r)'
  BY <1>0, <1>3 DEF Full
<1>8. Range(stored') = {} /\ Range(taken') = {} /\ IsInjective(taken')
  BY <1>1 DEF Range, IsInjective
<1>9. Numbers'
  BY <1>7, <1>8 DEF Numbers
<1>10. TakenOnce'
  <2>1. InRing' = {}
    BY <1>7 DEF InRing
  <2> QED
    BY <1>8, <2>1 DEF TakenOnce, InRing, Full
<1> QED
  BY <1>4, <1>5, <1>6, <1>9, <1>10 DEF Inv

\* The invariant holds when the processor starts, whatever the descriptors
\* hold.
LEMMA InitInv == Init => Inv
<1> SUFFICES ASSUME Init PROVE Inv
  OBVIOUS
<1>0. 0 \in TxIdx /\ 0 \in RxIdx /\ OETH_TXBD_NUM \in Nat \ {0}
      /\ OETH_RXBD_NUM \in Nat \ {0} /\ MaxRx \in Nat
  BY PositionTypes
<1>1. PICK old \in BOOLEAN :
        /\ txbd = [t \in TxIdx |-> [Unused EXCEPT !.ready = old, !.irq = old]]
        /\ rxbd = [r \in RxIdx |-> [Empty EXCEPT !.empty = old]]
  BY DEF Init
<1>2. [Unused EXCEPT !.ready = old, !.irq = old] \in Descriptors
      /\ [Empty EXCEPT !.empty = old] \in [empty : BOOLEAN, frame : Frames \cup {None}]
  BY DEF Unused, Empty, Descriptors
<1>3. TxTypes
  BY <1>0, <1>1, <1>2 DEF Init, TxTypes
<1>4. RxTypes
  BY <1>0, <1>1, <1>2 DEF Init, RxTypes
<1>5. HdlTypes
  <2>1. 0 \in 0 .. OETH_TXBD_NUM + OETH_RXBD_NUM
    BY <1>0
  <2>2. FALSE \in BOOLEAN
    OBVIOUS
  <2>3. moder = FALSE /\ i = 0 /\ int_src = {} /\ int_events = {} /\ irq = "off"
    BY DEF Init
  <2> QED
    BY <2>1, <2>2, <2>3, Zenon DEF HdlTypes
<1>6. MainTypes /\ HisTypes
  <2>1. 0 \in Int /\ FALSE \in BOOLEAN
    OBVIOUS
  <2>2. HisTypes
    BY <2>1 DEF Init, HisTypes
  <2>3. buf \in Replies
    BY <2>1 DEF Init, Replies
  <2> QED
    BY <2>2, <2>3 DEF Init, MainTypes
<1>7. Setup
  BY DEF Init, Setup
<1>8. moder => Ring
  BY DEF Init
<1>9. \A r \in RxIdx : ~Full(r)
  BY DEF Init, Full
<1>10. Range(stored) = {} /\ Range(taken) = {} /\ IsInjective(taken)
  BY DEF Init, Range, IsInjective
<1>11. Numbers
  BY <1>9, <1>10 DEF Numbers
<1>12. TakenOnce
  <2>1. InRing = {}
    BY <1>9 DEF InRing
  <2> QED
    BY <1>10, <2>1, TakenOnceIs
<1> QED
  BY <1>3, <1>4, <1>5, <1>6, <1>7, <1>8, <1>11, <1>12 DEF Inv, Types

\* No step of the MAC, the handler or the main loop breaks it.
LEMMA InvStep == Inv /\ [Next]_vars => Inv'
<1> SUFFICES ASSUME Inv, [Next]_vars PROVE Inv'
  OBVIOUS
<1>1. CASE MacReceive \/ MacTransmit
  BY <1>1, MacReceiveStep, MacTransmitStep
<1>2. CASE Handler
  BY <1>2, HandlerStep, RxTakeStep, RxUdpStep, TxReclaimStep DEF Handler
<1>3. CASE Main
  BY <1>3, SetupStep, MainStep, TxFillStep, TxSendStep, TxNextStep DEF Main
<1>4. CASE UNCHANGED vars
  <2>1. /\ txbd' = txbd /\ rxbd' = rxbd /\ UNCHANGED mac /\ UNCHANGED his
        /\ next_tx_buf_num' = next_tx_buf_num /\ UNCHANGED main /\ UNCHANGED hdl
        /\ UNCHANGED hist
    BY <1>4 DEF vars
  <2>2. Types'
    BY <2>1 DEF Inv, Types, TxTypes, RxTypes, HdlTypes, MainTypes, HisTypes, mac, his, main,
                hdl, hist
  <2>3. Setup'
    BY <2>1 DEF Inv, Setup, mac, main, hdl, hist
  <2>4. (moder => Ring)'
    BY <2>1, RingFrame DEF Inv, mac, main, hist
  <2>5. Numbers' /\ TakenOnce'
    BY <2>1, RxFrame DEF Inv, mac, hdl, hist
  <2> QED
    BY <2>2, <2>3, <2>4, <2>5 DEF Inv
<1> QED
  BY <1>1, <1>2, <1>3, <1>4 DEF Next

\* The invariant, as a property of every run.
LEMMA InvAlways == Spec => []Inv
  BY InitInv, InvStep, PTL DEF Spec

\* The variables of the driver and the MAC keep their types: the indices stay
\* in the rings, and only replies go out.
THEOREM EthTypes == Spec => []TypeOK
<1>1. Inv => TypeOK
  BY TypesAre DEF Inv
<1> QED
  BY <1>1, InvAlways, PTL

\* The MAC transmits what tx_packet was given, in that order, for a ring of
\* any size: no reply is overwritten, sent twice or left out.
THEOREM WireInOrder == Spec => []WireOrder
<1>1. ASSUME Inv PROVE WireOrder
  <2>0. queued \in Seq(Replies) /\ wire \in Seq(Replies)
    BY <1>1 DEF Inv, Types, TxTypes
  <2>1. Len(wire) <= Len(queued) /\ \A k \in 1 .. Len(wire) : wire[k] = queued[k]
    <3>1. CASE moder
      BY <1>1, <3>1 DEF Inv, Ring, RingCount, RingSent
    <3>2. CASE ~moder
      <4>1. queued = << >> /\ wire = << >>
        BY <1>1, <3>2 DEF Inv, Setup
      <4> QED
        BY <4>1
    <3> QED
      BY <3>1, <3>2
  <2>2. SubSeq(wire, 1, Len(wire)) = SubSeq(queued, 1, Len(wire))
    BY <2>0, <2>1
  <2> QED
    BY <2>1, <2>2 DEF WireOrder, IsPrefix
<1>2. Inv => WireOrder
  BY <1>1
<1> QED
  BY <1>2, InvAlways, PTL

\* Every good frame that the MAC stored is in its descriptor or was given to
\* user_recv, exactly once (oeth_rx).
THEOREM FramesTakenOnce == Spec => []TakenOnce
<1>1. Inv => TakenOnce
  BY DEF Inv
<1> QED
  BY <1>1, InvAlways, PTL

-----------------------------------------------------------------------------
(***************************************************************************)
(* What the processor is lost to.  The length that sendECHO works with is  *)
(* the one of an echo request that was taken, accepted or not, or zero.    *)
(***************************************************************************)
LenKnown == \/ hisBodyLen = 0
            \/ \E f \in Range(taken) : f.kind = "ping" /\ BodyLen(f) = hisBodyLen
Explained == LenKnown /\ LostToMisfit

\* A step that takes no frame and keeps the length.
LEMMA ExplainedFrame ==
    ASSUME Explained, taken' = taken, hisBodyLen' = hisBodyLen, Lost' => Lost
    PROVE  Explained'
BY DEF Explained, LenKnown, LostToMisfit

\* The steps of sendECHO that use the length.
LEMMA EchoExplained ==
    ASSUME Explained, Inv, CopyBody \/ SumBody \/ ReplyLen
    PROVE  Explained'
<1>1. taken' = taken /\ hisBodyLen' = hisBodyLen /\ irq' = irq /\ irq = "off"
  BY DEF CopyBody, SumBody, ReplyLen, Running, his, hdl, hist
<1>2. hisBodyLen \in Int
  BY DEF Inv, Types, HisTypes
<1>3. pc' = "overrun" => hisBodyLen \notin 0 .. EchoRoom
  BY <1>2, FrameLens DEF CopyBody, SumBody, ReplyLen
<1>4. pc' = "overrun" => \E f \in Range(taken) : Misfit(f)
  BY <1>3, FrameLens DEF Explained, LenKnown, Misfit
<1>5. LostToMisfit'
  BY <1>1, <1>4 DEF LostToMisfit, Lost
<1> QED
  BY <1>1, <1>5 DEF Explained, LenKnown

\* The steps of user_recv.
LEMMA TakeExplained ==
    ASSUME Explained, Inv, RxGood \/ RxUdp
    PROVE  Explained'
<1>0. /\ irq = "rx" /\ i < OETH_RXBD_NUM /\ ~rxbd[i].empty /\ pc' = pc
      /\ taken' = Append(taken, rxbd[i].frame)
  BY DEF RxGood, RxUdp, Record, main
<1>1. moder
  BY <1>0, AfterSetup
<1>2. i \in RxIdx
  BY <1>0, EthMacAssumption DEF Inv, Types, HdlTypes, RxIdx
<1>3. PICK f \in Frames : f = rxbd[i].frame
  BY <1>0, <1>1, <1>2 DEF Inv, Numbers, Full
<1>4. Range(taken') = Range(taken) \cup {f}
  <2>1. taken \in Seq(Frames) /\ taken' = Append(taken, f)
    BY <1>0, <1>3 DEF Inv, Types, RxTypes
  <2> QED
    BY <2>1, AppendRange
<1>5. CASE RxGood
  <2>1. /\ hisBodyLen' = IF f.kind = "ping" THEN BodyLen(f) ELSE hisBodyLen
        /\ irq' = "rx"
    BY <1>3, <1>5 DEF RxGood, Record, Goto
  <2>2. LenKnown'
    BY <1>4, <2>1 DEF Explained, LenKnown
  <2>3. LostToMisfit'
    BY <1>0, <1>4, <2>1 DEF Explained, LostToMisfit, Lost
  <2> QED
    BY <2>2, <2>3 DEF Explained
<1>6. CASE RxUdp
  <2>1. hisBodyLen' = hisBodyLen /\ f.kind = "udp"
    BY <1>3, <1>6 DEF RxUdp
  <2>2. LenKnown'
    BY <1>4, <2>1 DEF Explained, LenKnown
  <2>3. LostToMisfit'
    BY <1>4, <2>1 DEF LostToMisfit, Misfit
  <2> QED
    BY <2>2, <2>3 DEF Explained
<1> QED
  BY <1>5, <1>6

\* No step breaks it.
LEMMA ExplainedStep == Inv /\ Explained /\ [Next]_vars => Explained'
<1> SUFFICES ASSUME Inv, Explained, [Next]_vars PROVE Explained'
  OBVIOUS
<1>1. CASE MacReceive \/ MacTransmit \/ UNCHANGED vars
  BY <1>1, ExplainedFrame DEF MacReceive, MacTransmit, vars, his, main, hdl, hist, Lost
<1>2. CASE \/ Enter \/ Ack \/ RxBad \/ RxEmpty \/ RxDone \/ TxReclaim \/ TxDone
  <2>1. taken' = taken /\ hisBodyLen' = hisBodyLen /\ pc' = pc
    BY <1>2 DEF Enter, Ack, RxBad, RxEmpty, RxDone, TxReclaim, TxDone, his, main, hist
  <2>2. irq' # "eb"
    BY <1>2 DEF Enter, Ack, RxBad, RxEmpty, RxDone, TxReclaim, TxDone, Goto
  <2> QED
    BY <2>1, <2>2, ExplainedFrame DEF Lost
<1>3. CASE RxGood \/ RxUdp
  BY <1>3, TakeExplained
<1>4. CASE CopyBody \/ SumBody \/ ReplyLen
  BY <1>4, EchoExplained
<1>5. CASE \/ ethmac_setup \/ PollARP \/ PollPING \/ CopyDest \/ CopyMac \/ CopyIp
           \/ TxFill \/ TxSend \/ TxNext \/ ClearSaw
  <2>1. taken' = taken /\ hisBodyLen' = hisBodyLen /\ irq' = irq
    BY <1>5 DEF ethmac_setup, PollARP, PollPING, Poll, CopyDest, CopyMac, CopyIp, TxFill,
                TxSend, TxNext, ClearSaw, his, hdl, hist
  <2>2. pc' # "overrun"
    BY <1>5 DEF ethmac_setup, PollARP, PollPING, Poll, CopyDest, CopyMac, CopyIp, TxFill,
                TxSend, TxNext, ClearSaw
  <2> QED
    BY <2>1, <2>2, ExplainedFrame DEF Lost
<1> QED
  BY <1>1, <1>2, <1>3, <1>4, <1>5 DEF Next, Handler, Main

\* While no UDP frame and no echo request that is too long for sendECHO was
\* taken the processor is not lost: no order of fitting requests overruns
\* the buffer of sendECHO.  For rings, buffers and frames of any size.
THEOREM OnlyMisfitsLose == Spec => []LostToMisfit
<1>1. Init => Explained
  BY DEF Init, Explained, LenKnown, LostToMisfit, Lost
<1>2. Explained => LostToMisfit
  BY DEF Explained
<1> QED
  BY <1>1, <1>2, InvAlways, ExplainedStep, PTL DEF Spec
=============================================================================
