------------------------------- MODULE EthMac -------------------------------
(***************************************************************************)
(* The network side of the embedded application (dbe_main.c, arp.c,        *)
(* icmp.c) and its Ethernet driver (lib/ethmac/ethmac_nolwip.c, lib/int.c) *)
(*                                                                         *)
(*   - the main loop answers an ARP or a ping request that it saw: it      *)
(*     builds the reply from global buffers and gives it to tx_packet;     *)
(*   - the interrupt handler, which may come between any two steps of the  *)
(*     main loop, empties the receive descriptors, records requests in     *)
(*     those buffers, and takes back the transmit descriptors;             *)
(*   - the MAC (external) receives into and transmits from rings of        *)
(*     descriptors that it shares with both.                               *)
(*                                                                         *)
(* The LM32 (external) enters a handler with interrupts disabled and       *)
(* crt0.S enables them only on return: handlers do not nest.               *)
(*                                                                         *)
(* sendECHO builds its reply in a buffer of its own that is smaller than   *)
(* hisBody, with a length that the handler may replace at any time.  What  *)
(* the processor does once that buffer is overrun is undefined; the model  *)
(* ends there ("overrun": neither the loop nor the handler takes a step),  *)
(* so every property is about the time before.                             *)
(***************************************************************************)
EXTENDS Integers, Sequences, SequencesExt

CONSTANTS
    OETH_TXBD_NUM,  \* transmit descriptors
    OETH_RXBD_NUM,  \* receive descriptors
    Hosts,          \* peers; a peer stands for its MAC and its IP address
    Kinds,          \* what a frame asks for, see below
    IpLens,         \* the IP lengths of echo requests
    EchoHead,       \* IP and ICMP headers before the body, 24 bytes
    HisRoom,        \* sizeof(hisBody)
    EchoRoom,       \* room for a body in sendECHO: sizeof(buf) - ICMP_QUENCH
    MaxRx,          \* bound: frames that reach the MAC
    None            \* no frame

ASSUME EthMacAssumption ==
    /\ OETH_TXBD_NUM \in Nat \ {0}
    /\ OETH_RXBD_NUM \in Nat \ {0}
    /\ Kinds \subseteq {"arp", "ping", "udp", "other"} /\ "other" \in Kinds
    /\ IpLens \subseteq Nat /\ {EchoHead, HisRoom, EchoRoom} \subseteq Nat
    /\ MaxRx \in Nat

TxIdx == 0 .. OETH_TXBD_NUM - 1
RxIdx == 0 .. OETH_RXBD_NUM - 1

VARIABLES
    \* shared with the MAC
    txbd,               \* per descriptor: its READY and IRQ bits, the frame
    rxbd,               \* per descriptor: its EMPTY bit and the frame
    int_src,            \* events: RX (RXF, RXE), TX (TXB, TXE), BUSY
    macTx, macRx,       \* the descriptors the MAC is at
    moder,              \* RXEN and TXEN
    \* shared by the main loop and the handler
    sawARP, sawPING, hisMAC, hisIP, hisBody, hisBodyLen,
    next_tx_buf_num,
    \* the main loop
    pc, buf,
    \* the handler
    irq, int_events, i,
    \* history
    arrived,            \* number of frames that reached the MAC
    stored,             \* frames that the MAC put in a descriptor
    taken,              \* frames that user_recv was given
    queued,             \* frames that were marked ready
    wire                \* frames that the MAC transmitted

mac  == <<int_src, macTx, macRx, moder>>
his  == <<sawARP, sawPING, hisMAC, hisIP, hisBody, hisBodyLen>>
main == <<pc, buf>>
hdl  == <<irq, int_events, i>>
hist == <<arrived, stored, taken, queued, wire>>
vars == <<txbd, rxbd, mac, his, next_tx_buf_num, main, hdl, hist>>

\* A received frame is identified by its number; the status says if it is
\* bad.  Only the IP length of an echo request matters.
Frames == [id : 1 .. MaxRx, from : Hosts, kind : Kinds, iplen : IpLens \cup {0},
           bad : BOOLEAN]
BodyLen(f) == f.iplen - EchoHead

\* A reply: its destination, the addresses it names, the body it returns and
\* the length it is sent with.
Replies == [kind : {"arp", "ping"}, dest : Hosts, mac : Hosts, ip : Hosts,
            body : Hosts, len : Int]

Empty == [empty |-> TRUE, frame |-> None]
Unused == [ready |-> FALSE, irq |-> FALSE, frame |-> None]

TypeOK ==
    /\ txbd \in [TxIdx -> [ready : BOOLEAN, irq : BOOLEAN, frame : Replies \cup {None}]]
    /\ rxbd \in [RxIdx -> [empty : BOOLEAN, frame : Frames \cup {None}]]
    /\ int_src \subseteq {"RX", "TX", "BUSY"} /\ int_events \subseteq {"RX", "TX", "BUSY"}
    /\ macTx \in TxIdx /\ macRx \in RxIdx /\ moder \in BOOLEAN
    /\ sawARP \in BOOLEAN /\ sawPING \in BOOLEAN
    /\ {hisMAC, hisIP, hisBody} \subseteq Hosts /\ hisBodyLen \in Int
    /\ next_tx_buf_num \in TxIdx
    /\ pc \in {"setup", "arp?", "ping?", "dest", "mac", "ip", "body", "sum", "len",
               "wait", "send", "next", "done", "overrun"}
    /\ buf \in Replies
    /\ irq \in {"off", "ack", "rx", "tx", "eb"}
    /\ i \in 0 .. OETH_TXBD_NUM + OETH_RXBD_NUM
    /\ arrived \in 0 .. MaxRx /\ stored \in Seq(Frames) /\ taken \in Seq(Frames)
    /\ queued \in Seq(Replies) /\ wire \in Seq(Replies)

\* After a restart of the processor the MAC is disabled and its descriptors
\* hold what the previous program left there.
Init ==
    /\ \E old \in BOOLEAN :
          /\ txbd = [t \in TxIdx |-> [Unused EXCEPT !.ready = old, !.irq = old]]
          /\ rxbd = [r \in RxIdx |-> [Empty EXCEPT !.empty = old]]
    /\ int_src = {} /\ macTx = 0 /\ macRx = 0 /\ moder = FALSE
    /\ sawARP = FALSE /\ sawPING = FALSE
    /\ hisMAC \in Hosts /\ hisIP = hisMAC /\ hisBody = hisMAC /\ hisBodyLen = 0
    /\ next_tx_buf_num = 0
    /\ pc = "setup" /\ irq = "off" /\ int_events = {} /\ i = 0
    /\ buf = [kind |-> "arp", dest |-> hisMAC, mac |-> hisMAC, ip |-> hisMAC,
              body |-> hisMAC, len |-> 0]
    /\ arrived = 0 /\ stored = << >> /\ taken = << >> /\ queued = << >> /\ wire = << >>

-----------------------------------------------------------------------------
(***************************************************************************)
(* The MAC (external).                                                     *)
(***************************************************************************)

\* A frame arrives.  It is stored in the next descriptor, with or without an
\* error, if that is empty; otherwise the frame is lost and BUSY is set.  What
\* a frame with an error holds does not matter: it is dropped unread.
MacReceive ==
    /\ moder /\ arrived < MaxRx
    /\ arrived' = arrived + 1
    /\ \/ /\ rxbd[macRx].empty
          /\ \E h \in Hosts, k \in Kinds, b \in BOOLEAN :
             \E l \in IF k = "ping" THEN IpLens ELSE {0} :
                LET f == [id |-> arrived + 1, from |-> h, kind |-> k, iplen |-> l,
                          bad |-> b] IN
                /\ b => k = "other"
                /\ rxbd' = [rxbd EXCEPT ![macRx] = [empty |-> FALSE, frame |-> f]]
                /\ stored' = Append(stored, f)
          /\ macRx' = (macRx + 1) % OETH_RXBD_NUM
          /\ int_src' = int_src \cup {"RX"}
       \/ /\ ~rxbd[macRx].empty
          /\ int_src' = int_src \cup {"BUSY"}
          /\ UNCHANGED <<rxbd, macRx, stored>>
    /\ UNCHANGED <<txbd, macTx, moder, his, next_tx_buf_num, main, hdl,
                   taken, queued, wire>>

\* The frame of the next descriptor goes out.
MacTransmit ==
    /\ moder /\ txbd[macTx].ready
    /\ wire' = Append(wire, txbd[macTx].frame)
    /\ txbd' = [txbd EXCEPT ![macTx].ready = FALSE]
    /\ int_src' = IF txbd[macTx].irq THEN int_src \cup {"TX"} ELSE int_src
    /\ macTx' = (macTx + 1) % OETH_TXBD_NUM
    /\ UNCHANGED <<rxbd, macRx, moder, his, next_tx_buf_num, main, hdl,
                   arrived, stored, taken, queued>>

-----------------------------------------------------------------------------
(***************************************************************************)
(* The interrupt handler.  While it runs the main loop does not.           *)
(***************************************************************************)
Goto(h, n) == irq' = h /\ i' = n

\* _irq_entry, and oeth_interrupt up to the read of int_src.  The line of
\* the MAC is the level of int_src.
Enter ==
    /\ irq = "off" /\ int_src # {} /\ pc # "overrun"
    /\ int_events' = int_src
    /\ Goto("ack", 0)
    /\ UNCHANGED <<txbd, rxbd, mac, his, next_tx_buf_num, main, hist>>

\* Mutant: every event is cleared, the ones that came since the read too.
AckAll ==
    /\ irq = "ack"
    /\ int_src' = {}
    /\ Goto(IF "RX" \in int_events THEN "rx" ELSE "tx", 0)
    /\ UNCHANGED <<txbd, rxbd, macTx, macRx, moder, his, next_tx_buf_num, main,
                   int_events, hist>>

\* Writing the events back clears them in the MAC.
Ack ==
    /\ irq = "ack"
    /\ int_src' = int_src \ int_events
    /\ Goto(IF "RX" \in int_events THEN "rx" ELSE "tx", 0)
    /\ UNCHANGED <<txbd, rxbd, macTx, macRx, moder, his, next_tx_buf_num, main,
                   int_events, hist>>

\* An echo request is accepted if hisBody can hold its body; the comparison
\* with sizeof is unsigned, so a negative length is too large.
Accepted(f) == f.kind = "ping" /\ BodyLen(f) \in 0 .. HisRoom

\* Mutant: the length keeps a byte of the headers.
RecordLong(f) ==
    LET request == f.kind = "arp" \/ Accepted(f) IN
    /\ taken' = Append(taken, f)
    /\ sawARP' = (sawARP \/ f.kind = "arp")
    /\ sawPING' = (sawPING \/ Accepted(f))
    /\ hisMAC' = IF request THEN f.from ELSE hisMAC
    /\ hisIP' = IF request THEN f.from ELSE hisIP
    /\ hisBody' = IF Accepted(f) THEN f.from ELSE hisBody
    /\ hisBodyLen' = IF f.kind = "ping" THEN BodyLen(f) + 1 ELSE hisBodyLen

\* user_recv for everything but UDP: an ARP request or an accepted echo
\* request for us is recorded, any other frame is ignored.  The length of an
\* echo request is written before it is compared, so it is kept in any case.
Record(f) ==
    LET request == f.kind = "arp" \/ Accepted(f) IN
    /\ taken' = Append(taken, f)
    /\ sawARP' = (sawARP \/ f.kind = "arp")
    /\ sawPING' = (sawPING \/ Accepted(f))
    /\ hisMAC' = IF request THEN f.from ELSE hisMAC
    /\ hisIP' = IF request THEN f.from ELSE hisIP
    /\ hisBody' = IF Accepted(f) THEN f.from ELSE hisBody
    /\ hisBodyLen' = IF f.kind = "ping" THEN BodyLen(f) ELSE hisBodyLen

\* Mutant: a good frame is handled, and its descriptor is left as it is.
RxKeeps ==
    /\ irq = "rx" /\ i < OETH_RXBD_NUM
    /\ ~rxbd[i].empty /\ ~rxbd[i].frame.bad /\ rxbd[i].frame.kind # "udp"
    /\ Record(rxbd[i].frame)
    /\ Goto("rx", i + 1)
    /\ UNCHANGED <<txbd, rxbd, mac, next_tx_buf_num, main, int_events, arrived, stored,
                   queued, wire>>

\* oeth_rx: a good frame is handled and its descriptor given back to the MAC.
RxGood ==
    /\ irq = "rx" /\ i < OETH_RXBD_NUM
    /\ ~rxbd[i].empty /\ ~rxbd[i].frame.bad /\ rxbd[i].frame.kind # "udp"
    /\ Record(rxbd[i].frame)
    /\ rxbd' = [rxbd EXCEPT ![i] = Empty]
    /\ Goto("rx", i + 1)
    /\ UNCHANGED <<txbd, mac, next_tx_buf_num, main, int_events, arrived, stored,
                   queued, wire>>

\* A frame with an error is dropped.
RxBad ==
    /\ irq = "rx" /\ i < OETH_RXBD_NUM
    /\ ~rxbd[i].empty /\ rxbd[i].frame.bad
    /\ rxbd' = [rxbd EXCEPT ![i] = Empty]
    /\ Goto("rx", i + 1)
    /\ UNCHANGED <<txbd, mac, his, next_tx_buf_num, main, int_events, hist>>

RxEmpty ==
    /\ irq = "rx" /\ i < OETH_RXBD_NUM /\ rxbd[i].empty
    /\ Goto("rx", i + 1)
    /\ UNCHANGED <<txbd, rxbd, mac, his, next_tx_buf_num, main, int_events, hist>>

\* user_recv for UDP: the frame is copied to hisBody for the etherbone core
\* and the handler waits for eb_done.  set_eb_done is the handler of another
\* interrupt, so the wait does not end: nothing below leaves "eb".  (A frame
\* longer than hisBody is copied past its end, with no better outcome.)
RxUdp ==
    /\ irq = "rx" /\ i < OETH_RXBD_NUM
    /\ ~rxbd[i].empty /\ ~rxbd[i].frame.bad /\ rxbd[i].frame.kind = "udp"
    /\ taken' = Append(taken, rxbd[i].frame)
    /\ hisBody' = rxbd[i].frame.from
    /\ Goto("eb", i)
    /\ UNCHANGED <<txbd, rxbd, mac, sawARP, sawPING, hisMAC, hisIP, hisBodyLen,
                   next_tx_buf_num, main, int_events, arrived, stored,
                   queued, wire>>

RxDone ==
    /\ irq = "rx" /\ i = OETH_RXBD_NUM
    /\ Goto(IF "RX" \in int_events THEN "tx" ELSE "off", 0)
    /\ UNCHANGED <<txbd, rxbd, mac, his, next_tx_buf_num, main, int_events, hist>>

\* Mutant: the search starts at the second descriptor.
TxSkipsFirst ==
    /\ irq = "tx" /\ i < OETH_TXBD_NUM /\ "TX" \in int_events
    /\ txbd' = [txbd EXCEPT ![i].irq = @ /\ (txbd[i].ready \/ i = 0)]
    /\ Goto("tx", i + 1)
    /\ UNCHANGED <<rxbd, mac, his, next_tx_buf_num, main, int_events, hist>>

\* oeth_tx: a descriptor that is marked and no longer ready has been sent.
TxReclaim ==
    /\ irq = "tx" /\ i < OETH_TXBD_NUM /\ "TX" \in int_events
    /\ txbd' = [txbd EXCEPT ![i].irq = @ /\ txbd[i].ready]
    /\ Goto("tx", i + 1)
    /\ UNCHANGED <<rxbd, mac, his, next_tx_buf_num, main, int_events, hist>>

\* After the transmit events, BUSY alone makes a search of its own.
TxDone ==
    /\ irq = "tx" /\ (i = OETH_TXBD_NUM \/ "TX" \notin int_events)
    /\ Goto(IF "BUSY" \in int_events /\ "RX" \notin int_events THEN "rx" ELSE "off", 0)
    /\ UNCHANGED <<txbd, rxbd, mac, his, next_tx_buf_num, main, int_events, hist>>

Handler == \/ Enter \/ Ack \/ RxGood \/ RxBad \/ RxEmpty \/ RxUdp \/ RxDone
           \/ TxReclaim \/ TxDone

-----------------------------------------------------------------------------
(***************************************************************************)
(* The main loop.                                                          *)
(***************************************************************************)
Running(p) == pc = p /\ irq = "off"

\* ethmac_setup: reset, clear the events, prepare the descriptors and only
\* then enable the receiver and the transmitter.
ethmac_setup ==
    /\ Running("setup")
    /\ txbd' = [t \in TxIdx |-> Unused]
    /\ rxbd' = [r \in RxIdx |-> Empty]
    /\ macTx' = 0 /\ macRx' = 0 /\ int_src' = {} /\ moder' = TRUE
    /\ next_tx_buf_num' = 0
    /\ pc' = "arp?"
    /\ UNCHANGED <<his, buf, hdl, hist>>

\* The two tests of the loop.
Poll(at, saw, kind, next) ==
    /\ Running(at)
    /\ pc' = IF saw THEN "dest" ELSE next
    /\ buf' = IF saw THEN [buf EXCEPT !.kind = kind] ELSE buf
    /\ UNCHANGED <<txbd, rxbd, mac, his, next_tx_buf_num, hdl, hist>>
PollARP == Poll("arp?", sawARP, "arp", "ping?")
PollPING == Poll("ping?", sawPING, "ping", "arp?")

\* sendARP and sendECHO copy the destination MAC...
CopyDest ==
    /\ Running("dest")
    /\ buf' = [buf EXCEPT !.dest = hisMAC]
    /\ pc' = IF buf.kind = "arp" THEN "mac" ELSE "ip"
    /\ UNCHANGED <<txbd, rxbd, mac, his, next_tx_buf_num, hdl, hist>>
\* ...in an ARP reply the MAC again, as the target hardware address...
CopyMac ==
    /\ Running("mac")
    /\ buf' = [buf EXCEPT !.mac = hisMAC]
    /\ pc' = "ip"
    /\ UNCHANGED <<txbd, rxbd, mac, his, next_tx_buf_num, hdl, hist>>
\* ...the IP address...
CopyIp ==
    /\ Running("ip")
    /\ buf' = [buf EXCEPT !.ip = hisIP]
    /\ pc' = IF buf.kind = "arp" THEN "wait" ELSE "body"
    /\ UNCHANGED <<txbd, rxbd, mac, his, next_tx_buf_num, hdl, hist>>
\* ...and in an echo reply hisBodyLen bytes of the body: the buffer holds
\* EchoRoom of them, and a negative length is a huge one to memcpy.
CopyBody ==
    /\ Running("body")
    /\ \/ /\ hisBodyLen \in 0 .. EchoRoom
          /\ buf' = [buf EXCEPT !.body = hisBody]
          /\ pc' = "sum"
       \/ /\ hisBodyLen \notin 0 .. EchoRoom
          /\ pc' = "overrun" /\ UNCHANGED buf
    /\ UNCHANGED <<txbd, rxbd, mac, his, next_tx_buf_num, hdl, hist>>
\* sendECHO reads the length again to pad the body and to sum it up...
SumBody ==
    /\ Running("sum")
    /\ pc' = IF hisBodyLen <= EchoRoom THEN "len" ELSE "overrun"
    /\ UNCHANGED <<txbd, rxbd, mac, his, next_tx_buf_num, buf, hdl, hist>>
\* ...and once more to hand the reply to tx_packet.
ReplyLen ==
    /\ Running("len")
    /\ \/ /\ hisBodyLen <= EchoRoom
          /\ buf' = [buf EXCEPT !.len = hisBodyLen]
          /\ pc' = "wait"
       \/ /\ hisBodyLen > EchoRoom
          /\ pc' = "overrun" /\ UNCHANGED buf
    /\ UNCHANGED <<txbd, rxbd, mac, his, next_tx_buf_num, hdl, hist>>

\* Mutant: tx_packet does not wait for the descriptor.
TxFillAtOnce ==
    /\ Running("wait")
    /\ txbd' = [txbd EXCEPT ![next_tx_buf_num].frame = buf]
    /\ pc' = "send"
    /\ UNCHANGED <<rxbd, mac, his, next_tx_buf_num, buf, hdl, hist>>

\* tx_packet: wait until the descriptor is free and fill its buffer...
TxFill ==
    /\ Running("wait") /\ ~txbd[next_tx_buf_num].irq
    /\ txbd' = [txbd EXCEPT ![next_tx_buf_num].frame = buf]
    /\ pc' = "send"
    /\ UNCHANGED <<rxbd, mac, his, next_tx_buf_num, buf, hdl, hist>>
\* ...set READY and IRQ in one store...
TxSend ==
    /\ Running("send")
    /\ txbd' = [txbd EXCEPT ![next_tx_buf_num].ready = TRUE,
                            ![next_tx_buf_num].irq = TRUE]
    /\ queued' = Append(queued, buf)
    /\ pc' = "next"
    /\ UNCHANGED <<rxbd, mac, his, next_tx_buf_num, buf, hdl, arrived, stored,
                   taken, wire>>
\* Mutant: the index is not masked.
TxNextUnmasked ==
    /\ Running("next")
    /\ next_tx_buf_num' = next_tx_buf_num + 1
    /\ pc' = "done"
    /\ UNCHANGED <<txbd, rxbd, mac, his, buf, hdl, hist>>

\* ...and go on to the next descriptor.
TxNext ==
    /\ Running("next")
    /\ next_tx_buf_num' = (next_tx_buf_num + 1) % OETH_TXBD_NUM
    /\ pc' = "done"
    /\ UNCHANGED <<txbd, rxbd, mac, his, buf, hdl, hist>>

\* sendARP clears sawARP and sendECHO clears sawPING, after tx_packet.
ClearSaw ==
    /\ Running("done")
    /\ sawARP' = (sawARP /\ buf.kind # "arp")
    /\ sawPING' = (sawPING /\ buf.kind # "ping")
    /\ pc' = IF buf.kind = "arp" THEN "ping?" ELSE "arp?"
    /\ UNCHANGED <<txbd, rxbd, mac, hisMAC, hisIP, hisBody, hisBodyLen, next_tx_buf_num,
                   buf, hdl, hist>>

Main == \/ ethmac_setup \/ PollARP \/ PollPING \/ CopyDest \/ CopyMac \/ CopyIp
        \/ CopyBody \/ SumBody \/ ReplyLen \/ TxFill \/ TxSend \/ TxNext \/ ClearSaw

Next == MacReceive \/ MacTransmit \/ Handler \/ Main

(***************************************************************************)
(* The processor runs and a pending interrupt is taken; the MAC transmits  *)
(* what is ready.  Frames need not arrive.                                 *)
(***************************************************************************)
Spec == /\ Init /\ [][Next]_vars
        /\ WF_vars(MacTransmit) /\ WF_vars(Handler) /\ WF_vars(Main)

-----------------------------------------------------------------------------
\* What the MAC transmits is what tx_packet was given, in that order: no
\* frame is overwritten while its descriptor is in use, sent twice, or sent
\* from a descriptor that was not filled (the ring shared by tx_packet,
\* oeth_tx and the MAC).
WireOrder == IsPrefix(wire, queued)

\* Every good frame that the MAC stored is still in its descriptor or was
\* given to user_recv, exactly once, and no other frame was (oeth_rx).
TakenOnce ==
    LET held == {rxbd[r].frame : r \in {q \in RxIdx : moder /\ ~rxbd[q].empty}} IN
    /\ IsInjective(taken)
    /\ {f \in Range(stored) : ~f.bad} = Range(taken) \cup {f \in held : ~f.bad}
    /\ irq # "eb" => Range(taken) \cap held = {}

\* The processor waits for etherbone with interrupts disabled, or it has
\* overrun the buffer of sendECHO.
Lost == irq = "eb" \/ pc = "overrun"

\* A frame that the program cannot cope with.
Misfit(f) == f.kind = "udp" \/ (f.kind = "ping" /\ BodyLen(f) \notin 0 .. EchoRoom)

\* The processor is lost only after a UDP frame or an echo request with a
\* body that sendECHO has no room for: as long as every request fits, no
\* order in which they replace the length under a running sendECHO overruns
\* its buffer.  A request that user_recv ignores counts, as its length stays
\* (user_recv, sendECHO).
LostToMisfit == Lost => \E f \in Range(taken) : Misfit(f)

\* Every stored frame is taken from its descriptor, unless the processor
\* is lost: an event that arrives while the handler runs is not lost
\* (oeth_interrupt acknowledges first and then searches every descriptor).
RxServed == \A r \in RxIdx :
    (moder /\ ~rxbd[r].empty) ~> (rxbd[r].empty \/ Lost)

Saw(k) == IF k = "arp" THEN sawARP ELSE sawPING
Answering(k) == pc \notin {"setup", "arp?", "ping?"} /\ buf.kind = k

\* The replies of a kind that tx_packet was given, or that went out.
Count(k, replies) == Len(SelectSeq(replies, LAMBDA f : f.kind = k))

\* A request that was seen while the loop is not answering one of its kind
\* is answered on the wire by a reply that tx_packet has not been given yet,
\* unless the processor is lost: tx_packet's wait for a descriptor ends, and
\* the answer to an ARP request does not cancel a ping (the loop of main,
\* sendARP, sendECHO, tx_packet).  A request that comes while one of its
\* kind is being answered may be dropped with it.
RequestAnswered == \A k \in {"arp", "ping"}, n \in 0 .. MaxRx - 1 :
    (Saw(k) /\ ~Answering(k) /\ Count(k, queued) = n) ~> (Count(k, wire) > n \/ Lost)
=============================================================================
