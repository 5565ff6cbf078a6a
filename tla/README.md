# Verification of bpm-gw

`bpm-gw` is the gateware of the beam position monitors (BPMs) of the Sirius
light source, together with the retired PCIe driver, its user library and
embedded software kept under `src/history/`. This directory holds TLA+ models
of the parts whose correctness is a matter of order, concurrency and
boundaries, the TLC configurations that check them, and TLAPS proofs of what
matters most.

## 1. Inventory

### Orbit interlock (`hdl/modules/wb_orbit_intlk`)

The machine-protection function of the gateware. For a pair of BPMs (upstream
and downstream) it raises an interlock when the beam's translation (the mean of
the two positions) or angle (their difference) reaches a limit, provided the
beam is there (the minimum sum gate).

| Part | State | Operations |
| --- | --- | --- |
| `orbit_intlk_cdc`, `orbit_intlk_cdc_fifo` | a FIFO per BPM and channel, its two pointers as each clock domain knows them, the output registers | write of a sample, read of a pair, crossing of the pointers |
| `orbit_intlk_trans`, `orbit_intlk_ang` | adder pipeline, difference register, two comparator pipelines, level and latch flags, per channel | one rising edge of `ref_clk` |
| `orbit_intlk` | sum comparators, gate, master enables, interlock output and its latch | one rising edge of `ref_clk` |
| `wb_orbit_intlk` and its registers | control bits, limits, status | Wishbone reads and writes |

The crossing calls nobody: it presents samples with a valid flag. The detectors
take the flag through pipelines of a fixed latency; the gate takes another,
shorter one. Hard here: two pipelines of different length that meet in one
flag; sign bits taken at a different time than the carry they qualify; FIFOs
written blindly and read on the flags of one channel only.

Correct means: a sample outside its limits trips in bounded time; nothing else
trips; each verdict is the comparison of its own sample; the latches cover the
levels; pairs are of one sample number.

### BPM switching (`hdl/modules/wb_bpm_swap`)

The RF front end crosses the two antennas of a pair at the rate of a divided
clock, so that gain differences average out, and `deswap_channels` uncrosses
the digitised channels a set delay later. State: the divider's two registers,
the counter, the switching clock, a pending synchronisation, the delay line and
the output registers. Hard here: changes of divisor under a running counter,
triggers at any phase, and two paths that must stay aligned through mode
changes. Correct means: the counter cannot miss its terminal count, triggers
synchronise, and every sample leaves uncrossed.

### Position calculation, windowing, DSP datapath, top level

`position_calc.vhd` and `wb_position_calc_core.vhd` wire DSP cores from
submodules that are not part of the repository; `trigger2tag` (a toggle and a
delay line) and `sw_windowing` (a counter and a table) are instantiated nowhere in
the gateware, and `position_calc_cdc_fifo` repeats `orbit_intlk_cdc_fifo`;
`fixed_dds`, `mixer`, `downconv`, `hpf_adcinput` and `input_gen` are numerical
pipelines without control. `dbe_bpm_gen.vhd` is structural.

### PCIe driver (`history/sw/drivers/pcie`) and user library (`history/sw/lib/pcie`)

| Part | State | Operations |
| --- | --- | --- |
| `int.c`, `ioctl.c` (wait, clear) | `irq_outstanding` and a wait queue per source | interrupt handler, wait, clear |
| `kmem.c`, `ioctl.c` (mmap mode, area), `base.c` (mmap) | list of kernel buffers, its count and lock, device-wide mmap mode and area | allocate, map, find, free |
| `KernelMemory.cpp`, `PciDevice.cpp` | a handle and a mapping per object, a mutex per process | constructor, destructor, `mapBAR` |
| `umem.c`, `UserMemory.cpp` | pinned pages and scatter/gather lists | map, get list, sync, unmap |
| `base.c` (probe, remove), `sysfs.c` | the device, its attributes | probe, remove, sysfs reads and writes |

Hard here: threads that interleave between system calls whose state is
device-wide, entries used after a lock is dropped, and error paths.

### Embedded software (`history/embedded-sw`)

| Part | State | Operations |
| --- | --- | --- |
| `dbe_main.c`, `lib/arp.c`, `lib/icmp.c` | flags of requests seen, addresses and body of the last requester | main loop, `user_recv`, `sendARP`, `sendECHO` |
| `lib/ethmac/ethmac_nolwip.c`, `lib/int.c` | two rings of descriptors shared with the MAC, index of the next transmit descriptor | setup, `tx_packet`, `oeth_interrupt`, `oeth_rx`, `oeth_tx` |
| `lib/memmgr/memmgr.c` | circular free list in a static pool, its start, the pool's end | allocate, free |
| `dev/*.c`, lwIP | registers of a device; a network stack | polling; third-party code |

The main loop and the interrupt handler meet in the request buffers and in the
rings, the handler and the MAC in the rings and in the event register. Hard
here: an interrupt between any two steps, events that arrive while earlier ones
are acknowledged, a wait whose end is another actor's duty, a free list that
long sequences of calls must not corrupt. Correct means: frames leave in order
and whole, each received frame is taken once, requests are answered, blocks
never overlap and none is lost.

## 2. Plan

1. Orbit interlock detectors, gate and output; their verdicts proved. *Done.*
2. The crossing in front of them; alignment and lag proved. *Done.*
3. PCIe interrupts and kernel memory, driver and library together. *Done.*
4. BPM switching with its synchronisation. *Done.*
5. PCIe user memory, both libraries and sysfs as an actor. *Done.*
6. The embedded software: Ethernet with its interrupt handler, and the memory
   manager as a refinement of an abstract pool. *Done.*
7. The memory manager's invariants and its refinement of the pool proved. *Done.*
8. The safety properties of the runs proved for every value of the constants: user
   memory with its scatter/gather lists, the Ethernet rings, the trips of the
   interlock, the crossing without a bound on the drift, kernel memory, and the
   switching under its trigger. *Done.*
9. Left: trips of the interlock when sums overflow (`TripsInTime` and `TripIsCaused`
   assume that they do not).

## 3. Modules

| Module | Models |
| --- | --- |
| `OrbitIntlkPkg` | words, the pipelined adder `gc_big_adder2` (external), the comparators built on it |
| `OrbitIntlkTrans`, `OrbitIntlkAng` | the two detectors |
| `OrbitIntlk` | the composition: sum gate, detectors, output |
| `OrbitIntlkProps` | history variables and the properties of the whole |
| `OrbitIntlkCdc` | the crossing |
| `BpmSwap` | the switching |
| `BpmSwapSync` | the switching under a periodic trigger |
| `PcieIrq` | waiting for interrupts |
| `PcieKmem` | kernel buffers and BARs, library and driver |
| `PcieUmem` | user memory: driver, both libraries and sysfs |
| `EthMac` | main loop, interrupt handler and MAC of the embedded software |
| `MemPool` | what a memory manager promises: quanta that are free, or owned by one caller |
| `MemMgr` | the memory manager, shown to implement `MemPool` |
| `MC...` | values for TLC |
| `...Proofs` | theorems |

**Clocked logic.** A step is one rising edge of the clock. Each VHDL process is
one operator that gives the next value of its registers; combinational signals
are definitions with the signals' names. All processes of an entity act in the
same step. Words are integers of two's complement range with `Half` for
2^(width-1): sums wrap, `not` is `-w-1`, and a carry is computed on the unsigned
readings. The adder is a delay line of its operands with the sum formed at its
end; its latency is the constant `AdderLatency`. The adders have no reset
input: what is under way in them survives a reset.

Four things the models keep as the code has them, although a comment says
otherwise. Reaching a limit trips (the comparators are >= and <=, the comments
say "bigger" and "smaller"). The translation is compared with its sign
("take absolute value for comparison" in a comment is not in the code). The mean of two positions
that overflow their word wraps. The latched translation and angle outputs are
cleared by their own clear bits (the port comments name `intlk_clr_i`).

**Crossing.** A sample is its number in its BPM's stream. The asynchronous FIFO
is external: a write when full and a read when empty do nothing, and each
pointer reaches the other side in a step of its own (`Cross`, `CrossBack`), for
every FIFO separately. `Settle` says that the samples of one BPM are thousands
of cycles apart (they are the decimated ones), so that pointers have crossed
between two of them; the phase between BPMs is free. The ADC FIFOs of the same
file have the same structure and feed nothing in the detectors.

**Switching.** The front end and the ADCs are a delay line from `swap` to the
channels' inputs that carries, as history, the switch's position and the mode
in force. `ch_o` names the antenna each channel shows. `en_i` is left open by
`bpm_swap.vhd` and is '1'. A divisor of zero gives a terminal count of all ones.

**Driver and library.** A step is what runs under one lock or is one atomic
operation or one call into the kernel. `pc` is where a thread is. What
can fail may fail: DMA allocation, sysfs and `remap_pfn_range` for kernel memory;
`get_user_pages`, the memory of an entry, its attribute, the array of a list and every copy
from or to the caller for user memory. Left out are the
returns of the map call before `get_user_pages` and of a sync call that cannot read its
argument: they change nothing. The use of an
entry after `kfree`, or a second release of an area, stops the thread in the
state "oops": what happens after it is not defined by the code. Areas are given
out again as soon as they are released. `pcidriver_kmem_find_entry` takes the first
entry of the list with the handle's bus address. Its failure (`-EINVAL`) is left out of
`FindEntry`, because no state reaches it: that is `FreeFindsEntry`, checked and proved. The attributes of sysfs that free
kernel memory or set mode and area (`sysfs.c:152-183`) are not in `PcieKmem`: with
them, as with a second process, a thread may map another BAR than it asked for.

In `PcieUmem` an object is a kernel entry with its page and scatter/gather arrays.
Pages carry the driver's references (`ref`) and the bit `PG_locked`. The loops over
the pages of a buffer are single steps: every property speaks of one page at a
time, and per page the loops do one thing. `pci_map_sg` may join entries or not.
The scatter/gather list is computed as the code computes it, with offsets, lengths
and bus addresses, from a placement of the frames. The race of two actors that
unmap one entry is in the model up to the `kfree` of the first: pages are released
twice, and the second actor then stops in "oops". The pages of such an entry are
`spoiled`. Memory of a freed entry that the kernel has given to somebody else is
not modelled, and neither is the temporary array of `ioctl_umem_sgget`, which no failing
return of that function frees (`ioctl.c:282-294`). A buffer that was mapped and whose list
cannot be had is "refused" (a fault, no memory, the entry gone) or "short" (more entries than
the library offers): the library unmaps it, or the process ends first and
the entry stays.

**Embedded software.** A step of the main loop is what no interrupt can divide for
the properties: a test, a copy of one field, a store to a descriptor. The handler
stops the main loop and does not nest (`crt0.S` enables interrupts on return only);
its steps interleave with the MAC's. A frame is its number, its sender, what it
asks for and whether it has an error; a reply is the addresses and the body it
carries, with its length. `user_recv` writes `hisBodyLen` before it compares it with the size of
`hisBody` (`dbe_main.c:100`), and `sendECHO` reads it again for the copy of the body, its sum
and its length (`icmp.c:108-120`), into a buffer that has room for 462 bytes where
`hisBody` has 1516. A length that does not fit at one of these reads takes the loop to
"overrun": the stack is overwritten, what follows is undefined, and the model ends. The
length that `sendECHO` writes into the IP header is a further read, harmless to memory,
and is left out, as are the contents of frames with an error, which nobody reads. A UDP frame longer than
`hisBody` is copied past its end; it stops the processor in any case. The MAC (external) is modelled from how the driver programs it. Before
`ethmac_setup` the descriptors hold anything.

**Memory manager.** Addresses are in quanta of the header's size; the pool is
`0 .. Pool - 1` and `base` lies outside.
Sizes are natural numbers: the module assumes that no request and no claim comes near
2^32 bytes (`WordQuantas`), where the `uint32_t` of `memmgr.c:107` and `:139` would wrap. Each iteration of the loops of `memmgr_alloc`
and `memmgr_free` is a step; there is one caller, as in the embedded software.
`MemPool` has no list: a call takes quanta that nobody owns, or fails, and a free
gives them back. `KeepsPromise` maps the allocated blocks to owned quanta.

## 4. Runs

| Run | Checks | Result |
| --- | --- | --- |
| `intlk_core` | `TypeOK`, `VerdictExact`, `TripWithinDeadline`, `TripHasCause`, `LatchCoversLevel` | pass, 1.05M states |
| `intlk_smallsum` | `SmallSumNeverTrips` | violated |
| `cdc` | `TypeOK`, `PairAligned`, `ChannelLag`, `PairEventuallyRead`, `FreshPair`, `NoBurst` | pass, 28k |
| `swap` | `TypeOK`, `CountBounded`, `DeswapExact` | pass, 113k |
| `swap_sync` | `StaysInPhase`, `EvenHalves` | pass, 1.1k |
| `swap_dropped` | `TriggerClears` | violated |
| `irq` | `TypeOK`, `CounterBalanced`, `NoReturnByWaiters` | pass, 17k |
| `kmem` | `TypeOK`, `BarMapped`, `NoLeak`, `DistinctAreas`, `FreeFindsEntry` | pass, 481k |
| `kmem_own` | `OwnBuffer` | violated |
| `umem` | `TypeOK`, `PinnedWhileMapped`, `QuietClean`, `SgExact`, `CppHasRoom` | pass, 4.98M |
| `ethmac` | `TypeOK`, `WireOrder`, `TakenOnce`, `LostToMisfit`, `RxServed`, `RequestAnswered` | pass, 289k |
| `memmgr` | `TypeOK`, `Disjoint`, `NothingLost`, `Returns`, `KeepsPromise` | pass, 704k |

**`intlk_core`.** Words of three bits, an adder of two stages, samples inside and
outside the limits with large and small sums, one whose sum overflows, clears,
disables and resets at any cycle. Two stages are enough for a sample to be behind another in every pipeline, and
the gap of three cycles is the shortest the detectors bear: with samples only
`AdderLatency` apart `TripWithinDeadline` fails, as the register between the
adder and the comparator is overwritten too early. The gap is the one assumption on
the environment; `NoBurst` of the crossing and the decimation supply it.
A reset discards verdicts and sums separately and leaves the levels alone, so
`TripHasCause` and `LatchCoversLevel` are promises until the first reset; the others
hold through resets. Limits that change while samples are under way are covered by
the proof of `VerdictExact`, which has no bound on them.

**`intlk_smallsum`**: the gate of a sample takes one adder latency, its verdict
two. A sample outside the limits with too small a sum leaves its verdict in the
register; when the next sample has enough sum, the gate opens one latency
before the new verdict replaces the old one, and the interlock trips. Test
bench test 5 says a sample with too small a sum gives no interlock. What holds
is `TripHasCause`: that sample or the one after it had enough sum.

**`cdc`** uses FIFOs of four entries and streams that lead by at most two. The bound
is tight: a lead of three breaks `ChannelLag` and a lead of four `PairAligned`. Within it no FIFO
is ever full, so the run shows nothing of an overflow; what is left then (`FreshPair`,
`NoBurst`) is proved without a bound on the drift. Once
a FIFO has overflowed, pairs are misaligned for good. Deadlock checking is off
because the bound `MaxWrites` ends the streams; with eight samples the
pointers of each FIFO go round twice.

**`swap`** gives the environment everything at every edge; the divisors are
0 and 2 of a two-bit counter (terminal counts 3 and 1), so the counter can be beyond the new
terminal count when it changes, and the delays are two stages. **`swap_sync`**
lets a periodic trigger begin at any phase of four divisors.
**`swap_dropped`**: `p_freq_swap` does not remember a trigger that finds the
counter at its terminal value and the clock high, as if the clock were in phase
then. It is not: the next edge begins the low half, and as the trigger is
periodic it is dropped every time. Every other phase locks (`StaysInPhase`).

**`irq`** has three waiters on two sources, enough for two to owe to one counter
while a third takes. A clear between a waiter's
decrement and its increment leaves the counter at one, and a wait returns without an
interrupt; `NoReturnByWaiters` says that this is the only way. (The body of the
acknowledge function is commented out, so no interrupt is ever counted:
`IrqHandler` changes nothing but a history variable.)

**`kmem`** has two threads of one process, two areas, two BARs and three
allocations, so an area is used again while its old entry is still listed.
Deadlock checking is off because a thread that stopped in "oops" may hold the
mutex. "oops" is reached: the area is released before its entry leaves the list,
an owner that is given it and frees it finds the old entry first, and two threads
then free that entry. `NoLeak` speaks of states in which no call is under way and
none has ended so. **`kmem_own`**: the buffer is allocated before the mutex is
taken, and the driver maps whichever is the latest, so two threads of one process
can end up with each other's memory.

**`umem`** has two threads, two objects and three pages, a buffer that begins within
the first page and ends in the third, and one of a single byte on the page between:
they share a page, the first needs all the room the C++ library offers, and one
more entry than the C library does. Three maps are enough for a thread to die, its
entry to be unmapped through sysfs and its object to be used again. One page is
reserved and two frames are adjacent. Deadlock checking is off because threads stop
in "oops" and the ids are bounded. Threads and objects are symmetric; no temporal
property is checked. What the run leaves as exceptions are the code's own: pages
shared by two buffers lose their lock with the first that goes (that all
other pages keep it is the theorem `LocksKept`), and pages of an
entry unmapped twice at once are released twice. Any buffer may be refused its list for want
of memory or after a fault; `CppHasRoom` says that the C++ library is never refused
for offering too few entries. The C library is: "short" is reached.

**`ethmac`** has two descriptors in each ring and three frames: one more than fit, so
`BUSY` and the wrap of both rings occur. An echo request has one of three lengths: one
that is ignored (negative) and still recorded, one that fits, and one that `hisBody` holds and
`sendECHO` does not. Deadlock checking is off because the processor can be lost (`Lost`): after a UDP
frame the handler waits for `eb_done` with interrupts disabled,
and only another handler sets it; a length that does not fit overruns `sendECHO`'s buffer. `LostToMisfit` says
that nothing else does it, and `RxServed` and `RequestAnswered` hold until then.
`RequestAnswered` counts replies given to `tx_packet` after the request, so an earlier
reply that is still in the ring does not answer it. It exempts a request that comes while
one of its kind is being answered: it may be recorded before `sawARP` is cleared (`arp.c:86`) and
is dropped then. With one peer the addresses in a reply cannot be
mixed; with two they can, since `sendARP` copies them one after the other from
buffers the handler overwrites.

**`memmgr`** has a pool of six quanta, claimed at least two at a time, and requests
of one, two and three quanta with their header: enough for splits, joins on both
sides, a full pool and a list that wraps at any block. `WordQuantas` is 2^32 bytes in
quanta of eight.

**Left out for size.** The pool and ring sizes, thread counts and word widths above are
small; what is proved (section 5) does not depend on them.

**Fairness.** `FairSpec` of the crossing: `ref_clk` and the pointer synchronisers run.
`FairSyncSpec`: the clock of the switching runs. `EthMac`: the processor runs, takes a
pending interrupt when it is not in the handler, and the MAC sends what is ready;
frames need not arrive. `MemMgr`: a call that has begun goes on. Nothing is assumed of streams, of
interrupts or of callers.

## 5. Proofs

| Theorem | Statement | Assumes |
| --- | --- | --- |
| `OrbitIntlkProofs!TypeCorrect` | `Spec => []TypeOK` | any width, latency >= 1 |
| `OrbitIntlkProofs!VerdictCorrect` | `Spec => []VerdictExact` | samples more than a latency apart |
| `OrbitIntlkCdcProofs!PairsAligned` | alignment of pairs | `Drift + 2 <= Size` |
| `OrbitIntlkCdcProofs!LagBounded` | lag of the channels | `Drift + 2 <= Size` |
| `BpmSwapProofs!CounterBounded` | `Spec => []CountBounded` | any divider width |
| `BpmSwapProofs!ChannelsUncrossed` | `Spec => []DeswapExact` | delay set to the front end's |
| `PcieIrqProofs!CounterCorrect` | `CounterBalanced` | any finite set of waiters |
| `PcieIrqProofs!WaitersNeverWake` | `NoReturnByWaiters` | any finite set of waiters |
| `PcieIrqProofs!IrqTypeCorrect` | `Spec => []TypeOK` | any finite set of waiters |
| `BpmSwapProofs!SwapTypeCorrect` | `Spec => []TypeOK` | any divider width |
| `MemMgrProofs!MemTypeCorrect` | `Spec => []TypeOK` | `base` not right behind the pool, sizes far from 2^32 |
| `MemMgrProofs!BlocksDisjoint` | `Spec => []Disjoint` | the same |
| `MemMgrProofs!MemoryKept` | `Spec => []NothingLost` | the same |
| `MemMgrProofs!PoolImplemented` | `Spec => KeepsPromise` (refinement of `MemPool`) | the same |
| `PcieKmemProofs!BarsCorrect` | `BarMapped` | all threads in one process |
| `PcieKmemProofs!KmemTypes` | `Spec => []TypeOK` | any processes and threads |
| `PcieKmemProofs!AreasDistinct` | `Spec => []DistinctAreas` | the same |
| `PcieKmemProofs!FreesFindEntry` | `Spec => []FreeFindsEntry` | the same |
| `PcieKmemProofs!NothingLeaked` | `Spec => []NoLeak` | the same |
| `PcieUmemProofs!UmemTypes` | `Spec => []TypeOK` | finitely many entries and pages |
| `PcieUmemProofs!PagesPinned` | `Spec => []PinnedWhileMapped` | the same |
| `PcieUmemProofs!LocksKept` | `Spec => []LockKept` | the same |
| `PcieUmemProofs!QuietIsClean` | `Spec => []QuietClean` | the same |
| `PcieUmemProofs!CppAccepted` | `Spec => []CppHasRoom` | the same; any page size |
| `PcieUmemProofs!ListsExact` | `Spec => []SgExact` | the same; any page size and frames |
| `EthMacProofs!EthTypes` | `Spec => []TypeOK` | rings of any size |
| `EthMacProofs!WireInOrder` | `Spec => []WireOrder` | the same |
| `EthMacProofs!FramesTakenOnce` | `Spec => []TakenOnce` | the same |
| `EthMacProofs!OnlyMisfitsLose` | `Spec => []LostToMisfit` | the same; any lengths and sizes of the buffers |
| `OrbitIntlkProofs!LatchCovers` | `MonSpec => []LatchCoversLevel` | any width, latency >= 1 |
| `OrbitIntlkProofs!TripsInTime` | `MonSpec => []TripWithinDeadline` | samples more than a latency apart, `NoOverflow` |
| `OrbitIntlkProofs!TripIsCaused` | `MonSpec => []TripHasCause` | the same, and `GateOn` |
| `OrbitIntlkCdcProofs!CdcTypes` | `Spec => []TypeOK` | any drift |
| `OrbitIntlkCdcProofs!OneIsFresh` | `Spec => FreshPair` | any drift |
| `OrbitIntlkCdcProofs!PairsApart` | `Spec => NoBurst` | any drift |
| `BpmSwapProofs!PhaseKept` | `SyncSpec => []StaysInPhase` | any divisor, any whole number of periods between triggers |
| `BpmSwapProofs!HalvesEven` | `SyncSpec => EvenHalves` | the same |

Every proof finds an inductive invariant, shows that `Init` implies it and that
each action keeps it, and concludes with PTL.

*Verdicts.* `VerdictExact` speaks of the moment a comparison leaves its pipeline,
when the sign bits are read from the value register. It needs that the register
still holds the operand that entered, hence `TransSpaced` and `AngSpaced` (no two
valid entries in the pipelines that one register serves, because samples are
more than a latency apart) and `TransCoherent` and `AngCoherent` (the valid entry
carries what the register holds). The comparison itself is then arithmetic on
words of any width.

*Trips.* The gate of a sample takes one adder latency and its verdict two and more, and
only the two together trip. `Together` says that the pipelines carry the samples at the
same depth. For `TripWithinDeadline`, `DuePlace` says where the sample is for which the
deadline runs, stage by stage of the detector that has to trip, and that the gate and
the master enable behind it are still those of that sample: the sample that follows
comes more than a latency later, so its gate cannot close before the verdict is out.
For `TripHasCause`, `Apart` says that as long as there was no cause no stage with a
sample outside the limits has an open gate at or before it, and that a registered
verdict meets an open gate only with another sample still between them. Two hypotheses
stand in these theorems. `NoOverflow`: the sum and the difference of the positions of
a sample fit the word. Positions are nanometres in words of 32 bits, so a sum that
overflows is of positions a metre away; without the hypothesis the mean wraps and can
land inside the limits, and both statements are false. `GateOn`: the minimum sum gate
is enabled in every control word, as it is in the run's; `TripHasCause` is a promise
about that gate. The run `intlk_core` goes beyond the first hypothesis in one sample.
`LatchCoversLevel` needs neither: level and latch are set and cleared by the same
conditions.

*Crossing.* `NoLoss` (the contents are consecutive numbers ending with the newest),
`Pointers` (each side's view lags in the direction that is safe), and `Room` (with
the lead bounded no FIFO fills) make `PairAligned` and `ChannelLag` inductive.

*Crossing without a bound.* When one BPM stops, the other one's FIFOs fill and lose
samples; what remains true then needs its own invariant. `Cautious`: neither side
thinks better of a FIFO than it is. `Newest(p)`, of some BPM `p`: it had nothing waiting
in channel 0 when everything had last settled, so what it holds now, if anything, is the
sample it has just produced, and a pair on the output has taken that one. Which BPM it
is changes (the slower one of the moment), so the invariant says that there is one. A
read therefore takes a sample that is new (`FreshPair`), and the next has to wait for
that BPM's next sample (`NoBurst`), which is the gap the detectors need.

*Switching.* `PathAligned`: stage by stage the delay line of `deswap` holds what the
signal path's sample will need. The counter needs the two divider registers:
the cycle in which they differ restarts it.

*Switching under a trigger.* The position of the clock in its period and the cycles
since the trigger advance together, and both wrap: `Level` says that they differ by two
cycles and a multiple of the period, which survives either wrap because the trigger's
period is a multiple of the clock's. A trigger that finds the clock level is pending
exactly when the clock is at the end of its period and would restart anyway, so it
changes nothing (`PosNext`). The only cycle in which a remembered trigger finds the
clock elsewhere is the one after the first such trigger (`InStep`).

*Interrupts.* The counter plus the number of waiters that owe is never negative,
and zero until a clear came between two operations of a waiter.

*BARs.* Between a thread's lock and unlock the device-wide mode and area are what
it set them to, because only the holder of the mutex is past its lock.

*Kernel memory.* The driver frees by address, and an area is given out again before its
old entry has left the list, so a free may unlink the entry of another object. The
invariant does not say that an object has its own entry. It says who owns each area
(an object, or a call that is making or freeing one; never two), and that each owner is
backed by a listed entry of its address which no other thread is about to unlink:
`FreeFindsEntry` follows. When a free takes an older entry, two calls hold that entry,
and one of them is bound to stop in "oops". So once
no call is under way and none has stopped, no free took a wrong entry, and `NoLeak`
follows (`Tidy`, unless `Doomed` or `Oops`).

*User memory.* The code counts references per page and nowhere per buffer, so the
invariant says who accounts for each of them: an entry that is listed until an actor
has released its pages, and an object that a thread is still mapping, for the pages it
got (`RefExact`); the same for the bit `PG_locked` (`LockExact`), with `SpoilExact` and
`SharedExact` for the pages to which the exceptions apply. What is on the list, has
attributes or is mapped for DMA is tied to where the threads are (`Structure`). For the
scatter/gather lists, `Lists` says what each list on its way to the library is: the
list of the buffer, as it was made or joined by `pci_map_sg`. That these name the bytes
of the buffer is a fact about recursive functions and folds (`Merged`, `FlattenSeq`), proved by
induction over their length. The library's induction theorem takes an operator as a
parameter, which the provers cannot instantiate; `NatSetInduction` states it of a set
of numbers instead, and each induction names its set.

*Ethernet.* Nothing in the driver says which descriptors are in use. It follows from
how many replies were queued and sent: reply `k` sits in descriptor
`(k - 1) % OETH_TXBD_NUM` from the store of `tx_packet` until the MAC has sent it, exactly
these descriptors are ready, and each of them has its interrupt bit set, so `tx_packet`,
which waits for that bit to be clear, never fills one (`Ring`). The wrap of both indices is arithmetic modulo the size of the
ring. For reception, frames carry numbers, so what is in the ring differs from what was
taken (`Numbers`). For `LostToMisfit`, `LenKnown` says that the length in force is zero or that
of an echo request that was taken: `sendECHO` is then overrun only by such a length,
whichever of its reads meets it.

*Memory manager.* `Ring`: the free list is a ring in which every block is followed by
the next higher address, or the highest by the lowest; insertion and removal keep
it (`RingInsert`, `RingRemove`), and it is what makes `Place` find the only two blocks
the freed one can touch. Hence `Combined`: two free blocks never touch. `Searched`:
the blocks between `freep` and `prevp` are too small, so at the end of the list all
are. The refinement rests on `NoGapLeft`: were there a gap of the size asked for,
its first quanta would lie in a free block that ends within it (all are too
small), the quanta behind that block would begin another free block, and the two
would touch. The types alone are not inductive: that a sum of sizes stays below
`Pool` needs that blocks are disjoint.

Every invariant and every safety property of the passing runs is stated by a theorem.
Only model-checked: the liveness properties (`PairEventuallyRead`, `RxServed`,
`RequestAnswered`, `Returns`), which are outside what TLAPS can prove here; and the
trips of the interlock with a sample whose sum overflows. The strengthened invariants
were checked with TLC, on the instances of section 4 or larger ones, before they were
proved.

The proofs rest on the assumptions of the modules, which TLC evaluates in every run:
constants are of their types; for user memory also that entries and pages are finite in
number, that every byte of a buffer lies on one of the pages, and that a page number
determines its frame; for Ethernet that the rings are not empty; for the memory manager that `base` does not lie right behind
the pool and that no size comes near 2^32.

## 6. Not modelled

- The register bank of the interlock beyond its outputs, and the crossing of
  those outputs from `clk_sys`: whether `ref_clk` sees a clear pulse depends on the
  ratio of the two clocks, which this code does not fix.
- Changes of the de-switching delay while samples are under way.
- Position calculation, windowing and the DSP datapath (see section 1).
- Probe and remove of the driver, the attributes of kernel memory, of the mmap mode and of
  the mmap area in sysfs, configuration space access; the C interface of the library beyond user memory.
- Of `src/history/embedded-sw`: the polling drivers of single devices (`dev/`), which
  share no state, and lwIP with the application on top of it.
- The generated code, test benches and synthesis scripts.

lwIP, third-party code, makes up some 58,000 of the 78,700 lines of C in the
repository, and drivers that poll a register and board support most of the rest;
the gateware, where the system's own logic is, is VHDL. The models therefore
cover a small share of the C lines.

`PROJECT.json` holds the correspondence of definitions and source lines, the
runs, and the hazards with the properties that cover them.
