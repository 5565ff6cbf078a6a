--------------------------- MODULE PcieKmemProofs ---------------------------
(***************************************************************************)
(* The mutex of a PciDevice protects the device-wide mmap mode and area,   *)
(* for any number of threads of one process, BARs and buffers; and for any *)
(* number of processes no buffer is leaked, none is owned twice, and every *)
(* free finds an entry to free.                                            *)
(***************************************************************************)
EXTENDS PcieKmem, TLAPS

\* The places of a library call where the mutex is not held.
Outside == {"idle", "dma_alloc", "link", "lock", "find", "release", "unlink",
            "oops"}
Inside  == {"mode", "area", "mmap", "remap", "unlock"}

Types ==
    /\ mmap_mutex \in [Processes -> Threads \cup {None}]
    /\ pc \in [Threads -> Outside \cup Inside]
    /\ call \in [Threads -> Calls]
    /\ m_ptr = [t \in Threads |-> m_ptr[t]]
    /\ mmap_area \in Bars

\* Where a thread that maps a BAR stands, the device is set the way it needs.
Good(t) ==
    /\ pc[t] \in Inside => mmap_mutex[ProcessOf[t]] = t
    /\ m_ptr[t] # None => pc[t] = "unlock"
    /\ call[t].op = "bar" =>
         /\ pc[t] = "area" => mmap_mode = "PCI"
         /\ pc[t] = "mmap" => mmap_mode = "PCI" /\ mmap_area = call[t].bar
         /\ pc[t] # "remap"
         /\ m_ptr[t] # None => m_ptr[t] = [kind |-> "bar", at |-> call[t].bar]

Inv == Types /\ \A t \in Threads : Good(t)

OneDevice == \A s, t \in Threads : ProcessOf[s] = ProcessOf[t]

\* Initially no thread is in a call and nobody holds the mutex.
LEMMA InitInv == Init => Inv
<1> SUFFICES ASSUME Init PROVE Inv
  OBVIOUS
<1>1. Types
  BY KmemAssumption DEF Init, Types, Outside, Inside, Calls, NoCall
<1>2. \A t \in Threads : Good(t)
  BY DEF Init, Good, Inside, NoCall
<1> QED
  BY <1>1, <1>2 DEF Inv

\* A step outside the mutex, which neither changes the mode nor the area.
LEMMA OutsideStep ==
    ASSUME Inv, NEW t \in Threads, NEW q \in Outside,
           pc' = [pc EXCEPT ![t] = q], pc[t] # "unlock",
           call' \in [Threads -> Calls],
           \A s \in Threads : s # t => call'[s] = call[s],
           m_ptr' = m_ptr \/ m_ptr' = [m_ptr EXCEPT ![t] = None],
           UNCHANGED <<modeVars, mmap_mutex>>
    PROVE  Inv'
<1>1. Types'
  BY DEF Inv, Types, modeVars
<1>2. ASSUME NEW s \in Threads PROVE Good(s)'
  <2>0. mmap_mode' = mmap_mode /\ mmap_area' = mmap_area
        /\ mmap_mutex' = mmap_mutex
    BY DEF modeVars
  <2>1. CASE s = t
    <3>1. pc'[t] \in Outside
      BY DEF Inv, Types
    <3>2. m_ptr'[t] = None
      BY DEF Inv, Types, Good
    <3> QED
      BY <2>1, <3>1, <3>2 DEF Good, Inside, Outside
  <2>2. CASE s # t
    <3>1. pc'[s] = pc[s] /\ call'[s] = call[s] /\ m_ptr'[s] = m_ptr[s]
      BY <2>2 DEF Inv, Types
    <3> QED
      BY <2>0, <3>1 DEF Inv, Good
  <2> QED
    BY <2>1, <2>2
<1> QED
  BY <1>1, <1>2 DEF Inv

\* Allocating, starting a call and freeing happen outside the mutex.
LEMMA AllocStep ==
    ASSUME Inv, NEW t \in Threads,
           \/ AllocSteps(t)
           \/ \E bar \in Bars : MapBar(t, bar)
           \/ \E o \in objs : KmemFree(t, o)
           \/ FreeSteps(t)
    PROVE  Inv'
<1> DEFINE Frame(q) ==
      /\ pc' = [pc EXCEPT ![t] = q] /\ pc[t] # "unlock"
      /\ call' \in [Threads -> Calls]
      /\ \A s \in Threads : s # t => call'[s] = call[s]
      /\ m_ptr' = m_ptr \/ m_ptr' = [m_ptr EXCEPT ![t] = None]
      /\ UNCHANGED <<modeVars, mmap_mutex>>
<1>0. /\ call \in [Threads -> Calls] /\ NoCall \in Calls
      /\ [op |-> "alloc", bar |-> 0] \in Calls
      /\ [op |-> "free", bar |-> 0] \in Calls
      /\ \A bar \in Bars : [op |-> "bar", bar |-> bar] \in Calls
  BY DEF Inv, Types, Calls, NoCall
<1>1. CASE KmemAlloc(t)
  <2>1. Frame("dma_alloc")
    BY <1>0, <1>1 DEF KmemAlloc, Goto
  <2> QED
    BY <2>1, OutsideStep DEF Outside
<1>2. CASE DmaAlloc(t) \/ Link(t)
  <2>1. Frame("link") \/ Frame("lock")
    BY <1>0, <1>2 DEF DmaAlloc, Link, Goto, libVars
  <2> QED
    BY <2>1, OutsideStep DEF Outside
<1>3. CASE DmaAllocFail(t)
  <2>1. Frame("idle")
    BY <1>0, <1>3 DEF DmaAllocFail, Goto, Return
  <2> QED
    BY <2>1, OutsideStep DEF Outside
<1>4. CASE \E bar \in Bars : MapBar(t, bar)
  <2>1. Frame("lock")
    BY <1>0, <1>4 DEF MapBar, Goto
  <2> QED
    BY <2>1, OutsideStep DEF Outside
<1>5. CASE \E o \in objs : KmemFree(t, o)
  <2>1. Frame("find")
    BY <1>0, <1>5 DEF KmemFree, Goto
  <2> QED
    BY <2>1, OutsideStep DEF Outside
<1>6. CASE FindEntry(t)
  <2>1. Frame("release")
    BY <1>0, <1>6 DEF FindEntry, Goto, libVars
  <2> QED
    BY <2>1, OutsideStep DEF Outside
<1>7. CASE Release(t)
  <2>1. Frame("oops") \/ Frame("unlink")
    BY <1>0, <1>7 DEF Release, Goto, libVars
  <2> QED
    BY <2>1, OutsideStep DEF Outside
<1>8. CASE Unlink(t)
  <2>1. Frame("oops") \/ Frame("idle")
    BY <1>0, <1>8 DEF Unlink, Goto, Return
  <2> QED
    BY <2>1, OutsideStep DEF Outside
<1> QED
  BY <1>1, <1>2, <1>3, <1>4, <1>5, <1>6, <1>7, <1>8
     DEF AllocSteps, FreeSteps

\* Two threads of one process are never both inside the mutex.
LEMMA Exclusion ==
    ASSUME Inv, OneDevice, NEW s \in Threads, NEW t \in Threads,
           pc[s] \in Inside, pc[t] \in Inside
    PROVE  s = t
BY DEF Inv, Good, OneDevice

\* Taking the mutex, setting the mode and the area.
LEMMA ModeStep ==
    ASSUME Inv, OneDevice, NEW t \in Threads,
           MmapLock(t) \/ MmapMode(t) \/ MmapArea(t)
    PROVE  Inv'
<1>0. call' = call /\ m_ptr' = m_ptr
  BY DEF MmapLock, MmapMode, MmapArea, libVars
<1>1. Types'
  BY <1>0, KmemAssumption
     DEF MmapLock, MmapMode, MmapArea, Goto, Inv, Types, Inside, Outside,
         Calls, modeVars
<1>2. ASSUME NEW s \in Threads, s # t PROVE Good(s)'
  <2>0. pc'[s] = pc[s]
    BY <1>2 DEF MmapLock, MmapMode, MmapArea, Goto, Inv, Types
  <2>1. CASE MmapLock(t)
    <3>1. pc[s] \notin Inside
      <4>1. mmap_mutex[ProcessOf[t]] = None /\ ProcessOf[s] = ProcessOf[t]
        BY <2>1 DEF MmapLock, OneDevice
      <4>2. pc[s] \in Inside => mmap_mutex[ProcessOf[s]] = s
        BY DEF Inv, Good
      <4>3. s # None
        BY KmemAssumption
      <4> QED
        BY <4>1, <4>2, <4>3, Zenon
    <3>2. mmap_mode' = mmap_mode /\ mmap_area' = mmap_area
      BY <2>1 DEF MmapLock, modeVars
    <3> QED
      BY <1>0, <2>0, <3>1, <3>2 DEF Inv, Good, Inside
  <2>2. CASE MmapMode(t) \/ MmapArea(t)
    <3>1. pc[s] \notin Inside
      BY <1>2, <2>2, Exclusion DEF MmapMode, MmapArea, Goto, Inside
    <3> QED
      BY <1>0, <2>0, <3>1 DEF Inv, Good, Inside
  <2> QED
    BY <2>1, <2>2
<1>3. Good(t)'
  <2>0. m_ptr[t] = None /\ ProcessOf[t] \in Processes
    BY KmemAssumption DEF MmapLock, MmapMode, MmapArea, Goto, Inv, Good
  <2>1. CASE MmapLock(t)
    <3>1. pc'[t] = "mode" /\ mmap_mutex'[ProcessOf[t]] = t
      BY <2>0, <2>1 DEF MmapLock, Goto, Inv, Types
    <3> QED
      BY <1>0, <2>0, <3>1 DEF Good
  <2>2. CASE MmapMode(t)
    <3>1. /\ pc'[t] = IF call[t].op = "bar" THEN "area" ELSE "mmap"
          /\ mmap_mutex'[ProcessOf[t]] = t
          /\ call[t].op = "bar" => mmap_mode' = "PCI"
      BY <2>2 DEF MmapMode, Goto, Inv, Types, Good, Inside
    <3> QED
      BY <1>0, <2>0, <3>1 DEF Good
  <2>3. CASE MmapArea(t)
    <3>1. /\ pc'[t] = "mmap" /\ mmap_mutex'[ProcessOf[t]] = t
          /\ mmap_mode' = mmap_mode /\ mmap_area' = call[t].bar
          /\ call[t].op = "bar" => mmap_mode = "PCI"
      BY <2>3 DEF MmapArea, Goto, Inv, Types, Good, Inside
    <3> QED
      BY <1>0, <2>0, <3>1 DEF Good
  <2> QED
    BY <2>1, <2>2, <2>3
<1> QED
  BY <1>1, <1>2, <1>3 DEF Inv

\* The mmap() itself, which reads mode and area.
LEMMA MapStep ==
    ASSUME Inv, NEW t \in Threads, MmapPci(t) \/ MmapKmem(t)
    PROVE  Inv'
<1>0. /\ call' = call /\ mmap_mutex' = mmap_mutex
      /\ mmap_mode' = mmap_mode /\ mmap_area' = mmap_area
      /\ pc[t] = "mmap" /\ m_ptr[t] = None
  BY DEF MmapPci, MmapKmem, Goto, libVars, modeVars, Inv, Good
<1>1. Types'
  BY <1>0 DEF MmapPci, MmapKmem, Goto, Inv, Types, Areas, Inside, libVars
<1>2. ASSUME NEW s \in Threads, s # t PROVE Good(s)'
  <2>1. pc'[s] = pc[s] /\ m_ptr'[s] = m_ptr[s]
    BY <1>2 DEF MmapPci, MmapKmem, Goto, libVars, Inv, Types
  <2> QED
    BY <1>0, <2>1 DEF Inv, Good
<1>3. Good(t)'
  <2>0. mmap_mutex'[ProcessOf[t]] = t
    BY <1>0 DEF Inv, Good, Inside
  <2>1. CASE MmapPci(t)
    <3>1. pc'[t] = "unlock"
      BY <2>1 DEF MmapPci, Goto, Inv, Types
    <3>2. m_ptr'[t] = None \/ m_ptr'[t] = [kind |-> "bar", at |-> mmap_area]
      BY <1>0, <2>1 DEF MmapPci, Inv, Types
    <3>3. call[t].op = "bar" => mmap_area = call[t].bar
      BY <1>0 DEF Inv, Good
    <3> QED
      BY <1>0, <2>0, <3>1, <3>2, <3>3 DEF Good
  <2>2. CASE MmapKmem(t)
    <3>1. call[t].op # "bar"
      BY <1>0, <2>2 DEF MmapKmem, Inv, Good
    <3>2. m_ptr'[t] = None
      BY <1>0, <2>2 DEF MmapKmem, libVars
    <3> QED
      BY <1>0, <2>0, <3>1, <3>2 DEF Good
  <2> QED
    BY <2>1, <2>2
<1> QED
  BY <1>1, <1>2, <1>3 DEF Inv

\* Mapping a buffer, and leaving the mutex.
LEMMA LeaveStep ==
    ASSUME Inv, OneDevice, NEW t \in Threads, Remap(t) \/ MmapUnlock(t)
    PROVE  Inv'
<1>0. /\ mmap_mode' = mmap_mode /\ mmap_area' = mmap_area
      /\ NoCall \in Calls /\ ProcessOf[t] \in Processes
  BY KmemAssumption DEF Remap, MmapUnlock, modeVars, Calls, NoCall
<1>1. CASE MmapUnlock(t)
  <2>1. Types'
    BY <1>0, <1>1 DEF MmapUnlock, Goto, Return, Inv, Types, Outside
  <2>2. ASSUME NEW s \in Threads, s # t PROVE Good(s)'
    <3>1. pc'[s] = pc[s] /\ m_ptr'[s] = m_ptr[s] /\ call'[s] = call[s]
      BY <1>1, <2>2 DEF MmapUnlock, Goto, Return, Inv, Types
    <3>2. pc[s] \notin Inside
      BY <1>1, <2>2, Exclusion DEF MmapUnlock, Goto, Inside
    <3> QED
      BY <1>0, <3>1, <3>2 DEF Inv, Good, Inside
  <2>3. Good(t)'
    <3>1. pc'[t] \in {"find", "idle"}
      BY <1>1 DEF MmapUnlock, Goto, Inv, Types
    <3>2. m_ptr'[t] = None
      BY <1>1 DEF MmapUnlock, Return, Inv, Types
    <3> QED
      BY <3>1, <3>2 DEF Good, Inside
  <2> QED
    BY <2>1, <2>2, <2>3 DEF Inv
<1>2. CASE Remap(t)
  <2>0. /\ pc[t] = "remap" /\ m_ptr[t] = None /\ call[t].op # "bar"
        /\ call' = call /\ mmap_mutex' = mmap_mutex
        /\ mmap_mutex[ProcessOf[t]] = t
    BY <1>2 DEF Remap, Goto, Inv, Good, Inside
  <2>1. CASE kmem_entry[t] \in freed
    <3>1. pc' = [pc EXCEPT ![t] = "oops"] /\ m_ptr' = m_ptr
      BY <1>2, <2>1 DEF Remap, Goto
    <3>2. call' \in [Threads -> Calls] /\ UNCHANGED <<modeVars, mmap_mutex>>
      BY <1>2, <2>0 DEF Remap, Inv, Types
    <3>3. "oops" \in Outside
      BY DEF Outside
    <3> QED
      BY <2>0, <3>1, <3>2, <3>3, OutsideStep
  <2>2. CASE kmem_entry[t] \notin freed
    <3>1. pc' = [pc EXCEPT ![t] = "unlock"]
      BY <1>2, <2>2 DEF Remap, Goto
    <3>2. m_ptr' = [s \in Threads |-> m_ptr'[s]]
      BY <1>2 DEF Remap, Inv, Types
    <3>3. Types'
      BY <1>0, <2>0, <3>1, <3>2 DEF Inv, Types, Inside
    <3>4. Good(t)'
      BY <2>0, <3>1 DEF Inv, Types, Good
    <3>5. ASSUME NEW s \in Threads, s # t PROVE Good(s)'
      <4>1. pc'[s] = pc[s] /\ m_ptr'[s] = m_ptr[s]
        BY <1>2, <3>1, <3>5 DEF Remap, Inv, Types
      <4> QED
        BY <1>0, <2>0, <4>1 DEF Inv, Good
    <3> QED
      BY <3>3, <3>4, <3>5 DEF Inv
  <2> QED
    BY <2>1, <2>2
<1> QED
  BY <1>1, <1>2

\* No step breaks the invariant.
LEMMA InvStep ==
    ASSUME OneDevice, Inv, [Next]_vars
    PROVE  Inv'
<1>1. CASE UNCHANGED vars
  <2>1. /\ mmap_mutex' = mmap_mutex /\ pc' = pc /\ call' = call
        /\ m_ptr' = m_ptr /\ mmap_mode' = mmap_mode /\ mmap_area' = mmap_area
    BY <1>1 DEF vars, libVars, modeVars
  <2> QED
    BY <2>1 DEF Inv, Types, Good
<1>2. ASSUME NEW t \in Threads,
             \/ AllocSteps(t)
             \/ \E bar \in Bars : MapBar(t, bar)
             \/ \E o \in objs : KmemFree(t, o)
             \/ FreeSteps(t)
      PROVE  Inv'
  BY <1>2, AllocStep
<1>3. ASSUME NEW t \in Threads, MmapSteps(t) PROVE Inv'
  BY <1>3, ModeStep, MapStep, LeaveStep DEF MmapSteps
<1> QED
  BY <1>1, <1>2, <1>3 DEF Next

\* Within one process, however many threads map BARs and buffers at a time,
\* mapBAR returns the BAR it was asked for.
THEOREM BarsCorrect ==
    ASSUME OneDevice
    PROVE  Spec => []BarMapped
<1>1. Inv /\ [Next]_vars => Inv'
  BY InvStep
<1>2. Inv => BarMapped
  BY DEF Inv, Good, BarMapped
<1> QED
  BY <1>1, <1>2, InitInv, PTL DEF Spec

-----------------------------------------------------------------------------
(***************************************************************************)
(* The buffers, for any number of processes as well: each DMA area has one *)
(* owner, an object or a call under way, and for each owner the list keeps *)
(* an entry with the owner's address that nobody is about to unlink.       *)
(***************************************************************************)

\* The ids in the driver's list.
Listed == {kmem_list[i] : i \in DOMAIN kmem_list}

\* Inside pcidriver_kmem_alloc, before the entry is in the list.
Pending(t) == pc[t] \in {"dma_alloc", "link"}

\* The driver's local entry was taken from the list.
Uses(t) == pc[t] \in {"remap", "release", "unlink"}

Mapping == {"lock", "mode", "area", "mmap", "remap", "unlock"}

\* The library call of t answers for the area of its handle.
Holds(t) == \/ pc[t] \in {"link", "find", "release"}
            \/ pc[t] \in Mapping /\ call[t].op # "bar"

\* Which call is where.
Placed == \A t \in Threads :
    /\ Pending(t) => call[t].op = "alloc"
    /\ pc[t] \in Mapping => call[t].op \in {"alloc", "bar"}

\* The list: no entry twice, none that was not given out, each with an area.
ListOK ==
    /\ \A i, j \in DOMAIN kmem_list : kmem_list[i] = kmem_list[j] => i = j
    /\ \A e \in Listed : e < kmem_count /\ dma_handle[e] \in Addrs

\* What a thread's local entry stands for.
EntryOK(t) ==
    /\ Pending(t) \/ Uses(t) => kmem_entry[t] \in Ids
                                /\ kmem_entry[t] < kmem_count
    /\ Pending(t) => kmem_entry[t] \notin Listed
    /\ Uses(t) => /\ dma_handle[kmem_entry[t]] \in Addrs
                  /\ kmem_entry[t] \in freed \cup Listed
    /\ pc[t] = "link" => /\ kh[t].id = kmem_entry[t]
                         /\ kh[t].pa = dma_handle[kmem_entry[t]]
                         /\ kh[t].pa \in Addrs
    /\ pc[t] \in {"release", "unlink"} =>
           dma_handle[kmem_entry[t]] = kh[t].pa

\* Nobody else has the entry of a thread that is allocating it.
Apart == \A s, t \in Threads : s # t /\ Pending(t) /\ (Pending(s) \/ Uses(s))
           => kmem_entry[s] # kmem_entry[t]

\* Every area has one owner, an object or a call, and is in use.
Owners ==
    /\ \A o \in objs : o.handle.pa \in dma
    /\ \A t \in Threads : Holds(t) => kh[t].pa \in dma
    /\ DistinctAreas
    /\ \A s, t \in Threads : s # t /\ Holds(s) /\ Holds(t)
         => kh[s].pa # kh[t].pa
    /\ \A t \in Threads, o \in objs : Holds(t) => kh[t].pa # o.handle.pa

\* For the area of every owner the list has an entry that nobody unlinks.
Backed(a) == \E e \in Listed :
    /\ dma_handle[e] = a
    /\ \A s \in Threads : pc[s] = "unlink" => kmem_entry[s] # e
AllBacked ==
    /\ \A o \in objs : Backed(o.handle.pa)
    /\ \A t \in Threads : Holds(t) /\ pc[t] # "link" => Backed(kh[t].pa)

Entries == Placed /\ ListOK /\ (\A t \in Threads : EntryOK(t)) /\ Apart
BufInv == TypeOK /\ Entries /\ Owners /\ AllBacked

Elsewhere(t) == \A s \in Threads : s # t =>
    /\ pc'[s] = pc[s] /\ call'[s] = call[s]
    /\ kmem_entry'[s] = kmem_entry[s] /\ kh'[s] = kh[s]

\* The steps that change neither the list, nor an entry, nor an owner.
Move(t) == \/ \E bar \in Bars : MapBar(t, bar)
           \/ MmapLock(t) \/ MmapMode(t) \/ MmapArea(t) \/ MmapPci(t)
           \/ Remap(t)
Step(t) == \/ AllocSteps(t) \/ Move(t) \/ MmapKmem(t) \/ MmapUnlock(t)
           \/ \E o \in objs : KmemFree(t, o)
           \/ FreeSteps(t)

\* What a step of the kind Move leaves alone.
Moved(t) ==
    /\ kmem_count' = kmem_count /\ kmem_list' = kmem_list
    /\ dma_handle' = dma_handle /\ freed' = freed /\ dma' = dma
    /\ kmem_entry' = kmem_entry /\ kh' = kh /\ objs' = objs
    /\ Elsewhere(t)
    /\ pc'[t] \in {"lock", "mode", "area", "mmap", "unlock", "oops"}
    /\ pc[t] \in {"idle", "lock", "mode", "area", "mmap", "remap"}
    /\ Holds(t)' => Holds(t)
    /\ pc'[t] # "oops" => Holds(t)' = Holds(t)

\* Initially no buffer exists and no call is under way.
LEMMA InitBuf == Init => BufInv
<1> SUFFICES ASSUME Init PROVE BufInv
  OBVIOUS
<1>0. Listed = {}
  BY DEF Init, Listed
<1>1. TypeOK
  <2>1. NoHandle \in Handles /\ NoCall \in Calls
    BY DEF NoHandle, Handles, NoCall, Calls
  <2> QED
    BY <2>1, KmemAssumption DEF Init, TypeOK
<1>2. \A t \in Threads : pc[t] = "idle"
  BY DEF Init
<1>3. Entries
  BY <1>0, <1>2 DEF Init, Entries, Placed, ListOK, EntryOK, Apart, Pending,
                    Uses, Mapping
<1>4. Owners /\ AllBacked
  BY <1>2 DEF Init, Owners, AllBacked, DistinctAreas, Holds, Mapping
<1> QED
  BY <1>1, <1>3, <1>4 DEF BufInv

\* A step of a thread leaves the locals of the others alone.
LEMMA OthersKept ==
    ASSUME TypeOK, NEW t \in Threads, Step(t)
    PROVE  Elsewhere(t)
<1> USE DEF TypeOK, Elsewhere, Goto
<1>1. CASE AllocSteps(t)
  BY <1>1 DEF AllocSteps, KmemAlloc, DmaAlloc, DmaAllocFail, Link, Return,
              libVars
<1>2. CASE Move(t)
  BY <1>2 DEF Move, MapBar, MmapLock, MmapMode, MmapArea, MmapPci, Remap,
              libVars
<1>3. CASE MmapKmem(t)
  BY <1>3 DEF MmapKmem, libVars
<1>4. CASE MmapUnlock(t)
  BY <1>4 DEF MmapUnlock, Return
<1>5. CASE \E o \in objs : KmemFree(t, o)
  BY <1>5 DEF KmemFree
<1>6. CASE FreeSteps(t)
  BY <1>6 DEF FreeSteps, FindEntry, Release, Unlink, Return, libVars
<1> QED
  BY <1>1, <1>2, <1>3, <1>4, <1>5, <1>6 DEF Step

\* The effect of the steps that change no buffer.
LEMMA MoveEffect ==
    ASSUME TypeOK, NEW t \in Threads, Move(t)
    PROVE  Moved(t)
<1>0. Elsewhere(t)
  BY OthersKept DEF Step
<1>1. /\ kmem_count' = kmem_count /\ kmem_list' = kmem_list
      /\ dma_handle' = dma_handle /\ freed' = freed /\ dma' = dma
      /\ kmem_entry' = kmem_entry /\ kh' = kh /\ objs' = objs
  BY DEF Move, MapBar, MmapLock, MmapMode, MmapArea, MmapPci, Remap, devVars,
         libVars
<1>2. CASE \E bar \in Bars : MapBar(t, bar)
  <2>1. pc[t] = "idle" /\ pc'[t] = "lock" /\ call'[t].op = "bar"
    BY <1>2 DEF MapBar, Goto, TypeOK
  <2> QED
    BY <1>0, <1>1, <2>1 DEF Moved, Holds, Mapping
<1>3. CASE MmapLock(t) \/ MmapMode(t) \/ MmapArea(t) \/ MmapPci(t) \/ Remap(t)
  <2>1. /\ pc[t] \in {"lock", "mode", "area", "mmap", "remap"}
        /\ pc'[t] \in {"mode", "area", "mmap", "unlock", "oops"}
        /\ call'[t] = call[t]
    BY <1>3 DEF MmapLock, MmapMode, MmapArea, MmapPci, Remap, Goto, TypeOK,
                libVars
  <2> QED
    BY <1>0, <1>1, <2>1 DEF Moved, Holds, Mapping
<1> QED
  BY <1>2, <1>3 DEF Move

\* The entry that is found is one of the list, and has the handle's address.
LEMMA FindEffect ==
    ASSUME TypeOK, NEW t \in Threads, FindEntry(t)
    PROVE  /\ pc[t] = "find" /\ pc'[t] = "release" /\ call' = call
           /\ kmem_count' = kmem_count /\ kmem_list' = kmem_list
           /\ dma_handle' = dma_handle /\ freed' = freed /\ dma' = dma
           /\ kh' = kh /\ objs' = objs
           /\ kmem_entry'[t] \in Listed
           /\ dma_handle[kmem_entry'[t]] = kh[t].pa
<1>1. PICK i \in DOMAIN kmem_list :
          /\ dma_handle[kmem_list[i]] = kh[t].pa
          /\ kmem_entry' = [kmem_entry EXCEPT ![t] = kmem_list[i]]
  BY DEF FindEntry, Matches
<1>2. kmem_entry'[t] = kmem_list[i]
  BY <1>1 DEF TypeOK
<1> QED
  BY <1>1, <1>2 DEF FindEntry, Goto, TypeOK, Listed, devVars, libVars

\* The place of an entry of the list, and its type.
LEMMA ListedIds ==
    ASSUME TypeOK
    PROVE  /\ Listed \subseteq Ids
           /\ DOMAIN kmem_list = 1 .. Len(kmem_list) /\ Len(kmem_list) \in Nat
BY DEF TypeOK, Listed

\* Two sequences one after the other.
LEMMA Joined ==
    ASSUME NEW S, NEW x \in Seq(S), NEW y \in Seq(S)
    PROVE  x \o y \in Seq(S) /\ Len(x \o y) = Len(x) + Len(y)
OBVIOUS

\* list_del takes its entry off the list, and no other.
LEMMA WithoutEffect ==
    ASSUME TypeOK, ListOK, NEW e \in Listed, NEW r, r = Without(e)
    PROVE  /\ r \in Seq(Ids)
           /\ {r[i] : i \in DOMAIN r} = Listed \ {e}
           /\ \A i, j \in DOMAIN r : r[i] = r[j] => i = j
<1> DEFINE p == CHOOSE i \in DOMAIN kmem_list : kmem_list[i] = e
<1>1. p \in DOMAIN kmem_list /\ kmem_list[p] = e
  BY DEF Listed
<1>2. r = SubSeq(kmem_list, 1, p - 1)
            \o SubSeq(kmem_list, p + 1, Len(kmem_list))
  BY DEF Without
<1> HIDE DEF p
<1>3. /\ kmem_list \in Seq(Ids) /\ Len(kmem_list) \in Nat
      /\ p \in 1 .. Len(kmem_list)
  BY <1>1 DEF TypeOK
<1>4. /\ SubSeq(kmem_list, 1, p - 1) \in Seq(Ids)
      /\ Len(SubSeq(kmem_list, 1, p - 1)) = p - 1
      /\ \A k \in 1 .. (p - 1) : SubSeq(kmem_list, 1, p - 1)[k] = kmem_list[k]
  BY <1>3
<1>5. /\ SubSeq(kmem_list, p + 1, Len(kmem_list)) \in Seq(Ids)
      /\ Len(SubSeq(kmem_list, p + 1, Len(kmem_list))) = Len(kmem_list) - p
      /\ \A k \in 1 .. (Len(kmem_list) - p) :
            SubSeq(kmem_list, p + 1, Len(kmem_list))[k] = kmem_list[p + k]
  BY <1>3
<1>6. /\ r \in Seq(Ids) /\ Len(r) = Len(kmem_list) - 1
      /\ DOMAIN r = 1 .. (Len(kmem_list) - 1)
  <2>1. r \in Seq(Ids) /\ Len(r) = (p - 1) + (Len(kmem_list) - p)
    BY <1>2, <1>4, <1>5, Joined
  <2>2. (p - 1) + (Len(kmem_list) - p) = Len(kmem_list) - 1
    BY <1>3
  <2>3. DOMAIN r = 1 .. Len(r)
    BY <2>1
  <2> QED
    BY <2>1, <2>2, <2>3
<1>7. \A k \in DOMAIN r : r[k] = IF k < p THEN kmem_list[k]
                                 ELSE kmem_list[k + 1]
  <2> SUFFICES ASSUME NEW k \in DOMAIN r
               PROVE  r[k] = IF k < p THEN kmem_list[k] ELSE kmem_list[k + 1]
    OBVIOUS
  <2>0. k \in 1 .. (Len(kmem_list) - 1)
    BY <1>6
  <2>1. CASE k < p
    BY <1>2, <1>3, <1>4, <1>5, <2>0, <2>1
  <2>2. CASE ~(k < p)
    <3>1. r[k] = SubSeq(kmem_list, p + 1, Len(kmem_list))[k - (p - 1)]
      BY <1>2, <1>3, <1>4, <1>5, <2>0, <2>2
    <3>2. k - (p - 1) \in 1 .. (Len(kmem_list) - p) /\ p + (k - (p - 1)) = k + 1
      BY <1>3, <2>0, <2>2
    <3> QED
      BY <1>5, <2>2, <3>1, <3>2
  <2> QED
    BY <2>1, <2>2
<1>8. \A i, j \in 1 .. Len(kmem_list) : kmem_list[i] = kmem_list[j] => i = j
  BY <1>3 DEF ListOK
<1>9. \A i, j \in DOMAIN r : r[i] = r[j] => i = j
  BY <1>3, <1>6, <1>7, <1>8
<1>10. ASSUME NEW k \in DOMAIN r PROVE r[k] \in Listed \ {e}
  BY <1>1, <1>3, <1>6, <1>7, <1>8, <1>10 DEF Listed
<1>11. ASSUME NEW d \in Listed \ {e} PROVE \E k \in DOMAIN r : r[k] = d
  <2>1. PICK i \in 1 .. Len(kmem_list) : kmem_list[i] = d
    BY <1>3 DEF Listed
  <2>2. i # p
    BY <1>1, <2>1
  <2>3. CASE i < p
    BY <1>3, <1>6, <1>7, <2>1, <2>3
  <2>4. CASE i > p
    <3>1. i - 1 \in DOMAIN r /\ ~(i - 1 < p) /\ i - 1 + 1 = i
      BY <1>3, <1>6, <2>1, <2>4
    <3> QED
      BY <1>7, <2>1, <3>1
  <2> QED
    BY <1>3, <2>1, <2>2, <2>3, <2>4
<1> QED
  BY <1>6, <1>9, <1>10, <1>11

\* What the last step of a free does.
LEMMA UnlinkEffect ==
    ASSUME TypeOK, Entries, NEW t \in Threads, Unlink(t)
    PROVE  /\ pc[t] = "unlink" /\ pc'[t] \in {"idle", "oops"}
           /\ kmem_count' = kmem_count /\ dma_handle' = dma_handle
           /\ dma' = dma /\ kmem_entry' = kmem_entry /\ objs' = objs
           /\ freed' = freed \cup {kmem_entry[t]}
           /\ kmem_entry[t] \in freed =>
                  pc'[t] = "oops" /\ kmem_list' = kmem_list
           /\ kmem_entry[t] \notin freed =>
                  /\ pc'[t] = "idle"
                  /\ kmem_entry[t] \in Listed
                  /\ kmem_list' \in Seq(Ids)
                  /\ Listed' = Listed \ {kmem_entry[t]}
                  /\ \A i, j \in DOMAIN kmem_list' :
                        kmem_list'[i] = kmem_list'[j] => i = j
<1>1. /\ pc[t] = "unlink"
      /\ kmem_count' = kmem_count /\ dma_handle' = dma_handle
      /\ dma' = dma /\ kmem_entry' = kmem_entry /\ objs' = objs
      /\ freed' = freed \cup {kmem_entry[t]}
      /\ pc'[t] = IF kmem_entry[t] \in freed THEN "oops" ELSE "idle"
      /\ kmem_list' = IF kmem_entry[t] \in freed THEN kmem_list
                      ELSE Without(kmem_entry[t])
  BY DEF Unlink, Goto, TypeOK
<1>2. CASE kmem_entry[t] \in freed
  BY <1>1, <1>2
<1>3. CASE kmem_entry[t] \notin freed
  <2>1. kmem_entry[t] \in Listed /\ ListOK
    BY <1>1, <1>3 DEF Entries, EntryOK, Uses
  <2>2. PICK e \in Listed : e = kmem_entry[t]
    BY <2>1
  <2>3. PICK r : r = Without(e)
    OBVIOUS
  <2>4. kmem_list' = r
    BY <1>1, <1>3, <2>2, <2>3
  <2>5. /\ r \in Seq(Ids)
        /\ {r[i] : i \in DOMAIN r} = Listed \ {e}
        /\ \A i, j \in DOMAIN r : r[i] = r[j] => i = j
    BY <2>1, <2>3, WithoutEffect
  <2>6. Listed' = Listed \ {e}
    BY <2>4, <2>5 DEF Listed
  <2> QED
    BY <1>1, <1>3, <2>1, <2>2, <2>4, <2>5, <2>6
<1> QED
  BY <1>2, <1>3

\* The types of the entries, handles and records that a step writes.
LEMMA TypesStep ==
    ASSUME TypeOK, Entries, NEW t \in Threads, Step(t)
    PROVE  TypeOK'
<1>0. /\ NoHandle \in Handles /\ NoCall \in Calls
      /\ [op |-> "alloc", bar |-> 0] \in Calls
      /\ [op |-> "free", bar |-> 0] \in Calls
      /\ \A bar \in Bars : [op |-> "bar", bar |-> bar] \in Calls
      /\ \A bar \in Bars : [kind |-> "bar", at |-> bar] \in Areas
      /\ \A a \in Addrs : [kind |-> "kmem", at |-> a] \in Areas
      /\ \A i \in Ids, a \in Addrs : [id |-> i, pa |-> a] \in Handles
  BY DEF NoHandle, Handles, NoCall, Calls, Areas
<1>a. ASSUME NEW c \in Calls PROVE c.bar \in Bars
  BY KmemAssumption DEF Calls
<1>b. /\ pc[t] \in {"dma_alloc", "link", "remap", "release", "unlink"} =>
             kmem_entry[t] \in Ids
      /\ pc[t] = "remap" => dma_handle[kmem_entry[t]] \in Addrs
  BY DEF Entries, EntryOK, Pending, Uses
<1>c. /\ Listed \subseteq Ids
      /\ DOMAIN kmem_list = 1 .. Len(kmem_list) /\ Len(kmem_list) \in Nat
  BY ListedIds
<1>1. CASE KmemAlloc(t)
  <2>1. kmem_count \in Ids /\ kmem_count + 1 \in 0 .. MaxAllocs
    BY <1>1, KmemAssumption DEF KmemAlloc, TypeOK, Ids
  <2> QED
    BY <1>0, <1>1, <2>1 DEF KmemAlloc, Goto, TypeOK, modeVars
<1>2. CASE DmaAlloc(t)
  BY <1>0, <1>2, <1>b DEF DmaAlloc, Goto, TypeOK, modeVars
<1>3. CASE DmaAllocFail(t)
  BY <1>0, <1>3, <1>b DEF DmaAllocFail, Goto, TypeOK, modeVars, Return
<1>4. CASE Link(t)
  BY <1>0, <1>4, <1>b DEF Link, Goto, TypeOK, modeVars, libVars
<1>5. CASE Move(t)
  <2>1. CASE \E bar \in Bars : MapBar(t, bar)
    BY <1>0, <2>1 DEF MapBar, Goto, TypeOK, modeVars, devVars
  <2>2. CASE MmapLock(t)
    BY <2>2, KmemAssumption DEF MmapLock, Goto, TypeOK, modeVars, devVars,
                                libVars
  <2>3. CASE MmapMode(t)
    BY <2>3 DEF MmapMode, Goto, TypeOK, devVars, libVars
  <2>4. CASE MmapArea(t)
    <3>1. call[t].bar \in Bars
      BY <1>a DEF TypeOK
    <3> QED
      BY <2>4, <3>1 DEF MmapArea, Goto, TypeOK, devVars, libVars
  <2>5. CASE MmapPci(t)
    BY <1>0, <2>5 DEF MmapPci, Goto, TypeOK, devVars, modeVars
  <2>6. CASE Remap(t)
    BY <1>0, <1>b, <2>6 DEF Remap, Goto, TypeOK, devVars, modeVars
  <2> QED
    BY <1>5, <2>1, <2>2, <2>3, <2>4, <2>5, <2>6 DEF Move
<1>6. CASE MmapKmem(t)
  <2>1. kmem_entry' \in [Threads -> Ids \cup {None}]
    <3>1. CASE kmem_list = <<>>
      BY <1>6, <3>1 DEF MmapKmem, TypeOK
    <3>2. CASE kmem_list # <<>>
      <4>1. kmem_list[Len(kmem_list)] \in Ids
        BY <3>2 DEF TypeOK
      <4> QED
        BY <1>6, <3>2, <4>1 DEF MmapKmem, TypeOK
    <3> QED
      BY <3>1, <3>2
  <2> QED
    BY <1>6, <2>1 DEF MmapKmem, Goto, TypeOK, devVars, modeVars, libVars
<1>7. CASE MmapUnlock(t)
  <2>1. objs' \subseteq [handle : Handles, mem : Areas]
    <3>1. m_ptr[t] # None =>
              [handle |-> kh[t], mem |-> m_ptr[t]]
                \in [handle : Handles, mem : Areas]
      BY DEF TypeOK
    <3> QED
      BY <1>7, <3>1 DEF MmapUnlock, TypeOK
  <2>2. /\ call' \in [Threads -> Calls] /\ kh' \in [Threads -> Handles]
        /\ m_ptr' \in [Threads -> Areas \cup {None}]
    <3>1. Return(t) \/ (call' = call /\ kh' = kh /\ m_ptr' = m_ptr)
      BY <1>7 DEF MmapUnlock
    <3> QED
      BY <1>0, <3>1, SMTT(40) DEF Return, TypeOK
  <2>3. /\ pc' = [pc EXCEPT ![t] = "find"] \/ pc' = [pc EXCEPT ![t] = "idle"]
        /\ mmap_mutex' = [mmap_mutex EXCEPT ![ProcessOf[t]] = None]
        /\ UNCHANGED <<kmem_count, kmem_list, dma_handle, freed, dma,
                       mmap_mode, mmap_area, kmem_entry>>
    BY <1>7 DEF MmapUnlock, Goto, devVars, modeVars
  <2> QED
    BY <2>1, <2>2, <2>3, KmemAssumption DEF TypeOK
<1>8. CASE \E o \in objs : KmemFree(t, o)
  <2>1. \A o \in objs : o.handle \in Handles
    BY DEF TypeOK
  <2> QED
    BY <1>0, <1>8, <2>1 DEF KmemFree, Goto, TypeOK, devVars, modeVars
<1>9. CASE FindEntry(t)
  <2>1. kmem_entry' \in [Threads -> Ids \cup {None}]
    BY <1>9, <1>c DEF FindEntry, TypeOK
  <2> QED
    BY <1>9, <2>1 DEF FindEntry, Goto, TypeOK, devVars, modeVars, libVars
<1>10. CASE Release(t)
  BY <1>10 DEF Release, Goto, TypeOK, modeVars, libVars
<1>11. CASE Unlink(t)
  <2>1. kmem_list' \in Seq(Ids)
    BY <1>11, UnlinkEffect DEF TypeOK
  <2>2. kmem_entry[t] \in Ids
    BY <1>11, <1>b DEF Unlink, Goto
  <2> QED
    BY <1>0, <1>11, <2>1, <2>2 DEF Unlink, Goto, TypeOK, modeVars, Return
<1> QED
  BY <1>1, <1>2, <1>3, <1>4, <1>5, <1>6, <1>7, <1>8, <1>9, <1>10, <1>11
     DEF Step, AllocSteps, FreeSteps

\* A thread allocates and maps in the calls that do so.
LEMMA PlacedStep ==
    ASSUME TypeOK, Entries, NEW t \in Threads, Step(t)
    PROVE  Placed'
<1> SUFFICES ASSUME NEW s \in Threads
             PROVE  /\ Pending(s)' => call'[s].op = "alloc"
                    /\ pc'[s] \in Mapping => call'[s].op \in {"alloc", "bar"}
  BY DEF Placed
<1>0. /\ Pending(s) => call[s].op = "alloc"
      /\ pc[s] \in Mapping => call[s].op \in {"alloc", "bar"}
  BY DEF Entries, Placed
<1>1. CASE s # t
  BY <1>0, <1>1, OthersKept DEF Elsewhere, Pending
<1>2. CASE s = t
  <2> USE DEF Goto, TypeOK, Pending, Mapping
  <2>1. CASE AllocSteps(t)
    BY <1>0, <1>2, <2>1 DEF AllocSteps, KmemAlloc, DmaAlloc, DmaAllocFail,
                            Link, libVars
  <2>2. CASE Move(t)
    BY <1>0, <1>2, <2>2 DEF Move, MapBar, MmapLock, MmapMode, MmapArea,
                            MmapPci, Remap, libVars
  <2>3. CASE MmapKmem(t)
    BY <1>0, <1>2, <2>3 DEF MmapKmem, libVars
  <2>4. CASE MmapUnlock(t)
    BY <1>2, <2>4 DEF MmapUnlock
  <2>5. CASE \E o \in objs : KmemFree(t, o)
    BY <1>2, <2>5 DEF KmemFree
  <2>6. CASE FreeSteps(t)
    BY <1>2, <2>6 DEF FreeSteps, FindEntry, Release, Unlink
  <2> QED
    BY <2>1, <2>2, <2>3, <2>4, <2>5, <2>6 DEF Step
<1> QED
  BY <1>1, <1>2

\* What a step of t may do to the driver's list and entries.
Around(t) ==
    /\ kmem_count' >= kmem_count
    /\ Listed \subseteq Listed' \cup freed' /\ freed \subseteq freed'
    /\ \A e \in Listed' : \/ e \in Listed
                          \/ pc[t] = "link" /\ e = kmem_entry[t]
    /\ \A e \in Listed : \/ e \in Listed'
                         \/ pc[t] = "unlink" /\ e = kmem_entry[t]
    /\ \A e \in Ids : \/ dma_handle'[e] = dma_handle[e]
                      \/ pc[t] = "dma_alloc" /\ e = kmem_entry[t]
    /\ \A i, j \in DOMAIN kmem_list' : kmem_list'[i] = kmem_list'[j] => i = j

\* Only Link adds to the list, Unlink takes off, DmaAlloc writes an address.
LEMMA AroundStep ==
    ASSUME TypeOK, Entries, NEW t \in Threads, Step(t)
    PROVE  Around(t)
<1>0. kmem_count \in Nat
  BY KmemAssumption DEF TypeOK
<1>a. \A i, j \in DOMAIN kmem_list : kmem_list[i] = kmem_list[j] => i = j
  BY DEF Entries, ListOK
<1>1. CASE KmemAlloc(t)
  <2>1. /\ kmem_count' = kmem_count + 1 /\ kmem_list' = kmem_list
        /\ dma_handle' = dma_handle /\ freed' = freed
    BY <1>1 DEF KmemAlloc
  <2> QED
    BY <1>0, <1>a, <2>1 DEF Around, Listed
<1>2. CASE DmaAlloc(t)
  <2>1. PICK a \in Addrs :
            dma_handle' = [dma_handle EXCEPT ![kmem_entry[t]] = a]
    BY <1>2 DEF DmaAlloc
  <2>2. /\ kmem_count' = kmem_count /\ kmem_list' = kmem_list
        /\ freed' = freed /\ pc[t] = "dma_alloc"
    BY <1>2 DEF DmaAlloc, Goto
  <2>3. \A e \in Ids : dma_handle'[e] = dma_handle[e] \/ e = kmem_entry[t]
    BY <2>1 DEF TypeOK
  <2> QED
    BY <1>0, <1>a, <2>2, <2>3 DEF Around, Listed
<1>3. CASE DmaAllocFail(t)
  <2>1. /\ kmem_count' = kmem_count /\ kmem_list' = kmem_list
        /\ dma_handle' = dma_handle /\ freed \subseteq freed'
    BY <1>3 DEF DmaAllocFail
  <2> QED
    BY <1>0, <1>a, <2>1 DEF Around, Listed
<1>4. CASE Link(t)
  <2>1. /\ kmem_count' = kmem_count
        /\ kmem_list' = Append(kmem_list, kmem_entry[t])
        /\ dma_handle' = dma_handle /\ freed' = freed /\ pc[t] = "link"
    BY <1>4 DEF Link, Goto
  <2>2. kmem_list \in Seq(Ids) /\ kmem_entry[t] \in Ids
    BY <2>1 DEF TypeOK, Entries, EntryOK, Pending
  <2>3. kmem_entry[t] \notin Listed
    BY <2>1 DEF Entries, EntryOK, Pending
  <2>4. PICK n \in Nat : n = Len(kmem_list)
    BY <2>2
  <2>5. /\ DOMAIN kmem_list = 1 .. n /\ DOMAIN kmem_list' = 1 .. (n + 1)
        /\ \A i \in 1 .. n : kmem_list'[i] = kmem_list[i]
        /\ kmem_list'[n + 1] = kmem_entry[t]
    BY <2>1, <2>2, <2>4
  <2>6. Listed' = Listed \cup {kmem_entry[t]}
    <3>1. \A i \in 1 .. (n + 1) : i \in 1 .. n \/ i = n + 1
      BY <2>4
    <3>2. \A i \in 1 .. n : i \in 1 .. (n + 1)
      BY <2>4
    <3>3. n + 1 \in 1 .. (n + 1)
      BY <2>4
    <3> QED
      BY <2>5, <3>1, <3>2, <3>3 DEF Listed
  <2>7. \A i, j \in DOMAIN kmem_list' : kmem_list'[i] = kmem_list'[j] => i = j
    <3>1. \A i \in 1 .. n : kmem_list[i] \in Listed
      BY <2>5 DEF Listed
    <3> QED
      BY <1>a, <2>3, <2>4, <2>5, <3>1
  <2> QED
    BY <1>0, <2>1, <2>6, <2>7 DEF Around
<1>5. CASE Move(t)
  BY <1>0, <1>5, <1>a, MoveEffect DEF Around, Moved, Listed
<1>6. CASE MmapKmem(t) \/ MmapUnlock(t) \/ (\E o \in objs : KmemFree(t, o))
           \/ FindEntry(t) \/ Release(t)
  <2>1. /\ kmem_count' = kmem_count /\ kmem_list' = kmem_list
        /\ dma_handle' = dma_handle /\ freed' = freed
    BY <1>6 DEF MmapKmem, MmapUnlock, KmemFree, FindEntry, Release, devVars
  <2> QED
    BY <1>0, <1>a, <2>1 DEF Around, Listed
<1>7. CASE Unlink(t)
  <2>1. /\ kmem_count' = kmem_count /\ dma_handle' = dma_handle
        /\ freed' = freed \cup {kmem_entry[t]}
    BY <1>7, UnlinkEffect
  <2>2. CASE kmem_entry[t] \in freed
    <3>1. kmem_list' = kmem_list
      BY <1>7, <2>2, UnlinkEffect
    <3> QED
      BY <1>0, <1>a, <2>1, <3>1 DEF Around, Listed
  <2>3. CASE kmem_entry[t] \notin freed
    <3>1. /\ pc[t] = "unlink"
          /\ Listed' = Listed \ {kmem_entry[t]}
          /\ \A i, j \in DOMAIN kmem_list' :
                kmem_list'[i] = kmem_list'[j] => i = j
      BY <1>7, <2>3, UnlinkEffect
    <3> QED
      BY <1>0, <2>1, <3>1 DEF Around
  <2> QED
    BY <2>2, <2>3
<1> QED
  BY <1>1, <1>2, <1>3, <1>4, <1>5, <1>6, <1>7 DEF Step, AllocSteps, FreeSteps

\* An entry keeps its address and its standing while others run.
LEMMA EntryElsewhere ==
    ASSUME TypeOK, Entries, NEW t \in Threads, Step(t), NEW s \in Threads, s # t
    PROVE  EntryOK(s)'
<1>0. Around(t)
  BY AroundStep
<1>1. /\ pc'[s] = pc[s] /\ kmem_entry'[s] = kmem_entry[s] /\ kh'[s] = kh[s]
      /\ Pending(s)' = Pending(s) /\ Uses(s)' = Uses(s)
  BY OthersKept DEF Elsewhere, Pending, Uses
<1>2. EntryOK(s) /\ EntryOK(t)
  BY DEF Entries
<1>3. Pending(s) \/ Uses(s) =>
          /\ kmem_entry[s] \in Ids
          /\ pc[t] \in {"link", "dma_alloc"} => kmem_entry[s] # kmem_entry[t]
  BY <1>2 DEF EntryOK, Entries, Apart, Pending
<1>4. Pending(s) \/ Uses(s) => kmem_entry[s] < kmem_count'
  <2>1. kmem_count \in Int /\ kmem_count' \in Int
    BY TypesStep, KmemAssumption DEF TypeOK
  <2>2. kmem_entry[s] \in Ids => kmem_entry[s] \in Int
    BY KmemAssumption DEF Ids
  <2> QED
    BY <1>0, <1>2, <2>1, <2>2 DEF Around, EntryOK
<1>5. Pending(s) \/ Uses(s) =>
          dma_handle'[kmem_entry[s]] = dma_handle[kmem_entry[s]]
  BY <1>0, <1>3 DEF Around
<1>6. Pending(s) => kmem_entry[s] \notin Listed'
  BY <1>0, <1>2, <1>3 DEF Around, EntryOK
<1>7. Uses(s) => kmem_entry[s] \in freed' \cup Listed'
  BY <1>0, <1>2 DEF Around, EntryOK
<1>8. /\ pc[s] = "link" => Pending(s)
      /\ pc[s] \in {"release", "unlink"} => Uses(s)
  BY DEF Pending, Uses
<1>9. /\ (Pending(s) \/ Uses(s))' => /\ kmem_entry'[s] \in Ids
                                     /\ kmem_entry'[s] < kmem_count'
      /\ Pending(s)' => kmem_entry'[s] \notin Listed'
  BY <1>1, <1>3, <1>4, <1>6
<1>10. Uses(s)' => /\ dma_handle'[kmem_entry'[s]] \in Addrs
                   /\ kmem_entry'[s] \in freed' \cup Listed'
  BY <1>1, <1>2, <1>5, <1>7 DEF EntryOK
<1>11. /\ pc'[s] = "link" => /\ kh'[s].id = kmem_entry'[s]
                             /\ kh'[s].pa = dma_handle'[kmem_entry'[s]]
                             /\ kh'[s].pa \in Addrs
       /\ pc'[s] \in {"release", "unlink"} =>
             dma_handle'[kmem_entry'[s]] = kh'[s].pa
  BY <1>1, <1>2, <1>5, <1>8 DEF EntryOK
<1> QED
  BY <1>9, <1>10, <1>11 DEF EntryOK

\* The local entry of the thread that steps.
LEMMA EntryHere ==
    ASSUME TypeOK, Entries, NEW t \in Threads, Step(t)
    PROVE  EntryOK(t)' /\ \A s \in Threads : s # t =>
               /\ Pending(t)' /\ (Pending(s) \/ Uses(s))'
                    => kmem_entry'[s] # kmem_entry'[t]
               /\ Pending(s)' /\ (Pending(t) \/ Uses(t))'
                    => kmem_entry'[s] # kmem_entry'[t]
<1>a. \A s \in Threads : s # t =>
          /\ kmem_entry'[s] = kmem_entry[s] /\ pc'[s] = pc[s]
          /\ Pending(s)' = Pending(s) /\ Uses(s)' = Uses(s)
  BY OthersKept DEF Elsewhere, Pending, Uses
<1>b. \A s \in Threads : EntryOK(s)
  BY DEF Entries
<1>c. /\ Listed \subseteq Ids /\ \A i \in Ids : i \in Int
      /\ kmem_count \in Int
  BY ListedIds, KmemAssumption DEF Ids, TypeOK
<1>d. \A e \in Listed : e < kmem_count /\ dma_handle[e] \in Addrs
  BY DEF Entries, ListOK
<1>1. CASE KmemAlloc(t)
  <2>1. /\ pc'[t] = "dma_alloc" /\ kmem_entry'[t] = kmem_count
        /\ kmem_count' = kmem_count + 1 /\ kmem_list' = kmem_list
        /\ kmem_count \in Ids
    BY <1>1, <1>c, KmemAssumption DEF KmemAlloc, Goto, TypeOK, Ids
  <2>2. Listed' = Listed
    BY <2>1 DEF Listed
  <2>3. kmem_count \notin Listed
    BY <1>c, <1>d
  <2>4. EntryOK(t)'
    BY <1>c, <2>1, <2>2, <2>3 DEF EntryOK, Pending, Uses
  <2>5. \A s \in Threads : s # t /\ (Pending(s) \/ Uses(s)) =>
            kmem_entry[s] # kmem_count
    BY <1>b, <1>c DEF EntryOK
  <2> QED
    BY <1>a, <2>1, <2>4, <2>5
<1>2. CASE DmaAlloc(t)
  <2>1. PICK a \in Addrs :
            /\ dma_handle' = [dma_handle EXCEPT ![kmem_entry[t]] = a]
            /\ kh' = [kh EXCEPT ![t] = [id |-> kmem_entry[t], pa |-> a]]
    BY <1>2 DEF DmaAlloc
  <2>2. /\ pc[t] = "dma_alloc" /\ pc'[t] = "link" /\ kmem_entry' = kmem_entry
        /\ kmem_count' = kmem_count /\ kmem_list' = kmem_list
    BY <1>2 DEF DmaAlloc, Goto, TypeOK
  <2>3. /\ kmem_entry[t] \in Ids /\ kmem_entry[t] < kmem_count
        /\ kmem_entry[t] \notin Listed
    BY <1>b, <2>2 DEF EntryOK, Pending
  <2>4. /\ dma_handle'[kmem_entry[t]] = a /\ kh'[t].id = kmem_entry[t]
        /\ kh'[t].pa = a
    BY <2>1, <2>3 DEF TypeOK
  <2>5. Listed' = Listed
    BY <2>2 DEF Listed
  <2>6. EntryOK(t)'
    BY <2>2, <2>3, <2>4, <2>5 DEF EntryOK, Pending, Uses
  <2> QED
    BY <1>a, <2>2, <2>6 DEF Entries, Apart, Pending
<1>3. CASE /\ ~Pending(t)' /\ ~Uses(t)'
  BY <1>3 DEF EntryOK, Pending, Uses
<1>4. CASE /\ kmem_entry'[t] \in Listed /\ kmem_list' = kmem_list
           /\ dma_handle' = dma_handle /\ kmem_count' = kmem_count
           /\ pc'[t] \in {"remap", "release"}
           /\ pc'[t] = "release" => dma_handle[kmem_entry'[t]] = kh'[t].pa
  <2>1. Listed' = Listed
    BY <1>4 DEF Listed
  <2>2. ~Pending(t)' /\ Uses(t)'
    BY <1>4 DEF Pending, Uses
  <2>3. EntryOK(t)'
    BY <1>4, <1>c, <1>d, <2>1, <2>2 DEF EntryOK
  <2>4. \A s \in Threads : Pending(s) => kmem_entry[s] \notin Listed
    BY <1>b DEF EntryOK
  <2> QED
    BY <1>4, <1>a, <2>2, <2>3, <2>4
<1>5. CASE MmapKmem(t)
  <2>1. CASE kmem_list = <<>>
    BY <1>3, <1>5, <2>1 DEF MmapKmem, Goto, TypeOK, Pending, Uses
  <2>2. CASE kmem_list # <<>>
    <3>1. Len(kmem_list) \in DOMAIN kmem_list
      BY <2>2 DEF TypeOK
    <3>2. /\ kmem_entry'[t] = kmem_list[Len(kmem_list)]
          /\ pc'[t] = "remap"
      BY <1>5, <2>2 DEF MmapKmem, Goto, TypeOK
    <3>3. /\ kmem_list' = kmem_list /\ dma_handle' = dma_handle
          /\ kmem_count' = kmem_count
      BY <1>5 DEF MmapKmem, devVars
    <3> QED
      BY <1>4, <3>1, <3>2, <3>3 DEF Listed
  <2> QED
    BY <2>1, <2>2
<1>6. CASE FindEntry(t)
  BY <1>4, <1>6, FindEffect
<1>7. CASE Release(t)
  <2>1. /\ pc[t] = "release" /\ pc'[t] \in {"oops", "unlink"}
        /\ kmem_entry' = kmem_entry /\ kmem_count' = kmem_count
        /\ kmem_list' = kmem_list /\ dma_handle' = dma_handle
        /\ freed' = freed /\ kh' = kh
    BY <1>7 DEF Release, Goto, TypeOK, libVars
  <2>2. Listed' = Listed
    BY <2>1 DEF Listed
  <2>3. EntryOK(t)'
    BY <1>b, <2>1, <2>2 DEF EntryOK, Pending, Uses
  <2>4. ~Pending(t)' /\ Uses(t)
    BY <2>1 DEF Pending, Uses
  <2> QED
    BY <1>a, <2>1, <2>3, <2>4 DEF Entries, Apart
<1>8. CASE Unlink(t)
  BY <1>3, <1>8, UnlinkEffect DEF Pending, Uses
<1>9. CASE Move(t)
  BY <1>3, <1>9, MoveEffect DEF Moved, Pending, Uses
<1>10. CASE DmaAllocFail(t) \/ Link(t) \/ MmapUnlock(t)
            \/ (\E o \in objs : KmemFree(t, o))
  <2>1. pc'[t] \in {"idle", "lock", "find"}
    BY <1>10 DEF DmaAllocFail, Link, MmapUnlock, KmemFree, Goto, TypeOK
  <2> QED
    BY <1>3, <2>1 DEF Pending, Uses
<1> QED
  BY <1>1, <1>2, <1>5, <1>6, <1>7, <1>8, <1>9, <1>10
     DEF Step, AllocSteps, FreeSteps

\* The list and the entries stay in order.
LEMMA EntriesStep ==
    ASSUME TypeOK, Entries, NEW t \in Threads, Step(t)
    PROVE  Entries'
<1>1. Placed'
  BY PlacedStep
<1>2. \A s \in Threads : EntryOK(s)'
  BY EntryElsewhere, EntryHere
<1>3. Apart'
  <2> SUFFICES ASSUME NEW s \in Threads, NEW u \in Threads, s # u,
                      Pending(u)', (Pending(s) \/ Uses(s))'
               PROVE  kmem_entry'[s] # kmem_entry'[u]
    BY DEF Apart
  <2>1. CASE s # t /\ u # t
    <3>1. Pending(u) /\ (Pending(s) \/ Uses(s))
          /\ kmem_entry'[s] = kmem_entry[s] /\ kmem_entry'[u] = kmem_entry[u]
      BY <2>1, OthersKept DEF Elsewhere, Pending, Uses
    <3> QED
      BY <3>1 DEF Entries, Apart
  <2>2. CASE s = t \/ u = t
    BY <2>2, EntryHere
  <2> QED
    BY <2>1, <2>2
<1>4. ListOK'
  <2>0. Around(t)
    BY AroundStep
  <2>1. ASSUME NEW e \in Listed' PROVE e < kmem_count' /\ dma_handle'[e] \in Addrs
    <3>0. /\ kmem_count \in Int /\ kmem_count' \in Int /\ Listed \subseteq Ids
          /\ Ids \subseteq Int
      BY TypesStep, ListedIds, KmemAssumption DEF TypeOK, Ids
    <3>1. CASE e \in Listed
      <4>1. e \in Ids /\ e < kmem_count /\ dma_handle[e] \in Addrs
        BY <3>0, <3>1 DEF Entries, ListOK
      <4>2. pc[t] = "dma_alloc" => e # kmem_entry[t]
        BY <3>1 DEF Entries, EntryOK, Pending
      <4>3. dma_handle'[e] = dma_handle[e] /\ kmem_count' >= kmem_count
        BY <2>0, <4>1, <4>2 DEF Around
      <4>4. e \in Int
        BY <3>0, <4>1
      <4> QED
        BY <3>0, <4>1, <4>3, <4>4
    <3>2. CASE pc[t] = "link" /\ e = kmem_entry[t]
      <4>1. /\ e \in Ids /\ e < kmem_count
            /\ dma_handle'[e] = dma_handle[e] /\ dma_handle[e] = kh[t].pa
        BY <2>0, <3>2 DEF Around, Entries, EntryOK, Pending
      <4>2. kh[t].pa \in Addrs
        BY <3>2 DEF Entries, EntryOK
      <4>3. e \in Int /\ kmem_count' >= kmem_count
        BY <2>0, <3>0, <4>1 DEF Around
      <4> QED
        BY <3>0, <4>1, <4>2, <4>3
    <3> QED
      BY <2>0, <3>1, <3>2 DEF Around
  <2> QED
    BY <2>0, <2>1 DEF ListOK, Around
<1> QED
  BY <1>1, <1>2, <1>3, <1>4 DEF Entries

\* The steps after which no call holds an area that it did not hold.
LEMMA HoldersKept ==
    ASSUME TypeOK, Entries, NEW t \in Threads,
           \/ KmemAlloc(t) \/ DmaAllocFail(t) \/ Link(t) \/ Move(t)
           \/ MmapKmem(t) \/ FindEntry(t) \/ Unlink(t)
    PROVE  /\ dma' = dma /\ objs' = objs
           /\ \A s \in Threads : Holds(s)' => Holds(s) /\ kh'[s] = kh[s]
           /\ pc'[t] # "oops" => \A s \in Threads : Holds(s) => Holds(s)'
<1>0. Step(t)
  BY DEF Step, AllocSteps, FreeSteps
<1>1. \A s \in Threads : s # t => Holds(s)' = Holds(s) /\ kh'[s] = kh[s]
  BY <1>0, OthersKept DEF Elsewhere, Holds
<1>2. dma' = dma /\ objs' = objs
  BY MoveEffect
     DEF KmemAlloc, DmaAllocFail, Link, Moved, MmapKmem, FindEntry, Unlink,
         devVars, libVars
<1>3. /\ Holds(t)' => Holds(t) /\ kh'[t] = kh[t]
      /\ pc'[t] # "oops" => (Holds(t) => Holds(t)')
  <2>1. CASE KmemAlloc(t)
    BY <2>1 DEF KmemAlloc, Goto, TypeOK, Holds, Mapping
  <2>2. CASE DmaAllocFail(t)
    BY <2>2 DEF DmaAllocFail, Goto, TypeOK, Holds, Mapping
  <2>3. CASE Link(t)
    <3>1. /\ pc[t] = "link" /\ pc'[t] = "lock" /\ kh' = kh /\ call' = call
          /\ call[t].op = "alloc"
      BY <2>3 DEF Link, Goto, TypeOK, libVars, Entries, Placed, Pending
    <3> QED
      BY <3>1 DEF Holds, Mapping
  <2>4. CASE Move(t)
    BY <2>4, MoveEffect DEF Moved
  <2>5. CASE MmapKmem(t)
    <3>1. /\ pc[t] = "mmap" /\ pc'[t] \in {"unlock", "remap"} /\ kh' = kh
          /\ call' = call
      BY <2>5 DEF MmapKmem, Goto, TypeOK, libVars
    <3> QED
      BY <3>1 DEF Holds, Mapping
  <2>6. CASE FindEntry(t)
    <3>1. pc[t] = "find" /\ pc'[t] = "release" /\ kh' = kh
      BY <2>6, FindEffect
    <3> QED
      BY <3>1 DEF Holds
  <2>7. CASE Unlink(t)
    <3>1. pc[t] = "unlink" /\ pc'[t] \in {"idle", "oops"}
      BY <2>7, UnlinkEffect
    <3> QED
      BY <3>1 DEF Holds, Mapping
  <2> QED
    BY <2>1, <2>2, <2>3, <2>4, <2>5, <2>6, <2>7
<1> QED
  BY <1>1, <1>2, <1>3

\* What the steps that change an owner do.
LEMMA DmaAllocEffect ==
    ASSUME TypeOK, NEW t \in Threads, DmaAlloc(t)
    PROVE  /\ pc[t] = "dma_alloc" /\ pc'[t] = "link" /\ objs' = objs
           /\ call' = call /\ kmem_entry' = kmem_entry /\ freed' = freed
           /\ kmem_list' = kmem_list
           /\ kh'[t].id = kmem_entry[t]
           /\ kh'[t].pa \in Addrs \ dma /\ dma' = dma \cup {kh'[t].pa}
           /\ Holds(t)' /\ ~Holds(t)
<1>1. PICK a \in Addrs \ dma :
          /\ dma' = dma \cup {a}
          /\ kh' = [kh EXCEPT ![t] = [id |-> kmem_entry[t], pa |-> a]]
  BY DEF DmaAlloc
<1>2. kh'[t].id = kmem_entry[t] /\ kh'[t].pa = a
  BY <1>1 DEF TypeOK
<1>3. /\ pc[t] = "dma_alloc" /\ pc'[t] = "link" /\ objs' = objs
      /\ call' = call /\ kmem_entry' = kmem_entry /\ freed' = freed
      /\ kmem_list' = kmem_list
  BY DEF DmaAlloc, Goto, TypeOK
<1> QED
  BY <1>1, <1>2, <1>3 DEF Holds, Mapping

\* The end of a constructor or of mapBAR.
LEMMA UnlockEffect ==
    ASSUME TypeOK, NEW t \in Threads, MmapUnlock(t)
    PROVE  /\ pc[t] = "unlock" /\ dma' = dma /\ kmem_list' = kmem_list
           /\ dma_handle' = dma_handle /\ freed' = freed
           /\ kmem_entry' = kmem_entry
           /\ \/ /\ pc'[t] = "idle" /\ call[t].op = "alloc" /\ Holds(t)
                 /\ \E o : o.handle = kh[t] /\ objs' = objs \cup {o}
              \/ /\ pc'[t] = "idle" /\ call[t].op # "alloc" /\ objs' = objs
              \/ /\ pc'[t] = "find" /\ Holds(t) /\ objs' = objs
                 /\ kh'[t] = kh[t]
<1>0. /\ pc[t] = "unlock" /\ dma' = dma /\ kmem_list' = kmem_list
      /\ dma_handle' = dma_handle /\ freed' = freed
      /\ kmem_entry' = kmem_entry
  BY DEF MmapUnlock, Goto, devVars
<1>1. CASE call[t].op # "alloc"
  BY <1>0, <1>1 DEF MmapUnlock, Goto, TypeOK
<1>2. CASE call[t].op = "alloc" /\ m_ptr[t] = None
  BY <1>0, <1>2 DEF MmapUnlock, Goto, TypeOK, Holds, Mapping
<1>3. CASE call[t].op = "alloc" /\ m_ptr[t] # None
  <2>1. PICK o : o = [handle |-> kh[t], mem |-> m_ptr[t]]
    OBVIOUS
  <2>2. o.handle = kh[t] /\ objs' = objs \cup {o} /\ pc'[t] = "idle"
    BY <1>3, <2>1 DEF MmapUnlock, Goto, TypeOK
  <2> QED
    BY <1>0, <1>3, <2>2 DEF Holds, Mapping
<1> QED
  BY <1>1, <1>2, <1>3

\* The start of a destructor.
LEMMA FreeEffect ==
    ASSUME TypeOK, NEW t \in Threads, NEW o \in objs, KmemFree(t, o)
    PROVE  /\ pc[t] = "idle" /\ pc'[t] = "find" /\ objs' = objs \ {o}
           /\ kh'[t] = o.handle /\ dma' = dma /\ kmem_list' = kmem_list
           /\ dma_handle' = dma_handle /\ freed' = freed
           /\ kmem_entry' = kmem_entry
           /\ Holds(t)' /\ ~Holds(t)
<1>1. /\ pc[t] = "idle" /\ pc'[t] = "find" /\ objs' = objs \ {o}
      /\ kh'[t] = o.handle /\ dma' = dma /\ kmem_list' = kmem_list
      /\ dma_handle' = dma_handle /\ freed' = freed
      /\ kmem_entry' = kmem_entry
  BY DEF KmemFree, Goto, TypeOK, devVars
<1> QED
  BY <1>1 DEF Holds, Mapping

\* The area a free gives back is its handle's.
LEMMA ReleaseEffect ==
    ASSUME TypeOK, Entries, NEW t \in Threads, Release(t)
    PROVE  /\ pc[t] = "release" /\ objs' = objs /\ kmem_list' = kmem_list
           /\ dma_handle' = dma_handle /\ freed' = freed
           /\ kmem_entry' = kmem_entry /\ kh' = kh /\ call' = call
           /\ Holds(t) /\ ~Holds(t)'
           /\ \/ pc'[t] = "oops" /\ dma' = dma
              \/ /\ pc'[t] = "unlink" /\ dma' = dma \ {kh[t].pa}
                 /\ kmem_entry[t] \notin freed
<1>1. /\ pc[t] = "release" /\ objs' = objs /\ kmem_list' = kmem_list
      /\ dma_handle' = dma_handle /\ freed' = freed
      /\ kmem_entry' = kmem_entry /\ kh' = kh /\ call' = call
  BY DEF Release, Goto, libVars
<1>2. dma_handle[kmem_entry[t]] = kh[t].pa
  BY <1>1 DEF Entries, EntryOK
<1>3. \/ pc'[t] = "oops" /\ dma' = dma
      \/ /\ pc'[t] = "unlink" /\ dma' = dma \ {dma_handle[kmem_entry[t]]}
         /\ kmem_entry[t] \notin freed
  BY DEF Release, Goto, TypeOK
<1> QED
  BY <1>1, <1>2, <1>3 DEF Holds, Mapping

\* Every area keeps one owner.
LEMMA OwnersStep ==
    ASSUME TypeOK, Entries, Owners, NEW t \in Threads, Step(t)
    PROVE  Owners'
<1>0. \A s \in Threads : s # t => Holds(s)' = Holds(s) /\ kh'[s] = kh[s]
  BY OthersKept DEF Elsewhere, Holds
<1>a. /\ \A o \in objs : o.handle.pa \in dma
      /\ \A s \in Threads : Holds(s) => kh[s].pa \in dma
      /\ \A o, q \in objs : o.handle.pa = q.handle.pa => o = q
      /\ \A s, u \in Threads : s # u /\ Holds(s) /\ Holds(u)
           => kh[s].pa # kh[u].pa
      /\ \A s \in Threads, o \in objs : Holds(s) => kh[s].pa # o.handle.pa
  BY DEF Owners, DistinctAreas
<1>b. SUFFICES
      /\ \A o \in objs' : o.handle.pa \in dma'
      /\ \A s \in Threads : Holds(s)' => kh'[s].pa \in dma'
      /\ \A o, q \in objs' : o.handle.pa = q.handle.pa => o = q
      /\ \A s, u \in Threads : s # u /\ Holds(s)' /\ Holds(u)'
           => kh'[s].pa # kh'[u].pa
      /\ \A s \in Threads, o \in objs' : Holds(s)' => kh'[s].pa # o.handle.pa
  BY DEF Owners, DistinctAreas
<1>1. CASE \/ KmemAlloc(t) \/ DmaAllocFail(t) \/ Link(t) \/ Move(t)
           \/ MmapKmem(t) \/ FindEntry(t) \/ Unlink(t)
  BY <1>1, <1>a, HoldersKept
<1>2. CASE DmaAlloc(t)
  BY <1>0, <1>2, <1>a, DmaAllocEffect
<1>3. CASE MmapUnlock(t)
  <2>1. CASE /\ pc'[t] = "idle" /\ call[t].op = "alloc" /\ Holds(t)
             /\ \E o : o.handle = kh[t] /\ objs' = objs \cup {o}
    <3>1. PICK o : o.handle = kh[t] /\ objs' = objs \cup {o}
      BY <2>1
    <3>2. ~Holds(t)' /\ dma' = dma
      BY <1>3, <2>1, UnlockEffect DEF Holds, Mapping
    <3> QED
      BY <1>0, <1>a, <2>1, <3>1, <3>2
  <2>2. CASE /\ pc'[t] = "idle" /\ call[t].op # "alloc" /\ objs' = objs
    <3>1. ~Holds(t)' /\ dma' = dma
      BY <1>3, <2>2, UnlockEffect DEF Holds, Mapping
    <3> QED
      BY <1>0, <1>a, <2>2, <3>1
  <2>3. CASE /\ pc'[t] = "find" /\ Holds(t) /\ objs' = objs
             /\ kh'[t] = kh[t]
    <3>1. dma' = dma
      BY <1>3, UnlockEffect
    <3> QED
      BY <1>0, <1>a, <2>3, <3>1
  <2> QED
    BY <1>3, <2>1, <2>2, <2>3, UnlockEffect
<1>4. CASE \E o \in objs : KmemFree(t, o)
  <2>1. PICK o \in objs : KmemFree(t, o)
    BY <1>4
  <2>2. /\ objs' = objs \ {o} /\ kh'[t] = o.handle /\ dma' = dma
    BY <2>1, FreeEffect
  <2> QED
    BY <1>0, <1>a, <2>2
<1>5. CASE Release(t)
  BY <1>0, <1>5, <1>a, ReleaseEffect
<1> QED
  BY <1>1, <1>2, <1>3, <1>4, <1>5 DEF Step, AllocSteps, FreeSteps

\* The entry that backs an area stays, unless the area is given back.
LEMMA BackedStep ==
    ASSUME TypeOK, Entries, NEW t \in Threads, Step(t), NEW a, Backed(a),
           Release(t) => a # kh[t].pa
    PROVE  Backed(a)'
<1>1. PICK e \in Listed :
          /\ dma_handle[e] = a
          /\ \A s \in Threads : pc[s] = "unlink" => kmem_entry[s] # e
  BY DEF Backed
<1>2. Around(t)
  BY AroundStep
<1>3. e \in Listed'
  BY <1>1, <1>2 DEF Around
<1>4. dma_handle'[e] = a
  <2>1. e \in Ids
    BY ListedIds
  <2>2. pc[t] = "dma_alloc" => e # kmem_entry[t]
    BY DEF Entries, EntryOK, Pending
  <2> QED
    BY <1>1, <1>2, <2>1, <2>2 DEF Around
<1>5. ASSUME NEW s \in Threads, pc'[s] = "unlink" PROVE kmem_entry'[s] # e
  <2>1. CASE s # t
    BY <1>1, <1>5, <2>1, OthersKept DEF Elsewhere
  <2>2. CASE s = t
    <3>1. Release(t)
      <4>1. ~Move(t)
        BY <1>5, <2>2, MoveEffect DEF Moved
      <4>2. /\ ~KmemAlloc(t) /\ ~DmaAlloc(t) /\ ~DmaAllocFail(t) /\ ~Link(t)
            /\ ~MmapKmem(t) /\ ~MmapUnlock(t) /\ ~FindEntry(t) /\ ~Unlink(t)
            /\ ~(\E o \in objs : KmemFree(t, o))
        BY <1>5, <2>2
           DEF KmemAlloc, DmaAlloc, DmaAllocFail, Link, MmapKmem, MmapUnlock,
               FindEntry, Unlink, KmemFree, Goto, TypeOK
      <4> QED
        BY <4>1, <4>2 DEF Step, AllocSteps, FreeSteps
    <3>2. /\ pc[t] = "release" /\ kmem_entry' = kmem_entry
      BY <3>1, ReleaseEffect
    <3>3. dma_handle[kmem_entry[t]] = kh[t].pa
      BY <3>2 DEF Entries, EntryOK
    <3> QED
      BY <1>1, <2>2, <3>1, <3>2, <3>3
  <2> QED
    BY <2>1, <2>2
<1> QED
  BY <1>3, <1>4, <1>5 DEF Backed

\* A buffer that has just been linked is backed by its own entry.
LEMMA LinkBacks ==
    ASSUME TypeOK, Entries, NEW t \in Threads, Link(t)
    PROVE  Backed(kh[t].pa)'
<1>0. Step(t)
  BY DEF Step, AllocSteps
<1>1. /\ pc[t] = "link" /\ pc'[t] = "lock"
      /\ kmem_list' = Append(kmem_list, kmem_entry[t])
      /\ dma_handle' = dma_handle /\ kmem_entry' = kmem_entry /\ kh' = kh
  BY DEF Link, Goto, TypeOK, libVars
<1>2. kmem_list \in Seq(Ids) /\ kmem_entry[t] \in Ids
  BY <1>1 DEF TypeOK, Entries, EntryOK, Pending
<1>3. kmem_entry[t] \in Listed'
  <2>1. /\ Len(kmem_list) + 1 \in DOMAIN kmem_list'
        /\ kmem_list'[Len(kmem_list) + 1] = kmem_entry[t]
    BY <1>1, <1>2
  <2> QED
    BY <2>1 DEF Listed
<1>4. dma_handle[kmem_entry[t]] = kh[t].pa
  BY <1>1 DEF Entries, EntryOK
<1>5. \A s \in Threads : pc'[s] = "unlink" => kmem_entry'[s] # kmem_entry[t]
  <2> SUFFICES ASSUME NEW s \in Threads, pc'[s] = "unlink"
               PROVE  kmem_entry[s] # kmem_entry[t]
    BY <1>1
  <2>1. s # t
    BY <1>1
  <2>2. pc[s] = "unlink"
    BY <1>0, <2>1, OthersKept DEF Elsewhere
  <2> QED
    BY <1>1, <2>1, <2>2 DEF Entries, Apart, Pending, Uses
<1> QED
  BY <1>1, <1>3, <1>4, <1>5 DEF Backed

\* Every owner stays backed.
LEMMA BackingStep ==
    ASSUME BufInv, NEW t \in Threads, Step(t)
    PROVE  AllBacked'
<1> USE DEF BufInv
<1>0. \A s \in Threads : s # t =>
          Holds(s)' = Holds(s) /\ kh'[s] = kh[s] /\ pc'[s] = pc[s]
  BY OthersKept DEF Elsewhere, Holds
<1>1. ASSUME NEW o \in objs, o \in objs' PROVE Backed(o.handle.pa)'
  <2>1. Release(t) => o.handle.pa # kh[t].pa
    BY ReleaseEffect DEF Owners
  <2>2. Backed(o.handle.pa)
    BY DEF AllBacked
  <2>3. PICK a : a = o.handle.pa
    OBVIOUS
  <2>4. Backed(a)'
    BY <2>1, <2>2, <2>3, BackedStep
  <2> QED
    BY <2>3, <2>4 DEF Backed
<1>2. ASSUME NEW s \in Threads, Holds(s), pc[s] # "link", kh'[s] = kh[s],
             s = t => ~Release(t)
      PROVE  Backed(kh[s].pa)'
  <2>1. Release(t) => kh[s].pa # kh[t].pa
    BY <1>2, ReleaseEffect DEF Owners
  <2>2. Backed(kh[s].pa)
    BY <1>2 DEF AllBacked
  <2>3. PICK a : a = kh[s].pa
    OBVIOUS
  <2>4. Backed(a)'
    BY <2>1, <2>2, <2>3, BackedStep
  <2> QED
    BY <1>2, <2>3, <2>4 DEF Backed
<1>3. ASSUME NEW o \in objs' PROVE Backed(o.handle.pa)'
  <2>1. CASE o \in objs
    BY <1>1, <2>1
  <2>2. CASE o \notin objs
    <3>1. MmapUnlock(t)
      <4>1. (KmemAlloc(t) \/ DmaAllocFail(t) \/ Link(t) \/ Move(t)
               \/ MmapKmem(t) \/ FindEntry(t) \/ Unlink(t)) => objs' = objs
        BY HoldersKept
      <4>2. /\ DmaAlloc(t) => objs' = objs
            /\ Release(t) => objs' = objs
            /\ (\E q \in objs : KmemFree(t, q)) => objs' \subseteq objs
        BY DmaAllocEffect, ReleaseEffect, FreeEffect
      <4> QED
        BY <2>2, <4>1, <4>2 DEF Step, AllocSteps, FreeSteps
    <3>2. Holds(t) /\ pc[t] = "unlock" /\ o.handle = kh[t]
      BY <2>2, <3>1, UnlockEffect
    <3>3. ~Release(t)
      BY <3>2 DEF Release, Goto
    <3>4. Backed(kh[t].pa)
      BY <3>2 DEF AllBacked
    <3>5. PICK a : a = kh[t].pa
      OBVIOUS
    <3>6. Backed(a)'
      BY <3>3, <3>4, <3>5, BackedStep
    <3> QED
      BY <3>2, <3>5, <3>6 DEF Backed
  <2> QED
    BY <2>1, <2>2
<1>4. ASSUME NEW s \in Threads, Holds(s)', pc'[s] # "link"
      PROVE  Backed(kh[s].pa)'
  <2>1. CASE s # t
    BY <1>0, <1>2, <1>4, <2>1
  <2>2. CASE s = t /\ Link(t)
    BY <2>2, LinkBacks
  <2>3. CASE s = t /\ ~Link(t) /\ \/ KmemAlloc(t) \/ DmaAllocFail(t)
                                  \/ Move(t) \/ MmapKmem(t)
                                  \/ FindEntry(t) \/ Unlink(t)
    <3>1. Holds(t) /\ kh'[t] = kh[t]
      BY <1>4, <2>3, HoldersKept
    <3>2. pc[t] # "link" /\ ~Release(t)
      BY <2>3, MoveEffect
         DEF KmemAlloc, DmaAllocFail, Moved, MmapKmem, FindEntry, Unlink, Goto,
             Release
    <3> QED
      BY <1>2, <2>3, <3>1, <3>2
  <2>4. CASE s = t /\ DmaAlloc(t)
    BY <1>4, <2>4, DmaAllocEffect
  <2>5. CASE s = t /\ MmapUnlock(t)
    <3>1. pc[t] = "unlock" /\ Holds(t) /\ kh'[t] = kh[t]
      BY <1>4, <2>5, UnlockEffect DEF Holds, Mapping
    <3>2. ~Release(t)
      BY <3>1 DEF Release, Goto
    <3> QED
      BY <1>2, <2>5, <3>1, <3>2
  <2>6. CASE s = t /\ \E o \in objs : KmemFree(t, o)
    <3>1. PICK o \in objs : KmemFree(t, o)
      BY <2>6
    <3>2. kh'[t] = o.handle /\ pc[t] = "idle"
      BY <3>1, FreeEffect
    <3>3. ~Release(t)
      BY <3>2 DEF Release, Goto
    <3>4. Backed(o.handle.pa)
      BY DEF AllBacked
    <3>5. PICK a : a = o.handle.pa
      OBVIOUS
    <3>6. Backed(a)'
      BY <3>3, <3>4, <3>5, BackedStep
    <3> QED
      BY <2>6, <3>2, <3>5, <3>6 DEF Backed
  <2>7. CASE s = t /\ Release(t)
    BY <1>4, <2>7, ReleaseEffect
  <2> QED
    BY <2>1, <2>2, <2>3, <2>4, <2>5, <2>6, <2>7
       DEF Step, AllocSteps, FreeSteps
<1> QED
  BY <1>3, <1>4 DEF AllBacked

\* No step breaks the invariant, whatever has gone wrong for other threads.
LEMMA BufStep == BufInv /\ [Next]_vars => BufInv'
<1> SUFFICES ASSUME BufInv, [Next]_vars PROVE BufInv'
  OBVIOUS
<1>1. CASE UNCHANGED vars
  <2>1. UNCHANGED <<kmem_count, kmem_list, dma_handle, freed, dma, mmap_mode,
                    mmap_area, mmap_mutex, pc, call, kmem_entry, kh, m_ptr,
                    objs>>
    BY <1>1 DEF vars, devVars, modeVars, libVars
  <2>2. TypeOK'
    BY <2>1 DEF BufInv, TypeOK
  <2>3. Entries'
    BY <2>1 DEF BufInv, Entries, Placed, ListOK, EntryOK, Apart, Pending,
                Uses, Listed
  <2>4. Owners'
    BY <2>1 DEF BufInv, Owners, DistinctAreas, Holds
  <2>5. AllBacked'
    BY <2>1 DEF BufInv, AllBacked, Backed, Holds, Listed
  <2> QED
    BY <2>2, <2>3, <2>4, <2>5 DEF BufInv
<1>2. CASE Next
  <2>1. PICK t \in Threads : Step(t)
    BY <1>2 DEF Next, Step, MmapSteps, Move
  <2> QED
    BY <2>1, TypesStep, EntriesStep, OwnersStep, BackingStep DEF BufInv
<1> QED
  BY <1>1, <1>2

\* Every variable keeps its type: in particular what is mapped is an area that
\* pci_alloc_consistent gave out, and what is unlinked is in the list.
THEOREM KmemTypes == Spec => []TypeOK
<1>1. BufInv => TypeOK
  BY DEF BufInv
<1> QED
  BY <1>1, InitBuf, BufStep, PTL DEF Spec

\* Two KernelMemory objects never stand for one DMA area, for any number of
\* processes, threads, areas and buffers.
THEOREM AreasDistinct == Spec => []DistinctAreas
<1>1. BufInv => DistinctAreas
  BY DEF BufInv, Owners
<1> QED
  BY <1>1, InitBuf, BufStep, PTL DEF Spec

\* pcidriver_kmem_free finds an entry for every handle the library frees.
THEOREM FreesFindEntry == Spec => []FreeFindsEntry
<1>1. BufInv => FreeFindsEntry
  <2> SUFFICES ASSUME BufInv, NEW t \in Threads, pc[t] = "find"
               PROVE  \E i \in DOMAIN kmem_list :
                          dma_handle[kmem_list[i]] = kh[t].pa
    BY DEF FreeFindsEntry
  <2>1. Backed(kh[t].pa)
    BY DEF BufInv, AllBacked, Holds
  <2> QED
    BY <2>1 DEF Backed, Listed
<1> QED
  BY <1>1, InitBuf, BufStep, PTL DEF Spec

-----------------------------------------------------------------------------
(***************************************************************************)
(* Nothing is leaked.  A free may find an older entry with the address of  *)
(* its handle, which the call that freed it has released and not yet       *)
(* unlinked.  Then two calls hold one entry, and one of them is bound to   *)
(* end in an oops; until that happens, and if it never does, the list and  *)
(* the areas in use are those of the objects and of the calls under way.   *)
(***************************************************************************)
Oops   == \E t \in Threads : pc[t] = "oops"
Freeing(t) == pc[t] \in {"release", "unlink"}

\* The call of t cannot end well any more.
Lost(t) == /\ Freeing(t)
           /\ \/ kmem_entry[t] \in freed
              \/ \E s \in Threads : /\ s # t /\ Freeing(s)
                                    /\ kmem_entry[s] = kmem_entry[t]
Doomed == \E t \in Threads : Lost(t)

\* Every area in use has an owner.
Owned(a) == \/ \E o \in objs : o.handle.pa = a
            \/ \E t \in Threads : Holds(t) /\ kh[t].pa = a
AllOwned == \A a \in dma : Owned(a)

\* The call of t answers for the entry of its handle, which is in the list.
OnList(t) == pc[t] = "unlink" \/ (Holds(t) /\ pc[t] # "link")

\* The list holds the entries of the objects and of the calls, one each.
Tidy ==
    /\ \A e \in Listed : \/ \E o \in objs : o.handle.id = e
                         \/ \E t \in Threads : OnList(t) /\ kh[t].id = e
    /\ \A o \in objs : /\ o.handle.id \in Listed
                       /\ dma_handle[o.handle.id] = o.handle.pa
    /\ \A t \in Threads : OnList(t) => /\ kh[t].id \in Listed
                                       /\ dma_handle[kh[t].id] = kh[t].pa
    /\ \A o, q \in objs : o.handle.id = q.handle.id => o = q
    /\ \A s, t \in Threads : s # t /\ OnList(s) /\ OnList(t)
         => kh[s].id # kh[t].id
    /\ \A t \in Threads, o \in objs : OnList(t) => kh[t].id # o.handle.id
    /\ \A t \in Threads : Freeing(t) => kmem_entry[t] = kh[t].id

LeakInv == BufInv /\ (Oops \/ AllOwned) /\ (Oops \/ Doomed \/ Tidy)

\* An oops is for good.
LEMMA OopsStays ==
    ASSUME TypeOK, NEW t \in Threads, Step(t), Oops
    PROVE  Oops'
<1>1. PICK s \in Threads : pc[s] = "oops"
  BY DEF Oops
<1>2. s # t
  BY <1>1 DEF Step, AllocSteps, KmemAlloc, DmaAlloc, DmaAllocFail, Link, Move,
              MapBar, MmapLock, MmapMode, MmapArea, MmapPci, Remap, MmapKmem,
              MmapUnlock, KmemFree, FreeSteps, FindEntry, Release, Unlink, Goto
<1> QED
  BY <1>1, <1>2, OthersKept DEF Elsewhere, Oops

\* A thread that frees goes on with its entry, or ends.
LEMMA FreeingStep ==
    ASSUME TypeOK, Entries, NEW t \in Threads, Step(t), Freeing(t),
           pc'[t] # "oops"
    PROVE  /\ kmem_entry' = kmem_entry /\ freed \subseteq freed'
           /\ kmem_entry[t] \notin freed
           /\ Freeing(t)' \/ kmem_entry[t] \in freed'
<1>1. Release(t) \/ Unlink(t)
  BY DEF Freeing, Step, AllocSteps, KmemAlloc, DmaAlloc, DmaAllocFail, Link,
         Move, MapBar, MmapLock, MmapMode, MmapArea, MmapPci, Remap, MmapKmem,
         MmapUnlock, KmemFree, FreeSteps, FindEntry, Goto
<1>2. CASE Release(t)
  BY <1>2, ReleaseEffect DEF Freeing
<1>3. CASE Unlink(t)
  BY <1>3, UnlinkEffect
<1> QED
  BY <1>1, <1>2, <1>3

\* A call that cannot end well has not ended, or somebody has.
LEMMA DoomedStays ==
    ASSUME TypeOK, Entries, NEW t \in Threads, Step(t), Doomed, ~Oops'
    PROVE  Doomed'
<1>1. PICK u \in Threads : Lost(u)
  BY DEF Doomed
<1>2. pc'[t] # "oops"
  BY DEF Oops
<1>3. freed \subseteq freed'
  BY AroundStep DEF Around
<1>4. \A s \in Threads : s # t =>
          Freeing(s)' = Freeing(s) /\ kmem_entry'[s] = kmem_entry[s]
  BY OthersKept DEF Elsewhere, Freeing
<1>5. CASE kmem_entry[u] \in freed
  <2>1. u # t
    BY <1>1, <1>2, <1>5, FreeingStep DEF Lost
  <2>2. Lost(u)'
    BY <1>1, <1>3, <1>4, <1>5, <2>1 DEF Lost
  <2> QED
    BY <2>2 DEF Doomed
<1>6. CASE kmem_entry[u] \notin freed
  <2>1. PICK s \in Threads : /\ s # u /\ Freeing(s) /\ Freeing(u)
                             /\ kmem_entry[s] = kmem_entry[u]
    BY <1>1, <1>6 DEF Lost
  <2>2. CASE s # t /\ u # t
    <3>1. Lost(u)'
      BY <1>4, <2>1, <2>2 DEF Lost
    <3> QED
      BY <3>1 DEF Doomed
  <2>3. CASE s = t
    <3>1. /\ kmem_entry' = kmem_entry
          /\ Freeing(t)' \/ kmem_entry[t] \in freed'
      BY <1>2, <2>1, <2>3, FreeingStep
    <3>2. Lost(u)'
      BY <1>4, <2>1, <2>3, <3>1 DEF Lost
    <3> QED
      BY <3>2 DEF Doomed
  <2>4. CASE u = t
    <3>1. /\ kmem_entry' = kmem_entry
          /\ Freeing(t)' \/ kmem_entry[t] \in freed'
      BY <1>2, <2>1, <2>4, FreeingStep
    <3>2. Lost(s)'
      BY <1>4, <2>1, <2>4, <3>1 DEF Lost
    <3> QED
      BY <3>2 DEF Doomed
  <2> QED
    BY <2>2, <2>3, <2>4
<1> QED
  BY <1>5, <1>6

\* An area keeps an owner until it is given back.
LEMMA OwnedStep ==
    ASSUME BufInv, AllOwned, NEW t \in Threads, Step(t), ~Oops'
    PROVE  AllOwned'
<1> USE DEF BufInv
<1> SUFFICES ASSUME NEW a \in dma'
             PROVE  \/ \E o \in objs' : o.handle.pa = a
                    \/ \E s \in Threads : Holds(s)' /\ kh'[s].pa = a
  BY DEF AllOwned, Owned
<1>0. \A s \in Threads : s # t => Holds(s)' = Holds(s) /\ kh'[s] = kh[s]
  BY OthersKept DEF Elsewhere, Holds
<1>a. a \in dma => \/ \E o \in objs : o.handle.pa = a
                   \/ \E s \in Threads : Holds(s) /\ kh[s].pa = a
  BY DEF AllOwned, Owned
<1>b. pc'[t] # "oops"
  BY DEF Oops
<1>1. CASE \/ KmemAlloc(t) \/ DmaAllocFail(t) \/ Link(t) \/ Move(t)
           \/ MmapKmem(t) \/ FindEntry(t) \/ Unlink(t)
  BY <1>1, <1>a, <1>b, HoldersKept
<1>2. CASE DmaAlloc(t)
  BY <1>0, <1>2, <1>a, DmaAllocEffect
<1>3. CASE MmapUnlock(t)
  <2>1. CASE /\ pc'[t] = "idle" /\ call[t].op = "alloc" /\ Holds(t)
             /\ \E o : o.handle = kh[t] /\ objs' = objs \cup {o}
    BY <1>0, <1>3, <1>a, <2>1, UnlockEffect
  <2>2. CASE /\ pc'[t] = "idle" /\ call[t].op # "alloc" /\ objs' = objs
    <3>1. dma' = dma /\ pc[t] = "unlock"
      BY <1>3, UnlockEffect
    <3>2. ~Holds(t)
      BY <2>2, <3>1 DEF Holds, Mapping, Entries, Placed
    <3> QED
      BY <1>0, <1>a, <2>2, <3>1, <3>2
  <2>3. CASE /\ pc'[t] = "find" /\ Holds(t) /\ objs' = objs
             /\ kh'[t] = kh[t]
    <3>1. dma' = dma /\ Holds(t)'
      BY <1>3, <2>3, UnlockEffect DEF Holds
    <3> QED
      BY <1>0, <1>a, <2>3, <3>1
  <2> QED
    BY <1>3, <2>1, <2>2, <2>3, UnlockEffect
<1>4. CASE \E o \in objs : KmemFree(t, o)
  <2>1. PICK o \in objs : KmemFree(t, o)
    BY <1>4
  <2>2. /\ objs' = objs \ {o} /\ kh'[t] = o.handle /\ dma' = dma
        /\ Holds(t)' /\ ~Holds(t)
    BY <2>1, FreeEffect
  <2> QED
    BY <1>0, <1>a, <2>2
<1>5. CASE Release(t)
  <2>1. objs' = objs /\ dma' = dma \ {kh[t].pa}
    BY <1>5, <1>b, ReleaseEffect
  <2> QED
    BY <1>0, <1>a, <2>1
<1> QED
  BY <1>1, <1>2, <1>3, <1>4, <1>5 DEF Step, AllocSteps, FreeSteps

\* Steps that leave the list and the owners of its entries alone.
LEMMA TidyKept ==
    ASSUME Tidy, Listed' = Listed, objs' = objs,
           \A e \in Listed : dma_handle'[e] = dma_handle[e],
           \A s \in Threads : OnList(s)' = OnList(s),
           \A s \in Threads : OnList(s) => kh'[s] = kh[s],
           \A s \in Threads : Freeing(s)' => kmem_entry'[s] = kh'[s].id
    PROVE  Tidy'
BY DEF Tidy

\* The list stays in order, or a free takes the entry of another one.
LEMMA TidyStep ==
    ASSUME BufInv, Tidy, NEW t \in Threads, Step(t), ~Oops'
    PROVE  Tidy' \/ Doomed'
<1> USE DEF BufInv
<1>0. \A s \in Threads : s # t =>
          /\ OnList(s)' = OnList(s) /\ kh'[s] = kh[s]
          /\ Freeing(s)' = Freeing(s) /\ kmem_entry'[s] = kmem_entry[s]
  BY OthersKept DEF Elsewhere, OnList, Holds, Freeing
<1>a. /\ \A e \in Listed : \/ \E o \in objs : o.handle.id = e
                           \/ \E s \in Threads : OnList(s) /\ kh[s].id = e
      /\ \A o \in objs : /\ o.handle.id \in Listed
                         /\ dma_handle[o.handle.id] = o.handle.pa
      /\ \A s \in Threads : OnList(s) => /\ kh[s].id \in Listed
                                         /\ dma_handle[kh[s].id] = kh[s].pa
      /\ \A o, q \in objs : o.handle.id = q.handle.id => o = q
      /\ \A s, u \in Threads : s # u /\ OnList(s) /\ OnList(u)
           => kh[s].id # kh[u].id
      /\ \A s \in Threads, o \in objs : OnList(s) => kh[s].id # o.handle.id
      /\ \A s \in Threads : Freeing(s) => kmem_entry[s] = kh[s].id
  BY DEF Tidy
<1>b. pc'[t] # "oops"
  BY DEF Oops
<1>c. \A e \in Listed : dma_handle'[e] = dma_handle[e]
  <2>1. Listed \subseteq Ids
    BY ListedIds
  <2>2. pc[t] = "dma_alloc" => kmem_entry[t] \notin Listed
    BY DEF Entries, EntryOK, Pending
  <2> QED
    BY <2>1, <2>2, AroundStep DEF Around
<1>1. CASE /\ kmem_list' = kmem_list /\ objs' = objs
           /\ OnList(t)' = OnList(t)
           /\ OnList(t) => kh'[t] = kh[t]
           /\ Freeing(t)' => kmem_entry'[t] = kh'[t].id
  <2>1. Listed' = Listed
    BY <1>1 DEF Listed
  <2>2. /\ \A s \in Threads : OnList(s)' = OnList(s)
        /\ \A s \in Threads : OnList(s) => kh'[s] = kh[s]
    BY <1>0, <1>1
  <2>3. \A s \in Threads : Freeing(s)' => kmem_entry'[s] = kh'[s].id
    BY <1>0, <1>1, <1>a
  <2> QED
    BY <1>1, <1>c, <2>1, <2>2, <2>3, TidyKept
<1>2. CASE KmemAlloc(t) \/ DmaAllocFail(t) \/ DmaAlloc(t)
  <2>1. /\ pc[t] \in {"idle", "dma_alloc"}
        /\ pc'[t] \in {"dma_alloc", "idle", "link"}
        /\ kmem_list' = kmem_list /\ objs' = objs
    BY <1>2 DEF KmemAlloc, DmaAllocFail, DmaAlloc, Goto, TypeOK
  <2>2. ~OnList(t) /\ OnList(t)' = OnList(t) /\ ~Freeing(t)'
    BY <2>1 DEF OnList, Holds, Mapping, Freeing
  <2> QED
    BY <1>1, <2>1, <2>2
<1>3. CASE Move(t)
  <2>1. /\ kmem_list' = kmem_list /\ objs' = objs /\ kh' = kh
        /\ OnList(t)' = OnList(t) /\ ~Freeing(t)'
    BY <1>3, <1>b, MoveEffect DEF Moved, OnList, Freeing
  <2> QED
    BY <1>1, <2>1
<1>4. CASE MmapKmem(t)
  <2>1. /\ pc[t] = "mmap" /\ pc'[t] \in {"unlock", "remap"} /\ kh' = kh
        /\ call' = call /\ kmem_list' = kmem_list /\ objs' = objs
    BY <1>4 DEF MmapKmem, Goto, TypeOK, libVars, devVars
  <2>2. OnList(t)' = OnList(t) /\ ~Freeing(t)'
    BY <2>1 DEF OnList, Holds, Mapping, Freeing
  <2> QED
    BY <1>1, <2>1, <2>2
<1>5. CASE Link(t)
  <2>1. /\ pc[t] = "link" /\ pc'[t] = "lock"
        /\ kmem_list' = Append(kmem_list, kmem_entry[t])
        /\ dma_handle' = dma_handle /\ kh' = kh /\ call' = call
        /\ objs' = objs /\ call[t].op = "alloc"
    BY <1>5 DEF Link, Goto, TypeOK, libVars, Entries, Placed, Pending
  <2>2. /\ kmem_entry[t] \notin Listed /\ kmem_entry[t] \in Ids
        /\ kh[t].id = kmem_entry[t] /\ kh[t].pa = dma_handle[kmem_entry[t]]
    BY <2>1 DEF Entries, EntryOK, Pending
  <2>3. Listed' = Listed \cup {kmem_entry[t]}
    <3>1. \A e \in Listed' : e \in Listed \/ e = kmem_entry[t]
      BY AroundStep DEF Around
    <3>2. \A e \in Listed : e \in Listed'
      BY <2>1, AroundStep DEF Around
    <3>3. kmem_entry[t] \in Listed'
      <4>1. /\ Len(kmem_list) + 1 \in DOMAIN kmem_list'
            /\ kmem_list'[Len(kmem_list) + 1] = kmem_entry[t]
        BY <2>1, <2>2 DEF TypeOK
      <4> QED
        BY <4>1 DEF Listed
    <3> QED
      BY <3>1, <3>2, <3>3
  <2>4. OnList(t)' /\ ~OnList(t) /\ ~Freeing(t)'
    BY <2>1 DEF OnList, Holds, Mapping, Freeing
  <2>5. Tidy'
    BY <1>0, <1>a, <2>1, <2>2, <2>3, <2>4 DEF Tidy
  <2> QED
    BY <2>5
<1>6. CASE MmapUnlock(t)
  <2>0. /\ kmem_list' = kmem_list /\ dma_handle' = dma_handle
        /\ pc[t] = "unlock"
    BY <1>6, UnlockEffect
  <2>1. CASE /\ pc'[t] = "idle" /\ call[t].op = "alloc" /\ Holds(t)
             /\ \E o : o.handle = kh[t] /\ objs' = objs \cup {o}
    <3>1. PICK o : o.handle = kh[t] /\ objs' = objs \cup {o}
      BY <2>1
    <3>2. OnList(t) /\ ~OnList(t)' /\ ~Freeing(t)'
      BY <2>0, <2>1 DEF OnList, Holds, Mapping, Freeing
    <3>3. Listed' = Listed
      BY <2>0 DEF Listed
    <3>4. Tidy'
      BY <1>0, <1>a, <2>0, <3>1, <3>2, <3>3 DEF Tidy
    <3> QED
      BY <3>4
  <2>2. CASE /\ pc'[t] = "idle" /\ call[t].op # "alloc" /\ objs' = objs
    <3>1. ~Holds(t)
      BY <2>0, <2>2 DEF Holds, Mapping, Entries, Placed
    <3>2. ~OnList(t) /\ OnList(t)' = OnList(t) /\ ~Freeing(t)'
      BY <2>0, <2>2, <3>1 DEF OnList, Holds, Mapping, Freeing
    <3> QED
      BY <1>1, <2>0, <2>2, <3>2
  <2>3. CASE /\ pc'[t] = "find" /\ Holds(t) /\ objs' = objs
             /\ kh'[t] = kh[t]
    <3>1. OnList(t) /\ OnList(t)' /\ ~Freeing(t)'
      BY <2>0, <2>3 DEF OnList, Holds, Freeing
    <3> QED
      BY <1>1, <2>0, <2>3, <3>1
  <2> QED
    BY <1>6, <2>1, <2>2, <2>3, UnlockEffect
<1>7. CASE \E o \in objs : KmemFree(t, o)
  <2>1. PICK o \in objs : KmemFree(t, o)
    BY <1>7
  <2>2. /\ objs' = objs \ {o} /\ kh'[t] = o.handle /\ kmem_list' = kmem_list
        /\ dma_handle' = dma_handle /\ pc[t] = "idle" /\ pc'[t] = "find"
    BY <2>1, FreeEffect
  <2>3. ~OnList(t) /\ OnList(t)' /\ ~Freeing(t)'
    BY <2>2 DEF OnList, Holds, Mapping, Freeing
  <2>4. Listed' = Listed
    BY <2>2 DEF Listed
  <2>5. Tidy'
    BY <1>0, <1>a, <2>2, <2>3, <2>4 DEF Tidy
  <2> QED
    BY <2>5
<1>8. CASE FindEntry(t)
  <2>1. /\ pc[t] = "find" /\ pc'[t] = "release" /\ kmem_list' = kmem_list
        /\ kh' = kh /\ objs' = objs
        /\ kmem_entry'[t] \in Listed
        /\ dma_handle[kmem_entry'[t]] = kh[t].pa
    BY <1>8, FindEffect
  <2>2. Holds(t) /\ OnList(t) /\ OnList(t)' /\ Freeing(t)'
    BY <2>1 DEF OnList, Holds, Freeing
  <2>3. CASE kmem_entry'[t] = kh[t].id
    BY <1>1, <2>1, <2>2, <2>3
  <2>4. CASE kmem_entry'[t] # kh[t].id
    <3>1. ~(\E o \in objs : o.handle.id = kmem_entry'[t])
      BY <1>a, <2>1, <2>2 DEF Owners
    <3>2. PICK s \in Threads : OnList(s) /\ kh[s].id = kmem_entry'[t]
      BY <1>a, <2>1, <3>1
    <3>3. s # t
      BY <2>4, <3>2
    <3>4. kh[s].pa = kh[t].pa
      BY <1>a, <2>1, <3>2
    <3>5. ~Holds(s)
      BY <2>2, <3>3, <3>4 DEF Owners
    <3>6. pc[s] = "unlink"
      BY <3>2, <3>5 DEF OnList
    <3>7. Freeing(s)' /\ kmem_entry'[s] = kmem_entry'[t]
      BY <1>0, <1>a, <3>2, <3>3, <3>6 DEF Freeing
    <3>8. Lost(t)'
      BY <2>2, <3>3, <3>7 DEF Lost
    <3> QED
      BY <3>8 DEF Doomed
  <2> QED
    BY <2>3, <2>4
<1>9. CASE Release(t)
  <2>1. /\ pc[t] = "release" /\ pc'[t] = "unlink" /\ objs' = objs
        /\ kmem_list' = kmem_list /\ kmem_entry' = kmem_entry /\ kh' = kh
    BY <1>9, <1>b, ReleaseEffect
  <2>2. OnList(t)' /\ OnList(t) /\ Freeing(t)
    BY <2>1 DEF OnList, Holds, Freeing
  <2> QED
    BY <1>1, <1>a, <2>1, <2>2
<1>10. CASE Unlink(t)
  <2>1. /\ pc[t] = "unlink" /\ pc'[t] = "idle"
        /\ dma_handle' = dma_handle /\ objs' = objs
        /\ Listed' = Listed \ {kmem_entry[t]}
    BY <1>10, <1>b, UnlinkEffect
  <2>2. OnList(t) /\ ~OnList(t)' /\ Freeing(t) /\ ~Freeing(t)'
    BY <2>1 DEF OnList, Holds, Mapping, Freeing
  <2>3. kmem_entry[t] = kh[t].id
    BY <1>a, <2>2
  <2>4. Tidy'
    BY <1>0, <1>a, <2>1, <2>2, <2>3 DEF Tidy
  <2> QED
    BY <2>4
<1> QED
  BY <1>2, <1>3, <1>4, <1>5, <1>6, <1>7, <1>8, <1>9, <1>10
     DEF Step, AllocSteps, FreeSteps

\* No step breaks the invariant.
LEMMA LeakStep == LeakInv /\ [Next]_vars => LeakInv'
<1> SUFFICES ASSUME LeakInv, [Next]_vars PROVE LeakInv'
  OBVIOUS
<1>0. BufInv'
  BY BufStep DEF LeakInv
<1>1. CASE UNCHANGED vars
  <2>1. UNCHANGED <<kmem_list, dma_handle, freed, dma, pc, call, kmem_entry,
                    kh, objs>>
    BY <1>1 DEF vars, devVars, libVars
  <2>2. /\ Oops' = Oops /\ Listed' = Listed
        /\ \A t \in Threads :
             /\ Holds(t)' = Holds(t) /\ OnList(t)' = OnList(t)
             /\ Freeing(t)' = Freeing(t) /\ Lost(t)' = Lost(t)
    BY <2>1 DEF Oops, Listed, Holds, OnList, Freeing, Lost
  <2>3. AllOwned => AllOwned'
    BY <2>1, <2>2 DEF AllOwned, Owned
  <2>4. Doomed => Doomed'
    BY <2>2 DEF Doomed
  <2>5. Tidy => Tidy'
    <3> SUFFICES ASSUME Tidy PROVE Tidy'
      OBVIOUS
    <3>1. \A t \in Threads : Freeing(t)' => kmem_entry'[t] = kh'[t].id
      BY <2>1, <2>2 DEF Tidy
    <3> QED
      BY <2>1, <2>2, <3>1, TidyKept
  <2> QED
    BY <1>0, <2>2, <2>3, <2>4, <2>5 DEF LeakInv
<1>2. CASE Next
  <2>1. PICK t \in Threads : Step(t)
    BY <1>2 DEF Next, Step, MmapSteps, Move
  <2>2. CASE Oops'
    BY <1>0, <2>2 DEF LeakInv
  <2>3. CASE ~Oops'
    <3>1. ~Oops
      BY <2>1, <2>3, OopsStays DEF LeakInv, BufInv
    <3>2. AllOwned'
      BY <2>1, <2>3, <3>1, OwnedStep DEF LeakInv
    <3>3. Doomed' \/ Tidy'
      BY <2>1, <2>3, <3>1, DoomedStays, TidyStep DEF LeakInv, BufInv
    <3> QED
      BY <1>0, <3>2, <3>3 DEF LeakInv
  <2> QED
    BY <2>2, <2>3
<1> QED
  BY <1>1, <1>2

\* Initially there is nothing to leak.
LEMMA InitLeak == Init => LeakInv
<1> SUFFICES ASSUME Init PROVE LeakInv
  OBVIOUS
<1>1. BufInv
  BY InitBuf
<1>2. AllOwned
  BY DEF Init, AllOwned
<1>3. Tidy
  <2>1. Listed = {} /\ objs = {}
    BY DEF Init, Listed
  <2>2. \A t \in Threads : ~OnList(t) /\ ~Freeing(t)
    BY DEF Init, OnList, Holds, Mapping, Freeing
  <2> QED
    BY <2>1, <2>2 DEF Tidy
<1> QED
  BY <1>1, <1>2, <1>3 DEF LeakInv

\* When no call is under way, the driver's list and the areas in use are those
\* of the KernelMemory objects, for any number of processes, threads, areas
\* and buffers: the error paths of the constructor leak nothing, and a free
\* that took another buffer's entry has not gone unnoticed.
THEOREM NothingLeaked == Spec => []NoLeak
<1>1. LeakInv => NoLeak
  <2> SUFFICES ASSUME LeakInv, \A t \in Threads : pc[t] = "idle"
               PROVE  /\ Listed = {o.handle.id : o \in objs}
                      /\ dma = {o.handle.pa : o \in objs}
    BY DEF NoLeak, Listed
  <2>1. \A t \in Threads : ~Holds(t) /\ ~OnList(t) /\ ~Freeing(t)
    BY DEF Holds, Mapping, OnList, Freeing
  <2>2. ~Oops /\ ~Doomed
    BY <2>1 DEF Oops, Doomed, Lost
  <2>3. AllOwned /\ Tidy /\ Owners
    BY <2>2 DEF LeakInv, BufInv
  <2>4. Listed = {o.handle.id : o \in objs}
    BY <2>1, <2>3 DEF Tidy
  <2>5. dma = {o.handle.pa : o \in objs}
    BY <2>1, <2>3 DEF AllOwned, Owned, Owners
  <2> QED
    BY <2>4, <2>5
<1> QED
  BY <1>1, InitLeak, LeakStep, PTL DEF Spec
=============================================================================
