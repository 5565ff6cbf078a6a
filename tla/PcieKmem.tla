------------------------------ MODULE PcieKmem ------------------------------
(***************************************************************************)
(* Kernel buffers of the PCIe board: the list of buffers the driver keeps  *)
(* (kmem.c), the device-wide mmap mode and area (ioctl.c, base.c) and the  *)
(* user library that allocates, maps and frees (KernelMemory.cpp and       *)
(* PciDevice::mapBAR; pciDriver_Capi.c does the same in C).                *)
(*                                                                         *)
(* A thread is inside at most one library call.  Between two system calls, *)
(* and between two critical sections of the driver, others may run.  A     *)
(* buffer's entry is named by its id, drawn from kmem_count; all buffers   *)
(* have one size, so the size check of mmap never refuses.  Using an entry *)
(* that was freed, or unlinking it twice, ends the thread in an oops.      *)
(*                                                                         *)
(* Left out: the attributes in sysfs, through which an administrator may   *)
(* free a buffer or replace the mode and area between any two calls.       *)
(***************************************************************************)
EXTENDS Integers, Sequences

CONSTANTS
    Threads, Processes,
    ProcessOf,      \* [Threads -> Processes]: each has a PciDevice of its own
    Addrs,          \* areas pci_alloc_consistent can give out
    Bars,           \* 0 .. 5
    MaxAllocs,      \* bound: buffers ever allocated
    None

ASSUME KmemAssumption == /\ ProcessOf \in [Threads -> Processes]
                         /\ 0 \in Bars
                         /\ MaxAllocs \in Nat
                         /\ None \notin Threads \cup Addrs

Ids == 0 .. (MaxAllocs - 1)

VARIABLES
    kmem_count, kmem_list,  \* the driver's counter and list
    dma_handle,             \* per id: the area of the entry
    freed,                  \* ids whose entry was released with kfree
    dma,                    \* the areas in use
    mmap_mode, mmap_area,   \* of the device
    mmap_mutex,             \* per process: its holder
    pc,                     \* per thread: where it is
    call,                   \* per thread: the library call it is in
    kmem_entry,             \* per thread: the driver's local variable
    kh,                     \* per thread: the handle [id, pa] of the call
    m_ptr,                  \* per thread: what mmap() returned
    objs                    \* the KernelMemory objects that exist

devVars  == <<kmem_count, kmem_list, dma_handle, freed, dma>>
modeVars == <<mmap_mode, mmap_area>>
libVars  == <<call, kh, m_ptr, objs>>
vars     == <<devVars, modeVars, mmap_mutex, pc, kmem_entry, libVars>>

Calls   == [op : {"none", "alloc", "free"}, bar : {0}]
             \cup [op : {"bar"}, bar : Bars]
Handles == [id : Ids \cup {None}, pa : Addrs \cup {None}]
Areas   == [kind : {"kmem"}, at : Addrs] \cup [kind : {"bar"}, at : Bars]
NoCall   == [op |-> "none", bar |-> 0]
NoHandle == [id |-> None, pa |-> None]

TypeOK ==
    /\ kmem_count \in 0 .. MaxAllocs
    /\ kmem_list \in Seq(Ids)
    /\ dma_handle \in [Ids -> Addrs \cup {None}]
    /\ freed \subseteq Ids
    /\ dma \subseteq Addrs
    /\ mmap_mode \in {"PCI", "KMEM"}
    /\ mmap_area \in Bars
    /\ mmap_mutex \in [Processes -> Threads \cup {None}]
    /\ pc \in [Threads -> {"idle", "dma_alloc", "link", "lock", "mode", "area",
                           "mmap", "remap", "unlock", "find", "release",
                           "unlink", "oops"}]
    /\ call \in [Threads -> Calls]
    /\ kmem_entry \in [Threads -> Ids \cup {None}]
    /\ kh \in [Threads -> Handles]
    /\ m_ptr \in [Threads -> Areas \cup {None}]
    /\ objs \subseteq [handle : Handles, mem : Areas]

Init ==
    /\ kmem_count = 0
    /\ kmem_list = <<>>
    /\ dma_handle = [i \in Ids |-> None]
    /\ freed = {}
    /\ dma = {}
    /\ mmap_mode = "PCI"
    /\ mmap_area = 0
    /\ mmap_mutex = [p \in Processes |-> None]
    /\ pc = [t \in Threads |-> "idle"]
    /\ call = [t \in Threads |-> NoCall]
    /\ kmem_entry = [t \in Threads |-> None]
    /\ kh = [t \in Threads |-> NoHandle]
    /\ m_ptr = [t \in Threads |-> None]
    /\ objs = {}

-----------------------------------------------------------------------------
Goto(t, from, to) == pc[t] = from /\ pc' = [pc EXCEPT ![t] = to]

\* The end of a library call: its local variables are gone.
Return(t) ==
    /\ call' = [call EXCEPT ![t] = NoCall]
    /\ kh' = [kh EXCEPT ![t] = NoHandle]
    /\ m_ptr' = [m_ptr EXCEPT ![t] = None]

\* KernelMemory(dev, size): PCIDRIVER_IOC_KMEM_ALLOC takes the next id.
KmemAlloc(t) ==
    /\ Goto(t, "idle", "dma_alloc")
    /\ kmem_count < MaxAllocs
    /\ call' = [call EXCEPT ![t] = [op |-> "alloc", bar |-> 0]]
    /\ kmem_entry' = [kmem_entry EXCEPT ![t] = kmem_count]
    /\ kmem_count' = kmem_count + 1
    /\ UNCHANGED <<kmem_list, dma_handle, freed, dma, modeVars, mmap_mutex,
                   kh, m_ptr, objs>>

\* pci_alloc_consistent succeeds...
DmaAlloc(t) ==
    /\ Goto(t, "dma_alloc", "link")
    /\ \E a \in Addrs \ dma :
           /\ dma' = dma \cup {a}
           /\ dma_handle' = [dma_handle EXCEPT ![kmem_entry[t]] = a]
           /\ kh' = [kh EXCEPT ![t] = [id |-> kmem_entry[t], pa |-> a]]
    /\ UNCHANGED <<kmem_count, kmem_list, freed, modeVars, mmap_mutex, call,
                   kmem_entry, m_ptr, objs>>

\* ... or fails, or sysfs does: kmem_alloc_mem_fail, and the constructor
\* throws ALLOC_FAILED.
DmaAllocFail(t) ==
    /\ Goto(t, "dma_alloc", "idle")
    /\ freed' = freed \cup {kmem_entry[t]}
    /\ Return(t)
    /\ UNCHANGED <<kmem_count, kmem_list, dma_handle, dma, modeVars,
                   mmap_mutex, kmem_entry, objs>>

\* list_add_tail under kmemlist_lock; the system call returns.
Link(t) ==
    /\ Goto(t, "link", "lock")
    /\ kmem_list' = Append(kmem_list, kmem_entry[t])
    /\ UNCHANGED <<kmem_count, dma_handle, freed, dma, modeVars, mmap_mutex,
                   kmem_entry, libVars>>

\* PciDevice::mapBAR(bar)
MapBar(t, bar) ==
    /\ Goto(t, "idle", "lock")
    /\ call' = [call EXCEPT ![t] = [op |-> "bar", bar |-> bar]]
    /\ UNCHANGED <<devVars, modeVars, mmap_mutex, kmem_entry, kh, m_ptr, objs>>

\* Mutant: the mutex is not waited for.
MmapNoLock(t) ==
    /\ Goto(t, "lock", "mode")
    /\ mmap_mutex' = [mmap_mutex EXCEPT ![ProcessOf[t]] = t]
    /\ UNCHANGED <<devVars, modeVars, kmem_entry, libVars>>

\* mmap_lock()
MmapLock(t) ==
    /\ Goto(t, "lock", "mode")
    /\ mmap_mutex[ProcessOf[t]] = None
    /\ mmap_mutex' = [mmap_mutex EXCEPT ![ProcessOf[t]] = t]
    /\ UNCHANGED <<devVars, modeVars, kmem_entry, libVars>>

\* PCIDRIVER_IOC_MMAP_MODE
MmapMode(t) ==
    /\ Goto(t, "mode", IF call[t].op = "bar" THEN "area" ELSE "mmap")
    /\ mmap_mode' = IF call[t].op = "bar" THEN "PCI" ELSE "KMEM"
    /\ UNCHANGED <<devVars, mmap_area, mmap_mutex, kmem_entry, libVars>>

\* Mutant: the areas are counted from one.
MmapAreaFromOne(t) ==
    /\ Goto(t, "area", "mmap")
    /\ mmap_area' = call[t].bar + 1
    /\ UNCHANGED <<devVars, mmap_mode, mmap_mutex, kmem_entry, libVars>>

\* PCIDRIVER_IOC_MMAP_AREA
MmapArea(t) ==
    /\ Goto(t, "area", "mmap")
    /\ mmap_area' = call[t].bar
    /\ UNCHANGED <<devVars, mmap_mode, mmap_mutex, kmem_entry, libVars>>

\* pcidriver_mmap in mode PCI, with pcidriver_mmap_pci...
MmapPci(t) ==
    /\ Goto(t, "mmap", "unlock")
    /\ mmap_mode = "PCI"
    /\ \/ m_ptr' = [m_ptr EXCEPT ![t] = [kind |-> "bar", at |-> mmap_area]]
       \/ UNCHANGED m_ptr
    /\ UNCHANGED <<devVars, modeVars, mmap_mutex, kmem_entry, call, kh, objs>>

\* ... or in mode KMEM: pcidriver_mmap_kmem takes the latest entry of the
\* list under kmemlist_lock, or fails if there is none...
MmapKmem(t) ==
    /\ Goto(t, "mmap", IF kmem_list = <<>> THEN "unlock" ELSE "remap")
    /\ mmap_mode = "KMEM"
    /\ kmem_entry' = IF kmem_list = <<>> THEN kmem_entry
                     ELSE [kmem_entry EXCEPT ![t] = kmem_list[Len(kmem_list)]]
    /\ UNCHANGED <<devVars, modeVars, mmap_mutex, libVars>>

\* ... and maps that entry's area without the lock; remap_pfn_range may fail.
Remap(t) ==
    LET e == kmem_entry[t] IN
    /\ Goto(t, "remap", IF e \in freed THEN "oops" ELSE "unlock")
    /\ \/ /\ e \notin freed
          /\ m_ptr' = [m_ptr EXCEPT ![t] =
                           [kind |-> "kmem", at |-> dma_handle[e]]]
       \/ UNCHANGED m_ptr
    /\ UNCHANGED <<devVars, modeVars, mmap_mutex, kmem_entry, call, kh, objs>>

\* Mutant: a failed mmap leaves the buffer to nobody.
MmapUnlockNoFree(t) ==
    /\ Goto(t, "unlock", "idle")
    /\ mmap_mutex' = [mmap_mutex EXCEPT ![ProcessOf[t]] = None]
    /\ objs' = IF call[t].op = "alloc" /\ m_ptr[t] # None
               THEN objs \cup {[handle |-> kh[t], mem |-> m_ptr[t]]}
               ELSE objs
    /\ Return(t)
    /\ UNCHANGED <<devVars, modeVars, kmem_entry>>

\* mmap_unlock() and the end of the constructor or of mapBAR; a constructor
\* whose mmap failed goes on to free its buffer.
MmapUnlock(t) ==
    LET failed == call[t].op = "alloc" /\ m_ptr[t] = None
    IN  /\ Goto(t, "unlock", IF failed THEN "find" ELSE "idle")
        /\ mmap_mutex' = [mmap_mutex EXCEPT ![ProcessOf[t]] = None]
        /\ objs' = IF call[t].op = "alloc" /\ ~failed
                   THEN objs \cup {[handle |-> kh[t], mem |-> m_ptr[t]]}
                   ELSE objs
        /\ IF failed THEN UNCHANGED <<call, kh, m_ptr>> ELSE Return(t)
        /\ UNCHANGED <<devVars, modeVars, kmem_entry>>

\* ~KernelMemory(): munmap, then PCIDRIVER_IOC_KMEM_FREE with the handle.
KmemFree(t, o) ==
    /\ Goto(t, "idle", "find")
    /\ objs' = objs \ {o}
    /\ call' = [call EXCEPT ![t] = [op |-> "free", bar |-> 0]]
    /\ kh' = [kh EXCEPT ![t] = o.handle]
    /\ UNCHANGED <<devVars, modeVars, mmap_mutex, kmem_entry, m_ptr>>

\* Mutant: every entry matches.
MatchesAny(e, pa) == TRUE

\* pcidriver_kmem_find_entry: the first entry with the handle's bus address,
\* looked up under kmemlist_lock.  The -EINVAL for a handle that has none is
\* left out: it is never reached (FreeFindsEntry).
Matches(e, pa) == dma_handle[e] = pa
FindEntry(t) ==
    /\ Goto(t, "find", "release")
    /\ \E i \in DOMAIN kmem_list :
           /\ Matches(kmem_list[i], kh[t].pa)
           /\ \A j \in 1 .. (i - 1) : ~Matches(kmem_list[j], kh[t].pa)
           /\ kmem_entry' = [kmem_entry EXCEPT ![t] = kmem_list[i]]
    /\ UNCHANGED <<devVars, modeVars, mmap_mutex, libVars>>

\* pcidriver_kmem_free_entry: the DMA area goes first...
Release(t) ==
    LET e == kmem_entry[t]
        bad == e \in freed \/ dma_handle[e] \notin dma
    IN  /\ Goto(t, "release", IF bad THEN "oops" ELSE "unlink")
        /\ dma' = IF bad THEN dma ELSE dma \ {dma_handle[e]}
        /\ UNCHANGED <<kmem_count, kmem_list, dma_handle, freed, modeVars,
                       mmap_mutex, kmem_entry, libVars>>

\* list_del: the entry leaves the list.
Without(e) ==
    LET i == CHOOSE i \in DOMAIN kmem_list : kmem_list[i] = e
    IN  SubSeq(kmem_list, 1, i - 1) \o SubSeq(kmem_list, i + 1, Len(kmem_list))

\* ... then list_del under kmemlist_lock and kfree.
Unlink(t) ==
    LET e == kmem_entry[t]
        bad == e \in freed
    IN  /\ Goto(t, "unlink", IF bad THEN "oops" ELSE "idle")
        /\ kmem_list' = IF bad THEN kmem_list ELSE Without(e)
        /\ freed' = freed \cup {e}
        /\ IF bad THEN UNCHANGED <<call, kh, m_ptr>> ELSE Return(t)
        /\ UNCHANGED <<kmem_count, dma_handle, dma, modeVars, mmap_mutex,
                       kmem_entry, objs>>

-----------------------------------------------------------------------------
AllocSteps(t) == KmemAlloc(t) \/ DmaAlloc(t) \/ DmaAllocFail(t) \/ Link(t)
MmapSteps(t)  == \/ MmapLock(t) \/ MmapMode(t) \/ MmapArea(t) \/ MmapPci(t)
                 \/ MmapKmem(t) \/ Remap(t) \/ MmapUnlock(t)
FreeSteps(t)  == FindEntry(t) \/ Release(t) \/ Unlink(t)

Next == \E t \in Threads :
    \/ AllocSteps(t)
    \/ \E bar \in Bars : MapBar(t, bar)
    \/ MmapSteps(t)
    \/ \E o \in objs : KmemFree(t, o)
    \/ FreeSteps(t)

Spec == Init /\ [][Next]_vars

-----------------------------------------------------------------------------
\* A thread that maps a BAR gets that BAR: within a process the mutex keeps
\* the device-wide mode and area what the thread set them to until its mmap()
\* (PciDevice::mapBAR, ioctl_mmap_mode, ioctl_mmap_area, pcidriver_mmap).
BarMapped == \A t \in Threads :
    call[t].op = "bar" /\ m_ptr[t] # None
      => m_ptr[t] = [kind |-> "bar", at |-> call[t].bar]

\* When no library call is under way, the driver's list and the areas in use
\* are those of the KernelMemory objects that exist: no path, and none of the
\* error paths, leaks a buffer or frees one that is still in use.
NoLeak == (\A t \in Threads : pc[t] = "idle") =>
    /\ {kmem_list[i] : i \in DOMAIN kmem_list} = {o.handle.id : o \in objs}
    /\ dma = {o.handle.pa : o \in objs}

\* Two KernelMemory objects never stand for the same DMA area, although areas
\* are given out again before the entry that had them has left the list.
DistinctAreas == \A o, q \in objs : o.handle.pa = q.handle.pa => o = q

\* A handle that is freed still has its bus address in the list, although the
\* list may hold an older entry with the same address and that one, not the
\* handle's own, is what is found and unlinked: pcidriver_kmem_free never
\* answers -EINVAL to the library.
FreeFindsEntry == \A t \in Threads : pc[t] = "find" =>
    \E i \in DOMAIN kmem_list : dma_handle[kmem_list[i]] = kh[t].pa

\* What the comment in KernelMemory says of the mutex (the race arises when "a
\* separate process" opens the device: "That will use a separate mutex"):
\* within a process an object maps the buffer that was allocated for it.  The
\* code breaks it: the buffer is allocated before the mutex is taken, and
\* mmap_kmem maps whatever buffer is the latest by then.
OwnBuffer == \A o \in objs : o.mem = [kind |-> "kmem", at |-> o.handle.pa]
=============================================================================
