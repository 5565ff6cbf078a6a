------------------------------ MODULE PcieUmem ------------------------------
(***************************************************************************)
(* User memory of the PCIe driver: umem.c, its ioctls (ioctl.c), the sysfs *)
(* attribute umem_unmap (sysfs.c) and the two libraries that use them      *)
(* (UserMemory.cpp, pciDriver_Capi.c).                                     *)
(*                                                                         *)
(*   - a thread maps a buffer: the driver takes its pages, locks them,     *)
(*     maps them for DMA, makes an entry and lists it; the library then    *)
(*     asks for the scatter/gather list.  Any of these steps may fail.     *)
(*     Later the thread synchronises and unmaps the buffer, or it dies and *)
(*     leaves the entry on the list: no code unmaps it then;               *)
(*   - an administrator unmaps an entry by its number through sysfs.       *)
(*                                                                         *)
(* Buffers may share pages.  umemlist_lock only covers the list itself: an *)
(* entry is found under the lock and used after it.  The loops over the    *)
(* pages of a buffer are one step each, every property being about single  *)
(* pages.                                                                  *)
(*                                                                         *)
(* Left out, as they change nothing: the returns of the map call before    *)
(* get_user_pages (a zero size, a failing vmalloc, a handle that cannot be *)
(* read) and a sync call that cannot read its argument.  Also left out: the*)
(* temporary array of ioctl_umem_sgget, which no failing return frees.     *)
(***************************************************************************)
EXTENDS Integers, FiniteSets, SequencesExt

CONSTANTS
    Threads,    \* threads that use the libraries
    Sysfs,      \* the writer of umem_unmap
    Objs,       \* kernel objects: an entry with its pages and sg arrays
    PAGE_SIZE,
    Pages,      \* user pages
    Frame,      \* the page frame behind every page
    Reserved,   \* pages that are PageReserved
    Bufs,       \* the buffers to map: [vma, size]
    MaxMaps,    \* bound: entries ever made
    None        \* no object, no buffer

ASSUME UmemAssumption ==
    /\ PAGE_SIZE \in Nat \ {0}
    /\ Pages \subseteq Nat /\ Reserved \subseteq Pages
    /\ Frame \in [Pages -> Nat]
    /\ Bufs \subseteq [vma : Nat, size : Nat \ {0}]
    /\ \A b \in Bufs : \A k \in 0 .. b.size - 1 :
          (b.vma + k) \div PAGE_SIZE \in Pages
    /\ IsFiniteSet(Objs) /\ IsFiniteSet(Pages) /\ MaxMaps \in Nat \ {0}
    /\ Sysfs \notin Threads /\ None \notin Objs \cup Bufs

Actors == Threads \cup {Sysfs}

VARIABLES
    umem_count,     \* the next id
    umem_list,      \* the objects on the list
    attrs,          \* objects with an attribute umem<id> in sysfs
    dma,            \* objects mapped to bus addresses
    buf,            \* the buffer of each object, None: the object is free
    id,             \* the id of each object's entry
    sg,             \* the bus addresses pci_map_sg gave
    ref,            \* references of the driver to each page
    locked,         \* pages with PG_locked set
    pc, cur,        \* where every actor is, and the object it works on
    got,            \* number of pages its get_user_pages returned
    call,           \* what its library asked for: [api, merged]
    sgl,            \* the list its library received
    spoiled, shared \* history: pages of an entry that two actors unmapped,
                    \* pages that two objects referred to at once

objects == <<umem_count, umem_list, attrs, dma, buf, id, sg>>
pages   == <<ref, locked, spoiled, shared>>
library == <<call, sgl>>
vars    == <<objects, pages, pc, cur, got, library>>

-----------------------------------------------------------------------------
Offset(b) == b.vma % PAGE_SIZE
Least(m, n) == IF m < n THEN m ELSE n

\* nr_pages: (offset + size + ~PAGE_MASK) >> PAGE_SHIFT
NrPages(b) == (Offset(b) + b.size + PAGE_SIZE - 1) \div PAGE_SIZE

\* The first n pages that get_user_pages finds from vma on.
FirstPages(b, n) == {(b.vma \div PAGE_SIZE) + k : k \in 0 .. n - 1}
PagesOf(b) == FirstPages(b, NrPages(b))

\* Mutant: the first entry has the length of a whole page.
SgListWhole(b) ==
    [k \in 1 .. NrPages(b) |->
        [addr |-> Frame[(b.vma \div PAGE_SIZE) + k - 1] * PAGE_SIZE
                    + (IF k = 1 THEN Offset(b) ELSE 0),
         size |-> Least(b.size - (k - 1) * PAGE_SIZE, PAGE_SIZE)]]

\* The scatter list: "page0 is different", the others take what is left.
SgList(b) ==
    LET length == Least(b.size, PAGE_SIZE - Offset(b)) IN
    [k \in 1 .. NrPages(b) |->
        IF k = 1
        THEN [addr |-> Frame[b.vma \div PAGE_SIZE] * PAGE_SIZE + Offset(b),
              size |-> length]
        ELSE [addr |-> Frame[(b.vma \div PAGE_SIZE) + k - 1] * PAGE_SIZE,
              size |-> Least(b.size - length - (k - 2) * PAGE_SIZE, PAGE_SIZE)]]

\* An entry that begins where the last one ends is joined to it, an empty
\* one is skipped (pcidriver_umem_sgget, PCIDRIVER_SG_MERGED).
Joined(list, e) ==
    IF e.addr = Last(list).addr + Last(list).size
    THEN [list EXCEPT ![Len(list)].size = @ + e.size]
    ELSE IF e.size = 0 THEN list ELSE Append(list, e)
Merged(list) == FoldLeft(Joined, <<Head(list)>>, Tail(list))

\* The list as it is, but for an empty last entry.
Plain(list) == IF Last(list).size = 0 THEN Front(list) ELSE list

\* Mutant: the C++ library asks for as many as the C library.
RoomShort(b, api) == (b.size \div PAGE_SIZE) + 1

\* Entries that the caller has room for.
Room(b, api) == (b.size \div PAGE_SIZE) + (IF api = "cpp" THEN 2 ELSE 1)

-----------------------------------------------------------------------------
Idle == "idle"      \* no buffer
Held == "held"      \* the thread has a buffer

\* Inside an ioctl, by what comes next.
Mapping   == {"pages", "lock", "sg", "entry", "attr", "link", "unsg", "put"}
Using     == {"copy", "sync"}
Unmapping == {"unattr", "undma", "release", "unlink"}

TypeOK ==
    /\ umem_count \in 0 .. MaxMaps
    /\ umem_list \subseteq Objs /\ attrs \subseteq Objs /\ dma \subseteq Objs
    /\ buf \in [Objs -> Bufs \cup {None}]
    /\ id \in [Objs -> 0 .. MaxMaps - 1]
    /\ ref \in [Pages -> Int] /\ locked \subseteq Pages
    /\ pc \in [Actors -> {Idle, Held, "sgget", "refused", "short", "oops"}
                            \cup Mapping \cup Using \cup Unmapping]
    /\ cur \in [Actors -> Objs \cup {None}]
    /\ got \in [Actors -> 0 .. Cardinality(Pages)]
    /\ call \in [Threads -> [api : {"cpp", "c"}, merged : BOOLEAN]]
    /\ spoiled \subseteq Pages /\ shared \subseteq Pages

NoCall == [api |-> "c", merged |-> TRUE]

Init ==
    /\ umem_count = 0 /\ umem_list = {} /\ attrs = {} /\ dma = {}
    /\ buf = [o \in Objs |-> None] /\ id = [o \in Objs |-> 0]
    /\ sg = [o \in Objs |-> << >>]
    /\ ref = [p \in Pages |-> 0] /\ locked = {} /\ spoiled = {} /\ shared = {}
    /\ pc = [a \in Actors |-> Idle] /\ cur = [a \in Actors |-> None]
    /\ got = [a \in Actors |-> 0]
    /\ call = [t \in Threads |-> NoCall]
    /\ sgl = [t \in Threads |-> << >>]

Goto(a, p) == pc' = [pc EXCEPT ![a] = p]

\* The thread gives up its buffer.
Forget(t) == /\ cur' = [cur EXCEPT ![t] = None]
             /\ sgl' = [sgl EXCEPT ![t] = << >>]
             /\ call' = [call EXCEPT ![t] = NoCall]
             /\ Goto(t, Idle)

\* Take or give back one reference to each page of ps.
Refer(ps, d) == ref' = [p \in Pages |-> IF p \in ps THEN ref[p] + d ELSE ref[p]]

-----------------------------------------------------------------------------
(***************************************************************************)
(* pcidriver_umem_sgmap                                                    *)
(***************************************************************************)

\* A library call maps b.  The C interface always asks for a merged list.
MapUser(t, b, api, merged) ==
    /\ pc[t] = Idle /\ (api = "c" => merged)
    /\ umem_count < MaxMaps
    /\ \E o \in Objs :
          /\ buf[o] = None
          /\ buf' = [buf EXCEPT ![o] = b]
          /\ cur' = [cur EXCEPT ![t] = o]
    /\ call' = [call EXCEPT ![t] = [api |-> api, merged |-> merged]]
    /\ Goto(t, "pages")
    /\ UNCHANGED <<umem_count, umem_list, attrs, dma, id, sg, pages, got, sgl>>

\* get_user_pages: all pages, or the first n, which are released again.
GetPages(t, n) ==
    LET b == buf[cur[t]] IN
    /\ pc[t] = "pages" /\ n <= NrPages(b)
    /\ Refer(FirstPages(b, n), 1)
    /\ got' = [got EXCEPT ![t] = n]
    /\ shared' = shared \cup {p \in FirstPages(b, n) : ref[p] > 0}
    /\ Goto(t, IF n = NrPages(b) THEN "lock" ELSE "put")
    /\ UNCHANGED <<objects, locked, spoiled, cur, library>>

LockPages(t) ==
    /\ pc[t] = "lock"
    /\ locked' = locked \cup (PagesOf(buf[cur[t]]) \ Reserved)
    /\ Goto(t, "sg")
    /\ UNCHANGED <<objects, ref, spoiled, shared, cur, got, library>>

\* pci_map_sg (external) fails, or maps the list, joining entries or not.
MapSg(t) ==
    LET o == cur[t] IN
    /\ pc[t] = "sg"
    /\ \/ /\ Goto(t, "put")
          /\ UNCHANGED <<dma, sg>>
       \/ /\ sg' \in {[sg EXCEPT ![o] = list] :
                          list \in {SgList(buf[o]), Merged(SgList(buf[o]))}}
          /\ dma' = dma \cup {o}
          /\ Goto(t, "entry")
    /\ UNCHANGED <<umem_count, umem_list, attrs, buf, id, pages, cur, got, library>>

\* Mutant: atomic_inc_return without the - 1.
NewEntryFromOne(t) ==
    /\ pc[t] = "entry"
    /\ \/ /\ Goto(t, "unsg")
          /\ UNCHANGED <<umem_count, id>>
       \/ /\ umem_count < MaxMaps
          /\ umem_count' = umem_count + 1
          /\ id' = [id EXCEPT ![cur[t]] = umem_count + 1]
          /\ Goto(t, "attr")
    /\ UNCHANGED <<umem_list, attrs, dma, buf, sg, pages, cur, got, library>>

\* kmalloc fails, or the entry is filled in.
NewEntry(t) ==
    /\ pc[t] = "entry"
    /\ \/ /\ Goto(t, "unsg")
          /\ UNCHANGED <<umem_count, id>>
       \/ /\ umem_count < MaxMaps
          /\ umem_count' = umem_count + 1
          /\ id' = [id EXCEPT ![cur[t]] = umem_count]
          /\ Goto(t, "attr")
    /\ UNCHANGED <<umem_list, attrs, dma, buf, sg, pages, cur, got, library>>

\* Mutant: a failure goes to umem_sgmap_unmap, past pci_unmap_sg.
InitAttrSkips(t) ==
    /\ pc[t] = "attr"
    /\ \/ /\ Goto(t, "put")
          /\ UNCHANGED attrs
       \/ /\ attrs' = attrs \cup {cur[t]}
          /\ Goto(t, "link")
    /\ UNCHANGED <<umem_count, umem_list, dma, buf, id, sg, pages, cur, got, library>>

\* pcidriver_sysfs_initialize_umem fails and the entry is freed, or not.
InitAttr(t) ==
    /\ pc[t] = "attr"
    /\ \/ /\ Goto(t, "unsg")
          /\ UNCHANGED attrs
       \/ /\ attrs' = attrs \cup {cur[t]}
          /\ Goto(t, "link")
    /\ UNCHANGED <<umem_count, umem_list, dma, buf, id, sg, pages, cur, got, library>>

\* list_add_tail; the library has its handle.
Link(t) ==
    /\ pc[t] = "link"
    /\ umem_list' = umem_list \cup {cur[t]}
    /\ got' = [got EXCEPT ![t] = 0]
    /\ Goto(t, "sgget")
    /\ UNCHANGED <<umem_count, attrs, dma, buf, id, sg, pages, cur, library>>

\* umem_sgmap_entry: pci_unmap_sg
UnmapSg(t) ==
    /\ pc[t] = "unsg"
    /\ dma' = dma \ {cur[t]}
    /\ Goto(t, "put")
    /\ UNCHANGED <<umem_count, umem_list, attrs, buf, id, sg, pages, cur, got, library>>

\* Mutant: the pages that were asked for are released, not the ones gotten.
PutPagesAll(t) ==
    LET ps == PagesOf(buf[cur[t]]) IN
    /\ pc[t] = "put"
    /\ locked' = locked \ ps
    /\ Refer(ps, -1)
    /\ buf' = [buf EXCEPT ![cur[t]] = None]
    /\ sg' = [sg EXCEPT ![cur[t]] = << >>]
    /\ id' = [id EXCEPT ![cur[t]] = 0]
    /\ got' = [got EXCEPT ![t] = 0]
    /\ Forget(t)
    /\ UNCHANGED <<umem_count, umem_list, attrs, dma, spoiled, shared>>

\* umem_sgmap_unmap: whatever pages the call got are unlocked if they are
\* locked, by whomever, and released.  The library throws or returns -1.
PutPages(t) ==
    LET ps == FirstPages(buf[cur[t]], got[t]) IN
    /\ pc[t] = "put"
    /\ locked' = locked \ ps
    /\ Refer(ps, -1)
    /\ buf' = [buf EXCEPT ![cur[t]] = None]
    /\ sg' = [sg EXCEPT ![cur[t]] = << >>]
    /\ id' = [id EXCEPT ![cur[t]] = 0]
    /\ got' = [got EXCEPT ![t] = 0]
    /\ Forget(t)
    /\ UNCHANGED <<umem_count, umem_list, attrs, dma, spoiled, shared>>

-----------------------------------------------------------------------------
(***************************************************************************)
(* pcidriver_umem_sgget and pcidriver_umem_sync: find the entry under the  *)
(* lock, use it afterwards.                                                *)
(***************************************************************************)

\* pcidriver_umem_sgget: the entry is gone, unmapped through sysfs, or the
\* caller's array is too short for it, or the list can be made.
SgFound(t) ==
    LET o == cur[t] IN
    CASE o \notin umem_list -> "refused"
      [] o \in umem_list /\ Len(sg[o]) > Room(buf[o], call[t].api) -> "short"
      [] OTHER -> "copy"

\* ioctl_umem_sgget up to the copy of the list: the request or its array
\* cannot be read or vmalloc fails, whatever the handle, or the driver looks
\* for the entry.
SgGet(t) ==
    /\ pc[t] = "sgget"
    /\ Goto(t, "refused") \/ Goto(t, SgFound(t))
    /\ UNCHANGED <<objects, pages, cur, got, library>>

\* The list is built, and copied to the caller or not.
SgCopy(t) ==
    /\ pc[t] = "copy"
    /\ \/ /\ sgl' = [sgl EXCEPT ![t] = IF call[t].merged THEN Merged(sg[cur[t]])
                                                         ELSE Plain(sg[cur[t]])]
          /\ Goto(t, Held)
       \/ /\ Goto(t, "refused")
          /\ UNCHANGED sgl
    /\ UNCHANGED <<objects, pages, cur, got, call>>

\* An entry that is gone is an exception, and the thread keeps its object.
SyncFind(t) ==
    /\ pc[t] = Held /\ cur[t] \in umem_list
    /\ Goto(t, "sync")
    /\ UNCHANGED <<objects, pages, cur, got, library>>

SyncUse(t) ==
    /\ pc[t] = "sync"
    /\ Goto(t, Held)
    /\ UNCHANGED <<objects, pages, cur, got, library>>

-----------------------------------------------------------------------------
(***************************************************************************)
(* pcidriver_umem_sgunmap, from an ioctl or from sysfs.                    *)
(***************************************************************************)

\* a has found o and begins to unmap it; another actor may be at it.
Unmap(a, o) ==
    /\ Goto(a, "unattr")
    /\ cur' = [cur EXCEPT ![a] = o]
    /\ spoiled' = IF \E c \in Actors \ {a} : cur[c] = o /\ pc[c] \in Unmapping
                  THEN spoiled \cup PagesOf(buf[o]) ELSE spoiled
    /\ UNCHANGED <<objects, ref, locked, shared, got, library>>

\* ioctl_umem_sgunmap, for a buffer that was used or whose list was refused:
\* an unknown handle is -EINVAL, and the library gives up its buffer.
Destruct(t) ==
    /\ pc[t] \in {Held, "refused", "short"}
    /\ \/ /\ cur[t] \in umem_list
          /\ Unmap(t, cur[t])
       \/ /\ cur[t] \notin umem_list
          /\ Forget(t)
          /\ UNCHANGED <<objects, pages, got>>

\* pcidriver_store_umem_unmap
StoreUmemUnmap(n) ==
    /\ pc[Sysfs] = Idle /\ n < umem_count
    /\ \E o \in umem_list : id[o] = n /\ Unmap(Sysfs, o)

\* pcidriver_sysfs_remove
UnAttr(a) ==
    /\ pc[a] = "unattr"
    /\ attrs' = attrs \ {cur[a]}
    /\ Goto(a, "undma")
    /\ UNCHANGED <<umem_count, umem_list, dma, buf, id, sg, pages, cur, got, library>>

\* pci_unmap_sg
UnDma(a) ==
    /\ pc[a] = "undma"
    /\ dma' = dma \ {cur[a]}
    /\ Goto(a, "release")
    /\ UNCHANGED <<umem_count, umem_list, attrs, buf, id, sg, pages, cur, got, library>>

ReleasePages(a) ==
    LET ps == PagesOf(buf[cur[a]]) IN
    /\ pc[a] = "release"
    /\ locked' = locked \ (ps \ Reserved)
    /\ Refer(ps, -1)
    /\ Goto(a, "unlink")
    /\ UNCHANGED <<objects, spoiled, shared, cur, got, library>>

\* list_del, and the memory of the object is freed.  Whoever else found the
\* object faults at its next access, the arrays being unmapped by vfree; a
\* thread between two calls keeps a handle that is no longer valid.
Unlink(a) ==
    LET o == cur[a]
        in(c) == c # a /\ cur[c] = o /\ pc[c] \in Using \cup Unmapping
        out(c) == cur[c] = o /\ ~in(c)
    IN
    /\ pc[a] = "unlink"
    /\ umem_list' = umem_list \ {o}
    /\ buf' = [buf EXCEPT ![o] = None]
    /\ sg' = [sg EXCEPT ![o] = << >>]
    /\ id' = [id EXCEPT ![o] = 0]
    /\ pc' = [c \in Actors |-> IF c = a THEN Idle ELSE IF in(c) THEN "oops" ELSE pc[c]]
    /\ cur' = [c \in Actors |-> IF out(c) \/ in(c) THEN None ELSE cur[c]]
    /\ sgl' = [t \in Threads |-> IF cur'[t] = None THEN << >> ELSE sgl[t]]
    /\ call' = [t \in Threads |-> IF pc'[t] \in {Idle, "oops"} THEN NoCall ELSE call[t]]
    /\ UNCHANGED <<umem_count, attrs, dma, pages, got>>

\* The thread gives up a buffer that stays mapped: its process ends between
\* two calls and pcidriver_release does nothing for it, its library has no
\* memory for a list, or the handle cannot be copied to or from the caller.
Exit(t) ==
    /\ pc[t] \in {Held, "sgget", "refused", "short"}
    /\ Forget(t)
    /\ UNCHANGED <<objects, pages, got>>

Next ==
    \/ \E t \in Threads, b \in Bufs, api \in {"cpp", "c"}, merged \in BOOLEAN :
          MapUser(t, b, api, merged)
    \/ \E t \in Threads, n \in 0 .. Cardinality(Pages) : GetPages(t, n)
    \/ \E t \in Threads :
          \/ LockPages(t) \/ MapSg(t) \/ NewEntry(t) \/ InitAttr(t) \/ Link(t)
          \/ UnmapSg(t) \/ PutPages(t)
          \/ SgGet(t) \/ SgCopy(t) \/ SyncFind(t) \/ SyncUse(t)
          \/ Destruct(t) \/ Exit(t)
    \/ \E n \in 0 .. MaxMaps - 1 : StoreUmemUnmap(n)
    \/ \E a \in Actors : UnAttr(a) \/ UnDma(a) \/ ReleasePages(a) \/ Unlink(a)

Spec == Init /\ [][Next]_vars

-----------------------------------------------------------------------------
\* The pages of an object, and the objects of objs that have page p.
Has(o) == IF buf[o] = None THEN {} ELSE PagesOf(buf[o])
On(p, objs) == {o \in objs : p \in Has(o)}

\* While a buffer is mapped for DMA each of its pages is referred to once for
\* every mapping of it: no failure of another call, no unmapping of a buffer
\* on the same pages and no death of a thread lets a page go that the board
\* may write to.  Only pages of an entry that two actors unmapped at once,
\* an ioctl and sysfs, are exempt (umem.c).
PinnedWhileMapped == \A p \in Pages \ spoiled :
    ref[p] >= Cardinality(On(p, dma))

InCall(a) == pc[a] \in Mapping \cup Using \cup Unmapping

\* When no call is in progress every reference, lock, DMA mapping and
\* attribute belongs to an entry on the list, whatever failed before: what
\* a dead process leaves behind can be unmapped through sysfs.
QuietClean ==
    (spoiled = {} /\ \A a \in Actors : ~InCall(a) /\ pc[a] # "oops") =>
        /\ attrs = umem_list /\ dma = umem_list
        /\ {o \in Objs : buf[o] # None} = umem_list
        /\ \A p \in Pages : /\ ref[p] = Cardinality(On(p, umem_list))
                            /\ p \in locked => On(p, umem_list) # {}

\* The bytes of a list, in order.
Bytes(list) == FlattenSeq([k \in 1 .. Len(list) |->
                   [j \in 1 .. list[k].size |-> list[k].addr + j - 1]])

\* The list a library received names every byte of the buffer once and in
\* order, without empty entries, and no two entries of a merged list could be
\* joined: for any offset, size and placement of the frames, and whatever
\* pci_map_sg joined itself.
SgExact == \A t \in Threads : pc[t] \in {Held, "sync"} /\ cur[t] # None =>
    LET b == buf[cur[t]] IN
    /\ Bytes(sgl[t]) = [k \in 1 .. b.size |->
           LET v == b.vma + k - 1
           IN  Frame[v \div PAGE_SIZE] * PAGE_SIZE + (v % PAGE_SIZE)]
    /\ \A k \in 1 .. Len(sgl[t]) : sgl[t][k].size > 0
    /\ call[t].merged => \A k \in 1 .. Len(sgl[t]) - 1 :
           sgl[t][k].addr + sgl[t][k].size # sgl[t][k + 1].addr

\* The array of the C++ library is never too short for the list of a buffer,
\* whatever its offset, its size and what pci_map_sg joined: only the C
\* library, which asks for one entry less, is refused for that
\* (UserMemory::UserMemory, pd_mapUserMemory).
CppHasRoom == \A t \in Threads : pc[t] = "short" => call[t].api = "c"
=============================================================================
