--------------------------- MODULE PcieUmemProofs ---------------------------
(***************************************************************************)
(* No page of a buffer that is mapped for DMA is let go or unlocked, and   *)
(* nothing is left behind when no call is in progress: for any number of   *)
(* threads, buffers and pages, any sharing of pages between buffers, and   *)
(* any failure on the way.                                                 *)
(*                                                                         *)
(* The references to a page are not counted per buffer anywhere in the     *)
(* code, so the invariant says who accounts for each of them: an object    *)
(* on the list until an actor released its pages, and an object that a     *)
(* thread is still mapping for the pages it got.                           *)
(***************************************************************************)
EXTENDS PcieUmem, FiniteSetTheorems, SequenceTheorems, WellFoundedInduction, TLAPS

-----------------------------------------------------------------------------
\* The places of a call to map a buffer where its pages are locked, where it
\* is mapped for DMA, and the places of an unmapping where it no longer is.
Locking == {"sg", "entry", "attr", "link", "unsg"}
Dma     == {"entry", "attr", "link", "unsg"}
NoAttr  == {"undma", "release", "unlink"}
NoDma   == {"release", "unlink"}

\* An actor a: whether it has an object, whether that object is listed, and
\* the pages it took so far.
ActorOk(a) ==
    /\ cur[a] # None => buf[cur[a]] # None
    /\ pc[a] \in Mapping \cup Using \cup Unmapping => cur[a] # None
    /\ pc[a] \in {Idle, "oops"} => cur[a] = None
    /\ cur[a] # None => (pc[a] \in Mapping <=> cur[a] \notin umem_list)
    /\ pc[a] \notin Mapping \/ pc[a] = "pages" => got[a] = 0
    /\ pc[a] = "lock" \/ pc[a] \in Locking => got[a] = NrPages(buf[cur[a]])
    /\ pc[a] \in Mapping => /\ cur[a] \in attrs <=> pc[a] = "link"
                            /\ cur[a] \in dma <=> pc[a] \in Dma

\* The administrator only unmaps, and an object belongs to one thread.
Ownership ==
    /\ pc[Sysfs] \in Unmapping \cup {Idle, "oops"}
    /\ \A s, t \in Threads : cur[s] = cur[t] /\ cur[s] # None => s = t

\* Some actor works on o at one of the places ps.
Busy(o, ps) == \E a \in Actors : cur[a] = o /\ pc[a] \in ps

\* An object o: it is free, listed, or a thread is mapping it; a listed one
\* has its attribute and its mapping until an actor has removed them.
ObjOk(o) ==
    /\ o \in umem_list \cup attrs \cup dma => buf[o] # None
    /\ buf[o] # None /\ o \notin umem_list => \E t \in Threads : cur[t] = o
    /\ o \in umem_list => /\ o \in attrs <=> ~Busy(o, NoAttr)
                          /\ o \in dma <=> ~Busy(o, NoDma)

\* The object o accounts for a reference to page p.
Holds(o, p) ==
    \/ /\ o \in umem_list /\ p \in PagesOf(buf[o])
       /\ ~Busy(o, {"unlink"})
    \/ /\ o \notin umem_list
       /\ \E t \in Threads : cur[t] = o /\ p \in FirstPages(buf[o], got[t])
Holders(p) == {o \in Objs : Holds(o, p)}

\* The pages of o were locked for it.
Past(o) == o \in umem_list \/ \E t \in Threads : cur[t] = o /\ pc[t] \in Locking

RefExact == \A p \in Pages \ spoiled : ref[p] = Cardinality(Holders(p))

SpoilExact == \A a, c \in Actors :
    /\ a # c /\ cur[a] = cur[c]
    /\ pc[a] \in Unmapping /\ pc[c] \in Unmapping
    => PagesOf(buf[cur[a]]) \subseteq spoiled

SharedExact == \A p \in Pages \ (shared \cup spoiled), o, q \in Objs :
    Holds(o, p) /\ Holds(q, p) => o = q

LockExact ==
    /\ \A p \in Pages \ (Reserved \cup shared \cup spoiled), o \in Objs :
          Holds(o, p) /\ Past(o) => p \in locked
    /\ locked \cap Reserved = {}
    /\ \A p \in locked \ spoiled : \E o \in Objs : Holds(o, p)

Structure == /\ TypeOK /\ Ownership
             /\ \A a \in Actors : ActorOk(a)
             /\ \A o \in Objs : ObjOk(o)
Inv == Structure /\ RefExact /\ SpoilExact /\ SharedExact /\ LockExact

-----------------------------------------------------------------------------
(***************************************************************************)
(* Pages and counting.                                                     *)
(***************************************************************************)

\* The page k places after the first one holds a byte of the buffer, if k is
\* less than nr_pages.
LEMMA PageHasByte ==
    ASSUME NEW v \in Nat, NEW s \in Nat \ {0}, NEW P \in Nat \ {0},
           NEW k \in 0 .. (((v % P) + s + P - 1) \div P) - 1
    PROVE  \E j \in 0 .. s - 1 : (v + j) \div P = (v \div P) + k
<1> DEFINE q == v \div P
           r == v % P
           n == (r + s + P - 1) \div P
<1>1. v = q * P + r /\ r \in 0 .. P-1 /\ q \in Nat
  OBVIOUS
<1>2. n * P <= r + s + P - 1 /\ n \in Nat
  <2> DEFINE m == r + s + P - 1
  <2>1. m \in Nat
    BY <1>1
  <2> HIDE DEF m
  <2>2. m = (m \div P) * P + (m % P) /\ m % P >= 0 /\ m \div P \in Nat
    BY <2>1
  <2> QED
    BY <2>1, <2>2 DEF m
<1>3. k * P <= r + s - 1 /\ k \in Nat
  <2>1. k \in Nat /\ k <= n - 1
    BY <1>2
  <2> HIDE DEF n, r
  <2> QED
    BY <1>1, <1>2, <2>1
<1>4. CASE k = 0
  BY <1>4
<1>5. CASE k > 0
  <2> DEFINE j == k * P - r
  <2>0. k * P >= P
    BY <1>3, <1>5
  <2>1. j \in 0 .. s - 1
    BY <1>1, <1>3, <2>0
  <2>2. v + j = (q + k) * P
    <3> HIDE DEF q, r
    <3> QED
      BY <1>1, <1>3
  <2>3. q + k \in Nat
    BY <1>1, <1>3
  <2>4. \A x \in Nat : (x * P) \div P = x
    OBVIOUS
  <2> HIDE DEF q, j
  <2> QED
    BY <2>1, <2>2, <2>3, <2>4 DEF q
<1> QED
  BY <1>3, <1>4, <1>5

\* get_user_pages only finds pages of the program.
LEMMA PagesType ==
    ASSUME NEW b \in Bufs
    PROVE  PagesOf(b) \subseteq Pages
<1>0. b.vma \in Nat /\ b.size \in Nat \ {0} /\ PAGE_SIZE \in Nat \ {0}
  BY UmemAssumption
<1> SUFFICES ASSUME NEW k \in 0 .. NrPages(b) - 1
             PROVE  (b.vma \div PAGE_SIZE) + k \in Pages
  BY DEF PagesOf, FirstPages
<1>1. PICK j \in 0 .. b.size - 1 :
          (b.vma + j) \div PAGE_SIZE = (b.vma \div PAGE_SIZE) + k
  BY <1>0, PageHasByte DEF NrPages, Offset
<1> QED
  BY <1>1, UmemAssumption

\* Fewer pages are a part of them, and no pages are none.
LEMMA FirstPagesType ==
    ASSUME NEW b \in Bufs
    PROVE  /\ NrPages(b) \in Nat \ {0}
           /\ FirstPages(b, 0) = {}
           /\ \A n \in Int : n <= NrPages(b) => FirstPages(b, n) \subseteq PagesOf(b)
           /\ PagesOf(b) # {}
<1>0. b.vma \in Nat /\ b.size \in Nat \ {0} /\ PAGE_SIZE \in Nat \ {0}
  BY UmemAssumption
<1>1. NrPages(b) \in Nat \ {0}
  <2> DEFINE m == Offset(b) + b.size + PAGE_SIZE - 1
  <2>0. Offset(b) \in Nat
    BY <1>0 DEF Offset
  <2>1. m \in Nat /\ m >= PAGE_SIZE
    BY <1>0, <2>0
  <2> HIDE DEF m
  <2>2. m \div PAGE_SIZE \in Nat /\ m = (m \div PAGE_SIZE) * PAGE_SIZE + (m % PAGE_SIZE)
        /\ m % PAGE_SIZE < PAGE_SIZE
    BY <1>0, <2>1
  <2>3. m \div PAGE_SIZE # 0
    BY <1>0, <2>1, <2>2
  <2> QED
    BY <2>2, <2>3 DEF NrPages, m
<1>2. FirstPages(b, 0) = {}
  BY DEF FirstPages
<1>3. \A n \in Int : n <= NrPages(b) => FirstPages(b, n) \subseteq PagesOf(b)
  BY <1>1 DEF FirstPages, PagesOf
<1>4. (b.vma \div PAGE_SIZE) + 0 \in PagesOf(b)
  BY <1>1 DEF FirstPages, PagesOf
<1> QED
  BY <1>1, <1>2, <1>3, <1>4

\* A member joins the holders of a page, or leaves them.
LEMMA Counting ==
    ASSUME NEW H \in SUBSET Objs, NEW o \in Objs
    PROVE  /\ IsFiniteSet(H) /\ Cardinality(H) \in Nat
           /\ o \in H => Cardinality(H) > 0
           /\ o \notin H => Cardinality(H \cup {o}) = Cardinality(H) + 1
           /\ o \in H => Cardinality(H \ {o}) = Cardinality(H) - 1
<1>1. IsFiniteSet(H)
  BY UmemAssumption, FS_Subset
<1>2. Cardinality(H) \in Nat
  BY <1>1, FS_CardinalityType
<1>3. o \in H => Cardinality(H) # 0
  BY <1>1, FS_EmptySet
<1>4. o \notin H => Cardinality(H \cup {o}) = Cardinality(H) + 1
  BY <1>1, FS_AddElement
<1>5. o \in H => Cardinality(H \ {o}) = Cardinality(H) - 1
  BY <1>1, FS_RemoveElement
<1> QED
  BY <1>1, <1>2, <1>3, <1>4, <1>5

\* The pages of the program can be counted.
LEMMA PagesCount == Cardinality(Pages) \in Nat /\ 0 \in 0 .. Cardinality(Pages)
<1>1. Cardinality(Pages) \in Nat
  BY UmemAssumption, FS_CardinalityType
<1> QED
  BY <1>1

-----------------------------------------------------------------------------
(***************************************************************************)
(* Actors and objects.                                                     *)
(***************************************************************************)

\* The places of the calls.
LEMMA Places ==
    /\ Idle = "idle" /\ Held = "held"
    /\ Mapping \cap Unmapping = {} /\ Mapping \cap Using = {}
    /\ Using \cap Unmapping = {}
    /\ Locking \subseteq Mapping /\ Dma \subseteq Locking
    /\ NoAttr \subseteq Unmapping /\ NoDma \subseteq NoAttr
    /\ \A x \in {"idle", "held", "sgget", "refused", "short", "oops"} :
          x \notin Mapping \cup Unmapping \cup Using
    /\ "unlink" \in NoDma /\ "pages" \in Mapping /\ "lock" \in Mapping
    /\ "put" \in Mapping /\ "pages" \notin Locking /\ "lock" \notin Locking
    /\ "put" \notin Locking
BY DEF Idle, Held, Mapping, Unmapping, Using, Locking, Dma, NoAttr, NoDma

\* Who maps a buffer is a thread, and nobody else works on its object.
LEMMA MapperAlone ==
    ASSUME Structure, NEW a \in Actors, pc[a] \in Mapping,
           NEW c \in Actors, cur[c] = cur[a]
    PROVE  a \in Threads /\ c = a
<1>1. cur[a] # None /\ cur[a] \notin umem_list
  BY Places DEF Structure, ActorOk
<1>2. pc[c] \in Mapping
  BY <1>1 DEF Structure, ActorOk
<1>3. a # Sysfs /\ c # Sysfs
  BY <1>2, Places DEF Structure, Ownership
<1> QED
  BY <1>1, <1>3 DEF Structure, Ownership, Actors

\* A step of one actor that keeps its object, the list and the buffers.
LEMMA LocalStep ==
    ASSUME Structure, NEW a \in Actors, NEW q,
           pc' = [pc EXCEPT ![a] = q], cur' = cur, buf' = buf,
           umem_list' = umem_list,
           \A c \in Actors \ {a} : got'[c] = got[c],
           \A o \in Objs : o # cur[a] => /\ o \in attrs' <=> o \in attrs
                                         /\ o \in dma' <=> o \in dma,
           TypeOK', ActorOk(a)',
           a = Sysfs => q \in Unmapping,
           cur[a] \in Objs => ObjOk(cur[a])'
    PROVE  Structure'
<1>0. pc'[a] = q /\ \A c \in Actors \ {a} : pc'[c] = pc[c]
  BY DEF Structure, TypeOK
<1>1. Ownership'
  BY <1>0 DEF Structure, Ownership, Actors
<1>2. ASSUME NEW c \in Actors, c # a PROVE ActorOk(c)'
  <2>1. CASE pc[c] \in Mapping
    <3>1. cur[c] \in Objs /\ cur[c] # cur[a]
      BY <1>2, <2>1, MapperAlone, UmemAssumption DEF Structure, TypeOK, ActorOk
    <3>2. (cur[c] \in attrs' <=> cur[c] \in attrs) /\ (cur[c] \in dma' <=> cur[c] \in dma)
      BY <3>1
    <3> QED
      BY <1>0, <1>2, <3>2 DEF Structure, ActorOk
  <2>2. CASE pc[c] \notin Mapping
    BY <1>0, <1>2, <2>2 DEF Structure, ActorOk
  <2> QED
    BY <2>1, <2>2
<1>3. ASSUME NEW o \in Objs, o # cur[a] PROVE ObjOk(o)'
  <2>1. \A ps : Busy(o, ps)' <=> Busy(o, ps)
    BY <1>0, <1>3 DEF Busy
  <2> QED
    BY <1>3, <2>1 DEF Structure, ObjOk
<1> QED
  BY <1>1, <1>2, <1>3 DEF Structure

\* A step of such an actor leaves the accounts of the pages alone, if it does
\* not release them.
LEMMA LocalHolds ==
    ASSUME Structure, NEW a \in Actors, NEW q,
           pc' = [pc EXCEPT ![a] = q], cur' = cur, buf' = buf, got' = got,
           umem_list' = umem_list, q = "unlink" <=> pc[a] = "unlink"
    PROVE  \A o \in Objs, p \in Pages : Holds(o, p)' <=> Holds(o, p)
<1>0. pc'[a] = q /\ \A c \in Actors \ {a} : pc'[c] = pc[c]
  BY DEF Structure, TypeOK
<1>1. \A o : Busy(o, {"unlink"})' <=> Busy(o, {"unlink"})
  BY <1>0 DEF Busy
<1> QED
  BY <1>1 DEF Holds

\* Where no account and no lock changes, the invariant on pages holds on.
LEMMA PageFrame ==
    ASSUME Inv, Structure', SpoilExact',
           \A o \in Objs, p \in Pages : Holds(o, p)' <=> Holds(o, p),
           \A o \in Objs, p \in Pages : Holds(o, p) /\ Past(o)' => Past(o),
           ref' = ref, locked' = locked, shared' = shared,
           spoiled \subseteq spoiled'
    PROVE  Inv'
<1>1. RefExact'
  <2>1. \A p \in Pages : Holders(p)' = Holders(p)
    BY DEF Holders
  <2> QED
    BY <2>1 DEF Inv, RefExact
<1>2. SharedExact'
  BY DEF Inv, SharedExact
<1>3. LockExact'
  <2>0. locked \subseteq Pages
    BY DEF Inv, Structure, TypeOK
  <2> QED
    BY <2>0 DEF Inv, LockExact
<1> QED
  BY <1>1, <1>2, <1>3 DEF Inv

\* No second actor begins to unmap an object.
LEMMA SpoilFrame ==
    ASSUME Inv, NEW a \in Actors, NEW q, pc' = [pc EXCEPT ![a] = q],
           cur' = cur, buf' = buf, spoiled' = spoiled,
           q \in Unmapping => pc[a] \in Unmapping
    PROVE  SpoilExact'
BY DEF Inv, Structure, TypeOK, SpoilExact

\* A step that changes no page, or that does not touch the accounts, of an
\* actor that keeps its object: what is left to show is about that actor.
LEMMA QuietStep ==
    ASSUME Inv, NEW a \in Actors, NEW q,
           pc' = [pc EXCEPT ![a] = q], cur' = cur, buf' = buf, got' = got,
           umem_list' = umem_list,
           \A o \in Objs : o # cur[a] => /\ o \in attrs' <=> o \in attrs
                                         /\ o \in dma' <=> o \in dma,
           TypeOK', ActorOk(a)',
           a = Sysfs => q \in Unmapping,
           cur[a] \in Objs => ObjOk(cur[a])',
           q = "unlink" <=> pc[a] = "unlink",
           q \in Unmapping => pc[a] \in Unmapping,
           q \in Locking => pc[a] \in Locking,
           UNCHANGED pages
    PROVE  Inv'
<1>1. Structure'
  BY LocalStep DEF Inv
<1>2. SpoilExact'
  BY SpoilFrame DEF pages
<1>3. \A o \in Objs, p \in Pages : Holds(o, p)' <=> Holds(o, p)
  BY LocalHolds DEF Inv
<1>4. \A o \in Objs : Past(o)' => Past(o)
  BY DEF Past, Inv, Structure, TypeOK
<1> QED
  BY <1>1, <1>2, <1>3, <1>4, PageFrame DEF pages

-----------------------------------------------------------------------------
(***************************************************************************)
(* The steps of pcidriver_umem_sgmap.                                      *)
(***************************************************************************)

\* A thread inside the call.
LEMMA MapperFacts ==
    ASSUME Inv, NEW t \in Threads, pc[t] \in Mapping
    PROVE  /\ t \in Actors /\ t # Sysfs
           /\ cur[t] \in Objs /\ cur[t] # None
           /\ buf[cur[t]] \in Bufs
           /\ cur[t] \notin umem_list
           /\ \A c \in Actors : cur[c] = cur[t] => c = t
           /\ got[t] \in Int
           /\ cur[t] \in attrs <=> pc[t] = "link"
           /\ cur[t] \in dma <=> pc[t] \in Dma
<1>1. t \in Actors /\ t # Sysfs
  BY UmemAssumption DEF Actors
<1>2. /\ cur[t] # None /\ cur[t] \in Objs /\ buf[cur[t]] # None
      /\ cur[t] \notin umem_list
      /\ cur[t] \in attrs <=> pc[t] = "link"
      /\ cur[t] \in dma <=> pc[t] \in Dma
  BY <1>1, Places DEF Inv, Structure, TypeOK, ActorOk
<1>3. buf[cur[t]] \in Bufs /\ got[t] \in Int
  BY <1>1, <1>2 DEF Inv, Structure, TypeOK
<1>4. \A c \in Actors : cur[c] = cur[t] => c = t
  BY <1>1, MapperAlone DEF Inv
<1> QED
  BY <1>1, <1>2, <1>3, <1>4

\* The steps that change what is known of an object that is not yet listed.
LEMMA MapQuietStep ==
    ASSUME Inv, NEW t \in Threads,
           MapSg(t) \/ NewEntry(t) \/ InitAttr(t) \/ UnmapSg(t)
    PROVE  Inv'
<1> DEFINE o == cur[t]
<1>0. /\ pc[t] \in {"sg", "entry", "attr", "unsg"}
      /\ cur' = cur /\ buf' = buf /\ got' = got /\ umem_list' = umem_list
      /\ call' = call /\ sgl' = sgl /\ UNCHANGED pages
  BY DEF MapSg, NewEntry, InitAttr, UnmapSg, library
<1>1. pc[t] \in Mapping
  BY <1>0 DEF Mapping
<1>2. /\ t \in Actors /\ t # Sysfs /\ o \in Objs /\ o # None
      /\ o \notin umem_list /\ buf[o] \in Bufs
      /\ o \in attrs <=> pc[t] = "link"
      /\ o \in dma <=> pc[t] \in Dma
  BY <1>1, MapperFacts
<1>3. PICK q \in {"put", "entry", "attr", "link", "unsg"} :
        /\ pc' = [pc EXCEPT ![t] = q]
        /\ \A x \in Objs \ {o} : (x \in attrs' <=> x \in attrs) /\ (x \in dma' <=> x \in dma)
        /\ o \in attrs' <=> q = "link"
        /\ o \in dma' <=> q \in Dma
        /\ attrs' \subseteq attrs \cup {o} /\ dma' \subseteq dma \cup {o}
  <2>1. CASE MapSg(t)
    BY <1>2, <2>1 DEF MapSg, Goto, Dma
  <2>2. CASE NewEntry(t)
    BY <1>2, <2>2 DEF NewEntry, Goto, Dma
  <2>3. CASE InitAttr(t)
    BY <1>2, <2>3 DEF InitAttr, Goto, Dma
  <2>4. CASE UnmapSg(t)
    BY <1>2, <2>4 DEF UnmapSg, Goto, Dma
  <2> QED
    BY <2>1, <2>2, <2>3, <2>4
<1>4. TypeOK'
  <2>1. umem_count' \in 0 .. MaxMaps /\ id' \in [Objs -> 0 .. MaxMaps - 1]
    <3>1. /\ umem_count \in 0 .. MaxMaps /\ id \in [Objs -> 0 .. MaxMaps - 1]
          /\ MaxMaps \in Nat
      BY UmemAssumption DEF Inv, Structure, TypeOK
    <3> QED
      BY <1>2, <3>1 DEF MapSg, NewEntry, InitAttr, UnmapSg
  <2> QED
    BY <1>0, <1>2, <1>3, <2>1 DEF Inv, Structure, TypeOK, pages, Mapping
<1>5. q \in Mapping /\ q # "unlink" /\ q \notin Unmapping /\ q # "pages"
      /\ (q \in Locking => pc[t] \in Locking) /\ q \notin {Idle, "oops"}
      /\ q # "lock" /\ pc[t] # "unlink"
  BY <1>0 DEF Mapping, Unmapping, Locking, Idle
<1>6. ActorOk(t)'
  <2>1. pc'[t] = q
    BY <1>2, <1>3 DEF Inv, Structure, TypeOK
  <2>2. pc[t] \in Locking => got[t] = NrPages(buf[o])
    BY <1>2 DEF Inv, Structure, ActorOk
  <2>3. buf[o] # None
    BY <1>2, UmemAssumption
  <2> QED
    BY <1>0, <1>2, <1>3, <1>5, <2>1, <2>2, <2>3 DEF ActorOk
<1>7. ObjOk(o)'
  <2>3. buf[o] # None
    BY <1>2, UmemAssumption
  <2> QED
    BY <1>0, <1>2, <2>3 DEF ObjOk
<1> QED
  BY <1>0, <1>2, <1>3, <1>4, <1>5, <1>6, <1>7, QuietStep

\* pcidriver_umem_sgmap starts: a free object is taken, which nobody knows.
LEMMA MapUserStep ==
    ASSUME Inv, NEW t \in Threads, NEW b \in Bufs, NEW api \in {"cpp", "c"},
           NEW merged \in BOOLEAN, MapUser(t, b, api, merged)
    PROVE  Inv'
<1>0. PICK o \in Objs : /\ buf[o] = None
                        /\ buf' = [buf EXCEPT ![o] = b]
                        /\ cur' = [cur EXCEPT ![t] = o]
  BY DEF MapUser
<1>1. /\ pc[t] = Idle /\ pc' = [pc EXCEPT ![t] = "pages"]
      /\ umem_count' = umem_count /\ umem_list' = umem_list
      /\ attrs' = attrs /\ dma' = dma /\ id' = id /\ got' = got
      /\ UNCHANGED pages
      /\ call' = [call EXCEPT ![t] = [api |-> api, merged |-> merged]]
  BY DEF MapUser, Goto
<1>2. t \in Actors /\ t # Sysfs /\ o # None /\ b # None
  BY UmemAssumption DEF Actors
<1>3. /\ pc'[t] = "pages" /\ cur'[t] = o /\ buf'[o] = b
      /\ \A c \in Actors \ {t} : pc'[c] = pc[c] /\ cur'[c] = cur[c]
      /\ \A x \in Objs \ {o} : buf'[x] = buf[x]
  BY <1>0, <1>1, <1>2 DEF Inv, Structure, TypeOK
<1>4. /\ \A c \in Actors : cur[c] # o
      /\ o \notin umem_list \cup attrs \cup dma
      /\ cur[t] = None /\ got[t] = 0
  BY <1>0, <1>1, <1>2, Places DEF Inv, Structure, ActorOk, ObjOk
<1>5. TypeOK'
  <2>1. pc' \in [Actors -> {Idle, Held, "sgget", "refused", "short", "oops"}
                            \cup Mapping \cup Using \cup Unmapping]
    BY <1>1, Places DEF Inv, Structure, TypeOK
  <2>2. call' \in [Threads -> [api : {"cpp", "c"}, merged : BOOLEAN]]
    BY <1>1 DEF Inv, Structure, TypeOK
  <2>3. buf' \in [Objs -> Bufs \cup {None}] /\ cur' \in [Actors -> Objs \cup {None}]
    BY <1>0 DEF Inv, Structure, TypeOK
  <2> QED
    BY <1>1, <2>1, <2>2, <2>3 DEF Inv, Structure, TypeOK, pages
<1>6. Ownership'
  BY <1>2, <1>3, <1>4 DEF Inv, Structure, Ownership, Actors
<1>7. ASSUME NEW c \in Actors PROVE ActorOk(c)'
  <2>1. CASE c = t
    <3>1. "pages" \notin Using \cup Unmapping \cup {Idle, "oops", "lock", "link"} \cup Locking \cup Dma
      BY DEF Using, Unmapping, Idle, Locking, Dma
    <3> QED
      BY <1>1, <1>2, <1>3, <1>4, <2>1, <3>1, Places DEF ActorOk
  <2>2. CASE c # t
    <3>1. cur'[c] = cur[c] /\ pc'[c] = pc[c] /\ (cur[c] # None => buf'[cur[c]] = buf[cur[c]])
      BY <1>3, <1>4, <2>2 DEF Inv, Structure, TypeOK
    <3>2. pc[c] \in Mapping => cur[c] # None
      BY DEF Inv, Structure, ActorOk
    <3> QED
      BY <1>1, <2>2, <3>1, <3>2, Places DEF Inv, Structure, ActorOk
  <2> QED
    BY <2>1, <2>2
<1>8. ASSUME NEW x \in Objs PROVE ObjOk(x)'
  <2>1. CASE x = o
    BY <1>1, <1>2, <1>3, <1>4, <2>1 DEF ObjOk
  <2>2. CASE x # o
    <3>1. \A ps : Busy(x, ps)' <=> Busy(x, ps)
      BY <1>2, <1>3, <1>4, <2>2, UmemAssumption DEF Busy
    <3>2. (\E s \in Threads : cur[s] = x) => (\E s \in Threads : cur'[s] = x)
      BY <1>2, <1>3, <1>4, UmemAssumption DEF Actors
    <3> QED
      BY <1>1, <1>3, <2>2, <3>1, <3>2 DEF Inv, Structure, ObjOk
  <2> QED
    BY <2>1, <2>2
<1>9. SpoilExact'
  <2> SUFFICES ASSUME NEW a \in Actors, NEW c \in Actors, a # c,
                      cur'[a] = cur'[c], pc'[a] \in Unmapping, pc'[c] \in Unmapping
               PROVE  PagesOf(buf'[cur'[a]]) \subseteq spoiled'
    BY DEF SpoilExact
  <2>1. a # t /\ c # t
    BY <1>3, Places
  <2>2. cur[a] \in Objs /\ cur[a] # o
    BY <1>3, <1>4, <2>1 DEF Inv, Structure, TypeOK, ActorOk
  <2> QED
    BY <1>1, <1>3, <2>1, <2>2 DEF Inv, SpoilExact, pages
<1>10. ASSUME NEW x \in Objs, NEW p \in Pages PROVE Holds(x, p)' <=> Holds(x, p)
  <2>1. CASE x = o
    <3>1. ~Holds(o, p)
      BY <1>4 DEF Holds, Actors
    <3>2. \A s \in Threads : cur'[s] = o => s = t
      BY <1>3, <1>4 DEF Actors
    <3>3. FirstPages(b, 0) = {}
      BY FirstPagesType
    <3> QED
      BY <1>1, <1>3, <1>4, <2>1, <3>1, <3>2, <3>3 DEF Holds
  <2>2. CASE x # o
    <3>1. Busy(x, {"unlink"})' <=> Busy(x, {"unlink"})
      BY <1>2, <1>3, <1>4, <2>2, UmemAssumption DEF Busy
    <3>2. \A s \in Threads : cur'[s] = x <=> cur[s] = x
      BY <1>2, <1>3, <1>4, <2>2, UmemAssumption DEF Actors
    <3> QED
      BY <1>1, <1>3, <2>2, <3>1, <3>2 DEF Holds
  <2> QED
    BY <2>1, <2>2
<1>11. \A x \in Objs : Past(x)' => Past(x)
  BY <1>1, <1>3, Places DEF Past, Actors
<1>12. Structure'
  BY <1>5, <1>6, <1>7, <1>8 DEF Structure
<1> QED
  BY <1>1, <1>9, <1>10, <1>11, <1>12, PageFrame DEF pages

\* get_user_pages: the object accounts for the pages it got from here on.
LEMMA GetPagesStep ==
    ASSUME Inv, NEW t \in Threads, NEW n \in 0 .. Cardinality(Pages),
           GetPages(t, n)
    PROVE  Inv'
<1>a. pc[t] \in Mapping
  BY DEF GetPages, Mapping
<1>b. PICK o \in Objs : o = cur[t]
  BY <1>a, MapperFacts
<1> DEFINE b == buf[o]
           q == IF n = NrPages(b) THEN "lock" ELSE "put"
<1>0. /\ pc[t] = "pages" /\ n <= NrPages(b)
      /\ ref' = [p \in Pages |-> IF p \in FirstPages(b, n) THEN ref[p] + 1 ELSE ref[p]]
      /\ got' = [got EXCEPT ![t] = n]
      /\ shared' = shared \cup {p \in FirstPages(b, n) : ref[p] > 0}
      /\ pc' = [pc EXCEPT ![t] = q]
      /\ umem_count' = umem_count /\ umem_list' = umem_list /\ attrs' = attrs
      /\ dma' = dma /\ buf' = buf /\ id' = id /\ locked' = locked
      /\ spoiled' = spoiled /\ cur' = cur /\ call' = call
  BY <1>b DEF GetPages, Refer, Goto, objects, library
<1>1. pc[t] \in Mapping /\ q \in {"lock", "put"}
  BY <1>0 DEF Mapping
<1>2. /\ t \in Actors /\ t # Sysfs /\ o \in Objs /\ o # None
      /\ o \notin umem_list /\ b \in Bufs /\ b # None
      /\ cur[t] = o
      /\ \A c \in Actors : cur[c] = o => c = t
      /\ o \in attrs <=> pc[t] = "link"
      /\ o \in dma <=> pc[t] \in Dma
  BY <1>1, <1>b, MapperFacts, UmemAssumption
<1>3. got[t] = 0 /\ n \in Int /\ FirstPages(b, 0) = {}
      /\ FirstPages(b, n) \subseteq Pages
  <2>1. n \in Int
    OBVIOUS
  <2>2. FirstPages(b, n) \subseteq PagesOf(b) /\ FirstPages(b, 0) = {}
    BY <1>0, <1>2, <2>1, FirstPagesType
  <2>3. got[t] = 0
    BY <1>0, <1>2 DEF Inv, Structure, ActorOk
  <2> QED
    BY <1>2, <2>1, <2>2, <2>3, PagesType
<1> HIDE DEF b, q
<1>4. /\ pc'[t] = q /\ got'[t] = n
      /\ \A c \in Actors \ {t} : pc'[c] = pc[c] /\ got'[c] = got[c]
  BY <1>0, <1>2 DEF Inv, Structure, TypeOK
<1>5. TypeOK'
  <2>1. ref' \in [Pages -> Int] /\ shared' \subseteq Pages
    BY <1>0, <1>3 DEF Inv, Structure, TypeOK
  <2>2. pc' \in [Actors -> {Idle, Held, "sgget", "refused", "short", "oops"}
                            \cup Mapping \cup Using \cup Unmapping]
    BY <1>0, <1>1, Places, ZenonT(40) DEF Inv, Structure, TypeOK
  <2>3. got' \in [Actors -> 0 .. Cardinality(Pages)]
    BY <1>0 DEF Inv, Structure, TypeOK
  <2> QED
    BY <1>0, <2>1, <2>2, <2>3 DEF Inv, Structure, TypeOK
<1>6. Structure'
  <2>1. ActorOk(t)'
    <3>1. q \notin Using \cup Unmapping \cup {Idle, "oops", "link", "pages"} \cup Locking \cup Dma
      BY <1>1 DEF Using, Unmapping, Idle, Locking, Dma
    <3>2. q \in Mapping /\ pc[t] \notin Dma /\ (q = "lock" => n = NrPages(b))
      BY <1>0, <1>1 DEF Mapping, Dma, q
    <3> QED
      BY <1>0, <1>2, <1>4, <3>1, <3>2 DEF ActorOk, b
  <2>2. ObjOk(o)'
    BY <1>0, <1>2 DEF ObjOk, b
  <2> QED
    BY <1>0, <1>2, <1>4, <1>5, <2>1, <2>2, LocalStep DEF Inv
<1>7. SpoilExact'
  <2>1. q \notin Unmapping
    BY <1>1 DEF Unmapping
  <2> QED
    BY <1>0, <1>2, <2>1, SpoilFrame
<1>8. /\ \A p \in Pages : ~Holds(o, p)
      /\ \A p \in Pages : Holds(o, p)' <=> p \in FirstPages(b, n)
      /\ \A x \in Objs, p \in Pages : x # o => (Holds(x, p)' <=> Holds(x, p))
  <2>1. \A s \in Threads : cur[s] = o => s = t
    BY <1>2 DEF Actors
  <2>2. \A p \in Pages : ~Holds(o, p)
    BY <1>2, <1>3, <2>1 DEF Holds, b
  <2>3. \A p \in Pages : Holds(o, p)' <=> p \in FirstPages(b, n)
    BY <1>0, <1>2, <1>4, <2>1 DEF Holds, b
  <2>4. ASSUME NEW x \in Objs, NEW p \in Pages, x # o
        PROVE  Holds(x, p)' <=> Holds(x, p)
    <3>1. Busy(x, {"unlink"})' <=> Busy(x, {"unlink"})
      BY <1>0, <1>2, <1>4, <2>4 DEF Busy
    <3>2. \A s \in Threads : cur[s] = x => got'[s] = got[s]
      BY <1>2, <1>4, <2>4 DEF Actors
    <3> QED
      BY <1>0, <3>1, <3>2 DEF Holds
  <2> QED
    BY <2>2, <2>3, <2>4
<1>9. RefExact'
  <2> SUFFICES ASSUME NEW p \in Pages, p \notin spoiled
               PROVE  ref'[p] = Cardinality(Holders(p)')
    BY <1>0 DEF RefExact
  <2>1. ref[p] = Cardinality(Holders(p)) /\ ref[p] \in Int
    BY DEF Inv, RefExact, Structure, TypeOK
  <2>2. CASE p \in FirstPages(b, n)
    <3>1. Holders(p)' = Holders(p) \cup {o} /\ o \notin Holders(p)
      BY <1>2, <1>8, <2>2 DEF Holders
    <3>2. Holders(p) \in SUBSET Objs
      BY DEF Holders
    <3> QED
      BY <1>0, <1>2, <2>1, <2>2, <3>1, <3>2, Counting
  <2>3. CASE p \notin FirstPages(b, n)
    <3>1. Holders(p)' = Holders(p)
      BY <1>2, <1>8, <2>3 DEF Holders
    <3> QED
      BY <1>0, <2>1, <2>3, <3>1
  <2> QED
    BY <2>2, <2>3
<1>10. SharedExact'
  <2> SUFFICES ASSUME NEW p \in Pages, p \notin shared', p \notin spoiled,
                      NEW x \in Objs, NEW y \in Objs, Holds(x, p)', Holds(y, p)'
               PROVE  x = y
    BY <1>0 DEF SharedExact
  <2>1. ASSUME NEW z \in Objs, z # o, Holds(z, p)', p \in FirstPages(b, n)
        PROVE  FALSE
    <3>1. z \in Holders(p) /\ Holders(p) \in SUBSET Objs
      BY <1>8, <2>1 DEF Holders
    <3>2. ref[p] > 0
      BY <3>1, Counting DEF Inv, RefExact
    <3> QED
      BY <1>0, <2>1, <3>2
  <2>2. CASE p \in FirstPages(b, n)
    BY <2>1, <2>2
  <2>3. CASE p \notin FirstPages(b, n)
    <3>1. x # o /\ y # o
      BY <1>8, <2>3
    <3>2. p \notin shared /\ Holds(x, p) /\ Holds(y, p)
      BY <1>0, <1>8, <3>1
    <3> QED
      BY <3>2 DEF Inv, SharedExact
  <2> QED
    BY <2>2, <2>3
<1>11. LockExact'
  <2>1. ~Past(o)'
    <3>1. \A s \in Threads : cur'[s] = o => s = t
      BY <1>0, <1>2 DEF Actors
    <3>2. q \notin Locking
      BY <1>1 DEF Locking
    <3> QED
      BY <1>0, <1>2, <1>4, <3>1, <3>2 DEF Past
  <2>2. \A x \in Objs \ {o} : Past(x)' <=> Past(x)
    BY <1>0, <1>2, <1>4 DEF Past, Actors
  <2>3. ASSUME NEW p \in Pages, p \notin Reserved \cup shared' \cup spoiled,
               NEW x \in Objs, Holds(x, p)', Past(x)'
        PROVE  p \in locked'
    <3>1. x # o /\ p \notin shared
      BY <1>0, <2>1, <2>3
    <3>2. Holds(x, p) /\ Past(x)
      BY <1>8, <2>2, <2>3, <3>1
    <3> QED
      BY <1>0, <2>3, <3>1, <3>2 DEF Inv, LockExact
  <2>4. ASSUME NEW p \in locked', p \notin spoiled
        PROVE  \E x \in Objs : Holds(x, p)'
    <3>1. PICK x \in Objs : Holds(x, p)
      BY <1>0, <2>4 DEF Inv, LockExact
    <3>2. p \in Pages
      BY <1>0 DEF Inv, Structure, TypeOK
    <3> QED
      BY <1>8, <3>1, <3>2
  <2> QED
    BY <1>0, <2>3, <2>4 DEF Inv, LockExact
<1> QED
  BY <1>6, <1>7, <1>9, <1>10, <1>11 DEF Inv

\* The pages are locked, unless they are reserved.
LEMMA LockPagesStep ==
    ASSUME Inv, NEW t \in Threads, LockPages(t)
    PROVE  Inv'
<1>a. pc[t] \in Mapping
  BY DEF LockPages, Mapping
<1>b. PICK o \in Objs : o = cur[t]
  BY <1>a, MapperFacts
<1>0. /\ pc[t] = "lock" /\ pc' = [pc EXCEPT ![t] = "sg"]
      /\ locked' = locked \cup (PagesOf(buf[o]) \ Reserved)
      /\ umem_count' = umem_count /\ umem_list' = umem_list /\ attrs' = attrs
      /\ dma' = dma /\ buf' = buf /\ id' = id /\ got' = got /\ ref' = ref
      /\ spoiled' = spoiled /\ shared' = shared /\ cur' = cur /\ call' = call
  BY <1>b DEF LockPages, Goto, objects, library
<1>2. /\ t \in Actors /\ t # Sysfs /\ cur[t] = o /\ o # None
      /\ o \notin umem_list /\ buf[o] \in Bufs /\ buf[o] # None
      /\ \A c \in Actors : cur[c] = o => c = t
      /\ o \in attrs <=> pc[t] = "link"
      /\ o \in dma <=> pc[t] \in Dma
      /\ got[t] = NrPages(buf[o])
  <2>1. got[t] = NrPages(buf[o])
    BY <1>0, <1>b DEF Inv, Structure, ActorOk, Actors
  <2> QED
    BY <1>a, <1>b, <2>1, MapperFacts, UmemAssumption
<1>3. PagesOf(buf[o]) \subseteq Pages
  BY <1>2, PagesType
<1>4. pc'[t] = "sg" /\ \A c \in Actors \ {t} : pc'[c] = pc[c]
  BY <1>0, <1>2 DEF Inv, Structure, TypeOK
<1>5. TypeOK'
  <2>1. pc' \in [Actors -> {Idle, Held, "sgget", "refused", "short", "oops"}
                            \cup Mapping \cup Using \cup Unmapping]
    BY <1>0, Places DEF Inv, Structure, TypeOK, Mapping
  <2> QED
    BY <1>0, <1>3, <2>1 DEF Inv, Structure, TypeOK
<1>6. Structure'
  <2>1. ActorOk(t)'
    BY <1>0, <1>2, <1>4
       DEF ActorOk, Using, Unmapping, Idle, Locking, Dma, Mapping
  <2>2. ObjOk(o)'
    BY <1>0, <1>2 DEF ObjOk
  <2> QED
    BY <1>0, <1>2, <1>5, <2>1, <2>2, LocalStep DEF Inv
<1>7. SpoilExact'
  BY <1>0, <1>2, SpoilFrame DEF Unmapping
<1>8. \A x \in Objs, p \in Pages : Holds(x, p)' <=> Holds(x, p)
  BY <1>0, <1>2, LocalHolds DEF Inv
<1>9. RefExact' /\ SharedExact'
  <2>1. \A p \in Pages : Holders(p)' = Holders(p)
    BY <1>8 DEF Holders
  <2> QED
    BY <1>0, <1>8, <2>1 DEF Inv, RefExact, SharedExact
<1>10. \A p \in Pages : Holds(o, p) <=> p \in PagesOf(buf[o])
  BY <1>2 DEF Holds, PagesOf, Actors
<1>11. LockExact'
  <2>1. ASSUME NEW p \in Pages, p \notin Reserved \cup shared \cup spoiled,
               NEW x \in Objs, Holds(x, p)', Past(x)'
        PROVE  p \in locked'
    <3>1. CASE x = o
      BY <1>0, <1>8, <1>10, <2>1, <3>1
    <3>2. CASE x # o
      <4>1. Past(x)
        BY <1>0, <1>2, <1>4, <2>1, <3>2 DEF Past, Actors
      <4> QED
        BY <1>0, <1>8, <2>1, <4>1 DEF Inv, LockExact
    <3> QED
      BY <3>1, <3>2
  <2>2. ASSUME NEW p \in locked', p \notin spoiled
        PROVE  \E x \in Objs : Holds(x, p)'
    <3>1. p \in Pages
      BY <1>0, <1>3 DEF Inv, Structure, TypeOK
    <3>2. CASE p \in locked
      BY <1>8, <2>2, <3>1, <3>2 DEF Inv, LockExact
    <3>3. CASE p \in PagesOf(buf[o])
      BY <1>8, <1>10, <3>1, <3>3
    <3> QED
      BY <1>0, <2>2, <3>2, <3>3
  <2> QED
    BY <1>0, <2>1, <2>2 DEF Inv, LockExact
<1> QED
  BY <1>6, <1>7, <1>9, <1>11 DEF Inv

\* list_add_tail: the account passes from the thread to the list.
LEMMA LinkStep ==
    ASSUME Inv, NEW t \in Threads, Link(t)
    PROVE  Inv'
<1>a. pc[t] \in Mapping
  BY DEF Link, Mapping
<1>b. PICK o \in Objs : o = cur[t]
  BY <1>a, MapperFacts
<1>0. /\ pc[t] = "link" /\ pc' = [pc EXCEPT ![t] = "sgget"]
      /\ umem_list' = umem_list \cup {o}
      /\ got' = [got EXCEPT ![t] = 0]
      /\ umem_count' = umem_count /\ attrs' = attrs
      /\ dma' = dma /\ buf' = buf /\ id' = id /\ cur' = cur /\ call' = call
      /\ UNCHANGED pages
  BY <1>b DEF Link, Goto, library
<1>2. /\ t \in Actors /\ t # Sysfs /\ cur[t] = o /\ o # None
      /\ o \notin umem_list /\ buf[o] \in Bufs /\ buf[o] # None
      /\ \A c \in Actors : cur[c] = o => c = t
      /\ o \in attrs /\ o \in dma
      /\ got[t] = NrPages(buf[o])
  <2>1. got[t] = NrPages(buf[o])
    BY <1>0, <1>b DEF Inv, Structure, ActorOk, Actors, Locking
  <2>2. "link" \in Dma
    BY DEF Dma
  <2> QED
    BY <1>0, <1>a, <1>b, <2>1, <2>2, MapperFacts, UmemAssumption
<1>4. /\ pc'[t] = "sgget" /\ \A c \in Actors \ {t} : pc'[c] = pc[c]
      /\ got'[t] = 0 /\ \A c \in Actors \ {t} : got'[c] = got[c]
  BY <1>0, <1>2 DEF Inv, Structure, TypeOK
<1>5. TypeOK'
  <2>1. pc' \in [Actors -> {Idle, Held, "sgget", "refused", "short", "oops"}
                            \cup Mapping \cup Using \cup Unmapping]
    BY <1>0, Places DEF Inv, Structure, TypeOK, Mapping
  <2>2. got' \in [Actors -> 0 .. Cardinality(Pages)]
    <3>1. got \in [Actors -> 0 .. Cardinality(Pages)]
      BY DEF Inv, Structure, TypeOK
    <3>2. 0 \in 0 .. Cardinality(Pages)
      BY PagesCount
    <3> QED
      BY <1>0, <3>1, <3>2
  <2> QED
    BY <1>0, <2>1, <2>2 DEF Inv, Structure, TypeOK, pages
<1>6. Structure'
  <2>1. Ownership'
    BY <1>0, <1>2, <1>4 DEF Inv, Structure, Ownership, Actors
  <2>2. ASSUME NEW c \in Actors PROVE ActorOk(c)'
    <3>1. CASE c = t
      BY <1>0, <1>2, <1>4, <3>1, Places DEF ActorOk
    <3>2. CASE c # t
      <4>1. cur[c] # o
        BY <1>2, <3>2
      <4> QED
        BY <1>0, <1>4, <3>2, <4>1 DEF Inv, Structure, ActorOk
    <3> QED
      BY <3>1, <3>2
  <2>3. ASSUME NEW x \in Objs PROVE ObjOk(x)'
    <3>1. CASE x = o
      <4>1. \A c \in Actors : cur'[c] = o => pc'[c] = "sgget"
        BY <1>0, <1>2, <1>4
      <4>2. ~Busy(o, NoAttr)' /\ ~Busy(o, NoDma)'
        BY <4>1, Places DEF Busy, NoAttr, NoDma
      <4> QED
        BY <1>0, <1>2, <3>1, <4>2 DEF ObjOk
    <3>2. CASE x # o
      <4>1. \A ps : Busy(x, ps)' <=> Busy(x, ps)
        BY <1>0, <1>2, <1>4, <3>2 DEF Busy
      <4> QED
        BY <1>0, <3>2, <4>1 DEF Inv, Structure, ObjOk
    <3> QED
      BY <3>1, <3>2
  <2> QED
    BY <1>5, <2>1, <2>2, <2>3 DEF Structure
<1>7. SpoilExact'
  BY <1>0, <1>2, SpoilFrame DEF Unmapping, pages
<1>8. ASSUME NEW x \in Objs, NEW p \in Pages PROVE Holds(x, p)' <=> Holds(x, p)
  <2>1. CASE x = o
    <3>1. Holds(o, p) <=> p \in PagesOf(buf[o])
      BY <1>2 DEF Holds, PagesOf, Actors
    <3>2. ~Busy(o, {"unlink"})'
      BY <1>0, <1>2, <1>4 DEF Busy
    <3> QED
      BY <1>0, <2>1, <3>1, <3>2 DEF Holds
  <2>2. CASE x # o
    <3>1. Busy(x, {"unlink"})' <=> Busy(x, {"unlink"})
      BY <1>0, <1>2, <1>4, <2>2 DEF Busy
    <3>2. \A s \in Threads : cur[s] = x => got'[s] = got[s]
      BY <1>2, <1>4, <2>2 DEF Actors
    <3> QED
      BY <1>0, <2>2, <3>1, <3>2 DEF Holds
  <2> QED
    BY <2>1, <2>2
<1>9. ASSUME NEW x \in Objs, Past(x)' PROVE Past(x)
  <2>1. Past(o)
    BY <1>0, <1>2 DEF Past, Locking
  <2>2. CASE x # o
    BY <1>0, <1>2, <1>4, <1>9, <2>2 DEF Past, Actors
  <2> QED
    BY <2>1, <2>2
<1> QED
  BY <1>0, <1>6, <1>7, <1>8, <1>9, PageFrame DEF pages

\* An object o gives back the references to its pages ps and unlocks them:
\* whatever else is locked belongs to another object, or is exempt.
LEMMA CloseAccount ==
    ASSUME Inv, Structure', SpoilExact', NEW o \in Objs, NEW ps,
           \A p \in Pages \ spoiled : Holds(o, p) <=> p \in ps,
           \A p \in Pages : ~Holds(o, p)',
           \A x \in Objs, p \in Pages : x # o => (Holds(x, p)' <=> Holds(x, p)),
           \A x \in Objs \ {o} : Past(x)' <=> Past(x),
           locked' = locked \ ps \/ locked' = locked \ (ps \ Reserved),
           ref' = [p \in Pages |-> IF p \in ps THEN ref[p] + (-1) ELSE ref[p]],
           spoiled' = spoiled, shared' = shared
    PROVE  Inv'
<1>1. RefExact'
  <2> SUFFICES ASSUME NEW p \in Pages, p \notin spoiled
               PROVE  ref'[p] = Cardinality(Holders(p)')
    BY DEF RefExact
  <2>1. ref[p] = Cardinality(Holders(p)) /\ ref[p] \in Int
    BY DEF Inv, RefExact, Structure, TypeOK
  <2>2. Holders(p) \in SUBSET Objs
    BY DEF Holders
  <2>3. CASE p \in ps
    <3>1. Holders(p)' = Holders(p) \ {o} /\ o \in Holders(p)
      BY <2>3 DEF Holders
    <3> QED
      BY <2>1, <2>2, <2>3, <3>1, Counting
  <2>4. CASE p \notin ps
    <3>1. Holders(p)' = Holders(p)
      BY <2>4 DEF Holders
    <3> QED
      BY <2>1, <2>4, <3>1
  <2> QED
    BY <2>3, <2>4
<1>2. SharedExact'
  <2> SUFFICES ASSUME NEW p \in Pages, p \notin shared, p \notin spoiled,
                      NEW x \in Objs, NEW y \in Objs, Holds(x, p)', Holds(y, p)'
               PROVE  x = y
    BY DEF SharedExact
  <2>1. Holds(x, p) /\ Holds(y, p)
    OBVIOUS
  <2> QED
    BY <2>1 DEF Inv, SharedExact
<1>3. LockExact'
  <2>1. ASSUME NEW p \in Pages, p \notin Reserved \cup shared \cup spoiled,
               NEW x \in Objs, Holds(x, p)', Past(x)'
        PROVE  p \in locked'
    <3>1. x # o /\ Holds(x, p) /\ Past(x)
      BY <2>1
    <3>2. p \notin ps
      BY <2>1, <3>1 DEF Inv, SharedExact
    <3> QED
      BY <2>1, <3>1, <3>2 DEF Inv, LockExact
  <2>2. ASSUME NEW p \in locked', p \notin spoiled
        PROVE  \E x \in Objs : Holds(x, p)'
    <3>1. p \in locked /\ p \in Pages /\ p \notin ps
      BY <2>2 DEF Inv, Structure, TypeOK, LockExact
    <3>2. PICK x \in Objs : Holds(x, p)
      BY <2>2, <3>1 DEF Inv, LockExact
    <3> QED
      BY <2>2, <3>1, <3>2
  <2> QED
    BY <2>1, <2>2 DEF Inv, LockExact
<1> QED
  BY <1>1, <1>2, <1>3 DEF Inv

\* umem_sgmap_unmap: the object is free again and its account is closed.
LEMMA PutPagesStep ==
    ASSUME Inv, NEW t \in Threads, PutPages(t)
    PROVE  Inv'
<1>a. pc[t] \in Mapping
  BY DEF PutPages, Mapping
<1>b. PICK o \in Objs : o = cur[t]
  BY <1>a, MapperFacts
<1> DEFINE ps == FirstPages(buf[o], got[t])
<1>0. /\ pc[t] = "put" /\ pc' = [pc EXCEPT ![t] = Idle]
      /\ locked' = locked \ ps
      /\ ref' = [p \in Pages |-> IF p \in ps THEN ref[p] + (-1) ELSE ref[p]]
      /\ buf' = [buf EXCEPT ![o] = None]
      /\ id' = [id EXCEPT ![o] = 0]
      /\ got' = [got EXCEPT ![t] = 0]
      /\ cur' = [cur EXCEPT ![t] = None]
      /\ call' = [call EXCEPT ![t] = NoCall]
      /\ umem_count' = umem_count /\ umem_list' = umem_list /\ attrs' = attrs
      /\ dma' = dma /\ spoiled' = spoiled /\ shared' = shared
  BY <1>b DEF PutPages, Refer, Forget, Goto
<1>2. /\ t \in Actors /\ t # Sysfs /\ cur[t] = o /\ o # None
      /\ o \notin umem_list /\ buf[o] \in Bufs
      /\ \A c \in Actors : cur[c] = o => c = t
      /\ o \notin attrs /\ o \notin dma
  <2>1. "put" \notin Dma
    BY DEF Dma
  <2> QED
    BY <1>0, <1>a, <1>b, <2>1, MapperFacts
<1>4. /\ pc'[t] = "idle" /\ got'[t] = 0 /\ cur'[t] = None /\ buf'[o] = None
      /\ \A c \in Actors \ {t} : pc'[c] = pc[c] /\ got'[c] = got[c] /\ cur'[c] = cur[c]
      /\ \A x \in Objs \ {o} : buf'[x] = buf[x]
  BY <1>0, <1>2 DEF Inv, Structure, TypeOK, Idle
<1> HIDE DEF ps
<1>5. TypeOK'
  <2>1. pc' \in [Actors -> {Idle, Held, "sgget", "refused", "short", "oops"}
                            \cup Mapping \cup Using \cup Unmapping]
    BY <1>0 DEF Inv, Structure, TypeOK
  <2>2. got' \in [Actors -> 0 .. Cardinality(Pages)]
    BY <1>0, PagesCount DEF Inv, Structure, TypeOK
  <2>3. id' \in [Objs -> 0 .. MaxMaps - 1]
    BY <1>0, UmemAssumption DEF Inv, Structure, TypeOK
  <2>4. call' \in [Threads -> [api : {"cpp", "c"}, merged : BOOLEAN]]
    BY <1>0 DEF Inv, Structure, TypeOK, NoCall
  <2>5. ref' \in [Pages -> Int] /\ locked' \subseteq Pages
    BY <1>0 DEF Inv, Structure, TypeOK
  <2>6. buf' \in [Objs -> Bufs \cup {None}] /\ cur' \in [Actors -> Objs \cup {None}]
    BY <1>0 DEF Inv, Structure, TypeOK
  <2> QED
    BY <1>0, <2>1, <2>2, <2>3, <2>4, <2>5, <2>6 DEF Inv, Structure, TypeOK
<1>6. Structure'
  <2>1. Ownership'
    BY <1>2, <1>4 DEF Inv, Structure, Ownership, Actors
  <2>2. ASSUME NEW c \in Actors PROVE ActorOk(c)'
    <3>1. CASE c = t
      BY <1>4, <3>1, Places DEF ActorOk
    <3>2. CASE c # t
      <4>1. cur[c] # o /\ cur'[c] = cur[c] /\ (cur[c] # None => buf'[cur[c]] = buf[cur[c]])
        BY <1>2, <1>4, <3>2 DEF Inv, Structure, TypeOK
      <4>2. pc[c] \in Mapping => cur[c] # None
        BY DEF Inv, Structure, ActorOk
      <4> QED
        BY <1>0, <1>4, <3>2, <4>1, <4>2, Places DEF Inv, Structure, ActorOk
    <3> QED
      BY <3>1, <3>2
  <2>3. ASSUME NEW x \in Objs PROVE ObjOk(x)'
    <3>1. CASE x = o
      BY <1>0, <1>2, <1>4, <3>1 DEF ObjOk
    <3>2. CASE x # o
      <4>0. x # None
        BY UmemAssumption
      <4>1. \A qs : Busy(x, qs)' <=> Busy(x, qs)
        BY <1>2, <1>4, <3>2, <4>0 DEF Busy
      <4>2. (\E s \in Threads : cur[s] = x) => (\E s \in Threads : cur'[s] = x)
        BY <1>2, <1>4, <3>2 DEF Actors
      <4> QED
        BY <1>0, <1>4, <3>2, <4>1, <4>2 DEF Inv, Structure, ObjOk
    <3> QED
      BY <3>1, <3>2
  <2> QED
    BY <1>5, <2>1, <2>2, <2>3 DEF Structure
<1>7. SpoilExact'
  <2> SUFFICES ASSUME NEW a \in Actors, NEW c \in Actors, a # c,
                      cur'[a] = cur'[c], pc'[a] \in Unmapping, pc'[c] \in Unmapping
               PROVE  PagesOf(buf'[cur'[a]]) \subseteq spoiled'
    BY DEF SpoilExact
  <2>1. a # t /\ c # t
    BY <1>4, Places
  <2>2. cur[a] \in Objs /\ cur[a] # o
    BY <1>2, <1>4, <2>1 DEF Inv, Structure, TypeOK, ActorOk
  <2> QED
    BY <1>0, <1>4, <2>1, <2>2 DEF Inv, SpoilExact
<1>8. /\ \A p \in Pages : Holds(o, p) <=> p \in ps
      /\ \A p \in Pages : ~Holds(o, p)'
      /\ \A x \in Objs, p \in Pages : x # o => (Holds(x, p)' <=> Holds(x, p))
  <2>1. \A s \in Threads : cur[s] = o => s = t
    BY <1>2 DEF Actors
  <2>2. \A p \in Pages : Holds(o, p) <=> p \in ps
    BY <1>2, <2>1 DEF Holds, ps
  <2>3. \A p \in Pages : ~Holds(o, p)'
    <3>1. \A s \in Threads : cur'[s] # o
      BY <1>2, <1>4, <2>1 DEF Actors
    <3> QED
      BY <1>0, <1>2, <3>1 DEF Holds
  <2>4. ASSUME NEW x \in Objs, NEW p \in Pages, x # o
        PROVE  Holds(x, p)' <=> Holds(x, p)
    <3>0. x # None
      BY UmemAssumption
    <3>1. Busy(x, {"unlink"})' <=> Busy(x, {"unlink"})
      BY <1>2, <1>4, <2>4, <3>0 DEF Busy
    <3>2. \A s \in Threads : /\ cur'[s] = x <=> cur[s] = x
                             /\ cur[s] = x => got'[s] = got[s]
      BY <1>2, <1>4, <2>4, <3>0 DEF Actors
    <3> QED
      BY <1>0, <1>4, <2>4, <3>1, <3>2 DEF Holds
  <2> QED
    BY <2>2, <2>3, <2>4
<1>9. \A x \in Objs \ {o} : Past(x)' <=> Past(x)
  <2> SUFFICES ASSUME NEW x \in Objs \ {o} PROVE Past(x)' <=> Past(x)
    OBVIOUS
  <2>0. x # None
    BY UmemAssumption
  <2> QED
    BY <1>0, <1>2, <1>4, <2>0 DEF Past, Actors
<1> QED
  BY <1>0, <1>2, <1>6, <1>7, <1>8, <1>9, CloseAccount

-----------------------------------------------------------------------------
(***************************************************************************)
(* The steps that use an entry, and the ends of a thread's interest in it. *)
(***************************************************************************)

\* pcidriver_umem_sgget and pcidriver_umem_sync.
LEMMA UseStep ==
    ASSUME Inv, NEW t \in Threads,
           SgGet(t) \/ SgCopy(t) \/ SyncFind(t) \/ SyncUse(t)
    PROVE  Inv'
<1>0. /\ t \in Actors /\ t # Sysfs
      /\ pc[t] \in {"sgget", "copy", "held", "sync"}
      /\ umem_count' = umem_count /\ umem_list' = umem_list /\ attrs' = attrs
      /\ dma' = dma /\ buf' = buf /\ id' = id /\ got' = got
      /\ cur' = cur /\ call' = call /\ UNCHANGED pages
  BY UmemAssumption
     DEF SgGet, SgFound, SgCopy, SyncFind, SyncUse, objects, library, Held, Actors
<1>1. PICK q \in {"copy", "refused", "short", "held", "sync"} :
          /\ pc' = [pc EXCEPT ![t] = q]
          /\ q \in {"copy", "sync"} => cur[t] \in umem_list
  BY DEF SgGet, SgFound, SgCopy, SyncFind, SyncUse, Goto, Held
<1>2. /\ q \notin Mapping \cup Unmapping \cup {Idle, "oops"} \cup Locking
      /\ q # "pages" /\ q # "lock" /\ q # "unlink" /\ pc[t] # "unlink"
      /\ pc[t] \notin Mapping \cup Unmapping
      /\ q \in Using => q \in {"copy", "sync"}
  BY <1>0 DEF Mapping, Unmapping, Idle, Locking, Using
<1>3. TypeOK'
  <2>1. pc' \in [Actors -> {Idle, Held, "sgget", "refused", "short", "oops"}
                            \cup Mapping \cup Using \cup Unmapping]
    BY <1>1 DEF Inv, Structure, TypeOK, Held, Using
  <2> QED
    BY <1>0, <2>1 DEF Inv, Structure, TypeOK, pages
<1>4. pc'[t] = q /\ \A c \in Actors \ {t} : pc'[c] = pc[c]
  BY <1>0, <1>1 DEF Inv, Structure, TypeOK
<1>5. ActorOk(t)'
  <2>1. None \notin umem_list
    BY UmemAssumption DEF Inv, Structure, TypeOK
  <2>2. got[t] = 0 /\ (cur[t] # None => cur[t] \in umem_list /\ buf[cur[t]] # None)
    BY <1>0, <1>2 DEF Inv, Structure, ActorOk
  <2> QED
    BY <1>0, <1>1, <1>2, <1>4, <2>1, <2>2 DEF ActorOk
<1>6. ASSUME NEW o \in Objs PROVE ObjOk(o)'
  <2>1. (Busy(o, NoAttr)' <=> Busy(o, NoAttr)) /\ (Busy(o, NoDma)' <=> Busy(o, NoDma))
    BY <1>0, <1>2, <1>4, Places DEF Busy
  <2> QED
    BY <1>0, <2>1 DEF Inv, Structure, ObjOk
<1> QED
  BY <1>0, <1>1, <1>2, <1>3, <1>5, <1>6, QuietStep

\* A thread that is in no call forgets its object: the list keeps it.
LEMMA ForgetStep ==
    ASSUME Inv, NEW t \in Threads, pc[t] \in {"held", "sgget", "refused", "short"},
           Forget(t),
           UNCHANGED <<objects, pages, got>>
    PROVE  Inv'
<1>0. /\ t \in Actors /\ t # Sysfs
      /\ umem_count' = umem_count /\ umem_list' = umem_list /\ attrs' = attrs
      /\ dma' = dma /\ buf' = buf /\ id' = id /\ got' = got
      /\ cur' = [cur EXCEPT ![t] = None] /\ pc' = [pc EXCEPT ![t] = "idle"]
      /\ call' = [call EXCEPT ![t] = NoCall] /\ UNCHANGED pages
  BY UmemAssumption DEF Forget, Goto, objects, Idle, Actors
<1>1. pc[t] \notin Mapping \cup Unmapping
  BY Places
<1>2. /\ pc'[t] = "idle" /\ cur'[t] = None
      /\ \A c \in Actors \ {t} : pc'[c] = pc[c] /\ cur'[c] = cur[c]
  BY <1>0 DEF Inv, Structure, TypeOK
<1>3. TypeOK'
  <2>1. pc' \in [Actors -> {Idle, Held, "sgget", "refused", "short", "oops"}
                            \cup Mapping \cup Using \cup Unmapping]
    BY <1>0 DEF Inv, Structure, TypeOK, Idle
  <2>2. call' \in [Threads -> [api : {"cpp", "c"}, merged : BOOLEAN]]
    BY <1>0 DEF Inv, Structure, TypeOK, NoCall
  <2>3. cur' \in [Actors -> Objs \cup {None}]
    BY <1>0 DEF Inv, Structure, TypeOK
  <2> QED
    BY <1>0, <2>1, <2>2, <2>3 DEF Inv, Structure, TypeOK, pages
<1>4. Ownership'
  BY <1>0, <1>2 DEF Inv, Structure, Ownership, Actors
<1>5. ASSUME NEW c \in Actors PROVE ActorOk(c)'
  <2>1. CASE c = t
    <3>1. got[t] = 0
      BY <1>0, <1>1 DEF Inv, Structure, ActorOk
    <3> QED
      BY <1>0, <1>2, <2>1, <3>1, Places DEF ActorOk
  <2>2. CASE c # t
    BY <1>0, <1>2, <2>2 DEF Inv, Structure, ActorOk
  <2> QED
    BY <2>1, <2>2
<1>6. \A o \in Objs, ps \in SUBSET Unmapping : Busy(o, ps)' <=> Busy(o, ps)
  <2> SUFFICES ASSUME NEW o \in Objs, NEW ps \in SUBSET Unmapping
               PROVE  Busy(o, ps)' <=> Busy(o, ps)
    OBVIOUS
  <2>1. pc[t] \notin ps /\ pc'[t] \notin ps
    BY <1>1, <1>2, Places
  <2> QED
    BY <1>2, <2>1 DEF Busy
<1>7. ASSUME NEW o \in Objs, o \notin umem_list
      PROVE  \A s \in Threads : cur'[s] = o <=> cur[s] = o
  <2>1. cur[t] # o /\ o # None
    BY <1>0, <1>1, <1>7, UmemAssumption DEF Inv, Structure, ActorOk
  <2> QED
    BY <1>2, <2>1 DEF Actors
<1>8. ASSUME NEW o \in Objs PROVE ObjOk(o)'
  <2>1. (Busy(o, NoAttr)' <=> Busy(o, NoAttr)) /\ (Busy(o, NoDma)' <=> Busy(o, NoDma))
    BY <1>6, Places
  <2> QED
    BY <1>0, <1>7, <2>1 DEF Inv, Structure, ObjOk
<1>9. SpoilExact'
  <2> SUFFICES ASSUME NEW a \in Actors, NEW c \in Actors, a # c,
                      cur'[a] = cur'[c], pc'[a] \in Unmapping, pc'[c] \in Unmapping
               PROVE  PagesOf(buf'[cur'[a]]) \subseteq spoiled'
    BY DEF SpoilExact
  <2>1. a # t /\ c # t
    BY <1>2, Places
  <2> QED
    BY <1>0, <1>2, <2>1 DEF Inv, SpoilExact, pages
<1>10. ASSUME NEW o \in Objs, NEW p \in Pages PROVE Holds(o, p)' <=> Holds(o, p)
  <2>1. {"unlink"} \in SUBSET Unmapping
    BY Places
  <2>2. Busy(o, {"unlink"})' <=> Busy(o, {"unlink"})
    BY <1>6, <2>1
  <2> QED
    BY <1>0, <1>7, <2>2 DEF Holds
<1>11. \A o \in Objs : Past(o)' => Past(o)
  BY <1>0, <1>2, Places DEF Past, Actors
<1>12. Structure'
  BY <1>3, <1>4, <1>5, <1>8 DEF Structure
<1> QED
  BY <1>0, <1>9, <1>10, <1>11, <1>12, PageFrame DEF pages

-----------------------------------------------------------------------------
(***************************************************************************)
(* The steps of pcidriver_umem_sgunmap.                                    *)
(***************************************************************************)

\* An actor begins to unmap a listed entry; if another one is at it, the
\* pages are exempt from here on.
LEMMA UnmapStep ==
    ASSUME Inv, NEW a \in Actors, NEW o \in umem_list,
           pc[a] \in {"idle", "held", "refused", "short"},
           a = Sysfs \/ cur[a] = o, Unmap(a, o)
    PROVE  Inv'
<1>0. /\ pc' = [pc EXCEPT ![a] = "unattr"] /\ cur' = [cur EXCEPT ![a] = o]
      /\ spoiled' = IF \E c \in Actors \ {a} : cur[c] = o /\ pc[c] \in Unmapping
                    THEN spoiled \cup PagesOf(buf[o]) ELSE spoiled
      /\ umem_count' = umem_count /\ umem_list' = umem_list /\ attrs' = attrs
      /\ dma' = dma /\ buf' = buf /\ id' = id /\ got' = got /\ call' = call
      /\ ref' = ref /\ locked' = locked /\ shared' = shared
  BY DEF Unmap, Goto, objects, library
<1>1. /\ o \in Objs /\ o # None /\ buf[o] \in Bufs
      /\ pc[a] \notin Mapping \cup Unmapping
  BY UmemAssumption, Places DEF Inv, Structure, TypeOK, ObjOk
<1>2. /\ pc'[a] = "unattr" /\ cur'[a] = o
      /\ \A c \in Actors \ {a} : pc'[c] = pc[c] /\ cur'[c] = cur[c]
  BY <1>0 DEF Inv, Structure, TypeOK
<1>3. /\ "unattr" \in Unmapping /\ "unattr" \notin NoAttr \cup NoDma \cup Locking
      /\ "unattr" \notin Mapping \cup {Idle, "oops"}
  BY DEF Unmapping, NoAttr, NoDma, Locking, Mapping, Idle
<1>4. PagesOf(buf[o]) \subseteq Pages
  BY <1>1, PagesType
<1>5. TypeOK'
  <2>1. pc' \in [Actors -> {Idle, Held, "sgget", "refused", "short", "oops"}
                            \cup Mapping \cup Using \cup Unmapping]
    BY <1>0, <1>3 DEF Inv, Structure, TypeOK
  <2>2. cur' \in [Actors -> Objs \cup {None}] /\ spoiled' \subseteq Pages
    BY <1>0, <1>1, <1>4 DEF Inv, Structure, TypeOK
  <2> QED
    BY <1>0, <2>1, <2>2 DEF Inv, Structure, TypeOK
<1>6. \A s \in Threads : cur'[s] = cur[s]
  BY <1>2, UmemAssumption DEF Actors
<1>7. Ownership'
  BY <1>2, <1>3, <1>6 DEF Inv, Structure, Ownership, Actors
<1>8. ASSUME NEW c \in Actors PROVE ActorOk(c)'
  <2>1. CASE c = a
    <3>1. got[a] = 0 /\ buf[o] # None
      BY <1>1, UmemAssumption DEF Inv, Structure, ActorOk
    <3> QED
      BY <1>0, <1>1, <1>2, <1>3, <2>1, <3>1, Places DEF ActorOk
  <2>2. CASE c # a
    BY <1>0, <1>2, <2>2 DEF Inv, Structure, ActorOk
  <2> QED
    BY <2>1, <2>2
<1>9. \A x \in Objs : \A ps : ps \subseteq NoAttr => (Busy(x, ps)' <=> Busy(x, ps))
  <2> SUFFICES ASSUME NEW x \in Objs, NEW ps, ps \subseteq NoAttr
               PROVE  Busy(x, ps)' <=> Busy(x, ps)
    OBVIOUS
  <2>1. pc[a] \notin ps /\ pc'[a] \notin ps
    BY <1>1, <1>2, <1>3, Places
  <2> QED
    BY <1>2, <2>1 DEF Busy
<1>10. ASSUME NEW x \in Objs PROVE ObjOk(x)'
  <2>1. (Busy(x, NoAttr)' <=> Busy(x, NoAttr)) /\ (Busy(x, NoDma)' <=> Busy(x, NoDma))
    BY <1>9, Places
  <2> QED
    BY <1>0, <1>6, <2>1 DEF Inv, Structure, ObjOk
<1>11. SpoilExact'
  <2> SUFFICES ASSUME NEW d \in Actors, NEW c \in Actors, d # c,
                      cur'[d] = cur'[c], pc'[d] \in Unmapping, pc'[c] \in Unmapping
               PROVE  PagesOf(buf'[cur'[d]]) \subseteq spoiled'
    BY DEF SpoilExact
  <2>1. CASE d = a \/ c = a
    <3>1. \E e \in Actors \ {a} : cur[e] = o /\ pc[e] \in Unmapping
      BY <1>2, <2>1
    <3> QED
      BY <1>0, <1>2, <2>1, <3>1
  <2>2. CASE d # a /\ c # a
    BY <1>0, <1>2, <2>2 DEF Inv, SpoilExact
  <2> QED
    BY <2>1, <2>2
<1>12. ASSUME NEW x \in Objs, NEW p \in Pages PROVE Holds(x, p)' <=> Holds(x, p)
  <2>1. {"unlink"} \subseteq NoAttr
    BY Places
  <2>2. Busy(x, {"unlink"})' <=> Busy(x, {"unlink"})
    BY <1>9, <2>1
  <2> QED
    BY <1>0, <1>6, <2>2 DEF Holds
<1>13. \A x \in Objs : Past(x)' => Past(x)
  BY <1>0, <1>2, <1>3, <1>6 DEF Past, Actors
<1>14. Structure'
  BY <1>5, <1>7, <1>8, <1>10 DEF Structure
<1>15. spoiled \subseteq spoiled'
  BY <1>0
<1> QED
  BY <1>0, <1>11, <1>12, <1>13, <1>14, <1>15, PageFrame

\* An actor that unmaps an entry.
LEMMA UnmapperFacts ==
    ASSUME Inv, NEW a \in Actors, pc[a] \in Unmapping
    PROVE  /\ cur[a] \in Objs /\ cur[a] # None /\ cur[a] \in umem_list
           /\ buf[cur[a]] \in Bufs /\ buf[cur[a]] # None /\ got[a] = 0
<1>1. /\ cur[a] # None /\ cur[a] \in Objs /\ buf[cur[a]] # None
      /\ cur[a] \in umem_list /\ got[a] = 0
  BY Places DEF Inv, Structure, TypeOK, ActorOk
<1> QED
  BY <1>1 DEF Inv, Structure, TypeOK

\* The attribute and the DMA mapping of the entry go, one after the other.
LEMMA RemoveStep ==
    ASSUME Inv, NEW a \in Actors, UnAttr(a) \/ UnDma(a)
    PROVE  Inv'
<1>a. pc[a] \in {"unattr", "undma"} /\ pc[a] \in Unmapping
  BY DEF UnAttr, UnDma, Unmapping
<1>b. PICK o \in Objs : o = cur[a]
  BY <1>a, UnmapperFacts
<1>c. cur[a] = o /\ o # None /\ o \in umem_list /\ buf[o] # None /\ got[a] = 0
  BY <1>a, <1>b, UnmapperFacts
<1>0. /\ umem_count' = umem_count /\ umem_list' = umem_list
      /\ buf' = buf /\ id' = id /\ got' = got /\ cur' = cur /\ call' = call
      /\ UNCHANGED pages
      /\ attrs' \subseteq attrs /\ dma' \subseteq dma
      /\ \A x \in Objs : x # o => /\ x \in attrs' <=> x \in attrs
                                  /\ x \in dma' <=> x \in dma
  BY <1>c DEF UnAttr, UnDma, library
<1>1. PICK q \in {"undma", "release"} : pc' = [pc EXCEPT ![a] = q]
                    /\ (UnAttr(a) => q = "undma") /\ (UnDma(a) => q = "release")
  BY DEF UnAttr, UnDma, Goto
<1>2. /\ q \in Unmapping /\ q # "unlink" /\ pc[a] # "unlink"
      /\ q \notin Mapping \cup {Idle, "oops", "pages", "lock"} \cup Locking
  BY <1>a DEF Unmapping, Mapping, Idle, Locking
<1>3. TypeOK'
  <2>1. pc' \in [Actors -> {Idle, Held, "sgget", "refused", "short", "oops"}
                            \cup Mapping \cup Using \cup Unmapping]
    BY <1>1, <1>2 DEF Inv, Structure, TypeOK
  <2> QED
    BY <1>0, <2>1 DEF Inv, Structure, TypeOK, pages
<1>4. pc'[a] = q /\ \A c \in Actors \ {a} : pc'[c] = pc[c]
  BY <1>1 DEF Inv, Structure, TypeOK
<1>5. ActorOk(a)'
  BY <1>0, <1>c, <1>2, <1>4 DEF ActorOk
<1>6. ObjOk(o)'
  <2>0. /\ o \in attrs <=> ~Busy(o, NoAttr)
        /\ o \in dma <=> ~Busy(o, NoDma)
    BY <1>c DEF Inv, Structure, ObjOk
  <2>1. CASE UnAttr(a)
    <3>1. o \notin attrs' /\ dma' = dma
      BY <1>c, <2>1 DEF UnAttr
    <3>2. pc'[a] = "undma" /\ pc[a] = "unattr"
      BY <1>1, <1>4, <2>1 DEF UnAttr
    <3>3. Busy(o, NoAttr)'
      BY <1>0, <1>c, <3>2 DEF Busy, NoAttr
    <3>4. Busy(o, NoDma)' <=> Busy(o, NoDma)
      BY <1>0, <1>4, <3>2 DEF Busy, NoDma
    <3> QED
      BY <1>0, <1>c, <2>0, <3>1, <3>3, <3>4 DEF ObjOk
  <2>2. CASE UnDma(a)
    <3>1. o \notin dma' /\ attrs' = attrs
      BY <1>c, <2>2 DEF UnDma
    <3>2. pc'[a] = "release" /\ pc[a] = "undma"
      BY <1>1, <1>4, <2>2 DEF UnDma
    <3>3. Busy(o, NoDma)'
      BY <1>0, <1>c, <3>2 DEF Busy, NoDma
    <3>4. Busy(o, NoAttr)' <=> Busy(o, NoAttr)
      BY <1>0, <1>c, <1>4, <3>2 DEF Busy, NoAttr
    <3> QED
      BY <1>0, <1>c, <2>0, <3>1, <3>3, <3>4 DEF ObjOk
  <2> QED
    BY <2>1, <2>2
<1> QED
  BY <1>0, <1>a, <1>c, <1>1, <1>2, <1>3, <1>5, <1>6, QuietStep

\* The pages of the entry are unlocked and released; if another actor has
\* done so before, they are exempt.
LEMMA ReleasePagesStep ==
    ASSUME Inv, NEW a \in Actors, ReleasePages(a)
    PROVE  Inv'
<1>a. pc[a] = "release" /\ pc[a] \in Unmapping
  BY DEF ReleasePages, Unmapping
<1>b. PICK o \in Objs : o = cur[a]
  BY <1>a, UnmapperFacts
<1>c. /\ cur[a] = o /\ o # None /\ o \in umem_list /\ buf[o] # None
      /\ buf[o] \in Bufs /\ got[a] = 0
  BY <1>a, <1>b, UnmapperFacts
<1> DEFINE ps == PagesOf(buf[o])
<1>0. /\ umem_count' = umem_count /\ umem_list' = umem_list
      /\ buf' = buf /\ id' = id /\ got' = got /\ cur' = cur /\ call' = call
      /\ attrs' = attrs /\ dma' = dma /\ spoiled' = spoiled /\ shared' = shared
      /\ pc' = [pc EXCEPT ![a] = "unlink"]
      /\ locked' = locked \ (ps \ Reserved)
      /\ ref' = [p \in Pages |-> IF p \in ps THEN ref[p] + (-1) ELSE ref[p]]
  BY <1>b DEF ReleasePages, Refer, Goto, objects, library
<1>1. /\ "unlink" \in Unmapping
      /\ "unlink" \notin Mapping \cup {Idle, "oops", "pages", "lock"} \cup Locking
  BY DEF Unmapping, Mapping, Idle, Locking
<1>2. pc'[a] = "unlink" /\ \A c \in Actors \ {a} : pc'[c] = pc[c]
  BY <1>0 DEF Inv, Structure, TypeOK
<1>3. TypeOK'
  <2>1. pc' \in [Actors -> {Idle, Held, "sgget", "refused", "short", "oops"}
                            \cup Mapping \cup Using \cup Unmapping]
    BY <1>0, <1>1 DEF Inv, Structure, TypeOK
  <2>2. ref' \in [Pages -> Int] /\ locked' \subseteq Pages
    BY <1>0 DEF Inv, Structure, TypeOK
  <2> QED
    BY <1>0, <2>1, <2>2 DEF Inv, Structure, TypeOK
<1>4. Structure'
  <2>1. ActorOk(a)'
    BY <1>0, <1>c, <1>1, <1>2 DEF ActorOk
  <2>2. ObjOk(o)'
    <3>1. (Busy(o, NoAttr)' <=> Busy(o, NoAttr)) /\ (Busy(o, NoDma)' <=> Busy(o, NoDma))
      BY <1>0, <1>a, <1>2 DEF Busy, NoAttr, NoDma
    <3> QED
      BY <1>0, <3>1 DEF Inv, Structure, ObjOk
  <2> QED
    BY <1>0, <1>c, <1>1, <1>3, <2>1, <2>2, LocalStep DEF Inv
<1>5. SpoilExact'
  BY <1>0, <1>a, SpoilFrame
<1>6. \A p \in Pages \ spoiled : Holds(o, p) <=> p \in ps
  <2> SUFFICES ASSUME NEW p \in Pages \ spoiled, p \in ps
               PROVE  ~Busy(o, {"unlink"})
    BY <1>c DEF Holds
  <2>1. ASSUME NEW c \in Actors, cur[c] = o, pc[c] = "unlink" PROVE FALSE
    <3>1. c # a /\ pc[c] \in Unmapping
      BY <1>a, <1>1, <2>1
    <3> QED
      BY <1>a, <1>c, <2>1, <3>1 DEF Inv, SpoilExact
  <2> QED
    BY <2>1 DEF Busy
<1>7. \A p \in Pages : ~Holds(o, p)'
  <2>1. Busy(o, {"unlink"})'
    BY <1>0, <1>c, <1>2 DEF Busy
  <2> QED
    BY <1>0, <1>c, <2>1 DEF Holds
<1>8. \A x \in Objs, p \in Pages : x # o => (Holds(x, p)' <=> Holds(x, p))
  <2>1. \A x \in Objs : x # o => (Busy(x, {"unlink"})' <=> Busy(x, {"unlink"}))
    BY <1>0, <1>c, <1>2 DEF Busy
  <2> QED
    BY <1>0, <2>1 DEF Holds
<1>9. \A x \in Objs \ {o} : Past(x)' <=> Past(x)
  BY <1>0, <1>c, <1>2 DEF Past, Actors
<1> HIDE DEF ps
<1> QED
  BY <1>0, <1>4, <1>5, <1>6, <1>7, <1>8, <1>9, CloseAccount

\* list_del and the end of the object, for whoever had found it too.
LEMMA UnlinkStep ==
    ASSUME Inv, NEW a \in Actors, Unlink(a)
    PROVE  Inv'
<1>a. pc[a] = "unlink" /\ pc[a] \in Unmapping
  BY DEF Unlink, Unmapping
<1>b. PICK o \in Objs : o = cur[a]
  BY <1>a, UnmapperFacts
<1>c. cur[a] = o /\ o # None /\ o \in umem_list /\ buf[o] # None
  BY <1>a, <1>b, UnmapperFacts
<1>0. /\ umem_count' = umem_count /\ umem_list' = umem_list \ {o}
      /\ buf' = [buf EXCEPT ![o] = None] /\ id' = [id EXCEPT ![o] = 0]
      /\ attrs' = attrs /\ dma' = dma /\ got' = got /\ UNCHANGED pages
  BY <1>b DEF Unlink
<1>1. /\ pc' \in [Actors -> {pc[c] : c \in Actors} \cup {Idle, "oops"}]
      /\ pc'[a] = Idle /\ cur'[a] = None
      /\ \A c \in Actors : cur[c] # o => pc'[c] = pc[c] /\ cur'[c] = cur[c]
      /\ \A c \in Actors : cur[c] = o => cur'[c] = None
      /\ \A c \in Actors : pc'[c] \in {pc[c], Idle, "oops"}
      /\ \A c \in Actors :
            cur[c] = o /\ c # a /\ pc[c] \in Using \cup Unmapping => pc'[c] = "oops"
      /\ cur' \in [Actors -> Objs \cup {None}]
  <2>1. pc' = [c \in Actors |-> IF c = a THEN Idle
                   ELSE IF c # a /\ cur[c] = o /\ pc[c] \in Using \cup Unmapping
                        THEN "oops" ELSE pc[c]]
    BY <1>b DEF Unlink
  <2>2. cur' = [c \in Actors |-> IF cur[c] = o THEN None ELSE cur[c]]
    BY <1>b DEF Unlink
  <2>3. \A c \in Actors : cur[c] \in Objs \cup {None}
    BY DEF Inv, Structure, TypeOK
  <2> QED
    BY <1>c, <2>1, <2>2, <2>3
<1>2. TypeOK'
  <2>1. pc' \in [Actors -> {Idle, Held, "sgget", "refused", "short", "oops"}
                            \cup Mapping \cup Using \cup Unmapping]
    BY <1>1 DEF Inv, Structure, TypeOK
  <2>2. call' \in [Threads -> [api : {"cpp", "c"}, merged : BOOLEAN]]
    <3>1. call' = [t \in Threads |-> IF pc'[t] \in {Idle, "oops"} THEN NoCall ELSE call[t]]
      BY DEF Unlink
    <3>2. NoCall \in [api : {"cpp", "c"}, merged : BOOLEAN]
      BY DEF NoCall
    <3> QED
      BY <3>1, <3>2 DEF Inv, Structure, TypeOK
  <2>3. id' \in [Objs -> 0 .. MaxMaps - 1]
    BY <1>0, UmemAssumption DEF Inv, Structure, TypeOK
  <2>4. buf' \in [Objs -> Bufs \cup {None}] /\ umem_list' \subseteq Objs
    BY <1>0 DEF Inv, Structure, TypeOK
  <2> QED
    BY <1>0, <1>1, <2>1, <2>2, <2>3, <2>4 DEF Inv, Structure, TypeOK, pages
<1>3. \A x \in Objs \ {o} : buf'[x] = buf[x]
  BY <1>0 DEF Inv, Structure, TypeOK
<1>4. o \notin attrs /\ o \notin dma
  <2>1. Busy(o, NoAttr) /\ Busy(o, NoDma)
    BY <1>a, <1>c DEF Busy, NoAttr, NoDma
  <2> QED
    BY <1>c, <2>1 DEF Inv, Structure, ObjOk
<1>5. Ownership'
  BY <1>1 DEF Inv, Structure, Ownership, Actors
<1>6. ASSUME NEW c \in Actors PROVE ActorOk(c)'
  <2>1. CASE cur[c] = o
    <3>1. pc[c] \notin Mapping /\ got[c] = 0
      BY <1>c, <2>1 DEF Inv, Structure, ActorOk
    <3>2. cur'[c] = None /\ pc'[c] \notin Mapping \cup Using \cup Unmapping
      BY <1>1, <2>1, <3>1, Places
    <3>3. pc'[c] # "lock" /\ pc'[c] \notin Locking /\ pc'[c] # "pages"
      BY <3>2, Places
    <3> QED
      BY <1>0, <3>1, <3>2, <3>3 DEF ActorOk
  <2>2. CASE cur[c] # o
    <3>1. pc'[c] = pc[c] /\ cur'[c] = cur[c]
          /\ (cur[c] # None => buf'[cur[c]] = buf[cur[c]])
      BY <1>1, <1>3, <2>2 DEF Inv, Structure, TypeOK
    <3>2. pc[c] \in Mapping => cur[c] # None
      BY DEF Inv, Structure, ActorOk
    <3> QED
      BY <1>0, <2>2, <3>1, <3>2, Places DEF Inv, Structure, ActorOk
  <2> QED
    BY <2>1, <2>2
<1>7. \A x \in Objs \ {o} : \A ps : Busy(x, ps)' <=> Busy(x, ps)
  <2>1. \A x \in Objs \ {o} : x # None
    BY UmemAssumption
  <2> QED
    BY <1>1, <2>1 DEF Busy
<1>8. \A x \in Objs \ {o}, s \in Threads : cur'[s] = x <=> cur[s] = x
  BY <1>1, UmemAssumption DEF Actors
<1>9. ASSUME NEW x \in Objs PROVE ObjOk(x)'
  <2>1. CASE x = o
    <3>1. buf'[o] = None
      BY <1>0 DEF Inv, Structure, TypeOK
    <3> QED
      BY <1>0, <1>4, <2>1, <3>1 DEF ObjOk
  <2>2. CASE x # o
    BY <1>0, <1>3, <1>7, <1>8, <2>2 DEF Inv, Structure, ObjOk
  <2> QED
    BY <2>1, <2>2
<1>10. SpoilExact'
  <2> SUFFICES ASSUME NEW d \in Actors, NEW c \in Actors, d # c,
                      cur'[d] = cur'[c], pc'[d] \in Unmapping, pc'[c] \in Unmapping
               PROVE  PagesOf(buf'[cur'[d]]) \subseteq spoiled'
    BY DEF SpoilExact
  <2>0. pc[d] \in Unmapping /\ pc[c] \in Unmapping
    BY <1>1, Places
  <2>1. cur[d] # o /\ cur[c] # o
    BY <1>1, <2>0, Places
  <2>2. cur[d] \in Objs
    BY <2>0, UnmapperFacts
  <2> QED
    BY <1>0, <1>1, <1>3, <2>0, <2>1, <2>2 DEF Inv, SpoilExact, pages
<1>11. ASSUME NEW x \in Objs, NEW p \in Pages PROVE Holds(x, p)' <=> Holds(x, p)
  <2>1. CASE x = o
    <3>1. ~Holds(o, p)
      BY <1>a, <1>c DEF Holds, Busy
    <3>2. \A s \in Threads : cur'[s] # o
      BY <1>1, <1>c DEF Actors
    <3> QED
      BY <1>0, <2>1, <3>1, <3>2 DEF Holds
  <2>2. CASE x # o
    BY <1>0, <1>3, <1>7, <1>8, <2>2 DEF Holds
  <2> QED
    BY <2>1, <2>2
<1>12. \A x \in Objs, p \in Pages : Holds(x, p) /\ Past(x)' => Past(x)
  <2>1. Past(o)
    BY <1>c DEF Past
  <2>2. \A x \in Objs \ {o} : Past(x)' => Past(x)
    BY <1>0, <1>1, <1>8, Places DEF Past, Actors
  <2> QED
    BY <2>1, <2>2
<1>13. Structure'
  BY <1>2, <1>5, <1>6, <1>9 DEF Structure
<1> QED
  BY <1>0, <1>10, <1>11, <1>12, <1>13, PageFrame DEF pages

-----------------------------------------------------------------------------
\* Initially nothing is mapped.
LEMMA InitInv == Init => Inv
<1> SUFFICES ASSUME Init PROVE Inv
  OBVIOUS
<1>0. \A a \in Actors : pc[a] = "idle" /\ cur[a] = None /\ got[a] = 0
  BY DEF Init, Idle
<1>1. TypeOK
  <2>1. umem_count \in 0 .. MaxMaps /\ id \in [Objs -> 0 .. MaxMaps - 1]
    BY UmemAssumption DEF Init
  <2>2. got \in [Actors -> 0 .. Cardinality(Pages)]
    BY PagesCount DEF Init
  <2> QED
    BY <2>1, <2>2 DEF Init, TypeOK, NoCall
<1>2. Ownership
  BY <1>0 DEF Ownership, Actors, Idle
<1>3. \A a \in Actors : ActorOk(a)
  BY <1>0, Places DEF ActorOk
<1>4. \A o \in Objs : ObjOk(o)
  BY DEF Init, ObjOk
<1>5. \A o \in Objs, p \in Pages : ~Holds(o, p)
  <2>1. \A o \in Objs : o # None
    BY UmemAssumption
  <2> QED
    BY <1>0, <2>1 DEF Init, Holds, Actors
<1>6. RefExact
  <2>1. \A p \in Pages : Holders(p) = {}
    BY <1>5 DEF Holders
  <2> QED
    BY <2>1, FS_EmptySet DEF Init, RefExact
<1>7. SpoilExact
  BY <1>0, Places DEF SpoilExact
<1>8. SharedExact /\ LockExact
  BY <1>5 DEF Init, SharedExact, LockExact
<1> QED
  BY <1>1, <1>2, <1>3, <1>4, <1>6, <1>7, <1>8 DEF Inv, Structure

\* No step breaks the invariant.
LEMMA InvStep == Inv /\ [Next]_vars => Inv'
<1> SUFFICES ASSUME Inv, [Next]_vars PROVE Inv'
  OBVIOUS
<1>1. ASSUME NEW t \in Threads, NEW b \in Bufs, NEW api \in {"cpp", "c"},
             NEW merged \in BOOLEAN, MapUser(t, b, api, merged)
      PROVE  Inv'
  BY <1>1, MapUserStep
<1>2. ASSUME NEW t \in Threads, NEW n \in 0 .. Cardinality(Pages), GetPages(t, n)
      PROVE  Inv'
  BY <1>2, GetPagesStep
<1>3. ASSUME NEW t \in Threads,
             \/ LockPages(t) \/ MapSg(t) \/ NewEntry(t) \/ InitAttr(t) \/ Link(t)
             \/ UnmapSg(t) \/ PutPages(t)
      PROVE  Inv'
  BY <1>3, LockPagesStep, MapQuietStep, LinkStep, PutPagesStep
<1>4. ASSUME NEW t \in Threads,
             SgGet(t) \/ SgCopy(t) \/ SyncFind(t) \/ SyncUse(t)
      PROVE  Inv'
  BY <1>4, UseStep
<1>5. ASSUME NEW t \in Threads, Destruct(t) \/ Exit(t)
      PROVE  Inv'
  <2>1. CASE Forget(t) /\ UNCHANGED <<objects, pages, got>>
    BY <1>5, <2>1, ForgetStep DEF Destruct, Exit, Held
  <2>2. CASE Unmap(t, cur[t]) /\ cur[t] \in umem_list /\ Destruct(t)
    <3>1. t \in Actors /\ pc[t] \in {"idle", "held", "refused", "short"}
      BY <2>2 DEF Destruct, Held, Actors
    <3> QED
      BY <2>2, <3>1, UnmapStep
  <2> QED
    BY <1>5, <2>1, <2>2 DEF Destruct, Exit
<1>6. ASSUME NEW n \in 0 .. MaxMaps - 1, StoreUmemUnmap(n)
      PROVE  Inv'
  <2>1. PICK o \in umem_list : Unmap(Sysfs, o)
    BY <1>6 DEF StoreUmemUnmap
  <2>2. Sysfs \in Actors /\ pc[Sysfs] \in {"idle", "held", "refused", "short"}
    BY <1>6 DEF StoreUmemUnmap, Idle, Actors
  <2> QED
    BY <2>1, <2>2, UnmapStep
<1>7. ASSUME NEW a \in Actors,
             UnAttr(a) \/ UnDma(a) \/ ReleasePages(a) \/ Unlink(a)
      PROVE  Inv'
  BY <1>7, RemoveStep, ReleasePagesStep, UnlinkStep
<1>8. CASE UNCHANGED vars
  <2>1. /\ umem_count' = umem_count /\ umem_list' = umem_list
        /\ attrs' = attrs /\ dma' = dma /\ buf' = buf /\ id' = id
        /\ ref' = ref /\ locked' = locked /\ spoiled' = spoiled
        /\ shared' = shared /\ pc' = pc /\ cur' = cur /\ got' = got
        /\ call' = call
    BY <1>8 DEF vars, objects, pages, library
  <2>2. \A o, ps : Busy(o, ps)' <=> Busy(o, ps)
    BY <2>1 DEF Busy
  <2>3. \A o, p : Holds(o, p)' <=> Holds(o, p)
    BY <2>1, <2>2 DEF Holds
  <2>4. \A p : Holders(p)' = Holders(p)
    BY <2>3 DEF Holders
  <2>5. Structure'
    BY <2>1, <2>2 DEF Inv, Structure, TypeOK, Ownership, ActorOk, ObjOk
  <2>6. SpoilExact'
    BY <2>1 DEF Inv, SpoilExact
  <2>7. \A o \in Objs : Past(o)' => Past(o)
    BY <2>1 DEF Past
  <2> QED
    BY <2>1, <2>3, <2>5, <2>6, <2>7, PageFrame
<1> QED
  BY <1>1, <1>2, <1>3, <1>4, <1>5, <1>6, <1>7, <1>8 DEF Next

\* Whatever is mapped for DMA accounts for all its pages.
LEMMA MappedHolds ==
    ASSUME Inv, NEW o \in dma
    PROVE  o \in Objs /\ Past(o) /\ \A p \in Has(o) : p \in Pages /\ Holds(o, p)
<1>1. o \in Objs /\ buf[o] # None /\ buf[o] \in Bufs
  BY DEF Inv, Structure, TypeOK, ObjOk
<1>2. Has(o) = PagesOf(buf[o]) /\ PagesOf(buf[o]) \subseteq Pages
  BY <1>1, PagesType DEF Has
<1>3. CASE o \in umem_list
  <2>1. ~Busy(o, {"unlink"})
    <3>1. ~Busy(o, NoDma)
      BY <1>1, <1>3 DEF Inv, Structure, ObjOk
    <3> QED
      BY <3>1, Places DEF Busy
  <2> QED
    BY <1>1, <1>2, <1>3, <2>1 DEF Holds, Past
<1>4. CASE o \notin umem_list
  <2>1. PICK t \in Threads : cur[t] = o
    BY <1>1, <1>4 DEF Inv, Structure, ObjOk
  <2>2. o # None /\ t \in Actors
    BY <1>1, UmemAssumption DEF Actors
  <2>3. pc[t] \in Dma /\ got[t] = NrPages(buf[o])
    BY <1>4, <2>1, <2>2, Places DEF Inv, Structure, ActorOk
  <2> QED
    BY <1>1, <1>2, <1>4, <2>1, <2>3, Places DEF Holds, Past, PagesOf
<1> QED
  BY <1>3, <1>4

\* The variables keep their types, for any number of threads and buffers.
THEOREM UmemTypes == Spec => []TypeOK
<1>1. Inv => TypeOK
  BY DEF Inv, Structure
<1> QED
  BY <1>1, InitInv, InvStep, PTL DEF Spec

\* A page of a buffer that is mapped for DMA keeps a reference for every
\* mapping of it (pcidriver_umem_sgmap, pcidriver_umem_sgunmap).
THEOREM PagesPinned == Spec => []PinnedWhileMapped
<1>1. ASSUME Inv PROVE PinnedWhileMapped
  <2> SUFFICES ASSUME NEW p \in Pages \ spoiled
               PROVE  ref[p] >= Cardinality(On(p, dma))
    BY DEF PinnedWhileMapped
  <2>1. On(p, dma) \in SUBSET Holders(p)
    BY <1>1, MappedHolds DEF On, Holders
  <2>2. IsFiniteSet(Holders(p))
    <3>1. Holders(p) \in SUBSET Objs
      BY DEF Holders
    <3> QED
      BY <3>1, UmemAssumption, FS_Subset
  <2>3. Cardinality(On(p, dma)) <= Cardinality(Holders(p))
    BY <2>1, <2>2, FS_Subset
  <2> QED
    BY <1>1, <2>3 DEF Inv, RefExact
<1>2. Inv => PinnedWhileMapped
  BY <1>1
<1> QED
  BY <1>2, InitInv, InvStep, PTL DEF Spec

\* A page that no two buffers ever had in common stays locked as long as it
\* is mapped ("Lock and Map the memory to their pages", UserMemory.cpp).
\* PG_locked is one bit and no count: shared pages lose it with the first
\* buffer that goes.
LockKept == \A o \in dma :
    Has(o) \ (Reserved \cup shared \cup spoiled) \subseteq locked

\* A page that only one buffer had stays locked while it is mapped.
THEOREM LocksKept == Spec => []LockKept
<1>1. ASSUME Inv PROVE LockKept
  <2> SUFFICES ASSUME NEW o \in dma,
                      NEW p \in Has(o) \ (Reserved \cup shared \cup spoiled)
               PROVE  p \in locked
    BY DEF LockKept
  <2>1. o \in Objs /\ Past(o) /\ p \in Pages /\ Holds(o, p)
    BY <1>1, MappedHolds
  <2> QED
    BY <1>1, <2>1 DEF Inv, LockExact
<1>2. Inv => LockKept
  BY <1>1
<1> QED
  BY <1>2, InitInv, InvStep, PTL DEF Spec

\* When no call is in progress everything belongs to a listed entry.
THEOREM QuietIsClean == Spec => []QuietClean
<1>1. ASSUME Inv PROVE QuietClean
  <2> SUFFICES ASSUME spoiled = {}, \A a \in Actors : ~InCall(a) /\ pc[a] # "oops"
               PROVE  /\ attrs = umem_list /\ dma = umem_list
                      /\ {o \in Objs : buf[o] # None} = umem_list
                      /\ \A p \in Pages : /\ ref[p] = Cardinality(On(p, umem_list))
                                          /\ p \in locked => On(p, umem_list) # {}
    BY DEF QuietClean
  <2>0. \A a \in Actors : pc[a] \notin Mapping \cup Unmapping
    BY DEF InCall
  <2>1. \A t \in Threads : cur[t] # None => cur[t] \in umem_list
    BY <1>1, <2>0 DEF Inv, Structure, ActorOk, Actors
  <2>2. \A o \in Objs : buf[o] # None <=> o \in umem_list
    BY <1>1, <2>1, UmemAssumption DEF Inv, Structure, ObjOk
  <2>3. \A o \in Objs : ~Busy(o, NoAttr) /\ ~Busy(o, NoDma) /\ ~Busy(o, {"unlink"})
    BY <2>0, Places DEF Busy
  <2>4. attrs = umem_list /\ dma = umem_list
    BY <1>1, <2>2, <2>3 DEF Inv, Structure, TypeOK, ObjOk
  <2>5. {o \in Objs : buf[o] # None} = umem_list
    BY <1>1, <2>2 DEF Inv, Structure, TypeOK
  <2>6. \A p \in Pages : Holders(p) = On(p, umem_list)
    <3>1. \A o \in Objs, p \in Pages : Holds(o, p) <=> o \in umem_list /\ p \in PagesOf(buf[o])
      BY <2>1, <2>3, UmemAssumption DEF Holds
    <3>2. \A o \in umem_list : o \in Objs /\ Has(o) = PagesOf(buf[o])
      BY <1>1, <2>2 DEF Inv, Structure, TypeOK, Has
    <3> QED
      BY <3>1, <3>2 DEF Holders, On
  <2>7. \A p \in Pages : ref[p] = Cardinality(On(p, umem_list))
    BY <1>1, <2>6 DEF Inv, RefExact
  <2>8. \A p \in Pages : p \in locked => On(p, umem_list) # {}
    BY <1>1, <2>6 DEF Inv, LockExact, Holders
  <2> QED
    BY <2>4, <2>5, <2>7, <2>8
<1>2. Inv => QuietClean
  BY <1>1
<1> QED
  BY <1>2, InitInv, InvStep, PTL DEF Spec

-----------------------------------------------------------------------------
(***************************************************************************)
(* Scatter/gather lists.  Merged is a fold; what it does to a list of any  *)
(* length is shown by induction over the entries.                          *)
(***************************************************************************)

\* Induction over the natural numbers, for a set in place of a predicate: a
\* number outside of S would have a least one.
LEMMA NatSetInduction ==
    ASSUME NEW S, 0 \in S, \A n \in Nat : n \in S => n + 1 \in S
    PROVE  \A n \in Nat : n \in S
<1> DEFINE T == Nat \ S
           R == {ss \in Nat \X Nat : ss[1] < ss[2]}
<1> SUFFICES ASSUME T # {} PROVE FALSE
  OBVIOUS
<1>0. IsWellFoundedOn(R, Nat)
    BY NatLessThanWellFounded DEF OpToRel
<1>1. \E x \in T : \A y \in T : ~ (<<y, x>> \in R)
  <2> HIDE DEF R
  <2> QED BY <1>0, WFMin
<1>2. PICK x \in T : \A y \in T : ~ (<<y, x>> \in R)
  BY <1>1
<1>3. x \in Nat /\ x # 0
  BY <1>2
<1>4. x-1 \in Nat /\ <<x-1, x>> \in R
  BY <1>3
<1>5. x-1 \in S
  BY <1>2, <1>4
<1>6. (x-1)+1 \in S
  BY <1>4, <1>5
<1> QED BY <1>3, <1>6

\* The greatest number of a set that has the greatest number possible.
LEMMA MaxTop == ASSUME NEW n \in Nat, NEW s \in SUBSET (1 .. n + 1), n + 1 \in s
                PROVE  Max(s) = n + 1
<1>1. \A y \in s : y \in Int /\ n + 1 >= y
  OBVIOUS
<1>2. \E x \in s : \A y \in s : x >= y
  BY <1>1
<1>3. Max(s) \in s /\ \A y \in s : Max(s) >= y
  BY <1>2, Zenon DEF Max
<1> DEFINE m == Max(s)
<1>4. m \in s /\ m >= n + 1
  BY <1>3
<1> HIDE DEF m
<1>5. m = n + 1
  BY <1>1, <1>4
<1> QED
  BY <1>5 DEF m

\* The equations of the fold of Joined.
IsFold(f, base, seq, n) ==
    f = [s \in SUBSET (1 .. n) |->
            IF s = {} THEN base
            ELSE Joined(f[s \ {Max(s)}], seq[Max(s)])]

\* A function with these equations exists, however long the list.
LEMMA FoldExists ==
    ASSUME NEW base, NEW seq
    PROVE  \A n \in Nat : \E f : IsFold(f, base, seq, n)
<1> DEFINE S == {n \in Nat : \E f : IsFold(f, base, seq, n)}
<1>1. 0 \in S
  <2> DEFINE f == [s \in SUBSET (1 .. 0) |-> base]
  <2>0. \A s \in SUBSET (1 .. 0) : s = {}
    OBVIOUS
  <2>1. f = [s \in SUBSET (1 .. 0) |->
            IF s = {} THEN base
            ELSE Joined(f[s \ {Max(s)}], seq[Max(s)])]
    BY <2>0, Zenon
  <2>2. IsFold(f, base, seq, 0)
    BY <2>1 DEF IsFold
  <2> QED
    BY <2>2, Zenon
<1>2. ASSUME NEW n \in Nat, n \in S PROVE n + 1 \in S
  <2>1. PICK f : IsFold(f, base, seq, n)
    BY <1>2
  <2>2. /\ DOMAIN f = SUBSET (1 .. n) /\ f[{}] = base
        /\ \A s \in SUBSET (1 .. n) : s # {} => f[s] = Joined(f[s \ {Max(s)}], seq[Max(s)])
    <3> HIDE DEF S
    <3>1. f = [s \in SUBSET (1 .. n) |->
            IF s = {} THEN base
            ELSE Joined(f[s \ {Max(s)}], seq[Max(s)])]
      BY <2>1, Zenon DEF IsFold
    <3>2. {} \in SUBSET (1 .. n)
      OBVIOUS
    <3> QED
      BY <3>1, <3>2, Zenon
  <2> DEFINE g == [s \in SUBSET (1 .. n + 1) |->
                      IF n + 1 \in s THEN Joined(f[s \ {n + 1}], seq[n + 1]) ELSE f[s]]
  <2>3. ASSUME NEW s \in SUBSET (1 .. n + 1)
        PROVE  g[s] = IF s = {} THEN base ELSE Joined(g[s \ {Max(s)}], seq[Max(s)])
    <3>1. CASE s = {}
      BY <2>2, <3>1
    <3>2. CASE n + 1 \in s
      <4>1. Max(s) = n + 1
        BY <3>2, MaxTop
      <4>2. s \ {n + 1} \in SUBSET (1 .. n + 1) /\ n + 1 \notin s \ {n + 1}
        OBVIOUS
      <4>3. g[s \ {n + 1}] = f[s \ {n + 1}]
        BY <4>2, Zenon
      <4>4. g[s] = Joined(f[s \ {n + 1}], seq[n + 1]) /\ s # {}
        BY <3>2, Zenon
      <4> HIDE DEF g
      <4> QED
        BY <4>1, <4>3, <4>4, Zenon
    <3>3. CASE s # {} /\ n + 1 \notin s
      <4>0. \A x \in s : x \in 1 .. n
        BY <3>3
      <4>1. s \in SUBSET (1 .. n) /\ s \ {Max(s)} \in SUBSET (1 .. n + 1)
            /\ n + 1 \notin s \ {Max(s)}
        BY <3>3, <4>0, Zenon
      <4>2. g[s] = f[s] /\ g[s \ {Max(s)}] = f[s \ {Max(s)}]
        BY <3>3, <4>1, Zenon
      <4> HIDE DEF g
      <4> QED
        BY <2>2, <3>3, <4>1, <4>2, Zenon
    <3> QED
      BY <3>1, <3>2, <3>3
  <2>4. IsFold(g, base, seq, n + 1)
    <3>1. g = [s \in SUBSET (1 .. n + 1) |-> g[s]]
      BY Zenon
    <3> HIDE DEF g
    <3>2. g = [s \in SUBSET (1 .. n + 1) |-> IF s = {} THEN base ELSE Joined(g[s \ {Max(s)}], seq[Max(s)])]
      BY <2>3, <3>1, Zenon
    <3> QED
      BY <3>2, Zenon DEF IsFold
  <2> HIDE DEF g
  <2>5. n + 1 \in Nat
    OBVIOUS
  <2> QED
    BY <2>4, <2>5, Zenon
<1> HIDE DEF S
<1>3. \A n \in Nat : n \in S
  BY <1>1, <1>2, NatSetInduction
<1> QED
  BY <1>3 DEF S

\* FoldLeft is the value of such a function.
LEMMA FoldIs ==
    ASSUME NEW base, NEW seq, NEW n \in Nat, DOMAIN seq = 1 .. n
    PROVE  \E f : IsFold(f, base, seq, n) /\ FoldLeft(Joined, base, seq) = f[1 .. n]
<1> DEFINE f == CHOOSE f : f = [s \in SUBSET (DOMAIN seq) |->
            IF s = {} THEN base
            ELSE Joined(f[s \ {Max(s)}], seq[Max(s)])]
<1>1. FoldLeft(Joined, base, seq) = f[DOMAIN seq]
  BY Zenon DEF FoldLeft, MapThenFoldSet
<1>2. \E g : g = [s \in SUBSET (DOMAIN seq) |->
            IF s = {} THEN base
            ELSE Joined(g[s \ {Max(s)}], seq[Max(s)])]
  <2>1. PICK g : IsFold(g, base, seq, n)
    BY FoldExists
  <2>2. SUBSET (DOMAIN seq) = SUBSET (1 .. n)
    BY Zenon
  <2> QED
    BY <2>1, <2>2, Zenon DEF IsFold
<1>3. f = [s \in SUBSET (DOMAIN seq) |->
            IF s = {} THEN base
            ELSE Joined(f[s \ {Max(s)}], seq[Max(s)])]
  BY <1>2, Zenon
<1> HIDE DEF f
<1>4. IsFold(f, base, seq, n)
  BY <1>3, Zenon DEF IsFold
<1> QED
  BY <1>1, <1>4, Zenon

\* What FoldLeft computes, step by step.
JoinAll(base, seq) == FoldLeft(Joined, base, seq)
LEMMA FoldSteps ==
    ASSUME NEW base, NEW seq, NEW n \in Nat, DOMAIN seq = 1 .. n
    PROVE  \E g : /\ g[0] = base
                  /\ \A k \in 1 .. n : g[k] = Joined(g[k - 1], seq[k])
                  /\ JoinAll(base, seq) = g[n]
<1>1. PICK f : IsFold(f, base, seq, n) /\ FoldLeft(Joined, base, seq) = f[1 .. n]
  BY FoldIs
<1>2. \A s \in SUBSET (1 .. n) : f[s] = IF s = {} THEN base
            ELSE Joined(f[s \ {Max(s)}], seq[Max(s)])
  BY <1>1, Zenon DEF IsFold
<1> DEFINE g == [k \in 0 .. n |-> f[1 .. k]]
<1>3. g[0] = base
  <2>1. 1 .. 0 = {} /\ {} \in SUBSET (1 .. n) /\ 0 \in 0 .. n
    OBVIOUS
  <2> QED
    BY <1>2, <2>1, Zenon
<1>4. ASSUME NEW k \in 1 .. n PROVE g[k] = Joined(g[k - 1], seq[k])
  <2>1. /\ 1 .. k \in SUBSET (1 .. n) /\ 1 .. k # {} /\ (1 .. k) \ {k} = 1 .. (k - 1)
        /\ k \in 0 .. n /\ k - 1 \in 0 .. n
    <3>1. k \in 0 .. n /\ k - 1 \in 0 .. n /\ k \in 1 .. k
      OBVIOUS
    <3>2. \A x \in 1 .. k : x \in 1 .. n
      OBVIOUS
    <3>3. \A x : x \in (1 .. k) \ {k} <=> x \in 1 .. (k - 1)
      OBVIOUS
    <3>4. (1 .. k) \ {k} = 1 .. (k - 1)
      BY <3>3, Zenon
    <3> QED
      BY <3>1, <3>2, <3>4, Zenon
  <2>2. Max(1 .. k) = k
    <3>1. k - 1 \in Nat /\ (k - 1) + 1 = k
      OBVIOUS
    <3>2. 1 .. k \in SUBSET (1 .. (k - 1) + 1) /\ (k - 1) + 1 \in 1 .. k
      OBVIOUS
    <3> QED
      BY <3>1, <3>2, MaxTop
  <2>3. f[1 .. k] = Joined(f[1 .. (k - 1)], seq[k])
    BY <1>2, <2>1, <2>2, Zenon
  <2> QED
    BY <2>1, <2>3, Zenon
<1>5. JoinAll(base, seq) = g[n]
  <2>1. n \in 0 .. n
    OBVIOUS
  <2> QED
    BY <1>1, <2>1, Zenon DEF JoinAll
<1> HIDE DEF g
<1> QED
  BY <1>3, <1>4, <1>5, Zenon

Entries == [addr : Int, size : Nat \ {0}]

\* An entry that grows stays an entry.
LEMMA GrownEntry ==
    ASSUME NEW r \in Entries, NEW d \in Nat
    PROVE  [r EXCEPT !.size = @ + d] \in Entries
BY DEF Entries

\* One entry at a time, a list grows by at most one entry.
LEMMA JoinedLen ==
    ASSUME NEW list \in Seq(Entries), Len(list) > 0, NEW e \in Entries
    PROVE  /\ Joined(list, e) \in Seq(Entries)
           /\ Len(Joined(list, e)) \in {Len(list), Len(list) + 1}
<1>1. CASE e.addr = Last(list).addr + Last(list).size
  <2>1. Joined(list, e) = [list EXCEPT ![Len(list)].size = @ + e.size]
    BY <1>1 DEF Joined
  <2>2. Len(list) \in 1 .. Len(list) /\ list[Len(list)] \in Entries
    OBVIOUS
  <2>3. PICK r : r = list[Len(list)]
    OBVIOUS
  <2>4. r \in Entries /\ e.size \in Nat
    BY <2>2, <2>3 DEF Entries
  <2>5. [r EXCEPT !.size = @ + e.size] \in Entries
    BY <2>4, GrownEntry
  <2>6. Joined(list, e) = [list EXCEPT ![Len(list)] = [r EXCEPT !.size = @ + e.size]]
    BY <2>1, <2>3
  <2> DEFINE x == [r EXCEPT !.size = @ + e.size]
  <2> HIDE DEF x
  <2>7. Joined(list, e) = [list EXCEPT ![Len(list)] = x] /\ x \in Entries
    BY <2>5, <2>6 DEF x
  <2> QED
    BY <2>2, <2>7
<1>2. CASE e.addr # Last(list).addr + Last(list).size
  BY <1>2 DEF Joined
<1> QED
  BY <1>1, <1>2

\* A merged list has no more entries than the list it was made from.
LEMMA MergedLen ==
    ASSUME NEW list \in Seq(Entries), Len(list) > 0
    PROVE  Merged(list) \in Seq(Entries) /\ Len(Merged(list)) \in 1 .. Len(list)
<1> DEFINE n == Len(list) - 1
           base == <<Head(list)>>
           tail == Tail(list)
<1>1. /\ n \in Nat /\ DOMAIN tail = 1 .. n /\ base \in Seq(Entries)
      /\ Len(base) = 1 /\ \A k \in 1 .. n : tail[k] \in Entries
  OBVIOUS
<1> HIDE DEF n, base, tail
<1>2. PICK g : /\ g[0] = base
               /\ \A k \in 1 .. n : g[k] = Joined(g[k - 1], tail[k])
               /\ JoinAll(base, tail) = g[n]
  BY <1>1, FoldSteps
<1> DEFINE P == {k \in Nat : k <= n => g[k] \in Seq(Entries) /\ Len(g[k]) \in 1 .. k + 1}
<1>3. 0 \in P
  <2>1. Len(base) \in 1 .. 0 + 1
    BY <1>1
  <2> QED
    BY <1>1, <1>2, <2>1, Zenon
<1>4. ASSUME NEW k \in Nat, k \in P PROVE k + 1 \in P
  <2>1. CASE k + 1 <= n
    <3>1. g[k] \in Seq(Entries) /\ Len(g[k]) \in 1 .. k + 1
      BY <1>1, <1>4, <2>1
    <3>2. k + 1 \in 1 .. n /\ (k + 1) - 1 = k
      BY <1>1, <2>1
    <3>3. g[k + 1] = Joined(g[k], tail[k + 1]) /\ tail[k + 1] \in Entries
      BY <1>1, <1>2, <3>2
    <3>4. Len(g[k]) > 0
      BY <3>1
    <3>5. g[k + 1] \in Seq(Entries) /\ Len(g[k + 1]) \in {Len(g[k]), Len(g[k]) + 1}
      BY <3>1, <3>3, <3>4, JoinedLen, Zenon
    <3> QED
      BY <3>1, <3>5
  <2>2. CASE ~(k + 1 <= n)
    BY <2>2
  <2> QED
    BY <2>1, <2>2
<1> HIDE DEF P
<1>5. n \in P
  BY <1>1, <1>3, <1>4, NatSetInduction
<1>6. g[n] \in Seq(Entries) /\ Len(g[n]) \in 1 .. n + 1
  BY <1>1, <1>5 DEF P
<1>7. Merged(list) = g[n]
  BY <1>2, Zenon DEF Merged, JoinAll, base, tail
<1> QED
  BY <1>6, <1>7 DEF n

\* Every buffer has at most two pages more than its size has whole pages.
LEMMA RoomEnough ==
    ASSUME NEW b \in Bufs
    PROVE  NrPages(b) <= Room(b, "cpp")
<1> DEFINE P == PAGE_SIZE
           r == Offset(b)
           s == b.size
           m == r + s + P - 1
           q == s \div P
<1>1. P \in Nat \ {0} /\ s \in Nat \ {0}
  BY UmemAssumption
<1>2. r \in 0 .. P - 1
  BY <1>1, UmemAssumption DEF Offset
<1> HIDE DEF P, r, s
<1>3. m \in Nat
  BY <1>1, <1>2
<1>4. q \in Nat /\ s < (q + 1) * P
  <2>1. q \in Nat /\ s = q * P + (s % P) /\ s % P < P
    BY <1>1
  <2> HIDE DEF q
  <2> QED
    BY <1>1, <2>1
<1> HIDE DEF m, q
<1> DEFINE n == m \div P
<1>5. n \in Nat /\ n * P <= m
  BY <1>1, <1>3
<1> HIDE DEF n
<1>6. (q + 1) * P = q * P + P /\ (q + 3) * P = q * P + 3 * P
  BY <1>1, <1>4
<1>7. n * P < (q + 3) * P
  BY <1>1, <1>2, <1>4, <1>5, <1>6 DEF m
<1>8. n < q + 3
  BY <1>1, <1>4, <1>5, <1>7
<1>9. NrPages(b) = n /\ Room(b, "cpp") = q + 2
  BY DEF NrPages, Room, n, m, q, r, s, P
<1> QED
  BY <1>4, <1>5, <1>8, <1>9

\* Where a buffer of s bytes at offset r ends in its n pages of P bytes.
LEMMA PageCount ==
    ASSUME NEW P \in Nat \ {0}, NEW r \in 0 .. P - 1, NEW s \in Nat \ {0}
    PROVE  LET n == (r + s + P - 1) \div P
           IN  n \in Nat /\ (n - 1) * P < r + s /\ r + s <= n * P
<1> DEFINE m == r + s + P - 1
           n == m \div P
<1>1. m \in Nat
  OBVIOUS
<1> HIDE DEF m
<1>2. n \in Nat /\ m = n * P + (m % P) /\ m % P \in 0 .. P - 1
  BY <1>1
<1> HIDE DEF n
<1>3. (n - 1) * P = n * P - P
  BY <1>2
<1>4. n \in Nat /\ (n - 1) * P < r + s /\ r + s <= n * P
  BY <1>1, <1>2, <1>3 DEF m
<1> QED
  BY <1>4 DEF n, m

\* Quotient and remainder of a byte's address.
LEMMA PageSplit ==
    ASSUME NEW P \in Nat \ {0}, NEW a \in Nat, NEW x \in 0 .. P - 1
    PROVE  (a * P + x) \div P = a /\ (a * P + x) % P = x
<1> DEFINE v == a * P + x
<1>1. v \in Nat
  OBVIOUS
<1> HIDE DEF v
<1> DEFINE d == v \div P
           m == v % P
<1>2. d \in Nat /\ m \in 0 .. P - 1 /\ v = d * P + m
  BY <1>1
<1> HIDE DEF d, m
<1>3. d * P + m = a * P + x
  BY <1>2 DEF v
<1>4. d <= a
  <2> SUFFICES ASSUME d >= a + 1 PROVE FALSE
    BY <1>2
  <2>1. d * P >= (a + 1) * P /\ (a + 1) * P = a * P + P
    BY <1>2
  <2> QED
    BY <1>2, <1>3, <2>1
<1>5. a <= d
  <2> SUFFICES ASSUME a >= d + 1 PROVE FALSE
    BY <1>2
  <2>1. a * P >= (d + 1) * P /\ (d + 1) * P = d * P + P
    BY <1>2
  <2> QED
    BY <1>2, <1>3, <2>1
<1>6. d = a
  BY <1>2, <1>4, <1>5
<1>7. m = x
  BY <1>2, <1>3, <1>6
<1> QED
  BY <1>6, <1>7 DEF d, m, v

\* Division and multiplication by the size of a page.
LEMMA PageDivision ==
    ASSUME NEW P \in Nat \ {0}, NEW v \in Nat
    PROVE  v % P \in 0 .. P - 1 /\ v \div P \in Nat /\ v = (v \div P) * P + (v % P)
OBVIOUS

LEMMA PageMonotone ==
    ASSUME NEW P \in Nat, NEW m \in Int, NEW n \in Int, m <= n
    PROVE  m * P <= n * P
<1>1. PICK d \in Nat : n = m + d
  <2>1. n - m \in Nat /\ n = m + (n - m)
    OBVIOUS
  <2> QED
    BY <2>1
<1>2. n * P = m * P + d * P /\ d * P >= 0
  BY <1>1
<1> QED
  BY <1>2

\* The bytes before the page that follows the first k pages.
Before(b, k) == IF k = 0 THEN 0 ELSE Least(b.size, k * PAGE_SIZE - Offset(b))

\* The bus addresses of the buffer's bytes.
BufferBytes(b) == [k \in 1 .. b.size |->
    LET v == b.vma + k - 1
    IN  Frame[v \div PAGE_SIZE] * PAGE_SIZE + (v % PAGE_SIZE)]

\* Entry k of the scatter list: what it covers, and where it begins.
LEMMA SgEntry ==
    ASSUME NEW b \in Bufs, NEW k \in 1 .. NrPages(b)
    PROVE  /\ SgList(b)[k] \in Entries
           /\ Before(b, k - 1) \in Nat
           /\ Before(b, k) = Before(b, k - 1) + SgList(b)[k].size
           /\ Before(b, k) <= b.size
           /\ \A j \in 1 .. SgList(b)[k].size :
                 BufferBytes(b)[Before(b, k - 1) + j] = SgList(b)[k].addr + j - 1
<1> DEFINE P == PAGE_SIZE
           r == Offset(b)
           s == b.size
           v == b.vma
           q == v \div P
           n == NrPages(b)
           f == Frame[q + k - 1]
           length == Least(s, P - r)
<1>1. P \in Nat \ {0} /\ s \in Nat \ {0} /\ v \in Nat
  BY UmemAssumption
<1>2. r \in 0 .. P - 1 /\ q \in Nat /\ v = q * P + r
  BY <1>1, PageDivision DEF Offset
<1>3. n \in Nat /\ (n - 1) * P < r + s /\ r + s <= n * P
  <2> HIDE DEF P, r, s
  <2>1. LET m == (r + s + P - 1) \div P
        IN  m \in Nat /\ (m - 1) * P < r + s /\ r + s <= m * P
    BY <1>1, <1>2, PageCount
  <2> QED
    BY <2>1 DEF NrPages, P, r, s
<1>4. f \in Nat
  <2>1. k - 1 \in 0 .. NrPages(b) - 1
    BY <1>3
  <2>2. (b.vma \div PAGE_SIZE) + (k - 1) \in PagesOf(b)
    BY <2>1 DEF PagesOf, FirstPages
  <2>3. (b.vma \div PAGE_SIZE) + (k - 1) = q + k - 1
    BY <1>2, <2>1
  <2> QED
    BY <2>2, <2>3, PagesType, UmemAssumption
<1>5. SgList(b)[k] = IF k = 1 THEN [addr |-> Frame[q] * P + r, size |-> length]
                     ELSE [addr |-> f * P,
                           size |-> Least(s - length - (k - 2) * P, P)]
  BY DEF SgList
<1>6. Before(b, k - 1) = IF k - 1 = 0 THEN 0 ELSE Least(s, (k - 1) * P - r)
  BY DEF Before
<1>7. Before(b, k) = Least(s, k * P - r)
  BY DEF Before
<1>8. \A i \in 1 .. s : BufferBytes(b)[i] = Frame[(v + i - 1) \div P] * P + ((v + i - 1) % P)
  BY DEF BufferBytes
<1>9. q + k - 1 \in Nat /\ k \in 1 .. n
  BY <1>2
<1> HIDE DEF P, r, s, v, q, n, f, length
<1>10. CASE k = 1
  <2>1. q + k - 1 = q /\ f = Frame[q]
    BY <1>2, <1>10 DEF f
  <2>2. length = Least(s, P - r) /\ length \in Nat \ {0} /\ length <= s /\ length <= P - r
    BY <1>1, <1>2 DEF length, Least
  <2>3. SgList(b)[k] = [addr |-> f * P + r, size |-> length] /\ f * P + r \in Int
    BY <1>1, <1>2, <1>4, <1>5, <1>10, <2>1
  <2>4. Before(b, k - 1) = 0 /\ Before(b, k) = length
    BY <1>1, <1>2, <1>6, <1>7, <1>10, <2>2
  <2>5. ASSUME NEW j \in 1 .. length
        PROVE  BufferBytes(b)[0 + j] = f * P + r + j - 1
    <3>1. j \in 1 .. s /\ 0 + j = j /\ r + j - 1 \in 0 .. P - 1
      BY <1>1, <1>2, <2>2
    <3>2. v + j - 1 = q * P + (r + j - 1)
      BY <1>1, <1>2, <3>1
    <3>3. (v + j - 1) \div P = q /\ (v + j - 1) % P = r + j - 1
      <4>1. PICK x \in 0 .. P - 1 : x = r + j - 1
        BY <3>1
      <4>2. v + j - 1 = q * P + x
        BY <3>2, <4>1
      <4>3. (q * P + x) \div P = q /\ (q * P + x) % P = x
        BY <1>1, <1>2, <4>1, PageSplit
      <4> QED
        BY <4>1, <4>2, <4>3, Zenon
    <3>4. BufferBytes(b)[j] = f * P + (r + j - 1)
      BY <1>8, <2>1, <3>1, <3>3
    <3>5. f * P \in Nat
      BY <1>1, <1>4
    <3> QED
      BY <1>2, <3>1, <3>4, <3>5
  <2>6. SgList(b)[k] \in Entries /\ SgList(b)[k].size = length /\ SgList(b)[k].addr = f * P + r
    BY <2>2, <2>3 DEF Entries
  <2> QED
    BY <1>1, <2>2, <2>4, <2>5, <2>6 DEF s
<1>11. CASE k # 1
  <2> DEFINE c == (k - 1) * P - r
             z == Least(s - length - (k - 2) * P, P)
  <2>1. (k - 1) * P <= (n - 1) * P /\ P <= (k - 1) * P
    <3>1. k - 1 <= n - 1 /\ 1 <= k - 1 /\ k - 1 \in Int /\ n - 1 \in Int /\ P \in Nat /\ 1 * P = P
      BY <1>1, <1>3, <1>9, <1>11
    <3> QED
      BY <3>1, PageMonotone
  <2>2. (k - 2) * P = (k - 1) * P - P /\ k * P = (k - 1) * P + P
    BY <1>1
  <2>3. (k - 1) * P \in Nat /\ (n - 1) * P \in Int /\ c \in Nat /\ c < s
    BY <1>1, <1>2, <1>3, <1>9, <2>1
  <2>4. length = P - r
    BY <1>1, <1>2, <1>3, <2>1, <2>3 DEF length, Least
  <2> DEFINE y == (k - 1) * P
  <2>5. y \in Nat /\ (k - 2) * P = y - P /\ k * P = y + P /\ c = y - r
    BY <2>2, <2>3
  <2>6. z = Least(s - c, P)
    <3> HIDE DEF y
    <3>1. s - length - (k - 2) * P = s - c
      BY <1>1, <1>2, <2>4, <2>5
    <3> QED
      BY <3>1
  <2>7. Before(b, k - 1) = c
    <3>1. Before(b, k - 1) = Least(s, c)
      BY <1>6, <1>9, <1>11
    <3> QED
      BY <1>1, <2>3, <3>1 DEF Least
  <2>8. Before(b, k) = Least(s, c + P)
    <3>1. k * P - r = c + P
      <4> HIDE DEF y
      <4> QED
        BY <1>1, <1>2, <2>5
    <3> QED
      BY <1>7, <3>1
  <2> HIDE DEF c, z, y
  <2>9. z \in Nat \ {0} /\ z <= s - c /\ z <= P /\ Before(b, k) = c + z
    BY <1>1, <2>3, <2>6, <2>8 DEF Least
  <2>10. SgList(b)[k] = [addr |-> f * P, size |-> z] /\ f * P \in Int
    BY <1>1, <1>4, <1>5, <1>11 DEF z
  <2>11. ASSUME NEW j \in 1 .. z
         PROVE  BufferBytes(b)[c + j] = f * P + j - 1
    <3>1. c + j \in 1 .. s /\ j - 1 \in 0 .. P - 1
      BY <1>1, <2>3, <2>9
    <3>2. (q + k - 1) * P = q * P + y
      BY <1>1, <1>2, <1>9 DEF y
    <3>3. v + (c + j) - 1 = (q + k - 1) * P + (j - 1)
      BY <1>1, <1>2, <2>3, <2>5, <3>1, <3>2
    <3>4. (v + (c + j) - 1) \div P = q + k - 1 /\ (v + (c + j) - 1) % P = j - 1
      <4>1. PICK a \in Nat : a = q + k - 1
        BY <1>9
      <4>2. PICK x \in 0 .. P - 1 : x = j - 1
        BY <3>1
      <4>3. (a * P + x) \div P = a /\ (a * P + x) % P = x
        BY <1>1, PageSplit
      <4>4. v + (c + j) - 1 = a * P + x
        BY <3>3, <4>1, <4>2
      <4> QED
        BY <4>1, <4>2, <4>3, <4>4, Zenon
    <3>5. BufferBytes(b)[c + j] = f * P + (j - 1)
      BY <1>8, <3>1, <3>4 DEF f
    <3>6. f * P \in Nat
      BY <1>1, <1>4
    <3> QED
      BY <3>1, <3>5, <3>6
  <2>12. SgList(b)[k] \in Entries /\ SgList(b)[k].size = z /\ SgList(b)[k].addr = f * P
    BY <2>9, <2>10 DEF Entries
  <2>13. c + z <= s
    BY <1>1, <2>3, <2>9
  <2> QED
    BY <2>3, <2>7, <2>9, <2>11, <2>12, <2>13 DEF s
<1> QED
  BY <1>10, <1>11

\* The scatter list has an entry for every page.
LEMMA SgListType ==
    ASSUME NEW b \in Bufs
    PROVE  SgList(b) \in Seq(Entries) /\ Len(SgList(b)) = NrPages(b) /\ NrPages(b) > 0
<1> DEFINE n == NrPages(b)
           list == SgList(b)
<1>1. list = [k \in 1 .. n |-> list[k]]
  BY DEF SgList
<1>2. n \in Nat \ {0} /\ \A k \in 1 .. n : list[k] \in Entries
  BY FirstPagesType, SgEntry
<1> HIDE DEF n, list
<1>3. list \in Seq(Entries) /\ Len(list) = n /\ n > 0
  BY <1>1, <1>2
<1> QED
  BY <1>3 DEF n, list

-----------------------------------------------------------------------------
(***************************************************************************)
(* Which list an object and a library have, and whose array is too short.  *)
(***************************************************************************)

\* The lists that pci_map_sg may leave, and what a library gets of one.
SgLists(b) == {SgList(b), Merged(SgList(b))}
Copied(merged, list) == IF merged THEN Merged(list) ELSE Plain(list)

ListFunctions == /\ sg = [o \in Objs |-> sg[o]]
                 /\ sgl = [t \in Threads |-> sgl[t]]

SgGiven == \A o \in umem_list \cup dma : sg[o] \in SgLists(buf[o])

SgCopied == \A t \in Threads : pc[t] \in {Held, "sync"} /\ cur[t] # None =>
    \E list \in SgLists(buf[cur[t]]) : sgl[t] = Copied(call[t].merged, list)

Lists == ListFunctions /\ SgGiven /\ SgCopied /\ CppHasRoom

\* Where no list of an object changes and no object is mapped.
LEMMA GivenFrame ==
    ASSUME SgGiven, sg' = sg, buf' = buf,
           umem_list' \cup dma' \subseteq umem_list \cup dma
    PROVE  SgGiven'
BY DEF SgGiven

\* Where no thread gets a list or is told that its array is too short.
LEMMA CopiedFrame ==
    ASSUME SgCopied, CppHasRoom,
           \A t \in Threads : pc'[t] \in {Held, "sync", "short"} =>
               /\ cur'[t] \in {cur[t], None} /\ call'[t] = call[t]
               /\ pc'[t] = "short" => pc[t] = "short"
               /\ pc'[t] \in {Held, "sync"} => pc[t] \in {Held, "sync"}
               /\ cur'[t] # None => sgl'[t] = sgl[t] /\ buf'[cur[t]] = buf[cur[t]]
    PROVE  SgCopied' /\ CppHasRoom'
<1>1. "short" \notin {Held, "sync"}
  BY DEF Held
<1>2. SgCopied'
  BY <1>1 DEF SgCopied
<1>3. CppHasRoom'
  BY <1>1 DEF CppHasRoom
<1> QED
  BY <1>2, <1>3

\* The steps that leave the lists and the buffers of the objects alone.
LEMMA ListsKeptStep ==
    ASSUME Inv, Lists, NEW a \in Actors, NEW q, q # "short",
           q \in {Held, "sync"} => pc[a] \in {Held, "sync"} /\ cur'[a] = cur[a],
           pc' = [pc EXCEPT ![a] = q],
           \A c \in Actors \ {a} : cur'[c] = cur[c],
           sg' = sg, buf' = buf, sgl' = sgl, call' = call,
           umem_list' \cup dma' \subseteq umem_list \cup dma
    PROVE  Lists'
<1>1. SgGiven'
  BY GivenFrame DEF Lists
<1>2. ListFunctions'
  BY DEF Lists, ListFunctions
<1>3. ASSUME NEW t \in Threads, pc'[t] \in {Held, "sync", "short"}
      PROVE  /\ cur'[t] \in {cur[t], None} /\ call'[t] = call[t]
             /\ pc'[t] = "short" => pc[t] = "short"
             /\ pc'[t] \in {Held, "sync"} => pc[t] \in {Held, "sync"}
             /\ cur'[t] # None => sgl'[t] = sgl[t] /\ buf'[cur[t]] = buf[cur[t]]
  <2>1. t \in Actors /\ "short" \notin {Held, "sync"}
    BY DEF Actors, Held
  <2>2. pc'[t] = IF t = a THEN q ELSE pc[t]
    BY <2>1 DEF Inv, Structure, TypeOK
  <2> QED
    BY <1>3, <2>1, <2>2
<1> QED
  BY <1>1, <1>2, <1>3, CopiedFrame DEF Lists

\* The steps of a call that neither give nor take a list.
LEMMA ListsCallStep ==
    ASSUME Inv, Lists, NEW t \in Threads,
           \/ \E n \in 0 .. Cardinality(Pages) : GetPages(t, n)
           \/ LockPages(t) \/ NewEntry(t) \/ InitAttr(t) \/ Link(t)
           \/ UnmapSg(t) \/ SyncFind(t) \/ SyncUse(t)
    PROVE  Lists'
<1>0. t \in Actors
  BY DEF Actors
<1>1. cur' = cur /\ sg' = sg /\ buf' = buf /\ sgl' = sgl /\ call' = call
  BY DEF GetPages, LockPages, NewEntry, InitAttr, Link, UnmapSg, SyncFind, SyncUse,
         objects, library
<1>2. umem_list' \cup dma' \subseteq umem_list \cup dma
  <2>1. CASE Link(t)
    <3>1. cur[t] \in dma
      BY <2>1, MapperFacts DEF Link, Mapping, Dma
    <3> QED
      BY <2>1, <3>1 DEF Link
  <2>2. CASE ~Link(t)
    BY <2>2 DEF GetPages, LockPages, NewEntry, InitAttr, UnmapSg, SyncFind, SyncUse,
                objects
  <2> QED
    BY <2>1, <2>2
<1>3. PICK q \in {"lock", "put", "sg", "unsg", "attr", "link", "sgget", "sync", "held"} :
        /\ pc' = [pc EXCEPT ![t] = q]
        /\ q \in {Held, "sync"} => pc[t] \in {Held, "sync"}
  BY DEF GetPages, LockPages, NewEntry, InitAttr, Link, UnmapSg, SyncFind, SyncUse,
         Goto, Held
<1>4. q # "short"
  BY <1>3
<1> QED
  BY <1>0, <1>1, <1>2, <1>3, <1>4, ListsKeptStep, Zenon

\* The steps of an unmapping but for the last.
LEMMA ListsUnmapStep ==
    ASSUME Inv, Lists, NEW a \in Actors,
           \/ \E o \in umem_list : Unmap(a, o)
           \/ UnAttr(a) \/ UnDma(a) \/ ReleasePages(a)
    PROVE  Lists'
<1>1. sg' = sg /\ buf' = buf /\ sgl' = sgl /\ call' = call
      /\ umem_list' = umem_list /\ dma' \subseteq dma
  BY DEF Unmap, UnAttr, UnDma, ReleasePages, objects, library
<1>2. \A c \in Actors \ {a} : cur'[c] = cur[c]
  BY DEF Unmap, UnAttr, UnDma, ReleasePages, Inv, Structure, TypeOK
<1>3. PICK q \in Unmapping : pc' = [pc EXCEPT ![a] = q]
  BY DEF Unmap, UnAttr, UnDma, ReleasePages, Goto, Unmapping
<1>4. q \notin {Held, "sync"} /\ q # "short"
  BY <1>3 DEF Unmapping, Held
<1>5. umem_list' \cup dma' \subseteq umem_list \cup dma
  BY <1>1
<1> QED
  BY <1>1, <1>2, <1>3, <1>4, <1>5, ListsKeptStep, Zenon

\* pci_map_sg gives a list, or fails.
LEMMA ListsMapSgStep ==
    ASSUME Inv, Lists, NEW t \in Threads, MapSg(t)
    PROVE  Lists'
<1>0. t \in Actors /\ pc[t] \in Mapping /\ cur[t] \in Objs
  BY MapperFacts DEF Actors, MapSg, Mapping
<1>1. CASE Goto(t, "put") /\ UNCHANGED <<dma, sg>>
  <2>1. cur' = cur /\ sg' = sg /\ buf' = buf /\ sgl' = sgl /\ call' = call
        /\ umem_list' = umem_list /\ dma' = dma /\ pc' = [pc EXCEPT ![t] = "put"]
    BY <1>1 DEF MapSg, library, Goto
  <2>2. "put" \notin {Held, "sync"} /\ "put" # "short"
    BY DEF Held
  <2>3. umem_list' \cup dma' \subseteq umem_list \cup dma
    BY <2>1
  <2> QED
    BY <1>0, <2>1, <2>2, <2>3, ListsKeptStep, Zenon
<1>2. CASE /\ sg' \in {[sg EXCEPT ![cur[t]] = list] :
                           list \in {SgList(buf[cur[t]]), Merged(SgList(buf[cur[t]]))}}
           /\ dma' = dma \cup {cur[t]}
           /\ Goto(t, "entry")
  <2>1. PICK o \in Objs : o = cur[t]
    BY <1>0
  <2>2. PICK list \in SgLists(buf[o]) : sg' = [sg EXCEPT ![o] = list]
    BY <1>2, <2>1 DEF SgLists
  <2>3. cur' = cur /\ buf' = buf /\ sgl' = sgl /\ call' = call
        /\ umem_list' = umem_list /\ dma' = dma \cup {o}
        /\ pc' = [pc EXCEPT ![t] = "entry"]
    BY <1>2, <2>1 DEF MapSg, library, Goto
  <2>4. sg = [x \in Objs |-> sg[x]]
    BY DEF Lists, ListFunctions
  <2>5. sg'[o] = list /\ \A x \in Objs \ {o} : sg'[x] = sg[x]
    BY <2>2, <2>4
  <2>6. umem_list \subseteq Objs /\ dma \subseteq Objs
    BY DEF Inv, Structure, TypeOK
  <2>7. SgGiven'
    BY <2>1, <2>2, <2>3, <2>5, <2>6 DEF Lists, SgGiven
  <2>8. ListFunctions'
    BY <2>2, <2>3, <2>4 DEF Lists, ListFunctions
  <2>9. "entry" \notin {Held, "sync", "short"}
    BY DEF Held
  <2>10. \A s \in Threads : s # t => pc'[s] = pc[s]
    BY <2>3 DEF Inv, Structure, TypeOK, Actors
  <2>11. pc'[t] = "entry"
    BY <1>0, <2>3 DEF Inv, Structure, TypeOK
  <2>12. SgCopied' /\ CppHasRoom'
    BY <2>3, <2>9, <2>10, <2>11, CopiedFrame DEF Lists
  <2> QED
    BY <2>7, <2>8, <2>12 DEF Lists
<1> QED
  BY <1>1, <1>2 DEF MapSg

\* A thread starts with a free object, which has no list.
LEMMA ListsMapUserStep ==
    ASSUME Inv, Lists, NEW t \in Threads, NEW b \in Bufs, NEW api \in {"cpp", "c"},
           NEW merged \in BOOLEAN, MapUser(t, b, api, merged)
    PROVE  Lists'
<1>0. PICK o \in Objs : /\ buf[o] = None
                        /\ buf' = [buf EXCEPT ![o] = b]
                        /\ cur' = [cur EXCEPT ![t] = o]
  BY DEF MapUser
<1>1. /\ pc' = [pc EXCEPT ![t] = "pages"]
      /\ umem_list' = umem_list /\ dma' = dma /\ sg' = sg /\ sgl' = sgl
      /\ call' = [call EXCEPT ![t] = [api |-> api, merged |-> merged]]
  BY DEF MapUser, Goto
<1>2. o \notin umem_list \cup dma
  BY <1>0 DEF Inv, Structure, ObjOk
<1>3. umem_list \subseteq Objs /\ dma \subseteq Objs
      /\ \A x \in Objs \ {o} : buf'[x] = buf[x]
  BY <1>0 DEF Inv, Structure, TypeOK
<1>4. SgGiven'
  BY <1>1, <1>2, <1>3 DEF Lists, SgGiven
<1>5. ListFunctions'
  BY <1>1 DEF Lists, ListFunctions
<1>6. pc'[t] = "pages" /\ "pages" \notin {Held, "sync", "short"}
  BY <1>1 DEF Inv, Structure, TypeOK, Actors, Held
<1>7. ASSUME NEW s \in Threads, s # t
      PROVE  /\ pc'[s] = pc[s] /\ cur'[s] = cur[s] /\ call'[s] = call[s]
             /\ cur'[s] # None => buf'[cur[s]] = buf[cur[s]]
  <2>1. pc'[s] = pc[s] /\ cur'[s] = cur[s] /\ call'[s] = call[s] /\ s \in Actors
    BY <1>0, <1>1, <1>7 DEF Inv, Structure, TypeOK, Actors
  <2>2. cur[s] # None => cur[s] \in Objs /\ cur[s] # o
    BY <1>0, <2>1 DEF Inv, Structure, TypeOK, ActorOk
  <2> QED
    BY <1>3, <2>1, <2>2
<1>8. SgCopied' /\ CppHasRoom'
  BY <1>1, <1>6, <1>7, CopiedFrame DEF Lists
<1> QED
  BY <1>4, <1>5, <1>8 DEF Lists

\* A call that failed frees an object that is neither listed nor mapped.
LEMMA ListsPutPagesStep ==
    ASSUME Inv, Lists, NEW t \in Threads, PutPages(t)
    PROVE  Lists'
<1>0. pc[t] = "put" /\ "put" \in Mapping /\ "put" \notin Dma
  BY DEF PutPages, Mapping, Dma
<1>1. /\ t \in Actors /\ cur[t] \in Objs /\ cur[t] \notin umem_list /\ cur[t] \notin dma
      /\ \A c \in Actors : cur[c] = cur[t] => c = t
  BY <1>0, MapperFacts
<1>2. PICK o \in Objs : o = cur[t]
  BY <1>1
<1>3. /\ buf' = [buf EXCEPT ![o] = None] /\ sg' = [sg EXCEPT ![o] = << >>]
      /\ cur' = [cur EXCEPT ![t] = None] /\ sgl' = [sgl EXCEPT ![t] = << >>]
      /\ call' = [call EXCEPT ![t] = NoCall] /\ pc' = [pc EXCEPT ![t] = Idle]
      /\ umem_list' = umem_list /\ dma' = dma
  BY <1>2 DEF PutPages, Forget, Goto
<1>4. umem_list \subseteq Objs /\ dma \subseteq Objs
      /\ \A x \in Objs \ {o} : buf'[x] = buf[x] /\ sg'[x] = sg[x]
  BY <1>3 DEF Inv, Structure, TypeOK, Lists, ListFunctions
<1>5. SgGiven'
  BY <1>1, <1>2, <1>3, <1>4 DEF Lists, SgGiven
<1>6. ListFunctions'
  BY <1>3 DEF Lists, ListFunctions
<1>7. pc'[t] = Idle /\ Idle \notin {Held, "sync", "short"}
  BY <1>3 DEF Inv, Structure, TypeOK, Actors, Held, Idle
<1>8. ASSUME NEW s \in Threads, s # t
      PROVE  /\ pc'[s] = pc[s] /\ cur'[s] = cur[s] /\ call'[s] = call[s] /\ sgl'[s] = sgl[s]
             /\ cur'[s] # None => buf'[cur[s]] = buf[cur[s]]
  <2>1. /\ pc'[s] = pc[s] /\ cur'[s] = cur[s] /\ call'[s] = call[s] /\ s \in Actors
        /\ sgl'[s] = sgl[s]
    BY <1>3, <1>8 DEF Inv, Structure, TypeOK, Actors, Lists, ListFunctions
  <2>2. cur[s] # None => cur[s] \in Objs /\ cur[s] # o
    BY <1>1, <1>2, <1>8, <2>1 DEF Inv, Structure, TypeOK
  <2> QED
    BY <1>4, <2>1, <2>2
<1>9. SgCopied' /\ CppHasRoom'
  BY <1>7, <1>8, CopiedFrame DEF Lists
<1> QED
  BY <1>5, <1>6, <1>9 DEF Lists

\* A thread gives up its buffer.
LEMMA ListsForgetStep ==
    ASSUME Inv, Lists, NEW t \in Threads, Forget(t), UNCHANGED <<objects, pages, got>>
    PROVE  Lists'
<1>1. /\ buf' = buf /\ sg' = sg /\ umem_list' = umem_list /\ dma' = dma
      /\ cur' = [cur EXCEPT ![t] = None] /\ sgl' = [sgl EXCEPT ![t] = << >>]
      /\ call' = [call EXCEPT ![t] = NoCall] /\ pc' = [pc EXCEPT ![t] = Idle]
  BY DEF objects, Forget, Goto
<1>2. SgGiven'
  BY <1>1, GivenFrame DEF Lists
<1>3. ListFunctions'
  BY <1>1 DEF Lists, ListFunctions
<1>4. pc'[t] = Idle /\ Idle \notin {Held, "sync", "short"}
  BY <1>1 DEF Inv, Structure, TypeOK, Actors, Held, Idle
<1>5. \A s \in Threads \ {t} : /\ pc'[s] = pc[s] /\ cur'[s] = cur[s]
                               /\ call'[s] = call[s] /\ sgl'[s] = sgl[s]
  BY <1>1 DEF Inv, Structure, TypeOK, Actors, Lists, ListFunctions
<1>6. SgCopied' /\ CppHasRoom'
  BY <1>1, <1>4, <1>5, CopiedFrame DEF Lists
<1> QED
  BY <1>2, <1>3, <1>6 DEF Lists

\* A list of an object has at most an entry for every page.
LEMMA SgListsLen ==
    ASSUME NEW b \in Bufs, NEW list \in SgLists(b)
    PROVE  list \in Seq(Entries) /\ Len(list) \in 1 .. NrPages(b)
<1>1. SgList(b) \in Seq(Entries) /\ Len(SgList(b)) = NrPages(b) /\ NrPages(b) > 0
  BY SgListType
<1> DEFINE l == SgList(b)
<1> HIDE DEF l
<1>2. l \in Seq(Entries) /\ Len(l) > 0 /\ Len(l) = NrPages(b) /\ NrPages(b) \in Nat
  BY <1>1, FirstPagesType DEF l
<1>3. Merged(l) \in Seq(Entries) /\ Len(Merged(l)) \in 1 .. Len(l)
  BY <1>2, MergedLen
<1>4. list \in {l, Merged(l)}
  BY DEF SgLists, l
<1> QED
  BY <1>2, <1>3, <1>4

\* A thread that has its buffer on the list.
LEMMA UserFacts ==
    ASSUME Inv, NEW t \in Threads, pc[t] \notin Mapping, cur[t] # None
    PROVE  /\ t \in Actors /\ cur[t] \in Objs /\ buf[cur[t]] \in Bufs
           /\ cur[t] \in umem_list
<1>1. t \in Actors
  BY DEF Actors
<1>2. cur[t] \in Objs /\ cur[t] \in umem_list /\ buf[cur[t]] # None
  BY <1>1 DEF Inv, Structure, TypeOK, ActorOk
<1> QED
  BY <1>1, <1>2 DEF Inv, Structure, TypeOK

\* The C++ library has room for every list.
LEMMA ListsSgGetStep ==
    ASSUME Inv, Lists, NEW t \in Threads, SgGet(t)
    PROVE  Lists'
<1>1. /\ buf' = buf /\ sg' = sg /\ umem_list' = umem_list /\ dma' = dma
      /\ cur' = cur /\ sgl' = sgl /\ call' = call /\ pc[t] = "sgget"
  BY DEF SgGet, objects, library
<1>2. t \in Actors /\ pc[t] \notin Mapping
  BY <1>1 DEF Mapping, Actors
<1>3. SgGiven'
  BY <1>1, GivenFrame DEF Lists
<1>4. ListFunctions'
  BY <1>1 DEF Lists, ListFunctions
<1>5. PICK q \in {"refused", "short", "copy"} :
          /\ pc' = [pc EXCEPT ![t] = q]
          /\ q = "short" => /\ cur[t] \in umem_list
                            /\ Len(sg[cur[t]]) > Room(buf[cur[t]], call[t].api)
  BY DEF SgGet, SgFound, Goto
<1>6. pc'[t] = q /\ \A s \in Threads \ {t} : pc'[s] = pc[s]
  BY <1>2, <1>5 DEF Inv, Structure, TypeOK, Actors
<1>7. SgCopied'
  <2>1. pc'[t] \notin {Held, "sync"}
    BY <1>6 DEF Held
  <2> QED
    BY <1>1, <1>6, <2>1 DEF Lists, SgCopied
<1>8. CppHasRoom'
  <2>1. ASSUME q = "short", call[t].api = "cpp"
        PROVE  FALSE
    <3>1. cur[t] \in umem_list /\ buf[cur[t]] \in Bufs
      <4>1. cur[t] # None
        BY <1>5, <2>1, UmemAssumption DEF Inv, Structure, TypeOK
      <4> QED
        BY <1>2, <4>1, UserFacts
    <3>2. sg[cur[t]] \in SgLists(buf[cur[t]])
      BY <3>1 DEF Lists, SgGiven
    <3>3. Len(sg[cur[t]]) \in 1 .. NrPages(buf[cur[t]])
      BY <3>1, <3>2, SgListsLen
    <3>4. NrPages(buf[cur[t]]) <= Room(buf[cur[t]], "cpp")
      BY <3>1, RoomEnough
    <3>5. NrPages(buf[cur[t]]) \in Nat /\ Room(buf[cur[t]], "cpp") \in Int
      <4>1. PICK b \in Bufs : b = buf[cur[t]]
        BY <3>1
      <4>2. b.size \div PAGE_SIZE \in Int
        BY UmemAssumption
      <4>3. Room(b, "cpp") = (b.size \div PAGE_SIZE) + 2
        BY DEF Room
      <4> QED
        BY <4>1, <4>2, <4>3, FirstPagesType
    <3>6. Len(sg[cur[t]]) <= Room(buf[cur[t]], "cpp")
      BY <3>3, <3>4, <3>5
    <3>7. Len(sg[cur[t]]) > Room(buf[cur[t]], "cpp")
      BY <1>5, <2>1
    <3>8. Len(sg[cur[t]]) \in Int
      BY <3>3
    <3> QED
      BY <3>5, <3>6, <3>7, <3>8
  <2>2. call[t].api \in {"cpp", "c"}
    BY DEF Inv, Structure, TypeOK
  <2>3. q = "short" => call[t].api = "c"
    BY <2>1, <2>2
  <2> QED
    BY <1>1, <1>6, <2>3 DEF Lists, CppHasRoom
<1> QED
  BY <1>3, <1>4, <1>7, <1>8 DEF Lists

\* A library copies the list of an object that is still there.
LEMMA ListsSgCopyStep ==
    ASSUME Inv, Lists, NEW t \in Threads, SgCopy(t)
    PROVE  Lists'
<1>1. /\ buf' = buf /\ sg' = sg /\ umem_list' = umem_list /\ dma' = dma
      /\ cur' = cur /\ call' = call /\ pc[t] = "copy"
  BY DEF SgCopy, objects
<1>2. t \in Actors /\ pc[t] \notin Mapping /\ pc[t] \in Using
  BY <1>1 DEF Mapping, Actors, Using
<1>3. SgGiven'
  BY <1>1, GivenFrame DEF Lists
<1>4. cur[t] # None /\ cur[t] \in umem_list
  <2>1. cur[t] # None
    BY <1>2 DEF Inv, Structure, ActorOk
  <2> QED
    BY <1>2, <2>1, UserFacts
<1>5. sg[cur[t]] \in SgLists(buf[cur[t]])
  BY <1>4 DEF Lists, SgGiven
<1>6. CASE /\ pc' = [pc EXCEPT ![t] = Held]
           /\ sgl' = [sgl EXCEPT ![t] = Copied(call[t].merged, sg[cur[t]])]
  <2>1. ListFunctions'
    BY <1>1, <1>6 DEF Lists, ListFunctions
  <2>2. /\ pc'[t] = Held /\ sgl'[t] = Copied(call[t].merged, sg[cur[t]])
        /\ \A s \in Threads \ {t} : pc'[s] = pc[s] /\ sgl'[s] = sgl[s]
    BY <1>2, <1>6 DEF Inv, Structure, TypeOK, Actors, Lists, ListFunctions
  <2>3. SgCopied'
    BY <1>1, <1>5, <2>2 DEF Lists, SgCopied
  <2>4. CppHasRoom'
    BY <1>1, <2>2 DEF Lists, CppHasRoom, Held
  <2> QED
    BY <1>3, <2>1, <2>3, <2>4 DEF Lists
<1>7. CASE pc' = [pc EXCEPT ![t] = "refused"] /\ sgl' = sgl
  <2>1. "refused" \notin {Held, "sync", "short"}
    BY DEF Held
  <2> QED
    BY <1>1, <1>2, <1>7, <2>1, ListsKeptStep
<1> QED
  BY <1>6, <1>7 DEF SgCopy, Goto, Copied

\* An object that is freed was not mapped any more, and nobody keeps it.
LEMMA ListsUnlinkStep ==
    ASSUME Inv, Lists, NEW a \in Actors, Unlink(a)
    PROVE  Lists'
<1>0. pc[a] = "unlink" /\ "unlink" \in Unmapping /\ "unlink" \in NoDma
      /\ "unlink" \notin Mapping
  BY DEF Unlink, Unmapping, NoDma, Mapping
<1>1. cur[a] # None /\ cur[a] \in Objs /\ cur[a] \in umem_list
  BY <1>0 DEF Inv, Structure, TypeOK, ActorOk
<1>2. cur[a] \notin dma
  <2>1. Busy(cur[a], NoDma)
    BY <1>0 DEF Busy
  <2> QED
    BY <1>1, <2>1 DEF Inv, Structure, ObjOk
<1>3. PICK o \in Objs : o = cur[a]
  BY <1>1
<1>4. /\ umem_list' = umem_list \ {o} /\ dma' = dma
      /\ buf' = [buf EXCEPT ![o] = None] /\ sg' = [sg EXCEPT ![o] = << >>]
      /\ \A c \in Actors : cur'[c] = IF cur[c] = o THEN None ELSE cur[c]
      /\ \A c \in Actors : pc'[c] \in {pc[c], Idle, "oops"}
      /\ sgl' = [t \in Threads |-> IF cur'[t] = None THEN << >> ELSE sgl[t]]
      /\ call' = [t \in Threads |-> IF pc'[t] \in {Idle, "oops"} THEN NoCall ELSE call[t]]
  <2>1. /\ umem_list' = umem_list \ {o} /\ dma' = dma
        /\ buf' = [buf EXCEPT ![o] = None] /\ sg' = [sg EXCEPT ![o] = << >>]
        /\ sgl' = [t \in Threads |-> IF cur'[t] = None THEN << >> ELSE sgl[t]]
        /\ call' = [t \in Threads |-> IF pc'[t] \in {Idle, "oops"} THEN NoCall ELSE call[t]]
    BY <1>3 DEF Unlink
  <2>2. \A c \in Actors : cur'[c] = IF cur[c] = o THEN None ELSE cur[c]
    BY <1>3 DEF Unlink
  <2>3. \A c \in Actors : pc'[c] \in {pc[c], Idle, "oops"}
    BY DEF Unlink
  <2> QED
    BY <2>1, <2>2, <2>3
<1>5. umem_list \subseteq Objs /\ dma \subseteq Objs
      /\ \A x \in Objs \ {o} : buf'[x] = buf[x] /\ sg'[x] = sg[x]
  BY <1>4 DEF Inv, Structure, TypeOK, Lists, ListFunctions
<1>6. SgGiven'
  BY <1>2, <1>3, <1>4, <1>5 DEF Lists, SgGiven
<1>7. ListFunctions'
  BY <1>4 DEF Lists, ListFunctions
<1>8. ASSUME NEW t \in Threads, pc'[t] \in {Held, "sync", "short"}
      PROVE  /\ pc'[t] = pc[t] /\ cur'[t] \in {cur[t], None} /\ call'[t] = call[t]
             /\ cur'[t] # None => sgl'[t] = sgl[t] /\ buf'[cur[t]] = buf[cur[t]]
  <2>1. t \in Actors /\ Idle \notin {Held, "sync", "short"}
        /\ "oops" \notin {Held, "sync", "short"}
    BY DEF Actors, Idle, Held
  <2>2. pc'[t] = pc[t] /\ call'[t] = call[t]
    BY <1>4, <1>8, <2>1
  <2>3. cur'[t] = IF cur[t] = o THEN None ELSE cur[t]
    BY <1>4, <2>1
  <2>4. cur[t] \in Objs \cup {None}
    BY <2>1 DEF Inv, Structure, TypeOK
  <2> QED
    BY <1>4, <1>5, <2>2, <2>3, <2>4
<1>9. SgCopied' /\ CppHasRoom'
  BY <1>8, CopiedFrame DEF Lists
<1> QED
  BY <1>6, <1>7, <1>9 DEF Lists

\* At the start there are no lists.
LEMMA InitLists == Init => Lists
<1> SUFFICES ASSUME Init PROVE Lists
  OBVIOUS
<1>1. \A t \in Threads : cur[t] = None /\ pc[t] # "short"
  BY DEF Init, Actors, Idle
<1>2. ListFunctions /\ SgGiven
  BY DEF Init, ListFunctions, SgGiven
<1> QED
  BY <1>1, <1>2 DEF Lists, SgCopied, CppHasRoom

\* No step breaks the invariant on the lists.
LEMMA ListsStep == Inv /\ Lists /\ [Next]_vars => Lists'
<1> SUFFICES ASSUME Inv, Lists, [Next]_vars PROVE Lists'
  OBVIOUS
<1>1. ASSUME NEW t \in Threads, NEW b \in Bufs, NEW api \in {"cpp", "c"},
             NEW merged \in BOOLEAN, MapUser(t, b, api, merged)
      PROVE  Lists'
  BY <1>1, ListsMapUserStep
<1>2. ASSUME NEW t \in Threads,
             \/ \E n \in 0 .. Cardinality(Pages) : GetPages(t, n)
             \/ LockPages(t) \/ NewEntry(t) \/ InitAttr(t) \/ Link(t)
             \/ UnmapSg(t) \/ SyncFind(t) \/ SyncUse(t)
      PROVE  Lists'
  BY <1>2, ListsCallStep
<1>3. ASSUME NEW t \in Threads, MapSg(t) \/ PutPages(t) \/ SgGet(t) \/ SgCopy(t)
      PROVE  Lists'
  BY <1>3, ListsMapSgStep, ListsPutPagesStep, ListsSgGetStep, ListsSgCopyStep
<1>4. ASSUME NEW t \in Threads, Destruct(t) \/ Exit(t)
      PROVE  Lists'
  <2>1. CASE Forget(t) /\ UNCHANGED <<objects, pages, got>>
    BY <2>1, ListsForgetStep
  <2>2. CASE Unmap(t, cur[t]) /\ cur[t] \in umem_list
    <3>1. t \in Actors
      BY DEF Actors
    <3> QED
      BY <2>2, <3>1, ListsUnmapStep
  <2> QED
    BY <1>4, <2>1, <2>2 DEF Destruct, Exit
<1>5. ASSUME NEW n \in 0 .. MaxMaps - 1, StoreUmemUnmap(n)
      PROVE  Lists'
  <2>1. \E o \in umem_list : Unmap(Sysfs, o)
    BY <1>5 DEF StoreUmemUnmap
  <2>2. Sysfs \in Actors
    BY DEF Actors
  <2> QED
    BY <2>1, <2>2, ListsUnmapStep
<1>6. ASSUME NEW a \in Actors,
             UnAttr(a) \/ UnDma(a) \/ ReleasePages(a) \/ Unlink(a)
      PROVE  Lists'
  BY <1>6, ListsUnmapStep, ListsUnlinkStep
<1>7. CASE UNCHANGED vars
  <2>1. /\ umem_list' = umem_list /\ dma' = dma /\ buf' = buf /\ sg' = sg
        /\ pc' = pc /\ cur' = cur /\ call' = call /\ sgl' = sgl
    BY <1>7 DEF vars, objects, library
  <2> QED
    BY <2>1 DEF Lists, ListFunctions, SgGiven, SgCopied, CppHasRoom
<1> QED
  BY <1>1, <1>2, <1>3, <1>4, <1>5, <1>6, <1>7 DEF Next

\* The array that UserMemory::UserMemory asks for is long enough for the list
\* of every buffer: pcidriver_umem_sgget returns -EINVAL to the C++ library
\* only for an entry that is gone, never for the number of its entries.
THEOREM CppAccepted == Spec => []CppHasRoom
<1>1. Lists => CppHasRoom
  BY DEF Lists
<1> QED
  BY <1>1, InitInv, InvStep, InitLists, ListsStep, PTL DEF Spec

-----------------------------------------------------------------------------
(***************************************************************************)
(* The bytes of a list.  Covers(list, w, n): the entries of the list, one  *)
(* after the other, are the first n places of w; c are their ends.         *)
(***************************************************************************)
Run(e) == [j \in 1 .. e.size |-> e.addr + j - 1]

Ends(list, w, c) ==
    /\ c \in [0 .. Len(list) -> Nat] /\ c[0] = 0
    /\ \A k \in 1 .. Len(list) :
          /\ c[k] = c[k - 1] + list[k].size
          /\ \A j \in 1 .. list[k].size : w[c[k - 1] + j] = list[k].addr + j - 1
Covers(list, w, n) == \E c : Ends(list, w, c) /\ c[Len(list)] = n

\* No two entries that follow each other could be joined.
Apart(list) == \A k \in 1 .. Len(list) - 1 :
    list[k].addr + list[k].size # list[k + 1].addr

\* The scatter list of a buffer covers the buffer.
LEMMA SgListCovers ==
    ASSUME NEW b \in Bufs
    PROVE  Covers(SgList(b), BufferBytes(b), b.size)
<1> DEFINE n == NrPages(b)
           list == SgList(b)
           c == [k \in 0 .. n |-> Before(b, k)]
<1>1. Len(list) = n /\ n \in Nat \ {0}
  BY SgListType, FirstPagesType
<1>2. ASSUME NEW k \in 1 .. n
      PROVE  /\ k - 1 \in 0 .. n /\ k \in 0 .. n
             /\ list[k] \in Entries /\ c[k - 1] \in Nat
             /\ c[k] = c[k - 1] + list[k].size
             /\ \A j \in 1 .. list[k].size : BufferBytes(b)[c[k - 1] + j] = list[k].addr + j - 1
  <2>1. k - 1 \in 0 .. n /\ k \in 0 .. n
    BY <1>1
  <2>2. c[k - 1] = Before(b, k - 1) /\ c[k] = Before(b, k)
    BY <2>1
  <2> HIDE DEF c, n, list
  <2> QED
    BY <2>1, <2>2, SgEntry DEF n, list
<1>3. c[0] = 0
  <2>1. 0 \in 0 .. n
    BY <1>1
  <2> QED
    BY <2>1 DEF Before
<1>4. c \in [0 .. n -> Nat]
  <2>1. ASSUME NEW k \in 0 .. n PROVE c[k] \in Nat
    <3>1. CASE k = 0
      BY <1>3, <3>1
    <3>2. CASE k # 0
      <4>1. k \in 1 .. n
        BY <1>1, <3>2
      <4>2. c[k] = c[k - 1] + list[k].size /\ c[k - 1] \in Nat /\ list[k] \in Entries
        BY <1>2, <4>1
      <4> HIDE DEF c, n, list
      <4> QED
        BY <4>2 DEF Entries
    <3> QED
      BY <3>1, <3>2
  <2>2. c = [k \in 0 .. n |-> c[k]]
    OBVIOUS
  <2> HIDE DEF c
  <2> QED
    BY <2>1, <2>2
<1>5. c[n] = b.size
  <2>1. n \in 0 .. n /\ n # 0
    BY <1>1
  <2>2. c[n] = Least(b.size, n * PAGE_SIZE - Offset(b))
    BY <2>1 DEF Before
  <2>3. PAGE_SIZE \in Nat \ {0} /\ b.size \in Nat \ {0} /\ b.vma \in Nat
    BY UmemAssumption
  <2>4. Offset(b) \in 0 .. PAGE_SIZE - 1
    BY <2>3, PageDivision DEF Offset
  <2>5. Offset(b) + b.size <= n * PAGE_SIZE
    <3> DEFINE r == Offset(b)
               s == b.size
               P == PAGE_SIZE
    <3> HIDE DEF r, s, P
    <3>1. LET m == (r + s + P - 1) \div P
          IN  m \in Nat /\ (m - 1) * P < r + s /\ r + s <= m * P
      BY <2>3, <2>4, PageCount DEF r, s, P
    <3> QED
      BY <3>1 DEF NrPages, r, s, P
  <2>6. n * PAGE_SIZE \in Nat
    BY <1>1, <2>3
  <2> HIDE DEF n, c
  <2> QED
    BY <2>2, <2>3, <2>4, <2>5, <2>6 DEF Least
<1> HIDE DEF c, n, list
<1>6. Ends(list, BufferBytes(b), c)
  BY <1>1, <1>2, <1>3, <1>4 DEF Ends
<1>7. Covers(list, BufferBytes(b), b.size)
  BY <1>1, <1>5, <1>6 DEF Covers
<1> QED
  BY <1>7 DEF list

\* Joining the next entry keeps a list covering, and its entries apart.
LEMMA JoinedCovers ==
    ASSUME NEW list \in Seq(Entries), Len(list) > 0, NEW e \in Entries,
           NEW w, NEW n \in Nat, Covers(list, w, n), Apart(list),
           \A j \in 1 .. e.size : w[n + j] = e.addr + j - 1
    PROVE  Covers(Joined(list, e), w, n + e.size) /\ Apart(Joined(list, e))
<1> DEFINE m == Len(list)
<1>0. m \in Nat \ {0} /\ \A k \in 1 .. m : list[k] \in Entries
  OBVIOUS
<1>1. PICK c : Ends(list, w, c) /\ c[m] = n
  BY DEF Covers
<1>2. /\ c \in [0 .. m -> Nat] /\ c[0] = 0
      /\ \A k \in 1 .. m : /\ c[k] = c[k - 1] + list[k].size
                           /\ \A j \in 1 .. list[k].size : w[c[k - 1] + j] = list[k].addr + j - 1
  BY <1>1 DEF Ends
<1>3. e.size \in Nat /\ e.addr \in Int
  BY DEF Entries
<1>4. CASE e.addr = Last(list).addr + Last(list).size
  <2> DEFINE l == [list EXCEPT ![m].size = @ + e.size]
             d == [c EXCEPT ![m] = @ + e.size]
  <2>1. Joined(list, e) = l
    BY <1>4 DEF Joined
  <2>2. Len(l) = m /\ \A k \in 1 .. m - 1 : l[k] = list[k]
    <3>1. l \in Seq(Entries) /\ Len(l) = m
      <4>1. [list[m] EXCEPT !.size = @ + e.size] \in Entries
        <5>1. PICK x \in Entries : x = list[m]
          BY <1>0
        <5>2. [x EXCEPT !.size = @ + e.size] \in Entries
          BY <1>3, GrownEntry
        <5> QED
          BY <5>1, <5>2
      <4> DEFINE z == [list[m] EXCEPT !.size = @ + e.size]
      <4> HIDE DEF z
      <4>2. l = [list EXCEPT ![m] = z] /\ z \in Entries
        BY <4>1 DEF z
      <4> QED
        BY <1>0, <4>2
    <3> QED
      BY <1>0, <3>1
  <2>3. l[m].addr = list[m].addr /\ l[m].size = list[m].size + e.size
    <3>1. PICK x \in Entries : x = list[m]
      BY <1>0
    <3>2. l[m] = [x EXCEPT !.size = @ + e.size]
      BY <1>0, <3>1
    <3>3. [x EXCEPT !.size = @ + e.size].addr = x.addr /\ [x EXCEPT !.size = @ + e.size].size = x.size + e.size
      BY DEF Entries
    <3> QED
      BY <3>1, <3>2, <3>3, Zenon
  <2>4. list[m].addr \in Int /\ list[m].size \in Nat /\ e.addr = list[m].addr + list[m].size
    <3>1. list[m] \in Entries
      BY <1>0
    <3>2. list[m].addr \in Int /\ list[m].size \in Nat
      BY <3>1 DEF Entries
    <3>3. Last(list) = list[m]
      BY DEF Last
    <3>4. e.addr = list[m].addr + list[m].size
      BY <1>4, <3>3, Zenon
    <3> QED
      BY <3>2, <3>4, Zenon
  <2>5. d \in [0 .. m -> Nat] /\ d[m] = n + e.size /\ \A k \in 0 .. m - 1 : d[k] = c[k]
    BY <1>0, <1>1, <1>2, <1>3
  <2> HIDE DEF l, d
  <2>6. ASSUME NEW k \in 1 .. m
        PROVE  /\ d[k] = d[k - 1] + l[k].size
               /\ \A j \in 1 .. l[k].size : w[d[k - 1] + j] = l[k].addr + j - 1
    <3>1. CASE k < m
      <4>1. k \in 1 .. m - 1 /\ k \in 0 .. m - 1 /\ k - 1 \in 0 .. m - 1
        BY <1>0, <3>1
      <4> QED
        BY <1>2, <2>2, <2>5, <4>1
    <3>2. CASE k = m
      <4>1. d[m - 1] = c[m - 1] /\ c[m - 1] \in Nat /\ n = c[m - 1] + list[m].size
        <5>1. m \in 1 .. m /\ m - 1 \in 0 .. m - 1 /\ m - 1 \in 0 .. m
          BY <1>0
        <5>2. c[m] = c[m - 1] + list[m].size
          BY <1>2, <5>1
        <5> QED
          BY <1>1, <1>2, <2>5, <5>1, <5>2
      <4>2. d[m] = d[m - 1] + l[m].size
        BY <1>3, <2>3, <2>4, <2>5, <4>1
      <4>3. ASSUME NEW j \in 1 .. l[m].size
            PROVE  w[d[m - 1] + j] = l[m].addr + j - 1
        <5>1. CASE j <= list[m].size
          <6>1. j \in 1 .. list[m].size
            BY <2>4, <5>1
          <6>2. w[c[m - 1] + j] = list[m].addr + j - 1
            BY <1>0, <1>2, <6>1
          <6> QED
            BY <2>3, <4>1, <6>2
        <5>2. CASE j > list[m].size
          <6>1. PICK i \in 1 .. e.size : j = list[m].size + i
            <7>1. j - list[m].size \in 1 .. e.size
              BY <1>3, <2>3, <2>4, <5>2
            <7> QED
              BY <2>4, <7>1
          <6>2. w[n + i] = e.addr + i - 1
            OBVIOUS
          <6>3. d[m - 1] + j = n + i
            BY <2>4, <4>1, <6>1
          <6>4. e.addr + i - 1 = l[m].addr + j - 1
            <7>1. PICK x \in Int : x = list[m].addr
              BY <2>4
            <7>2. PICK y \in Nat : y = list[m].size
              BY <2>4
            <7>3. e.addr = x + y /\ l[m].addr = x /\ j = y + i
              BY <2>3, <2>4, <6>1, <7>1, <7>2
            <7>4. (x + y) + i - 1 = x + (y + i) - 1
              OBVIOUS
            <7> QED
              BY <7>3, <7>4
          <6> QED
            BY <6>2, <6>3, <6>4
        <5> QED
          BY <2>4, <5>1, <5>2
      <4> QED
        BY <3>2, <4>2, <4>3
    <3> QED
      BY <1>0, <3>1, <3>2
  <2>7. Ends(l, w, d)
    <3>1. d[0] = 0
      BY <1>0, <1>2, <2>5
    <3> QED
      BY <2>2, <2>5, <2>6, <3>1 DEF Ends
  <2>8. Covers(l, w, n + e.size)
    BY <2>2, <2>5, <2>7 DEF Covers
  <2>9. Apart(l)
    <3> SUFFICES ASSUME NEW k \in 1 .. m - 1
                 PROVE  l[k].addr + l[k].size # l[k + 1].addr
      BY <2>2 DEF Apart
    <3>1. l[k] = list[k] /\ l[k + 1].addr = list[k + 1].addr
      <4>1. k + 1 \in 1 .. m - 1 \/ k + 1 = m
        BY <1>0
      <4> QED
        BY <2>2, <2>3, <4>1
    <3>2. list[k].addr + list[k].size # list[k + 1].addr
      BY DEF Apart
    <3> QED
      BY <3>1, <3>2
  <2> QED
    BY <2>1, <2>8, <2>9
<1>5. CASE e.addr # Last(list).addr + Last(list).size
  <2> DEFINE l == Append(list, e)
             d == [k \in 0 .. m + 1 |-> IF k = m + 1 THEN n + e.size ELSE c[k]]
  <2>1. Joined(list, e) = l
    BY <1>3, <1>5 DEF Joined, Entries
  <2>2. Len(l) = m + 1 /\ l[m + 1] = e /\ \A k \in 1 .. m : l[k] = list[k]
    BY <1>0
  <2>3. d \in [0 .. m + 1 -> Nat] /\ d[m + 1] = n + e.size /\ \A k \in 0 .. m : d[k] = c[k]
    BY <1>0, <1>2, <1>3
  <2> HIDE DEF l, d
  <2>4. ASSUME NEW k \in 1 .. m + 1
        PROVE  /\ d[k] = d[k - 1] + l[k].size
               /\ \A j \in 1 .. l[k].size : w[d[k - 1] + j] = l[k].addr + j - 1
    <3>1. CASE k <= m
      <4>1. k \in 1 .. m /\ k \in 0 .. m /\ k - 1 \in 0 .. m
        BY <1>0, <3>1
      <4> QED
        BY <1>2, <2>2, <2>3, <4>1, SMTT(40)
    <3>2. CASE k = m + 1
      <4>1. k - 1 = m /\ d[m] = n
        BY <1>0, <1>1, <2>3, <3>2
      <4> QED
        BY <2>2, <2>3, <3>2, <4>1
    <3> QED
      BY <1>0, <3>1, <3>2
  <2>5. Covers(l, w, n + e.size)
    <3>1. d[0] = 0
      BY <1>0, <1>2, <2>3
    <3>2. Ends(l, w, d)
      BY <2>2, <2>3, <2>4, <3>1 DEF Ends
    <3> QED
      BY <2>2, <2>3, <3>2 DEF Covers
  <2>6. Apart(l)
    <3> SUFFICES ASSUME NEW k \in 1 .. (m + 1) - 1
                 PROVE  l[k].addr + l[k].size # l[k + 1].addr
      BY <2>2 DEF Apart
    <3>1. CASE k = m
      BY <1>0, <1>5, <2>2, <3>1 DEF Last
    <3>2. CASE k # m
      <4>1. k \in 1 .. m - 1 /\ k \in 1 .. m /\ k + 1 \in 1 .. m
        BY <1>0, <3>2
      <4> QED
        BY <2>2, <4>1 DEF Apart
    <3> QED
      BY <3>1, <3>2
  <2> QED
    BY <2>1, <2>5, <2>6
<1> QED
  BY <1>4, <1>5

\* A merged list covers what the list covers, and its entries are apart.
LEMMA MergedCovers ==
    ASSUME NEW list \in Seq(Entries), Len(list) > 0, NEW w, NEW n \in Nat,
           Covers(list, w, n)
    PROVE  Covers(Merged(list), w, n) /\ Apart(Merged(list))
<1> DEFINE m == Len(list) - 1
           base == <<Head(list)>>
           tail == Tail(list)
<1>1. /\ m \in Nat /\ DOMAIN tail = 1 .. m /\ base \in Seq(Entries) /\ base[1] = list[1]
      /\ Len(base) = 1 /\ \A k \in 1 .. m : tail[k] = list[k + 1] /\ list[k + 1] \in Entries
      /\ Len(list) = m + 1 /\ list[1] \in Entries
  OBVIOUS
<1>2. PICK c : Ends(list, w, c) /\ c[Len(list)] = n
  BY DEF Covers
<1>3. /\ c \in [0 .. m + 1 -> Nat] /\ c[0] = 0
      /\ \A k \in 1 .. m + 1 : /\ c[k] = c[k - 1] + list[k].size
                               /\ \A j \in 1 .. list[k].size : w[c[k - 1] + j] = list[k].addr + j - 1
      /\ c[m + 1] = n
  BY <1>1, <1>2 DEF Ends
<1> HIDE DEF m, base, tail
<1>4. PICK g : /\ g[0] = base
               /\ \A k \in 1 .. m : g[k] = Joined(g[k - 1], tail[k])
               /\ JoinAll(base, tail) = g[m]
  <2>1. m \in Nat /\ DOMAIN tail = 1 .. m
    BY <1>1
  <2> QED
    BY <2>1, FoldSteps
<1> DEFINE P == {k \in Nat : k <= m =>
                    /\ g[k] \in Seq(Entries) /\ Len(g[k]) > 0
                    /\ Covers(g[k], w, c[k + 1]) /\ Apart(g[k])}
<1>5. 0 \in P
  <2>1. Covers(base, w, c[1])
    <3> DEFINE d == [k \in 0 .. 1 |-> c[k]]
    <3>1. d \in [0 .. 1 -> Nat] /\ d[0] = 0 /\ d[1] = c[1] /\ 1 \in 1 .. m + 1
      BY <1>1, <1>3
    <3>2. c[1] = c[1 - 1] + list[1].size /\ 1 - 1 = 0
      BY <1>3, <3>1
    <3>3. \A j \in 1 .. list[1].size : w[c[1 - 1] + j] = list[1].addr + j - 1
      BY <1>3, <3>1
    <3> HIDE DEF d
    <3>4. Ends(base, w, d)
      <4>1. \A k \in 1 .. 1 : k = 1
        OBVIOUS
      <4>2. d[1] = d[1 - 1] + base[1].size
        BY <1>1, <1>3, <3>1, <3>2
      <4>3. \A j \in 1 .. base[1].size : w[d[1 - 1] + j] = base[1].addr + j - 1
        BY <1>1, <1>3, <3>1, <3>2, <3>3
      <4> QED
        BY <1>1, <3>1, <4>1, <4>2, <4>3 DEF Ends
    <3> QED
      BY <1>1, <3>1, <3>4 DEF Covers
  <2>2. Apart(base)
    BY <1>1 DEF Apart
  <2>3. 0 + 1 = 1 /\ Len(base) > 0
    BY <1>1
  <2> QED
    BY <1>1, <1>4, <2>1, <2>2, <2>3
<1>6. ASSUME NEW k \in Nat, k \in P PROVE k + 1 \in P
  <2>1. CASE k + 1 <= m
    <3>1. /\ g[k] \in Seq(Entries) /\ Len(g[k]) > 0
          /\ Covers(g[k], w, c[k + 1]) /\ Apart(g[k])
      BY <1>1, <1>6, <2>1
    <3>2. k + 1 \in 1 .. m /\ (k + 1) - 1 = k /\ (k + 1) + 1 \in 1 .. m + 1
          /\ k + 1 \in 0 .. m + 1 /\ ((k + 1) + 1) - 1 = k + 1
      BY <1>1, <2>1
    <3>3. g[k + 1] = Joined(g[k], tail[k + 1])
      BY <1>4, <3>2
    <3>4. PICK e : e = list[(k + 1) + 1]
      OBVIOUS
    <3>5. e \in Entries /\ g[k + 1] = Joined(g[k], e)
      BY <1>1, <3>2, <3>3, <3>4
    <3>6. PICK i \in Nat : i = c[k + 1]
      BY <1>3, <3>2
    <3>7. c[(k + 1) + 1] = i + e.size /\ \A j \in 1 .. e.size : w[i + j] = e.addr + j - 1
      <4>1. c[(k + 1) + 1] = c[((k + 1) + 1) - 1] + list[(k + 1) + 1].size
            /\ \A j \in 1 .. list[(k + 1) + 1].size :
                  w[c[((k + 1) + 1) - 1] + j] = list[(k + 1) + 1].addr + j - 1
        BY <1>3, <3>2
      <4> QED
        BY <3>2, <3>4, <3>6, <4>1
    <3>8. Covers(g[k], w, i)
      BY <3>1, <3>6
    <3>9. Covers(g[k + 1], w, i + e.size) /\ Apart(g[k + 1])
      BY <3>1, <3>5, <3>7, <3>8, JoinedCovers
    <3>10. g[k + 1] \in Seq(Entries) /\ Len(g[k + 1]) > 0
      <4>1. Joined(g[k], e) \in Seq(Entries) /\ Len(Joined(g[k], e)) \in {Len(g[k]), Len(g[k]) + 1}
        BY <3>1, <3>5, JoinedLen
      <4>2. Len(g[k]) \in Nat
        BY <3>1
      <4> QED
        BY <3>1, <3>5, <4>1, <4>2
    <3> QED
      BY <3>7, <3>9, <3>10
  <2>2. CASE ~(k + 1 <= m)
    BY <2>2
  <2> QED
    BY <2>1, <2>2
<1> HIDE DEF P
<1>7. m \in P
  BY <1>1, <1>5, <1>6, NatSetInduction
<1>8. Covers(g[m], w, c[m + 1]) /\ Apart(g[m])
  BY <1>1, <1>7 DEF P
<1>9. Merged(list) = g[m]
  BY <1>4, Zenon DEF Merged, JoinAll, base, tail
<1> QED
  BY <1>3, <1>8, <1>9

\* FlattenSeq is the last value of a function that is defined step by step.
IsFlatten(f, seqs, n) ==
    f = [i \in 1 .. n |-> IF i = 1 THEN seqs[i] ELSE f[i - 1] \o seqs[i]]

\* There is such a function for every length.
LEMMA FlattenExists ==
    ASSUME NEW seqs, NEW m \in Nat
    PROVE  \E f : IsFlatten(f, seqs, m)
<1> DEFINE S == {n \in Nat : \E f : IsFlatten(f, seqs, n)}
<1>1. 0 \in S
  <2> DEFINE h == [i \in 1 .. 0 |-> seqs[i]]
  <2>1. h = [i \in 1 .. 0 |-> IF i = 1 THEN seqs[i] ELSE h[i - 1] \o seqs[i]]
    <3>1. \A i \in 1 .. 0 : FALSE
      OBVIOUS
    <3> QED
      BY <3>1, Zenon
  <2> HIDE DEF h
  <2>2. IsFlatten(h, seqs, 0)
    BY <2>1 DEF IsFlatten
  <2> QED
    BY <2>2
<1>2. ASSUME NEW n \in Nat, n \in S PROVE n + 1 \in S
  <2>1. PICK f : IsFlatten(f, seqs, n)
    BY <1>2
  <2>2. \A i \in 1 .. n : f[i] = IF i = 1 THEN seqs[i] ELSE f[i - 1] \o seqs[i]
    BY <2>1, Zenon DEF IsFlatten
  <2> DEFINE h == [i \in 1 .. n + 1 |-> IF i = n + 1
                      THEN (IF i = 1 THEN seqs[i] ELSE f[i - 1] \o seqs[i]) ELSE f[i]]
  <2>3. ASSUME NEW i \in 1 .. n + 1
        PROVE  h[i] = IF i = 1 THEN seqs[i] ELSE h[i - 1] \o seqs[i]
    <3>1. i # 1 => h[i - 1] = f[i - 1]
      <4>1. i # 1 => i - 1 \in 1 .. n + 1 /\ i - 1 # n + 1
        OBVIOUS
      <4> QED
        BY <4>1, Zenon
    <3>2. CASE i = n + 1
      BY <3>1, <3>2, Zenon
    <3>3. CASE i # n + 1
      <4>1. i \in 1 .. n
        BY <3>3
      <4>2. h[i] = f[i]
        BY <3>3, Zenon
      <4> HIDE DEF h
      <4> QED
        BY <2>2, <3>1, <4>1, <4>2, Zenon
    <3> QED
      BY <3>2, <3>3
  <2>4. h = [i \in 1 .. n + 1 |-> h[i]]
    BY Zenon
  <2> HIDE DEF h
  <2>5. IsFlatten(h, seqs, n + 1)
    BY <2>3, <2>4, Zenon DEF IsFlatten
  <2>6. n + 1 \in Nat
    OBVIOUS
  <2> QED
    BY <2>5, <2>6, Zenon
<1> HIDE DEF S
<1>3. m \in S
  BY <1>1, <1>2, NatSetInduction
<1> QED
  BY <1>3 DEF S

\* What FlattenSeq computes, step by step.
LEMMA FlattenSteps ==
    ASSUME NEW seqs, NEW n \in Nat \ {0}, Len(seqs) = n
    PROVE  \E f : /\ f[1] = seqs[1]
                  /\ \A i \in 2 .. n : f[i] = f[i - 1] \o seqs[i]
                  /\ FlattenSeq(seqs) = f[n]
<1> DEFINE f == CHOOSE f : f = [i \in 1 .. Len(seqs) |->
                    IF i = 1 THEN seqs[i] ELSE f[i - 1] \o seqs[i]]
<1>1. FlattenSeq(seqs) = f[n]
  BY Zenon DEF FlattenSeq
<1>2. \E h : h = [i \in 1 .. Len(seqs) |-> IF i = 1 THEN seqs[i] ELSE h[i - 1] \o seqs[i]]
  <2>1. n \in Nat
    OBVIOUS
  <2> QED
    BY <2>1, FlattenExists, Zenon DEF IsFlatten
<1>3. f = [i \in 1 .. Len(seqs) |-> IF i = 1 THEN seqs[i] ELSE f[i - 1] \o seqs[i]]
  BY <1>2, Zenon
<1> HIDE DEF f
<1>4. \A i \in 1 .. n : f[i] = IF i = 1 THEN seqs[i] ELSE f[i - 1] \o seqs[i]
  BY <1>3, Zenon
<1>5. 1 \in 1 .. n /\ \A i \in 2 .. n : i \in 1 .. n /\ i # 1
  OBVIOUS
<1>6. f[1] = seqs[1] /\ \A i \in 2 .. n : f[i] = f[i - 1] \o seqs[i]
  BY <1>4, <1>5, Zenon
<1> QED
  BY <1>1, <1>6, Zenon

\* Concatenation, for lists of addresses.
LEMMA ConcatInts ==
    ASSUME NEW u \in Seq(Int), NEW s \in Seq(Int)
    PROVE  /\ u \o s \in Seq(Int)
           /\ Len(u \o s) = Len(u) + Len(s)
           /\ \A i \in 1 .. Len(u) + Len(s) : (u \o s)[i] =
                       IF i <= Len(u) THEN u[i] ELSE s[i - Len(u)]
BY ConcatProperties

\* A sequence is the function of its places.
LEMMA SeqAsFunction ==
    ASSUME NEW q \in Seq(Int), NEW n, Len(q) = n
    PROVE  q = [x \in 1 .. n |-> q[x]]
<1>1. q \in [1 .. n -> Int]
  BY LenProperties
<1> QED
  BY <1>1

\* A piece of w after the first a places of w.
LEMMA PieceAfter ==
    ASSUME NEW a \in Nat, NEW z \in Nat, NEW w \in [1 .. a + z -> Int], NEW s,
           s = [j \in 1 .. z |-> w[a + j]]
    PROVE  [x \in 1 .. a |-> w[x]] \o s = [x \in 1 .. a + z |-> w[x]]
<1> DEFINE u == [x \in 1 .. a |-> w[x]]
<1>1. u \in Seq(Int) /\ Len(u) = a /\ \A x \in 1 .. a : u[x] = w[x]
  OBVIOUS
<1>2. s \in Seq(Int) /\ Len(s) = z /\ \A j \in 1 .. z : s[j] = w[a + j]
  <2>1. \A j \in 1 .. z : a + j \in 1 .. a + z
    OBVIOUS
  <2>2. \A j \in 1 .. z : w[a + j] \in Int
    BY <2>1
  <2> QED
    BY <2>2
<1> HIDE DEF u
<1>3. /\ u \o s \in Seq(Int) /\ Len(u \o s) = a + z
      /\ \A x \in 1 .. a + z : (u \o s)[x] = IF x <= a THEN u[x] ELSE s[x - a]
  <2>1. /\ u \o s \in Seq(Int)
        /\ Len(u \o s) = Len(u) + Len(s)
        /\ \A i \in 1 .. Len(u) + Len(s) : (u \o s)[i] =
                    IF i <= Len(u) THEN u[i] ELSE s[i - Len(u)]
    BY <1>1, <1>2, ConcatInts, Zenon
  <2> QED
    BY <1>1, <1>2, <2>1, Zenon
<1>4. ASSUME NEW x \in 1 .. a + z PROVE (u \o s)[x] = w[x]
  <2>1. CASE x <= a
    <3>1. x \in 1 .. a
      BY <2>1
    <3> QED
      BY <1>1, <1>3, <2>1, <3>1
  <2>2. CASE x > a
    <3>1. x - a \in 1 .. z /\ a + (x - a) = x
      BY <2>2
    <3>2. (u \o s)[x] = s[x - a]
      <4>1. ~(x <= a)
        BY <2>2
      <4> QED
        BY <1>3, <4>1
    <3> QED
      BY <1>2, <3>1, <3>2
  <2>3. x <= a \/ x > a
    OBVIOUS
  <2> QED
    BY <2>1, <2>2, <2>3, Zenon
<1>5. u \o s = [x \in 1 .. a + z |-> (u \o s)[x]]
  BY <1>3, SeqAsFunction, Zenon
<1>6. u \o s = [x \in 1 .. a + z |-> w[x]]
  BY <1>4, <1>5, Zenon
<1> QED
  BY <1>6 DEF u

\* The bytes of a list that covers the first n places of w are these places.
LEMMA BytesCovered ==
    ASSUME NEW list \in Seq(Entries), Len(list) > 0, NEW n \in Nat,
           NEW w \in [1 .. n -> Int], Covers(list, w, n)
    PROVE  Bytes(list) = w
<1> DEFINE m == Len(list)
           seqs == [k \in 1 .. m |-> Run(list[k])]
<1>1. m \in Nat \ {0} /\ \A k \in 1 .. m : list[k] \in Entries
  OBVIOUS
<1>2. Bytes(list) = FlattenSeq(seqs)
  BY DEF Bytes, Run
<1>3. Len(seqs) = m /\ \A k \in 1 .. m : seqs[k] = Run(list[k])
  BY <1>1
<1>4. PICK c : /\ c \in [0 .. m -> Nat] /\ c[0] = 0 /\ c[m] = n
               /\ \A k \in 1 .. m : /\ c[k] = c[k - 1] + list[k].size
                                    /\ \A j \in 1 .. list[k].size :
                                          w[c[k - 1] + j] = list[k].addr + j - 1
  BY DEF Covers, Ends
<1> HIDE DEF m, seqs
<1>5. PICK f : /\ f[1] = seqs[1]
               /\ \A i \in 2 .. m : f[i] = f[i - 1] \o seqs[i]
               /\ FlattenSeq(seqs) = f[m]
  BY <1>1, <1>3, FlattenSteps
<1>6. ASSUME NEW k \in 1 .. m
      PROVE  /\ k - 1 \in 0 .. m /\ c[k - 1] \in Nat /\ list[k].size \in Nat
             /\ c[k] = c[k - 1] + list[k].size
             /\ seqs[k] = [j \in 1 .. list[k].size |-> w[c[k - 1] + j]]
  <2>0. k - 1 \in 0 .. m
    BY <1>1
  <2>1. k - 1 \in 0 .. m /\ c[k - 1] \in Nat /\ list[k].size \in Nat
    BY <1>1, <1>4, <2>0 DEF Entries
  <2>2. Run(list[k]) = [j \in 1 .. list[k].size |-> list[k].addr + j - 1]
    BY DEF Run
  <2>3. \A j \in 1 .. list[k].size : w[c[k - 1] + j] = list[k].addr + j - 1
    BY <1>4
  <2>4. seqs[k] = [j \in 1 .. list[k].size |-> w[c[k - 1] + j]]
    BY <1>3, <2>2, <2>3, Zenon
  <2> QED
    BY <1>4, <2>1, <2>4
\* The ends grow, so that none lies beyond n.
<1>7. \A k \in 0 .. m : c[k] <= n
  <2> DEFINE Q == {i \in Nat : i <= m => c[m - i] <= n}
  <2>1. 0 \in Q
    <3>1. m - 0 = m /\ n <= n
      BY <1>1
    <3> QED
      BY <1>4, <3>1
  <2>2. ASSUME NEW i \in Nat, i \in Q PROVE i + 1 \in Q
    <3>1. CASE i + 1 <= m
      <4>1. m - i \in 1 .. m /\ i <= m /\ (m - i) - 1 = m - (i + 1)
        BY <1>1, <3>1
      <4>2. c[m - i] <= n
        BY <2>2, <4>1
      <4>3. PICK x \in Nat : x = c[m - (i + 1)]
        BY <1>6, <4>1
      <4>4. PICK y \in Nat : y = list[m - i].size
        BY <1>6, <4>1
      <4>5. c[m - i] = x + y
        BY <1>6, <4>1, <4>3, <4>4
      <4>6. x <= n
        BY <4>2, <4>5
      <4> QED
        BY <4>3, <4>6
    <3>2. CASE ~(i + 1 <= m)
      BY <3>2
    <3> QED
      BY <3>1, <3>2
  <2> HIDE DEF Q
  <2>3. \A i \in Nat : i \in Q
    BY <2>1, <2>2, NatSetInduction
  <2> SUFFICES ASSUME NEW k \in 0 .. m PROVE c[k] <= n
    OBVIOUS
  <2>4. m - k \in Nat /\ m - k <= m /\ m - (m - k) = k
    BY <1>1
  <2>5. m - k \in Q
    BY <2>3, <2>4
  <2> QED
    BY <2>4, <2>5 DEF Q
<1> DEFINE P == {k \in Nat : k + 1 <= m => f[k + 1] = [x \in 1 .. c[k + 1] |-> w[x]]}
<1>8. 0 \in P
  <2>1. 1 \in 1 .. m /\ 1 - 1 = 0
    BY <1>1
  <2>2. c[0] + list[1].size = list[1].size /\ list[1].size \in Nat
    <3>1. list[1].size \in Nat
      BY <1>6, <2>1
    <3> QED
      BY <1>4, <3>1
  <2>3. c[1] = list[1].size /\ seqs[1] = [j \in 1 .. list[1].size |-> w[0 + j]]
    <3>1. c[1] = c[1 - 1] + list[1].size /\ seqs[1] = [j \in 1 .. list[1].size |-> w[c[1 - 1] + j]]
      BY <1>6, <2>1
    <3>2. c[1 - 1] = 0
      BY <1>4, <2>1
    <3> QED
      BY <1>4, <2>1, <2>2, <3>1, <3>2
  <2>4. \A j \in 1 .. list[1].size : 0 + j = j
    OBVIOUS
  <2>5. seqs[1] = [x \in 1 .. c[1] |-> w[x]]
    BY <2>3, <2>4, Zenon
  <2>6. 0 + 1 = 1
    OBVIOUS
  <2> QED
    BY <1>5, <2>5, <2>6, Zenon
<1>9. ASSUME NEW k \in Nat, k \in P PROVE k + 1 \in P
  <2>1. CASE (k + 1) + 1 <= m
    <3> DEFINE i == (k + 1) + 1
    <3>1. i \in 1 .. m /\ i \in 2 .. m /\ i - 1 = k + 1 /\ k + 1 <= m /\ i \in 0 .. m
      BY <1>1, <2>1
    <3> HIDE DEF i
    <3>2. f[k + 1] = [x \in 1 .. c[k + 1] |-> w[x]]
      BY <1>9, <3>1
    <3>3. PICK a \in Nat : a = c[k + 1]
      BY <1>6, <3>1
    <3>4. PICK z \in Nat : z = list[i].size
      BY <1>6, <3>1
    <3>5. c[i] = a + z /\ a + z <= n
      BY <1>6, <1>7, <3>1, <3>3, <3>4
    <3>6. seqs[i] = [j \in 1 .. z |-> w[a + j]]
      BY <1>6, <3>1, <3>3, <3>4
    <3>7. f[i] = f[k + 1] \o seqs[i]
      BY <1>5, <3>1
    <3> DEFINE v == [x \in 1 .. a + z |-> w[x]]
    <3>8. v \in [1 .. a + z -> Int] /\ \A x \in 1 .. a + z : v[x] = w[x]
      BY <3>5
    <3> HIDE DEF v
    <3>9. seqs[i] = [j \in 1 .. z |-> v[a + j]]
      <4>1. \A j \in 1 .. z : a + j \in 1 .. a + z
        OBVIOUS
      <4> QED
        BY <3>6, <3>8, <4>1
    <3>10. [x \in 1 .. a |-> v[x]] \o seqs[i] = [x \in 1 .. a + z |-> v[x]]
      BY <3>8, <3>9, PieceAfter
    <3>11. [x \in 1 .. a |-> v[x]] = f[k + 1]
      <4>1. \A x \in 1 .. a : x \in 1 .. a + z
        OBVIOUS
      <4> QED
        BY <3>2, <3>3, <3>8, <4>1
    <3>12. [x \in 1 .. a + z |-> v[x]] = [x \in 1 .. c[i] |-> w[x]]
      BY <3>5, <3>8
    <3>13. f[i] = [x \in 1 .. c[i] |-> w[x]]
      BY <3>7, <3>10, <3>11, <3>12, Zenon
    <3>14. k + 1 \in Nat
      OBVIOUS
    <3> QED
      BY <3>13, <3>14, Zenon DEF i
  <2>2. CASE ~((k + 1) + 1 <= m)
    BY <2>2
  <2> QED
    BY <2>1, <2>2
<1> HIDE DEF P
<1>10. m - 1 \in P /\ (m - 1) + 1 = m
  <2>1. m - 1 \in Nat /\ (m - 1) + 1 = m
    BY <1>1
  <2> QED
    BY <1>8, <1>9, <2>1, NatSetInduction
<1>11. f[m] = [x \in 1 .. n |-> w[x]]
  BY <1>1, <1>4, <1>10 DEF P
<1>12. [x \in 1 .. n |-> w[x]] = w
  OBVIOUS
<1> QED
  BY <1>2, <1>5, <1>11, <1>12

\* The bytes of a buffer are the frames of pages of the program.
LEMMA BufferBytesType ==
    ASSUME NEW b \in Bufs
    PROVE  b.size \in Nat /\ BufferBytes(b) \in [1 .. b.size -> Int]
<1>1. b.vma \in Nat /\ b.size \in Nat /\ PAGE_SIZE \in Nat \ {0} /\ Frame \in [Pages -> Nat]
  BY UmemAssumption
<1>2. ASSUME NEW k \in 1 .. b.size
      PROVE  Frame[(b.vma + k - 1) \div PAGE_SIZE] * PAGE_SIZE + ((b.vma + k - 1) % PAGE_SIZE) \in Int
  <2>1. PICK v \in Nat : v = b.vma + k - 1
    BY <1>1
  <2>2. k - 1 \in 0 .. b.size - 1 /\ b.vma + (k - 1) = v
    BY <1>1, <2>1
  <2>3. v \div PAGE_SIZE \in Pages
    BY <2>2, UmemAssumption
  <2>4. PICK f \in Nat : f = Frame[v \div PAGE_SIZE]
    BY <1>1, <2>3
  <2>5. v % PAGE_SIZE \in Int
    BY <1>1, PageDivision
  <2>6. f * PAGE_SIZE + (v % PAGE_SIZE) \in Int
    BY <1>1, <2>5
  <2> QED
    BY <2>1, <2>4, <2>6
<1> QED
  BY <1>1, <1>2 DEF BufferBytes

\* What the library receives covers the buffer, entry by entry, and is the
\* buffer byte by byte.
LEMMA CopiedCovers ==
    ASSUME NEW b \in Bufs, NEW list \in SgLists(b), NEW merged \in BOOLEAN
    PROVE  LET l == Copied(merged, list)
           IN  /\ l \in Seq(Entries)
               /\ Bytes(l) = BufferBytes(b)
               /\ merged => Apart(l)
<1> DEFINE n == b.size
           w == BufferBytes(b)
           first == SgList(b)
           l == Copied(merged, list)
<1>1. n \in Nat /\ w \in [1 .. n -> Int]
  BY BufferBytesType
<1>2. first \in Seq(Entries) /\ Len(first) > 0 /\ Covers(first, w, n)
  <2>1. NrPages(b) \in Nat
    BY FirstPagesType
  <2> QED
    BY <2>1, SgListType, SgListCovers
<1> HIDE DEF n, w, first
<1>3. list \in Seq(Entries) /\ Len(list) > 0 /\ Covers(list, w, n)
  <2>1. list = first \/ list = Merged(first)
    BY DEF SgLists, first
  <2>2. Merged(first) \in Seq(Entries) /\ Len(Merged(first)) \in 1 .. Len(first)
    BY <1>2, MergedLen
  <2>3. Covers(Merged(first), w, n)
    BY <1>1, <1>2, MergedCovers
  <2>4. Len(Merged(first)) > 0
    BY <2>2
  <2> QED
    BY <1>2, <2>1, <2>2, <2>3, <2>4
<1>4. /\ Merged(list) \in Seq(Entries) /\ Len(Merged(list)) > 0
      /\ Covers(Merged(list), w, n) /\ Apart(Merged(list))
  <2>1. Merged(list) \in Seq(Entries) /\ Len(Merged(list)) \in 1 .. Len(list)
    BY <1>3, MergedLen
  <2>2. Covers(Merged(list), w, n) /\ Apart(Merged(list))
    BY <1>1, <1>3, MergedCovers
  <2> QED
    BY <2>1, <2>2
<1>5. Plain(list) = list
  <2>1. list[Len(list)] \in Entries
    BY <1>3
  <2>2. list[Len(list)].size # 0
    BY <2>1 DEF Entries
  <2> QED
    BY <2>2 DEF Plain, Last
<1>6. l \in Seq(Entries) /\ Len(l) > 0 /\ Covers(l, w, n) /\ (merged => Apart(l))
  BY <1>3, <1>4, <1>5 DEF Copied
<1> HIDE DEF l
<1>7. Bytes(l) = w
  BY <1>1, <1>6, BytesCovered
<1> QED
  BY <1>6, <1>7 DEF l, w

\* The list that a library received names every byte of the buffer once and in
\* order: for any offset, size, page size and placement of the frames, merged
\* by pci_map_sg or not (pcidriver_umem_sgmap, pcidriver_umem_sgget).
THEOREM ListsExact == Spec => []SgExact
<1>1. ASSUME Inv, Lists PROVE SgExact
  <2> SUFFICES ASSUME NEW t \in Threads, pc[t] \in {Held, "sync"}, cur[t] # None
               PROVE  /\ Bytes(sgl[t]) = BufferBytes(buf[cur[t]])
                      /\ \A k \in 1 .. Len(sgl[t]) : sgl[t][k].size > 0
                      /\ call[t].merged => Apart(sgl[t])
    BY DEF SgExact, BufferBytes, Apart
  <2>1. pc[t] \notin Mapping
    BY DEF Mapping, Held
  <2>2. PICK b \in Bufs : b = buf[cur[t]]
    BY <1>1, <2>1, UserFacts
  <2>3. PICK list \in SgLists(b) : sgl[t] = Copied(call[t].merged, list)
    BY <1>1, <2>2 DEF Lists, SgCopied
  <2>4. call[t].merged \in BOOLEAN
    BY <1>1, Zenon DEF Inv, Structure, TypeOK
  <2>5. /\ sgl[t] \in Seq(Entries) /\ Bytes(sgl[t]) = BufferBytes(b)
        /\ call[t].merged => Apart(sgl[t])
    BY <2>3, <2>4, CopiedCovers
  <2>6. \A k \in 1 .. Len(sgl[t]) : sgl[t][k].size > 0
    <3> DEFINE l == sgl[t]
    <3> HIDE DEF l
    <3>1. l \in Seq(Entries)
      BY <2>5 DEF l
    <3>2. ASSUME NEW k \in 1 .. Len(l) PROVE l[k].size > 0
      <4>1. PICK e \in Entries : e = l[k]
        BY <3>1
      <4>2. e.size > 0
        BY DEF Entries
      <4> QED
        BY <4>1, <4>2
    <3> QED
      BY <3>2 DEF l
  <2> QED
    BY <2>2, <2>5, <2>6
<1>2. Inv /\ Lists => SgExact
  BY <1>1
<1> QED
  BY <1>2, InitInv, InvStep, InitLists, ListsStep, PTL DEF Spec
=============================================================================
