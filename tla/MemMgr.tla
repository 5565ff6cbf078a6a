------------------------------- MODULE MemMgr -------------------------------
(***************************************************************************)
(* The static memory manager of the embedded software                      *)
(* (lib/memmgr/memmgr.c), from which every driver takes its device table   *)
(* and sdb.c its lists.  Free blocks form a circular list in the order of  *)
(* their addresses, with a block of size 0 (base) that is never handed     *)
(* out; the list grows from a pool that is claimed from the bottom.        *)
(*                                                                         *)
(* The unit is the quanta, the size of a header.  Quanta of the pool are   *)
(* 0 .. Pool - 1.  base is a variable of its own: the linker may put it    *)
(* below or above the pool.                                                *)
(***************************************************************************)
EXTENDS Integers

CONSTANTS
    HeaderSize,             \* sizeof(mem_header_t)
    Pool,                   \* POOL_SIZE, in quantas
    MIN_POOL_ALLOC_QUANTAS,
    base,                   \* address of base, in quantas from the pool
    NULL,
    WordQuantas,            \* quantas that a uint32_t counts: 2^32 / HeaderSize
    Requests                \* the nbytes that callers ask for

(***************************************************************************)
(* base does not lie right behind the pool: there, a block that ends the   *)
(* pool would be combined with it.  No caller asks for so much that a size *)
(* in bytes wraps around: total_req_size of get_mem_from_pool would be 0   *)
(* for the requests just below 2^32.                                       *)
(***************************************************************************)
ASSUME MemMgrAssumption ==
    /\ HeaderSize \in Nat \ {0}
    /\ Pool \in Nat
    /\ MIN_POOL_ALLOC_QUANTAS \in Nat \ {0}
    /\ base \in Int /\ (base < 0 \/ base > Pool)
    /\ NULL \notin Int
    /\ Requests \subseteq Nat /\ WordQuantas \in Nat
    /\ MIN_POOL_ALLOC_QUANTAS + Pool < WordQuantas
    /\ \A n \in Requests : (n \div HeaderSize) + Pool + 2 < WordQuantas

Quantas == 0 .. Pool - 1
Addr == Quantas \cup {base}

VARIABLES
    next, size,         \* the headers
    freep, pool_free_pos,
    pc,                 \* "idle", "search" (memmgr_alloc), "insert" (memmgr_free)
    nquantas, p, prevp, \* of memmgr_alloc
    block, q,           \* of memmgr_free: the block and its p
    grow,               \* memmgr_free was called by get_mem_from_pool
    held,               \* blocks handed out
    listed              \* blocks in the free list (history)

heap == <<next, size, freep, pool_free_pos, listed>>
vars == <<heap, pc, nquantas, p, prevp, block, q, grow, held>>

TypeOK ==
    /\ next \in [Addr -> Addr] /\ size \in [Addr -> 0 .. Pool]
    /\ freep \in Addr \cup {NULL} /\ pool_free_pos \in 0 .. Pool
    /\ pc \in {"idle", "search", "insert"}
    /\ nquantas \in Nat \ {0}
    /\ p \in Addr /\ prevp \in Addr /\ block \in Addr /\ q \in Addr
    /\ grow \in BOOLEAN
    /\ held \subseteq Quantas /\ listed \subseteq Addr

\* memmgr_init; the pool and the headers start as zeros.
Init ==
    /\ next = [a \in Addr |-> base] /\ size = [a \in Addr |-> 0]
    /\ freep = NULL /\ pool_free_pos = 0
    /\ pc = "idle" /\ nquantas = 1 /\ p = base /\ prevp = base
    /\ block = base /\ q = base /\ grow = FALSE
    /\ held = {} /\ listed = {base}

-----------------------------------------------------------------------------
\* memmgr_alloc returns: its variables go out of scope.
Return == pc' = "idle" /\ nquantas' = 1 /\ p' = base /\ prevp' = base

\* Mutant: the header is not counted.
AllocNoHeader(nbytes) ==
    /\ pc = "idle"
    /\ nquantas' = (nbytes + HeaderSize - 1) \div HeaderSize
    /\ prevp' = IF freep = NULL THEN base ELSE freep
    /\ freep' = prevp'
    /\ p' = next[prevp']
    /\ pc' = "search"
    /\ UNCHANGED <<next, size, pool_free_pos, listed, block, q, grow, held>>

\* memmgr_alloc up to its loop.  On the first call base becomes the list.
memmgr_alloc(nbytes) ==
    /\ pc = "idle"
    /\ nquantas' = ((nbytes + HeaderSize - 1) \div HeaderSize) + 1
    /\ prevp' = IF freep = NULL THEN base ELSE freep
    /\ freep' = prevp'
    /\ p' = next[prevp']
    /\ pc' = "search"
    /\ UNCHANGED <<next, size, pool_free_pos, listed, block, q, grow, held>>

\* A block of the exact size leaves the list...
AllocExact ==
    /\ pc = "search" /\ size[p] = nquantas
    /\ next' = [next EXCEPT ![prevp] = next[p]]
    /\ listed' = listed \ {p}
    /\ held' = held \cup {p}
    /\ freep' = prevp
    /\ Return
    /\ UNCHANGED <<size, pool_free_pos, block, q, grow>>

\* Mutant: the size of the block that is split stays.
AllocSplitKeepsSize ==
    /\ pc = "search" /\ size[p] > nquantas
    /\ LET tail == p + (size[p] - nquantas) IN
          /\ size' = [size EXCEPT ![tail] = nquantas]
          /\ held' = held \cup {tail}
    /\ freep' = prevp
    /\ Return
    /\ UNCHANGED <<next, pool_free_pos, listed, block, q, grow>>

\* Mutant: the header of the tail is taken from the block a second time.
AllocSplitTwice ==
    /\ pc = "search" /\ size[p] > nquantas
    /\ LET tail == p + (size[p] - nquantas) IN
          /\ size' = [size EXCEPT ![p] = @ - nquantas - 1, ![tail] = nquantas]
          /\ held' = held \cup {tail}
    /\ freep' = prevp
    /\ Return
    /\ UNCHANGED <<next, pool_free_pos, listed, block, q, grow>>

\* ...a larger one is split and its tail returned...
AllocSplit ==
    /\ pc = "search" /\ size[p] > nquantas
    /\ LET tail == p + (size[p] - nquantas) IN
          /\ size' = [size EXCEPT ![p] = @ - nquantas, ![tail] = nquantas]
          /\ held' = held \cup {tail}
    /\ freep' = prevp
    /\ Return
    /\ UNCHANGED <<next, pool_free_pos, listed, block, q, grow>>

\* ...a smaller one is passed over...
AllocNext ==
    /\ pc = "search" /\ size[p] < nquantas /\ p # freep
    /\ prevp' = p
    /\ p' = next[p]
    /\ UNCHANGED <<heap, pc, nquantas, block, q, grow, held>>

Claim == IF nquantas < MIN_POOL_ALLOC_QUANTAS THEN MIN_POOL_ALLOC_QUANTAS
         ELSE nquantas

\* ...and at the end of the list get_mem_from_pool makes a block of the
\* bottom of the unclaimed pool and frees it...
AllocClaim ==
    /\ pc = "search" /\ size[p] < nquantas /\ p = freep
    /\ pool_free_pos + Claim <= Pool
    /\ size' = [size EXCEPT ![pool_free_pos] = Claim]
    /\ block' = pool_free_pos
    /\ q' = freep
    /\ grow' = TRUE
    /\ pc' = "insert"
    /\ UNCHANGED <<next, freep, pool_free_pos, listed, nquantas, p, prevp, held>>

\* ...or fails.
AllocFail ==
    /\ pc = "search" /\ size[p] < nquantas /\ p = freep
    /\ pool_free_pos + Claim > Pool
    /\ Return
    /\ UNCHANGED <<heap, block, q, grow, held>>

-----------------------------------------------------------------------------
\* memmgr_free up to its loop.
memmgr_free(b) ==
    /\ pc = "idle"
    /\ block' = b
    /\ held' = held \ {b}
    /\ q' = freep
    /\ grow' = FALSE
    /\ pc' = "insert"
    /\ UNCHANGED <<heap, nquantas, p, prevp>>

\* Mutant: the link from the highest block to the lowest one is forgotten.
PlaceNoWrap == block > q /\ block < next[q]

\* The block belongs between q and its successor.
Place ==
    \/ block > q /\ block < next[q]
    \/ q >= next[q] /\ (block > q \/ block < next[q])

FreeNext ==
    /\ pc = "insert" /\ ~Place
    /\ q' = next[q]
    /\ UNCHANGED <<heap, pc, nquantas, p, prevp, block, grow, held>>

\* Mutant: a block is not combined with the lower neighbour.
JoinsLowerNever == FALSE

\* The block is combined with its neighbours where they touch.
JoinsHigher == block + size[block] = next[q]
JoinsLower == q + size[q] = block

FreeInsert ==
    /\ pc = "insert" /\ Place
    /\ LET n == IF JoinsHigher THEN next[next[q]] ELSE next[q]
           s == IF JoinsHigher THEN size[block] + size[next[q]] ELSE size[block]
       IN
          /\ next' = IF JoinsLower THEN [next EXCEPT ![block] = n, ![q] = n]
                     ELSE [next EXCEPT ![block] = n, ![q] = block]
          /\ size' = IF JoinsLower THEN [size EXCEPT ![block] = s, ![q] = @ + s]
                     ELSE [size EXCEPT ![block] = s]
    /\ listed' = (listed \ IF JoinsHigher THEN {next[q]} ELSE {})
                 \cup (IF JoinsLower THEN {} ELSE {block})
    /\ freep' = q
    \* the caller goes on
    /\ pool_free_pos' = IF grow THEN pool_free_pos + Claim ELSE pool_free_pos
    /\ prevp' = IF grow THEN q ELSE prevp
    /\ p' = IF grow THEN next'[q] ELSE p
    /\ pc' = IF grow THEN "search" ELSE "idle"
    /\ block' = base /\ q' = base /\ grow' = FALSE
    /\ UNCHANGED <<nquantas, held>>

-----------------------------------------------------------------------------
Step == \/ AllocExact \/ AllocSplit \/ AllocNext \/ AllocClaim \/ AllocFail
        \/ FreeNext \/ FreeInsert

Next == \/ \E nbytes \in Requests : memmgr_alloc(nbytes)
        \/ \E b \in held : memmgr_free(b)
        \/ Step

\* A call that was made goes on; callers need not call.
Spec == Init /\ [][Next]_vars /\ WF_vars(Step)

-----------------------------------------------------------------------------
\* The blocks that are handed out, in the free list or between the two.
InTransit == IF pc = "insert" THEN {block} ELSE {}
Blocks == held \cup listed \cup InTransit

\* Blocks lie in the claimed part and no two overlap, whoever has them: a
\* block that is handed out is never handed out again, in part or whole,
\* before it is freed (split and combine).
Disjoint ==
    \A a \in Blocks \ {base} :
        /\ a \in Quantas /\ size[a] > 0
        /\ a + size[a] <= pool_free_pos \/ (grow /\ a = block /\ pc = "insert")
        /\ \A b \in Blocks \ {base, a} : a + size[a] <= b \/ b + size[b] <= a

\* Every quanta of the claimed part belongs to a block: memory that was
\* freed is not lost (the list's links and sizes in memmgr_free and
\* memmgr_alloc).
NothingLost ==
    \A n \in 0 .. pool_free_pos - 1 :
        \E a \in Blocks \ {base} : a <= n /\ n < a + size[a]

\* Every call returns: the searches for a block and for the place of a block
\* end although the list is circular.
Returns == pc # "idle" ~> pc = "idle"

\* The manager keeps the promise of MemPool: in particular it claims more of
\* the pool, or fails, only if no gap of the claimed part is large enough.
MP == INSTANCE MemPool WITH
        MinClaim <- MIN_POOL_ALLOC_QUANTAS,
        claimed <- pool_free_pos,
        held <- {[addr |-> b, size |-> size[b]] : b \in held},
        want <- IF pc = "search" \/ (pc = "insert" /\ grow) THEN nquantas ELSE 0
KeepsPromise == MP!Spec
=============================================================================
