---------------------------- MODULE MemMgrProofs ----------------------------
(***************************************************************************)
(* Proofs about the static memory manager: the free list stays a ring in   *)
(* the order of the addresses, blocks never overlap and cover the claimed  *)
(* part, touching free blocks are always combined; and from these, that    *)
(* the manager implements MemPool.  For every size of the pool, of a       *)
(* header and of the least claim.                                          *)
(***************************************************************************)
EXTENDS MemMgr, TLAPS

\* n is the block that follows a in the ring of the blocks L: the next higher
\* address, or the lowest one if a is the highest.
Follows(a, n, L) ==
    \/ a < n /\ \A b \in L : b <= a \/ n <= b
    \/ n <= a /\ \A b \in L : n <= b /\ b <= a

IsRing(nx, L) == \A a \in L : nx[a] \in L /\ Follows(a, nx[a], L)

\* The free list is a ring with base in it.
Ring == base \in listed /\ size[base] = 0 /\ IsRing(next, listed)

\* Where the local variables of the two functions point.
Cursors ==
    /\ held \cap listed = {}
    /\ freep = NULL => held = {} /\ pc = "idle"
    /\ freep # NULL => freep \in listed
    /\ grow => pc = "insert"
    /\ pc = "search" \/ grow => p \in listed /\ prevp \in listed
    /\ pc = "search" => p = next[prevp]
    /\ pc = "insert" => /\ q \in listed
                        /\ block \in Quantas /\ block \notin held \cup listed
    /\ grow => /\ block = pool_free_pos /\ size[block] = Claim
               /\ pool_free_pos + Claim <= Pool

\* Two free blocks never touch.
Combined == \A a, b \in listed : a # base /\ b # base => a + size[a] # b

\* The block x lies in the part of the ring after a, up to and with b.
Between(a, x, b) ==
    IF a < b THEN a < x /\ x <= b
    ELSE x > a \/ x <= b

\* The search has found every block between freep and prevp too small, and
\* all of them when it claims more of the pool.
Searched ==
    /\ pc = "search" /\ prevp # freep =>
         \A x \in listed : Between(freep, x, prevp) => size[x] < nquantas
    /\ grow => \A x \in listed : size[x] < nquantas

Inv == /\ TypeOK /\ Ring /\ Cursors /\ Disjoint /\ NothingLost /\ Combined
       /\ Searched

-----------------------------------------------------------------------------
\* Addresses are integers, and base is none of the pool.
LEMMA AddrFacts == /\ Addr \subseteq Int /\ Quantas \subseteq Addr /\ base \in Addr
                   /\ base \notin Quantas /\ base # Pool /\ NULL \notin Addr
  BY MemMgrAssumption DEF Addr, Quantas

\* A ring of one block: a block that follows itself is alone.
LEMMA Alone ==
  ASSUME NEW L \in SUBSET Int, NEW nx, IsRing(nx, L), NEW a \in L, nx[a] = a
  PROVE  \A b \in L : b = a
<1>1. Follows(a, a, L)
  BY DEF IsRing
<1> QED
  BY <1>1 DEF Follows

\* The place of b is between a and d, which follows a.
Placed(a, b, d) == \/ b > a /\ b < d
                   \/ a >= d /\ (b > a \/ b < d)

\* b then follows a, d follows b, and the other blocks keep theirs.
LEMMA FollowsInsert ==
  ASSUME NEW L \in SUBSET Int, NEW a \in L, NEW d \in L, Follows(a, d, L),
         NEW b \in Int, b \notin L, Placed(a, b, d)
  PROVE  /\ Follows(a, b, L \cup {b}) /\ Follows(b, d, L \cup {b})
         /\ \A c, e \in L : c # a /\ Follows(c, e, L) => Follows(c, e, L \cup {b})
<1>1. a \in Int /\ d \in Int /\ b # a /\ b # d
  OBVIOUS
<1>2. CASE a < d
  <2>1. \A x \in L : x \in Int /\ (x <= a \/ d <= x)
    BY <1>1, <1>2 DEF Follows
  <2>2. a < b /\ b < d
    BY <1>1, <1>2 DEF Placed
  <2>3. Follows(a, b, L \cup {b}) /\ Follows(b, d, L \cup {b})
    BY <1>1, <2>1, <2>2 DEF Follows
  <2>4. ASSUME NEW c \in L, NEW e \in L, c # a, Follows(c, e, L)
        PROVE  Follows(c, e, L \cup {b})
    <3>1. c \in Int /\ e \in Int /\ (c <= a \/ d <= c)
      BY <2>1
    <3> QED
      BY <1>1, <2>1, <2>2, <2>4, <3>1 DEF Follows
  <2> QED
    BY <2>3, <2>4
<1>3. CASE d <= a
  <2>1. \A x \in L : x \in Int /\ d <= x /\ x <= a
    BY <1>1, <1>3 DEF Follows
  <2>2. b > a \/ b < d
    BY <1>1, <1>3 DEF Placed
  <2>3. Follows(a, b, L \cup {b}) /\ Follows(b, d, L \cup {b})
    BY <1>1, <2>1, <2>2 DEF Follows
  <2>4. ASSUME NEW c \in L, NEW e \in L, c # a, Follows(c, e, L)
        PROVE  Follows(c, e, L \cup {b})
    <3>1. c \in Int /\ e \in Int /\ c < a /\ d <= c /\ d <= e /\ e <= a
      BY <1>1, <2>1, <2>4
    <3>2. c < e /\ \A x \in L : x <= c \/ e <= x
      BY <1>1, <2>4, <3>1 DEF Follows
    <3> QED
      BY <1>1, <2>2, <3>1, <3>2 DEF Follows
  <2> QED
    BY <2>3, <2>4
<1> QED
  BY <1>1, <1>2, <1>3

\* d, which followed b, follows a when b is gone, and the other blocks keep
\* theirs, which is not b.
LEMMA FollowsRemove ==
  ASSUME NEW L \in SUBSET Int, NEW a \in L, NEW b \in L, NEW d \in L,
         a # b, b # d, Follows(a, b, L), Follows(b, d, L)
  PROVE  /\ Follows(a, d, L \ {b})
         /\ \A c, e \in L : c # a /\ Follows(c, e, L)
                              => e # b /\ Follows(c, e, L \ {b})
<1>1. a \in Int /\ b \in Int /\ d \in Int /\ \A x \in L : x \in Int
  OBVIOUS
<1>2. CASE a < b
  <2>1. \A x \in L : x <= a \/ b <= x
    BY <1>1, <1>2 DEF Follows
  <2>2. Follows(a, d, L \ {b})
    BY <1>1, <1>2, <2>1 DEF Follows
  <2>3. ASSUME NEW c \in L, NEW e \in L, c # a, Follows(c, e, L)
        PROVE  e # b /\ Follows(c, e, L \ {b})
    BY <1>1, <1>2, <2>1, <2>3 DEF Follows
  <2> QED
    BY <2>2, <2>3
<1>3. CASE b < a
  <2>1. \A x \in L : b <= x /\ x <= a
    BY <1>1, <1>3 DEF Follows
  <2>2. b < d /\ \A x \in L : x <= b \/ d <= x
    BY <1>1, <2>1 DEF Follows
  <2>3. Follows(a, d, L \ {b})
    BY <1>1, <2>1, <2>2 DEF Follows
  <2>4. ASSUME NEW c \in L, NEW e \in L, c # a, Follows(c, e, L)
        PROVE  e # b /\ Follows(c, e, L \ {b})
    BY <1>1, <1>3, <2>1, <2>4 DEF Follows
  <2> QED
    BY <2>3, <2>4
<1> QED
  BY <1>1, <1>2, <1>3

\* A block put into the ring between a and the one that follows it.
LEMMA RingInsert ==
  ASSUME NEW L \in SUBSET Addr, NEW nx \in [Addr -> Addr], IsRing(nx, L),
         NEW a \in L, NEW b \in Addr \ L, Placed(a, b, nx[a])
  PROVE  IsRing([nx EXCEPT ![b] = nx[a], ![a] = b], L \cup {b})
<1> DEFINE ny == [nx EXCEPT ![b] = nx[a], ![a] = b]
<1>1. L \in SUBSET Int /\ b \in Int /\ b \notin L
  BY AddrFacts
<1>2. ny[a] = b /\ ny[b] = nx[a] /\ \A c \in L \ {a} : ny[c] = nx[c]
  BY AddrFacts
<1>3. \A c \in L : nx[c] \in L /\ Follows(c, nx[c], L)
  BY DEF IsRing
<1>4. /\ Follows(a, b, L \cup {b}) /\ Follows(b, nx[a], L \cup {b})
      /\ \A c, e \in L : c # a /\ Follows(c, e, L) => Follows(c, e, L \cup {b})
  BY <1>1, <1>3, FollowsInsert
<1> HIDE DEF ny
<1>5. IsRing(ny, L \cup {b})
  BY <1>1, <1>2, <1>3, <1>4 DEF IsRing
<1> QED
  BY <1>5 DEF ny

\* A block taken out of the ring behind the one it follows.
LEMMA RingRemove ==
  ASSUME NEW L \in SUBSET Addr, NEW nx \in [Addr -> Addr], IsRing(nx, L),
         NEW a \in L, NEW b \in L, a # b, nx[a] = b
  PROVE  IsRing([nx EXCEPT ![a] = nx[b]], L \ {b})
<1> DEFINE ny == [nx EXCEPT ![a] = nx[b]]
<1>1. L \in SUBSET Int
  BY AddrFacts
<1>2. ny[a] = nx[b] /\ \A c \in L \ {a} : ny[c] = nx[c]
  BY AddrFacts
<1>3. \A c \in L : nx[c] \in L /\ Follows(c, nx[c], L)
  BY DEF IsRing
<1>4. nx[b] # b
  BY <1>1, Alone
<1>5. /\ Follows(a, nx[b], L \ {b})
      /\ \A c, e \in L : c # a /\ Follows(c, e, L)
                           => e # b /\ Follows(c, e, L \ {b})
  BY <1>1, <1>3, <1>4, FollowsRemove
<1> HIDE DEF ny
<1>6. IsRing(ny, L \ {b})
  BY <1>1, <1>2, <1>3, <1>4, <1>5 DEF IsRing
<1> QED
  BY <1>6 DEF ny

-----------------------------------------------------------------------------
\* The empty list and the unclaimed pool satisfy the invariant.
LEMMA InitInv == Init => Inv
<1> SUFFICES ASSUME Init PROVE Inv
  OBVIOUS
<1>1. TypeOK
  <2>1. /\ next \in [Addr -> Addr] /\ freep \in Addr \cup {NULL}
        /\ p \in Addr /\ prevp \in Addr /\ block \in Addr /\ q \in Addr
        /\ held \subseteq Quantas /\ listed \subseteq Addr
    BY AddrFacts DEF Init
  <2>2. size \in [Addr -> 0 .. Pool] /\ pool_free_pos \in 0 .. Pool
    BY MemMgrAssumption DEF Init
  <2>3. pc \in {"idle", "search", "insert"} /\ nquantas \in Nat \ {0}
    BY DEF Init
  <2>4. grow \in BOOLEAN
    BY Zenon DEF Init
  <2> QED
    BY <2>1, <2>2, <2>3, <2>4 DEF TypeOK
<1>2. Ring
  BY AddrFacts DEF Init, Ring, IsRing, Follows
<1>3. Cursors
  BY AddrFacts DEF Init, Cursors
<1>4. Disjoint
  BY DEF Init, Disjoint, Blocks, InTransit
<1>5. NothingLost
  BY DEF Init, NothingLost
<1>6. Combined /\ Searched
  BY DEF Init, Combined, Searched
<1> QED
  BY <1>1, <1>2, <1>3, <1>4, <1>5, <1>6 DEF Inv

\* What the invariant says of one block and of the free list.
LEMMA Facts ==
  ASSUME Inv
  PROVE  /\ listed \subseteq Addr /\ held \subseteq Quantas
         /\ \A a \in Addr : /\ a \in Int /\ size[a] \in Int /\ size[a] >= 0
                            /\ next[a] \in Addr
         /\ \A a \in Quantas : a \in Int /\ 0 <= a /\ a < Pool
         /\ nquantas \in Int /\ nquantas > 0
         /\ pool_free_pos \in Int /\ 0 <= pool_free_pos /\ pool_free_pos <= Pool
         /\ Pool \in Int /\ base \in Int
         /\ \A a \in listed : next[a] \in listed /\ Follows(a, next[a], listed)
  BY AddrFacts, MemMgrAssumption DEF Inv, TypeOK, Ring, IsRing, Quantas

\* Where the blocks and their sizes stay, so does what is said of them.
LEMMA SameBlocks ==
  ASSUME Inv, ~grow, ~grow', Blocks' = Blocks, size' = size,
         pool_free_pos' = pool_free_pos
  PROVE  Disjoint' /\ NothingLost'
  BY DEF Inv, Disjoint, NothingLost

\* A search that runs has a list.
LEMMA SearchFacts ==
  ASSUME Inv, pc = "search"
  PROVE  /\ ~grow /\ freep \in listed /\ p \in listed /\ prevp \in listed
         /\ p = next[prevp] /\ Blocks = held \cup listed
  BY DEF Inv, Cursors, Blocks, InTransit

\* A request starts its search behind freep.
LEMMA AllocStep ==
  ASSUME Inv, NEW nbytes \in Requests, memmgr_alloc(nbytes) PROVE Inv'
<1>1. nquantas' \in Nat \ {0}
  BY MemMgrAssumption DEF memmgr_alloc
<1>2. prevp' \in listed /\ p' \in listed /\ p' = next[prevp'] /\ freep' = prevp'
  BY Facts DEF memmgr_alloc, Inv, Ring, Cursors
<1>3. TypeOK'
  BY <1>1, <1>2, Facts DEF memmgr_alloc, Inv, TypeOK
<1>4. Ring' /\ Combined'
  BY DEF memmgr_alloc, Inv, Ring, Combined
<1>5. Cursors'
  BY <1>2, AddrFacts, Facts DEF memmgr_alloc, Inv, Cursors
<1>6. Disjoint' /\ NothingLost'
  BY SameBlocks DEF memmgr_alloc, Inv, Cursors, Blocks, InTransit
<1>7. Searched'
  BY <1>2 DEF memmgr_alloc, Inv, Cursors, Searched
<1> QED
  BY <1>3, <1>4, <1>5, <1>6, <1>7 DEF Inv

\* A block of the exact size leaves the ring.
LEMMA ExactStep == ASSUME Inv, AllocExact PROVE Inv'
<1>1. pc = "search" /\ size[p] = nquantas
  BY DEF AllocExact
<1>2. p # base /\ p \in Quantas
  BY <1>1, Facts, SearchFacts DEF Inv, Ring, Addr
<1>3. prevp # p
  BY <1>1, <1>2, Facts, SearchFacts, Alone, AddrFacts DEF Inv, Ring
<1>4. TypeOK'
  BY <1>2, Facts DEF AllocExact, Return, Inv, TypeOK, Ring
<1>5. Ring'
  <2>1. IsRing([next EXCEPT ![prevp] = next[p]], listed \ {p})
    BY <1>1, <1>3, RingRemove, SearchFacts DEF Inv, Ring, TypeOK
  <2> QED
    BY <1>2, <2>1 DEF AllocExact, Inv, Ring
<1>6. Cursors'
  <2>1. held' \cap listed' = {}
    BY DEF AllocExact, Inv, Cursors
  <2>2. ~grow' /\ pc' = "idle" /\ freep' \in listed' /\ freep' # NULL
    BY <1>1, <1>3, SearchFacts, Facts, AddrFacts DEF AllocExact, Return
  <2> QED
    BY <2>1, <2>2 DEF Cursors
<1>7. Disjoint' /\ NothingLost'
  <2>1. Blocks' = Blocks
    BY <1>1, SearchFacts DEF AllocExact, Return, Blocks, InTransit
  <2> QED
    BY <1>1, <2>1, SameBlocks, SearchFacts DEF AllocExact
<1>8. Combined' /\ Searched'
  BY <1>1, SearchFacts DEF AllocExact, Return, Inv, Combined, Searched
<1> QED
  BY <1>4, <1>5, <1>6, <1>7, <1>8 DEF Inv

\* A block that is too small is passed over.
LEMMA NextStep == ASSUME Inv, AllocNext PROVE Inv'
<1>1. pc = "search" /\ size[p] < nquantas /\ p # freep
  BY DEF AllocNext
<1>2. p' \in listed /\ prevp' \in listed /\ p' = next[prevp']
  BY <1>1, Facts, SearchFacts DEF AllocNext
<1>3. TypeOK' /\ Ring' /\ Combined'
  BY <1>2, Facts DEF AllocNext, heap, Inv, TypeOK, Ring, Combined
<1>4. Cursors'
  BY <1>1, <1>2 DEF AllocNext, heap, Inv, Cursors, Claim
<1>5. Disjoint' /\ NothingLost'
  <2>1. Blocks' = Blocks
    BY DEF AllocNext, heap, Blocks, InTransit
  <2> QED
    BY <1>1, <2>1, SameBlocks, SearchFacts DEF AllocNext, heap
<1>6. Searched'
  <2> SUFFICES ASSUME NEW x \in listed, Between(freep, x, p)
               PROVE  size[x] < nquantas
    BY <1>1, SearchFacts DEF AllocNext, heap, Searched
  <2>1. Follows(prevp, p, listed)
    BY <1>1, Facts, SearchFacts
  <2>2. x \in Int /\ p \in Int /\ prevp \in Int /\ freep \in Int
    BY <1>1, Facts, SearchFacts
  <2>3. x = p \/ (prevp # freep /\ Between(freep, x, prevp))
    BY <1>1, <2>1, <2>2, SearchFacts DEF Between, Follows
  <2> QED
    BY <1>1, <2>3 DEF Inv, Searched
<1> QED
  BY <1>3, <1>4, <1>5, <1>6 DEF Inv

\* A larger block is split: its tail is a new block, handed out.
LEMMA SplitStep == ASSUME Inv, AllocSplit PROVE Inv'
<1> DEFINE tail == p + (size[p] - nquantas)
<1>1. pc = "search" /\ size[p] > nquantas /\ ~grow /\ ~grow' /\ pc' = "idle"
  BY SearchFacts DEF AllocSplit, Return
<1>2. p \in listed /\ p \in Blocks /\ Blocks = held \cup listed
  BY <1>1, SearchFacts
<1>3. p # base /\ p \in Quantas
  BY <1>1, <1>2, Facts DEF Inv, Ring, Addr
<1>4. /\ p \in Int /\ size[p] \in Int /\ p >= 0 /\ nquantas \in Int
      /\ nquantas > 0 /\ p + size[p] <= pool_free_pos
      /\ pool_free_pos \in Int /\ pool_free_pos <= Pool /\ Pool \in Int
  BY <1>1, <1>2, <1>3, Facts DEF Inv, Disjoint
<1>5. /\ tail \in Int /\ p < tail /\ tail + nquantas = p + size[p]
      /\ tail \in Quantas
  BY <1>1, <1>4 DEF Quantas
<1>6. tail \notin Blocks
  BY <1>1, <1>2, <1>3, <1>4, <1>5, AddrFacts, Facts DEF Inv, Disjoint
<1>7. /\ size'[p] = size[p] - nquantas /\ size'[tail] = nquantas
      /\ \A a \in Blocks \ {p} : size'[a] = size[a]
      /\ size'[base] = 0
      /\ size' \in [Addr -> 0 .. Pool]
  <2>1. size' = [size EXCEPT ![p] = @ - nquantas, ![tail] = nquantas]
    BY DEF AllocSplit
  <2>2. size \in [Addr -> 0 .. Pool] /\ p \in Addr /\ tail \in Addr /\ tail # p
    BY <1>2, <1>3, <1>5, AddrFacts DEF Inv, TypeOK
  <2>3. size[p] - nquantas \in 0 .. Pool /\ nquantas \in 0 .. Pool
    BY <1>1, <1>4
  <2>4. \A a \in Addr \ {p, tail} : size'[a] = size[a]
    BY <2>1, <2>2
  <2>5. Blocks \subseteq Addr /\ base \in Addr \ {p, tail}
    BY <1>2, <1>3, <1>5, Facts, AddrFacts
  <2> QED
    BY <1>6, <2>1, <2>2, <2>3, <2>4, <2>5 DEF Inv, Ring
<1>8. Blocks' = Blocks \cup {tail} /\ held' = held \cup {tail} /\ listed' = listed
  BY <1>1, <1>2 DEF AllocSplit, Blocks, InTransit
<1>9. TypeOK'
  <2>1. freep' \in Addr /\ p' \in Addr /\ prevp' \in Addr
    BY <1>1, AddrFacts, Facts, SearchFacts DEF AllocSplit, Return
  <2>2. nquantas' \in Nat \ {0} /\ held' \subseteq Quantas /\ listed' \subseteq Addr
    BY <1>5, <1>8, Facts DEF AllocSplit, Return
  <2> QED
    BY <1>1, <1>7, <2>1, <2>2 DEF AllocSplit, Inv, TypeOK
<1>10. Ring'
  BY <1>7, <1>8 DEF AllocSplit, Inv, Ring
<1>11. Cursors'
  <2>1. held' \cap listed' = {}
    BY <1>2, <1>6, <1>8 DEF Inv, Cursors
  <2>2. freep' \in listed' /\ freep' # NULL
    BY <1>1, SearchFacts, Facts, AddrFacts DEF AllocSplit
  <2> QED
    BY <1>1, <2>1, <2>2 DEF Cursors
<1> HIDE DEF tail
<1>12. Disjoint'
  <2> SUFFICES ASSUME NEW a \in Blocks' \ {base}
               PROVE  /\ a \in Quantas /\ size'[a] > 0
                      /\ a + size'[a] <= pool_free_pos'
                      /\ \A b \in Blocks' \ {base, a} :
                             a + size'[a] <= b \/ b + size'[b] <= a
    BY DEF Disjoint
  <2>1. \A x \in Blocks \ {base} :
           /\ x \in Quantas /\ x \in Int /\ size[x] \in Int /\ size[x] > 0
           /\ x + size[x] <= pool_free_pos
           /\ \A y \in Blocks \ {base, x} : x + size[x] <= y \/ y + size[y] <= x
    BY <1>1, <1>2, Facts, AddrFacts DEF Inv, Disjoint
  <2>2. pool_free_pos' = pool_free_pos
    BY DEF AllocSplit
  <2>3. CASE a = tail
    BY <1>2, <1>3, <1>4, <1>5, <1>7, <1>8, <2>1, <2>2, <2>3
  <2>4. CASE a = p
    BY <1>1, <1>2, <1>3, <1>4, <1>5, <1>6, <1>7, <1>8, <2>1, <2>2, <2>4
  <2>5. CASE a \in Blocks \ {p, tail}
    <3>1. size'[a] = size[a] /\ (a + size[a] <= p \/ p + size[p] <= a)
      BY <1>2, <1>3, <1>7, <2>1, <2>5
    <3> QED
      BY <1>1, <1>2, <1>3, <1>4, <1>5, <1>6, <1>7, <1>8, <2>1, <2>2, <2>5, <3>1
  <2> QED
    BY <1>8, <2>3, <2>4, <2>5
<1>13. NothingLost'
  <2> SUFFICES ASSUME NEW n \in 0 .. pool_free_pos - 1
               PROVE  \E a \in Blocks' \ {base} : a <= n /\ n < a + size'[a]
    BY DEF NothingLost, AllocSplit
  <2>1. PICK a \in Blocks \ {base} : a <= n /\ n < a + size[a]
    BY DEF Inv, NothingLost
  <2>2. CASE a # p
    BY <1>7, <1>8, <2>1, <2>2
  <2>3. CASE a = p /\ n < tail
    BY <1>3, <1>4, <1>5, <1>7, <1>8, <2>1, <2>3 DEF tail
  <2>4. CASE a = p /\ n >= tail
    <3>1. tail \in Blocks' \ {base}
      BY <1>5, <1>8, AddrFacts
    <3> QED
      BY <1>4, <1>5, <1>7, <2>1, <2>4, <3>1
  <2> QED
    BY <1>4, <1>5, <2>2, <2>3, <2>4
<1>14. Combined'
  <2> SUFFICES ASSUME NEW a \in listed, NEW b \in listed, a # base, b # base
               PROVE  a + size'[a] # b
    BY <1>8 DEF Combined
  <2>1. a \in Blocks /\ b \in Blocks
    BY <1>2
  <2>2. CASE a # p
    BY <1>7, <2>1, <2>2 DEF Inv, Combined
  <2>3. CASE a = p
    BY <1>4, <1>6, <1>7, <2>1, <2>3 DEF tail
  <2> QED
    BY <2>2, <2>3
<1>15. Searched'
  BY <1>1 DEF Searched
<1> QED
  BY <1>9, <1>10, <1>11, <1>12, <1>13, <1>14, <1>15 DEF Inv

\* At the end of the list, every block is too small.
LEMMA SearchEnd ==
  ASSUME Inv, pc = "search", size[p] < nquantas, p = freep
  PROVE  \A x \in listed : size[x] < nquantas
<1>1. Follows(prevp, p, listed)
  BY Facts, SearchFacts
<1>2. p \in Int /\ prevp \in Int /\ \A x \in listed : x \in Int
  BY Facts, SearchFacts
<1>3. CASE prevp = freep
  <2>1. \A x \in listed : x = p
    BY <1>2, <1>3, Alone, Facts, SearchFacts, AddrFacts DEF Inv, Ring
  <2> QED
    BY <2>1
<1>4. CASE prevp # freep
  <2>1. ASSUME NEW x \in listed, x # p PROVE Between(freep, x, prevp)
    BY <1>1, <1>2, <1>4, <2>1 DEF Between, Follows
  <2> QED
    BY <1>4, <2>1 DEF Inv, Searched
<1> QED
  BY <1>3, <1>4

\* The bottom of the unclaimed pool becomes a block between list and callers.
LEMMA ClaimStep == ASSUME Inv, AllocClaim PROVE Inv'
<1>1. /\ pc = "search" /\ pc' = "insert" /\ grow' /\ ~grow
      /\ block' = pool_free_pos /\ pool_free_pos' = pool_free_pos
      /\ q' = freep /\ freep' = freep /\ held' = held /\ listed' = listed
      /\ next' = next /\ nquantas' = nquantas /\ p' = p /\ prevp' = prevp
      /\ size' = [size EXCEPT ![pool_free_pos] = Claim]
      /\ pool_free_pos + Claim <= Pool
  BY SearchFacts DEF AllocClaim
<1>2. Claim \in Int /\ Claim > 0 /\ Claim' = Claim /\ nquantas <= Claim
  BY <1>1, Facts, MemMgrAssumption DEF Claim
<1>3. pool_free_pos \in Quantas /\ Claim \in 0 .. Pool
  BY <1>1, <1>2, Facts DEF Quantas
<1>4. Blocks = held \cup listed /\ Blocks' = Blocks \cup {pool_free_pos}
  BY <1>1, SearchFacts DEF Blocks, InTransit
<1>5. \A a \in Blocks \ {base} :
        /\ a \in Quantas /\ a \in Int /\ size[a] \in Int /\ size[a] > 0
        /\ a + size[a] <= pool_free_pos
        /\ \A b \in Blocks \ {base, a} : a + size[a] <= b \/ b + size[b] <= a
  BY <1>1, <1>4, Facts, AddrFacts DEF Inv, Disjoint
<1>6. pool_free_pos \notin Blocks
  BY <1>3, <1>5, Facts, AddrFacts
<1>7. /\ size'[pool_free_pos] = Claim /\ \A a \in Blocks : size'[a] = size[a]
      /\ size' \in [Addr -> 0 .. Pool]
  <2>1. size \in [Addr -> 0 .. Pool] /\ pool_free_pos \in Addr /\ Blocks \subseteq Addr
    BY <1>3, <1>4, Facts, AddrFacts DEF Inv, TypeOK
  <2> QED
    BY <1>1, <1>3, <1>6, <2>1
<1>8. TypeOK'
  <2>1. block' \in Addr /\ q' \in Addr
    BY <1>1, <1>3, AddrFacts, Facts, SearchFacts
  <2> QED
    BY <1>1, <1>7, <2>1 DEF Inv, TypeOK
<1>9. Ring'
  BY <1>1, <1>4, <1>7 DEF Inv, Ring
<1>10. Cursors'
  <2>1. size'[block'] = Claim' /\ pool_free_pos' + Claim' <= Pool
    BY <1>1, <1>2, <1>7
  <2>2. block' \in Quantas /\ block' \notin held' \cup listed'
    BY <1>1, <1>3, <1>4, <1>6
  <2>3. /\ freep' # NULL /\ freep' \in listed' /\ q' \in listed'
        /\ p' \in listed' /\ prevp' \in listed'
    BY <1>1, AddrFacts, Facts, SearchFacts
  <2> QED
    BY <1>1, <2>1, <2>2, <2>3 DEF Inv, Cursors
<1>11. Disjoint'
  <2> SUFFICES ASSUME NEW a \in Blocks' \ {base}
               PROVE  /\ a \in Quantas /\ size'[a] > 0
                      /\ a + size'[a] <= pool_free_pos \/ a = block'
                      /\ \A b \in Blocks' \ {base, a} :
                             a + size'[a] <= b \/ b + size'[b] <= a
    BY <1>1 DEF Disjoint
  <2>1. CASE a = pool_free_pos
    BY <1>1, <1>2, <1>3, <1>4, <1>5, <1>7, <2>1
  <2>2. CASE a \in Blocks \ {base}
    BY <1>4, <1>5, <1>7, <2>2
  <2> QED
    BY <1>4, <2>1, <2>2
<1>12. \A x \in listed : size[x] < nquantas
  BY SearchEnd DEF AllocClaim
<1>13. NothingLost' /\ Combined' /\ Searched'
  <2>1. NothingLost'
    BY <1>1, <1>4, <1>7 DEF Inv, NothingLost
  <2>2. Combined'
    BY <1>1, <1>4, <1>7 DEF Inv, Combined
  <2> QED
    BY <1>1, <1>4, <1>7, <1>12, <2>1, <2>2 DEF Searched
<1> QED
  BY <1>8, <1>9, <1>10, <1>11, <1>13 DEF Inv

\* A request that fails changes neither list nor blocks.
LEMMA FailStep == ASSUME Inv, AllocFail PROVE Inv'
<1>1. pc = "search" /\ pc' = "idle" /\ ~grow /\ ~grow'
  BY SearchFacts DEF AllocFail, Return
<1>2. TypeOK' /\ Ring' /\ Combined'
  BY AddrFacts DEF AllocFail, Return, heap, Inv, TypeOK, Ring, Combined
<1>3. Cursors'
  BY <1>1 DEF AllocFail, heap, Inv, Cursors
<1>4. Disjoint' /\ NothingLost'
  <2>1. Blocks' = Blocks
    BY <1>1 DEF AllocFail, heap, Blocks, InTransit
  <2> QED
    BY <1>1, <2>1, SameBlocks DEF AllocFail, heap
<1> QED
  BY <1>1, <1>2, <1>3, <1>4 DEF Inv, Searched

\* A block that is given back is between callers and list.
LEMMA FreeStep == ASSUME Inv, NEW b \in held, memmgr_free(b) PROVE Inv'
<1>1. pc = "idle" /\ pc' = "insert" /\ ~grow /\ ~grow' /\ freep \in listed
  BY DEF memmgr_free, Inv, Cursors
<1>2. b \in Quantas /\ b \notin listed
  BY Facts DEF Inv, Cursors
<1>3. TypeOK'
  <2>1. block' \in Addr /\ q' \in Addr /\ held' \subseteq Quantas
    BY <1>1, <1>2, AddrFacts, Facts DEF memmgr_free
  <2>2. grow' \in BOOLEAN
    BY Zenon DEF memmgr_free
  <2> QED
    BY <1>1, <2>1, <2>2 DEF memmgr_free, heap, Inv, TypeOK
<1>4. Ring' /\ Combined'
  BY DEF memmgr_free, heap, Inv, Ring, Combined
<1>5. Cursors'
  <2>1. held' \cap listed' = {} /\ freep' \in listed' /\ freep' # NULL
    BY <1>1, Facts, AddrFacts DEF memmgr_free, heap, Inv, Cursors
  <2>2. q' \in listed' /\ block' \in Quantas /\ block' \notin held' \cup listed'
    BY <1>1, <1>2 DEF memmgr_free, heap
  <2> QED
    BY <1>1, <2>1, <2>2 DEF Cursors
<1>6. Disjoint' /\ NothingLost'
  <2>1. Blocks' = Blocks
    BY <1>1 DEF memmgr_free, heap, Blocks, InTransit
  <2> QED
    BY <1>1, <2>1, SameBlocks DEF memmgr_free, heap
<1> QED
  BY <1>1, <1>3, <1>4, <1>5, <1>6 DEF Inv, Searched

\* The search for a block's place moves on along the ring.
LEMMA FreeNextStep == ASSUME Inv, FreeNext PROVE Inv'
<1>1. pc = "insert" /\ q \in listed /\ q' \in listed /\ q' \in Addr
  BY Facts DEF FreeNext, Inv, Cursors
<1>2. TypeOK' /\ Ring' /\ Combined'
  BY <1>1 DEF FreeNext, heap, Inv, TypeOK, Ring, Combined
<1>3. Cursors'
  BY <1>1 DEF FreeNext, heap, Inv, Cursors, Claim
<1>4. Disjoint' /\ NothingLost' /\ Searched'
  BY DEF FreeNext, heap, Inv, Disjoint, NothingLost, Searched, Blocks, InTransit
<1> QED
  BY <1>2, <1>3, <1>4 DEF Inv

-----------------------------------------------------------------------------
\* memmgr_free at the place it searched for.

\* How the block in transit lies to the others and to its two neighbours.
LEMMA InsertFacts ==
  ASSUME Inv, pc = "insert", Place
  PROVE  /\ q \in listed /\ next[q] \in listed /\ Follows(q, next[q], listed)
         /\ Placed(q, block, next[q])
         /\ block \in Quantas /\ block \notin held \cup listed
         /\ Blocks = held \cup listed \cup {block}
         /\ \A a \in Blocks \ {base} :
              /\ a \in Quantas /\ a \in Int /\ 0 <= a
              /\ size[a] \in Int /\ size[a] > 0
              /\ a # block => a + size[a] <= pool_free_pos
              /\ a + size[a] <= Pool
              /\ \A b \in Blocks \ {base, a} : a + size[a] <= b \/ b + size[b] <= a
         /\ ~grow => block + size[block] <= pool_free_pos
         /\ JoinsHigher => next[q] # base /\ next[q] # q
         /\ JoinsLower => q # base
<1>1. q \in listed /\ block \in Quantas /\ block \notin held \cup listed
  BY DEF Inv, Cursors
<1>2. next[q] \in listed /\ Follows(q, next[q], listed)
  BY <1>1, Facts
<1>3. Placed(q, block, next[q])
  BY DEF Place, Placed
<1>4. Blocks = held \cup listed \cup {block}
  BY DEF Blocks, InTransit
<1>5. grow => pool_free_pos = block /\ block + size[block] <= Pool
  BY <1>1, Facts DEF Inv, Cursors
<1>6. ASSUME NEW a \in Blocks \ {base}
      PROVE  /\ a \in Quantas /\ a \in Int /\ 0 <= a
             /\ size[a] \in Int /\ size[a] > 0
             /\ a # block => a + size[a] <= pool_free_pos
             /\ ~grow => a + size[a] <= pool_free_pos
             /\ a + size[a] <= Pool
             /\ \A b \in Blocks \ {base, a} : a + size[a] <= b \/ b + size[b] <= a
  <2>1. /\ a \in Quantas /\ size[a] > 0
        /\ a + size[a] <= pool_free_pos \/ (grow /\ a = block)
        /\ \A b \in Blocks \ {base, a} : a + size[a] <= b \/ b + size[b] <= a
    BY DEF Inv, Disjoint
  <2>2. a \in Int /\ 0 <= a /\ size[a] \in Int
    BY <2>1, Facts, AddrFacts
  <2> QED
    BY <1>5, <2>1, <2>2, Facts
<1>7. block # base /\ block \in Blocks
  BY <1>1, <1>4, AddrFacts
<1>8. JoinsHigher => next[q] # base
  BY <1>6, <1>7, MemMgrAssumption DEF JoinsHigher
<1>9. JoinsLower => q # base
  BY <1>7, Facts DEF JoinsLower, Inv, Ring
<1>10. next[q] # base => next[q] # q
  <2> SUFFICES ASSUME next[q] = q PROVE q = base
    OBVIOUS
  <2>1. \A b \in listed : b = q
    BY <1>1, Alone, Facts, AddrFacts DEF Inv, Ring
  <2> QED
    BY <2>1 DEF Inv, Ring
<1> QED
  BY <1>1, <1>2, <1>3, <1>4, <1>6, <1>7, <1>8, <1>9, <1>10

\* The block that holds the freed one when memmgr_free returns, and its size
\* without that of the lower neighbour.
Target == IF JoinsLower THEN q ELSE block
Freed == IF JoinsHigher THEN size[block] + size[next[q]] ELSE size[block]
Gone == (IF JoinsHigher THEN {next[q]} ELSE {})
          \cup (IF JoinsLower THEN {block} ELSE {})

\* Sizes and blocks after the insertion.
LEMMA InsertSizes ==
  ASSUME Inv, FreeInsert
  PROVE  /\ Target \in Blocks \ {base} /\ Target \notin Gone
         /\ Target \in Int /\ Freed \in Int /\ Freed > 0 /\ size'[Target] \in Int
         /\ Target + size'[Target] = block + Freed
         /\ Target <= block /\ block + Freed <= Pool
         /\ \A a \in (Blocks \ Gone) \ {Target} : size'[a] = size[a]
         /\ size'[base] = 0
         /\ size' \in [Addr -> 0 .. Pool]
         /\ listed' = (listed \cup {block}) \ Gone
         /\ Blocks' = Blocks \ Gone
         /\ Gone \cap held = {} /\ Target \in listed' /\ q \in listed'
<1>1. pc = "insert" /\ Place /\ pc' # "insert"
  BY DEF FreeInsert
<1>2. block \in Blocks \ {base} /\ q \in Blocks /\ next[q] \in Blocks
  BY <1>1, InsertFacts, AddrFacts
<1>3. block # q /\ block # next[q]
  BY <1>1, InsertFacts
<1>4. Target \in Blocks \ {base} /\ Target \notin Gone /\ q \notin Gone
  BY <1>1, <1>2, <1>3, InsertFacts DEF Target, Gone
<1>5. /\ block \in Int /\ size[block] \in Int /\ size[block] > 0 /\ 0 <= block
      /\ block + size[block] <= Pool
  BY <1>1, <1>2, InsertFacts
<1>6. JoinsHigher => /\ next[q] = block + size[block] /\ size[next[q]] \in Int
                     /\ size[next[q]] > 0 /\ next[q] + size[next[q]] <= Pool
  BY <1>1, <1>2, InsertFacts DEF JoinsHigher
<1>7. JoinsLower => /\ q + size[q] = block /\ q \in Int /\ size[q] \in Int
                    /\ size[q] > 0 /\ 0 <= q
  BY <1>1, <1>2, InsertFacts DEF JoinsLower
<1>8. Freed \in Int /\ Freed > 0 /\ block + Freed <= Pool
  BY <1>5, <1>6 DEF Freed
<1>9. size' = IF JoinsLower THEN [size EXCEPT ![block] = Freed, ![q] = @ + Freed]
              ELSE [size EXCEPT ![block] = Freed]
  BY DEF FreeInsert, Freed
<1>10. /\ size \in [Addr -> 0 .. Pool] /\ block \in Addr /\ q \in Addr
       /\ base \in Addr /\ Blocks \subseteq Addr /\ Pool \in Int
  BY <1>1, <1>2, Facts, AddrFacts, InsertFacts DEF Inv, TypeOK
<1>11. /\ Target \in Int /\ Target <= block /\ size'[Target] \in Int
       /\ Target + size'[Target] = block + Freed
  <2>1. CASE JoinsLower
    <3>1. size'[q] = size[q] + Freed
      BY <1>3, <1>9, <1>10, <2>1
    <3> QED
      BY <1>5, <1>7, <1>8, <2>1, <3>1 DEF Target
  <2>2. CASE ~JoinsLower
    <3>1. size'[block] = Freed
      BY <1>9, <1>10, <2>2
    <3> QED
      BY <1>5, <1>8, <2>2, <3>1 DEF Target
  <2> QED
    BY <2>1, <2>2
<1>12. \A a \in (Blocks \ Gone) \ {Target} : size'[a] = size[a]
  BY <1>9, <1>10 DEF Target, Gone
<1>13. size'[base] = 0
  BY <1>1, <1>2, <1>9, <1>10, InsertFacts DEF Inv, Ring
<1>14. size' \in [Addr -> 0 .. Pool]
  <2>1. Freed \in 0 .. Pool
    BY <1>5, <1>8, <1>10
  <2>2. JoinsLower => size[q] + Freed \in 0 .. Pool
    BY <1>7, <1>8, <1>10
  <2> QED
    BY <1>9, <1>10, <2>1, <2>2
<1>15. listed' = (listed \cup {block}) \ Gone
  BY <1>1, <1>3, InsertFacts DEF FreeInsert, Gone
<1>16. Gone \cap held = {}
  BY <1>1, InsertFacts DEF Gone, Inv, Cursors
<1>17. Blocks' = Blocks \ Gone
  <2>1. Blocks' = held \cup listed'
    BY <1>1 DEF FreeInsert, Blocks, InTransit
  <2> QED
    BY <1>1, <1>15, <1>16, <2>1, InsertFacts
<1>18. q \in listed' /\ Target \in listed'
  BY <1>1, <1>4, <1>15, InsertFacts DEF Target
<1> QED
  BY <1>4, <1>8, <1>11, <1>12, <1>13, <1>14, <1>15, <1>16, <1>17, <1>18

\* The ring stays one, whichever neighbours are combined.
LEMMA InsertRing == ASSUME Inv, FreeInsert PROVE Ring'
<1> DEFINE h == next[q]
           n == IF JoinsHigher THEN next[h] ELSE h
<1>1. /\ pc = "insert" /\ Place
      /\ next' = IF JoinsLower THEN [next EXCEPT ![block] = n, ![q] = n]
                 ELSE [next EXCEPT ![block] = n, ![q] = block]
  BY DEF FreeInsert
<1>2. /\ q \in listed /\ h \in listed /\ Placed(q, block, h) /\ block \in Quantas
      /\ block \notin listed /\ (JoinsHigher => h # base /\ h # q)
      /\ (JoinsLower => q # base)
  BY <1>1, InsertFacts
<1>3. /\ next \in [Addr -> Addr] /\ listed \in SUBSET Addr /\ block \in Addr
      /\ h \in Addr /\ n \in Addr /\ q \in Addr /\ next[h] \in listed
  BY <1>2, AddrFacts, Facts DEF Inv, TypeOK
<1>4. IsRing(next, listed) /\ base \in listed /\ base # block
  BY <1>2, AddrFacts DEF Inv, Ring
<1>5. listed' = (listed \cup {block}) \ Gone /\ size'[base] = 0
  BY InsertSizes
<1>6. base \in listed'
  BY <1>2, <1>4, <1>5 DEF Gone
<1>7. CASE JoinsLower /\ JoinsHigher
  <2>1. listed' = listed \ {h}
    BY <1>2, <1>5, <1>7 DEF Gone
  <2> DEFINE nz == [next EXCEPT ![q] = next[h]]
  <2>2. IsRing(nz, listed \ {h})
    BY <1>2, <1>3, <1>4, <1>7, RingRemove
  <2>3. \A a \in listed \ {h} : next'[a] = nz[a]
    BY <1>1, <1>2, <1>3, <1>7
  <2> HIDE DEF nz
  <2>4. IsRing(next', listed \ {h})
    BY <2>2, <2>3 DEF IsRing
  <2> QED
    BY <1>5, <1>6, <2>1, <2>4 DEF Ring
<1>8. CASE JoinsLower /\ ~JoinsHigher
  <2>1. listed' = listed
    BY <1>2, <1>5, <1>8 DEF Gone
  <2>2. \A a \in listed : next'[a] = next[a]
    BY <1>1, <1>2, <1>3, <1>8
  <2> QED
    BY <1>4, <1>5, <1>6, <2>1, <2>2 DEF Ring, IsRing
<1> DEFINE ny == [next EXCEPT ![block] = next[q], ![q] = block]
<1>9. IsRing(ny, listed \cup {block}) /\ ny \in [Addr -> Addr]
  BY <1>2, <1>3, <1>4, RingInsert
<1>10. CASE ~JoinsLower /\ JoinsHigher
  <2>1. listed' = (listed \cup {block}) \ {h}
    BY <1>2, <1>5, <1>10 DEF Gone
  <2>2. ny[block] = h /\ ny[h] = next[h] /\ block # h
    BY <1>2, <1>3, <1>10
  <2> DEFINE nz == [ny EXCEPT ![block] = ny[h]]
  <2> HIDE DEF ny
  <2>3. IsRing(nz, (listed \cup {block}) \ {h})
    BY <1>2, <1>3, <1>9, <2>2, RingRemove
  <2>4. \A a \in (listed \cup {block}) \ {h} : next'[a] = nz[a]
    BY <1>1, <1>2, <1>3, <1>9, <1>10, <2>2 DEF ny
  <2> HIDE DEF nz
  <2>5. IsRing(next', (listed \cup {block}) \ {h})
    BY <2>3, <2>4 DEF IsRing
  <2> QED
    BY <1>5, <1>6, <2>1, <2>5 DEF Ring
<1>11. CASE ~JoinsLower /\ ~JoinsHigher
  <2>1. listed' = listed \cup {block}
    BY <1>5, <1>11 DEF Gone
  <2>2. next' = ny
    BY <1>1, <1>11
  <2> QED
    BY <1>5, <1>6, <1>9, <2>1, <2>2 DEF Ring
<1> QED
  BY <1>7, <1>8, <1>10, <1>11

\* The freed block and those it was combined with make one block.
LEMMA InsertSpan ==
  ASSUME Inv, FreeInsert, NEW n \in Int
  PROVE  (Target <= n /\ n < block + Freed) <=>
            \/ block <= n /\ n < block + size[block]
            \/ JoinsHigher /\ next[q] <= n /\ n < next[q] + size[next[q]]
            \/ JoinsLower /\ q <= n /\ n < q + size[q]
<1>1. pc = "insert" /\ Place
  BY DEF FreeInsert
<1>2. block \in Blocks \ {base} /\ q \in Blocks /\ next[q] \in Blocks
  BY <1>1, InsertFacts, AddrFacts
<1>3. block \in Int /\ size[block] \in Int /\ size[block] > 0
  BY <1>1, <1>2, InsertFacts
<1>4. JoinsHigher => /\ next[q] = block + size[block] /\ size[next[q]] \in Int
                     /\ size[next[q]] > 0
  BY <1>1, <1>2, InsertFacts DEF JoinsHigher
<1>5. JoinsLower => q + size[q] = block /\ q \in Int /\ size[q] \in Int /\ size[q] > 0
  BY <1>1, <1>2, InsertFacts DEF JoinsLower
<1> QED
  BY <1>3, <1>4, <1>5 DEF Target, Freed

\* The combined block overlaps no other.
LEMMA InsertDisjoint == ASSUME Inv, FreeInsert PROVE Disjoint'
<1>1. pc = "insert" /\ Place /\ ~grow'
  BY DEF FreeInsert
<1>2. block \in Blocks \ {base} /\ q \in Blocks /\ next[q] \in Blocks
  BY <1>1, InsertFacts, AddrFacts
<1>3. /\ pool_free_pos <= pool_free_pos' /\ block + Freed <= pool_free_pos'
      /\ pool_free_pos \in Int /\ pool_free_pos' \in Int
  <2>1. CASE grow
    <3>1. /\ block = pool_free_pos /\ size[block] = Claim
          /\ pool_free_pos' = block + size[block]
          /\ block \in Int /\ size[block] \in Int /\ size[block] > 0
      BY <1>1, <1>2, <2>1, InsertFacts DEF FreeInsert, Inv, Cursors
    <3>2. ~JoinsHigher
      BY <1>1, <1>2, <3>1, InsertFacts DEF JoinsHigher
    <3> QED
      BY <3>1, <3>2 DEF Freed
  <2>2. CASE ~grow
    <3>1. pool_free_pos' = pool_free_pos
      BY <2>2 DEF FreeInsert
    <3>2. JoinsHigher => next[q] + size[next[q]] <= pool_free_pos
      BY <1>1, <1>2, InsertFacts
    <3> QED
      BY <1>1, <1>2, <2>2, <3>1, <3>2, Facts, InsertFacts DEF Freed, JoinsHigher
  <2> QED
    BY <2>1, <2>2
<1>4. ASSUME NEW a \in (Blocks \ Gone) \ {base, Target}
      PROVE  /\ a \in Quantas /\ a \in Int /\ size[a] \in Int /\ size[a] > 0
             /\ size'[a] = size[a] /\ a + size[a] <= pool_free_pos
             /\ a + size[a] <= Target \/ block + Freed <= a
  <2>1. /\ a \in Quantas /\ a \in Int /\ size[a] \in Int /\ size[a] > 0
        /\ size'[a] = size[a] /\ a # block
        /\ \A b \in Blocks \ {base, a} : a + size[a] <= b \/ b + size[b] <= a
    BY <1>1, InsertFacts, InsertSizes DEF Gone, Target
  <2>2. a + size[a] <= pool_free_pos
    BY <1>1, <2>1, InsertFacts
  <2>3. a + size[a] <= block \/ block + size[block] <= a
    BY <1>2, <2>1
  <2>4. JoinsHigher => /\ next[q] = block + size[block]
                       /\ a + size[a] <= next[q] \/ next[q] + size[next[q]] <= a
    BY <1>1, <1>2, <2>1, InsertFacts DEF Gone, JoinsHigher
  <2>5. JoinsLower => /\ q + size[q] = block
                      /\ a + size[a] <= q \/ q + size[q] <= a
    BY <1>1, <1>2, <2>1, InsertFacts DEF Target, JoinsLower
  <2>6. /\ block \in Int /\ size[block] \in Int /\ size[block] > 0
        /\ JoinsHigher => size[next[q]] \in Int /\ size[next[q]] > 0
        /\ JoinsLower => q \in Int /\ size[q] \in Int /\ size[q] > 0
    BY <1>1, <1>2, InsertFacts
  <2> QED
    BY <2>1, <2>2, <2>3, <2>4, <2>5, <2>6 DEF Target, Freed
<1>5. /\ Target \in Quantas /\ Target \in Int /\ size'[Target] \in Int
      /\ size'[Target] > 0
      /\ Target + size'[Target] = block + Freed /\ Target \in Blocks \ Gone
      /\ Target # base
  BY <1>1, <1>2, InsertFacts, InsertSizes
<1>6. Blocks' = Blocks \ Gone
  BY InsertSizes
<1>7. ASSUME NEW a \in Blocks' \ {base}
      PROVE  /\ a \in Quantas /\ size'[a] > 0 /\ a + size'[a] <= pool_free_pos'
             /\ \A b \in Blocks' \ {base, a} :
                    a + size'[a] <= b \/ b + size'[b] <= a
  <2>1. CASE a = Target
    BY <1>3, <1>4, <1>5, <1>6, <2>1
  <2>2. CASE a # Target
    <3>1. a + size'[a] <= Target \/ Target + size'[Target] <= a
      BY <1>4, <1>5, <1>6, <2>2
    <3>2. \A b \in (Blocks \ Gone) \ {base, a, Target} :
              a + size'[a] <= b \/ b + size'[b] <= a
      BY <1>1, <1>4, <1>6, <2>2, InsertFacts
    <3>3. a \in Quantas /\ size'[a] > 0 /\ a + size'[a] <= pool_free_pos'
      BY <1>3, <1>4, <1>6, <2>2
    <3> QED
      BY <1>6, <3>1, <3>2, <3>3
  <2> QED
    BY <2>1, <2>2
<1> QED
  BY <1>7 DEF Disjoint

\* The combined block covers what its parts covered.
LEMMA InsertCovers == ASSUME Inv, FreeInsert PROVE NothingLost'
<1>1. pc = "insert" /\ Place
  BY DEF FreeInsert
<1> SUFFICES ASSUME NEW n \in 0 .. pool_free_pos' - 1
             PROVE  \E a \in Blocks' \ {base} : a <= n /\ n < a + size'[a]
  BY DEF NothingLost
<1>2. pool_free_pos' \in Int /\ n \in Int
  BY Facts, MemMgrAssumption DEF FreeInsert, Claim
<1>3. /\ Target \in Blocks' \ {base} /\ Target + size'[Target] = block + Freed
      /\ Blocks' = Blocks \ Gone
      /\ \A a \in (Blocks \ Gone) \ {Target} : size'[a] = size[a]
  BY InsertSizes
<1>4. CASE block <= n /\ n < block + size[block]
  BY <1>2, <1>3, <1>4, InsertSpan
<1>5. CASE ~(block <= n /\ n < block + size[block])
  <2>1. n < pool_free_pos /\ n \in 0 .. pool_free_pos - 1
    BY <1>1, <1>2, <1>5, Facts, InsertFacts DEF FreeInsert, Inv, Cursors
  <2>2. PICK a \in Blocks \ {base} : a <= n /\ n < a + size[a]
    BY <2>1 DEF Inv, NothingLost
  <2>3. CASE a \in Gone \/ a = Target
    <3>1. \/ block <= n /\ n < block + size[block]
          \/ JoinsHigher /\ next[q] <= n /\ n < next[q] + size[next[q]]
          \/ JoinsLower /\ q <= n /\ n < q + size[q]
      BY <2>2, <2>3 DEF Gone, Target
    <3> QED
      BY <1>2, <1>3, <3>1, InsertSpan
  <2>4. CASE a \notin Gone /\ a # Target
    BY <1>3, <2>2, <2>4
  <2> QED
    BY <2>3, <2>4
<1> QED
  BY <1>4, <1>5

\* No free block but the two neighbours can touch the freed one.
LEMMA InsertCombined == ASSUME Inv, FreeInsert PROVE Combined'
<1> DEFINE h == next[q]
<1>1. pc = "insert" /\ Place
  BY DEF FreeInsert
<1>2. /\ block \in Blocks \ {base} /\ q \in Blocks /\ h \in Blocks
      /\ listed \subseteq Blocks /\ block \notin listed
      /\ block \in Int /\ 0 <= block /\ size[block] \in Int /\ size[block] > 0
      /\ block + size[block] <= Pool
  BY <1>1, InsertFacts, AddrFacts
<1>3. /\ q \in Int /\ h \in Int /\ base \in Int /\ Follows(q, h, listed)
      /\ Placed(q, block, h) /\ (base < 0 \/ base > Pool) /\ Pool \in Int
  BY <1>1, Facts, InsertFacts, MemMgrAssumption
<1>4. \A a \in listed \ {base} :
        /\ a \in Int /\ 0 <= a /\ size[a] \in Int /\ size[a] > 0
        /\ a + size[a] <= Pool
        /\ \A b \in Blocks \ {base, a} : a + size[a] <= b \/ b + size[b] <= a
  BY <1>1, <1>2, InsertFacts
<1>5. ASSUME NEW b \in listed \ {base}, block + size[block] = b PROVE b = h
  <2>1. b \in Int /\ block < b /\ b <= Pool
    BY <1>2, <1>4, <1>5
  <2>2. h <= b /\ block < h
    BY <1>2, <1>3, <2>1 DEF Follows, Placed
  <2>3. h # base
    BY <1>2, <1>3, <2>1, <2>2
  <2>4. block + size[block] <= h
    <3>1. h \in listed \ {base} /\ h # block
      BY <1>1, <1>2, <2>3, InsertFacts
    <3>2. h + size[h] <= block \/ block + size[block] <= h
      BY <1>2, <1>4, <3>1
    <3> QED
      BY <1>2, <1>3, <1>4, <2>2, <3>1, <3>2
  <2> QED
    BY <1>2, <1>3, <1>5, <2>1, <2>2, <2>4
<1>6. ASSUME NEW a \in listed \ {base}, a + size[a] = block PROVE a = q
  <2>1. a \in Int /\ 0 <= a /\ a < block
    BY <1>2, <1>4, <1>6
  <2>2. a <= q /\ q < block
    BY <1>2, <1>3, <2>1 DEF Follows, Placed
  <2>3. q # base
    BY <1>2, <1>3, <2>1, <2>2
  <2>4. q \in listed \ {base}
    BY <1>1, <2>3, InsertFacts
  <2>5. q # a => a + size[a] <= q \/ q + size[q] <= a
    BY <1>2, <1>4, <2>4
  <2> QED
    BY <1>3, <1>4, <1>6, <2>1, <2>2, <2>4, <2>5
<1>7. /\ listed' = (listed \cup {block}) \ Gone /\ Target \in Int
      /\ Target + size'[Target] = block + Freed /\ Freed > 0 /\ Freed \in Int
      /\ Target <= block /\ size'[Target] \in Int
      /\ \A a \in (Blocks \ Gone) \ {Target} : size'[a] = size[a]
  BY InsertSizes
<1> SUFFICES ASSUME NEW a \in listed', NEW b \in listed', a # base, b # base,
                    a + size'[a] = b
             PROVE  FALSE
  BY DEF Combined
<1>8. CASE a # Target /\ b # Target
  <2>1. a \in listed /\ b \in listed /\ size'[a] = size[a]
    BY <1>2, <1>7, <1>8 DEF Gone, Target
  <2> QED
    BY <2>1 DEF Inv, Combined
<1>9. CASE a = Target
  <2>1. b # Target
    BY <1>2, <1>7, <1>9
  <2>2. b \in listed \ {base} /\ b = block + Freed /\ b \notin Gone
    BY <1>7, <1>9, <2>1 DEF Gone, Target
  <2>3. CASE JoinsHigher
    <3>1. b = h + size[h] /\ h \in listed \ {base}
      BY <1>1, <1>2, <1>3, <1>4, <2>2, <2>3, InsertFacts DEF Freed, JoinsHigher
    <3> QED
      BY <2>2, <3>1 DEF Inv, Combined
  <2>4. CASE ~JoinsHigher
    BY <1>5, <2>2, <2>4 DEF Freed, JoinsHigher
  <2> QED
    BY <2>3, <2>4
<1>10. CASE a # Target /\ b = Target
  <2>1. a \in listed \ {base} /\ size'[a] = size[a]
    BY <1>2, <1>7, <1>10 DEF Gone, Target
  <2>2. CASE JoinsLower
    BY <1>1, <1>10, <2>1, <2>2, InsertFacts DEF Target, Inv, Combined
  <2>3. CASE ~JoinsLower
    BY <1>6, <1>10, <2>1, <2>3 DEF Target, JoinsLower
  <2> QED
    BY <2>2, <2>3
<1> QED
  BY <1>8, <1>9, <1>10

\* The insertion keeps the invariant, and the caller goes on.
LEMMA InsertStep == ASSUME Inv, FreeInsert PROVE Inv'
<1>1. /\ pc = "insert" /\ Place /\ pc' = IF grow THEN "search" ELSE "idle"
      /\ freep' = q /\ block' = base /\ q' = base /\ held' = held
      /\ nquantas' = nquantas
      /\ prevp' = (IF grow THEN q ELSE prevp) /\ p' = (IF grow THEN next'[q] ELSE p)
      /\ pool_free_pos' = IF grow THEN pool_free_pos + Claim ELSE pool_free_pos
  BY DEF FreeInsert
<1>2. Ring' /\ Disjoint' /\ NothingLost' /\ Combined'
  BY InsertRing, InsertDisjoint, InsertCovers, InsertCombined
<1>3. q \in listed' /\ listed' = (listed \cup {block}) \ Gone
  BY InsertSizes
<1>4. q \in Addr /\ block \in Addr /\ next[q] \in Addr /\ next[next[q]] \in Addr
  BY <1>1, InsertFacts, Facts, AddrFacts
<1>5. ~grow' /\ grow' \in BOOLEAN
  BY Zenon DEF FreeInsert
<1>6. TypeOK'
  <2>1. next' \in [Addr -> Addr]
    BY <1>4 DEF FreeInsert, Inv, TypeOK
  <2>2. size' \in [Addr -> 0 .. Pool]
    BY InsertSizes
  <2>3. pool_free_pos' \in 0 .. Pool
    BY <1>1, Facts, MemMgrAssumption DEF Inv, TypeOK, Cursors, Claim
  <2>4. p' \in Addr /\ prevp' \in Addr /\ freep' \in Addr
    BY <1>1, <1>4, <2>1 DEF Inv, TypeOK
  <2>5. listed' \subseteq Addr
    BY <1>3, <1>4, Facts
  <2>6. pc' \in {"idle", "search", "insert"}
    BY <1>1
  <2> QED
    BY <1>1, <1>5, <2>1, <2>2, <2>3, <2>4, <2>5, <2>6, AddrFacts DEF Inv, TypeOK
<1>7. Cursors'
  <2>1. held' \cap listed' = {}
    BY <1>1, <1>3, InsertFacts DEF Inv, Cursors
  <2>2. freep' \in listed' /\ freep' # NULL
    BY <1>1, <1>3, <1>4, AddrFacts
  <2>3. pc' = "search" => p' \in listed' /\ prevp' \in listed' /\ p' = next'[prevp']
    BY <1>1, <1>2, <1>3 DEF Ring, IsRing
  <2>4. pc' # "insert"
    BY <1>1
  <2> QED
    BY <1>5, <2>1, <2>2, <2>3, <2>4 DEF Cursors
<1>8. Searched'
  BY <1>1, <1>5 DEF Searched
<1> QED
  BY <1>2, <1>6, <1>7, <1>8 DEF Inv

-----------------------------------------------------------------------------
\* Every step keeps the invariant.
LEMMA InvStep == Inv /\ [Next]_vars => Inv'
<1> SUFFICES ASSUME Inv, [Next]_vars PROVE Inv'
  OBVIOUS
<1>1. ASSUME NEW nbytes \in Requests, memmgr_alloc(nbytes) PROVE Inv'
  BY <1>1, AllocStep
<1>2. ASSUME NEW b \in held, memmgr_free(b) PROVE Inv'
  BY <1>2, FreeStep
<1>3. CASE Step
  BY <1>3, ExactStep, SplitStep, NextStep, ClaimStep, FailStep, FreeNextStep,
     InsertStep DEF Step
<1>4. CASE UNCHANGED vars
  BY <1>4 DEF vars, heap, Inv, TypeOK, Ring, Cursors, Disjoint, NothingLost,
              Combined, Searched, Blocks, InTransit, Claim
<1> QED
  BY <1>1, <1>2, <1>3, <1>4 DEF Next

\* The invariant holds throughout.
LEMMA Invariance == Spec => []Inv
  BY InitInv, InvStep, PTL DEF Spec

\* Headers, links and cursors keep their ranges through every sequence of
\* calls: no size or link leaves the pool (memmgr.c).
THEOREM MemTypeCorrect == Spec => []TypeOK
<1>1. Inv => TypeOK
  BY DEF Inv
<1> QED
  BY <1>1, Invariance, PTL

\* Blocks in the hands of callers, in the free list and between them never
\* overlap, through every sequence of memmgr_alloc and memmgr_free.
THEOREM BlocksDisjoint == Spec => []Disjoint
<1>1. Inv => Disjoint
  BY DEF Inv
<1> QED
  BY <1>1, Invariance, PTL

\* Every quanta claimed from the pool belongs to a block: neither splitting
\* nor combining loses memory (memmgr_alloc, memmgr_free).
THEOREM MemoryKept == Spec => []NothingLost
<1>1. Inv => NothingLost
  BY DEF Inv
<1> QED
  BY <1>1, Invariance, PTL

-----------------------------------------------------------------------------
\* The refinement of MemPool.

\* If every free block is too small, so is every gap between the blocks that
\* are handed out: a gap that reached over the end of a free block would
\* start another one there, and the two would have been combined.
LEMMA NoGapLeft ==
  ASSUME Inv, pc = "search" \/ grow, \A x \in listed : size[x] < nquantas
  PROVE  MP!NoGap(nquantas)
<1> SUFFICES ASSUME NEW a \in 0 .. Pool, MP!Gap(a, nquantas) PROVE FALSE
  BY DEF MP!NoGap
<1>1. /\ a \in Int /\ 0 <= a /\ a + nquantas <= pool_free_pos
      /\ nquantas \in Int /\ nquantas > 0 /\ pool_free_pos \in Int
  BY Facts DEF MP!Gap
<1>2. \A b \in held : b + size[b] <= a \/ a + nquantas <= b
  <2> TAKE b \in held
  <2>1. [addr |-> b, size |-> size[b]] \in {[addr |-> c, size |-> size[c]] : c \in held}
    OBVIOUS
  <2> QED
    BY <2>1 DEF MP!Gap
<1>3. ASSUME NEW n \in Int, a <= n, n < a + nquantas
      PROVE  \E x \in listed \ {base} : x <= n /\ n < x + size[x]
  <2>1. n \in 0 .. pool_free_pos - 1
    BY <1>1, <1>3
  <2>2. PICK x \in Blocks \ {base} : x <= n /\ n < x + size[x]
    BY <2>1 DEF Inv, NothingLost
  <2>3. x \in Int /\ size[x] \in Int
    BY <2>2, Facts, AddrFacts DEF Inv, Disjoint
  <2>4. x \notin held
    BY <1>1, <1>2, <1>3, <2>2, <2>3
  <2>5. x \in listed
    BY <1>1, <1>3, <2>2, <2>3, <2>4 DEF Blocks, InTransit, Inv, Cursors
  <2> QED
    BY <2>2, <2>5
<1>4. PICK x \in listed \ {base} : x <= a /\ a < x + size[x]
  BY <1>1, <1>3
<1>5. x \in Int /\ size[x] \in Int /\ size[x] < nquantas /\ size[x] > 0
  BY <1>1, <1>4, Facts
<1>6. PICK y \in listed \ {base} : y <= x + size[x] /\ x + size[x] < y + size[y]
  BY <1>1, <1>3, <1>4, <1>5
<1>7. y \in Int /\ size[y] \in Int /\ y # x
  BY <1>5, <1>6, Facts
<1>8. x + size[x] <= y \/ y + size[y] <= x
  BY <1>4, <1>6, <1>7 DEF Inv, Disjoint, Blocks
<1>9. y = x + size[x]
  BY <1>5, <1>6, <1>7, <1>8
<1> QED
  BY <1>4, <1>6, <1>9 DEF Inv, Combined

\* The abstract view of the blocks handed out, of the request and of the pool.
Given == {[addr |-> b, size |-> size[b]] : b \in held}
Wanted == IF pc = "search" \/ (pc = "insert" /\ grow) THEN nquantas ELSE 0

\* What the callers hold looks the same when its sizes are the same.
LEMMA SameGiven ==
  ASSUME held' = held, \A b \in held : size'[b] = size[b]
  PROVE  Given' = Given
  BY DEF Given

\* A block that is free, claimed and has the size asked for may be given.
LEMMA GrantStep ==
  ASSUME Inv, pc = "search", pc' = "idle", pool_free_pos' = pool_free_pos,
         NEW b \in Quantas, held' = held \cup {b}, size'[b] = nquantas,
         \A c \in held : size'[c] = size[c],
         b + nquantas <= pool_free_pos,
         \A c \in held : c + size[c] <= b \/ b + nquantas <= c
  PROVE  MP!Grant
<1>1. Wanted = nquantas /\ Wanted' = 0 /\ nquantas # 0
  BY Facts DEF Wanted
<1>2. b \in 0 .. Pool
  BY Facts
<1>3. Given' = Given \cup {[addr |-> b, size |-> nquantas]}
  BY DEF Given
<1>4. MP!Gap(b, nquantas)
  <2> SUFFICES ASSUME NEW r \in Given
               PROVE  r.addr + r.size <= b \/ b + nquantas <= r.addr
    BY DEF MP!Gap, Given
  <2>1. PICK c \in held : r = [addr |-> c, size |-> size[c]]
    BY DEF Given
  <2> QED
    BY <2>1
<1> QED
  BY <1>1, <1>2, <1>3, <1>4 DEF MP!Grant, Given, Wanted

\* Every step of the manager is one of MemPool or changes nothing there.
LEMMA RefinementStep ==
  ASSUME Inv, [Next]_vars PROVE [MP!Next]_(MP!vars)
<1>1. ASSUME NEW nbytes \in Requests, memmgr_alloc(nbytes) PROVE MP!Ask
  <2>1. Wanted = 0 /\ Wanted' = nquantas' /\ nquantas' \in Nat \ {0}
    BY <1>1, AllocStep DEF memmgr_alloc, Wanted, Inv, TypeOK
  <2>2. Given' = Given /\ pool_free_pos' = pool_free_pos
    BY <1>1 DEF memmgr_alloc, Given
  <2> QED
    BY <2>1, <2>2 DEF MP!Ask, Given, Wanted
<1>2. ASSUME NEW b \in held, memmgr_free(b) PROVE MP!Release
  <2>1. Wanted = 0 /\ Wanted' = 0 /\ pool_free_pos' = pool_free_pos
    BY <1>2 DEF memmgr_free, heap, Wanted
  <2>2. Given' = Given \ {[addr |-> b, size |-> size[b]]}
    BY <1>2 DEF memmgr_free, heap, Given
  <2>3. [addr |-> b, size |-> size[b]] \in Given
    BY DEF Given
  <2> QED
    BY <2>1, <2>2, <2>3 DEF MP!Release, Given, Wanted
<1>3. CASE AllocExact
  <2>1. /\ pc = "search" /\ pc' = "idle" /\ size[p] = nquantas /\ size' = size
        /\ held' = held \cup {p} /\ pool_free_pos' = pool_free_pos
    BY <1>3 DEF AllocExact, Return
  <2>2. p \in listed \ {base} /\ p \notin held /\ p \in Blocks \ {base}
    BY <2>1, Facts, SearchFacts DEF Inv, Ring, Cursors
  <2>3. p \in Quantas /\ p + nquantas <= pool_free_pos
    BY <2>1, <2>2, SearchFacts DEF Inv, Disjoint
  <2>4. \A c \in held : c + size[c] <= p \/ p + nquantas <= c
    BY <2>1, <2>2, Facts, AddrFacts DEF Inv, Disjoint, Blocks
  <2>5. MP!Grant
    BY <2>1, <2>3, <2>4, GrantStep
  <2> QED
    BY <2>5 DEF MP!Next
<1>4. CASE AllocSplit
  <2> DEFINE tail == p + (size[p] - nquantas)
  <2>1. /\ pc = "search" /\ pc' = "idle" /\ size[p] > nquantas /\ ~grow
        /\ size' = [size EXCEPT ![p] = @ - nquantas, ![tail] = nquantas]
        /\ held' = held \cup {tail} /\ pool_free_pos' = pool_free_pos
    BY <1>4, SearchFacts DEF AllocSplit, Return
  <2>2. p \in listed \ {base} /\ p \notin held /\ p \in Blocks \ {base}
    BY <2>1, Facts, SearchFacts DEF Inv, Ring, Cursors
  <2>3. /\ p \in Quantas /\ p \in Int /\ size[p] \in Int /\ 0 <= p
        /\ p + size[p] <= pool_free_pos
        /\ nquantas \in Int /\ nquantas > 0 /\ pool_free_pos \in Int
        /\ pool_free_pos <= Pool /\ Pool \in Int
    BY <2>1, <2>2, Facts DEF Inv, Disjoint
  <2>4. tail \in Quantas /\ tail \in Int /\ tail + nquantas = p + size[p] /\ p < tail
    BY <2>1, <2>3 DEF Quantas
  <2>5. \A c \in held : /\ c \in Int /\ c \in Quantas /\ size[c] \in Int /\ size[c] > 0
                        /\ c + size[c] <= p \/ p + size[p] <= c
    BY <2>1, <2>2, Facts, AddrFacts DEF Inv, Disjoint, Blocks
  <2>6. \A c \in held : c # p /\ c # tail
    BY <2>2, <2>3, <2>4, <2>5
  <2>7. size'[tail] = nquantas /\ \A c \in held : size'[c] = size[c]
    BY <2>1, <2>4, <2>5, <2>6, AddrFacts DEF Inv, TypeOK
  <2>8. \A c \in held : c + size[c] <= tail \/ tail + nquantas <= c
    BY <2>3, <2>4, <2>5
  <2> HIDE DEF tail
  <2>9. MP!Grant
    BY <2>1, <2>3, <2>4, <2>7, <2>8, GrantStep
  <2> QED
    BY <2>9 DEF MP!Next
<1>5. CASE AllocNext \/ AllocClaim
  <2>1. Wanted' = Wanted /\ pool_free_pos' = pool_free_pos
    BY <1>5 DEF AllocNext, AllocClaim, heap, Wanted
  <2>2. held' = held /\ \A c \in held : size'[c] = size[c]
    <3>1. CASE AllocNext
      BY <3>1 DEF AllocNext, heap
    <3>2. CASE AllocClaim
      <4>1. ASSUME NEW c \in held PROVE c \in Addr /\ c # pool_free_pos
        <5>1. c \in Blocks \ {base} /\ c \in Int /\ size[c] \in Int /\ c \in Addr
          BY Facts, AddrFacts DEF Blocks
        <5>2. size[c] > 0 /\ c + size[c] <= pool_free_pos
          BY <3>2, <5>1, SearchFacts DEF AllocClaim, Inv, Disjoint
        <5> QED
          BY <5>1, <5>2, Facts
      <4> QED
        BY <3>2, <4>1 DEF AllocClaim, Inv, TypeOK
    <3> QED
      BY <1>5, <3>1, <3>2
  <2> QED
    BY <2>1, <2>2, SameGiven DEF MP!vars, Given, Wanted
<1>6. CASE AllocFail
  <2>1. /\ pc = "search" /\ Wanted = nquantas /\ Wanted' = 0 /\ nquantas # 0
        /\ size' = size /\ held' = held /\ pool_free_pos' = pool_free_pos
    BY <1>6, Facts DEF AllocFail, Return, heap, Wanted
  <2>2. MP!NoGap(nquantas)
    BY <1>6, NoGapLeft, SearchEnd DEF AllocFail
  <2>3. pool_free_pos + MP!Claim(nquantas) > Pool
    BY <1>6 DEF AllocFail, Claim, MP!Claim
  <2>4. MP!Refuse
    BY <2>1, <2>2, <2>3, SameGiven DEF MP!Refuse, Wanted, Given
  <2> QED
    BY <2>4 DEF MP!Next
<1>7. CASE FreeNext
  BY <1>7 DEF FreeNext, heap, MP!vars
<1>8. CASE FreeInsert
  <2>1. pc = "insert" /\ held' = held /\ \A c \in held : size'[c] = size[c]
    <3>1. pc = "insert" /\ Place /\ held' = held
      BY <1>8 DEF FreeInsert
    <3>2. \A c \in held : c \in Blocks /\ c \notin Gone /\ c # Target
      BY <1>8, <3>1, InsertFacts, InsertSizes DEF Target, Inv, Cursors
    <3> QED
      BY <1>8, <3>1, <3>2, InsertSizes
  <2>2. Given' = Given
    BY <2>1, SameGiven
  <2>3. CASE grow
    <3>1. /\ Wanted = nquantas /\ Wanted' = nquantas /\ nquantas # 0
          /\ pool_free_pos' = pool_free_pos + Claim
      BY <1>8, <2>1, <2>3, Facts DEF FreeInsert, Wanted
    <3>2. MP!NoGap(nquantas)
      BY <2>3, NoGapLeft DEF Inv, Searched
    <3>3. Claim = MP!Claim(nquantas) /\ pool_free_pos + Claim <= Pool
      BY <2>3 DEF Claim, MP!Claim, Inv, Cursors
    <3>4. MP!Grow
      BY <2>2, <3>1, <3>2, <3>3 DEF MP!Grow, Wanted, Given
    <3> QED
      BY <3>4 DEF MP!Next
  <2>4. CASE ~grow
    <3>1. Wanted = 0 /\ Wanted' = 0 /\ pool_free_pos' = pool_free_pos
      BY <1>8, <2>1, <2>4 DEF FreeInsert, Wanted
    <3> QED
      BY <2>2, <3>1 DEF MP!vars, Wanted, Given
  <2> QED
    BY <2>3, <2>4
<1>9. CASE UNCHANGED vars
  BY <1>9 DEF vars, heap, MP!vars
<1> QED
  BY <1>1, <1>2, <1>3, <1>4, <1>5, <1>6, <1>7, <1>8, <1>9
     DEF Next, Step, MP!Next

\* memmgr_alloc and memmgr_free implement the abstract pool: a block that is
\* given lies in a gap and has the size asked for, and the manager claims
\* more of the pool, or fails, only when no gap is large enough.
THEOREM PoolImplemented == Spec => KeepsPromise
<1>1. Init => MP!Init
  BY DEF Init, MP!Init
<1>2. Inv /\ [Next]_vars => [MP!Next]_(MP!vars)
  BY RefinementStep
<1> QED
  BY <1>1, <1>2, Invariance, PTL DEF Spec, KeepsPromise, MP!Spec
=============================================================================
