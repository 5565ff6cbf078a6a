------------------------------ MODULE MemPool ------------------------------
(***************************************************************************)
(* What the static memory manager promises, without its free list: blocks  *)
(* of a pool are handed out and given back; the pool is claimed from the   *)
(* bottom, and only when no gap of the claimed part is large enough.       *)
(***************************************************************************)
EXTENDS Naturals

CONSTANTS
    Pool,       \* size of the pool
    MinClaim    \* least amount by which the claimed part grows

VARIABLES
    claimed,    \* the claimed part is 0 .. claimed - 1
    held,       \* blocks handed out
    want        \* size of the block that is asked for, 0 if none

vars == <<claimed, held, want>>

Claim(n) == IF n < MinClaim THEN MinClaim ELSE n

\* A block of n at a lies in the claimed part and overlaps no block held.
Gap(a, n) ==
    /\ a + n <= claimed
    /\ \A b \in held : b.addr + b.size <= a \/ a + n <= b.addr

NoGap(n) == \A a \in 0 .. Pool : ~Gap(a, n)

Init == claimed = 0 /\ held = {} /\ want = 0

Ask ==
    /\ want = 0
    /\ want' \in Nat \ {0}
    /\ UNCHANGED <<claimed, held>>

Grow ==
    /\ want # 0 /\ NoGap(want)
    /\ claimed + Claim(want) <= Pool
    /\ claimed' = claimed + Claim(want)
    /\ UNCHANGED <<held, want>>

Grant ==
    /\ want # 0
    /\ \E a \in 0 .. Pool :
          Gap(a, want) /\ held' = held \cup {[addr |-> a, size |-> want]}
    /\ want' = 0
    /\ UNCHANGED claimed

Refuse ==
    /\ want # 0 /\ NoGap(want)
    /\ claimed + Claim(want) > Pool
    /\ want' = 0
    /\ UNCHANGED <<claimed, held>>

Release ==
    /\ want = 0
    /\ \E b \in held : held' = held \ {b}
    /\ UNCHANGED <<claimed, want>>

Next == Ask \/ Grow \/ Grant \/ Refuse \/ Release

Spec == Init /\ [][Next]_vars
=============================================================================
