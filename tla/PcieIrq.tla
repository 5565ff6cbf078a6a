------------------------------ MODULE PcieIrq ------------------------------
(***************************************************************************)
(* Waiting for an interrupt of the PCIe board: ioctl_wait_interrupt and    *)
(* ioctl_clear_ioq of ioctl.c on one side, pcidriver_irq_handler of int.c  *)
(* on the other.  They share irq_outstanding, an atomic counter per source *)
(* (PCIDRIVER_INT_MAXSOURCES).                                             *)
(*                                                                         *)
(* The wait is a loop: sleep until the counter is positive or 10 ms have   *)
(* passed, take one from the counter, and give it back in a second atomic  *)
(* operation if that made it negative.  What ends the sleep makes no       *)
(* difference to what follows, so the sleep itself is no step.             *)
(***************************************************************************)
EXTENDS Integers, FiniteSets

CONSTANTS
    Waiters,    \* threads that call PCIDRIVER_IOC_WAITI
    Sources     \* 0 .. PCIDRIVER_INT_MAXSOURCES-1

ASSUME WaitersAssumption == IsFiniteSet(Waiters)

VARIABLES
    irq_outstanding,    \* per source
    pc,                 \* per waiter: where it is in ioctl_wait_interrupt
    irq_source,         \* per waiter: the source it waits for
    arrived,            \* history: an interrupt of the source has arrived
    returned,           \* history: a wait for the source has returned
    crossed             \* history: a clear came between the two operations

vars == <<irq_outstanding, pc, irq_source, arrived, returned, crossed>>

\* The waiters that took one from the counter of s and owe it.
Owing(s) == {w \in Waiters : pc[w] = "giveback" /\ irq_source[w] = s}

TypeOK ==
    /\ irq_outstanding \in [Sources -> Int]
    /\ pc \in [Waiters -> {"idle", "loop", "giveback"}]
    /\ irq_source \in [Waiters -> Sources]
    /\ arrived \in [Sources -> BOOLEAN]
    /\ returned \in [Sources -> BOOLEAN]
    /\ crossed \in [Sources -> BOOLEAN]

\* pcidriver_probe_irq
Init ==
    /\ irq_outstanding = [s \in Sources |-> 0]
    /\ pc = [w \in Waiters |-> "idle"]
    /\ irq_source \in [Waiters -> Sources]
    /\ arrived = [s \in Sources |-> FALSE]
    /\ returned = [s \in Sources |-> FALSE]
    /\ crossed = [s \in Sources |-> FALSE]

-----------------------------------------------------------------------------
\* Mutant: sources are counted from one.
WaitInterruptFromOne(w, s) ==
    /\ pc[w] = "idle"
    /\ pc' = [pc EXCEPT ![w] = "loop"]
    /\ irq_source' = [irq_source EXCEPT ![w] = s + 1]
    /\ UNCHANGED <<irq_outstanding, arrived, returned, crossed>>

\* Entry of ioctl_wait_interrupt (a source out of range is refused and has
\* no effect).
WaitInterrupt(w, s) ==
    /\ pc[w] = "idle"
    /\ pc' = [pc EXCEPT ![w] = "loop"]
    /\ irq_source' = [irq_source EXCEPT ![w] = s]
    /\ UNCHANGED <<irq_outstanding, arrived, returned, crossed>>

\* Mutant: the sign is tested before the decrement.
TakeTestedFirst(w) ==
    LET s == irq_source[w] IN
    /\ pc[w] = "loop"
    /\ irq_outstanding[s] >= 0
    /\ irq_outstanding' = [irq_outstanding EXCEPT ![s] = irq_outstanding[s] - 1]
    /\ pc' = [pc EXCEPT ![w] = "idle"]
    /\ returned' = [returned EXCEPT ![s] = TRUE]
    /\ UNCHANGED <<irq_source, arrived, crossed>>

\* atomic_add_negative(-1): the counter was positive and the wait returns...
Take(w) ==
    LET s == irq_source[w] IN
    /\ pc[w] = "loop"
    /\ irq_outstanding[s] - 1 >= 0
    /\ irq_outstanding' = [irq_outstanding EXCEPT ![s] = irq_outstanding[s] - 1]
    /\ pc' = [pc EXCEPT ![w] = "idle"]
    /\ returned' = [returned EXCEPT ![s] = TRUE]
    /\ UNCHANGED <<irq_source, arrived, crossed>>

\* ... or it was not, and the decrement has to be undone.
TakeNegative(w) ==
    LET s == irq_source[w] IN
    /\ pc[w] = "loop"
    /\ irq_outstanding[s] - 1 < 0
    /\ irq_outstanding' = [irq_outstanding EXCEPT ![s] = irq_outstanding[s] - 1]
    /\ pc' = [pc EXCEPT ![w] = "giveback"]
    /\ UNCHANGED <<irq_source, arrived, returned, crossed>>

\* Mutant: the decrement is not undone.
GiveBackNothing(w) ==
    /\ pc[w] = "giveback"
    /\ pc' = [pc EXCEPT ![w] = "loop"]
    /\ UNCHANGED <<irq_outstanding, irq_source, arrived, returned, crossed>>

\* atomic_inc, and round the loop again.
GiveBack(w) ==
    LET s == irq_source[w] IN
    /\ pc[w] = "giveback"
    /\ irq_outstanding' = [irq_outstanding EXCEPT ![s] = irq_outstanding[s] + 1]
    /\ pc' = [pc EXCEPT ![w] = "loop"]
    /\ UNCHANGED <<irq_source, arrived, returned, crossed>>

\* ioctl_clear_ioq
ClearIoq(s) ==
    /\ irq_outstanding' = [irq_outstanding EXCEPT ![s] = 0]
    /\ crossed' = [crossed EXCEPT ![s] = crossed[s] \/ Owing(s) # {}]
    /\ UNCHANGED <<pc, irq_source, arrived, returned>>

\* The board raises an interrupt and pcidriver_irq_handler runs.  The body of
\* pcidriver_irq_acknowledge is commented out: it returns false, the handler
\* IRQ_NONE, and check_acknowlegde_channel, which would count the interrupt
\* and wake the waiters, is never called.
IrqHandler(s) ==
    /\ arrived' = [arrived EXCEPT ![s] = TRUE]
    /\ UNCHANGED <<irq_outstanding, pc, irq_source, returned, crossed>>

Wait ==
    \/ \E w \in Waiters, s \in Sources : WaitInterrupt(w, s)
    \/ \E w \in Waiters : Take(w) \/ TakeNegative(w) \/ GiveBack(w)

Next ==
    \/ Wait
    \/ \E s \in Sources : ClearIoq(s) \/ IrqHandler(s)

Spec == Init /\ [][Next]_vars

-----------------------------------------------------------------------------
\* However the waiters and the clears interleave, irq_outstanding is short by
\* no more than what the waiters between their two operations owe: when no
\* waiter is there the counter the user reads in sysfs is not negative.
CounterBalanced == \A s \in Sources :
    irq_outstanding[s] + Cardinality(Owing(s)) >= 0

\* A wait returns only if a clear came between the two atomic operations of
\* some waiter: the waiters alone never wake each other, whatever they take
\* and give back (ioctl_wait_interrupt).
NoReturnByWaiters == \A s \in Sources : returned[s] => crossed[s]
=============================================================================
