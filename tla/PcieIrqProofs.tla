--------------------------- MODULE PcieIrqProofs ---------------------------
(***************************************************************************)
(* The counter of outstanding interrupts, for any number of waiting        *)
(* threads and interrupt sources.                                          *)
(***************************************************************************)
EXTENDS PcieIrq, FiniteSetTheorems, TLAPS

\* What the counter and the waiters that owe to it come to: nothing, as long
\* as no clear has come between the two operations of a waiter, and never
\* less than nothing.
Balance(s) == irq_outstanding[s] + Cardinality(Owing(s))

Balanced == \A s \in Sources :
    /\ Balance(s) >= 0
    /\ ~crossed[s] => Balance(s) = 0

Inv == TypeOK /\ Balanced /\ NoReturnByWaiters

\* The waiters that owe are finitely many.
LEMMA OwingFinite ==
    ASSUME NEW s \in Sources
    PROVE  IsFiniteSet(Owing(s)) /\ Cardinality(Owing(s)) \in Nat
<1>1. Owing(s) \in SUBSET Waiters
  BY DEF Owing
<1>2. IsFiniteSet(Owing(s))
  BY <1>1, WaitersAssumption, FS_Subset
<1> QED
  BY <1>2, FS_CardinalityType

\* Initially nobody owes and every counter is zero.
LEMMA InitInv == Init => Inv
<1> SUFFICES ASSUME Init PROVE Inv
  OBVIOUS
<1>1. TypeOK /\ NoReturnByWaiters
  BY DEF Init, TypeOK, NoReturnByWaiters
<1>2. Balanced
  <2> SUFFICES ASSUME NEW s \in Sources PROVE Balance(s) = 0
    BY DEF Balanced
  <2>1. Owing(s) = {}
    BY DEF Init, Owing
  <2> QED
    BY <2>1, FS_EmptySet DEF Init, Balance
<1> QED
  BY <1>1, <1>2 DEF Inv

\* A step that leaves the counters, the owing waiters and the clears alone
\* keeps the balance.
LEMMA SameBalance ==
    ASSUME Inv, irq_outstanding' = irq_outstanding, crossed' = crossed,
           \A s \in Sources : Owing(s)' = Owing(s)
    PROVE  Balanced'
BY DEF Inv, Balanced, Balance

\* A wait that returns has found the counter positive, which needs a clear.
LEMMA TakeStep ==
    ASSUME Inv, NEW w \in Waiters, Take(w)
    PROVE  Inv'
<1> DEFINE s == irq_source[w]
<1>0. s \in Sources /\ irq_outstanding[s] \in Int
  BY DEF Inv, TypeOK
<1>1. \A t \in Sources : Owing(t)' = Owing(t)
  BY DEF Take, Owing, Inv, TypeOK
<1>2. Cardinality(Owing(s)) \in Nat
  BY <1>0, OwingFinite
<1>3. crossed[s]
  BY <1>0, <1>2 DEF Take, Inv, Balanced, Balance
<1>4. TypeOK'
  BY <1>0 DEF Take, Inv, TypeOK
<1>5. NoReturnByWaiters'
  BY <1>0, <1>3 DEF Take, Inv, TypeOK, NoReturnByWaiters
<1>6. Balanced'
  <2> SUFFICES ASSUME NEW t \in Sources
               PROVE  /\ Balance(t)' >= 0
                      /\ ~crossed'[t] => Balance(t)' = 0
    BY DEF Balanced
  <2>1. CASE t = s
    <3>1. irq_outstanding'[s] = irq_outstanding[s] - 1
      BY <1>0 DEF Take, Inv, TypeOK
    <3>2. crossed'[s] /\ irq_outstanding[s] - 1 >= 0
      BY <1>3 DEF Take
    <3> QED
      BY <1>0, <1>1, <1>2, <2>1, <3>1, <3>2 DEF Balance
  <2>2. CASE t # s
    <3>1. irq_outstanding'[t] = irq_outstanding[t] /\ crossed' = crossed
      BY <2>2 DEF Take, Inv, TypeOK
    <3> QED
      BY <1>1, <3>1 DEF Balance, Inv, Balanced
  <2> QED
    BY <2>1, <2>2
<1> QED
  BY <1>4, <1>5, <1>6 DEF Inv

\* What TakeNegative takes is owed, and GiveBack settles it.
LEMMA OweStep ==
    ASSUME Inv, NEW w \in Waiters, TakeNegative(w) \/ GiveBack(w)
    PROVE  Inv'
<1>s. PICK s \in Sources : s = irq_source[w]
  BY DEF Inv, TypeOK
<1>0. irq_outstanding[s] \in Int
  BY DEF Inv, TypeOK
<1>1. IsFiniteSet(Owing(s)) /\ Cardinality(Owing(s)) \in Nat
  BY <1>0, OwingFinite
<1>2. crossed' = crossed /\ returned' = returned
  BY DEF TakeNegative, GiveBack
<1>3. TypeOK' /\ NoReturnByWaiters'
  <2>1. TypeOK'
    BY <1>s, <1>0 DEF TakeNegative, GiveBack, Inv, TypeOK
  <2>2. NoReturnByWaiters'
    BY <1>2 DEF Inv, NoReturnByWaiters
  <2> QED
    BY <2>1, <2>2
<1>4. \A t \in Sources : t # s =>
          Owing(t)' = Owing(t) /\ irq_outstanding'[t] = irq_outstanding[t]
  <2>1. CASE TakeNegative(w)
    BY <1>s, <2>1 DEF TakeNegative, Owing, Inv, TypeOK
  <2>2. CASE GiveBack(w)
    BY <1>s, <2>2 DEF GiveBack, Owing, Inv, TypeOK
  <2> QED
    BY <2>1, <2>2
<1>5. Balance(s)' = Balance(s)
  <2>1. CASE TakeNegative(w)
    <3>1. irq_outstanding'[s] = irq_outstanding[s] - 1
      BY <1>s, <1>0, <2>1 DEF TakeNegative, Inv, TypeOK
    <3>2. w \notin Owing(s) /\ Owing(s)' = Owing(s) \cup {w}
      BY <1>s, <2>1 DEF TakeNegative, Owing, Inv, TypeOK
    <3>3. Cardinality(Owing(s) \cup {w}) = Cardinality(Owing(s)) + 1
      BY <1>1, <3>2, FS_AddElement
    <3> QED
      BY <1>0, <1>1, <3>1, <3>2, <3>3 DEF Balance
  <2>2. CASE GiveBack(w)
    <3>1. irq_outstanding'[s] = irq_outstanding[s] + 1
      BY <1>s, <1>0, <2>2 DEF GiveBack, Inv, TypeOK
    <3>2. w \in Owing(s) /\ Owing(s)' = Owing(s) \ {w}
      BY <1>s, <2>2 DEF GiveBack, Owing, Inv, TypeOK
    <3>3. Cardinality(Owing(s) \ {w}) = Cardinality(Owing(s)) - 1
      BY <1>1, <3>2, FS_RemoveElement
    <3> QED
      BY <1>0, <1>1, <3>1, <3>2, <3>3 DEF Balance
  <2> QED
    BY <2>1, <2>2
<1>6. Balanced'
  <2> SUFFICES ASSUME NEW t \in Sources
               PROVE  /\ Balance(t)' >= 0
                      /\ ~crossed'[t] => Balance(t)' = 0
    BY DEF Balanced
  <2>1. Balance(t)' = Balance(t)
    <3>1. CASE t = s
      BY <1>5, <3>1
    <3>2. CASE t # s
      BY <1>4, <3>2 DEF Balance
    <3> QED
      BY <3>1, <3>2
  <2> QED
    BY <1>2, <2>1 DEF Inv, Balanced
<1> QED
  BY <1>3, <1>6 DEF Inv

\* A clear resets the counter; what is owed at that moment is left over.
LEMMA ClearStep ==
    ASSUME Inv, NEW s \in Sources, ClearIoq(s)
    PROVE  Inv'
<1>1. \A t \in Sources : Owing(t)' = Owing(t)
  BY DEF ClearIoq, Owing
<1>2. Cardinality(Owing(s)) \in Nat
  BY OwingFinite
<1>3. TypeOK'
  BY DEF ClearIoq, Inv, TypeOK
<1>4. \A t \in Sources : crossed[t] => crossed'[t]
  BY DEF ClearIoq, Inv, TypeOK
<1>5. NoReturnByWaiters'
  BY <1>4 DEF ClearIoq, Inv, NoReturnByWaiters
<1>6. Balanced'
  <2> SUFFICES ASSUME NEW t \in Sources
               PROVE  /\ Balance(t)' >= 0
                      /\ ~crossed'[t] => Balance(t)' = 0
    BY DEF Balanced
  <2>1. CASE t = s
    <3>1. irq_outstanding'[s] = 0
      BY DEF ClearIoq, Inv, TypeOK
    <3>2. Balance(s)' = Cardinality(Owing(s))
      BY <1>1, <1>2, <3>1 DEF Balance
    <3>3. ~crossed'[s] => Owing(s) = {}
      BY DEF ClearIoq, Inv, TypeOK
    <3> QED
      BY <1>2, <2>1, <3>2, <3>3, FS_EmptySet
  <2>2. CASE t # s
    <3>1. irq_outstanding'[t] = irq_outstanding[t] /\ crossed'[t] = crossed[t]
      BY <2>2 DEF ClearIoq, Inv, TypeOK
    <3> QED
      BY <1>1, <3>1 DEF Balance, Inv, Balanced
  <2> QED
    BY <2>1, <2>2
<1> QED
  BY <1>3, <1>5, <1>6 DEF Inv

\* No step breaks the invariant.
LEMMA InvStep == Inv /\ [Next]_vars => Inv'
<1> SUFFICES ASSUME Inv, [Next]_vars PROVE Inv'
  OBVIOUS
<1>1. ASSUME NEW w \in Waiters, NEW s \in Sources, WaitInterrupt(w, s)
      PROVE  Inv'
  <2>1. \A t \in Sources : Owing(t)' = Owing(t)
    BY <1>1 DEF WaitInterrupt, Owing, Inv, TypeOK
  <2>2. Balanced'
    BY <1>1, <2>1, SameBalance DEF WaitInterrupt
  <2> QED
    BY <1>1, <2>2 DEF WaitInterrupt, Inv, TypeOK, NoReturnByWaiters
<1>2. ASSUME NEW w \in Waiters, Take(w) PROVE Inv'
  BY <1>2, TakeStep
<1>3. ASSUME NEW w \in Waiters, TakeNegative(w) \/ GiveBack(w) PROVE Inv'
  BY <1>3, OweStep
<1>4. ASSUME NEW s \in Sources, ClearIoq(s) PROVE Inv'
  BY <1>4, ClearStep
<1>5. ASSUME (\E s \in Sources : IrqHandler(s)) \/ UNCHANGED vars PROVE Inv'
  <2>1. \A t \in Sources : Owing(t)' = Owing(t)
    BY <1>5 DEF IrqHandler, vars, Owing
  <2>2. Balanced'
    BY <1>5, <2>1, SameBalance DEF IrqHandler, vars
  <2> QED
    BY <1>5, <2>2 DEF IrqHandler, vars, Inv, TypeOK, NoReturnByWaiters
<1> QED
  BY <1>1, <1>2, <1>3, <1>4, <1>5 DEF Next, Wait

\* irq_outstanding is never short by more than the waiters between their two
\* atomic operations owe (ioctl_wait_interrupt), for any number of waiters.
THEOREM CounterCorrect == Spec => []CounterBalanced
<1>1. Inv => CounterBalanced
  BY DEF Inv, Balanced, Balance, CounterBalanced
<1> QED
  BY <1>1, InitInv, InvStep, PTL DEF Spec

\* No combination of waiters makes a wait return without a clear that came
\* between the two atomic operations of one of them.
THEOREM WaitersNeverWake == Spec => []NoReturnByWaiters
<1>1. Inv => NoReturnByWaiters
  BY DEF Inv
<1> QED
  BY <1>1, InitInv, InvStep, PTL DEF Spec

\* Counters, waiters and history keep their types under every interleaving of
\* waiters, clears and the handler (ioctl_wait_interrupt, pcidriver_irq_handler).
THEOREM IrqTypeCorrect == Spec => []TypeOK
<1>1. Inv => TypeOK
  BY DEF Inv
<1> QED
  BY <1>1, InitInv, InvStep, PTL DEF Spec
=============================================================================
