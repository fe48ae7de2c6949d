------------------------ MODULE SingletonRunnerProofs ------------------------
(***************************************************************************)
(* What SingletonRunner promises, for any finite set of calls.             *)
(***************************************************************************)
EXTENDS SingletonRunner, FiniteSetTheorems, TLAPS

(* The calls that have been through the section under mux: each of them    *)
(* has started at most one instance.                                       *)
Joined == {c \in Calls : pc[c] \in {"joined", "select", "returned"}}

Counted == cur <= Cardinality(Joined)

(* Instances are taken in order, nothing has happened to those to come; a  *)
(* call and a wrapped Runnable have a context once they need it.           *)
InOrder ==
    /\ \A n \in Instances : wrapped[n] # "none" => n <= cur
    /\ \A n \in Instances : wrapped[n] = "running" => ctxOf[n] # 0
    /\ \A c \in Calls : pc[c] = "joined" => cur # 0
    /\ \A c \in Calls : pc[c] = "select" => mine[c] # 0

Completed == \E n \in Instances : wrapped[n] = "completed"

(* Without StopOnAny a context is cancelled only after some wrapped        *)
(* Runnable has completed on its own.                                      *)
CancelledByCompletion == ~StopOnAny => \A n \in Instances : cause[n] # "open" => Completed

Independent ==
    ~StopOnAny => \A c \in Calls : pc[c] = "returned" /\ ~ctxDone[c] => Completed

IInv == TypeOK /\ Counted /\ InOrder /\ OneWaiter /\ CancelledByCompletion /\ Independent

LEMMA CardType == Cardinality(Calls) \in Nat
BY SingletonAssumption, FS_CardinalityType

LEMMA JoinedFinite == IsFiniteSet(Joined) /\ Cardinality(Joined) \in Nat
<1>1. IsFiniteSet(Calls) /\ Joined \in SUBSET Calls
    BY SingletonAssumption DEF Joined
<1>2. IsFiniteSet(Joined)
    BY <1>1, FS_Subset
<1> QED
    BY <1>2, FS_CardinalityType

(* A call that has yet to join may still start an instance.                *)
LEMMA RoomForOne ==
    ASSUME NEW c \in Calls, c \notin Joined
    PROVE  Cardinality(Joined) < Cardinality(Calls)
<1>1. IsFiniteSet(Calls) /\ Joined \in SUBSET Calls /\ Joined # Calls
    BY SingletonAssumption DEF Joined
<1>2. Cardinality(Joined) <= Cardinality(Calls) /\ Cardinality(Joined) # Cardinality(Calls)
    BY <1>1, FS_Subset
<1> QED
    BY <1>2, CardType, JoinedFinite

-----------------------------------------------------------------------------
LEMMA InitInv == Init => IInv
<1> SUFFICES ASSUME Init PROVE IInv
    OBVIOUS
<1>1. ctxDone \in [Calls -> BOOLEAN] /\ running \in BOOLEAN /\ panicked \in BOOLEAN
    BY Zenon DEF Init
<1>2. TypeOK
    BY <1>1, CardType DEF Init, TypeOK
<1>3. Counted
    BY JoinedFinite DEF Init, Counted
<1>4. InOrder /\ OneWaiter /\ CancelledByCompletion /\ Independent
    BY DEF Init, InOrder, OneWaiter, Live, CancelledByCompletion, Independent
<1> QED
    BY <1>2, <1>3, <1>4 DEF IInv

(* Steps that start no instance leave the count to the calls.              *)
LEMMA StillCounted ==
    ASSUME TypeOK, Counted, cur' = cur, Joined \subseteq Joined'
    PROVE  Counted'
<1>1. IsFiniteSet(Joined') /\ Cardinality(Joined') \in Nat
    <2>1. IsFiniteSet(Calls) /\ Joined' \in SUBSET Calls
        BY SingletonAssumption DEF Joined
    <2>2. IsFiniteSet(Joined')
        BY <2>1, FS_Subset
    <2> QED
        BY <2>2, FS_CardinalityType
<1>2. Cardinality(Joined) <= Cardinality(Joined')
    BY <1>1, FS_Subset
<1>3. cur \in Nat
    BY CardType DEF TypeOK
<1> QED
    BY <1>1, <1>2, <1>3, JoinedFinite DEF Counted

(* The section under mux, for a call that finds no instance running: every *)
(* waiter has gone, and the next instance is a new one.                    *)
LEMMA JoinStarts ==
    ASSUME IInv, NEW c \in Calls, Join(c), ~running
    PROVE  IInv'
<1>1. c \notin Joined /\ Joined' = Joined \cup {c}
    BY DEF Join, Joined, IInv, TypeOK
<1>2. cur + 1 <= Cardinality(Calls) /\ cur \in Nat
    BY <1>1, RoomForOne, CardType, JoinedFinite DEF IInv, TypeOK, Counted
<1>3. cur + 1 \in Instances /\ cur + 1 \in 0..Cardinality(Calls)
    BY <1>2, CardType DEF Instances
<1>4. /\ pc' = [pc EXCEPT ![c] = "joined"]
      /\ cur' = cur + 1
      /\ wrapped' = [wrapped EXCEPT ![cur + 1] = "spawned"]
      /\ waiter' = [waiter EXCEPT ![cur + 1] = "spawned"]
      /\ UNCHANGED <<ctxDone, watcher, mine, cause, ctxOf, panicked>>
    BY DEF Join
<1>5. running' = TRUE
    BY DEF Join
<1>6. TypeOK'
    BY <1>3, <1>4, <1>5 DEF IInv, TypeOK
<1>7. Counted'
    <2>1. Cardinality(Joined') = Cardinality(Joined) + 1
        BY <1>1, JoinedFinite, FS_AddElement
    <2> QED
        BY <1>2, <1>4, <2>1, JoinedFinite DEF IInv, Counted
<1>8. InOrder'
    BY <1>2, <1>3, <1>4 DEF IInv, TypeOK, InOrder, Instances
<1>9. wrapped[cur + 1] = "none"
    BY <1>2, <1>3 DEF IInv, TypeOK, InOrder
<1>10. Completed => Completed'
    BY <1>3, <1>4, <1>9 DEF IInv, TypeOK, Completed
<1>11. OneWaiter'
    BY <1>2, <1>3, <1>4, <1>5 DEF IInv, TypeOK, OneWaiter, Live, Instances
<1>12. CancelledByCompletion' /\ Independent'
    BY <1>4, <1>10 DEF IInv, TypeOK, CancelledByCompletion, Independent
<1> QED
    BY <1>6, <1>7, <1>8, <1>11, <1>12 DEF IInv

(* A call returns; the goroutine in Wait, if it is woken, stays alive.     *)
LEMMA LeaveInv ==
    ASSUME IInv, NEW c \in Calls, pc[c] = "select", Leave(c), ctxDone[c] \/ (~StopOnAny => Completed)
    PROVE  IInv'
<1>1. /\ pc' = [pc EXCEPT ![c] = "returned"]
      /\ UNCHANGED <<ctxDone, watcher, running, cur, mine, cause, wrapped, ctxOf, panicked>>
    BY DEF Leave
<1>2. /\ waiter' \in [Instances -> {"none", "spawned", "parked", "woken", "passed", "done", "dead"}]
      /\ \A n \in Instances : Live(n)' <=> Live(n)
    BY DEF Leave, IInv, TypeOK, Live
<1>3. TypeOK'
    BY <1>1, <1>2 DEF IInv, TypeOK
<1>4. Counted'
    BY <1>1, StillCounted DEF IInv, TypeOK, Joined
<1>5. InOrder'
    BY <1>1 DEF IInv, TypeOK, InOrder
<1>6. OneWaiter'
    BY <1>1, <1>2, CardType DEF IInv, TypeOK, OneWaiter, Instances
<1>7. CancelledByCompletion' /\ Independent'
    BY <1>1 DEF IInv, TypeOK, CancelledByCompletion, Independent, Completed
<1> QED
    BY <1>3, <1>4, <1>5, <1>6, <1>7 DEF IInv

-----------------------------------------------------------------------------
LEMMA NextInv == IInv /\ [Next]_vars => IInv'
<1> SUFFICES ASSUME IInv, [Next]_vars PROVE IInv'
    OBVIOUS
<1> USE CardType DEF Instances
<1>1. ASSUME NEW c \in Calls, Run(c) PROVE IInv'
    <2>1. TypeOK' /\ Joined' = Joined
        BY <1>1 DEF Run, IInv, TypeOK, Joined
    <2>2. InOrder' /\ OneWaiter' /\ CancelledByCompletion' /\ Independent'
        BY <1>1 DEF Run, IInv, TypeOK, InOrder, OneWaiter, Live, CancelledByCompletion, Independent, Completed
    <2> QED
        BY <1>1, <2>1, <2>2 DEF Run, IInv, Counted
<1>2. ASSUME NEW c \in Calls, CancelCtx(c) PROVE IInv'
    <2>1. TypeOK' /\ Joined' = Joined
        BY <1>2 DEF CancelCtx, IInv, TypeOK, Joined
    <2>2. InOrder' /\ OneWaiter' /\ CancelledByCompletion' /\ Independent'
        BY <1>2 DEF CancelCtx, IInv, TypeOK, InOrder, OneWaiter, Live, CancelledByCompletion, Independent, Completed
    <2> QED
        BY <1>2, <2>1, <2>2 DEF CancelCtx, IInv, Counted
<1>3. ASSUME NEW c \in Calls, Watch(c) PROVE IInv'
    <2>1. TypeOK' /\ Joined' = Joined
        BY <1>3 DEF Watch, CancelWith, IInv, TypeOK, Joined
    <2>2. InOrder' /\ OneWaiter' /\ Independent'
        BY <1>3 DEF Watch, IInv, TypeOK, InOrder, OneWaiter, Live, Independent, Completed
    <2>3. CancelledByCompletion'
        BY <1>3 DEF Watch, IInv, CancelledByCompletion, Completed
    <2> QED
        BY <1>3, <2>1, <2>2, <2>3 DEF Watch, IInv, Counted
<1>4. ASSUME NEW c \in Calls, Join(c) PROVE IInv'
    <2>1. CASE ~running
        BY <1>4, <2>1, JoinStarts
    <2>2. CASE running
        <3>1. pc' = [pc EXCEPT ![c] = "joined"]
            BY <1>4 DEF Join
        <3>2. UNCHANGED <<running, cur, wrapped, waiter, ctxDone, watcher, mine, cause, ctxOf, panicked>>
            BY <1>4, <2>2 DEF Join
        <3>3. TypeOK' /\ Joined \subseteq Joined'
            BY <3>1, <3>2 DEF IInv, TypeOK, Joined
        <3>4. InOrder'
            BY <2>2, <3>1, <3>2 DEF IInv, TypeOK, InOrder, OneWaiter
        <3>5. OneWaiter' /\ CancelledByCompletion' /\ Independent'
            BY <3>1, <3>2 DEF IInv, TypeOK, OneWaiter, Live, CancelledByCompletion, Independent, Completed
        <3> QED
            BY <3>2, <3>3, <3>4, <3>5, StillCounted DEF IInv
    <2> QED
        BY <2>1, <2>2
<1>5. ASSUME NEW c \in Calls, Select(c) PROVE IInv'
    <2>1. TypeOK' /\ Joined' = Joined
        BY <1>5 DEF Select, IInv, TypeOK, Joined
    <2>2. InOrder' /\ OneWaiter' /\ CancelledByCompletion' /\ Independent'
        BY <1>5 DEF Select, IInv, TypeOK, InOrder, OneWaiter, Live, CancelledByCompletion, Independent, Completed
    <2> QED
        BY <1>5, <2>1, <2>2 DEF Select, IInv, Counted
<1>6. ASSUME NEW c \in Calls, ReturnStopped(c) PROVE IInv'
    <2>1. ~StopOnAny => Completed
        BY <1>6 DEF ReturnStopped, IInv, TypeOK, InOrder, CancelledByCompletion
    <2> QED
        BY <1>6, <2>1, LeaveInv DEF ReturnStopped
<1>7. ASSUME NEW c \in Calls, ReturnDone(c) PROVE IInv'
    BY <1>7, LeaveInv DEF ReturnDone
<1>8. ASSUME NEW n \in Instances, StartWrapped(n) PROVE IInv'
    <2>1. TypeOK' /\ Joined' = Joined
        BY <1>8 DEF StartWrapped, IInv, TypeOK, Joined
    <2>2. Completed => Completed'
        BY <1>8 DEF StartWrapped, IInv, TypeOK, Completed
    <2>3. InOrder'
        BY <1>8 DEF StartWrapped, IInv, TypeOK, InOrder
    <2>4. OneWaiter'
        BY <1>8 DEF StartWrapped, IInv, TypeOK, OneWaiter, Live
    <2>5. CancelledByCompletion' /\ Independent'
        BY <1>8, <2>2 DEF StartWrapped, IInv, CancelledByCompletion, Independent
    <2> QED
        BY <1>8, <2>1, <2>3, <2>4, <2>5 DEF StartWrapped, IInv, Counted
<1>9. ASSUME NEW n \in Instances, WrappedReturns(n) PROVE IInv'
    <2>1. TypeOK' /\ Joined' = Joined
        BY <1>9 DEF WrappedReturns, CancelWith, IInv, TypeOK, Joined
    <2>2. ~StopOnAny => Completed'
        <3>1. CASE cause[ctxOf[n]] = "open"
            BY <1>9, <3>1 DEF WrappedReturns, IInv, TypeOK, Completed
        <3>2. CASE cause[ctxOf[n]] # "open"
            <4>1. ~StopOnAny => Completed
                BY <1>9, <3>2 DEF WrappedReturns, IInv, TypeOK, InOrder, CancelledByCompletion
            <4> QED
                BY <1>9, <4>1 DEF WrappedReturns, IInv, TypeOK, Completed
        <3> QED
            BY <3>1, <3>2
    <2>3. InOrder'
        BY <1>9 DEF WrappedReturns, IInv, TypeOK, InOrder
    <2>4. OneWaiter'
        BY <1>9 DEF WrappedReturns, IInv, TypeOK, OneWaiter, Live
    <2>5. CancelledByCompletion' /\ Independent'
        BY <2>2 DEF CancelledByCompletion, Independent
    <2> QED
        BY <1>9, <2>1, <2>3, <2>4, <2>5 DEF WrappedReturns, IInv, Counted
<1>10. ASSUME NEW n \in Instances, Wait(n) \/ WaitReturns(n) \/ ResetRunning(n) PROVE IInv'
    <2>1. UNCHANGED <<pc, ctxDone, watcher, cur, mine, cause, wrapped, ctxOf>>
        BY <1>10 DEF Wait, WaitReturns, ResetRunning
    <2>2. TypeOK'
        <3>1. CASE Wait(n)
            BY <3>1 DEF Wait, IInv, TypeOK
        <3>2. CASE WaitReturns(n)
            BY <3>2 DEF WaitReturns, IInv, TypeOK
        <3>3. CASE ResetRunning(n)
            BY <3>3 DEF ResetRunning, IInv, TypeOK
        <3> QED
            BY <1>10, <3>1, <3>2, <3>3
    <2>3. OneWaiter'
        BY <1>10 DEF Wait, WaitReturns, ResetRunning, IInv, TypeOK, OneWaiter, Live
    <2>4. InOrder' /\ CancelledByCompletion' /\ Independent' /\ Counted'
        BY <2>1 DEF IInv, InOrder, CancelledByCompletion, Independent, Completed, Counted, Joined
    <2> QED
        BY <2>2, <2>3, <2>4 DEF IInv
<1>11. CASE UNCHANGED vars
    BY <1>11 DEF vars, IInv, TypeOK, Counted, Joined, InOrder, OneWaiter, Live, CancelledByCompletion,
                 Independent, Completed
<1> QED
    BY <1>1, <1>2, <1>3, <1>4, <1>5, <1>6, <1>7, <1>8, <1>9, <1>10, <1>11 DEF Next

(* However many calls share the wrapped Runnable: without StopOnAny, a     *)
(* call whose own context is still open returns only after a wrapped       *)
(* Runnable has completed on its own, and at any time at most one waiter,  *)
(* that of the current instance, is there to reset running.                *)
THEOREM CallsAreIndependent == Spec => []IndependentLifecycles
<1>1. IInv => IndependentLifecycles
    BY DEF IInv, IndependentLifecycles, Independent, Completed
<1> QED
    BY <1>1, InitInv, NextInv, PTL DEF Spec

=============================================================================
