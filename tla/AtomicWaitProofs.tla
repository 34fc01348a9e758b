-------------------------- MODULE AtomicWaitProofs --------------------------
(***************************************************************************)
(* Proofs about AtomicWait: IndInv is an inductive invariant, and the      *)
(* three safety invariants of the runs follow from it for any number of    *)
(* executions, memories and addresses.                                     *)
(***************************************************************************)
EXTENDS AtomicWait, FiniteSetTheorems, TLAPS

\* NoWait and NoVisit have their types.
LEMMA NoWaitType == NoWait \in Waits /\ NoVisit \in Visits
<1>1. \E w \in Waits : TRUE
  <2>1. PICK m \in Mems, a \in Addrs, v \in Vals, t \in Timeouts : TRUE
    BY ConstantsOK, Zenon
  <2>2. [mem |-> m, addr |-> a, exp |-> v, timeout |-> t] \in Waits
    BY <2>1 DEF Waits
  <2> QED BY <2>2
<1>2. NoWait \in Waits
  BY <1>1 DEF NoWait
<1>3. NoWait.mem \in Mems /\ NoWait.addr \in Addrs
  BY <1>2 DEF Waits
<1> QED BY <1>2, <1>3 DEF NoVisit, Visits

\* Passing one waiter of the notify's own memory adds one to the waiters that
\* it has passed.
LEMMA PassOne ==
    ASSUME NEW W \in SUBSET Execs, NEW T \in SUBSET Execs, NEW f \in T, f \in W
    PROVE  Cardinality(W \ (T \ {f})) = Cardinality(W \ T) + 1
<1>1. IsFiniteSet(W \ T)
  BY FS_Subset, ConstantsOK
<1>2. W \ (T \ {f}) = (W \ T) \cup {f}
  OBVIOUS
<1>3. Cardinality((W \ T) \cup {f}) = Cardinality(W \ T) + 1
  BY <1>1, FS_AddElement, ZenonT(60)
<1> QED BY <1>2, <1>3

\* Every action keeps the types.
LEMMA TypeStep == TypeOK /\ [Next]_vars => TypeOK'
<1> USE ConstantsOK, NoWaitType
<1> SUFFICES ASSUME TypeOK, [Next]_vars PROVE TypeOK'
  OBVIOUS
<1> USE DEF TypeOK, InWait, waitVars, lockVars, cancelVars
<1>1. ASSUME NEW e \in Execs, Start(e) \/ Poll(e) PROVE TypeOK'
  BY <1>1, SMTT(60) DEF Start, Poll, TakeToken
<1>2. ASSUME NEW e \in Execs, Finish(e) PROVE TypeOK'
  BY <1>2 DEF Finish
<1>3. ASSUME NEW e \in Execs, WaitRegister(e) \/ WaitBlock(e) PROVE TypeOK'
  BY <1>3 DEF WaitRegister, WaitBlock
<1>4. ASSUME NEW e \in Execs, WaitCheckStop(e) PROVE TypeOK'
  BY <1>4 DEF WaitCheckStop
<1>5. ASSUME NEW e \in Execs, WaitCheckValue(e) PROVE TypeOK'
  BY <1>5 DEF WaitCheckValue
<1>6. ASSUME NEW e \in Execs, WaitLeave(e) PROVE TypeOK'
  BY <1>6 DEF WaitLeave, EndWait
<1>7. ASSUME NEW e \in Execs, Expire(e) \/ SpuriousWake(e) PROVE TypeOK'
  BY <1>7 DEF Expire, SpuriousWake, Wake
<1>8. ASSUME NEW e \in Execs, NEW w \in Waits, WaitLoad(e, w) PROVE TypeOK'
  BY <1>8 DEF WaitLoad
<1>9. ASSUME NEW e \in Execs, NEW m \in Mems, NEW a \in Addrs, NEW v \in Vals,
             AtomicStore(e, m, a, v)
      PROVE TypeOK'
  BY <1>9 DEF AtomicStore
<1>10. ASSUME NEW e \in Execs, NEW m \in Mems, NEW a \in Addrs, NEW n \in Counts,
              NotifyBegin(e, m, a, n)
       PROVE TypeOK'
  <2>1. visit' \in Visits
    BY <1>10 DEF NotifyBegin, Visits
  <2> QED BY <1>10, <2>1 DEF NotifyBegin
<1>11. ASSUME NEW e \in Execs, StopStore(e) PROVE TypeOK'
  BY <1>11 DEF StopStore
<1>12. ASSUME NEW f \in Execs, Visit(f) PROVE TypeOK'
  <2>1. PICK t \in Nat :
          visit' = [visit EXCEPT !.todo = visit.todo \ {f}, !.total = t]
    <3> DEFINE t == IF visit.everyone \/ wait[f].mem = visit.mem
                      THEN visit.total + 1 ELSE visit.total
    <3>1. visit.total \in Nat
      BY DEF Visits
    <3>2. t \in Nat
      BY <3>1
    <3>3. visit' = [visit EXCEPT !.todo = visit.todo \ {f}, !.total = t]
      BY <1>12, Zenon DEF Visit
    <3> HIDE DEF t
    <3> QED BY <3>2, <3>3, Zenon
  <2>2. visit' \in Visits
    BY <2>1, Zenon DEF Visits
  <2> QED BY <1>12, <2>2, SMTT(60) DEF Visit, Signal
<1>13. ASSUME NEW e \in Execs, NotifyEnd(e) PROVE TypeOK'
  BY <1>13 DEF NotifyEnd
<1>14. ASSUME StopNotifyBegin PROVE TypeOK'
  <2>1. visit' \in Visits
    BY <1>14 DEF StopNotifyBegin, Visits
  <2> QED BY <1>14, <2>1 DEF StopNotifyBegin
<1>15. ASSUME StopNotifyEnd PROVE TypeOK'
  BY <1>15 DEF StopNotifyEnd
<1>16. ASSUME UNCHANGED vars PROVE TypeOK'
  BY <1>16 DEF vars
<1> QED
  BY <1>1, <1>2, <1>3, <1>4, <1>5, <1>6, <1>7, <1>8, <1>9, <1>10, <1>11,
     <1>12, <1>13, <1>14, <1>15, <1>16, SMTT(60) DEF Next, WaitStep, LockStep
\* A step that changes neither the map, nor the waits of the executions in it,
\* nor the walk leaves every notify's count as exact as it was.
LEMMA CountKept ==
    ASSUME IndInv, UNCHANGED <<WaiterMap, mapLock, visit>>,
           \A e \in WaiterMap : wait'[e] = wait[e]
    PROVE  /\ IteratorsValid'
           /\ (mapLock = Free => visit.todo = {})'
           /\ (mapLock \in Execs =>
                 /\ ~visit.everyone
                 /\ \A f \in visit.todo : wait[f].addr = visit.addr
                 /\ visit.total <= visit.count
                 /\ visit.total = Cardinality(Waiting(visit.mem, visit.addr)
                                                \ visit.todo))'
<1>1. Waiting(visit.mem, visit.addr)' = Waiting(visit.mem, visit.addr)
  BY DEF Waiting
<1> QED BY <1>1 DEF IndInv, IteratorsValid

\* Every action keeps the inductive invariant.
LEMMA IndStep == IndInv /\ [Next]_vars => IndInv'
<1> USE ConstantsOK, NoWaitType
<1> SUFFICES ASSUME IndInv, [Next]_vars PROVE IndInv'
  OBVIOUS
<1>t. TypeOK /\ TypeOK'
  BY TypeStep DEF IndInv
<1> USE DEF InWait, waitVars, lockVars, cancelVars
\* The conjuncts about the place of each execution and the holder of the lock.
<1> DEFINE Places == /\ \A e \in Execs : e \in WaiterMap <=> pc[e] \in InWait
                     /\ \A e \in Execs : result[e] # "none" => pc[e] = "done"
                     /\ \A e \in Execs : mapLock = e <=> pc[e] = "notifying"
                     /\ mapLock = Canceller <=> stopper = "notifying"
<1>p. Places
  BY SMTT(60) DEF IndInv
<1>k. ASSUME Places', UNCHANGED <<WaiterMap, mapLock, visit>>,
             \A e \in WaiterMap : wait'[e] = wait[e]
      PROVE  IndInv'
  BY <1>k, <1>t, CountKept, SMTT(60) DEF IndInv
<1>1. ASSUME NEW e \in Execs, Start(e) \/ Poll(e) PROVE IndInv'
  <2>1. Places'
    BY <1>1, <1>p, <1>t DEF Start, Poll, TakeToken, TypeOK
  <2> QED BY <1>1, <2>1, <1>k DEF Start, Poll
<1>2. ASSUME NEW e \in Execs, Finish(e) PROVE IndInv'
  <2>1. Places'
    BY <1>2, <1>p, <1>t DEF Finish, TypeOK
  <2> QED BY <1>2, <2>1, <1>k DEF Finish
<1>3. ASSUME NEW e \in Execs, WaitRegister(e) PROVE IndInv'
  <2>1. Places'
    BY <1>3, <1>p, <1>t DEF WaitRegister, TypeOK
  <2>2. visit.todo = {} /\ mapLock' = Free /\ visit' = visit
    BY <1>3, SMTT(60) DEF WaitRegister, IndInv
  <2> QED BY <2>1, <2>2, <1>t DEF IndInv, IteratorsValid
<1>4. ASSUME NEW e \in Execs, WaitBlock(e) PROVE IndInv'
  <2>1. Places'
    BY <1>4, <1>p, <1>t, SMTT(60) DEF WaitBlock, TypeOK
  <2> QED BY <1>4, <2>1, <1>k DEF WaitBlock
<1>5. ASSUME NEW e \in Execs, WaitCheckStop(e) PROVE IndInv'
  <2>1. Places'
    BY <1>5, <1>p, <1>t, SMTT(60) DEF WaitCheckStop, TypeOK
  <2> QED BY <1>5, <2>1, <1>k DEF WaitCheckStop
<1>6. ASSUME NEW e \in Execs, WaitCheckValue(e) PROVE IndInv'
  <2>1. Places'
    BY <1>6, <1>p, <1>t, SMTT(60) DEF WaitCheckValue, TypeOK
  <2> QED BY <1>6, <2>1, <1>k, SMTT(60) DEF WaitCheckValue
<1>7. ASSUME NEW e \in Execs, WaitLeave(e) PROVE IndInv'
  <2>1. Places'
    BY <1>7, <1>p, <1>t DEF WaitLeave, EndWait, TypeOK
  <2>2. visit.todo = {} /\ mapLock' = Free /\ visit' = visit
    BY <1>7 DEF WaitLeave, EndWait, IndInv
  <2> QED BY <2>1, <2>2, <1>t DEF IndInv, IteratorsValid
<1>8. ASSUME NEW e \in Execs, Expire(e) \/ SpuriousWake(e) PROVE IndInv'
  <2>1. Places'
    BY <1>8, <1>p, <1>t, SMTT(60) DEF Expire, SpuriousWake, Wake, TypeOK
  <2> QED BY <1>8, <2>1, <1>k DEF Expire, SpuriousWake, Wake
<1>9. ASSUME NEW e \in Execs, NEW w \in Waits, WaitLoad(e, w) PROVE IndInv'
  <2>1. Places'
    BY <1>9, <1>p, <1>t DEF WaitLoad, TypeOK
  <2>2. \A f \in WaiterMap : wait'[f] = wait[f]
    BY <1>9, <1>p, <1>t DEF WaitLoad, TypeOK
  <2> QED BY <1>9, <2>1, <2>2, <1>k, SMTT(60) DEF WaitLoad
<1>10. ASSUME NEW e \in Execs, NEW m \in Mems, NEW a \in Addrs, NEW v \in Vals,
              AtomicStore(e, m, a, v)
       PROVE IndInv'
  <2>1. Places'
    BY <1>10, <1>p, <1>t, SMTT(60) DEF AtomicStore, TypeOK
  <2> QED BY <1>10, <2>1, <1>k DEF AtomicStore
<1>11. ASSUME NEW e \in Execs, NEW m \in Mems, NEW a \in Addrs, NEW n \in Counts,
              NotifyBegin(e, m, a, n)
       PROVE IndInv'
  <2>1. Places'
    BY <1>11, <1>p, <1>t DEF NotifyBegin, TypeOK
  <2>2. /\ visit'.todo \subseteq WaiterMap /\ ~visit'.everyone
        /\ visit'.total = 0 /\ visit'.count \in Nat /\ WaiterMap' = WaiterMap
        /\ mapLock' = e
        /\ \A f \in visit'.todo : wait'[f].addr = visit'.addr
    BY <1>11 DEF NotifyBegin
  <2>3. Waiting(visit.mem, visit.addr)' \ visit'.todo = {}
    BY <1>11 DEF NotifyBegin, Waiting
  <2>4. visit'.total = Cardinality(Waiting(visit.mem, visit.addr)' \ visit'.todo)
    BY <2>2, <2>3, FS_EmptySet, ZenonT(60)
  <2>5. visit'.total <= visit'.count
    BY <2>2
  <2> QED BY <2>1, <2>2, <2>4, <2>5, <1>t, SMTT(60) DEF IndInv, IteratorsValid
<1>12. ASSUME NEW e \in Execs, StopStore(e) PROVE IndInv'
  <2>1. Places'
    BY <1>12, <1>p, <1>t DEF StopStore, TypeOK
  <2> QED BY <1>12, <2>1, <1>k DEF StopStore
<1>13. ASSUME NEW f \in Execs, Visit(f) PROVE IndInv'
  <2>1. Places'
    BY <1>13, <1>p, <1>t DEF Visit, Signal, TypeOK
  <2> DEFINE W == Waiting(visit.mem, visit.addr)
  <2>2. W' = W
    BY <1>13, SMTT(60) DEF Visit, Waiting
  <2>3. /\ visit'.todo = visit.todo \ {f} /\ f \in visit.todo
        /\ visit'.everyone = visit.everyone /\ visit'.count = visit.count
        /\ visit'.addr = visit.addr /\ visit'.mem = visit.mem
        /\ visit'.total = IF visit.everyone \/ wait[f].mem = visit.mem
                            THEN visit.total + 1 ELSE visit.total
        /\ visit.everyone \/ visit.total < visit.count
        /\ visit.total \in Nat /\ visit.count \in Nat
    <3> DEFINE t == IF visit.everyone \/ wait[f].mem = visit.mem
                      THEN visit.total + 1 ELSE visit.total
    <3>1. visit' = [visit EXCEPT !.todo = visit.todo \ {f}, !.total = t]
      BY <1>13, ZenonT(60) DEF Visit
    <3>2. visit \in Visits
      BY <1>t DEF TypeOK
    <3>3. f \in visit.todo /\ (visit.everyone \/ visit.total < visit.count)
      BY <1>13 DEF Visit, MoreToVisit
    <3>4. /\ visit'.todo = visit.todo \ {f} /\ visit'.total = t
          /\ visit'.everyone = visit.everyone /\ visit'.count = visit.count
          /\ visit'.addr = visit.addr /\ visit'.mem = visit.mem
      <4> HIDE DEF t
      <4> QED BY <3>1, <3>2 DEF Visits
    <3>5. visit.total \in Nat /\ visit.count \in Nat
      BY <3>2 DEF Visits
    <3> QED BY <3>3, <3>4, <3>5
  <2>4. IteratorsValid' /\ mapLock' = mapLock /\ mapLock' # Free
    BY <1>13, <2>3, SMTT(60) DEF Visit, IndInv, IteratorsValid
  <2>5. ASSUME mapLock \in Execs
        PROVE  /\ ~visit'.everyone
               /\ \A g \in visit'.todo : wait'[g].addr = visit'.addr
               /\ visit'.total <= visit'.count
               /\ visit'.total = Cardinality(W \ visit'.todo)
    <3>1. /\ ~visit.everyone /\ visit.total <= visit.count
          /\ visit.total = Cardinality(W \ visit.todo)
      BY <2>5, SMTT(60) DEF IndInv
    <3>2. W \subseteq Execs
      BY <1>t, SMTT(60) DEF TypeOK, Waiting
    <3>3. /\ f \in W => Cardinality(W \ (visit.todo \ {f}))
                          = Cardinality(W \ visit.todo) + 1
          /\ f \notin W => W \ (visit.todo \ {f}) = W \ visit.todo
      <4>1. f \in visit.todo /\ W \in SUBSET Execs
        BY <2>3, <3>2
      <4>2. visit.todo \in SUBSET Execs
        BY <1>t DEF TypeOK, Visits
      <4> HIDE DEF W
      <4>3. f \in W => Cardinality(W \ (visit.todo \ {f}))
                        = Cardinality(W \ visit.todo) + 1
        BY <4>1, <4>2, PassOne, SMTT(60)
      <4> QED BY <4>3, SMTT(60)
    <3>4. f \in W <=> wait[f].mem = visit.mem
      BY <2>3, <2>5 DEF IndInv, IteratorsValid, Waiting
    <3>5. \A g \in visit'.todo : wait'[g].addr = visit'.addr
      BY <1>13, <2>3, <2>5 DEF Visit, IndInv
    <3>6. ASSUME wait[f].mem = visit.mem
          PROVE  visit'.total = Cardinality(W \ visit'.todo)
      <4> HIDE DEF W
      <4>1. visit'.total = visit.total + 1
        BY <2>3, <3>6, SMTT(60)
      <4>2. Cardinality(W \ visit'.todo) = Cardinality(W \ visit.todo) + 1
        BY <2>3, <3>3, <3>4, <3>6, SMTT(60)
      <4> QED BY <4>1, <4>2, <3>1
    <3>7. ASSUME wait[f].mem # visit.mem
          PROVE  visit'.total = Cardinality(W \ visit'.todo)
      <4> HIDE DEF W
      <4>1. visit'.total = visit.total
        BY <2>3, <3>1, <3>7, SMTT(60)
      <4>2. W \ visit'.todo = W \ visit.todo
        BY <2>3, <3>3, <3>4, <3>7, SMTT(60)
      <4> QED BY <4>1, <4>2, <3>1, SMTT(60)
    <3>8. visit'.total <= visit'.count
      BY <2>3, <3>1, SMTT(60)
    <3> HIDE DEF W
    <3> QED BY <2>3, <3>1, <3>5, <3>6, <3>7, <3>8, SMTT(60)
  <2> QED BY <2>1, <2>2, <2>3, <2>4, <2>5, <1>t, ZenonT(60) DEF IndInv
<1>14. ASSUME NEW e \in Execs, NotifyEnd(e) PROVE IndInv'
  <2>1. Places'
    BY <1>14, <1>p, <1>t, SMTT(60) DEF NotifyEnd, TypeOK
  <2>2. visit'.todo = {} /\ mapLock' = Free
    BY <1>14, SMTT(60) DEF NotifyEnd, NoVisit
  <2> QED BY <2>1, <2>2, <1>t, SMTT(60) DEF IndInv, IteratorsValid
<1>15. ASSUME StopNotifyBegin PROVE IndInv'
  <2>1. Places'
    BY <1>15, <1>p, <1>t DEF StopNotifyBegin, TypeOK
  <2>2. visit'.todo = WaiterMap /\ mapLock' = Canceller /\ WaiterMap' = WaiterMap
    BY <1>15, SMTT(60) DEF StopNotifyBegin, NoVisit
  <2> QED BY <2>1, <2>2, <1>t DEF IndInv, IteratorsValid
<1>16. ASSUME StopNotifyEnd PROVE IndInv'
  <2>1. Places'
    BY <1>16, <1>p, <1>t, SMTT(60) DEF StopNotifyEnd, TypeOK
  <2>2. visit'.todo = {} /\ mapLock' = Free
    BY <1>16, SMTT(60) DEF StopNotifyEnd, NoVisit
  <2> QED BY <2>1, <2>2, <1>t, SMTT(60) DEF IndInv, IteratorsValid
<1>17. ASSUME UNCHANGED vars PROVE IndInv'
  BY <1>17, <1>p, <1>k, SMTT(60) DEF vars
<1> QED
  BY <1>1, <1>2, <1>3, <1>4, <1>5, <1>6, <1>7, <1>8, <1>9, <1>10, <1>11,
     <1>12, <1>13, <1>14, <1>15, <1>16, <1>17, SMTT(60) DEF Next, WaitStep, LockStep

\* The initial states satisfy the inductive invariant.
LEMMA IndInit == Init => IndInv
<1> SUFFICES ASSUME Init PROVE IndInv
  OBVIOUS
<1>1. TypeOK
  BY NoWaitType, ConstantsOK DEF Init, TypeOK
<1>2. visit.todo = {}
  BY DEF Init, NoVisit
<1> QED BY <1>1, <1>2, ConstantsOK DEF Init, IndInv, IteratorsValid, InWait

\* WaiterMap, its lock and the walks over it agree at every moment.
THEOREM IndInvHolds == Spec => []IndInv
BY IndInit, IndStep, PTL DEF Spec

\* A walk over WaiterMap never holds an iterator to an erased entry.
THEOREM IteratorsAreValid == Spec => []IteratorsValid
<1>1. IndInv => IteratorsValid
  BY DEF IndInv
<1> QED BY <1>1, IndInvHolds, PTL

\* No entry of WaiterMap outlives the wait that made it.
THEOREM NoWaiterIsLeftBehind == Spec => []NoWaiterLeftBehind
<1>1. IndInv => NoWaiterLeftBehind
  BY DEF IndInv, NoWaiterLeftBehind, InWait
<1> QED BY <1>1, IndInvHolds, PTL

\* memory.atomic.notify counts exactly the waiters of its memory and address.
THEOREM NotifyCountsExactly == Spec => []NotifyCountExact
<1>1. ASSUME IndInv PROVE NotifyCountExact
  <2> DEFINE W == Waiting(visit.mem, visit.addr)
  <2> SUFFICES ASSUME mapLock \in Execs, ~MoreToVisit
               PROVE  visit.total = IF Cardinality(W) < visit.count
                                      THEN Cardinality(W) ELSE visit.count
    BY DEF NotifyCountExact
  <2>1. /\ ~visit.everyone
        /\ visit.total <= visit.count
        /\ visit.total = Cardinality(W \ visit.todo)
        /\ visit.total \in Nat /\ visit.count \in Nat
    BY <1>1, SMTT(60) DEF IndInv, TypeOK, Visits
  <2>2. W \subseteq Execs
    BY <1>1 DEF IndInv, TypeOK, Waiting
  <2>3. Cardinality(W \ visit.todo) <= Cardinality(W) /\ Cardinality(W) \in Nat
    BY <2>2, ConstantsOK, FS_Subset, FS_CardinalityType
  <2>4. CASE visit.todo = {}
    <3>1. W \ visit.todo = W
      BY <2>4
    <3> HIDE DEF W
    <3> QED BY <3>1, <2>1, <2>3
  <2>5. CASE visit.total >= visit.count
    <3> HIDE DEF W
    <3> QED BY <2>5, <2>1, <2>3
  <2> QED BY <2>1, <2>4, <2>5 DEF MoreToVisit
<1> QED BY <1>1, IndInvHolds, PTL
=============================================================================
