----------------------------- MODULE AtomicWait -----------------------------
(***************************************************************************)
(* One Executor shared by several executions (Async threads, or callers of *)
(* invoke): the stop token that Async::cancel sets and every function      *)
(* entry, branch and return consumes; memory.atomic.wait and               *)
(* memory.atomic.notify over the executor's WaiterMap.                     *)
(*                                                                         *)
(* Steps are what the mutexes and atomics of the code make atomic: the     *)
(* comparison in atomicWait, the registration of the waiter and the        *)
(* blocking on its condition variable are three steps; a notification      *)
(* walks the map entry by entry while it holds WaiterMapMutex.  Cond is a  *)
(* condition variable: notify_all reaches the thread only if it is already *)
(* blocked, and a thread may also wake for no reason.                      *)
(***************************************************************************)
EXTENDS Integers, FiniteSets

CONSTANTS
    Execs,          \* executions, each one call of Executor::invoke
    Mems,           \* shared memory instances
    Addrs,          \* addresses, the keys of WaiterMap
    Vals,           \* values a cell may hold
    Counts,         \* counts passed to memory.atomic.notify
    Timeouts,       \* subset of {"finite", "none"}: Timeout >= 0 or < 0
    MaxNotifies,    \* bound on memory.atomic.notify instructions executed
    MaxCancels,     \* bound on calls of Async::cancel
    Canceller,      \* the embedder's thread that calls cancel
    Free            \* WaiterMapMutex is not held

ASSUME ConstantsOK ==
    /\ Vals # {} /\ Mems # {} /\ Addrs # {} /\ Execs # {}
    /\ IsFiniteSet(Execs)
    /\ Counts \subseteq Nat
    /\ Timeouts \subseteq {"finite", "none"} /\ Timeouts # {}
    /\ MaxNotifies \in Nat /\ MaxCancels \in Nat
    /\ Canceller \notin Execs
    /\ Free \notin Execs \cup {Canceller}

VARIABLES
    cell,           \* linear memory: cell[m][a]
    StopToken,      \* Executor::StopToken
    WaiterMap,      \* the executions that have an entry in WaiterMap
    mapLock,        \* holder of WaiterMapMutex
    pc,             \* where each execution is
    wait,           \* arguments of the wait an execution is in
    status,         \* the cv_status its last wake-up returned
    outcome,        \* what its wait is about to return
    visit,          \* the walk of the holder of WaiterMapMutex over the map
    result,         \* what invoke returned
    stopper,        \* where the embedder's thread is in Executor::stop
    cancelled,      \* executions whose Async was cancelled
    notifies,       \* notify instructions executed so far
    cancels         \* calls of cancel so far

vars == <<cell, StopToken, WaiterMap, mapLock, pc, wait, status, outcome,
          visit, result, stopper, cancelled, notifies, cancels>>

Waits == [mem : Mems, addr : Addrs, exp : Vals, timeout : Timeouts]
NoWait == CHOOSE w \in Waits : TRUE

\* The iteration of atomicNotify, or of atomicNotifyAll (everyone), over the
\* map: the entries still to visit, and the notifications sent so far.
Visits == [todo : SUBSET Execs, everyone : BOOLEAN, total : Nat, count : Nat,
           mem : Mems, addr : Addrs]
NoVisit == [todo |-> {}, everyone |-> TRUE, total |-> 0, count |-> 0,
            mem |-> NoWait.mem, addr |-> NoWait.addr]

\* An execution in one of these places has an entry in WaiterMap.
InWait == {"blocking", "blocked", "woken", "checked", "leaving"}

Init ==
    /\ cell \in [Mems -> [Addrs -> Vals]]
    /\ StopToken = 0
    /\ WaiterMap = {}
    /\ mapLock = Free
    /\ pc = [e \in Execs |-> "idle"]
    /\ wait = [e \in Execs |-> NoWait]
    /\ status = [e \in Execs |-> "no_timeout"]
    /\ outcome = [e \in Execs |-> "none"]
    /\ visit = NoVisit
    /\ result = [e \in Execs |-> "none"]
    /\ stopper = "idle"
    /\ cancelled = {}
    /\ notifies = 0
    /\ cancels = 0

-----------------------------------------------------------------------------
(* Executions *)

waitVars == <<WaiterMap, wait, status, outcome>>
lockVars == <<mapLock, visit>>
cancelVars == <<stopper, cancelled, cancels>>

\* StopToken.exchange(0): the token is taken, and the execution that finds it
\* set ends with Interrupted.
TakeToken(e, else) ==
    /\ StopToken' = 0
    /\ IF StopToken = 1
         THEN /\ pc' = [pc EXCEPT ![e] = "done"]
              /\ result' = [result EXCEPT ![e] = "Interrupted"]
         ELSE /\ pc' = [pc EXCEPT ![e] = else]
              /\ UNCHANGED result

\* The thread of the Async enters its function.
Start(e) ==
    /\ pc[e] = "idle"
    /\ TakeToken(e, "running")
    /\ UNCHANGED <<cell, waitVars, lockVars, cancelVars, notifies>>

\* A branch, a call or a return of the running guest that finds the token set
\* (when it is not set the exchange changes nothing).
Poll(e) ==
    /\ pc[e] = "running"
    /\ StopToken = 1
    /\ TakeToken(e, "running")
    /\ UNCHANGED <<cell, waitVars, lockVars, cancelVars, notifies>>

\* The function returns its values.
Finish(e) ==
    /\ pc[e] = "running"
    /\ pc' = [pc EXCEPT ![e] = "done"]
    /\ result' = [result EXCEPT ![e] = "ok"]
    /\ UNCHANGED <<cell, StopToken, waitVars, lockVars, cancelVars, notifies>>

\* An atomic store, or the write of an atomic read-modify-write instruction.
AtomicStore(e, m, a, v) ==
    /\ pc[e] = "running"
    /\ cell' = [cell EXCEPT ![m][a] = v]
    /\ UNCHANGED <<StopToken, pc, waitVars, lockVars, result, cancelVars,
                   notifies>>

-----------------------------------------------------------------------------
(* memory.atomic.wait *)

\* The first load of atomicWait.  A value that is not the expected one makes
\* it return 1 at once, which changes nothing here.
WaitLoad(e, w) ==
    /\ pc[e] = "running"
    /\ cell[w.mem][w.addr] = w.exp
    /\ pc' = [pc EXCEPT ![e] = "registering"]
    /\ wait' = [wait EXCEPT ![e] = w]
    /\ UNCHANGED <<cell, StopToken, WaiterMap, status, outcome, lockVars,
                   result, cancelVars, notifies>>

\* WaiterMap.emplace under WaiterMapMutex.
WaitRegister(e) ==
    /\ pc[e] = "registering"
    /\ mapLock = Free
    /\ WaiterMap' = WaiterMap \cup {e}
    /\ pc' = [pc EXCEPT ![e] = "blocking"]
    /\ UNCHANGED <<cell, StopToken, wait, status, outcome, lockVars, result,
                   cancelVars, notifies>>

\* Cond.wait or Cond.wait_until: from here on a notification reaches it.
WaitBlock(e) ==
    /\ pc[e] = "blocking"
    /\ pc' = [pc EXCEPT ![e] = "blocked"]
    /\ UNCHANGED <<cell, StopToken, waitVars, lockVars, result, cancelVars,
                   notifies>>

Wake(e, s) ==
    /\ pc[e] = "blocked"
    /\ pc' = [pc EXCEPT ![e] = "woken"]
    /\ status' = [status EXCEPT ![e] = s]
    /\ UNCHANGED <<cell, StopToken, WaiterMap, wait, outcome, lockVars, result,
                   cancelVars, notifies>>

\* wait_until returns because Until has passed.
Expire(e) == wait[e].timeout = "finite" /\ Wake(e, "timeout")

\* A condition variable may wake its thread for no reason.
SpuriousWake(e) == Wake(e, "no_timeout")

\* The load of StopToken after a wake-up; unlike every other poll it leaves
\* the token set.
WaitCheckStop(e) ==
    /\ pc[e] = "woken"
    /\ IF StopToken = 1
         THEN /\ outcome' = [outcome EXCEPT ![e] = "Interrupted"]
              /\ pc' = [pc EXCEPT ![e] = "leaving"]
         ELSE /\ pc' = [pc EXCEPT ![e] = "checked"]
              /\ UNCHANGED outcome
    /\ UNCHANGED <<cell, StopToken, WaiterMap, wait, status, lockVars, result,
                   cancelVars, notifies>>

\* A wait loop that looks at the value only.
WaitCheckValueOnly(e) ==
    LET changed == cell[wait[e].mem][wait[e].addr] # wait[e].exp
    IN  /\ pc[e] = "checked"
        /\ pc' = [pc EXCEPT ![e] = IF changed THEN "leaving" ELSE "blocking"]
        /\ outcome' = IF changed THEN [outcome EXCEPT ![e] = "ok"] ELSE outcome
        /\ UNCHANGED <<cell, StopToken, WaiterMap, wait, status, lockVars,
                       result, cancelVars, notifies>>

\* The second load: a changed value ends the wait with 0, a timeout with 2,
\* and otherwise the loop blocks again.
WaitCheckValue(e) ==
    LET changed == cell[wait[e].mem][wait[e].addr] # wait[e].exp
        expired == status[e] = "timeout"
    IN  /\ pc[e] = "checked"
        /\ pc' = [pc EXCEPT ![e] = IF changed \/ expired THEN "leaving"
                                                         ELSE "blocking"]
        /\ outcome' = IF changed \/ expired
                        THEN [outcome EXCEPT ![e] = IF changed THEN "ok"
                                                    ELSE "timed-out"]
                        ELSE outcome
        /\ UNCHANGED <<cell, StopToken, WaiterMap, wait, status, lockVars,
                       result, cancelVars, notifies>>

\* The wait returns to the guest, or makes invoke return Interrupted.
EndWait(e) ==
    /\ pc[e] = "leaving"
    /\ pc' = [pc EXCEPT ![e] = IF outcome[e] = "Interrupted" THEN "done"
                                                             ELSE "running"]
    /\ result' = IF outcome[e] = "Interrupted"
                   THEN [result EXCEPT ![e] = "Interrupted"] ELSE result
    /\ wait' = [wait EXCEPT ![e] = NoWait]
    /\ status' = [status EXCEPT ![e] = "no_timeout"]
    /\ outcome' = [outcome EXCEPT ![e] = "none"]
    /\ UNCHANGED <<cell, StopToken, lockVars, cancelVars, notifies>>

\* An erase that does not take WaiterMapMutex.
WaitLeaveUnlocked(e) == WaiterMap' = WaiterMap \ {e} /\ EndWait(e)

\* An erase that the error return skips.
WaitLeaveOnSuccess(e) ==
    /\ mapLock = Free
    /\ WaiterMap' = IF outcome[e] = "Interrupted" THEN WaiterMap
                                                  ELSE WaiterMap \ {e}
    /\ EndWait(e)

\* The scope guard erases the entry under WaiterMapMutex, on every way out.
WaitLeave(e) ==
    /\ mapLock = Free
    /\ WaiterMap' = WaiterMap \ {e}
    /\ EndWait(e)

-----------------------------------------------------------------------------
(* memory.atomic.notify and Executor::stop *)

\* The waiters of one cell.
Waiting(m, a) == {e \in WaiterMap : wait[e].mem = m /\ wait[e].addr = a}

\* atomicNotify takes the lock and starts at the entries of the address.
NotifyBegin(e, m, a, n) ==
    /\ pc[e] = "running"
    /\ notifies < MaxNotifies
    /\ mapLock = Free
    /\ mapLock' = e
    /\ pc' = [pc EXCEPT ![e] = "notifying"]
    /\ visit' = [todo |-> {f \in WaiterMap : wait[f].addr = a},
                 everyone |-> FALSE, total |-> 0, count |-> n,
                 mem |-> m, addr |-> a]
    /\ notifies' = notifies + 1
    /\ UNCHANGED <<cell, StopToken, waitVars, result, cancelVars>>

MoreToVisit == visit.todo # {} /\ (visit.everyone \/ visit.total < visit.count)

\* Cond.notify_all of one entry.
Signal(f) ==
    IF pc[f] = "blocked"
      THEN /\ pc' = [pc EXCEPT ![f] = "woken"]
           /\ status' = [status EXCEPT ![f] = "no_timeout"]
      ELSE UNCHANGED <<pc, status>>

\* One round of the loop, which counts entries of any memory instance.
VisitAnyMemory(f) ==
    /\ mapLock # Free
    /\ MoreToVisit
    /\ f \in visit.todo
    /\ visit' = [visit EXCEPT !.todo = @ \ {f}, !.total = @ + 1]
    /\ Signal(f)
    /\ UNCHANGED <<cell, StopToken, WaiterMap, wait, outcome, mapLock, result,
                   cancelVars, notifies>>

\* One round of the loop of atomicNotify or atomicNotifyAll.  The order of
\* the entries of an address in the multimap is not fixed.
Visit(f) ==
    LET counts == visit.everyone \/ wait[f].mem = visit.mem
    IN  /\ mapLock # Free
        /\ MoreToVisit
        /\ f \in visit.todo
        /\ visit' = [visit EXCEPT !.todo = @ \ {f},
                                  !.total = IF counts THEN @ + 1 ELSE @]
        /\ IF counts THEN Signal(f) ELSE UNCHANGED <<pc, status>>
        /\ UNCHANGED <<cell, StopToken, WaiterMap, wait, outcome, mapLock,
                       result, cancelVars, notifies>>

\* The loop ends and the lock is released.
NotifyEnd(e) ==
    /\ mapLock = e
    /\ ~MoreToVisit
    /\ mapLock' = Free
    /\ visit' = NoVisit
    /\ pc' = [pc EXCEPT ![e] = "running"]
    /\ UNCHANGED <<cell, StopToken, waitVars, result, cancelVars, notifies>>

\* Async::cancel of e calls Executor::stop, which first sets the token...
StopStore(e) ==
    /\ stopper = "idle"
    /\ cancels < MaxCancels
    /\ stopper' = "stored"
    /\ StopToken' = 1
    /\ cancelled' = cancelled \cup {e}
    /\ cancels' = cancels + 1
    /\ UNCHANGED <<cell, waitVars, lockVars, pc, result, notifies>>

\* ... and then walks the whole map in atomicNotifyAll.
StopNotifyBegin ==
    /\ stopper = "stored"
    /\ mapLock = Free
    /\ stopper' = "notifying"
    /\ mapLock' = Canceller
    /\ visit' = [NoVisit EXCEPT !.todo = WaiterMap]
    /\ UNCHANGED <<cell, StopToken, waitVars, pc, result, cancelled, cancels,
                   notifies>>

StopNotifyEnd ==
    /\ mapLock = Canceller
    /\ ~MoreToVisit
    /\ mapLock' = Free
    /\ visit' = NoVisit
    /\ stopper' = "idle"
    /\ UNCHANGED <<cell, StopToken, waitVars, pc, result, cancelled, cancels,
                   notifies>>

-----------------------------------------------------------------------------
WaitStep(e) ==
    WaitRegister(e) \/ WaitBlock(e) \/ WaitCheckStop(e) \/ WaitCheckValue(e)
      \/ WaitLeave(e)

LockStep ==
    \/ \E f \in Execs : Visit(f)
    \/ \E e \in Execs : NotifyEnd(e)
    \/ StopNotifyBegin
    \/ StopNotifyEnd

Next ==
    \/ \E e \in Execs :
         \/ Start(e) \/ Poll(e) \/ Finish(e)
         \/ WaitStep(e) \/ Expire(e) \/ SpuriousWake(e)
         \/ \E w \in Waits : WaitLoad(e, w)
         \/ \E m \in Mems, a \in Addrs :
              \/ \E v \in Vals : AtomicStore(e, m, a, v)
              \/ \E n \in Counts : NotifyBegin(e, m, a, n)
         \/ StopStore(e)
    \/ LockStep

Spec == Init /\ [][Next]_vars

\* Threads run; a deadline is fixed before the loop of atomicWait, so that a
\* thread that blocks on it again and again is woken by it; a guest that keeps
\* running reaches a branch, a call or a return again and again.  Nothing makes a guest finish,
\* store, notify or wait, and no spurious wake-up is promised.
Fairness ==
    /\ \A e \in Execs : /\ WF_vars(Start(e))
                        /\ SF_vars(Poll(e))
                        /\ WF_vars(WaitStep(e))
                        /\ SF_vars(Expire(e))
    /\ WF_vars(LockStep)

FairSpec == Spec /\ Fairness

-----------------------------------------------------------------------------
(* Properties *)

TypeOK ==
    /\ cell \in [Mems -> [Addrs -> Vals]]
    /\ StopToken \in {0, 1}
    /\ WaiterMap \subseteq Execs
    /\ mapLock \in Execs \cup {Canceller, Free}
    /\ pc \in [Execs -> {"idle", "running", "registering", "notifying", "done"}
                        \cup InWait]
    /\ wait \in [Execs -> Waits]
    /\ status \in [Execs -> {"no_timeout", "timeout"}]
    /\ outcome \in [Execs -> {"none", "ok", "timed-out", "Interrupted"}]
    /\ visit \in Visits
    /\ result \in [Execs -> {"none", "ok", "Interrupted"}]
    /\ stopper \in {"idle", "stored", "notifying"}
    /\ cancelled \subseteq Execs
    /\ notifies \in 0..MaxNotifies
    /\ cancels \in 0..MaxCancels

\* A thread that walks WaiterMap, in atomicNotify or atomicNotifyAll, never
\* holds an iterator to an entry that its waiter has erased.
IteratorsValid == visit.todo \subseteq WaiterMap

\* An entry of WaiterMap belongs to a wait that has not returned, whichever
\* way waits end (value changed, deadline passed, interrupted): when invoke
\* has returned, no Waiter of that execution is left behind.
NoWaiterLeftBehind ==
    \A e \in Execs : e \in WaiterMap => pc[e] \in InWait /\ result[e] = "none"

\* memory.atomic.notify returns the number of waiters of its own memory and
\* address that were in the map, cut off at its count: waiters at the same
\* address of another memory instance neither use up the count nor add to it.
NotifyCountExact ==
    mapLock \in Execs /\ ~MoreToVisit =>
        LET n == Cardinality(Waiting(visit.mem, visit.addr))
        IN  visit.total = IF n < visit.count THEN n ELSE visit.count

\* The inductive invariant behind the three invariants above: an execution has
\* an entry exactly while it is between registering and leaving, the holder of
\* WaiterMapMutex is the thread that walks the map, and what a notify has
\* counted is the number of its waiters that it has passed.
IndInv ==
    /\ TypeOK
    /\ \A e \in Execs : e \in WaiterMap <=> pc[e] \in InWait
    /\ \A e \in Execs : result[e] # "none" => pc[e] = "done"
    /\ \A e \in Execs : mapLock = e <=> pc[e] = "notifying"
    /\ mapLock = Canceller <=> stopper = "notifying"
    /\ mapLock = Free => visit.todo = {}
    /\ IteratorsValid
    /\ mapLock \in Execs =>
         /\ ~visit.everyone
         /\ \A f \in visit.todo : wait[f].addr = visit.addr
         /\ visit.total <= visit.count
         /\ visit.total = Cardinality(Waiting(visit.mem, visit.addr) \ visit.todo)

\* A wait with a deadline ends, whatever the other executions store or notify
\* and however often the thread wakes for nothing.
TimedWaitEnds ==
    \A e \in Execs :
        (pc[e] \in InWait /\ wait[e].timeout = "finite") ~> (pc[e] \notin InWait)

\* Cancelling an execution ends it, when no wait of it is without deadline and
\* it is the executor's only execution.
CancelEnds == \A e \in Execs : (e \in cancelled) ~> (pc[e] = "done")
=============================================================================
