-------- MODULE Tier2Proofs -------------------------------------------------
(* Proofs about Tier2Manager for any number of threads, functions and     *)
(* loops, any call graph, batch size and thresholds: its safety, and that *)
(* it implements TierUp.                                                  *)
EXTENDS Tier2Refinement, TLAPS

USE BatchAssumption, ManagerAssumption

(* bfsDownBatchLocked: a batch grown from a seed contains the seed, adds   *)
(* only members of the offered set and stays within the cap.               *)
LEMMA FillUpToProps ==
  ASSUME NEW batch, NEW more, NEW b \in FillUpTo(batch, more)
  PROVE  /\ batch \subseteq b
         /\ b \subseteq batch \cup more
         /\ Cardinality(b) <= MaxBatchSize
<1>1. PICK p \in SUBSET (more \ batch) :
        /\ b = batch \cup p
        /\ \/ Cardinality(batch \cup p) <= MaxBatchSize
           \/ Cardinality(batch \cup p) = MaxBatchSize
  BY Zenon DEF FillUpTo
<1> QED
  BY <1>1

(* bfsDownBatchLocked, for a root and a hot function that both pass        *)
(* TryAdd: they are in the batch, every member is promotable and passes    *)
(* the Seen_ filter, and MaxBatchSize_ is respected.                       *)
LEMMA BatchProps ==
  ASSUME NEW skip, NEW counter,
         NEW root \in Promotable \ skip, NEW hot \in Promotable \ skip,
         NEW b \in BfsDownBatches(root, hot, skip, counter)
  PROVE  /\ root \in b /\ hot \in b
         /\ b \subseteq Promotable \ skip
         /\ Cardinality(b) <= MaxBatchSize
<1> DEFINE seed == {root, hot} \cap Addable(skip)
           rootMore == IF root \in seed
                       THEN WarmCallees(root, skip, counter) ELSE {}
           hotMore  == IF hot \in seed
                       THEN WarmCallees(hot, skip, counter) ELSE {}
<1>1. root \in seed /\ hot \in seed /\ seed \subseteq Addable(skip)
  BY Zenon DEF Addable
<1>2. rootMore \subseteq Addable(skip) /\ hotMore \subseteq Addable(skip)
  BY Zenon DEF WarmCallees
<1> HIDE DEF seed, rootMore, hotMore
<1>3. PICK b1 \in FillUpTo(seed, rootMore) : b \in FillUpTo(b1, hotMore)
  BY Zenon DEF BfsDownBatches, seed, rootMore, hotMore
<1>4. seed \subseteq b1 /\ b1 \subseteq seed \cup rootMore
  BY <1>3, FillUpToProps, Zenon
<1>5. b1 \subseteq b /\ b \subseteq b1 \cup hotMore /\ Cardinality(b) <= MaxBatchSize
  BY <1>3, FillUpToProps
<1> QED
  BY <1>1, <1>2, <1>4, <1>5, Zenon DEF Addable

(* What push and pop do to a queue. *)
LEMMA PopProps ==
  ASSUME NEW S, NEW q \in Seq(S), q # << >>
  PROVE  /\ Head(q) \in S /\ Tail(q) \in Seq(S)
         /\ 1 \in DOMAIN q /\ Head(q) = q[1]
         /\ \A i \in DOMAIN Tail(q) :
              i + 1 \in DOMAIN q /\ i + 1 # 1 /\ Tail(q)[i] = q[i + 1]
         /\ \A i, j \in DOMAIN Tail(q) : i # j => i + 1 # j + 1
<1>1. Len(q) \in Nat /\ Len(q) # 0 /\ DOMAIN q = 1 .. Len(q)
  OBVIOUS
<1>2. Head(q) \in S /\ Tail(q) \in Seq(S) /\ Len(Tail(q)) = Len(q) - 1
  BY <1>1
<1>3. DOMAIN Tail(q) = 1 .. Len(q) - 1
  BY <1>1, <1>2
<1>4. \A i \in DOMAIN Tail(q) :
        i + 1 \in DOMAIN q /\ i + 1 # 1 /\ Tail(q)[i] = q[i + 1]
  BY <1>1, <1>3
<1>5. 1 \in DOMAIN q /\ Head(q) = q[1]
  BY <1>1
<1>6. \A i, j \in DOMAIN Tail(q) : i # j => i + 1 # j + 1
  BY <1>1, <1>3
<1> QED
  BY <1>2, <1>4, <1>5, <1>6, Zenon

(* queue::push keeps the old elements in place and adds one at the end. *)
LEMMA PushProps ==
  ASSUME NEW S, NEW q \in Seq(S), NEW e \in S
  PROVE  /\ Append(q, e) \in Seq(S)
         /\ \A i \in DOMAIN q : i \in DOMAIN Append(q, e) /\ Append(q, e)[i] = q[i]
         /\ Len(q) + 1 \in DOMAIN Append(q, e) /\ Append(q, e)[Len(q) + 1] = e
         /\ \A i \in DOMAIN Append(q, e) : i \in DOMAIN q \/ i = Len(q) + 1
  BY SMTT(60)

(* walkUpRootLocked: the root passes TryAdd whenever the hot function does. *)
LEMMA WalkUpProps ==
  ASSUME NEW seen, NEW counter, NEW hot \in Promotable \ seen,
         NEW root \in WalkUpRoots(hot, seen, counter)
  PROVE  root \in Promotable \ seen
<1>1. CASE EligibleCallers(hot, seen, counter) = {}
  BY <1>1, Zenon DEF WalkUpRoots
<1>2. CASE EligibleCallers(hot, seen, counter) # {}
  <2>1. root \in EligibleCallers(hot, seen, counter)
    BY <1>2, Zenon DEF WalkUpRoots
  <2> QED
    BY <2>1, Zenon DEF EligibleCallers
<1> QED
  BY <1>1, <1>2, Zenon

-----------------------------------------------------------------------------
(* The inductive invariant holds initially. *)
LEMMA IndInit == Init => IndInv
<1> SUFFICES ASSUME Init PROVE IndInv
  BY Zenon
<1> USE DEF Init
<1>0. 0 \in 0 .. Saturated - 2 /\ 0 \in 0 .. Saturated
  OBVIOUS
<1>1. TypeOK
  <2>1. /\ CallCounters \in [Funcs -> 0 .. Saturated]
        /\ BackEdgeCounters \in [Loops -> 0 .. Saturated]
        /\ reg \in [Threads -> 0 .. Saturated - 2]
    BY <1>0, Zenon
  <2>2. /\ OsrEntryTable \in [Loops -> {"COUNTING", "WAITING", "READY"}]
        /\ FuncTable \in [Funcs -> {"tier1", "tier2"}]
        /\ pc \in [Threads -> ThreadLabels]
        /\ at \in [Threads -> Sites \cup {NoSite}]
    BY Zenon DEF ThreadLabels
  <2>3. Queue_ \in Seq(Request) /\ OsrQueue_ \in Seq(Request)
    OBVIOUS
  <2> QED
    BY <2>1, <2>2, <2>3, Zenon DEF TypeOK, Taken
<1>2. SiteInv
  BY Zenon DEF SiteInv
<1>3. HeldInv
  BY Zenon DEF HeldInv, NoRequest, IsOsr
<1>4. ReservedInv
  BY DEF ReservedInv, NoRequest, IsOsr
<1>5. CompiledOnce /\ OsrRequestedOnce
  BY DEF CompiledOnce, OsrRequestedOnce
<1> QED
  BY <1>1, <1>2, <1>3, <1>4, <1>5, Zenon DEF IndInv

(* Steps of tier-1 code touch counters, slots and registers only, and      *)
(* never publish an entry.                                                 *)
LocalStep(t) ==
  \/ \E f \in Funcs : PrologueLoad(t, f)
  \/ \E p \in Loops : BackEdgeSlot(t, p)
  \/ PrologueStore(t) \/ TierUpNotify(t)
  \/ BackEdgeLoad(t) \/ BackEdgeStore(t)
  \/ OsrNotifySaturate(t) \/ OsrNotifyClearSlot(t)

(* Instrumented code touches neither the queues, the worker nor FuncTable. *)
LEMMA LocalFrame ==
  ASSUME IndInv, NEW t \in Threads, LocalStep(t)
  PROVE  /\ UNCHANGED <<FuncTable, seenVars, queueVars, workerVars, closeVars>>
         /\ \A p \in Loops : OsrEntryTable'[p] = "READY" => OsrEntryTable[p] = "READY"
<1> USE DEF IndInv, TypeOK
<1>1. CASE \E f \in Funcs : PrologueLoad(t, f)
  BY <1>1, Zenon DEF PrologueLoad
<1>2. CASE \E p \in Loops : BackEdgeSlot(t, p)
  BY <1>2, Zenon DEF BackEdgeSlot
<1>3. CASE PrologueStore(t)
  BY <1>3, Zenon DEF PrologueStore
<1>4. CASE TierUpNotify(t)
  BY <1>4, Zenon DEF TierUpNotify
<1>5. CASE BackEdgeLoad(t)
  BY <1>5, Zenon DEF BackEdgeLoad
<1>6. CASE BackEdgeStore(t)
  BY <1>6, Zenon DEF BackEdgeStore
<1>7. CASE OsrNotifySaturate(t)
  BY <1>7, Zenon DEF OsrNotifySaturate
<1>8. CASE OsrNotifyClearSlot(t)
  BY <1>8, Zenon DEF OsrNotifyClearSlot
<1> QED
  BY <1>1, <1>2, <1>3, <1>4, <1>5, <1>6, <1>7, <1>8, Zenon DEF LocalStep

(* A thread's own program counter, site and register stay in their types. *)
LEMMA GotoType ==
  ASSUME TypeOK, SiteInv, NEW t \in Threads,
         NEW label \in ThreadLabels, NEW site \in Sites \cup {NoSite},
         NEW value \in 0 .. Saturated - 2,
         label \in {"storeCall", "tierUpNotify"} => site \in Funcs \X {NoLoop},
         label \in {"loadBackEdge", "storeBackEdge", "osrNotify", "osrClearSlot"}
           => site \in Loops,
         label \in {"enqueue", "notify"} => site \in Sites,
         Goto(t, label, site, value)
  PROVE  /\ pc' \in [Threads -> ThreadLabels]
         /\ at' \in [Threads -> Sites \cup {NoSite}]
         /\ reg' \in [Threads -> 0 .. Saturated - 2]
         /\ SiteInv'
<1>1. /\ pc' \in [Threads -> ThreadLabels]
      /\ at' \in [Threads -> Sites \cup {NoSite}]
      /\ reg' \in [Threads -> 0 .. Saturated - 2]
  BY Zenon DEF TypeOK, Goto
<1>2. SiteInv'
  BY DEF SiteInv, Goto, TypeOK
<1> QED
  BY <1>1, <1>2, Zenon

(* Each instrumented word access keeps the types and the sites. *)
LEMMA LocalType ==
  ASSUME IndInv, NEW t \in Threads, LocalStep(t)
  PROVE  TypeOK' /\ SiteInv'
<1> USE DEF IndInv
<1> DEFINE Mine == /\ pc' \in [Threads -> ThreadLabels]
                   /\ at' \in [Threads -> Sites \cup {NoSite}]
                   /\ reg' \in [Threads -> 0 .. Saturated - 2]
                   /\ SiteInv'
           Shared == /\ CallCounters' \in [Funcs -> 0 .. Saturated]
                     /\ BackEdgeCounters' \in [Loops -> 0 .. Saturated]
                     /\ OsrEntryTable' \in [Loops -> {"COUNTING", "WAITING", "READY"}]
<1>0. 0 \in 0 .. Saturated - 2 /\ "run" \in ThreadLabels
  BY DEF ThreadLabels
<1>1. ASSUME \E f \in Funcs : PrologueLoad(t, f) PROVE Mine /\ Shared
  <2>1. PICK f \in Funcs : PrologueLoad(t, f)
    BY <1>1, Zenon
  <2>2. Shared
    BY <2>1, Zenon DEF PrologueLoad, TypeOK, tier1Vars
  <2>3. CallCounters[f] \in 0 .. Saturated - 2
    <3>1. CallCounters[f] \in 0 .. Saturated /\ CallCounters[f] < TierUpThreshold
      BY <2>1, Zenon DEF PrologueLoad, TypeOK
    <3> QED
      BY <3>1
  <2>4. <<f, NoLoop>> \in Sites
    BY Zenon DEF Sites
  <2>5. Mine
    BY <2>1, <2>3, <2>4, GotoType, Zenon DEF PrologueLoad, ThreadLabels
  <2> QED
    BY <2>2, <2>5, Zenon
<1>2. ASSUME \E p \in Loops : BackEdgeSlot(t, p) PROVE Mine /\ Shared
  <2>1. PICK p \in Loops : BackEdgeSlot(t, p)
    BY <1>2, Zenon
  <2>2. Shared
    BY <2>1, Zenon DEF BackEdgeSlot, TypeOK, tier1Vars
  <2>3. Mine
    BY <2>1, <1>0, GotoType, Zenon DEF BackEdgeSlot, ThreadLabels, Sites
  <2> QED
    BY <2>2, <2>3, Zenon
<1>3. ASSUME PrologueStore(t) PROVE Mine /\ Shared
  <2>1. at[t] \in Funcs \X {NoLoop} /\ at[t] \in Sites
    BY <1>3, Zenon DEF PrologueStore, SiteInv, Sites
  <2>a. reg[t] + 1 \in 0 .. Saturated
    BY SMTT(60) DEF TypeOK
  <2>2. Shared
    BY <1>3, <2>1, <2>a, Zenon DEF PrologueStore, TypeOK
  <2>3. Mine
    BY <1>3, <2>1, <1>0, GotoType, ZenonT(30) DEF PrologueStore, Resume, ThreadLabels
  <2> QED
    BY <2>2, <2>3, Zenon
<1>4. ASSUME TierUpNotify(t) PROVE Mine /\ Shared
  <2>1. at[t] \in Funcs \X {NoLoop} /\ at[t] \in Sites
    BY <1>4, Zenon DEF TierUpNotify, SiteInv, Sites
  <2>a. at[t][1] \in Funcs /\ Saturated \in 0 .. Saturated
    BY <2>1
  <2>2. Shared
    BY <1>4, <2>a, Zenon DEF TierUpNotify, TypeOK
  <2>3. Mine
    BY <1>4, <2>1, <1>0, GotoType, ZenonT(30) DEF TierUpNotify, ThreadLabels
  <2> QED
    BY <2>2, <2>3, Zenon
<1>5. ASSUME BackEdgeLoad(t) PROVE Mine /\ Shared
  <2>1. at[t] \in Loops /\ at[t] \in Sites
    BY <1>5, Zenon DEF BackEdgeLoad, SiteInv, Sites
  <2>2. Shared
    BY <1>5, Zenon DEF BackEdgeLoad, TypeOK, tier1Vars
  <2>3. BackEdgeCounters[at[t]] < OsrThreshold
          => BackEdgeCounters[at[t]] \in 0 .. Saturated - 2
    BY <2>1 DEF TypeOK
  <2>4. Mine
    BY <1>5, <2>1, <2>3, <1>0, GotoType, Zenon DEF BackEdgeLoad, Resume, ThreadLabels
  <2> QED
    BY <2>2, <2>4, Zenon
<1>6. ASSUME BackEdgeStore(t) PROVE Mine /\ Shared
  <2>1. at[t] \in Loops /\ at[t] \in Sites
    BY <1>6, Zenon DEF BackEdgeStore, SiteInv, Sites
  <2>a. reg[t] + 1 \in 0 .. Saturated
    BY DEF TypeOK
  <2>2. Shared
    BY <1>6, <2>1, <2>a, Zenon DEF BackEdgeStore, TypeOK
  <2>3. Mine
    BY <1>6, <2>1, <1>0, GotoType, Zenon DEF BackEdgeStore, Resume, ThreadLabels
  <2> QED
    BY <2>2, <2>3, Zenon
<1>7. ASSUME OsrNotifySaturate(t) PROVE Mine /\ Shared
  <2>1. at[t] \in Loops /\ at[t] \in Sites
    BY <1>7, Zenon DEF OsrNotifySaturate, SiteInv, Sites
  <2>2. Shared
    BY <1>7, <2>1, Saturated \in 0 .. Saturated, SMTT(60) DEF OsrNotifySaturate, TypeOK
  <2>3. Mine
    BY <1>7, <2>1, <1>0, GotoType DEF OsrNotifySaturate, ThreadLabels
  <2> QED
    BY <2>2, <2>3, Zenon
<1>8. ASSUME OsrNotifyClearSlot(t) PROVE Mine /\ Shared
  <2>1. at[t] \in Loops /\ at[t] \in Sites
    BY <1>8, Zenon DEF OsrNotifyClearSlot, SiteInv, Sites
  <2>2. Shared
    BY <1>8, <2>1, Zenon DEF OsrNotifyClearSlot, TypeOK, tier1Vars
  <2>3. Mine
    BY <1>8, <2>1, <1>0, GotoType, Zenon DEF OsrNotifyClearSlot, ThreadLabels
  <2> QED
    BY <2>2, <2>3, Zenon
<1>9. Mine /\ Shared
  BY <1>1, <1>2, <1>3, <1>4, <1>5, <1>6, <1>7, <1>8, Zenon DEF LocalStep
<1>10. UNCHANGED <<FuncTable, seenVars, queueVars, workerVars, closeVars>>
  BY LocalFrame, Zenon
<1> QED
  BY <1>9, <1>10, Zenon DEF TypeOK, seenVars, queueVars, workerVars, closeVars

(* Instrumented code keeps the inductive invariant. *)
LEMMA LocalInd ==
  ASSUME IndInv, NEW t \in Threads, LocalStep(t)
  PROVE  IndInv'
<1>1. TypeOK' /\ SiteInv'
  BY LocalType, Zenon
<1>2. /\ UNCHANGED <<FuncTable, seenVars, queueVars, workerVars, closeVars>>
      /\ \A p \in Loops : OsrEntryTable'[p] = "READY" => OsrEntryTable[p] = "READY"
  BY LocalFrame, Zenon
<1> USE DEF IndInv, seenVars, queueVars, workerVars, closeVars
<1>3. HeldInv' /\ CompiledOnce'
  BY <1>2 DEF HeldInv, CompiledOnce, IsOsr, LoopOf
<1>4. ReservedInv'
  BY <1>2, Zenon DEF ReservedInv, IsOsr, LoopOf
<1>5. OsrRequestedOnce'
  <2>1. \A i \in DOMAIN OsrQueue_ : LoopOf(OsrQueue_[i]) \in Loops
    BY Zenon DEF ReservedInv, TypeOK
  <2> QED
    BY <1>2, <2>1 DEF OsrRequestedOnce, IsOsr, LoopOf
<1> QED
  BY <1>1, <1>3, <1>4, <1>5, Zenon

(* Steps that only move the program counters of a thread, the worker or    *)
(* the closing thread.                                                     *)
LEMMA PcInd ==
  ASSUME IndInv,
         UNCHANGED <<tier1Vars, OsrEntryTable, FuncTable, seenVars, queueVars,
                     req, thunks, storing, CompileCount>>,
         TypeOK', SiteInv',
         \/ wpc' = wpc
         \/ wpc' \in {"wait", "asleep"} /\ wpc \in {"wait", "asleep"}
         \/ wpc' = "compile" /\ wpc = "picked"
  PROVE  IndInv'
<1> USE DEF IndInv, seenVars, queueVars, tier1Vars
<1>1. HeldInv'
  BY Zenon DEF HeldInv, IsOsr, LoopOf
<1>2. ReservedInv'
  BY Zenon DEF ReservedInv, IsOsr, LoopOf
<1>3. CompiledOnce' /\ OsrRequestedOnce'
  BY DEF CompiledOnce, OsrRequestedOnce, IsOsr, LoopOf
<1> QED
  BY <1>1, <1>2, <1>3, Zenon

(* CV_.notify_one at the end of enqueue keeps the inductive invariant. *)
LEMMA NotifyInd ==
  ASSUME IndInv, NEW t \in Threads, EnqueueNotify(t)
  PROVE  IndInv'
<1>1. /\ pc' \in [Threads -> ThreadLabels]
      /\ at' \in [Threads -> Sites \cup {NoSite}]
      /\ reg' \in [Threads -> 0 .. Saturated - 2]
      /\ SiteInv'
  BY GotoType, 0 \in 0 .. Saturated - 2, Zenon DEF IndInv, EnqueueNotify, Resume, ThreadLabels
<1>2. TypeOK'
  BY <1>1, Zenon DEF IndInv, TypeOK, EnqueueNotify, WakeWorker, Taken, tier1Vars,
              seenVars, queueVars, closeVars
<1> QED
  BY <1>1, <1>2, PcInd, Zenon DEF EnqueueNotify, WakeWorker

(* So do the worker steps that only move its program counter. *)
LEMMA WorkerPcInd ==
  ASSUME IndInv, WorkerSleep \/ WorkerSpuriousWake \/ WorkerStart
  PROVE  IndInv'
<1> USE DEF WorkerSleep, WorkerSpuriousWake, WorkerStart, tier1Vars, seenVars,
            queueVars, threadVars, closeVars
<1>1. TypeOK'
  BY DEF IndInv, TypeOK, Taken
<1>2. SiteInv'
  BY DEF IndInv, SiteInv
<1> QED
  BY <1>1, <1>2, PcInd, Zenon

(* So do shutdown and the destructor. *)
LEMMA CloserInd ==
  ASSUME IndInv, Shutdown \/ ShutdownNotify \/ Join
  PROVE  IndInv'
<1> USE DEF Shutdown, ShutdownNotify, Join, WakeWorker, tier1Vars, seenVars,
            queueVars, threadVars, workerVars
<1>1. TypeOK'
  BY ZenonT(60) DEF IndInv, TypeOK, Taken
<1>2. SiteInv'
  BY Zenon DEF IndInv, SiteInv
<1> QED
  BY <1>1, <1>2, PcInd, Zenon

(* The request the worker holds is given up: nothing new is published. *)
LEMMA GiveUpInd ==
  ASSUME IndInv,
         \/ WorkerExit \/ WorkerDrop
         \/ WorkerCompile /\ req' = NoRequest /\ wpc' = "wait" /\ UNCHANGED thunks
  PROVE  IndInv'
<1> USE DEF IndInv, WorkerExit, WorkerDrop, WorkerCompile, tier1Vars, seenVars,
            queueVars, threadVars, closeVars
<1>0. req' = NoRequest /\ thunks' = {} /\ storing' = {}
  BY Zenon DEF HeldInv
<1>1. TypeOK'
  BY <1>0, Zenon DEF TypeOK, Taken
<1>2. SiteInv'
  BY Zenon DEF SiteInv
<1>3. HeldInv'
  BY <1>0 DEF HeldInv, IsOsr, NoRequest
<1>4. ReservedInv'
  BY <1>0, Zenon DEF ReservedInv, IsOsr, LoopOf, NoRequest
<1>5. CompiledOnce' /\ OsrRequestedOnce'
  BY <1>0 DEF CompiledOnce, OsrRequestedOnce, IsOsr, LoopOf, NoRequest
<1> QED
  BY <1>1, <1>2, <1>3, <1>4, <1>5, Zenon

(* compileRequest hands over a part of the batch, or nothing. *)
LEMMA CompileInd ==
  ASSUME IndInv, WorkerCompile
  PROVE  IndInv'
<1> USE DEF IndInv, tier1Vars, seenVars, queueVars, threadVars, closeVars
<1>1. PICK result \in CompileResults(req) :
        IF result = {}
        THEN wpc' = "wait" /\ req' = NoRequest /\ UNCHANGED thunks
        ELSE wpc' = "install" /\ thunks' = result /\ UNCHANGED req
  BY Zenon DEF WorkerCompile
<1>2. CASE result = {}
  BY <1>1, <1>2, GiveUpInd, Zenon
<1>3. CASE result # {}
  <2> USE DEF WorkerCompile
  <2>1. req \in Request /\ req' = req /\ thunks' = result /\ wpc' = "install"
    BY <1>1, <1>3, Zenon DEF TypeOK, Taken
  <2>2. result \subseteq (IF IsOsr(req) THEN {req.root} ELSE req.batch)
    BY Zenon DEF CompileResults
  <2>3. storing' = {}
    BY Zenon DEF HeldInv
  <2>4. TypeOK'
    BY <2>1, <2>2, <2>3, Zenon DEF TypeOK, Taken, Request
  <2>5. SiteInv'
    BY Zenon DEF SiteInv
  <2>6. HeldInv'
    <3>1. \A f \in result : ~IsOsr(req) => FuncTable[f] = "tier1"
      BY <2>2, Zenon DEF HeldInv, CompiledOnce
    <3> QED
      BY <2>1, <2>2, <2>3, <3>1, Zenon DEF HeldInv, IsOsr, LoopOf
  <2>7. ReservedInv'
    BY <2>1, Zenon DEF ReservedInv, IsOsr, LoopOf
  <2>8. CompiledOnce' /\ OsrRequestedOnce'
    BY <2>1 DEF CompiledOnce, OsrRequestedOnce, IsOsr, LoopOf
  <2> QED
    BY <2>4, <2>5, <2>6, <2>7, <2>8, Zenon
<1> QED
  BY <1>2, <1>3, Zenon

(* Publishing a loop entry: the loop was reserved in SeenOsr_. *)
LEMMA PublishOsrInd ==
  ASSUME IndInv, WorkerPublishOsr
  PROVE  IndInv'
<1> USE DEF IndInv, WorkerPublishOsr, tier1Vars, seenVars, queueVars,
            threadVars, closeVars
<1>1. LoopOf(req) \in Loops /\ LoopOf(req) \in SeenOsr_
  BY Zenon DEF HeldInv, ReservedInv
<1>2. /\ OsrEntryTable' \in [Loops -> {"COUNTING", "WAITING", "READY"}]
      /\ \A p \in Loops : OsrEntryTable'[p] = "READY" =>
           p = LoopOf(req) \/ OsrEntryTable[p] = "READY"
  BY <1>1, Zenon DEF TypeOK
<1>3. storing' = {}
  BY Zenon DEF HeldInv
<1>c. CompileCount' \in Nat
  BY DEF TypeOK
<1>4. TypeOK'
  BY <1>2, <1>3, <1>c, Zenon DEF TypeOK, Taken
<1>5. SiteInv'
  BY Zenon DEF SiteInv
<1>6. HeldInv'
  BY <1>3, Zenon DEF HeldInv, IsOsr, NoRequest
<1>7. ReservedInv'
  BY <1>1, <1>2, Zenon DEF ReservedInv, IsOsr, LoopOf, NoRequest
<1>8. CompiledOnce'
  BY Zenon DEF CompiledOnce, NoRequest
<1>9. OsrRequestedOnce'
  <2>1. \A i \in DOMAIN OsrQueue_ :
          LoopOf(OsrQueue_[i]) \in Loops /\ LoopOf(OsrQueue_[i]) # LoopOf(req)
    BY Zenon DEF ReservedInv, TypeOK, OsrRequestedOnce
  <2> QED
    BY <1>2, <2>1 DEF OsrRequestedOnce, IsOsr, LoopOf, NoRequest
<1> QED
  BY <1>4, <1>5, <1>6, <1>7, <1>8, <1>9, Zenon

(* Re-inserting a thunk's function into Seen_ changes nothing. *)
LEMMA MarkSeenInd ==
  ASSUME IndInv, WorkerMarkSeen
  PROVE  IndInv'
<1> USE DEF IndInv, WorkerMarkSeen, tier1Vars, queueVars, threadVars, closeVars
<1>1. Seen_' = Seen_ /\ storing' \subseteq thunks
  BY DEF HeldInv, ReservedInv
<1>2. TypeOK'
  BY <1>1, Zenon DEF TypeOK, Taken
<1>3. SiteInv'
  BY Zenon DEF SiteInv
<1>4. HeldInv'
  BY Zenon DEF HeldInv, IsOsr, LoopOf
<1>5. ReservedInv'
  BY <1>1, Zenon DEF ReservedInv, IsOsr, LoopOf
<1>6. CompiledOnce' /\ OsrRequestedOnce'
  BY DEF CompiledOnce, OsrRequestedOnce, IsOsr, LoopOf
<1> QED
  BY <1>2, <1>3, <1>4, <1>5, <1>6, Zenon

(* Storing a tier-2 entry: its function is in no queued batch. *)
LEMMA StoreEntryInd ==
  ASSUME IndInv, WorkerStoreEntry
  PROVE  IndInv'
<1> USE DEF IndInv, WorkerStoreEntry, tier1Vars, seenVars, queueVars,
            threadVars, closeVars
<1>1. /\ ~IsOsr(req) /\ req \in Request
      /\ storing \subseteq thunks /\ thunks \subseteq req.batch
      /\ req.batch \subseteq Seen_
  BY Zenon DEF HeldInv, ReservedInv, TypeOK, Taken
<1>2. /\ FuncTable' \in [Funcs -> {"tier1", "tier2"}]
      /\ \A f \in Funcs \ storing : FuncTable'[f] = FuncTable[f]
  BY Zenon DEF TypeOK
<1>3. \/ req' = req /\ wpc' = "install"
      \/ req' = NoRequest /\ wpc' = "wait" /\ thunks' = {}
  BY Zenon
<1>c. CompileCount' \in Nat
  BY DEF TypeOK
<1>4. TypeOK'
  BY <1>1, <1>2, <1>3, <1>c, Zenon DEF TypeOK, Taken
<1>5. SiteInv'
  BY Zenon DEF SiteInv
<1>6. HeldInv'
  <2>1. \A f \in thunks' : FuncTable'[f] = "tier1"
    BY <1>1, <1>2, Zenon DEF HeldInv, TypeOK
  <2> QED
    BY <1>1, <1>3, <2>1 DEF HeldInv, IsOsr, NoRequest
<1>7. ReservedInv'
  BY <1>1, <1>2, <1>3 DEF ReservedInv, IsOsr, LoopOf, NoRequest
<1>8. CompiledOnce'
  <2>0. \A i \in DOMAIN Queue_ : Queue_[i] \in Request
    BY DEF TypeOK
  <2>1. \A i \in DOMAIN Queue_ :
          /\ Queue_[i].batch \cap req.batch = {}
          /\ Queue_[i].batch \subseteq Funcs
          /\ \A f \in Queue_[i].batch : FuncTable[f] = "tier1"
    BY <1>1, <2>0, Zenon DEF CompiledOnce, Request
  <2>2. \A i \in DOMAIN Queue_ : \A f \in Queue_[i].batch : FuncTable'[f] = "tier1"
    BY <1>1, <1>2, <2>1, Zenon
  <2> QED
    BY <1>3, <2>2 DEF CompiledOnce, IsOsr, NoRequest
<1>9. OsrRequestedOnce'
  BY <1>1, <1>3 DEF OsrRequestedOnce, IsOsr, LoopOf, NoRequest
<1> QED
  BY <1>4, <1>5, <1>6, <1>7, <1>8, <1>9, Zenon

(* The early returns of enqueue keep the inductive invariant. *)
LEMMA EnqueueSkipInd ==
  ASSUME IndInv, NEW t \in Threads, EnqueueCallSkip(t) \/ EnqueueOsrSkip(t)
  PROVE  IndInv'
<1> USE DEF IndInv, EnqueueCallSkip, EnqueueOsrSkip, tier1Vars, queueVars,
            workerVars, closeVars
<1>1. /\ pc' \in [Threads -> ThreadLabels]
      /\ at' \in [Threads -> Sites \cup {NoSite}]
      /\ reg' \in [Threads -> 0 .. Saturated - 2]
      /\ SiteInv'
  BY GotoType, 0 \in 0 .. Saturated - 2, Zenon DEF Resume, ThreadLabels
<1>2. at[t] \in Sites
  BY Zenon DEF SiteInv
<1>3. /\ Seen_ \subseteq Seen_' /\ Seen_' \subseteq Funcs
      /\ SeenOsr_ \subseteq SeenOsr_' /\ SeenOsr_' \subseteq Loops
  BY <1>2, Zenon DEF TypeOK, Sites, seenVars
<1>4. TypeOK'
  BY <1>1, <1>3, ZenonT(60) DEF TypeOK
<1>5. HeldInv'
  BY Zenon DEF HeldInv, IsOsr, LoopOf
<1>6. ReservedInv'
  BY <1>3, Zenon DEF ReservedInv, IsOsr, LoopOf
<1>7. CompiledOnce' /\ OsrRequestedOnce'
  BY DEF CompiledOnce, OsrRequestedOnce, IsOsr, LoopOf
<1> QED
  BY <1>1, <1>4, <1>5, <1>6, <1>7, Zenon

(* The worker takes a request out of either queue. *)
LEMMA PickInd ==
  ASSUME IndInv, WorkerPick
  PROVE  IndInv'
<1> USE DEF IndInv, WorkerPick, tier1Vars, seenVars, threadVars, closeVars
<1>0. req = NoRequest /\ thunks = {} /\ storing = {}
  BY Zenon DEF TypeOK, HeldInv, Taken
<1>1. CASE OsrQueue_ # << >> /\ req' = Head(OsrQueue_)
             /\ OsrQueue_' = Tail(OsrQueue_) /\ UNCHANGED Queue_
  <2>1. /\ req' \in Request /\ OsrQueue_' \in Seq(Request)
        /\ 1 \in DOMAIN OsrQueue_ /\ req' = OsrQueue_[1]
        /\ \A i \in DOMAIN OsrQueue_' :
             i + 1 \in DOMAIN OsrQueue_ /\ i + 1 # 1 /\ OsrQueue_'[i] = OsrQueue_[i + 1]
        /\ \A i, j \in DOMAIN OsrQueue_' : i # j => i + 1 # j + 1
    BY <1>1, PopProps, SMTT(60) DEF TypeOK
  <2>2. /\ IsOsr(req') /\ LoopOf(req') \in SeenOsr_
        /\ \A i \in DOMAIN OsrQueue_' : LoopOf(OsrQueue_'[i]) # LoopOf(req')
    BY <2>1 DEF ReservedInv, OsrRequestedOnce
  <2>3. TypeOK'
    BY <1>0, <1>1, <2>1, Zenon DEF TypeOK, Taken
  <2>4. SiteInv'
    BY Zenon DEF SiteInv
  <2>5. HeldInv'
    <3>1. LoopOf(req') \in Loops
      BY <2>2, Zenon DEF TypeOK
    <3> QED
      BY <1>0, <2>2, <3>1, Zenon DEF HeldInv, IsOsr, LoopOf
  <2>6. ReservedInv'
    BY <1>1, <2>1, <2>2 DEF ReservedInv, IsOsr, LoopOf
  <2>7. CompiledOnce'
    BY <1>1, <2>2, Zenon DEF CompiledOnce, IsOsr
  <2>8. OsrRequestedOnce'
    <3>1. \A i, j \in DOMAIN OsrQueue_' :
            i # j => LoopOf(OsrQueue_'[i]) # LoopOf(OsrQueue_'[j])
      BY <2>1 DEF OsrRequestedOnce
    <3>2. \A i \in DOMAIN OsrQueue_' : OsrEntryTable[LoopOf(OsrQueue_'[i])] # "READY"
      BY <2>1 DEF OsrRequestedOnce
    <3> QED
      BY <2>2, <3>1, <3>2, Zenon DEF OsrRequestedOnce, LoopOf
  <2> QED
    BY <2>3, <2>4, <2>5, <2>6, <2>7, <2>8, Zenon
<1>2. CASE Queue_ # << >> /\ req' = Head(Queue_)
             /\ Queue_' = Tail(Queue_) /\ UNCHANGED OsrQueue_
  <2>1. /\ req' \in Request /\ Queue_' \in Seq(Request)
        /\ 1 \in DOMAIN Queue_ /\ req' = Queue_[1]
        /\ \A i \in DOMAIN Queue_' :
             i + 1 \in DOMAIN Queue_ /\ i + 1 # 1 /\ Queue_'[i] = Queue_[i + 1]
        /\ \A i, j \in DOMAIN Queue_' : i # j => i + 1 # j + 1
    BY <1>2, PopProps, SMTT(60) DEF TypeOK
  <2>2. /\ ~IsOsr(req') /\ req'.batch \subseteq Seen_
        /\ \A f \in req'.batch : FuncTable[f] = "tier1"
        /\ \A i \in DOMAIN Queue_' : Queue_'[i].batch \cap req'.batch = {}
    <3>1. /\ ~IsOsr(Queue_[1]) /\ Queue_[1].batch \subseteq Seen_
          /\ \A f \in Queue_[1].batch : FuncTable[f] = "tier1"
      BY <2>1, Zenon DEF ReservedInv, CompiledOnce
    <3>2. \A i \in DOMAIN Queue_' : Queue_[i + 1].batch \cap Queue_[1].batch = {}
      BY <2>1, Zenon DEF CompiledOnce
    <3>3. \A i \in DOMAIN Queue_' : Queue_'[i].batch \cap req'.batch = {}
      BY <2>1, <3>2, Zenon
    <3> QED
      BY <2>1, <3>1, <3>3, Zenon
  <2>3. TypeOK'
    BY <1>0, <1>2, <2>1, ZenonT(30) DEF TypeOK, Taken
  <2>4. SiteInv'
    BY Zenon DEF SiteInv
  <2>5. HeldInv'
    BY <1>0, <2>2 DEF HeldInv, IsOsr
  <2>6. ReservedInv'
    BY <1>2, <2>1, <2>2 DEF ReservedInv, IsOsr, LoopOf
  <2>7. CompiledOnce'
    <3>1. ASSUME NEW i \in DOMAIN Queue_', NEW j \in DOMAIN Queue_', i # j
          PROVE  Queue_'[i].batch \cap Queue_'[j].batch = {}
      <4>1. /\ i + 1 \in DOMAIN Queue_ /\ j + 1 \in DOMAIN Queue_ /\ i + 1 # j + 1
            /\ Queue_'[i] = Queue_[i + 1] /\ Queue_'[j] = Queue_[j + 1]
        BY <2>1, <3>1, Zenon
      <4>2. Queue_[i + 1].batch \cap Queue_[j + 1].batch = {}
        BY <4>1, Zenon DEF CompiledOnce
      <4> QED
        BY <4>1, <4>2, Zenon
    <3>2. \A i \in DOMAIN Queue_' : \A f \in Queue_'[i].batch : FuncTable[f] = "tier1"
      BY <2>1 DEF CompiledOnce
    <3> QED
      BY <2>2, <3>1, <3>2, Zenon DEF CompiledOnce
  <2>8. OsrRequestedOnce'
    BY <1>2, <2>2 DEF OsrRequestedOnce, IsOsr, LoopOf
  <2> QED
    BY <2>3, <2>4, <2>5, <2>6, <2>7, <2>8, Zenon
<1> QED
  BY <1>1, <1>2, Zenon

(* A new batch is disjoint from all others because it avoids Seen_. *)
LEMMA EnqueueCallInd ==
  ASSUME IndInv, NEW t \in Threads, EnqueueCall(t)
  PROVE  IndInv'
<1> USE DEF IndInv, tier1Vars, workerVars, closeVars
<1> DEFINE f == at[t][1]
<1>1. at[t] \in Sites /\ f \in Promotable \ Seen_
  BY Zenon DEF EnqueueCall, SiteInv
<1>2. PICK root \in WalkUpRoots(f, Seen_, CallCounters) :
        \E b \in BfsDownBatches(root, f, Seen_, CallCounters) :
          Seen_' = Seen_ \cup b /\ Queue_' = Append(Queue_, CallRequest(f, root, b))
  BY Zenon DEF EnqueueCall
<1>3. PICK b \in BfsDownBatches(root, f, Seen_, CallCounters) :
        Seen_' = Seen_ \cup b /\ Queue_' = Append(Queue_, CallRequest(f, root, b))
  BY <1>2, Zenon
<1> HIDE DEF f
<1>4. root \in Promotable \ Seen_
  BY <1>1, WalkUpProps, Zenon
<1>5. b \subseteq Promotable \ Seen_
  BY <1>1, <1>4, BatchProps
<1> DEFINE r == CallRequest(f, root, b)
<1>6. /\ r \in Request /\ r.batch = b /\ ~IsOsr(r)
      /\ b \subseteq Funcs /\ b \cap Seen_ = {}
  BY <1>1, <1>4, <1>5, Zenon DEF CallRequest, Request, Promotable, LoopIndices, IsOsr
<1> HIDE DEF r
<1>7. /\ Queue_' \in Seq(Request)
      /\ \A i \in DOMAIN Queue_ : Queue_'[i] = Queue_[i]
      /\ Queue_'[Len(Queue_) + 1] = r
      /\ \A i \in DOMAIN Queue_' : i \in DOMAIN Queue_ \/ i = Len(Queue_) + 1
  BY <1>3, <1>6, PushProps, SMTT(60) DEF TypeOK, r
<1>8. \A i \in DOMAIN Queue_' :
        \/ i \in DOMAIN Queue_ /\ Queue_'[i] = Queue_[i]
        \/ i = Len(Queue_) + 1 /\ Queue_'[i] = r
  BY <1>7, Zenon
<1>9. /\ pc' \in [Threads -> ThreadLabels]
      /\ at' \in [Threads -> Sites \cup {NoSite}]
      /\ reg' \in [Threads -> 0 .. Saturated - 2]
      /\ SiteInv'
  BY <1>1, GotoType, 0 \in 0 .. Saturated - 2, ZenonT(60) DEF EnqueueCall, ThreadLabels
<1> USE DEF EnqueueCall
<1>10. TypeOK'
  BY <1>3, <1>6, <1>7, <1>9, ZenonT(30) DEF TypeOK
<1>11. HeldInv'
  BY Zenon DEF HeldInv, IsOsr, LoopOf
<1>12. ReservedInv'
  <2>1. /\ Seen_ \subseteq Seen_' /\ r.batch \subseteq Seen_'
        /\ req' = req /\ FuncTable' = FuncTable /\ OsrQueue_' = OsrQueue_
        /\ SeenOsr_' = SeenOsr_ /\ OsrEntryTable' = OsrEntryTable
    BY <1>3, <1>6, Zenon
  <2>2. \A i \in DOMAIN Queue_' :
          ~IsOsr(Queue_'[i]) /\ Queue_'[i].batch \subseteq Seen_'
    BY <1>6, <1>8, <2>1, SMTT(60) DEF ReservedInv
  <2> QED
    BY <2>1, <2>2, SMTT(60) DEF ReservedInv, IsOsr, LoopOf
<1>13. CompiledOnce'
  <2>1. \A i \in DOMAIN Queue_ : Queue_[i].batch \cap b = {}
    BY <1>6 DEF ReservedInv
  <2>2. \A g \in b : FuncTable[g] = "tier1"
    BY <1>6 DEF ReservedInv, TypeOK
  <2>3. ~IsOsr(req) => b \cap req.batch = {}
    BY <1>6, SMTT(60) DEF ReservedInv
  <2>4. ASSUME NEW i \in DOMAIN Queue_', NEW j \in DOMAIN Queue_', i # j
        PROVE  Queue_'[i].batch \cap Queue_'[j].batch = {}
    <3>1. CASE i \in DOMAIN Queue_ /\ j \in DOMAIN Queue_
      <4>1. Queue_[i].batch \cap Queue_[j].batch = {}
        BY <2>4, <3>1, Zenon DEF CompiledOnce
      <4> QED
        BY <1>7, <3>1, <4>1, Zenon
    <3>2. CASE i \in DOMAIN Queue_ /\ j \notin DOMAIN Queue_
      BY <1>6, <1>8, <2>1, <3>2
    <3>3. CASE i \notin DOMAIN Queue_ /\ j \in DOMAIN Queue_
      BY <1>6, <1>8, <2>1, <3>3
    <3> QED
      BY <1>7, <2>4, <3>1, <3>2, <3>3, Zenon
  <2>5. \A i \in DOMAIN Queue_' :
          /\ ~IsOsr(req) => Queue_'[i].batch \cap req.batch = {}
          /\ \A g \in Queue_'[i].batch : FuncTable[g] = "tier1"
    BY <1>6, <1>8, <2>2, <2>3 DEF CompiledOnce
  <2> QED
    BY <2>4, <2>5, Zenon DEF CompiledOnce, IsOsr
<1>14. OsrRequestedOnce'
  BY DEF OsrRequestedOnce, IsOsr, LoopOf
<1> QED
  BY <1>9, <1>10, <1>11, <1>12, <1>13, <1>14

(* A new OSR request is for a loop that SeenOsr_ did not hold. *)
LEMMA EnqueueOsrInd ==
  ASSUME IndInv, NEW t \in Threads, EnqueueOsr(t)
  PROVE  IndInv'
<1> USE DEF IndInv, tier1Vars, workerVars, closeVars
<1> DEFINE p == at[t]
<1>1. p \in Sites /\ p[2] # NoLoop /\ p[1] \in Promotable \ {} /\ p \notin SeenOsr_
  BY Zenon DEF EnqueueOsr, SiteInv
<1>2. p \in Loops /\ p = <<p[1], p[2]>> /\ p[1] \in Funcs
  BY <1>1, Zenon DEF Sites
<1>3. PICK b \in BfsDownBatches(p[1], p[1], {}, CallCounters) :
        OsrQueue_' = Append(OsrQueue_, OsrRequest(p, b))
  BY Zenon DEF EnqueueOsr
<1>4. b \subseteq Promotable
  BY <1>1, BatchProps
<1> DEFINE r == OsrRequest(p, b)
<1>5. r \in Request
  BY <1>2, <1>4, Zenon DEF OsrRequest, Request, Promotable, LoopIndices
<1>6. IsOsr(r) /\ LoopOf(r) = p
  BY <1>1, <1>2, Zenon DEF OsrRequest, IsOsr, LoopOf
<1>7. /\ pc' \in [Threads -> ThreadLabels]
      /\ at' \in [Threads -> Sites \cup {NoSite}]
      /\ reg' \in [Threads -> 0 .. Saturated - 2]
      /\ SiteInv'
  BY <1>1, GotoType, 0 \in 0 .. Saturated - 2, Zenon DEF EnqueueOsr, ThreadLabels
<1>8. SeenOsr_' = SeenOsr_ \cup {p}
  BY Zenon DEF EnqueueOsr
<1> HIDE DEF r, p
<1>9. /\ OsrQueue_' \in Seq(Request)
      /\ \A i \in DOMAIN OsrQueue_ : OsrQueue_'[i] = OsrQueue_[i]
      /\ OsrQueue_'[Len(OsrQueue_) + 1] = r
      /\ \A i \in DOMAIN OsrQueue_' : i \in DOMAIN OsrQueue_ \/ i = Len(OsrQueue_) + 1
  BY <1>3, <1>5, PushProps, SMTT(60) DEF TypeOK, r
<1>10. \A i \in DOMAIN OsrQueue_' :
        \/ i \in DOMAIN OsrQueue_ /\ OsrQueue_'[i] = OsrQueue_[i]
        \/ i = Len(OsrQueue_) + 1 /\ OsrQueue_'[i] = r
  BY <1>9, Zenon
<1> USE DEF EnqueueOsr
<1>11. TypeOK'
  BY <1>2, <1>7, <1>8, <1>9, Zenon DEF TypeOK
<1>12. HeldInv'
  BY DEF HeldInv, IsOsr, LoopOf
<1>13. ReservedInv'
  <2>1. \A i \in DOMAIN OsrQueue_' :
          IsOsr(OsrQueue_'[i]) /\ LoopOf(OsrQueue_'[i]) \in SeenOsr_'
    BY <1>6, <1>8, <1>10, SMTT(60) DEF ReservedInv
  <2> QED
    BY <1>8, <2>1, Zenon DEF ReservedInv, IsOsr, LoopOf
<1>14. CompiledOnce'
  BY SMTT(60) DEF CompiledOnce, IsOsr
<1>15. OsrRequestedOnce'
  <2>1. \A i \in DOMAIN OsrQueue_ : LoopOf(OsrQueue_[i]) # p
    BY <1>1, Zenon DEF ReservedInv, p
  <2>2. OsrEntryTable[p] # "READY" /\ (IsOsr(req) => LoopOf(req) # p)
    BY <1>1, <1>2, Zenon DEF ReservedInv, p
  <2>3. \A i, j \in DOMAIN OsrQueue_' :
          i # j => LoopOf(OsrQueue_'[i]) # LoopOf(OsrQueue_'[j])
    BY <1>6, <1>10, <2>1 DEF OsrRequestedOnce
  <2>4. \A i \in DOMAIN OsrQueue_' :
          /\ IsOsr(req) => LoopOf(OsrQueue_'[i]) # LoopOf(req)
          /\ OsrEntryTable[LoopOf(OsrQueue_'[i])] # "READY"
    BY <1>6, <1>10, <2>2, SMTT(60) DEF OsrRequestedOnce
  <2> QED
    BY <2>3, <2>4, Zenon DEF OsrRequestedOnce, IsOsr, LoopOf
<1> QED
  BY <1>7, <1>11, <1>12, <1>13, <1>14, <1>15, Zenon

(* Every step of the tier-up path keeps the inductive invariant. *)
LEMMA IndNext == IndInv /\ [Next]_vars => IndInv'
<1> SUFFICES ASSUME IndInv, [Next]_vars PROVE IndInv'
  BY Zenon
<1>1. CASE \E t \in Threads : ThreadStart(t) \/ ThreadStep(t)
  <2>1. PICK t \in Threads : ThreadStart(t) \/ ThreadStep(t)
    BY <1>1, Zenon
  <2>2. CASE LocalStep(t)
    BY <2>2, LocalInd, Zenon
  <2>3. CASE EnqueueCallSkip(t) \/ EnqueueOsrSkip(t)
    BY <2>3, EnqueueSkipInd, Zenon
  <2>4. CASE EnqueueCall(t)
    BY <2>4, EnqueueCallInd, Zenon
  <2>5. CASE EnqueueOsr(t)
    BY <2>5, EnqueueOsrInd, Zenon
  <2>6. CASE EnqueueNotify(t)
    BY <2>6, NotifyInd, Zenon
  <2> QED
    BY <2>1, <2>2, <2>3, <2>4, <2>5, <2>6, Zenon DEF ThreadStart, ThreadStep, LocalStep
<1>2. CASE WorkerStep \/ WorkerSpuriousWake
  BY <1>2, WorkerPcInd, GiveUpInd, PickInd, CompileInd, PublishOsrInd,
     MarkSeenInd, StoreEntryInd DEF WorkerStep
<1>3. CASE Shutdown \/ CloserStep
  BY <1>3, CloserInd DEF CloserStep
<1>4. CASE UNCHANGED vars
  <2> USE <1>4 DEF vars, tier1Vars, seenVars, queueVars, threadVars, workerVars,
                   closeVars
  <2>1. TypeOK' /\ SiteInv'
    BY Zenon DEF IndInv, TypeOK, SiteInv
  <2> QED
    BY <2>1, PcInd, Zenon
<1> QED
  BY <1>1, <1>2, <1>3, <1>4, Zenon DEF Next

(* The worker and the threads keep the inductive invariant. *)
THEOREM IndInvariant == Spec => []IndInv
<1> QED
  BY IndInit, IndNext, PTL DEF Spec

(* Type correctness of the tier-up path. *)
THEOREM TypeCorrect == Spec => []TypeOK
<1>1. IndInv => TypeOK
  BY Zenon DEF IndInv
<1> QED
  BY <1>1, IndInvariant, PTL

(* Whatever the threads do, no function is in two pending call-count       *)
(* requests and no queued function was already promoted.                   *)
THEOREM NeverCompiledTwice == Spec => []CompiledOnce
<1>1. IndInv => CompiledOnce
  BY Zenon DEF IndInv
<1> QED
  BY <1>1, IndInvariant, PTL

(* Whatever the threads do, a loop is in at most one OSR request.          *)
THEOREM LoopNeverRequestedTwice == Spec => []OsrRequestedOnce
<1>1. IndInv => OsrRequestedOnce
  BY Zenon DEF IndInv
<1> QED
  BY <1>1, IndInvariant, PTL

-----------------------------------------------------------------------------
(* Every trigger is recorded.  The invariant is inductive with the types:  *)
(* a register holds at most Saturated - 2, so the racing stores of tier-1  *)
(* code never write the sentinel themselves.                               *)

(* Instrumented code saturates and clears only on its way to enqueue. *)
LEMMA TriggerLocal ==
  ASSUME IndInv, TriggerRecorded, NEW t \in Threads, LocalStep(t)
  PROVE  TriggerRecorded'
<1> DEFINE Mid(u, x) == pc[u] = "enqueue" /\ at[u] = x
<1>0. Seen_' = Seen_ /\ SeenOsr_' = SeenOsr_
  BY LocalFrame, Zenon DEF seenVars
<1>1. ASSUME pc[t] # "enqueue",
             \A u \in Threads \ {t} : pc'[u] = pc[u] /\ at'[u] = at[u],
             \A f \in Funcs : CallCounters'[f] = Saturated =>
               CallCounters[f] = Saturated \/ (Mid(t, <<f, NoLoop>>))',
             \A p \in Loops : OsrEntryTable'[p] = "WAITING" =>
               OsrEntryTable[p] = "WAITING" \/ (Mid(t, p))'
      PROVE  TriggerRecorded'
  <2>1. ASSUME NEW f \in Funcs, CallCounters'[f] = Saturated
        PROVE  f \in Seen_' \/ \E u \in Threads : (Mid(u, <<f, NoLoop>>))'
    <3>1. CASE (Mid(t, <<f, NoLoop>>))'
      BY <3>1, Zenon
    <3>2. CASE CallCounters[f] = Saturated
      <4>1. f \in Seen_ \/ \E u \in Threads : Mid(u, <<f, NoLoop>>)
        BY <3>2, Zenon DEF TriggerRecorded
      <4> QED
        BY <1>0, <1>1, <4>1, Zenon
    <3> QED
      BY <1>1, <2>1, <3>1, <3>2, Zenon
  <2>2. ASSUME NEW p \in Loops, OsrEntryTable'[p] = "WAITING"
        PROVE  p \in SeenOsr_' \/ \E u \in Threads : (Mid(u, p))'
    <3>1. CASE (Mid(t, p))'
      BY <3>1, Zenon
    <3>2. CASE OsrEntryTable[p] = "WAITING"
      <4>1. p \in SeenOsr_ \/ \E u \in Threads : Mid(u, p)
        BY <3>2, Zenon DEF TriggerRecorded
      <4> QED
        BY <1>0, <1>1, <4>1, Zenon
    <3> QED
      BY <1>1, <2>2, <3>1, <3>2, Zenon
  <2> QED
    BY <2>1, <2>2, Zenon DEF TriggerRecorded
<1> HIDE DEF Mid
<1>2. \A u \in Threads \ {t} : pc'[u] = pc[u] /\ at'[u] = at[u]
  BY SMTT(60) DEF LocalStep, PrologueLoad, BackEdgeSlot, PrologueStore, TierUpNotify,
         BackEdgeLoad, BackEdgeStore, OsrNotifySaturate, OsrNotifyClearSlot,
         Resume, Goto, IndInv, TypeOK
<1>3. pc[t] # "enqueue"
  BY Zenon DEF LocalStep, PrologueLoad, BackEdgeSlot, PrologueStore, TierUpNotify,
         BackEdgeLoad, BackEdgeStore, OsrNotifySaturate, OsrNotifyClearSlot
<1>4. \A f \in Funcs : CallCounters'[f] = Saturated =>
        CallCounters[f] = Saturated \/ (Mid(t, <<f, NoLoop>>))'
  <2>1. CASE PrologueStore(t)
    <3>1. reg[t] + 1 # Saturated
      BY SMTT(60) DEF IndInv, TypeOK
    <3> QED
      BY <2>1, <3>1, Zenon DEF PrologueStore, IndInv, TypeOK
  <2>2. CASE TierUpNotify(t)
    <3>1. at[t] \in Funcs \X {NoLoop}
      BY <2>2, Zenon DEF TierUpNotify, IndInv, SiteInv
    <3>2. pc'[t] = "enqueue" /\ at'[t] = at[t]
      BY <2>2, Zenon DEF TierUpNotify, Goto, IndInv, TypeOK
    <3>3. \A f \in Funcs : f # at[t][1] => CallCounters'[f] = CallCounters[f]
      BY <2>2, Zenon DEF TierUpNotify, IndInv, TypeOK
    <3>4. at[t] = <<at[t][1], NoLoop>>
      BY <3>1
    <3> QED
      BY <3>2, <3>3, <3>4, Zenon DEF Mid
  <2>3. CASE UNCHANGED CallCounters
    BY <2>3, Zenon
  <2> QED
    BY <2>1, <2>2, <2>3, Zenon
    DEF LocalStep, PrologueLoad, BackEdgeSlot, BackEdgeLoad, BackEdgeStore,
        OsrNotifySaturate, OsrNotifyClearSlot, tier1Vars
<1>5. \A p \in Loops : OsrEntryTable'[p] = "WAITING" =>
        OsrEntryTable[p] = "WAITING" \/ (Mid(t, p))'
  <2>1. CASE OsrNotifyClearSlot(t)
    <3>1. at[t] \in Loops
      BY <2>1, Zenon DEF OsrNotifyClearSlot, IndInv, SiteInv
    <3>2. pc'[t] = "enqueue" /\ at'[t] = at[t]
      BY <2>1, Zenon DEF OsrNotifyClearSlot, Goto, IndInv, TypeOK
    <3>3. \A p \in Loops : p # at[t] => OsrEntryTable'[p] = OsrEntryTable[p]
      BY <2>1, Zenon DEF OsrNotifyClearSlot, IndInv, TypeOK
    <3> QED
      BY <3>2, <3>3, Zenon DEF Mid
  <2>2. CASE UNCHANGED OsrEntryTable
    BY <2>2, Zenon
  <2> QED
    BY <2>1, <2>2, Zenon
    DEF LocalStep, PrologueLoad, BackEdgeSlot, BackEdgeLoad, BackEdgeStore,
        OsrNotifySaturate, PrologueStore, TierUpNotify
<1> QED
  BY <1>1, <1>2, <1>3, <1>4, <1>5, Zenon

(* A thread that leaves enqueue has recorded its trigger. *)
LEMMA TriggerFrame ==
  ASSUME TriggerRecorded, NEW t \in Threads,
         \A u \in Threads \ {t} : pc'[u] = pc[u] /\ at'[u] = at[u],
         CallCounters' = CallCounters, OsrEntryTable' = OsrEntryTable,
         Seen_ \subseteq Seen_', SeenOsr_ \subseteq SeenOsr_',
         pc[t] = "enqueue" =>
           /\ \A f \in Funcs : at[t] = <<f, NoLoop>> => f \in Seen_'
           /\ \A p \in Loops : at[t] = p => p \in SeenOsr_'
  PROVE  TriggerRecorded'
<1>1. \A f \in Funcs : CallCounters'[f] = Saturated =>
        f \in Seen_' \/ \E u \in Threads : pc'[u] = "enqueue" /\ at'[u] = <<f, NoLoop>>
  <2> SUFFICES ASSUME NEW f \in Funcs, CallCounters[f] = Saturated, f \notin Seen_'
               PROVE  \E u \in Threads : pc'[u] = "enqueue" /\ at'[u] = <<f, NoLoop>>
    BY Zenon
  <2>1. PICK u \in Threads : pc[u] = "enqueue" /\ at[u] = <<f, NoLoop>>
    BY Zenon DEF TriggerRecorded
  <2> QED
    BY <2>1, Zenon
<1>2. \A p \in Loops : OsrEntryTable'[p] = "WAITING" =>
        p \in SeenOsr_' \/ \E u \in Threads : pc'[u] = "enqueue" /\ at'[u] = p
  <2> SUFFICES ASSUME NEW p \in Loops, OsrEntryTable[p] = "WAITING", p \notin SeenOsr_'
               PROVE  \E u \in Threads : pc'[u] = "enqueue" /\ at'[u] = p
    BY Zenon
  <2>1. PICK u \in Threads : pc[u] = "enqueue" /\ at[u] = p
    BY Zenon DEF TriggerRecorded
  <2> QED
    BY <2>1, Zenon
<1> QED
  BY <1>1, <1>2, Zenon DEF TriggerRecorded

(* enqueue records the trigger on each of its paths. *)
LEMMA TriggerEnqueue ==
  ASSUME IndInv, TriggerRecorded, NEW t \in Threads,
         \/ EnqueueCallSkip(t) \/ EnqueueCall(t)
         \/ EnqueueOsrSkip(t) \/ EnqueueOsr(t)
  PROVE  TriggerRecorded'
<1>1. /\ \A u \in Threads \ {t} : pc'[u] = pc[u] /\ at'[u] = at[u]
      /\ CallCounters' = CallCounters /\ OsrEntryTable' = OsrEntryTable
      /\ Seen_ \subseteq Seen_' /\ SeenOsr_ \subseteq SeenOsr_'
  BY Zenon DEF EnqueueCallSkip, EnqueueCall, EnqueueOsrSkip, EnqueueOsr, Resume, Goto,
         IndInv, TypeOK, tier1Vars
<1>2. at[t] \in Sites
  BY Zenon DEF EnqueueCallSkip, EnqueueCall, EnqueueOsrSkip, EnqueueOsr, IndInv, SiteInv
<1>3. \A f \in Funcs : at[t] = <<f, NoLoop>> => f \in Seen_'
  <2>1. CASE EnqueueCallSkip(t)
    BY <2>1 DEF EnqueueCallSkip
  <2>2. CASE EnqueueCall(t)
    <3>1. at[t][1] \in Promotable \ Seen_
      BY <2>2, Zenon DEF EnqueueCall
    <3>2. PICK root \in WalkUpRoots(at[t][1], Seen_, CallCounters) :
            \E b \in BfsDownBatches(root, at[t][1], Seen_, CallCounters) :
              Seen_' = Seen_ \cup b
      BY <2>2, Zenon DEF EnqueueCall
    <3>3. PICK b \in BfsDownBatches(root, at[t][1], Seen_, CallCounters) :
              Seen_' = Seen_ \cup b
      BY <3>2, Zenon
    <3>4. at[t][1] \in b
      BY <3>1, <3>2, <3>3, BatchProps, WalkUpProps
    <3> QED
      BY <3>3, <3>4
  <2>3. CASE EnqueueOsrSkip(t) \/ EnqueueOsr(t)
    BY <2>3 DEF EnqueueOsrSkip, EnqueueOsr
  <2> QED
    BY <2>1, <2>2, <2>3, Zenon
<1>4. \A p \in Loops : at[t] = p => p \in SeenOsr_'
  BY Zenon DEF EnqueueCallSkip, EnqueueCall, EnqueueOsrSkip, EnqueueOsr
<1> QED
  BY <1>1, <1>3, <1>4, TriggerFrame, Zenon

(* Steps of the worker and of the closing thread only add entries. *)
LEMMA TriggerOther ==
  ASSUME IndInv, TriggerRecorded,
         UNCHANGED <<pc, at, CallCounters, SeenOsr_>>,
         Seen_ \subseteq Seen_',
         \A p \in Loops : OsrEntryTable'[p] = "WAITING" => OsrEntryTable[p] = "WAITING"
  PROVE  TriggerRecorded'
  BY Zenon DEF TriggerRecorded

(* Notifying the worker forgets no trigger. *)
LEMMA TriggerNotify ==
  ASSUME IndInv, TriggerRecorded, NEW t \in Threads, EnqueueNotify(t)
  PROVE  TriggerRecorded'
<1>1. /\ \A u \in Threads \ {t} : pc'[u] = pc[u] /\ at'[u] = at[u]
      /\ UNCHANGED <<CallCounters, OsrEntryTable, Seen_, SeenOsr_>>
      /\ pc[t] # "enqueue"
  BY DEF EnqueueNotify, Resume, Goto, IndInv, TypeOK, tier1Vars, seenVars
<1> QED
  BY <1>1, TriggerFrame, Zenon

(* A saturated counter or a cleared slot is always backed by an entry of   *)
(* Seen_ or SeenOsr_, or by a thread about to make one.                    *)
THEOREM TriggersRecorded == Spec => []TriggerRecorded
<1>1. Init => TriggerRecorded
  BY DEF Init, TriggerRecorded
<1>2. IndInv /\ TriggerRecorded /\ [Next]_vars => TriggerRecorded'
  <2> SUFFICES ASSUME IndInv, TriggerRecorded, [Next]_vars PROVE TriggerRecorded'
    BY Zenon
  <2>1. CASE \E t \in Threads : ThreadStart(t) \/ ThreadStep(t)
    BY <2>1, TriggerLocal, TriggerEnqueue, TriggerNotify, Zenon
    DEF ThreadStart, ThreadStep, LocalStep
  <2>2. CASE WorkerPublishOsr
    <3>1. \A p \in Loops : OsrEntryTable'[p] = "WAITING" => OsrEntryTable[p] = "WAITING"
      BY <2>2, Zenon DEF WorkerPublishOsr, IndInv, TypeOK
    <3> QED
      BY <2>2, <3>1, TriggerOther DEF WorkerPublishOsr, tier1Vars, seenVars, threadVars
  <2>3. CASE WorkerStep /\ ~WorkerPublishOsr
    BY <2>3, TriggerOther, Zenon
    DEF WorkerStep, WorkerSleep, WorkerExit, WorkerPick, WorkerDrop, WorkerStart,
        WorkerCompile, WorkerMarkSeen, WorkerStoreEntry, tier1Vars, seenVars, threadVars
  <2>4. CASE WorkerSpuriousWake \/ Shutdown \/ CloserStep
    BY <2>4, TriggerOther, Zenon
    DEF WorkerSpuriousWake, Shutdown, CloserStep, ShutdownNotify, Join,
        tier1Vars, seenVars, threadVars
  <2>5. CASE UNCHANGED vars
    BY <2>5, TriggerOther DEF vars, tier1Vars, seenVars, threadVars
  <2> QED
    BY <2>1, <2>2, <2>3, <2>4, <2>5, Zenon DEF Next
<1> QED
  BY <1>1, <1>2, IndInvariant, PTL DEF Spec

-----------------------------------------------------------------------------
(* The condition variable: the worker never sleeps on work that nobody     *)
(* will announce, although enqueue and shutdown notify without the lock.   *)
THEOREM WakeupsNotLost == Spec => []NoLostWakeup
<1>1. Init => NoLostWakeup
  BY Zenon DEF Init, NoLostWakeup
<1>2. IndInv /\ NoLostWakeup /\ [Next]_vars => NoLostWakeup'
  <2> SUFFICES ASSUME IndInv, NoLostWakeup, [Next]_vars PROVE NoLostWakeup'
    BY Zenon
  <2>1. ASSUME NEW t \in Threads, LocalStep(t) PROVE NoLostWakeup'
    <3>1. UNCHANGED <<wpc, Queue_, OsrQueue_, Shutdown_, closer>>
      BY <2>1, LocalFrame, Zenon DEF queueVars, workerVars, closeVars
    <3>2. \A u \in Threads : pc[u] = "notify" => pc'[u] = "notify"
      BY <2>1, SMTT(60)
      DEF LocalStep, PrologueLoad, BackEdgeSlot, PrologueStore, TierUpNotify,
          BackEdgeLoad, BackEdgeStore, OsrNotifySaturate, OsrNotifyClearSlot,
          Resume, Goto, IndInv, TypeOK
    <3> QED
      BY <3>1, <3>2, Zenon DEF NoLostWakeup
  <2>2. ASSUME NEW t \in Threads, EnqueueCallSkip(t) \/ EnqueueOsrSkip(t)
        PROVE  NoLostWakeup'
    <3>1. UNCHANGED <<wpc, Queue_, OsrQueue_, Shutdown_, closer>>
      BY <2>2, Zenon DEF EnqueueCallSkip, EnqueueOsrSkip, queueVars, workerVars, closeVars
    <3>2. \A u \in Threads : pc[u] = "notify" => pc'[u] = "notify"
      BY <2>2, Zenon DEF EnqueueCallSkip, EnqueueOsrSkip, Resume, Goto, IndInv, TypeOK
    <3> QED
      BY <3>1, <3>2, Zenon DEF NoLostWakeup
  <2>3. ASSUME NEW t \in Threads, EnqueueCall(t) \/ EnqueueOsr(t)
        PROVE  NoLostWakeup'
    <3>1. pc'[t] = "notify"
      BY <2>3, Zenon DEF EnqueueCall, EnqueueOsr, Goto, IndInv, TypeOK
    <3> QED
      BY <3>1, Zenon DEF NoLostWakeup
  <2>4. ASSUME NEW t \in Threads, EnqueueNotify(t) PROVE NoLostWakeup'
    BY <2>4, Zenon DEF EnqueueNotify, WakeWorker, NoLostWakeup
  <2>5. CASE WorkerStep \/ WorkerSpuriousWake
    BY <2>5, Zenon
    DEF WorkerStep, WorkerSleep, WorkerExit, WorkerPick, WorkerDrop, WorkerStart,
        WorkerCompile, WorkerMarkSeen, WorkerStoreEntry, WorkerPublishOsr,
        WorkerSpuriousWake, NoLostWakeup, queueVars, closeVars
  <2>6. CASE Shutdown \/ CloserStep
    BY <2>6, Zenon
    DEF Shutdown, CloserStep, ShutdownNotify, Join, WakeWorker, NoLostWakeup,
        workerVars
  <2>7. CASE UNCHANGED vars
    BY <2>7, Zenon DEF vars, queueVars, threadVars, workerVars, closeVars, NoLostWakeup
  <2> QED
    BY <2>1, <2>2, <2>3, <2>4, <2>5, <2>6, <2>7
    DEF Next, ThreadStart, ThreadStep, LocalStep
<1> QED
  BY <1>1, <1>2, IndInvariant, PTL DEF Spec

-----------------------------------------------------------------------------
(* Every batch is sound when it is made, and nothing changes it later. *)

Sound(r) ==
  /\ r.hot \in r.batch /\ r.root \in r.batch
  /\ r.batch \subseteq Promotable
  /\ Cardinality(r.batch) <= MaxBatchSize

QueuesSound ==
  /\ \A i \in DOMAIN Queue_ : Sound(Queue_[i])
  /\ \A i \in DOMAIN OsrQueue_ : Sound(OsrQueue_[i])
  /\ req # NoRequest => Sound(req)

(* enqueue only queues requests that hold their trigger and root. *)
LEMMA SoundEnqueue ==
  ASSUME IndInv, QueuesSound, NEW t \in Threads, EnqueueCall(t) \/ EnqueueOsr(t)
  PROVE  QueuesSound'
<1> USE DEF IndInv
<1>0. req' = req
  BY Zenon DEF EnqueueCall, EnqueueOsr, workerVars
<1>1. CASE EnqueueCall(t)
  <2> DEFINE f == at[t][1]
  <2>1. f \in Promotable \ Seen_ /\ OsrQueue_' = OsrQueue_
    BY <1>1, Zenon DEF EnqueueCall
  <2>2. PICK root \in WalkUpRoots(f, Seen_, CallCounters) :
          \E b \in BfsDownBatches(root, f, Seen_, CallCounters) :
            Queue_' = Append(Queue_, CallRequest(f, root, b))
    BY <1>1, Zenon DEF EnqueueCall
  <2>3. PICK b \in BfsDownBatches(root, f, Seen_, CallCounters) :
            Queue_' = Append(Queue_, CallRequest(f, root, b))
    BY <2>2, Zenon
  <2> HIDE DEF f
  <2>4. root \in Promotable \ Seen_
    BY <2>1, WalkUpProps, Zenon
  <2>5. f \in b /\ root \in b /\ b \subseteq Promotable /\ Cardinality(b) <= MaxBatchSize
    BY <2>1, <2>4, BatchProps
  <2> DEFINE r == CallRequest(f, root, b)
  <2>6. Sound(r)
    BY <2>5, Zenon DEF Sound, CallRequest
  <2>a. f \in Funcs /\ root \in Funcs /\ b \in SUBSET Funcs /\ NoLoop \in LoopIndices
    BY <2>1, <2>4, <2>5, Zenon DEF Promotable, LoopIndices
  <2>7. r \in Request
    BY <2>a, Zenon DEF CallRequest, Request
  <2> HIDE DEF r
  <2>8. /\ \A i \in DOMAIN Queue_ : Queue_'[i] = Queue_[i]
        /\ Queue_'[Len(Queue_) + 1] = r
        /\ \A i \in DOMAIN Queue_' : i \in DOMAIN Queue_ \/ i = Len(Queue_) + 1
    BY <2>3, <2>7, PushProps, SMTT(60) DEF TypeOK, r
  <2>9. \A i \in DOMAIN Queue_' : Sound(Queue_'[i])
    BY <2>6, <2>8, Zenon DEF QueuesSound
  <2> QED
    BY <1>0, <2>1, <2>9, Zenon DEF QueuesSound, Sound
<1>2. CASE EnqueueOsr(t)
  <2> DEFINE p == at[t]
  <2>1. p[1] \in Promotable \ {} /\ Queue_' = Queue_ /\ p \in Sites /\ p[2] # NoLoop
    BY <1>2, Zenon DEF EnqueueOsr, SiteInv
  <2>2. PICK b \in BfsDownBatches(p[1], p[1], {}, CallCounters) :
          OsrQueue_' = Append(OsrQueue_, OsrRequest(p, b))
    BY <1>2, Zenon DEF EnqueueOsr
  <2>3. p \in Loops
    BY <2>1, Zenon DEF Sites
  <2> HIDE DEF p
  <2>5. p[1] \in b /\ b \subseteq Promotable /\ Cardinality(b) <= MaxBatchSize
    BY <2>1, BatchProps
  <2> DEFINE r == OsrRequest(p, b)
  <2>6. Sound(r)
    BY <2>5, Zenon DEF Sound, OsrRequest
  <2>7. r \in Request
    BY <2>1, <2>3, <2>5, Zenon DEF OsrRequest, Request, Promotable, LoopIndices
  <2> HIDE DEF r
  <2>8. /\ \A i \in DOMAIN OsrQueue_ : OsrQueue_'[i] = OsrQueue_[i]
        /\ OsrQueue_'[Len(OsrQueue_) + 1] = r
        /\ \A i \in DOMAIN OsrQueue_' : i \in DOMAIN OsrQueue_ \/ i = Len(OsrQueue_) + 1
    BY <2>2, <2>7, PushProps, SMTT(60) DEF TypeOK, r
  <2>9. \A i \in DOMAIN OsrQueue_' : Sound(OsrQueue_'[i])
    BY <2>6, <2>8, Zenon DEF QueuesSound
  <2> QED
    BY <1>0, <2>1, <2>9, Zenon DEF QueuesSound, Sound
<1> QED
  BY <1>1, <1>2, Zenon

(* Every pending request promotes its trigger function, together with its  *)
(* root, and holds at most MaxBatchSize_ functions, all of them promotable. *)
THEOREM RequestsSound == Spec => []RequestSound
<1>1. Init => QueuesSound
  BY DEF Init, QueuesSound
<1>2. IndInv /\ QueuesSound /\ [Next]_vars => QueuesSound'
  <2> SUFFICES ASSUME IndInv, QueuesSound, [Next]_vars PROVE QueuesSound'
    BY Zenon
  <2>1. ASSUME UNCHANGED <<Queue_, OsrQueue_>>, req' = req \/ req' = NoRequest
        PROVE  QueuesSound'
    BY <2>1, Zenon DEF QueuesSound, Sound
  <2>2. ASSUME NEW t \in Threads, LocalStep(t) PROVE QueuesSound'
    BY <2>1, <2>2, LocalFrame, Zenon DEF queueVars, workerVars
  <2>3. ASSUME NEW t \in Threads,
               EnqueueCallSkip(t) \/ EnqueueOsrSkip(t) \/ EnqueueNotify(t)
        PROVE  QueuesSound'
    BY <2>1, <2>3, Zenon DEF EnqueueCallSkip, EnqueueOsrSkip, EnqueueNotify, queueVars, workerVars
  <2>4. ASSUME NEW t \in Threads, EnqueueCall(t) \/ EnqueueOsr(t) PROVE QueuesSound'
    BY <2>4, SoundEnqueue, Zenon
  <2>5. CASE WorkerPick
    <3>0. Queue_ \in Seq(Request) /\ OsrQueue_ \in Seq(Request)
      BY Zenon DEF IndInv, TypeOK
    <3>1. CASE OsrQueue_ # << >> /\ req' = Head(OsrQueue_)
                 /\ OsrQueue_' = Tail(OsrQueue_) /\ UNCHANGED Queue_
      <4>1. /\ 1 \in DOMAIN OsrQueue_ /\ req' = OsrQueue_[1]
            /\ \A i \in DOMAIN OsrQueue_' :
                 i + 1 \in DOMAIN OsrQueue_ /\ OsrQueue_'[i] = OsrQueue_[i + 1]
        BY <3>0, <3>1, PopProps
      <4> QED
        BY <3>1, <4>1, ZenonT(60) DEF QueuesSound, Sound
    <3>2. CASE Queue_ # << >> /\ req' = Head(Queue_)
                 /\ Queue_' = Tail(Queue_) /\ UNCHANGED OsrQueue_
      <4>1. /\ 1 \in DOMAIN Queue_ /\ req' = Queue_[1]
            /\ \A i \in DOMAIN Queue_' :
                 i + 1 \in DOMAIN Queue_ /\ Queue_'[i] = Queue_[i + 1]
        BY <3>0, <3>2, PopProps
      <4> QED
        BY <3>2, <4>1, ZenonT(60) DEF QueuesSound, Sound
    <3> QED
      BY <2>5, <3>1, <3>2 DEF WorkerPick
  <2>6. CASE WorkerStep /\ ~WorkerPick
    BY <2>1, <2>6, Zenon
    DEF WorkerStep, WorkerSleep, WorkerExit, WorkerDrop, WorkerStart,
        WorkerCompile, WorkerMarkSeen, WorkerStoreEntry, WorkerPublishOsr, queueVars
  <2>7. CASE WorkerSpuriousWake \/ Shutdown \/ CloserStep \/ UNCHANGED vars
    BY <2>1, <2>7, Zenon
    DEF WorkerSpuriousWake, Shutdown, CloserStep, ShutdownNotify, Join, vars,
        queueVars, workerVars
  <2> QED
    BY <2>2, <2>3, <2>4, <2>5, <2>6, <2>7, Zenon
    DEF Next, ThreadStart, ThreadStep, LocalStep
<1>3. QueuesSound => RequestSound
  BY Zenon DEF QueuesSound, RequestSound, Sound, PendingCall, PendingOsr
<1> QED
  BY <1>1, <1>2, <1>3, IndInvariant, PTL DEF Spec

-----------------------------------------------------------------------------
(* Tier2Manager implements TierUp.                                        *)

(* The initial state of the manager is the initial abstract state. *)
LEMMA RefinesInit == Init => Abstract!Init
<1> SUFFICES ASSUME Init PROVE Abstract!Init
  BY Zenon
<1>1. Queued = {} /\ Held = {} /\ QueuedLoops = {} /\ HeldLoops = {}
  BY DEF Init, Queued, Held, QueuedLoops, HeldLoops, NoRequest, IsOsr
<1>2. FuncState = [f \in Funcs |-> "cold"]
  BY <1>1, Zenon DEF Init, FuncState
<1>3. LoopState = [p \in Loops |-> "counting"]
  BY <1>1, Zenon DEF Init, LoopState
<1> QED
  BY <1>2, <1>3, Zenon DEF Abstract!Init

(* What is in flight was reserved, and a call-count request in flight has  *)
(* not been promoted.                                                      *)
LEMMA InFlightReserved ==
  ASSUME IndInv
  PROVE  /\ Queued \subseteq Seen_ /\ Held \subseteq Seen_
         /\ QueuedLoops \subseteq SeenOsr_ /\ HeldLoops \subseteq SeenOsr_
         /\ \A f \in Queued \cup Held : FuncTable[f] = "tier1"
         /\ Queued \cap Held = {} /\ QueuedLoops \cap HeldLoops = {}
         /\ Held \subseteq Funcs /\ HeldLoops \subseteq Loops
<1> USE DEF IndInv
<1>1. Queued \subseteq Seen_ /\ \A f \in Queued : FuncTable[f] = "tier1"
  BY Zenon DEF Queued, ReservedInv, CompiledOnce
<1>2. /\ ~IsOsr(req) => thunks \subseteq req.batch /\ req.batch \subseteq Seen_
      /\ Seen_ \subseteq Funcs
  BY Zenon DEF HeldInv, ReservedInv, TypeOK
<1>3. Held \subseteq Seen_ /\ (~IsOsr(req) => Held \subseteq req.batch)
  BY <1>2, Zenon DEF Held
<1>4. \A f \in Held : FuncTable[f] = "tier1"
  <2>1. CASE wpc \in {"install", "store", "picked", "compile"}
    BY <2>1, Zenon DEF Held, HeldInv
  <2>2. CASE wpc \notin {"install", "store", "picked", "compile"}
    BY <2>2 DEF Held, TypeOK, Taken, NoRequest
  <2> QED
    BY <2>1, <2>2, Zenon
<1>5. Queued \cap Held = {}
  <2>1. CASE IsOsr(req)
    BY <2>1, Zenon DEF Held
  <2>2. CASE ~IsOsr(req)
    BY <1>3, <2>2, Zenon DEF Queued, CompiledOnce
  <2> QED
    BY <2>1, <2>2, Zenon
<1>6. /\ QueuedLoops \subseteq SeenOsr_ /\ HeldLoops \subseteq SeenOsr_
      /\ QueuedLoops \cap HeldLoops = {} /\ HeldLoops \subseteq Loops
  BY DEF QueuedLoops, HeldLoops, ReservedInv, OsrRequestedOnce, HeldInv
<1> QED
  BY <1>1, <1>2, <1>3, <1>4, <1>5, <1>6, Zenon

(* A function that was never reserved is neither queued nor held by the   *)
(* worker, and its entry is still the tier-1 code.                          *)
LEMMA UnseenIsCold ==
  ASSUME IndInv, NEW g \in Funcs, g \notin Seen_
  PROVE  g \notin Queued \cup Held /\ FuncTable[g] = "tier1"
<1>1. FuncTable[g] \in {"tier1", "tier2"}
  <2>1. FuncTable \in [Funcs -> {"tier1", "tier2"}]
    BY Zenon DEF IndInv, TypeOK
  <2> QED
    BY <2>1, Zenon
<1>2. FuncTable[g] # "tier2"
  BY Zenon DEF IndInv, ReservedInv
<1>3. g \notin Queued \cup Held
  BY InFlightReserved, Zenon
<1> QED
  BY <1>1, <1>2, <1>3, Zenon

(* A step that keeps the tables, the reservations and what is in flight is *)
(* a stutter.                                                              *)
LEMMA Stutters ==
  ASSUME UNCHANGED <<FuncTable, Seen_, SeenOsr_>>,
         (Queued \cup Held)' = Queued \cup Held,
         (QueuedLoops \cup HeldLoops)' = QueuedLoops \cup HeldLoops
  PROVE  UNCHANGED Abstract!vars
<1>1. FuncState' = FuncState
  BY Zenon DEF FuncState
<1>2. LoopState' = LoopState
  BY Zenon DEF LoopState
<1> QED
  BY <1>1, <1>2, Zenon DEF Abstract!vars

(* The request the worker holds is given up, whole or in part: the         *)
(* functions no longer held are abandoned.                                 *)
LEMMA Abandons ==
  ASSUME IndInv, IndInv',
         UNCHANGED <<FuncTable, Seen_, SeenOsr_, Queue_, OsrQueue_>>,
         Held' \subseteq Held, HeldLoops' = HeldLoops
  PROVE  Abstract!Abandon(Held \ Held')
<1>1. Queued' = Queued /\ QueuedLoops' = QueuedLoops
  BY Zenon DEF Queued, QueuedLoops, LoopOf
<1>2. LoopState' = LoopState
  BY <1>1, Zenon DEF LoopState
<1>3. \A f \in Held \ Held' : FuncState[f] = "requested"
  BY InFlightReserved, Zenon DEF FuncState
<1>4. FuncState' = [f \in Funcs |-> IF f \in Held \ Held' THEN "abandoned"
                                    ELSE FuncState[f]]
  BY <1>1, InFlightReserved, Zenon DEF FuncState
<1> QED
  BY <1>2, <1>3, <1>4, Zenon DEF Abstract!Abandon, Abstract!Move

(* The held OSR request is finished, with an entry or without. *)
LEMMA Settles ==
  ASSUME IndInv, IndInv', IsOsr(req), ~IsOsr(req'), Held' = {},
         UNCHANGED <<FuncTable, Seen_, SeenOsr_, Queue_, OsrQueue_>>
  PROVE  Abstract!SettleLoop(LoopOf(req))
<1>1. Queued' = Queued /\ QueuedLoops' = QueuedLoops
  BY Zenon DEF Queued, QueuedLoops, LoopOf
<1>2. Held = {} /\ HeldLoops = {LoopOf(req)} /\ HeldLoops' = {}
  BY Zenon DEF Held, HeldLoops, IsOsr
<1>3. FuncState' = FuncState
  BY <1>1, <1>2, Zenon DEF FuncState
<1>4. LoopOf(req) \in Loops /\ LoopOf(req) \in SeenOsr_ /\ LoopOf(req) \notin QueuedLoops
  BY <1>2, InFlightReserved, Zenon
<1>5. LoopState[LoopOf(req)] = "requested"
  BY <1>2, <1>4, Zenon DEF LoopState
<1>6. LoopState' = [q \in Loops |-> IF q = LoopOf(req) THEN "settled"
                                    ELSE LoopState[q]]
  BY <1>1, <1>2, <1>4, Zenon DEF LoopState
<1> QED
  BY <1>3, <1>5, <1>6, Zenon DEF Abstract!SettleLoop, Abstract!MoveLoop

-----------------------------------------------------------------------------
(* One step of the manager at a time. *)

(* enqueue of a call-count request reserves a batch: Request. *)
LEMMA EnqueueCallRefines ==
  ASSUME IndInv, NEW t \in Threads, EnqueueCall(t)
  PROVE  \E S \in SUBSET Funcs : Abstract!Request(S)
<1> DEFINE f == at[t][1]
<1>1. f \in Promotable \ Seen_
  BY Zenon DEF EnqueueCall
<1>2. PICK root \in WalkUpRoots(f, Seen_, CallCounters) :
        \E b \in BfsDownBatches(root, f, Seen_, CallCounters) :
          Seen_' = Seen_ \cup b /\ Queue_' = Append(Queue_, CallRequest(f, root, b))
  BY Zenon DEF EnqueueCall
<1>3. PICK b \in BfsDownBatches(root, f, Seen_, CallCounters) :
        Seen_' = Seen_ \cup b /\ Queue_' = Append(Queue_, CallRequest(f, root, b))
  BY <1>2, Zenon
<1>4. UNCHANGED <<FuncTable, SeenOsr_, OsrQueue_, wpc, req, thunks>>
  BY Zenon DEF EnqueueCall, workerVars
<1> HIDE DEF f
<1>5. b \subseteq Promotable \ Seen_ /\ root \in Promotable \ Seen_
  BY <1>1, WalkUpProps, BatchProps
<1>6. b \subseteq Funcs /\ root \in Funcs /\ f \in Funcs /\ NoLoop \in LoopIndices
  BY <1>1, <1>5, Zenon DEF Promotable, LoopIndices
<1> DEFINE r == CallRequest(f, root, b)
<1>7. r \in Request /\ r.batch = b
  BY <1>6, Zenon DEF CallRequest, Request
<1> HIDE DEF r
<1>8. /\ \A i \in DOMAIN Queue_ : i \in DOMAIN Queue_' /\ Queue_'[i] = Queue_[i]
      /\ Len(Queue_) + 1 \in DOMAIN Queue_' /\ Queue_'[Len(Queue_) + 1] = r
      /\ \A i \in DOMAIN Queue_' : i \in DOMAIN Queue_ \/ i = Len(Queue_) + 1
  BY <1>3, <1>7, PushProps DEF IndInv, TypeOK, r
<1>9. Queued' = Queued \cup b
  <2>1. Queued' \subseteq Queued \cup b
    BY <1>7, <1>8, Zenon DEF Queued
  <2>2. b \subseteq Queued'
    BY <1>6, <1>7, <1>8, Zenon DEF Queued
  <2>3. Queued \subseteq Queued'
    BY <1>8, Zenon DEF Queued
  <2> QED
    BY <2>1, <2>2, <2>3, Zenon
<1>10. Held' = Held /\ HeldLoops' = HeldLoops /\ QueuedLoops' = QueuedLoops
  BY <1>4, Zenon DEF Held, HeldLoops, QueuedLoops, IsOsr, LoopOf
<1>11. LoopState' = LoopState
  BY <1>4, <1>10, SMTT(60) DEF LoopState
<1>12. b \cap (Queued \cup Held \cup Seen_) = {} /\ \A g \in b : FuncTable[g] = "tier1"
  BY <1>5, <1>6, UnseenIsCold, Zenon
<1>13. \A g \in b : FuncState[g] = "cold"
  BY <1>6, <1>12, Zenon DEF FuncState
<1>14. FuncState' = [g \in Funcs |-> IF g \in b THEN "requested" ELSE FuncState[g]]
  BY <1>3, <1>4, <1>9, <1>10, <1>12, Zenon DEF FuncState
<1>15. Abstract!Request(b)
  BY <1>5, <1>11, <1>13, <1>14, Zenon DEF Abstract!Request, Abstract!Move
<1> QED
  BY <1>6, <1>15, Zenon

(* Its early returns reject the function or change nothing. *)
LEMMA EnqueueCallSkipRefines ==
  ASSUME IndInv, NEW t \in Threads, EnqueueCallSkip(t)
  PROVE  UNCHANGED Abstract!vars \/ \E f \in Funcs : Abstract!Reject(f)
<1> DEFINE f == at[t][1]
<1>1. /\ UNCHANGED <<FuncTable, SeenOsr_, Queue_, OsrQueue_, wpc, req, thunks>>
      /\ Seen_' = Seen_ \cup {f} /\ (f \in Seen_ \/ f \notin Promotable)
  BY Zenon DEF EnqueueCallSkip, queueVars, workerVars
<1>2. /\ Queued' = Queued /\ Held' = Held
      /\ QueuedLoops' = QueuedLoops /\ HeldLoops' = HeldLoops
  BY <1>1, Zenon DEF Queued, Held, QueuedLoops, HeldLoops, IsOsr, LoopOf
<1>3. CASE f \in Seen_
  BY <1>1, <1>2, <1>3, Stutters, Zenon
<1>4. CASE f \notin Seen_
  <2>1. at[t] \in Funcs \X {NoLoop}
    BY ManagerAssumption, Zenon DEF EnqueueCallSkip, IndInv, SiteInv, Sites
  <2>2. f \in Funcs /\ f \notin Promotable
    BY <1>1, <1>4, <2>1, Zenon
  <2> HIDE DEF f
  <2>3. f \notin Queued \cup Held /\ FuncTable[f] = "tier1"
    BY <1>4, <2>2, UnseenIsCold, Zenon
  <2>4. LoopState' = LoopState
    BY <1>1, <1>2, Zenon DEF LoopState
  <2>5. FuncState[f] = "cold"
    BY <1>4, <2>2, <2>3, Zenon DEF FuncState
  <2>6. FuncState' = [g \in Funcs |-> IF g \in {f} THEN "abandoned" ELSE FuncState[g]]
    BY <1>1, <1>2, <2>2, <2>3, Zenon DEF FuncState
  <2>7. Abstract!Reject(f)
    BY <2>2, <2>4, <2>5, <2>6, Zenon DEF Abstract!Reject, Abstract!Move
  <2> QED
    BY <2>2, <2>7, Zenon
<1> QED
  BY <1>3, <1>4, Zenon

(* enqueue of an OSR request reserves a loop: RequestLoop. *)
LEMMA EnqueueOsrRefines ==
  ASSUME IndInv, NEW t \in Threads, EnqueueOsr(t)
  PROVE  \E p \in Loops : Abstract!RequestLoop(p)
<1> DEFINE p == at[t]
<1>1. /\ UNCHANGED <<FuncTable, Seen_, Queue_, wpc, req, thunks>>
      /\ SeenOsr_' = SeenOsr_ \cup {p} /\ p \notin SeenOsr_ /\ p[1] \in Promotable \ {}
  BY Zenon DEF EnqueueOsr, workerVars
<1>2. p \in Loops
  BY Zenon DEF EnqueueOsr, IndInv, SiteInv, Sites
<1>3. PICK b \in BfsDownBatches(p[1], p[1], {}, CallCounters) :
        OsrQueue_' = Append(OsrQueue_, OsrRequest(p, b))
  BY Zenon DEF EnqueueOsr
<1> HIDE DEF p
<1>4. b \subseteq Funcs
  BY <1>1, BatchProps DEF Promotable
<1> DEFINE r == OsrRequest(p, b)
<1>5. r \in Request /\ LoopOf(r) = p
  BY ManagerAssumption, <1>1, <1>2, <1>4, Zenon DEF OsrRequest, Request, LoopIndices, LoopOf
<1> HIDE DEF r
<1>6. /\ \A i \in DOMAIN OsrQueue_ : i \in DOMAIN OsrQueue_' /\ OsrQueue_'[i] = OsrQueue_[i]
      /\ Len(OsrQueue_) + 1 \in DOMAIN OsrQueue_' /\ OsrQueue_'[Len(OsrQueue_) + 1] = r
      /\ \A i \in DOMAIN OsrQueue_' : i \in DOMAIN OsrQueue_ \/ i = Len(OsrQueue_) + 1
  BY <1>3, <1>5, PushProps DEF IndInv, TypeOK, r
<1>7. QueuedLoops' = QueuedLoops \cup {p}
  <2>1. QueuedLoops' \subseteq QueuedLoops \cup {p}
    BY <1>5, <1>6, Zenon DEF QueuedLoops, LoopOf
  <2>2. p \in QueuedLoops'
    BY <1>2, <1>5, <1>6 DEF QueuedLoops, LoopOf
  <2>3. QueuedLoops \subseteq QueuedLoops'
    BY <1>6, Zenon DEF QueuedLoops, LoopOf
  <2> QED
    BY <2>1, <2>2, <2>3, Zenon
<1>8. Held' = Held /\ HeldLoops' = HeldLoops /\ Queued' = Queued
  BY <1>1, Zenon DEF Held, HeldLoops, Queued, IsOsr, LoopOf
<1>9. FuncState' = FuncState
  BY <1>1, <1>8, Zenon DEF FuncState
<1>10. p \notin QueuedLoops \cup HeldLoops
  BY <1>1, InFlightReserved, Zenon
<1>11. LoopState[p] = "counting"
  BY <1>1, <1>2, <1>10, Zenon DEF LoopState
<1>12. LoopState' = [q \in Loops |-> IF q = p THEN "requested" ELSE LoopState[q]]
  BY <1>1, <1>2, <1>7, <1>8, <1>10, Zenon DEF LoopState
<1>13. Abstract!RequestLoop(p)
  BY <1>1, <1>9, <1>11, <1>12, Zenon DEF Abstract!RequestLoop, Abstract!MoveLoop
<1> QED
  BY <1>2, <1>13, Zenon

(* Its early returns reject the loop or change nothing. *)
LEMMA EnqueueOsrSkipRefines ==
  ASSUME IndInv, NEW t \in Threads, EnqueueOsrSkip(t)
  PROVE  UNCHANGED Abstract!vars \/ \E p \in Loops : Abstract!RejectLoop(p)
<1> DEFINE p == at[t]
<1>1. /\ UNCHANGED <<FuncTable, Seen_, Queue_, OsrQueue_, wpc, req, thunks>>
      /\ SeenOsr_' = SeenOsr_ \cup {p} /\ (p \in SeenOsr_ \/ p[1] \notin Promotable)
  BY Zenon DEF EnqueueOsrSkip, queueVars, workerVars
<1>2. /\ Queued' = Queued /\ Held' = Held
      /\ QueuedLoops' = QueuedLoops /\ HeldLoops' = HeldLoops
  BY <1>1, Zenon DEF Queued, Held, QueuedLoops, HeldLoops, IsOsr, LoopOf
<1>3. CASE p \in SeenOsr_
  BY <1>1, <1>2, <1>3, Stutters, Zenon
<1>4. CASE p \notin SeenOsr_
  <2>1. p \in Loops
    BY Zenon DEF EnqueueOsrSkip, IndInv, SiteInv, Sites
  <2> HIDE DEF p
  <2>2. p \notin QueuedLoops \cup HeldLoops
    BY <1>4, InFlightReserved, Zenon
  <2>3. FuncState' = FuncState
    BY <1>1, <1>2, Zenon DEF FuncState
  <2>4. LoopState[p] = "counting"
    BY <1>4, <2>1, <2>2, Zenon DEF LoopState
  <2>5. LoopState' = [q \in Loops |-> IF q = p THEN "settled" ELSE LoopState[q]]
    BY <1>1, <1>2, <2>1, <2>2, Zenon DEF LoopState
  <2>6. Abstract!RejectLoop(p)
    BY <1>1, <1>4, <2>3, <2>4, <2>5, Zenon DEF Abstract!RejectLoop, Abstract!MoveLoop
  <2> QED
    BY <2>1, <2>6, Zenon
<1> QED
  BY <1>3, <1>4, Zenon

(* The worker takes a request: it leaves its queue for the worker's hands. *)
LEMMA PickRefines ==
  ASSUME IndInv, IndInv', WorkerPick
  PROVE  UNCHANGED Abstract!vars
<1>0. req = NoRequest /\ Held = {} /\ HeldLoops = {} /\ wpc' = "picked"
  <2>1. wpc = "wait" /\ wpc' = "picked"
    BY Zenon DEF WorkerPick
  <2>2. req = NoRequest
    BY <2>1, Zenon DEF IndInv, TypeOK, Taken
  <2> QED
    BY <2>1, <2>2, Zenon DEF Held, HeldLoops, NoRequest, IsOsr
<1>1. UNCHANGED <<FuncTable, Seen_, SeenOsr_>>
  BY Zenon DEF WorkerPick, seenVars
<1>2. CASE OsrQueue_ # << >> /\ req' = Head(OsrQueue_)
             /\ OsrQueue_' = Tail(OsrQueue_) /\ UNCHANGED Queue_
  <2>1. OsrQueue_ \in Seq(Request)
    BY Zenon DEF IndInv, TypeOK
  <2>2. /\ 1 \in DOMAIN OsrQueue_ /\ req' = OsrQueue_[1]
        /\ \A i \in DOMAIN OsrQueue_' :
             i + 1 \in DOMAIN OsrQueue_ /\ OsrQueue_'[i] = OsrQueue_[i + 1]
        /\ \A i \in DOMAIN OsrQueue_ : i = 1 \/
             (i - 1 \in DOMAIN OsrQueue_' /\ OsrQueue_'[i - 1] = OsrQueue_[i])
    BY <1>2, <2>1, PopProps
  <2>3. IsOsr(req')
    BY <2>2, Zenon DEF IndInv, ReservedInv
  <2>4. HeldLoops' = {LoopOf(req')} /\ Held' = {} /\ Queued' = Queued
    BY <1>2, <2>3, Zenon DEF HeldLoops, Held, Queued, IsOsr, LoopOf
  <2>5. LoopOf(req') \in QueuedLoops
    <3>1. LoopOf(OsrQueue_[1]) \in Loops
      BY <2>2, Zenon DEF IndInv, ReservedInv, TypeOK
    <3> QED
      BY <2>2, <3>1, Zenon DEF QueuedLoops
  <2>6. QueuedLoops' \subseteq QueuedLoops
    BY <2>2 DEF QueuedLoops, LoopOf
  <2>7. QueuedLoops \subseteq QueuedLoops' \cup {LoopOf(req')}
    <3> SUFFICES ASSUME NEW p \in QueuedLoops, p # LoopOf(req')
                 PROVE  p \in QueuedLoops'
      BY Zenon
    <3>1. PICK i \in DOMAIN OsrQueue_ : p = LoopOf(OsrQueue_[i])
      BY Zenon DEF QueuedLoops
    <3>2. i # 1
      BY <2>2, <3>1, Zenon
    <3>3. i - 1 \in DOMAIN OsrQueue_' /\ OsrQueue_'[i - 1] = OsrQueue_[i]
      BY <2>2, <3>2, Zenon
    <3> QED
      BY <3>1, <3>3, Zenon DEF QueuedLoops, LoopOf
  <2> QED
    BY <1>0, <1>1, <2>4, <2>5, <2>6, <2>7, Stutters, Zenon
<1>3. CASE Queue_ # << >> /\ req' = Head(Queue_)
             /\ Queue_' = Tail(Queue_) /\ UNCHANGED OsrQueue_
  <2>1. Queue_ \in Seq(Request)
    BY Zenon DEF IndInv, TypeOK
  <2>2. /\ 1 \in DOMAIN Queue_ /\ req' = Queue_[1] /\ req' \in Request
        /\ \A i \in DOMAIN Queue_' :
             i + 1 \in DOMAIN Queue_ /\ Queue_'[i] = Queue_[i + 1]
        /\ \A i \in DOMAIN Queue_ : i = 1 \/
             (i - 1 \in DOMAIN Queue_' /\ Queue_'[i - 1] = Queue_[i])
    BY <1>3, <2>1, PopProps
  <2>3. ~IsOsr(req')
    BY <2>2, Zenon DEF IndInv, ReservedInv
  <2>4. HeldLoops' = {} /\ Held' = req'.batch /\ QueuedLoops' = QueuedLoops
    BY <1>0, <1>3, <2>3, Zenon DEF HeldLoops, Held, QueuedLoops, IsOsr, LoopOf
  <2>5. req'.batch \subseteq Queued
    BY <2>2, Zenon DEF Queued, Request
  <2>6. Queued' \subseteq Queued
    BY <2>2 DEF Queued
  <2>7. Queued \subseteq Queued' \cup req'.batch
    <3> SUFFICES ASSUME NEW f \in Queued, f \notin req'.batch PROVE f \in Queued'
      BY Zenon
    <3>1. PICK i \in DOMAIN Queue_ : f \in Queue_[i].batch
      BY Zenon DEF Queued
    <3>2. i # 1
      BY <2>2, <3>1, Zenon
    <3>3. i - 1 \in DOMAIN Queue_' /\ Queue_'[i - 1] = Queue_[i]
      BY <2>2, <3>2, Zenon
    <3>4. f \in Funcs
      BY Zenon DEF Queued
    <3> QED
      BY <3>1, <3>3, <3>4, Zenon DEF Queued
  <2> QED
    BY <1>0, <1>1, <2>4, <2>5, <2>6, <2>7, Stutters, Zenon
<1> QED
  BY <1>2, <1>3, Zenon DEF WorkerPick

(* Storing an entry in FuncTable promotes that function. *)
LEMMA StoreEntryRefines ==
  ASSUME IndInv, IndInv', WorkerStoreEntry
  PROVE  \E f \in Funcs : Abstract!Promote(f)
<1>1. PICK f \in thunks : storing = {f}
  BY Zenon DEF WorkerStoreEntry, IndInv, HeldInv
<1>2. /\ UNCHANGED <<Seen_, SeenOsr_, Queue_, OsrQueue_>> /\ ~IsOsr(req)
      /\ Held = thunks /\ f \in Held /\ f \in Funcs
  BY <1>1, ZenonT(60) DEF WorkerStoreEntry, IndInv, HeldInv, TypeOK, Held, seenVars, queueVars
<1>3. ~IsOsr(req') /\ Held' = thunks \ {f}
  BY <1>1, <1>2, SMTT(60) DEF WorkerStoreEntry, Held, IsOsr, NoRequest
<1>4. /\ Queued' = Queued /\ QueuedLoops' = QueuedLoops
      /\ HeldLoops = {} /\ HeldLoops' = {}
  BY <1>2, <1>3, Zenon DEF Queued, QueuedLoops, HeldLoops, LoopOf, IsOsr
<1>5. LoopState' = LoopState
  BY <1>2, <1>4, Zenon DEF LoopState
<1>6. FuncTable[f] = "tier1" /\ FuncState[f] = "requested"
  BY <1>2, InFlightReserved, Zenon DEF FuncState
<1>7. FuncTable' = [g \in Funcs |-> IF g = f THEN "tier2" ELSE FuncTable[g]]
  BY <1>1, Zenon DEF WorkerStoreEntry
<1>8. FuncState' = [g \in Funcs |-> IF g \in {f} THEN "tier2" ELSE FuncState[g]]
  BY <1>2, <1>3, <1>4, <1>7, Zenon DEF FuncState
<1>9. Abstract!Promote(f)
  BY <1>5, <1>6, <1>8, Zenon DEF Abstract!Promote, Abstract!Move
<1> QED
  BY <1>2, <1>9, Zenon

(* Exit, drop and failed compilation give the held request up; a           *)
(* compilation that succeeds in part gives up the rest.                    *)
LEMMA GiveUpRefines ==
  ASSUME IndInv, IndInv', WorkerExit \/ WorkerDrop \/ WorkerCompile \/ WorkerPublishOsr
  PROVE  \/ UNCHANGED Abstract!vars
         \/ \E S \in SUBSET Funcs : Abstract!Abandon(S)
         \/ \E p \in Loops : Abstract!SettleLoop(p)
<1>1. UNCHANGED <<FuncTable, Seen_, SeenOsr_, Queue_, OsrQueue_>>
  BY Zenon DEF WorkerExit, WorkerDrop, WorkerCompile, WorkerPublishOsr, seenVars, queueVars
<1>2. req' = req \/ req' = NoRequest
  BY Zenon DEF WorkerExit, WorkerDrop, WorkerCompile, WorkerPublishOsr
<1>3. CASE IsOsr(req) /\ req' = NoRequest
  <2>1. ~IsOsr(req') /\ Held' = {}
    <3>1. ~IsOsr(req') /\ req'.batch = {}
      BY <1>3, Zenon DEF IsOsr, NoRequest
    <3>2. thunks' \subseteq req'.batch
      BY <3>1, Zenon DEF IndInv, HeldInv, IsOsr
    <3> QED
      BY <3>1, <3>2, Zenon DEF Held, IsOsr
  <2>2. Abstract!SettleLoop(LoopOf(req))
    BY <1>1, <1>3, <2>1, Settles, Zenon
  <2>3. LoopOf(req) \in Loops
    BY <1>3, Zenon DEF IndInv, HeldInv
  <2> QED
    BY <2>2, <2>3, Zenon
<1>4. CASE IsOsr(req) /\ req' = req
  <2>1. /\ Held = {} /\ Held' = {} /\ HeldLoops' = HeldLoops
        /\ Queued' = Queued /\ QueuedLoops' = QueuedLoops
    BY <1>1, <1>4, Zenon DEF Held, HeldLoops, Queued, QueuedLoops, IsOsr, LoopOf
  <2> QED
    BY <1>1, <2>1, Stutters, Zenon
<1>5. CASE ~IsOsr(req)
  <2>1. ~IsOsr(req')
    BY <1>2, <1>5 DEF IsOsr, NoRequest
  <2>2. HeldLoops' = HeldLoops
    BY <1>5, <2>1, Zenon DEF HeldLoops, IsOsr
  <2>3. Held' \subseteq Held
    <3>1. CASE req' = NoRequest
      <4>1. req'.batch = {} /\ thunks' \subseteq req'.batch
        BY <2>1, <3>1, Zenon DEF NoRequest, IndInv, HeldInv, IsOsr
      <4> QED
        BY <4>1, Zenon DEF Held
    <3>2. CASE req' = req /\ req' # NoRequest
      <4>1. WorkerCompile /\ Held = req.batch
        BY <1>5, <3>2, ZenonT(60) DEF WorkerExit, WorkerDrop, WorkerCompile, WorkerPublishOsr, Held
      <4>2. Held' \subseteq req'.batch
        BY <2>1, Zenon DEF Held, IndInv, HeldInv, IsOsr
      <4> QED
        BY <3>2, <4>1, <4>2, Zenon
    <3> QED
      BY <1>2, <3>1, <3>2, Zenon
  <2>4. Abstract!Abandon(Held \ Held')
    BY <1>1, <2>2, <2>3, Abandons, Zenon
  <2>5. Held \ Held' \in SUBSET Funcs
    BY InFlightReserved, Zenon
  <2> QED
    BY <2>4, <2>5, Zenon
<1> QED
  BY <1>2, <1>3, <1>4, <1>5, Zenon

(* Every step of the manager is an abstract step or a stutter. *)
LEMMA RefinesNext ==
  ASSUME IndInv, IndInv', [Next]_vars
  PROVE  [Abstract!Next]_(Abstract!vars)
<1>1. ASSUME UNCHANGED <<FuncTable, Seen_, SeenOsr_, Queue_, OsrQueue_, req, thunks>>,
             \/ wpc' = wpc
             \/ wpc' \notin {"install", "store"} /\ wpc \notin {"install", "store"}
             \/ wpc' \in {"install", "store"} /\ wpc \in {"install", "store"}
      PROVE  UNCHANGED Abstract!vars
  <2>1. Queued' = Queued /\ QueuedLoops' = QueuedLoops
    BY <1>1, Zenon DEF Queued, QueuedLoops, LoopOf
  <2>2. Held' = Held /\ HeldLoops' = HeldLoops
    BY <1>1, Zenon DEF Held, HeldLoops, IsOsr, LoopOf
  <2> QED
    BY <1>1, <2>1, <2>2, Stutters, Zenon
<1>2. ASSUME NEW t \in Threads, LocalStep(t) \/ EnqueueNotify(t)
      PROVE  UNCHANGED Abstract!vars
  <2>1. CASE LocalStep(t)
    BY <1>1, <2>1, LocalFrame, Zenon DEF seenVars, queueVars, workerVars
  <2>2. CASE EnqueueNotify(t)
    BY <1>1, <2>2, Zenon DEF EnqueueNotify, WakeWorker, seenVars, queueVars
  <2> QED
    BY <1>2, <2>1, <2>2, Zenon
<1>3. ASSUME NEW t \in Threads,
             \/ EnqueueCall(t) \/ EnqueueCallSkip(t)
             \/ EnqueueOsr(t) \/ EnqueueOsrSkip(t)
      PROVE  Abstract!Next \/ UNCHANGED Abstract!vars
  BY <1>3, EnqueueCallRefines, EnqueueCallSkipRefines, EnqueueOsrRefines,
     EnqueueOsrSkipRefines, Zenon DEF Abstract!Next
<1>4. CASE WorkerSleep \/ WorkerSpuriousWake \/ WorkerStart
  BY <1>1, <1>4, Zenon DEF WorkerSleep, WorkerSpuriousWake, WorkerStart, seenVars, queueVars
<1>5. CASE WorkerMarkSeen
  <2>1. thunks \subseteq Seen_
    BY <1>5 DEF WorkerMarkSeen, IndInv, HeldInv, ReservedInv
  <2>2. Seen_' = Seen_
    BY <1>5, <2>1, Zenon DEF WorkerMarkSeen
  <2> QED
    BY <1>1, <1>5, <2>2, SMTT(60) DEF WorkerMarkSeen, queueVars
<1>6. CASE WorkerPick \/ WorkerStoreEntry
  BY <1>6, PickRefines, StoreEntryRefines, Zenon DEF Abstract!Next
<1>7. CASE WorkerExit \/ WorkerDrop \/ WorkerCompile \/ WorkerPublishOsr
  BY <1>7, GiveUpRefines, Zenon DEF Abstract!Next
<1>8. CASE Shutdown \/ CloserStep \/ UNCHANGED vars
  BY <1>1, <1>8, Zenon
  DEF Shutdown, CloserStep, ShutdownNotify, Join, WakeWorker, vars, seenVars,
      queueVars, workerVars
<1> QED
  BY <1>2, <1>3, <1>4, <1>5, <1>6, <1>7, <1>8, Zenon
  DEF Next, ThreadStart, ThreadStep, WorkerStep, LocalStep

(* The tier-2 manager implements the abstract life cycle of functions and  *)
(* loops: nothing is compiled twice, retried or lost while it is queued.   *)
THEOREM Refinement == Spec => ImplementsTierUp
<1> QED
  BY RefinesInit, RefinesNext, IndInvariant, PTL
  DEF Spec, ImplementsTierUp, Abstract!Spec
=============================================================================
