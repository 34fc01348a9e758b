---------------------------- MODULE Tier2Manager ----------------------------
(***************************************************************************)
(* The tier-up path of one module instance: tier-1 code counts calls and   *)
(* loop back-edges, the threads that reach a threshold hand a request to   *)
(* the Tier2Manager, and its one worker thread recompiles the batch with   *)
(* LLVM and publishes the result in FuncTable (function entries) or in     *)
(* OsrEntryTable (loop entries).                                           *)
(*                                                                         *)
(* Sources: lib/vm/tier2_manager.cpp, the counters emitted by              *)
(* lib/vm/ir_builder.cpp, jit_tier_up_notify and jit_osr_notify of         *)
(* lib/executor/helper.cpp.  Everything done under Mu_ is one step; every  *)
(* load or store that tier-1 code does without a lock is a step of its     *)
(* own, so that the data races on the counters are interleavings of word   *)
(* accesses.                                                               *)
(***************************************************************************)
EXTENDS Tier2Batch, Sequences

CONSTANTS
  Threads,          \* host threads that execute tier-1 code (VM::execute
                    \* holds only a shared lock)
  Loops,            \* <<function, loop index>> of the OSR-eligible loops
  TierUpThreshold,  \* WASMEDGE_TIER2_THRESHOLD
  OsrThreshold,     \* back-edge threshold
  MaxCompilations,  \* WASMEDGE_TIER2_MAX_COMPILE
  CompileMayFail,   \* whether Tier2Compiler may reject (part of) a batch
  MayShutdown,      \* whether the manager may be shut down
  NoLoop            \* the empty optional<uint32_t> of a call-count request

ASSUME ManagerAssumption ==
  /\ \A p \in Loops : p = <<p[1], p[2]>> /\ p[1] \in Funcs /\ p[2] # NoLoop
  /\ TierUpThreshold \in 1 .. Saturated - 1
  /\ OsrThreshold \in 1 .. Saturated - 1
  /\ MaxCompilations \in Nat
  /\ CompileMayFail \in BOOLEAN
  /\ MayShutdown \in BOOLEAN

VARIABLES
  CallCounters,      \* env->CallCounters
  BackEdgeCounters,  \* env->BackEdgeCounters
  OsrEntryTable,     \* slot state: COUNTING (1), WAITING (0), READY (an entry)
  FuncTable,         \* tier of the entry of each function
  Seen_, SeenOsr_,   \* functions and loops already requested
  Queue_, OsrQueue_, \* requests not yet taken by the worker
  Shutdown_, WorkerDone_,
  pc, at, reg,       \* of each thread: next step, function and loop, register
  wpc, req, thunks, storing, \* of the worker: next step, request, thunks to
                             \* publish, the one being published
  CompileCount,
  closer             \* the thread that destroys the manager

tier1Vars  == <<CallCounters, BackEdgeCounters>>
seenVars   == <<Seen_, SeenOsr_>>
queueVars  == <<Queue_, OsrQueue_>>
threadVars == <<pc, at, reg>>
workerVars == <<wpc, req, thunks, storing, CompileCount, WorkerDone_>>
closeVars  == <<Shutdown_, closer>>
vars == <<tier1Vars, OsrEntryTable, FuncTable, seenVars, queueVars,
          threadVars, workerVars, closeVars>>

LoopIndices == {p[2] : p \in Loops} \cup {NoLoop}
Sites       == Loops \cup (Funcs \X {NoLoop})
NoSite      == << >>
Request     == [hot : Funcs, root : Funcs, batch : SUBSET Funcs,
                loop : LoopIndices]
NoRequest   == [hot |-> 0, root |-> 0, batch |-> {}, loop |-> NoLoop]
IsOsr(r)    == r.loop # NoLoop
LoopOf(r)   == <<r.root, r.loop>>

Init ==
  /\ CallCounters = [f \in Funcs |-> 0]
  /\ BackEdgeCounters = [p \in Loops |-> 0]
  /\ OsrEntryTable = [p \in Loops |-> "COUNTING"]
  /\ FuncTable = [f \in Funcs |-> "tier1"]
  /\ Seen_ = {} /\ SeenOsr_ = {}
  /\ Queue_ = << >> /\ OsrQueue_ = << >>
  /\ Shutdown_ = FALSE /\ WorkerDone_ = FALSE
  /\ pc = [t \in Threads |-> "run"]
  /\ at = [t \in Threads |-> NoSite]
  /\ reg = [t \in Threads |-> 0]
  /\ wpc = "wait" /\ req = NoRequest /\ thunks = {} /\ storing = {}
  /\ CompileCount = 0
  /\ closer = "open"

-----------------------------------------------------------------------------
(* Tier-1 code.  A thread between two instrumented points is in "run"; the *)
(* registers of a finished sequence are dead and are cleared.              *)

Goto(t, label, site, value) ==
  /\ pc' = [pc EXCEPT ![t] = label]
  /\ at' = [at EXCEPT ![t] = site]
  /\ reg' = [reg EXCEPT ![t] = value]

Resume(t) == Goto(t, "run", NoSite, 0)

(* Function prologue: load the call counter; above the threshold, nothing. *)
PrologueLoad(t, f) ==
  /\ pc[t] = "run"
  /\ f \in Funcs \ Imports
  /\ CallCounters[f] < TierUpThreshold
  /\ Goto(t, "storeCall", <<f, NoLoop>>, CallCounters[f])
  /\ UNCHANGED <<tier1Vars, OsrEntryTable, FuncTable, seenVars, queueVars,
                 workerVars, closeVars>>

(* Prologue: store the incremented counter and compare it. *)
PrologueStore(t) ==
  LET f == at[t][1] IN
  /\ pc[t] = "storeCall"
  /\ CallCounters' = [CallCounters EXCEPT ![f] = reg[t] + 1]
  /\ IF reg[t] + 1 = TierUpThreshold
     THEN Goto(t, "tierUpNotify", at[t], 0)
     ELSE Resume(t)
  /\ UNCHANGED <<BackEdgeCounters, OsrEntryTable, FuncTable, seenVars,
                 queueVars, workerVars, closeVars>>

(* jit_tier_up_notify up to the call of enqueue. *)
TierUpNotify(t) ==
  /\ pc[t] = "tierUpNotify"
  /\ CallCounters' = [CallCounters EXCEPT ![at[t][1]] = Saturated]
  /\ Goto(t, "enqueue", at[t], 0)
  /\ UNCHANGED <<BackEdgeCounters, OsrEntryTable, FuncTable, seenVars,
                 queueVars, workerVars, closeVars>>

(* Loop back-edge: load the slot.  WAITING falls through and READY leaves  *)
(* for the OSR entry; neither changes the state modelled here.             *)
BackEdgeSlot(t, p) ==
  /\ pc[t] = "run"
  /\ OsrEntryTable[p] = "COUNTING"
  /\ Goto(t, "loadBackEdge", p, 0)
  /\ UNCHANGED <<tier1Vars, OsrEntryTable, FuncTable, seenVars, queueVars,
                 workerVars, closeVars>>

(* Loop back-edge, COUNTING: load the counter and compare it unsigned. *)
BackEdgeLoad(t) ==
  LET p == at[t] IN
  /\ pc[t] = "loadBackEdge"
  /\ IF BackEdgeCounters[p] < OsrThreshold
     THEN Goto(t, "storeBackEdge", p, BackEdgeCounters[p])
     ELSE Resume(t)
  /\ UNCHANGED <<tier1Vars, OsrEntryTable, FuncTable, seenVars, queueVars,
                 workerVars, closeVars>>

BackEdgeStore(t) ==
  LET p == at[t] IN
  /\ pc[t] = "storeBackEdge"
  /\ BackEdgeCounters' = [BackEdgeCounters EXCEPT ![p] = reg[t] + 1]
  /\ IF reg[t] + 1 = OsrThreshold
     THEN Goto(t, "osrNotify", p, 0)
     ELSE Resume(t)
  /\ UNCHANGED <<CallCounters, OsrEntryTable, FuncTable, seenVars, queueVars,
                 workerVars, closeVars>>

(* jit_osr_notify saturates the counter, then clears the slot. *)
OsrNotifySaturate(t) ==
  /\ pc[t] = "osrNotify"
  /\ BackEdgeCounters' = [BackEdgeCounters EXCEPT ![at[t]] = Saturated]
  /\ Goto(t, "osrClearSlot", at[t], 0)
  /\ UNCHANGED <<CallCounters, OsrEntryTable, FuncTable, seenVars, queueVars,
                 workerVars, closeVars>>

OsrNotifyClearSlot(t) ==
  /\ pc[t] = "osrClearSlot"
  /\ OsrEntryTable' = [OsrEntryTable EXCEPT ![at[t]] = "WAITING"]
  /\ Goto(t, "enqueue", at[t], 0)
  /\ UNCHANGED <<tier1Vars, FuncTable, seenVars, queueVars, workerVars,
                 closeVars>>

-----------------------------------------------------------------------------
(* Tier2Manager::enqueue, the part under Mu_.  Its `Batch.empty()' return  *)
(* is never taken: the hot function passed the Seen_ and isPromotable      *)
(* tests, so it is in every batch (see BatchProps in the proofs).         *)

CallRequest(f, root, b) ==
  [hot |-> f, root |-> root, batch |-> b, loop |-> NoLoop]

OsrRequest(p, b) ==
  [hot |-> p[1], root |-> p[1], batch |-> b, loop |-> p[2]]

(* Call-count request of a function already requested or not promotable. *)
EnqueueCallSkip(t) ==
  LET f == at[t][1] IN
  /\ pc[t] = "enqueue" /\ at[t][2] = NoLoop
  /\ f \in Seen_ \/ f \notin Promotable
  /\ Seen_' = Seen_ \cup {f}
  /\ Resume(t)
  /\ UNCHANGED <<tier1Vars, OsrEntryTable, FuncTable, SeenOsr_, queueVars,
                 workerVars, closeVars>>

(* Mutant: only the root of the batch is reserved. *)
EnqueueCallReservesRoot(t) ==
  LET f == at[t][1] IN
  /\ pc[t] = "enqueue" /\ at[t][2] = NoLoop
  /\ f \notin Seen_ /\ f \in Promotable
  /\ \E root \in WalkUpRoots(f, Seen_, CallCounters) :
       \E b \in BfsDownBatches(root, f, Seen_, CallCounters) :
         /\ Seen_' = Seen_ \cup {root}
         /\ Queue_' = Append(Queue_, CallRequest(f, root, b))
  /\ Goto(t, "notify", at[t], 0)
  /\ UNCHANGED <<tier1Vars, OsrEntryTable, FuncTable, SeenOsr_, OsrQueue_,
                 workerVars, closeVars>>

(* Call-count request: reserve the whole batch and queue it. *)
EnqueueCall(t) ==
  LET f == at[t][1] IN
  /\ pc[t] = "enqueue" /\ at[t][2] = NoLoop
  /\ f \notin Seen_ /\ f \in Promotable
  /\ \E root \in WalkUpRoots(f, Seen_, CallCounters) :
       \E b \in BfsDownBatches(root, f, Seen_, CallCounters) :
         /\ Seen_' = Seen_ \cup b
         /\ Queue_' = Append(Queue_, CallRequest(f, root, b))
  /\ Goto(t, "notify", at[t], 0)
  /\ UNCHANGED <<tier1Vars, OsrEntryTable, FuncTable, SeenOsr_, OsrQueue_,
                 workerVars, closeVars>>

(* Mutant: OSR requests of an already requested function are dropped too. *)
EnqueueOsrSkipSeen(t) ==
  LET p == at[t] IN
  /\ pc[t] = "enqueue" /\ p[2] # NoLoop
  /\ p \in SeenOsr_ \/ p[1] \notin Promotable \/ p[1] \in Seen_
  /\ SeenOsr_' = SeenOsr_ \cup {p}
  /\ Resume(t)
  /\ UNCHANGED <<tier1Vars, OsrEntryTable, FuncTable, Seen_, queueVars,
                 workerVars, closeVars>>

(* OSR request of a loop already requested or of a function that is not    *)
(* promotable.                                                             *)
EnqueueOsrSkip(t) ==
  LET p == at[t] IN
  /\ pc[t] = "enqueue" /\ p[2] # NoLoop
  /\ p \in SeenOsr_ \/ p[1] \notin Promotable
  /\ SeenOsr_' = SeenOsr_ \cup {p}
  /\ Resume(t)
  /\ UNCHANGED <<tier1Vars, OsrEntryTable, FuncTable, Seen_, queueVars,
                 workerVars, closeVars>>

(* OSR request: ignores Seen_ and reserves only the loop. *)
EnqueueOsr(t) ==
  LET p == at[t] IN
  /\ pc[t] = "enqueue" /\ p[2] # NoLoop
  /\ p \notin SeenOsr_ /\ p[1] \in Promotable
  /\ SeenOsr_' = SeenOsr_ \cup {p}
  /\ \E b \in BfsDownBatches(p[1], p[1], {}, CallCounters) :
       OsrQueue_' = Append(OsrQueue_, OsrRequest(p, b))
  /\ Goto(t, "notify", p, 0)
  /\ UNCHANGED <<tier1Vars, OsrEntryTable, FuncTable, Seen_, Queue_,
                 workerVars, closeVars>>

(* Mutant: the notification is lost. *)
WakeNobody == UNCHANGED wpc

(* CV_.notify_one() reaches the worker only if it is blocked in CV_.wait. *)
WakeWorker == wpc' = IF wpc = "asleep" THEN "wait" ELSE wpc

EnqueueNotify(t) ==
  /\ pc[t] = "notify"
  /\ WakeWorker
  /\ Resume(t)
  /\ UNCHANGED <<tier1Vars, OsrEntryTable, FuncTable, seenVars, queueVars,
                 req, thunks, storing, CompileCount, WorkerDone_, closeVars>>

-----------------------------------------------------------------------------
(* workerLoop.  "wait" is the evaluation of the predicate with Mu_ held,   *)
(* "asleep" the blocked wait, from which a notification or a spurious      *)
(* wake-up returns.                                                        *)

(* Mutant: the wait predicate forgets the OSR queue. *)
WorkerSleepOsrForgotten ==
  /\ wpc = "wait"
  /\ Queue_ = << >> /\ ~Shutdown_
  /\ wpc' = "asleep"
  /\ UNCHANGED <<tier1Vars, OsrEntryTable, FuncTable, seenVars, queueVars,
                 threadVars, req, thunks, storing, CompileCount, WorkerDone_,
                 closeVars>>

WorkerSleep ==
  /\ wpc = "wait"
  /\ Queue_ = << >> /\ OsrQueue_ = << >> /\ ~Shutdown_
  /\ wpc' = "asleep"
  /\ UNCHANGED <<tier1Vars, OsrEntryTable, FuncTable, seenVars, queueVars,
                 threadVars, req, thunks, storing, CompileCount, WorkerDone_, closeVars>>

WorkerSpuriousWake ==
  /\ wpc = "asleep"
  /\ wpc' = "wait"
  /\ UNCHANGED <<tier1Vars, OsrEntryTable, FuncTable, seenVars, queueVars,
                 threadVars, req, thunks, storing, CompileCount, WorkerDone_, closeVars>>

(* Shutdown_ is tested with the lock held and again before compiling.      *)
WorkerExit ==
  /\ \/ wpc = "wait"
     \/ wpc = "picked" /\ CompileCount < MaxCompilations
  /\ Shutdown_
  /\ wpc' = "done" /\ WorkerDone_' = TRUE
  /\ req' = NoRequest
  /\ UNCHANGED <<tier1Vars, OsrEntryTable, FuncTable, seenVars, queueVars,
                 threadVars, thunks, storing, CompileCount, closeVars>>

(* OSR requests first. *)
WorkerPick ==
  /\ wpc = "wait" /\ ~Shutdown_
  /\ \/ /\ OsrQueue_ # << >>
        /\ req' = Head(OsrQueue_)
        /\ OsrQueue_' = Tail(OsrQueue_)
        /\ UNCHANGED Queue_
     \/ /\ OsrQueue_ = << >> /\ Queue_ # << >>
        /\ req' = Head(Queue_)
        /\ Queue_' = Tail(Queue_)
        /\ UNCHANGED OsrQueue_
  /\ wpc' = "picked"
  /\ UNCHANGED <<tier1Vars, OsrEntryTable, FuncTable, seenVars, threadVars,
                 thunks, storing, CompileCount, WorkerDone_, closeVars>>

(* Mutant: the compilation limit ends the worker loop. *)
WorkerDropStops ==
  /\ wpc = "picked"
  /\ CompileCount >= MaxCompilations
  /\ wpc' = "done" /\ req' = NoRequest
  /\ UNCHANGED <<tier1Vars, OsrEntryTable, FuncTable, seenVars, queueVars,
                 threadVars, thunks, storing, CompileCount, WorkerDone_, closeVars>>

(* Mutant: a dropped request releases its reservation. *)
WorkerDropReleases ==
  /\ wpc = "picked"
  /\ CompileCount >= MaxCompilations
  /\ wpc' = "wait" /\ req' = NoRequest
  /\ Seen_' = Seen_ \ req.batch
  /\ UNCHANGED <<tier1Vars, OsrEntryTable, FuncTable, SeenOsr_, queueVars,
                 threadVars, thunks, storing, CompileCount, WorkerDone_, closeVars>>

(* WASMEDGE_TIER2_MAX_COMPILE reached: the request is dropped. *)
WorkerDrop ==
  /\ wpc = "picked"
  /\ CompileCount >= MaxCompilations
  /\ wpc' = "wait" /\ req' = NoRequest
  /\ UNCHANGED <<tier1Vars, OsrEntryTable, FuncTable, seenVars, queueVars,
                 threadVars, thunks, storing, CompileCount, WorkerDone_, closeVars>>

WorkerStart ==
  /\ wpc = "picked"
  /\ CompileCount < MaxCompilations /\ ~Shutdown_
  /\ wpc' = "compile"
  /\ UNCHANGED <<tier1Vars, OsrEntryTable, FuncTable, seenVars, queueVars,
                 threadVars, req, thunks, storing, CompileCount, WorkerDone_, closeVars>>

(***************************************************************************)
(* compileRequest.  An OSR request yields the entry of its loop or         *)
(* nothing; a call-count request yields the forward thunks whose symbols   *)
(* were found, any part of the batch.  All failures yield an empty result, *)
(* and so does a shutdown noticed on the way.                              *)
(***************************************************************************)
CompileResults(r) ==
  LET all == IF IsOsr(r) THEN {r.root} ELSE r.batch
  IN  IF CompileMayFail THEN IF IsOsr(r) THEN {all, {}} ELSE SUBSET all
      ELSE IF Shutdown_ THEN {all, {}} ELSE {all}

WorkerCompile ==
  /\ wpc = "compile"
  /\ \E result \in CompileResults(req) :
       IF result = {}
       THEN wpc' = "wait" /\ req' = NoRequest /\ UNCHANGED thunks
       ELSE wpc' = "install" /\ thunks' = result /\ UNCHANGED req
  /\ UNCHANGED <<tier1Vars, OsrEntryTable, FuncTable, seenVars, queueVars,
                 threadVars, storing, CompileCount, WorkerDone_, closeVars>>

(* Release store of the loop entry. *)
WorkerPublishOsr ==
  /\ wpc = "install" /\ IsOsr(req)
  /\ OsrEntryTable' = [OsrEntryTable EXCEPT ![LoopOf(req)] = "READY"]
  /\ CompileCount' = CompileCount + 1
  /\ wpc' = "wait" /\ req' = NoRequest /\ thunks' = {}
  /\ UNCHANGED <<tier1Vars, FuncTable, seenVars, queueVars, threadVars,
                 storing, WorkerDone_, closeVars>>

(* Each forward thunk: Seen_ under the lock, then the plain table store. *)
WorkerMarkSeen ==
  /\ wpc = "install" /\ ~IsOsr(req)
  /\ \E f \in thunks :
       /\ Seen_' = Seen_ \cup {f}
       /\ storing' = {f}
  /\ wpc' = "store"
  /\ UNCHANGED <<tier1Vars, OsrEntryTable, FuncTable, SeenOsr_, queueVars,
                 threadVars, req, thunks, CompileCount, WorkerDone_, closeVars>>

WorkerStoreEntry ==
  /\ wpc = "store"
  /\ FuncTable' = [f \in Funcs |-> IF f \in storing THEN "tier2"
                                   ELSE FuncTable[f]]
  /\ CompileCount' = CompileCount + 1
  /\ thunks' = thunks \ storing
  /\ storing' = {}
  /\ IF thunks' = {} THEN wpc' = "wait" /\ req' = NoRequest
                     ELSE wpc' = "install" /\ UNCHANGED req
  /\ UNCHANGED <<tier1Vars, OsrEntryTable, seenVars, queueVars, threadVars,
                 WorkerDone_, closeVars>>

-----------------------------------------------------------------------------
(* ~Tier2Manager: shutdown() sets the flag under Mu_ and notifies, then    *)
(* the destructor joins the worker.                                        *)

(* Mutant: shutdown does not notify the worker. *)
ShutdownSilently ==
  /\ MayShutdown /\ closer = "open"
  /\ Shutdown_' = TRUE /\ closer' = "join"
  /\ UNCHANGED <<tier1Vars, OsrEntryTable, FuncTable, seenVars, queueVars,
                 threadVars, workerVars>>

Shutdown ==
  /\ MayShutdown /\ closer = "open"
  /\ Shutdown_' = TRUE /\ closer' = "notify"
  /\ UNCHANGED <<tier1Vars, OsrEntryTable, FuncTable, seenVars, queueVars,
                 threadVars, workerVars>>

ShutdownNotify ==
  /\ closer = "notify"
  /\ WakeWorker
  /\ closer' = "join"
  /\ UNCHANGED <<tier1Vars, OsrEntryTable, FuncTable, seenVars, queueVars,
                 threadVars, req, thunks, storing, CompileCount, WorkerDone_, Shutdown_>>

Join ==
  /\ closer = "join" /\ wpc = "done"
  /\ closer' = "joined"
  /\ UNCHANGED <<tier1Vars, OsrEntryTable, FuncTable, seenVars, queueVars,
                 threadVars, workerVars, Shutdown_>>

-----------------------------------------------------------------------------
(* Wasm code decides when a thread enters a prologue or a back-edge. *)
ThreadStart(t) ==
  \/ \E f \in Funcs : PrologueLoad(t, f)
  \/ \E p \in Loops : BackEdgeSlot(t, p)

(* The instrumentation a thread has entered runs to its end. *)
ThreadStep(t) ==
  \/ PrologueStore(t) \/ TierUpNotify(t)
  \/ BackEdgeLoad(t) \/ BackEdgeStore(t)
  \/ OsrNotifySaturate(t) \/ OsrNotifyClearSlot(t)
  \/ EnqueueCallSkip(t) \/ EnqueueCall(t)
  \/ EnqueueOsrSkip(t) \/ EnqueueOsr(t)
  \/ EnqueueNotify(t)

(* What the worker does without waiting for anyone. *)
WorkerStep ==
  \/ WorkerSleep \/ WorkerExit \/ WorkerPick \/ WorkerDrop \/ WorkerStart
  \/ WorkerCompile \/ WorkerPublishOsr \/ WorkerMarkSeen \/ WorkerStoreEntry

CloserStep == ShutdownNotify \/ Join

Next ==
  \/ \E t \in Threads : ThreadStart(t) \/ ThreadStep(t)
  \/ WorkerStep \/ WorkerSpuriousWake
  \/ Shutdown \/ CloserStep

Spec == Init /\ [][Next]_vars

(* The operating system schedules every runnable thread; nothing is        *)
(* assumed of spurious wake-ups, of the Wasm program or of Shutdown.       *)
FairSpec ==
  /\ Spec
  /\ \A t \in Threads : WF_vars(ThreadStep(t))
  /\ WF_vars(WorkerStep)
  /\ WF_vars(CloserStep)

-----------------------------------------------------------------------------
(* Properties *)

ThreadLabels == {"run", "storeCall", "tierUpNotify", "loadBackEdge",
                 "storeBackEdge", "osrNotify", "osrClearSlot", "enqueue",
                 "notify"}
Taken == {"picked", "compile", "install", "store"}

(* Every variable has its type; between requests the worker holds none. *)
TypeOK ==
  /\ CallCounters \in [Funcs -> 0 .. Saturated]
  /\ BackEdgeCounters \in [Loops -> 0 .. Saturated]
  /\ OsrEntryTable \in [Loops -> {"COUNTING", "WAITING", "READY"}]
  /\ FuncTable \in [Funcs -> {"tier1", "tier2"}]
  /\ Seen_ \subseteq Funcs /\ SeenOsr_ \subseteq Loops
  /\ Queue_ \in Seq(Request) /\ OsrQueue_ \in Seq(Request)
  /\ Shutdown_ \in BOOLEAN /\ WorkerDone_ \in BOOLEAN
  /\ pc \in [Threads -> ThreadLabels]
  /\ at \in [Threads -> Sites \cup {NoSite}]
  /\ reg \in [Threads -> 0 .. Saturated - 2]
  /\ wpc \in {"wait", "asleep", "done"} \cup Taken
  /\ IF wpc \in Taken THEN req \in Request ELSE req = NoRequest
  /\ thunks \subseteq Funcs /\ storing \subseteq thunks
  /\ CompileCount \in Nat
  /\ closer \in {"open", "notify", "join", "joined"}

(* Requests the worker has still to finish, by the queue they came from. *)
PendingCall ==
  {Queue_[i] : i \in DOMAIN Queue_} \cup (IF IsOsr(req) THEN {} ELSE {req})
PendingOsr ==
  {OsrQueue_[i] : i \in DOMAIN OsrQueue_} \cup (IF IsOsr(req) THEN {req} ELSE {})

(* Anti-fragmentation (comment at the reservation loop of enqueue): a      *)
(* function belongs to at most one call-count request that is queued or    *)
(* being compiled, and a queued function has never been promoted, however  *)
(* the threads that trip the thresholds interleave.                        *)
CompiledOnce ==
  /\ \A i, j \in DOMAIN Queue_ :
       i # j => Queue_[i].batch \cap Queue_[j].batch = {}
  /\ \A i \in DOMAIN Queue_ :
       /\ ~IsOsr(req) => Queue_[i].batch \cap req.batch = {}
       /\ \A f \in Queue_[i].batch : FuncTable[f] = "tier1"

(* The guarantee stated in bfsDownBatchLocked, "every tier-up request      *)
(* promotes its trigger function": the batch of every pending request      *)
(* holds the function that tripped the threshold and the chosen root, only *)
(* functions LLVM tier 2 supports, and at most MaxBatchSize_ of them.      *)
RequestSound ==
  \A r \in (PendingCall \cup PendingOsr) \ {NoRequest} :
    /\ r.hot \in r.batch /\ r.root \in r.batch
    /\ r.batch \subseteq Promotable
    /\ Cardinality(r.batch) <= MaxBatchSize

(* SeenOsr_ admits one request per loop: two threads that both notify for  *)
(* the same loop never queue it twice, and no entry of a loop is published *)
(* while a request for that loop is still pending.                         *)
OsrRequestedOnce ==
  /\ \A i, j \in DOMAIN OsrQueue_ :
       i # j => LoopOf(OsrQueue_[i]) # LoopOf(OsrQueue_[j])
  /\ \A i \in DOMAIN OsrQueue_ :
       /\ IsOsr(req) => LoopOf(OsrQueue_[i]) # LoopOf(req)
       /\ OsrEntryTable[LoopOf(OsrQueue_[i])] # "READY"

(* A saturated counter and a cleared slot stop tier-1 code from ever       *)
(* notifying again, so each must be backed by a recorded request, or by a  *)
(* thread that is on its way to record one.                                *)
TriggerRecorded ==
  /\ \A f \in Funcs : CallCounters[f] = Saturated =>
       \/ f \in Seen_
       \/ \E t \in Threads : pc[t] = "enqueue" /\ at[t] = <<f, NoLoop>>
  /\ \A p \in Loops : OsrEntryTable[p] = "WAITING" =>
       \/ p \in SeenOsr_
       \/ \E t \in Threads : pc[t] = "enqueue" /\ at[t] = p

(* enqueue and shutdown notify after releasing Mu_: whenever the worker is *)
(* blocked although there is work or a shutdown, somebody has still to     *)
(* notify it.                                                              *)
NoLostWakeup ==
  wpc = "asleep" /\ (Queue_ # << >> \/ OsrQueue_ # << >> \/ Shutdown_) =>
    closer = "notify" \/ \E t \in Threads : pc[t] = "notify"

(* What each thread is about to touch is a function or a loop of the       *)
(* module, by the instruction it is at.                                    *)
SiteInv ==
  \A t \in Threads :
    /\ pc[t] \in {"storeCall", "tierUpNotify"} => at[t] \in Funcs \X {NoLoop}
    /\ pc[t] \in {"loadBackEdge", "storeBackEdge", "osrNotify", "osrClearSlot"}
         => at[t] \in Loops
    /\ pc[t] \in {"enqueue", "notify"} => at[t] \in Sites

(* The worker publishes only what the request it holds may publish. *)
HeldInv ==
  /\ wpc \notin {"install", "store"} => thunks = {}
  /\ wpc # "store" => storing = {}
  /\ wpc = "store" => ~IsOsr(req) /\ \E f \in thunks : storing = {f}
  /\ ~IsOsr(req) => thunks \subseteq req.batch
  /\ \A f \in thunks : ~IsOsr(req) => FuncTable[f] = "tier1"
  /\ wpc \in {"picked", "compile"} /\ ~IsOsr(req) =>
       \A f \in req.batch : FuncTable[f] = "tier1"
  /\ IsOsr(req) => LoopOf(req) \in Loops

(* Seen_ and SeenOsr_ cover whatever is queued, held or published. *)
ReservedInv ==
  /\ \A i \in DOMAIN Queue_ : ~IsOsr(Queue_[i]) /\ Queue_[i].batch \subseteq Seen_
  /\ ~IsOsr(req) => req.batch \subseteq Seen_
  /\ \A f \in Funcs : FuncTable[f] = "tier2" => f \in Seen_
  /\ \A i \in DOMAIN OsrQueue_ :
       IsOsr(OsrQueue_[i]) /\ LoopOf(OsrQueue_[i]) \in SeenOsr_
  /\ IsOsr(req) => LoopOf(req) \in SeenOsr_
  /\ \A p \in Loops : OsrEntryTable[p] = "READY" => p \in SeenOsr_

(* The inductive strengthening of CompiledOnce and OsrRequestedOnce: a     *)
(* request is disjoint from the others because Seen_ covers all of them    *)
(* when it is made.                                                        *)
IndInv ==
  /\ TypeOK /\ SiteInv /\ HeldInv /\ ReservedInv
  /\ CompiledOnce /\ OsrRequestedOnce

(* A published OSR entry stays published: the back-edge that finds READY   *)
(* may rely on finding it again.                                           *)
OsrReadyStable ==
  [][\A p \in Loops : OsrEntryTable[p] = "READY" =>
                      OsrEntryTable'[p] = "READY"]_vars

(* A function whose counter saturated is eventually replaced in FuncTable, *)
(* when LLVM accepts every batch and nobody shuts the manager down: OSR    *)
(* priority never starves the call-count queue.                            *)
HotFunctionPromoted ==
  \A f \in Promotable :
    CallCounters[f] = Saturated ~> FuncTable[f] = "tier2"

(* A loop whose slot went to WAITING eventually has its entry published,   *)
(* under the same conditions.                                              *)
HotLoopGetsEntry ==
  \A p \in Loops : p[1] \in Promotable =>
    (OsrEntryTable[p] = "WAITING" ~> OsrEntryTable[p] = "READY")

(* Every queued request is eventually finished, whatever LLVM rejects and  *)
(* wherever WASMEDGE_TIER2_MAX_COMPILE cuts off, unless the manager is     *)
(* shut down.                                                              *)
RequestsSettle ==
  \A f \in Promotable :
    (\E r \in PendingCall \cup PendingOsr : r.root = f) ~>
       (Shutdown_ \/ ~ \E r \in PendingCall \cup PendingOsr : r.root = f)

(* ~Tier2Manager returns: the worker sees Shutdown_ wherever it is.        *)
ShutdownJoins == Shutdown_ ~> closer = "joined"
=============================================================================
