# A TLA+ verification of WasmEdge's execution core

WasmEdge loads a Wasm module, validates it, instantiates it against a store and
executes it. This fork adds a tiered JIT: a fast IR-based compiler (tier 1)
whose code counts calls and loop back-edges, and a background worker that
recompiles hot functions with LLVM (tier 2) and lets running loops jump into
the new code (on-stack replacement, OSR).

This directory models the parts of that system whose correctness depends on
the order of events: several threads on shared counters, queues and condition
variables; activations nested through native code that leave by `longjmp`;
stacks that two components keep for each other; owners and registrations of
instances that come and go; descriptors, rights and pollers that the threads of a
guest share. It also models the algorithms where the engines have to agree with
one another: the graph tier 1 builds from structured control, and the numeric
instructions that are implemented three times. Paths below are relative to `src/`.

## The system and its parts

| Part | Where | Module |
|---|---|---|
| VM stages, store, instance lifetimes | `lib/vm/vm.cpp`, `include/runtime/storemgr.h`, `include/runtime/instance/module.h`, `lib/executor/instantiate/module.cpp` | `VMStore` |
| Loading and validation of control | `lib/loader/ast/instruction.cpp`, `lib/validator/formchecker.cpp` | `WasmControl` |
| Interpreter: blocks, branches, calls, exceptions | `lib/executor/engine/engine.cpp`, `controlInstr.cpp`, `lib/executor/helper.cpp`, `include/runtime/stackmgr.h` | `WasmControl` |
| IR JIT activations and trampolines | `lib/vm/ir_jit_engine.cpp`, `lib/executor/helper.cpp` | `JitInvoke` |
| Profiling emitted by tier 1 | `lib/vm/ir_builder.cpp`, `lib/executor/helper.cpp` | `Tier2Manager` |
| Tier-2 manager and worker | `lib/vm/tier2_manager.cpp` | `Tier2Batch`, `Tier2Manager`, `TierUp`, `Tier2Refinement` |
| Tier-2 compiler | `lib/vm/tier2_compiler.cpp` | its outcomes, in `Tier2Manager` |
| Threads: atomic wait and notify | `include/executor/engine/atomic.ipp`, `lib/executor/engine/threadInstr.cpp` | `AtomicWait` |
| Asynchronous execution, stop token | `include/common/async.h`, `include/executor/executor.h` | `AtomicWait` |
| Graph construction of tier 1, OSR entries | `lib/vm/ir_builder.cpp` | `IRBuilder` |
| Numeric instructions, three implementations | `include/executor/engine/*_numeric.ipp`, `lib/llvm/compiler.cpp`, `lib/vm/ir_builder.cpp` | `Numeric` |
| Memory growth and mapping | `include/runtime/instance/memory.h`, `lib/system/allocator.cpp`, `lib/executor/engine/proxy.cpp` | `MemoryGrow` |
| Table, reference, SIMD instructions | `lib/executor/engine` | types only, in `WasmControl` |
| Signal handling | `lib/system/fault.cpp`, `lib/executor/helper.cpp` | `FaultHandler` |
| Statistics and gas | `include/common/statistics.h`, `lib/llvm/compiler.cpp` | `Gas` |
| LLVM compiler | `lib/llvm` | numeric instructions in `Numeric`, gas in `Gas` |
| WASI: paths | `lib/host/wasi/vinode.cpp` | `WasiPath` |
| WASI: descriptors and rights | `include/host/wasi/environ.h`, `vinode.h`, `lib/host/wasi/vinode.cpp` | `WasiFds` |
| WASI: polling | `lib/host/wasi/inode-linux.cpp`, `include/host/wasi/environ.h` | `WasiPoll` |
| WASI: data transfer, clocks, sockets | `lib/host/wasi` | not modelled |
| Binary decoding, serialization, AOT loading | `lib/loader`, `lib/aot` | not modelled |
| Module and component validation | `lib/validator/validator.cpp`, `component_validator.cpp` | not modelled |
| C API | `lib/api/wasmedge.cpp` | force-deletion in `VMStore`, cancelling in `AtomicWait` |
| Plug-ins and their manager | `lib/plugin`, `plugins` | not modelled |
| Tools, option parser | `lib/driver`, `lib/po`, `tools` | not modelled |
| Language bindings, examples, benchmarks, tests, third-party code | `bindings`, `examples`, `bench`, `test`, `thirdparty` | outside the system |

They interact as follows. The embedder calls the VM, which holds one mutex:
exclusively to load, validate, instantiate, register or clean up, shared to
execute. Instantiation reads the store and runs wasm code; several threads may
execute at the same time, on one `Executor`, with one stop token and one
`WaiterMap`. Each execution has a `StackManager`; tier-1 functions run natively
on the C++ stack and come back through trampolines for host functions,
imports and `call_indirect`. Tier-1 code writes counters without locks and calls
`Tier2Manager::enqueue` at a threshold; the manager's worker compiles and
stores the new entries into the tables that tier-1 code reads.

## The modules

### Tier2Batch, Tier2Manager: tier-up of one module instance

`Tier2Batch` has the pure part, over a call graph given as a constant:
`Promotable` (`isPromotable`), `WalkUpRoots` (`walkUpRootLocked`) and
`BfsDownBatches` (`bfsDownBatchLocked`), with the depth of one that the code uses. The code
iterates over an `unordered_map`, so the members of a batch that is cut at
`MaxBatchSize` are a choice.

`Tier2Manager` has one process per executing thread, the worker, and the thread
that destroys the manager. Everything done under `Mu_` is one step. Every load
and store that tier-1 code does without a lock is a step of its own: the call
counter and the back-edge counter are incremented by a load and a store between
which other threads run. Spurious wake-ups of the worker, failing compilations,
failing symbol lookups for some of a batch (`CompileMayFail`), the limit
`MaxCompilations` and a shutdown at any point are included. The telemetry is
left out, and so is more than one module instance.

`TierUp` is what the manager promises: a function is cold, requested, then tier 2
or abandoned, and never goes back; a loop is counting, requested, settled.
`Tier2Refinement` reads these states off the queues, sets and tables.

### AtomicWait: one Executor, several executions

`memory.atomic.wait` compares the cell, registers the waiter under
`WaiterMapMutex`, blocks on the waiter's own condition variable, re-reads the
cell after a wake-up, and unregisters: each is a step. `memory.atomic.notify`
and `Executor::stop` walk the map entry by entry while they hold the mutex.
`Async::cancel` sets the stop token, which the next function entry, branch or
return of *any* execution consumes. A condition variable reaches only a thread
that is already blocked. Values of futures and bounds errors are left out.

### JitInvoke: nested activations on one thread

The state is what `enterFunction`, `runFunction`, `jit_host_call`,
`jit_call_indirect` and `IRJitEngine::invoke` keep outside their own C++ frames:
the frames on the `StackManager`s, `g_jitStackMgr` and `g_jitModInst`, the
thread's one `jmp_buf`, the published `JitExecEnv` and the execution context. Host
functions may call back, return errors or terminate; JIT and interpreted code
may trap. Undefined behaviour (a `longjmp` to a returned function, a dead
`StackManager`) ends in `crashed`. Arguments and results are left out.

### WasmControl: from validated code to execution

The first phase reads a function instruction by instruction, choosing from a
menu: `loadInstrSeq` finds the ends of blocks, `FormChecker` checks operand types
and records for each branch the number of values to keep and to erase. What
they reject is not continued. The second phase runs the function on a
`StackManager` that knows no labels: values, frames with handlers, a program
counter. Values are types; conditions are arbitrary. Instructions without
control are stack transformations. `br_on_*`, calls through references and the
initialisation of locals are left out. `typing` records what `FormChecker` saw at every
position, and `Unreached` where one of the blocks around it was marked unreachable.

Three constants open what the interpreter does not get right. Where one is false, and in the
run `control` all are, an execution ends just before such a step; no function is left out.

* `MayCatchLate`: an exception may be offered to the handler of a `try_table` that was left by
  a branch (the run `control_leave_try`). Functions leave such blocks in both runs.
* `MayStrayPayload`: a `catch_all` clause may catch an exception with values, which
  `popTopHandler` keeps on the stack although the label of the clause takes none, and a
  `throw_ref` may throw such an exception, whose reference names its tag only. With it
  `OperandsAsTyped` fails on `try_table (catch_all 0) ... throw`, one value too many.
* `MayJumpAstray`: a branch to the label of a `try_table` itself may be taken. For it
  `FormChecker` (`lib/validator/formchecker.cpp:386`) calls `getJumpEnd`, which reads the
  member of a union that holds the pointer to the `TryDescriptor`; the target of such a branch
  is any instruction of the function (`Targets`).

### VMStore: stages, registrations, lifetimes

Each mutating call of `VM` is an action; an instantiation is two, and between
them the embedder may register, unregister and delete its own host modules,
since the store has a mutex of its own. An instance is an address that is used
again after it was freed; `Destroy` is `~ModuleInstance` with its callback into
the store, which erases *by name*. `ForceDelete` deletes any registered module, also one
that the VM owns: `forced` holds those, and `twice` what is then deleted a second time,
after which a behaviour ends. The embedder does not delete what others have
imported, as `include/api/wasmedge/wasmedge.h:3276` asks of it. The sections of
an instance, component instances beyond whether their component validates,
several VMs on one store, and the unlocked accesses inside `~ModuleInstance` and
`StoreManager::reset` are left out.

### IRBuilder: the graph of tier 1 against the interpreter

`WasmToIRBuilder` makes one pass over a function and keeps an operand stack, the
locals, and for every label the ENDs of the paths that left it with their locals and
results; `visitEnd` merges them with PHIs, loop headers are patched when their back
edges are known, and an OSR entry is made from the tail of the body. The module reads
every function of a menu (`Load`), builds its graph (`Build`) and runs the interpreter
and the graph side by side (`Silent`, `Osr`, `Respond`), each stopping where a value is
made, used, tested or returned, where memory is read or grown, and at a trap. Values
are tokens, so the arithmetic and the coercions between types are left out. A block type is
one result, none, or a type index with parameters and results; the builder does not look the
index up and takes such a block for one without results.

### Numeric: three implementations of an instruction

Division, remainder, shifts, rotations, minimum, maximum, truncations and conversions
as the interpreter computes them (`Interp`), as the code from `lib/llvm/compiler.cpp`
does (`Compiled`, with LLVM's undefined cases as an outcome of their own) and as tier 1
emits them (`TierOne`). Integers keep a width, floats a precision; `Means` says
what the instruction stands for, without an algorithm. NaN payloads are left out.

### FaultHandler: Fault objects of several threads

A compiled call has a `Fault` on its stack, linked through a thread-local pointer; a
fault jumps to the innermost one and drops everything above it. The process-wide
handlers are counted: the increment and the installation, the decrement and the removal
are two steps each, with other threads in between.

### Gas: one budget, interpreted and compiled code

`addCost` and `subCost` are compare-exchange loops, a step per load and exchange.
Compiled code adds up a block in a local and charges it at calls, branches and returns
(`updateGas`), or without a test when it traps (`updateGasAtTrap`). Functions of both
kinds call each other on several threads; sums are modulo `W`, the code's 2^64. The host sets
the limit and clears the statistics at any time.

### WasiPath, WasiFds, WasiPoll: what a guest reaches through WASI

`WasiPath` is the loop of `VINode::resolvePath`, an action per way to go on: `.` and
`..`, an entry, a link, the last part; a recursive definition in the same module says what
POSIX resolution finds below a directory. `WasiFds` has the descriptor map, under its
lock, and the nodes' rights, under none: the test and the two assignments of
`fd_fdstat_set_rights` and the test and the result of `path_open` are separate steps, and
`revokedBase` and `revokedInheriting` hold what others took from a node since a call's test.
`WasiPoll` has the pollers that outlive a call of `poll_oneoff`: their own two books of
what is subscribed, and beside them the kernel's, which changes when files are closed.

### MemoryGrow: a memory that threads grow

`memory.grow` reads the size for its answer, reads it again, tests three limits, maps
the new pages over whatever the range held, and sets the size: five steps without
a lock, beside other growths and stores. The interpreter tests an access against
the size, compiled code relies on what is not mapped; the model has both. Memory is
mapped as on 64-bit Linux, where growth does not move it; `realloc`, used elsewhere,
does, and is left out, as is the release of a memory.

### The suites

Components that do not interact share a run: `MCCode` (`WasmControl`, `IRBuilder`,
`Numeric`), `MCExec` (`JitInvoke`, `FaultHandler`, `Gas`) and `MCHost` (`VMStore`,
`WasiPath`, `WasiFds`, `WasiPoll`, `MemoryGrow`). A behaviour of a suite is one of a single
component, which the initial state chooses, while the others rest; so a run has the
sum of their states and not the product.

## The runs

| Run | Configuration | What it shows |
|---|---|---|
| `tier2_safety` | `Tier2Safety.cfg` | Two racing threads: `CompiledOnce`, `RequestSound`, `TriggerRecorded`, `NoLostWakeup` and the refinement `ImplementsTierUp` hold with failing compilations and a shutdown at any point. |
| `tier2_progress` | `Tier2Progress.cfg` | One thread: hot functions are promoted and hot loops get their entry (`HotFunctionPromoted`, `HotLoopGetsEntry`). |
| `tier2_settle` | `Tier2Settle.cfg` | With failures, the limit and a shutdown, requests are finished (`RequestsSettle`) and the destructor returns (`ShutdownJoins`). |
| `tier2_osr_race` | `Tier2OsrRace.cfg` | **Violated.** Two threads: `OsrReadyStable` fails. |
| `wait_notify` | `AtomicWait.cfg` | `IteratorsValid` and `NotifyCountExact` with three executions, two memories at one address and a canceller: two waiters for a count of one, and a waiter of the other memory on the way. |
| `wait_timed` | `AtomicWaitTimed.cfg` | A wait with a deadline ends (`TimedWaitEnds`), and no way of ending one leaves its entry in `WaiterMap` (`NoWaiterLeftBehind`). |
| `wait_cancel_lost` | `AtomicWaitCancelLost.cfg` | **Violated.** `CancelEnds`: a cancelled execution that waits without a deadline ends. |
| `jit_nested` | `Exec.cfg` | `JitInvoke`: `InnermostPublished`; `TopFrameIsOwn` until an import has failed unnoticed. `FaultHandler`: `CountIsLive`, `HandlerIsInnermost`, and `InstalledUnlessOverlap`: handlers are missing only in the windows it names. `Gas`: `GasAccounted`, `LimitRespected`, `RefundCovered`. |
| `jit_termination` | `JitTermination.cfg` | **Violated.** `NeverCrashes`. |
| `control` | `Code.cfg` | `WasmControl`: `OperandsAsTyped` and `NoHandlerMissing` for every function of up to six instructions of the menu that validates, up to one of the three steps above. `IRBuilder`: `TierOneAgrees` and `OsrLoopsAgree` for every function of its menus. `Numeric`: `EnginesAgree` for interpreter and LLVM code, `TierOneDiffersAsListed` for tier 1. |
| `control_leave_try` | `WasmControlTry.cfg` | **Violated.** `OnlyEnclosingHandlers`, by a branch from a `try_table` to a block around it. |
| `vm_store` | `Host.cfg` | `VMStore`: `LinksAgree`, `NoDangling`, `InstantiatedIsCurrent`, `OnlyValidated`. `WasiPath`: `BeneathBase`, `ResolvesAsReference`. `WasiFds`: `RightsWithinGrant`, `OnlyRemoved`. `WasiPoll`: `BookMatchesKernel`, `WaitsForWhatWasAsked`. `MemoryGrow`: `MappedAsCounted`, `PagesHandedOnce`, `GrowthKeeps`. |

### What the violated runs found

* `tier2_osr_race`. The comment at `lib/vm/ir_builder.cpp:2356` says that a second
  thread sees the saturated back-edge counter and skips its store. A thread that
  had loaded the counter before saturation does not: it overwrites it, notifies
  again and resets a published slot to WAITING, and `SeenOsr_` refuses a second
  request, so the loop never gets its entry back.
* `wait_cancel_lost`. `atomicWait` reads the stop token only after it was woken.
  A `stop()` between its comparison and its blocking wakes nobody, and the
  execution sleeps for ever with the token set.
* `jit_termination`. A nested `IRJitEngine::invoke` overwrites the thread's one
  `jmp_buf`. When a nested function terminates, the outer trampoline jumps into a
  function that has returned. `notes/benchmarking/total_improvement.md` describes
  a save/restore for this, which the tree does not contain.
* `control_leave_try`. `removeInactiveHandler` stops at the first active handler.
  A handler left behind by a branch below it is later offered exceptions of
  blocks it does not enclose.

### What the passing runs show of the corners

Some properties hold but for cases they name. Those cases are behaviours of the code:

* `VMStore`: `WasmEdge_VMForceDeleteRegisteredModule` of a module the VM owns leaves the VM
  with a deleted instance, which the next cleanup deletes again; `NoDangling` says that
  nothing else is deleted twice. A cleanup takes from a failed instance, which the store
  keeps, what it had imported, the embedder's modules excepted. A
  component that failed validation in `runWasmFile` can be instantiated
  (`RunComponent("bad")`, then `InstantiateComponent`), since only modules have a validated
  flag.
* `IRBuilder`: the five kinds of functions above `TierOneAgrees` (an `if` in dead code, an
  `if` whose arms end in branches to its own end, a path that ends with operands on the
  stack, `memory.grow` inside a block, a block with a type index to which two paths bring
  different values) are translated differently from what the
  interpreter does. The fourth reads through a base from before the growth, which is
  harmless where growth does not move the memory.
* `Numeric`: `TierOneMayDiffer` lists the operands on which tier 1 need not compute what the
  interpreter does (divisions by zero and their overflow, truncations out of range, unsigned
  conversions of large values, minimum and maximum of NaNs and zeros). On all others it
  does. On those listed its result is another one, or it is `Undefined`: any value or a fault,
  as the machine has it, so the same value by chance included.
* `FaultHandler`: a thread that counts its `Fault` from zero while another is about to
  remove the handlers can end without handlers.
* `Gas`: when a compiled function is left by a jump, the gas of its last block is
  dropped; at a trap gas is added without a test of the limit. After the statistics were
  cleared while a thread was in a branch, the refund at its end is taken from what others
  have paid since, and a refund may be refused, which stops a program for its limit.
* `WasiPath`: the slash of `l/` is lost when the link `l` is replaced by its contents. For a
  path that ends in `./` or `../` the name returned is empty and the call fails; the comment
  at `include/host/wasi/vinode.h:725` promises `.`.
* `WasiFds`: two threads that remove rights of one descriptor at once may give
  back what the other has removed, although "This can only be used to remove rights"
  (`include/host/wasi/vinode.h:152`). It is exactly what was removed between the test and the
  assignment, never more.
* `WasiPoll`: after an `epoll_wait` that failed, or a file that was closed by
  `fd_renumber` or under a poller in use, a poller's books have an entry the kernel has
  not. A call whose subscriptions were all refused waits for ever. A standard stream stays
  open after `fd_close`, and in a poller: the next call is handed an event that `FdDatas` does
  not have, against the `assuming` at `lib/host/wasi/inode-linux.cpp:1875`.
* `MemoryGrow`: two overlapping growths may get the same pages, map over pages that
  already hold data, and set the size back; the pages within the size stay mapped.

### Bounds

* Tier 2: four or five functions with an import, an unsupported function, a
  function with two callers, and a batch cap of 2, so that batches are cut,
  overlap and compete; thresholds of 1 or 2, so that the counter is met below, at
  and above the threshold; `Saturated = 9` stands for `UINT32_MAX` and is never
  reached by counting. Two threads are what every race here needs; progress is
  checked with one, because with two the loop property is false (above).
  `MaxCompilations` is the code's own limit. A thread makes as many calls as it
  likes: counters saturate, so the state space is finite.
* Wait and notify: three executions, so that a notifier meets two waiters; two memories
  that share an address (the map is keyed by address only), counts of 1 and 2. The runs with
  liveness have one or two executions, one memory and two values.
  `MaxNotifies` and `MaxCancels` bound the behaviour. `CHECK_DEADLOCK FALSE`:
  executions end, and a wait without deadline may wait for ever.
* `JitInvoke`: nesting of 4 and 7 activations in a behaviour allow a return into an outer
  activation followed by another nested call that fails, of any mix of callees.
* Control: six instructions with nesting 5, a callee that returns or throws with a value and
  one that leaves a `try_table` by a branch inside another, throws there or after it, catches
  by reference and rethrows; all loops may iterate for ever. The
  violated run needs ten instructions, of a smaller menu.
* `IRBuilder`: all functions of up to 8 instructions from four menus (shapes, results,
  values, type indices) and up to 11 from a fifth (memory), one local, nesting 4, OSR after one back
  edge. A bit tells the values of two iterations apart, and loops may iterate for ever.
* `Numeric`: `i32` and `f32` have 8 bits, `i64` and `f64` 16, with significands of 5 and 11,
  so that `f64` holds every `i32` and no other conversion is exact, as in the code; operands
  are all boundaries of the widths, and sequences of 2 instructions let one
  instruction's result be another's operand.
* `FaultHandler`: three threads, so that one can count while another removes and a third
  runs, with calls 2 deep: a compiled call within a compiled call and a jump past a JIT
  call. `Gas`: `W = 4` and limits 1 and 2, so that sums reach the limit, pass it at traps and
  wrap; two threads, one that interprets and one that also runs compiled code and a call
  within a call (`Kinds`, `MaxFrames`).
* `WasiPath`: a tree of three levels with links to a directory, through a link, up and down
  again, out of the base, to themselves and to an absolute path, and a directory that may
  not be searched; all paths of up to three parts with and without a slash, from four
  kinds of descriptors; `kMaxNestedLinks = 8` is the code's.
* `WasiFds`: two threads, two descriptor numbers, two nodes, requests with and without
  implied rights. The theorems have no such bounds.
* `WasiPoll`: one polling and one closing thread, a file never closed and one that
  is, three calls, so that a poller is reused twice. (Two polling threads were
  checked as well, on 3.7 million states.)
* `MemoryGrow`: two threads, counts 0, 1 and 2, from one page to a limit of three of four
  pages, so that each test can refuse. (Three threads were checked as well.)
* VM: one registrable name for which the VM and the embedder compete, a module
  without imports, one that imports WASI and that name, and one that is invalid;
  four live instances: WASI, a host module, an active or failed instance, and
  one being made.

The suites say `CHECK_DEADLOCK FALSE`: an execution, a path or a bounded number of
calls comes to its end, and a process whose handlers are gone may die.

Symmetry of threads, executions and modules is used in runs without liveness
properties only.

### Fairness

* `Tier2Manager!FairSpec`: weak fairness of the steps of each thread that is inside
  tier-1 bookkeeping or `enqueue`, of the worker and of the joining thread: the
  operating system runs every runnable thread. Nothing is assumed of the wasm
  program, of spurious wake-ups, or that a shutdown comes.
* `AtomicWait!Fairness`: weak fairness of the steps of a thread inside the runtime
  and of the holder of the mutex. Strong fairness of `Poll`, since a guest that runs
  reaches a branch, call or return again and again, and of `Expire`, since a
  deadline that has passed stays passed however often the thread blocks again. No
  guest is assumed to finish, store, notify or wait.

## The proofs

All are checked by TLAPS, for every value of the constants that satisfies the named
assumptions (`BatchAssumption`, `ManagerAssumption`, `ConstantsOK`, `RightsAssumption`,
`MemoryAssumption`, `PathAssumption`, `PollAssumption`, `GasAssumption`, each in the
module that declares the constants).

`Tier2Proofs`, for any number of threads, functions and loops and any call
graph: `IndInvariant` and its consequences `TypeCorrect`, `NeverCompiledTwice`,
`LoopNeverRequestedTwice`, `TriggersRecorded`, `WakeupsNotLost`, `RequestsSound`.
`CompiledOnce` (batches in the queue, in the worker's hands and already published are
disjoint) is not inductive: that a *new* batch is disjoint from all others
follows from the filter on `Seen_`, so the invariant adds that `Seen_` and
`SeenOsr_` cover everything queued, held or published (`ReservedInv`), that a
thread's registers name an existing function and loop (`SiteInv`), and what the
worker holds at each of its steps (`HeldInv`). OSR requests bypass the filter, which
is why they are excluded from `CompiledOnce` and covered by `OsrRequestedOnce`.
There is one lemma per kind of action, with one step per conjunct it can disturb.

Also in `Tier2Proofs`: `Refinement`, `Spec => ImplementsTierUp`. Each action is
mapped to the abstract step it takes or to a stutter, from `IndInv`: a function that
leaves the queue is still held, one that is published was requested.

`AtomicWaitProofs`, for any number of executions, memories and addresses:
`IndInvHolds`, `IteratorsAreValid`, `NoWaiterIsLeftBehind`, `NotifyCountsExactly`. The
invariant ties an entry of `WaiterMap` to the control point of its execution, the
holder of the mutex to the walk, and the count of a walk to the cardinality of the
waiters it has passed; the last needs the facts on cardinalities of
`FiniteSetTheorems`, hence the assumption that `Execs` is finite.

`VMStoreProofs`, for any names, modules, imports between them and number of
instances: `Invariance`, `StoreAgrees`, `NothingDangles`, `RunsWhatIsLoaded`,
`InstancesAreValid`, whatever `ForceDelete` is given. The argument is about
who goes: an instance that is replaced or recycled is in nobody's name or imports,
since only registered, host and built-in instances are (`LinkInv`), and each instance
has one owner and exists unless it is in `forced` (`OwnersInv`). `Cleanup` may destroy registered instances since what
stays imports nothing. `InstantiatedIsCurrent` needs to know, between the two steps of
an instantiation, that it is of the loaded module, or that a run has already sent
the stage back (`StageInv`).

`MemoryProofs`, of `FaultHandler`, for any threads and any depth of calls: `FaultInvariant`,
`CountAlwaysLive`, `HandlerAlwaysInnermost`, `AlwaysInstalledUnlessOverlap`. That
`localHandler` is innermost is not inductive, since a return or a jump goes to an older
`Fault`: the invariant says of every compiled call that its `Prev` is the innermost one
below it (`ChainInv`), and that without an overlap handlers are removed while nothing is
counted (`WindowInv`). The count is a cardinality, hence the finiteness of `Live` in it.

Also in `MemoryProofs`, of `MemoryGrow`, for any threads, limits and counts:
`MemInvariant`, `AlwaysMappedAsCounted`, `AlwaysPagesHandedOnce`, `GrowthAlwaysKeeps`.
That pages within the size are mapped survives races because nothing is unmapped and a
thread sets a size only after it has mapped all of it (`MappedBeforeCounted`). The rest
needs that without overlap one thread grows at a time and what it read is current
(`OneAtATime`), and that whatever is mapped is counted or about to be
(`MappedIsCounted`).

`WasiProofs`, of `WasiFds`, for any threads, descriptors, nodes and rights:
`FdsInvariant`, `RightsAlwaysWithinGrant`, `RightsOnlyRemoved`. A call that has passed its
test works with rights tested before; the invariant adds that these are within the grant
of the node, which never changes (`PendingWithinGrant`), and that the node can still do what was tested, or others took it
away meanwhile (`TestedFor`).

Also in `WasiProofs`, of `WasiPoll`, for any threads, descriptors, native numbers and
number of calls: `PollInvariant`, `AlwaysPollTypeOK`, `AlwaysBookMatchesKernel`,
`AlwaysWaitsForWhatWasAsked`. What a call will wait for depends on what earlier calls left
in the poller it takes from the pool, so the invariant speaks of every poller, in a call
or in the pool, through one predicate for each (`Polled`, `Pooled`): the kernel's set and
the poller's two books agree, except for numbers closed since, which are marked stale
(`Sound`, with `Rests` between calls and `Waiting` during one), and what the poller has
registered is what the call has asked for so far (`Serves`). A step of one thread that
opens or closes a file changes the kernel's set under every poller at once; the lemmas
for these two say what that does to a single poller, whoever holds it.

`WasiPathProofs`, for any tree of directories and links (cyclic links included), any path
and any bound on links: `PathInvariant`, `AlwaysBeneathBase`, `FollowsReference`. `PathAssumption` says of the tree what a file system gives: names are
not empty, an entry is not a directory and a link at once, subdirectories are directories,
and a link is not empty. That the walk stays beneath the base follows from `PartFds` being
a way down from it. For the agreement with the reference, `Follows` says at each step that
the reference, started from the place the walk has reached, with the parts left and the
links already followed, returns what it returns for the whole call. The
reference is a recursive function, and TLA+ gives such a definition its meaning only if a
function with that equation exists. It exists since each case calls the reference at most
once, as its result: `TailRecursion` takes for each place the least set of places closed
under the calls, in which the calls end at one place or nowhere, and needs no
induction. The lemma `ReferenceEquation` is the consequence the other proofs use. `DottedStep`
shows that only a path ending in `./` or `../` leaves the empty name.

`GasProofs`, for any threads, limits, cost table and width of the counter:
`GasInvariant`, `AlwaysGasAccounted`, `AlwaysLimitRespected`, `AlwaysRefundCovered`.
That the sum is what was run less what is still in the threads' locals is about a sum
over all frames of all threads. It is stated as the cardinality of a set, one element for
each unit of gas in a frame, so that a charge adds an interval and a flush removes one,
and the facts of `FiniteSetTheorems` apply. `LimitRespected` needs that the limit each
thread compares with was once in force (`Doing`) and that the frames below the innermost
have been flushed (`Settled`). `RefundCovered` needs a second invariant,
`RefundInv`: the sum covers the Else of every thread about to be paid back and, as long
as any thread is in a branch, an If, unless the counter has turned or was cleared under a
branch. It is proved under the hypothesis that an If is not
free. `Statistics` starts with a table in which everything costs 1; a host that sets the
If to 0 can have the refund of an Else find exactly its cost, which `subInstrCost` refuses.

`JitInvokeProofs`, for any modules, any depth and any mix of callees, errors and traps:
`JitInvariant`, `AlwaysInnermostPublished`, `FramesInvariant`, `AlwaysTopFrameIsOwn`. What
is published now says nothing of what a return or a jump over several activations puts
back, so the first invariant says of every IR JIT activation on the stack that what it
saved is what was published when it was entered (`SavedInv`). A jump takes effect only at a
live activation of IR JIT code, since numbers of activations are not used again
(`JumpInv`), and a call instruction of the interpreter returns into an interpreted
function, which publishes nothing (`CallerInv`, `ReturnInv`). The second invariant,
`FramesInv`, lays the activations out on the `StackManager`s: each has a frame of its own,
above the frame of its caller by as much as the kind of call pushes (`Layout`, `Above`).
While an error travels outwards nothing is said of the innermost `StackManager`, whose
frames are no longer popped one by one. It holds until an error of an import is swallowed,
as `TopFrameIsOwn` does. The bounds `MaxDepth` and `MaxActs` play no part.

Each inductive invariant was also checked by TLC on the instance of its component's
passing run before it was proved.

Only model-checked: every liveness property (fairness is out of the prover's reach);
`IRBuilder` and `Numeric`, which are about what recursive definitions compute for every
program and every operand; and `WasmControl`, where an invariant of a run would have to
carry, for every position of a function, all that `FormChecker` recorded of it.

## Not modelled

The models cover the parts where control matters, a small share of the lines of the
repository. The rest falls into five kinds, for which a state machine says nothing a test
does not:

* Code generation (`lib/llvm`, most of `lib/vm/ir_builder.cpp`, `lib/vm/tier2_compiler.cpp`):
  one emitted pattern per instruction, without state between them. What has state, or more
  than one implementation to agree with, is in `IRBuilder`, `Numeric` and `Gas`. The IR
  framework and LLVM are external.
* Format conversion (`lib/loader`, `lib/aot`, the component loader and serializer) and
  declarative checks (`lib/validator` but for `FormChecker`): sequential, total and
  field by field; a model would be a second copy of the code.
* Adapters (`plugins`, `lib/plugin`, `lib/api`, `bindings`): one call to an external library
  each; the calls of the C API with effects of their own are in `VMStore` and `AtomicWait`.
* Platform variants (Windows and macOS in `lib/system` and `lib/host/wasi`): the Linux ones
  are modelled.
* Tools, examples, benchmarks, tests and third-party code.

Within the modelled parts, each module's section says what it leaves out.

Hazards that are known and for which no property is stated, most of them because no
module has the state they need:

* One stop token per executor: any execution may consume the cancellation of another
  (`include/executor/executor.h:288`).
* The deadline of an atomic wait is a sum of clock values that can overflow
  (`include/executor/engine/atomic.ipp:474`).
* Caches keyed by addresses that may be used again: `IRJitEnvCache_`
  (`lib/executor/helper.cpp:942`) and those of the tier-2 manager
  (`lib/vm/tier2_manager.cpp:138`).
* `ArgsBuffer_` and `OsrLocalsFrame_` belong to the engine, which several threads use
  (`lib/vm/ir_jit_engine.cpp:258`).
* An exception reference holds the tag alone (`lib/executor/engine/controlInstr.cpp:54`);
  exceptions that cross native frames (`lib/executor/helper.cpp:1156`).
* Functions of a failed instance stay in tables of others
  (`include/runtime/storemgr.h:130`); `~ModuleInstance` walks its stores without their mutex
  (`include/runtime/instance/module.h:81`).
* The native path of `call_indirect` calls a function of another instance with the
  caller's `JitExecEnv` (`lib/executor/helper.cpp:652`).

The copy of table 0 in each JIT environment is not one of them: the inline path that
would read it is switched off (`lib/vm/ir_builder.cpp:3153`), and `jit_call_indirect` reads
the table itself.
