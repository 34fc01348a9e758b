------------------------------ MODULE JitInvoke ------------------------------
(***************************************************************************)
(* One thread that runs tier-1 (IR JIT) code, host functions and           *)
(* interpreted functions inside each other: Executor::enterFunction and    *)
(* runFunction, the trampoline jit_host_call with jitCallFunction, and     *)
(* IRJitEngine::invoke with its setjmp.  The state is what those functions *)
(* keep outside their own C++ frames: the frames of the StackManagers, the *)
(* thread-local variables g_jitStackMgr and g_jitModInst, the thread-local *)
(* jmp_buf g_termination_buf, wasmedge_tier2_jit_env_tls and the           *)
(* thread-local execution context.                                         *)
(*                                                                         *)
(* An activation is one call of enterFunction that has not returned.  What *)
(* a longjmp to a C++ frame that is gone, or a use of a StackManager that  *)
(* is gone, does is undefined; the model stops there with crashed.         *)
(***************************************************************************)
EXTENDS Integers, Sequences

CONSTANTS
    Modules,        \* module instances
    CalleeKinds,    \* subset of {"host", "jit", "wasm"}: what an import may be
    HostErrors,     \* errors a host function may return
    Traps,          \* errors JIT and interpreted code may raise
    MayReenter,     \* host functions may call Executor::invoke
    MaxDepth,       \* bound on nested activations
    MaxActs,        \* bound on activations in a behaviour
    None            \* a null pointer

ASSUME ConstantsOK ==
    /\ Modules # {} /\ None \notin Modules /\ None \notin Nat
    /\ CalleeKinds \subseteq {"host", "jit", "wasm"}
    /\ HostErrors \subseteq {"Terminated", "HostFuncError"}
    /\ Traps \subseteq {"Unreachable"}
    /\ MayReenter \in BOOLEAN
    /\ MaxDepth \in Nat \ {0} /\ MaxActs \in Nat \ {0}

VARIABLES
    acts,           \* the activations, innermost last
    stacks,         \* the live StackManagers, innermost last
    gJit,           \* g_jitStackMgr and g_jitModInst
    termBuf,        \* the activation whose setjmp filled g_termination_buf
    envTls,         \* the activation whose JitExecEnv is published
    context,        \* module of ExecutionContext, stack of CurrentStack
    ret,            \* the result enterFunction is returning to its caller
    born,           \* activations and StackManagers made so far
    swallowed,      \* jit_host_call has returned 0 for an error
    crashed

vars == <<acts, stacks, gJit, termBuf, envTls, context, ret, born, swallowed,
          crashed>>

NoCtx == [sm |-> None, mod |-> None]
NoRet == [err |-> None, via |-> None, id |-> None]

Init ==
    /\ acts = <<>>
    /\ stacks = <<>>
    /\ gJit = NoCtx
    /\ termBuf = None
    /\ envTls = None
    /\ context = NoCtx
    /\ ret = NoRet
    /\ born = 0
    /\ swallowed = FALSE
    /\ crashed = FALSE

Top == acts[Len(acts)]
Stack == stacks[Len(stacks)]
Front(s) == SubSeq(s, 1, Len(s) - 1)
Running == ~crashed /\ ret = NoRet
InCode(kind) == Running /\ acts # <<>> /\ Top.kind = kind

\* StackManager::pushFrame and popFrame on a sequence of frames; a frame
\* remembers the activation it was pushed for.
Frame(mod, id) == [mod |-> mod, id |-> id]
PopFrames(frames, n) == SubSeq(frames, 1, Len(frames) - n)
SetFrames(i, frames) ==
    stacks' = [stacks EXCEPT ![i] = [id |-> stacks[i].id, frames |-> frames]]

-----------------------------------------------------------------------------
(* Entering a function *)

\* enterFunction of a function of module m on the StackManager sm, on which its
\* callers below push the frame; the IR JIT case also sets the trampoline
\* thread-local variables, the execution context, the published environment
\* and the jump buffer.
Enter(kind, m, via, sm, id) ==
    /\ acts' = Append(acts, [kind |-> kind, id |-> id, mod |-> m, via |-> via,
                             sm |-> sm, savedEnv |-> envTls,
                             savedCtx |-> context])
    /\ IF kind = "jit"
         THEN /\ gJit' = [sm |-> sm, mod |-> m]
              /\ context' = [sm |-> sm, mod |-> m]
              /\ envTls' = id
              /\ termBuf' = id
         ELSE UNCHANGED <<gJit, context, envTls, termBuf>>
    /\ born' = id
    /\ UNCHANGED <<ret, swallowed, crashed>>

MayEnter(n) == Len(acts) < MaxDepth /\ born + n <= MaxActs

\* The module of a host function is none of Modules.
Callee(kind, m) == IF kind = "host" THEN None ELSE m

\* Executor::invoke and runFunction: a StackManager of their own with a dummy
\* frame; called by the embedder, or by a host function.
Invoke(kind, m) ==
    /\ Running
    /\ acts # <<>> => MayReenter /\ Top.kind = "host"
    /\ MayEnter(2)
    /\ stacks' = Append(stacks, [id |-> born + 1,
                                 frames |-> <<Frame(None, None), Frame(m, born + 2)>>])
    /\ Enter(kind, m, "invoke", born + 1, born + 2)

Crash ==
    /\ crashed' = TRUE
    /\ UNCHANGED <<acts, stacks, gJit, termBuf, envTls, context, ret, born,
                   swallowed>>

\* jitCallFunction: a dummy frame with the caller's module on the StackManager
\* that g_jitStackMgr points to, and enterFunction on top of it.
CallFunction(kind, m, via, caller) ==
    LET S == {i \in DOMAIN stacks : stacks[i].id = gJit.sm}
    IN  /\ InCode("jit")
        /\ MayEnter(1)
        /\ IF S = {} THEN Crash
           ELSE LET i == CHOOSE j \in S : TRUE
                IN  /\ SetFrames(i, Append(Append(stacks[i].frames, Frame(caller, None)),
                                           Frame(Callee(kind, m), born + 1)))
                    /\ Enter(kind, Callee(kind, m), via, gJit.sm, born + 1)

\* jit_host_call: a call of an import; the caller is g_jitModInst.
HostCall(kind, m) == CallFunction(kind, m, "call", gJit.mod)

\* jit_call_indirect of a function that is not JIT code (JIT code is called
\* inside the activation); the caller is the module of the top frame.
CallIndirect(kind, m) ==
    kind # "jit" /\ CallFunction(kind, m, "indirect", Stack.frames[Len(Stack.frames)].mod)

\* A call instruction of an interpreted function.
InterpCall(kind, m) ==
    /\ InCode("wasm")
    /\ MayEnter(1)
    /\ SetFrames(Len(stacks), Append(Stack.frames, Frame(Callee(kind, m), born + 1)))
    /\ Enter(kind, Callee(kind, m), "interp", Stack.id, born + 1)

-----------------------------------------------------------------------------
(* Leaving a function *)

\* Leaving IR JIT code without the destructor of SavedThreadLocal.
LeaveKeepsContext(a) ==
    /\ envTls' = IF a.kind = "jit" THEN a.savedEnv ELSE envTls
    /\ UNCHANGED context

\* The destructors of SavedThreadLocal and TlsRestore.
Leave(a) ==
    /\ envTls' = IF a.kind = "jit" THEN a.savedEnv ELSE envTls
    /\ context' = IF a.kind = "jit" THEN a.savedCtx ELSE context

\* enterFunction (for an interpreted function: execute) returns err to its
\* caller.  A frame is popped only when the function returns its values.
Return(err) ==
    /\ Running
    /\ acts # <<>>
    /\ acts' = Front(acts)
    /\ IF err = "ok" THEN SetFrames(Len(stacks), PopFrames(Stack.frames, 1))
                     ELSE UNCHANGED stacks
    /\ Leave(Top)
    /\ ret' = [err |-> err, via |-> Top.via, id |-> Top.id]
    /\ UNCHANGED <<gJit, termBuf, born, swallowed, crashed>>

HostReturn == \E err \in {"ok"} \cup HostErrors : InCode("host") /\ Return(err)
JitReturn == InCode("jit") /\ Return("ok")
WasmReturn == \E err \in {"ok"} \cup Traps : InCode("wasm") /\ Return(err)

\* longjmp to g_termination_buf: IRJitEngine::invoke of the activation whose
\* setjmp filled it returns err, and so does its enterFunction.
LongJump(err) ==
    LET target == {i \in DOMAIN acts : acts[i].id = termBuf}
    IN  IF target = {}
          THEN /\ crashed' = TRUE
               /\ UNCHANGED <<acts, envTls, context, ret>>
          ELSE LET i == CHOOSE j \in target : TRUE
               IN  /\ acts' = SubSeq(acts, 1, i - 1)
                   /\ Leave(acts[i])
                   /\ ret' = [err |-> err, via |-> acts[i].via,
                              id |-> acts[i].id]
                   /\ UNCHANGED crashed

\* jit_unreachable_trap.
JitTrap(err) ==
    /\ InCode("jit")
    /\ LongJump(err)
    /\ UNCHANGED <<stacks, gJit, termBuf, born, swallowed>>

-----------------------------------------------------------------------------
(* What the callers of enterFunction do with its result *)

Returning(vias) == ~crashed /\ ret # NoRet /\ ret.via \in vias

\* runFunction returns and its caller's StackManager goes out of scope; the
\* embedder or the host function goes on.
InvokeReturns ==
    /\ Returning({"invoke"})
    /\ stacks' = Front(stacks)
    /\ ret' = NoRet
    /\ UNCHANGED <<acts, gJit, termBuf, envTls, context, born,
                   swallowed, crashed>>

\* A normal return that leaves the dummy frame.
CallReturnsKeepsDummy ==
    /\ Returning({"call", "indirect"})
    /\ ret.err = "ok"
    /\ ret' = NoRet
    /\ UNCHANGED <<acts, stacks, gJit, termBuf, envTls, context, born,
                   swallowed, crashed>>

\* jitCallFunction pops its dummy frame after a normal return.
CallReturns ==
    /\ Returning({"call", "indirect"})
    /\ ret.err = "ok"
    /\ SetFrames(Len(stacks), PopFrames(Stack.frames, 1))
    /\ ret' = NoRet
    /\ UNCHANGED <<acts, gJit, termBuf, envTls, context, born,
                   swallowed, crashed>>

\* After proc_exit it pops the callee's frame and the dummy, or resets the
\* stack, and the trampoline jumps to the innermost invoke.
CallTerminated ==
    /\ Returning({"call", "indirect"})
    /\ ret.err = "Terminated"
    /\ SetFrames(Len(stacks), IF Len(Stack.frames) >= 2 THEN PopFrames(Stack.frames, 2)
                                                        ELSE <<>>)
    /\ LongJump("Terminated")
    /\ UNCHANGED <<gJit, termBuf, born, swallowed>>

\* After any other error jitCallFunction leaves the frames; jit_host_call
\* returns 0 to the JIT code ...
HostCallFails ==
    /\ Returning({"call"})
    /\ ret.err \notin {"ok", "Terminated"}
    /\ ret' = NoRet
    /\ swallowed' = TRUE
    /\ UNCHANGED <<acts, stacks, gJit, termBuf, envTls, context, born, crashed>>

\* ... and jit_call_indirect jumps as if the program had been terminated.
CallIndirectFails ==
    /\ Returning({"indirect"})
    /\ ret.err \notin {"ok", "Terminated"}
    /\ LongJump("Terminated")
    /\ UNCHANGED <<stacks, gJit, termBuf, born, swallowed>>

\* The interpreter goes on after a call, or execute returns the error.
InterpCallReturns ==
    /\ Returning({"interp"})
    /\ IF ret.err = "ok"
         THEN ret' = NoRet /\ UNCHANGED acts
         ELSE /\ acts' = Front(acts)
              /\ ret' = [err |-> ret.err, via |-> Top.via, id |-> Top.id]
    /\ UNCHANGED <<stacks, gJit, termBuf, envTls, context, born,
                   swallowed, crashed>>

Next ==
    \/ \E m \in Modules :
         \/ \E kind \in {"jit", "wasm"} : Invoke(kind, m)
         \/ \E kind \in CalleeKinds :
              HostCall(kind, m) \/ CallIndirect(kind, m) \/ InterpCall(kind, m)
    \/ HostReturn \/ JitReturn \/ WasmReturn
    \/ \E err \in Traps : JitTrap(err)
    \/ InvokeReturns \/ CallReturns \/ CallTerminated \/ HostCallFails
    \/ CallIndirectFails \/ InterpCallReturns

Spec == Init /\ [][Next]_vars

-----------------------------------------------------------------------------
(* Properties *)

\* The innermost IR JIT activation, if there is one.
JitActs == {i \in DOMAIN acts : acts[i].kind = "jit"}
Inner == CHOOSE i \in JitActs : \A j \in JitActs : j <= i

\* The JitExecEnv published for tier-2 code.
EnvIsInnermost ==
    Running => envTls = IF JitActs = {} THEN None ELSE acts[Inner].id

\* The same of This, CurrentStack and ExecutionContext, which tier-2 code and
\* its intrinsics use.
ContextIsInnermost ==
    Running => context = IF JitActs = {} THEN NoCtx
                         ELSE [sm |-> acts[Inner].sm, mod |-> acts[Inner].mod]

\* While code runs, what is published for tier-2 code and its intrinsics, the
\* JitExecEnv and the execution context, is that of the innermost IR JIT
\* activation, through nested calls, re-entry by host functions, traps and
\* termination: it never is that of an invocation that has returned.
InnermostPublished == EnvIsInnermost /\ ContextIsInnermost

\* While a function runs, the top frame of its StackManager is its own, so that
\* the table and memory helpers find its module there and popFrame removes the
\* right frame; until an error of an import is swallowed, which leaves the
\* import's frames behind.
TopFrameIsOwn ==
    Running /\ acts # <<>> /\ ~swallowed =>
        Stack.id = Top.sm /\ Stack.frames[Len(Stack.frames)].id = Top.id

\* No longjmp to a setjmp whose function has returned, no use of a
\* StackManager that is gone.
NeverCrashes == ~crashed

-----------------------------------------------------------------------------
(* The inductive invariant *)

Elements(s) == {s[k] : k \in 1 .. Len(s)}

\* The activations are a sequence, whatever the addresses in them.
JitTypeOK ==
    /\ acts \in Seq(Elements(acts))
    /\ termBuf \in Nat \cup {None}
    /\ born \in Nat

\* The environment e and the context c are those of the innermost IR JIT
\* activation among the first k of s.
OfInnermost(s, k, e, c) ==
    \/ (\A i \in 1 .. k : s[i].kind # "jit") /\ e = None /\ c = NoCtx
    \/ \E i \in 1 .. k :
         /\ s[i].kind = "jit"
         /\ \A j \in (i + 1) .. k : s[j].kind # "jit"
         /\ e = s[i].id
         /\ c = [sm |-> s[i].sm, mod |-> s[i].mod]

\* What an IR JIT activation saved is what was in force when it was entered.
SavedInv(s, e, c) ==
    /\ OfInnermost(s, Len(s), e, c)
    /\ \A k \in 1 .. Len(s) :
         s[k].kind = "jit" => OfInnermost(s, k - 1, s[k].savedEnv, s[k].savedCtx)

\* A jump to a live activation is one to the innermost IR JIT code: numbers
\* grow and are not used again.
JumpInv(s, b, t) ==
    /\ \A k \in 1 .. Len(s) : s[k].id \in Nat /\ s[k].id <= b
    /\ \A k \in 1 .. Len(s) : \A i \in 1 .. k - 1 : s[i].id < s[k].id
    /\ t # None => t <= b
    /\ \A k \in 1 .. Len(s) : s[k].id = t => s[k].kind = "jit"
    /\ \A k \in 1 .. Len(s) : s[k].kind = "jit" => t # None /\ s[k].id <= t

\* A call made via `via` is one of the last of the first k activations of s:
\* call instructions of the interpreter are those of an interpreted function,
\* the trampolines those of IR JIT code.
CalledBy(via, s, k) ==
    \/ via = "invoke"
    \/ via = "interp" /\ k > 0 /\ s[k].kind = "wasm"
    \/ via \in {"call", "indirect"} /\ k > 0 /\ s[k].kind = "jit"

CallerInv(s) == \A k \in 1 .. Len(s) : CalledBy(s[k].via, s, k - 1)

ReturnInv == ret # NoRet => CalledBy(ret.via, acts, Len(acts))

JitInv ==
    /\ JitTypeOK
    /\ SavedInv(acts, envTls, context)
    /\ JumpInv(acts, born, termBuf)
    /\ CallerInv(acts)
    /\ ReturnInv

FrameSet == [mod : Modules \cup {None}, id : Nat \cup {None}]
StackSet == [id : Nat, frames : Seq(FrameSet)]

\* The StackManagers are as old as their place among the others; the last one
\* made that runs IR JIT code is the trampolines'.
StacksInv ==
    /\ stacks \in Seq(StackSet)
    /\ gJit \in [sm : Nat \cup {None}, mod : Modules \cup {None}]
    /\ \A j \in 1 .. Len(stacks) : stacks[j].id <= born
    /\ \A j \in 1 .. Len(stacks) : \A i \in 1 .. j - 1 : stacks[i].id < stacks[j].id
    /\ gJit.sm # None => gJit.sm <= born
    /\ \A k \in 1 .. Len(acts) :
         acts[k].kind = "jit" => gJit.sm # None /\ acts[k].sm <= gJit.sm

\* An error is on its way to a caller: the frames of the last StackManager are
\* no longer those of the activations.
Unwinding == ret # NoRet /\ ret.err # "ok"

\* The callee at frame p of StackManager j was called via `via` by the
\* activation at frame q of StackManager i, which has d frames: a frame above it,
\* a frame above the trampoline's dummy frame, or on a StackManager of its own.
Above(via, i, q, d, j, p) ==
    /\ via = "interp" => j = i /\ p = q + 1
    /\ via \in {"call", "indirect"} => j = i /\ p = q + 2
    /\ via = "invoke" => j = i + 1 /\ q = d

CallDepth(i) == Len(stacks[i].frames)

\* Activation k is on the StackManager lvl[k], its frame is pos[k] there.
Layout(lvl, pos) ==
    /\ \A k \in 1 .. Len(acts) :
         lvl[k] \in 1 .. Len(stacks) /\ pos[k] \in Nat /\ acts[k].sm = stacks[lvl[k]].id
    /\ \A k \in 1 .. Len(acts) :
         lvl[k] < Len(stacks) \/ ~Unwinding =>
             /\ pos[k] \in 1 .. CallDepth(lvl[k])
             /\ stacks[lvl[k]].frames[pos[k]].id = acts[k].id
    /\ \A k \in 1 .. Len(acts) : \A i \in 1 .. k - 1 :
         lvl[i] <= lvl[k] /\ (lvl[i] = lvl[k] => pos[i] < pos[k])
    /\ \A k \in 2 .. Len(acts) :
         Above(acts[k].via, lvl[k - 1], pos[k - 1], CallDepth(lvl[k - 1]), lvl[k], pos[k])
    /\ ret # NoRet => Len(stacks) > 0
    /\ Len(acts) > 0 =>
         LET i == lvl[Len(acts)]
             q == pos[Len(acts)]
         IN  /\ ret = NoRet => i = Len(stacks) /\ q = CallDepth(i)
             /\ ret # NoRet =>
                  \E p \in Nat : /\ Above(ret.via, i, q, CallDepth(i), Len(stacks), p)
                                 /\ ~Unwinding => p = CallDepth(Len(stacks)) + 1

\* The inductive invariant of the frames, until an error of an import is
\* swallowed.
FramesInv ==
    ~crashed /\ ~swallowed =>
        StacksInv /\ \E lvl, pos : Layout(lvl, pos)
=============================================================================
