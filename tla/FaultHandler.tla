---------------------------- MODULE FaultHandler -----------------------------
(***************************************************************************)
(* The signal handlers of the process and the Fault objects of its threads *)
(* (lib/system/fault.cpp).  A call of an AOT-compiled function has a Fault *)
(* on its stack; the calls of IR JIT functions have none.  A fault, be it  *)
(* a signal or emitFault in a trampoline, jumps to the thread's innermost  *)
(* Fault and drops everything called since.  The last Fault of the process *)
(* to go removes the handlers: the count and the handlers are changed in   *)
(* two steps, and any thread may run in between.                           *)
(***************************************************************************)
EXTENDS Naturals, Sequences, FiniteSets

CONSTANTS
    Threads,        \* threads that execute functions
    MaxCalls        \* bound on the depth of a thread's calls

VARIABLES
    calls,          \* thread |-> sequence of calls [kind, Prev], innermost last
    localHandler,   \* thread |-> position of the call whose Fault it is; 0: nullptr
    handlerCount,
    installed,      \* the process has WasmEdge's handlers
    at,             \* thread |-> where it is in a constructor or destructor
    overlap,        \* history: somebody counted from 0 to 1 while another thread
                    \* was about to remove the handlers
    dead            \* "no", or why the process is gone

faultVars == <<calls, localHandler, handlerCount, installed, at, overlap, dead>>

Call(kind, prev) == [kind |-> kind, Prev |-> prev]
Depth(t) == Len(calls[t])
TopCall(t) == calls[t][Depth(t)]

FaultInit ==
    /\ calls = [t \in Threads |-> <<>>]
    /\ localHandler = [t \in Threads |-> 0]
    /\ handlerCount = 0
    /\ installed = FALSE
    /\ at = [t \in Threads |-> "code"]
    /\ overlap = FALSE
    /\ dead = "no"

Goes(t, from, to) == dead = "no" /\ at[t] = from /\ at' = [at EXCEPT ![t] = to]

(* enterFunction for a compiled function, Fault::Fault up to the count. *)
CallCompiled(t) ==
    /\ Goes(t, "code", "increase")
    /\ Depth(t) < MaxCalls
    /\ calls' = [calls EXCEPT ![t] = Append(@, Call("compiled", localHandler[t]))]
    /\ localHandler' = [localHandler EXCEPT ![t] = Depth(t) + 1]
    /\ UNCHANGED <<handlerCount, installed, overlap, dead>>

(* increaseHandler: handlerCount++ == 0. *)
Increase(t) ==
    /\ Goes(t, "increase", IF handlerCount = 0 THEN "enable" ELSE "code")
    /\ handlerCount' = handlerCount + 1
    /\ overlap' = (overlap \/ (handlerCount = 0 /\ \E u \in Threads : at[u] = "disable"))
    /\ UNCHANGED <<calls, localHandler, installed, dead>>

EnableHandler(t) ==
    /\ Goes(t, "enable", "code")
    /\ installed' = TRUE
    /\ UNCHANGED <<calls, localHandler, handlerCount, overlap, dead>>

(* IRJitEngine::invoke, which makes no Fault. *)
CallJit(t) ==
    /\ dead = "no" /\ at[t] = "code" /\ Depth(t) < MaxCalls
    /\ calls' = [calls EXCEPT ![t] = Append(@, Call("jit", 0))]
    /\ UNCHANGED <<localHandler, handlerCount, installed, at, overlap, dead>>

ReturnJit(t) ==
    /\ dead = "no" /\ at[t] = "code"
    /\ Depth(t) > 0 /\ TopCall(t).kind = "jit"
    /\ calls' = [calls EXCEPT ![t] = SubSeq(@, 1, Depth(t) - 1)]
    /\ UNCHANGED <<localHandler, handlerCount, installed, at, overlap, dead>>

(* The compiled function returns: Fault::~Fault begins. *)
ReturnCompiled(t) ==
    /\ Depth(t) > 0 /\ TopCall(t).kind = "compiled"
    /\ Goes(t, "code", "decrease")
    /\ UNCHANGED <<calls, localHandler, handlerCount, installed, overlap, dead>>

(* Mutant: the handlers go with the last but one. *)
DecreaseEarly(t) ==
    /\ Goes(t, "decrease", IF handlerCount <= 2 THEN "disable" ELSE "restore")
    /\ handlerCount' = handlerCount - 1
    /\ UNCHANGED <<calls, localHandler, installed, overlap, dead>>

(* decreaseHandler: --handlerCount == 0. *)
Decrease(t) ==
    /\ Goes(t, "decrease", IF handlerCount = 1 THEN "disable" ELSE "restore")
    /\ handlerCount' = handlerCount - 1
    /\ UNCHANGED <<calls, localHandler, installed, overlap, dead>>

DisableHandler(t) ==
    /\ Goes(t, "disable", "restore")
    /\ installed' = FALSE
    /\ UNCHANGED <<calls, localHandler, handlerCount, overlap, dead>>

(* Mutant: the thread has no handler any more. *)
RestoreNothing(t) ==
    /\ Goes(t, "restore", "code")
    /\ localHandler' = [localHandler EXCEPT ![t] = 0]
    /\ calls' = [calls EXCEPT ![t] = SubSeq(@, 1, Depth(t) - 1)]
    /\ UNCHANGED <<handlerCount, installed, overlap, dead>>

(* localHandler = std::exchange(Prev, nullptr), and the call is over. *)
Restore(t) ==
    /\ Goes(t, "restore", "code")
    /\ localHandler' = [localHandler EXCEPT ![t] = TopCall(t).Prev]
    /\ calls' = [calls EXCEPT ![t] = SubSeq(@, 1, Depth(t) - 1)]
    /\ UNCHANGED <<handlerCount, installed, overlap, dead>>

(* Mutant: the jump lands in the frame below, past the destructor. *)
EmitFaultUnwindsAll(t) ==
    /\ dead = "no" /\ at[t] = "code" /\ Depth(t) > 0
    /\ IF localHandler[t] = 0
         THEN dead' = "no handler" /\ UNCHANGED <<calls, at, localHandler>>
         ELSE /\ calls' = [calls EXCEPT ![t] = SubSeq(@, 1, localHandler[t] - 1)]
              /\ localHandler' = [localHandler EXCEPT ![t] = calls[t][@].Prev]
              /\ UNCHANGED <<at, dead>>
    /\ UNCHANGED <<handlerCount, installed, overlap>>

(* Fault::emitFault: longjmp to PREPARE_FAULT of the innermost Fault.  The *)
(* compiled call ends with the error; its Fault is destroyed as usual.     *)
EmitFault(t) ==
    /\ dead = "no" /\ at[t] = "code" /\ Depth(t) > 0
    /\ IF localHandler[t] = 0
         THEN dead' = "no handler" /\ UNCHANGED <<calls, at, localHandler>>
         ELSE /\ calls' = [calls EXCEPT ![t] = SubSeq(@, 1, localHandler[t])]
              /\ at' = [at EXCEPT ![t] = "decrease"]
              /\ UNCHANGED <<localHandler, dead>>
    /\ UNCHANGED <<handlerCount, installed, overlap>>

(* SIGSEGV, SIGBUS or SIGFPE in generated code: signalHandler calls        *)
(* emitFault.  Without the handler the signal ends the process.            *)
signalHandler(t) ==
    IF installed THEN EmitFault(t)
    ELSE /\ dead = "no" /\ at[t] = "code" /\ Depth(t) > 0
         /\ dead' = "signal"
         /\ UNCHANGED <<calls, localHandler, handlerCount, installed, at, overlap>>

FaultNext == \E t \in Threads :
    \/ CallCompiled(t)
    \/ Increase(t)
    \/ EnableHandler(t)
    \/ CallJit(t)
    \/ ReturnJit(t)
    \/ ReturnCompiled(t)
    \/ Decrease(t)
    \/ DisableHandler(t)
    \/ Restore(t)
    \/ EmitFault(t)
    \/ signalHandler(t)

FaultSpec == FaultInit /\ [][FaultNext]_faultVars

-----------------------------------------------------------------------------

CallSet == [kind : {"compiled", "jit"}, Prev : Nat]

FaultTypeOK ==
    /\ calls \in [Threads -> Seq(CallSet)]
    /\ localHandler \in [Threads -> Nat]
    /\ handlerCount \in Nat
    /\ installed \in BOOLEAN
    /\ at \in [Threads -> {"code", "increase", "enable", "decrease", "disable", "restore"}]
    /\ overlap \in BOOLEAN
    /\ dead \in {"no", "no handler", "signal"}

(* The k-th call of s has a Fault that is in the count. *)
InCount(s, a, k) ==
    /\ s[k].kind = "compiled"
    /\ ~(k = Len(s) /\ a \in {"increase", "disable", "restore"})

(* The Fault objects that are in the count. *)
Counted(t) == {k \in 1 .. Depth(t) : InCount(calls[t], at[t], k)}
Live == UNION {{t} \X Counted(t) : t \in Threads}

(***************************************************************************)
(* handlerCount is the number of live Fault objects of all threads: no jump *)
(* of emitFault, from whatever depth of nested calls, drops one that is     *)
(* still in the count, or the handlers would stay, or go too early, for     *)
(* the rest of the process.                                                 *)
(***************************************************************************)
CountIsLive ==
    handlerCount = Cardinality(Live)

(* h is the last compiled call among the first n calls of s, 0 if none. *)
IsInnermost(h, s, n) ==
    /\ h \in 0 .. n
    /\ h # 0 => s[h].kind = "compiled"
    /\ \A k \in h + 1 .. n : s[k].kind = "jit"

(***************************************************************************)
(* localHandler is the innermost compiled call that is still active: a      *)
(* fault never jumps into a function that has returned, nor past one that   *)
(* has a handler of its own, whatever was called, returned and faulted      *)
(* before.                                                                  *)
(***************************************************************************)
HandlerIsInnermost ==
    \A t \in Threads : IsInnermost(localHandler[t], calls[t], Depth(t))

(***************************************************************************)
(* While some Fault is counted the signal handlers are installed, but for   *)
(* two windows: the thread that counted first has not installed them yet,   *)
(* or at some time a thread counted from zero while another was about to    *)
(* remove the handlers it found unused.                                     *)
(***************************************************************************)
InstalledUnlessOverlap ==
    handlerCount > 0 /\ ~installed => overlap \/ \E t \in Threads : at[t] = "enable"

(* The chain of Prev is that of the calls, and a constructor or destructor  *)
(* is that of the innermost call.                                           *)
ChainInv ==
    /\ HandlerIsInnermost
    /\ \A t \in Threads : \A k \in 1 .. Depth(t) :
         calls[t][k].kind = "compiled" => IsInnermost(calls[t][k].Prev, calls[t], k - 1)
    /\ \A t \in Threads : at[t] # "code" => Depth(t) > 0 /\ TopCall(t).kind = "compiled"

(* Without an overlap the handlers are removed while nothing is counted. *)
WindowInv ==
    \A t \in Threads : at[t] = "disable" => overlap \/ handlerCount = 0

FaultInv ==
    /\ FaultTypeOK
    /\ ChainInv
    /\ WindowInv
    /\ InstalledUnlessOverlap
    /\ IsFiniteSet(Live)
    /\ CountIsLive
=============================================================================
