------------------------------- MODULE MCExec --------------------------------
(***************************************************************************)
(* Instances of JitInvoke, FaultHandler and Gas: what the threads of a     *)
(* process keep while they execute functions of several kinds.  A          *)
(* behaviour is one of a single component, the others rest.                *)
(***************************************************************************)
EXTENDS MCJitInvoke, FaultHandler, Gas

MCCost == [instr |-> 1, if |-> 1, else |-> 1, end |-> 1, host |-> 2]
MCKinds == [t \in Users |-> IF t = 1 THEN {"interp", "compiled"} ELSE {"interp"}]
MCMaxFrames == [t \in Users |-> IF t = 1 THEN 2 ELSE 1]

VARIABLE runs       \* the component that takes the steps

MCInit ==
    /\ runs \in {"jit", "fault", "gas"}
    /\ Init /\ FaultInit /\ GasInit
    /\ runs # "gas" => CostLimit = CHOOSE l \in Limits : TRUE

JitStep == runs = "jit" /\ Next /\ UNCHANGED <<runs, faultVars, gasVars>>
FaultStep == runs = "fault" /\ FaultNext /\ UNCHANGED <<runs, vars, gasVars>>
GasSteps == runs = "gas" /\ GasNext /\ UNCHANGED <<runs, vars, faultVars>>

MCNext ==
    \/ JitStep
    \/ FaultStep
    \/ GasSteps
MCSpec == MCInit /\ [][MCNext]_<<runs, vars, faultVars, gasVars>>
=============================================================================
