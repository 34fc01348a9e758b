------------------------------- MODULE MCCode --------------------------------
(***************************************************************************)
(* Instances of WasmControl, IRBuilder and Numeric: what a function does,  *)
(* as the validator and the interpreter, the tier-1 builder and the three  *)
(* implementations of the numeric instructions see it.  A behaviour is one *)
(* of a single component, the others rest in a final state.                *)
(***************************************************************************)
EXTENDS MCWasmControl, IRBuilder, Numeric

I(op) == [op |-> op, n |-> 0, in |-> 0, ar |-> 0, idx |-> FALSE, ls |-> <<>>, id |-> 0]
L(op, n) == [I(op) EXCEPT !.n = n]
B(op, ar) == [I(op) EXCEPT !.ar = ar]
T(op, in, ar) == [I(op) EXCEPT !.in = in, !.ar = ar, !.idx = TRUE]
J(op, ls) == [I(op) EXCEPT !.ls = ls]

MCEpilogue == <<L("get", 1)>>

(* Shapes: nested blocks, loops and ifs, branches, a local set on some paths. *)
Shapes ==
    {<<B("block", 0)>>, <<B("loop", 0)>>, <<I("end")>>, <<I("else")>>,
     <<I("value"), B("if", 0)>>, <<J("br", <<0>>)>>, <<J("br", <<1>>)>>,
     <<I("value"), J("br_if", <<0>>)>>, <<I("value"), J("br_if", <<1>>)>>,
     <<I("value"), L("set", 1)>>}

(* Operands that blocks leave and branches carry. *)
Results ==
    {<<I("value")>>, <<I("use")>>, <<B("block", 0)>>, <<B("block", 1)>>, <<I("end")>>,
     <<I("value"), B("if", 0)>>, <<J("br", <<0>>)>>, <<I("value"), J("br_if", <<0>>)>>}

(* Constructs with a result, branch tables and the ends of functions. *)
Values ==
    {<<I("value"), L("tee", 1)>>, <<I("drop")>>, <<B("block", 1)>>, <<B("loop", 1)>>,
     <<I("end")>>, <<I("else")>>, <<I("value"), B("if", 1)>>,
     <<I("value"), J("br_table", <<0, 1>>)>>, <<I("return")>>, <<I("unreachable")>>}

(* Blocks whose type is a type index. *)
Indexed ==
    {<<I("value")>>, <<I("use")>>, <<T("block", 0, 1)>>, <<T("loop", 1, 0)>>,
     <<T("loop", 0, 0)>>, <<I("value"), T("if", 0, 1)>>, <<I("value"), T("if", 1, 1)>>,
     <<I("else")>>, <<I("end")>>, <<J("br", <<0>>)>>, <<I("value"), J("br_if", <<0>>)>>}

(* Accesses to a memory that grows. *)
Accesses ==
    {<<B("loop", 0)>>, <<I("end")>>, <<I("value"), B("if", 0)>>,
     <<I("value"), J("br_if", <<0>>)>>, <<I("value"), I("grow"), I("drop")>>,
     <<I("value"), I("load"), I("drop")>>}

MCMenus ==
    {[frags |-> Shapes, len |-> 8], [frags |-> Results, len |-> 8],
     [frags |-> Values, len |-> 8], [frags |-> Indexed, len |-> 8],
     [frags |-> Accesses, len |-> 11]}

(* i32 and f32 have 8 bits, i64 and f64 16; their significands 5 and 11, so *)
(* that f64 holds every i32 and no other pair is exact, as in the code.     *)
MCWidth == [i32 |-> 8, f32 |-> 8, i64 |-> 16, f64 |-> 16]
MCPrecision == [f32 |-> 5, f64 |-> 11]
MCPatterns ==
    [i32 |-> {0, 1, 2, 3, 7, 8, 9, 51, 85, 127, 128, 129, 254, 255},
     i64 |-> {0, 1, 2, 7, 15, 16, 17, 255, 256, 32767, 32768, 65534, 65535}]
Specials(t) == {Special(t, k) : k \in {"nan", "inf", "ninf", "nzero"}}
MCFloats ==
    [t \in FloatTypes |-> Specials(t) \cup {FloatOf(t, n) : n \in -3 .. 3}]

(* The floats around 0 and around the limits of the integer types. *)
Near(t) ==
    {n \in UNION {(2 * v - 3) .. (2 * v + 3) :
                    v \in {0, 128, 256, -128, 32768, 65536, -32768}} :
        RoundTo(Precision[t], n) = n}
MCSeeds ==
    UNION {{IntOf(t, n) : n \in Patterns[t]} : t \in IntTypes}
    \cup UNION {Specials(t) \cup {FloatOf(t, n) : n \in Near(t)} : t \in FloatTypes}

ControlRests ==
    /\ code = <<>> /\ typing = <<>> /\ CtrlStack = <<>> /\ ValStack = <<>>
    /\ values = <<>> /\ frames = <<>> /\ pc = 0 /\ exn = NoExn /\ status = "done"
BuilderRests ==
    /\ menu = CHOOSE m \in Menus : TRUE
    /\ body = <<>> /\ chk = CheckInit /\ graph = NoGraph
    /\ wasm = NoOsr /\ tier1 = Nothing /\ phase = "done"
NumericRests == cell = Trapped("none") /\ steps = 0

MCInit ==
    \/ Init /\ BuilderRests /\ NumericRests
    \/ ControlRests /\ IRInit /\ NumericRests
    \/ ControlRests /\ BuilderRests /\ NumInit

ControlStep(A) == A /\ UNCHANGED <<irVars, numVars>>
BuilderStep(A) == A /\ UNCHANGED <<vars, numVars>>
NumericStep == NumNext /\ UNCHANGED <<vars, irVars>>

MCNext ==
    \/ ControlStep(Check)
    \/ ControlStep(EndFunction)
    \/ ControlStep(Run)
    \/ BuilderStep(Load)
    \/ BuilderStep(Build)
    \/ BuilderStep(Silent)
    \/ \E taken \in BOOLEAN : BuilderStep(Osr(taken))
    \/ BuilderStep(Respond)
    \/ NumericStep
MCSpec == MCInit /\ [][MCNext]_<<vars, irVars, numVars>>
=============================================================================
