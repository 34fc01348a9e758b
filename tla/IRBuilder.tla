------------------------------ MODULE IRBuilder ------------------------------
(***************************************************************************)
(* WasmToIRBuilder, the tier-1 compiler's front end: one pass over a       *)
(* validated function that turns structured control, the operand stack and *)
(* the locals into an SSA graph.  A label collects the ENDs of the paths   *)
(* that leave it, with their locals and results; visitEnd merges them with *)
(* PHIs.  The back edges of a loop may leave for an OSR entry, which       *)
(* appendOsrFunctionSlot makes from the tail of the same body.             *)
(*                                                                         *)
(* A behaviour reads a function, builds its graph and then runs the        *)
(* interpreter and the graph side by side.  Both stop at the same kinds of *)
(* events (a value is made, used, tested or returned, memory is read or    *)
(* grown, a trap), are compared, and get the same answer.  A value is the  *)
(* instruction that made it and a bit, so that two iterations of a loop    *)
(* make different values.  All operands and locals have one type: the      *)
(* coercions are the identity and are left out, as is the arithmetic.  The *)
(* type of a block is empty, a value type or a type index, which gives it  *)
(* at most one parameter and one result.                                   *)
(***************************************************************************)
EXTENDS Integers, Sequences, SequencesExt, FiniteSets

CONSTANTS
    Menus,          \* set of [frags, len]: the instruction sequences a
                    \* function is made of, and a bound on its length
    Epilogue,       \* the instructions before the function's last end
    NumLocals,      \* number of locals, all of them parameters
    MaxDepth,        \* bound on the depth of the control stack
    OsrThreshold    \* 0: no OSR

ASSUME IRConstantsOK ==
    /\ \A m \in Menus : m.len \in Nat
    /\ {NumLocals, MaxDepth, OsrThreshold} \subseteq Nat

VARIABLES
    menu,           \* the element of Menus this function is made of
    body,           \* its instructions
    chk,            \* state of the validator
    graph,          \* state of the builder
    wasm,           \* the interpreter
    tier1,          \* the execution of the graph
    phase           \* "load", "build", "run" or "done"

irVars == <<menu, body, chk, graph, wasm, tier1, phase>>

Idx == 1 .. NumLocals
Openers == {"block", "loop", "if"}
Dup(x, n) == [k \in 1 .. n |-> x]

-----------------------------------------------------------------------------
(* FormChecker, for one type of operands: heights instead of types *)

CtrlFrame(op, pos, in, ar, ht) ==
    [op |-> op, pos |-> pos, in |-> in, ar |-> ar, ht |-> ht, unreach |-> FALSE]
NoInfo == [end |-> 0, else |-> 0, jumps |-> <<>>]

\* The function's own label, whose arity is that of its result.
CheckInit ==
    [ok |-> TRUE, ctrl |-> <<CtrlFrame("func", 0, 0, 1, 0)>>, h |-> 0, info |-> <<>>]

TopFrame(c) == Last(c.ctrl)
FrameAt(c, n) == c.ctrl[Len(c.ctrl) - n]
HasOperands(c, k) == TopFrame(c).unreach \/ c.h - TopFrame(c).ht >= k
HeightAfter(c, k) == Max({TopFrame(c).ht, c.h - k})
LabelArity(l) == IF l.op = "loop" THEN l.in ELSE l.ar
JumpOf(c, h, n) ==
    LET l == FrameAt(c, n)
    IN  [erase |-> h - l.ht + LabelArity(l), keep |-> LabelArity(l), pos |-> l.pos]

\* What an instruction takes and puts, where that is fixed.
Takes(i) == CASE i.op \in {"use", "drop", "set", "tee", "br_if", "br_table",
                           "load", "grow"} -> 1
              [] i.op = "if" -> 1 + i.in
              [] i.op \in {"block", "loop"} -> i.in
              [] OTHER -> 0
Puts(i) == IF i.op \in {"value", "get", "tee", "load", "grow"} THEN 1 ELSE 0

CheckInstr(c, i) ==
    LET p == Len(c.info) + 1
        h == HeightAfter(c, Takes(i))
        Set(ctrl, height, jumps) ==
            [c EXCEPT !.ctrl = ctrl, !.h = height,
                      !.info = Append(@, [NoInfo EXCEPT !.jumps = jumps])]
        Dead(jumps) == Set(Append(Front(c.ctrl), [TopFrame(c) EXCEPT !.unreach = TRUE]),
                           TopFrame(c).ht, jumps)
        PopCtrl == HasOperands(c, TopFrame(c).ar) /\ HeightAfter(c, TopFrame(c).ar) = TopFrame(c).ht
        \* the labels of a branch exist and take what is on the stack
        Fits == \A k \in DOMAIN i.ls :
                   /\ i.ls[k] < Len(c.ctrl)
                   /\ LabelArity(FrameAt(c, i.ls[k])) = LabelArity(FrameAt(c, i.ls[1]))
                   /\ HasOperands(c, Takes(i) + LabelArity(FrameAt(c, i.ls[k])))
        Below(n) == HeightAfter(c, Takes(i) + LabelArity(FrameAt(c, n)))
        Jumps == [k \in DOMAIN i.ls |-> JumpOf(c, Below(i.ls[k]), i.ls[k])]
        Fail == [c EXCEPT !.ok = FALSE]
    IN  IF ~c.ok \/ ~HasOperands(c, Takes(i)) THEN Fail
        ELSE CASE i.op \in Openers -> Set(Append(c.ctrl, CtrlFrame(i.op, p, i.in, i.ar, h)), h + i.in, <<>>)
               [] i.op = "else" ->
                    IF TopFrame(c).op = "if" /\ PopCtrl
                    THEN LET s == Set(Append(Front(c.ctrl),
                                             CtrlFrame("else", TopFrame(c).pos, TopFrame(c).in,
                                                       TopFrame(c).ar, TopFrame(c).ht)),
                                      TopFrame(c).ht + TopFrame(c).in, <<>>)
                         IN  [s EXCEPT !.info[TopFrame(c).pos].else = p]
                    ELSE Fail
               [] i.op = "end" ->
                    IF PopCtrl /\ (TopFrame(c).op = "if" => TopFrame(c).ar = TopFrame(c).in)
                    THEN LET s == Set(Front(c.ctrl), TopFrame(c).ht + TopFrame(c).ar, <<>>)
                             opener == TopFrame(c).pos
                         IN  IF opener = 0 THEN s
                             ELSE [s EXCEPT !.info = [q \in DOMAIN @ |->
                                     IF q = opener \/ q = s.info[opener].else
                                     THEN [@[q] EXCEPT !.end = p] ELSE @[q]]]
                    ELSE Fail
               [] i.op \in {"br", "br_table"} -> IF Fits THEN Dead(Jumps) ELSE Fail
               [] i.op = "br_if" ->
                    IF Fits THEN Set(c.ctrl, Below(i.ls[1]) + LabelArity(FrameAt(c, i.ls[1])), Jumps)
                    ELSE Fail
               [] i.op = "return" -> IF HasOperands(c, 1) THEN Dead(<<>>) ELSE Fail
               [] i.op = "unreachable" -> Dead(<<>>)
               [] OTHER -> Set(c.ctrl, h + Puts(i), <<>>)

CheckBody(is) == FoldLeft(CheckInstr, CheckInit, is)

-----------------------------------------------------------------------------
(* The builder *)

\* A node of the graph: control nodes are chained by `pred`; `ls` are the
\* inputs of a merge, the operands of a PHI or a snapshot of the locals; `at`
\* is the merge of a PHI; `id` the instruction it was emitted for.
Node(k, v, ls, at, id) ==
    [k |-> k, pred |-> 0, v |-> v, ls |-> ls, at |-> at, id |-> id]
Unused == 0

\* The parameters are loaded from ArgsPtr, then MemoryBase from the env.
BuildInit ==
    [ir |-> <<Node("start", 0, <<>>, 0, 0)>> \o Dup(Node("param", 0, <<>>, 0, 0), NumLocals),
     ctl |-> 1, stack |-> <<>>, locals |-> [x \in Idx |-> x + 1],
     labels |-> <<>>, term |-> FALSE, base |-> 1, loops |-> 0,
     failed |-> FALSE, deadIf |-> FALSE, lost |-> FALSE, junk |-> FALSE,
     grown |-> FALSE, dropped |-> FALSE]

\* Control nodes follow the current control; a PHI does not change it.
EmitNode(b, n) ==
    [b EXCEPT !.ir = Append(@, [n EXCEPT !.pred = b.ctl]), !.ctl = Len(b.ir) + 1]
EmitEnd(b) == [EmitNode(b, Node("end", 0, <<>>, 0, 0)) EXCEPT !.ctl = Unused]
EmitLast(b, n) == [EmitNode(b, n) EXCEPT !.ctl = Unused]
EmitPhi(b, vals) ==
    [b EXCEPT !.ir = Append(@, Node("phi", 0, vals, b.ctl, 0))]
\* BEGIN for one input, MERGE for more.
EmitMerge(b, ends) ==
    EmitNode([b EXCEPT !.ctl = Unused],
         Node(IF Len(ends) = 1 THEN "begin" ELSE "merge", 0, ends, 0, 0))
LastRef(b) == Len(b.ir)

Push(b, v) == [b EXCEPT !.stack = Append(@, v)]
PopRef(b) == [b EXCEPT !.stack = IF @ = <<>> THEN @ ELSE Front(@)]
TopRef(b) == IF b.stack = <<>> THEN Unused ELSE Last(b.stack)

TopLabel(b) == Last(b.labels)
SetLabel(b, k, l) == [b EXCEPT !.labels[k] = l]
PopLabel(b) == [b EXCEPT !.labels = Front(@)]

\* Arity is the number of results the builder knows of: those of a type index
\* are not looked up.  in and res are what the validator knows.
BlockTypeEmpty(i) == ~i.idx /\ i.ar = 0
NewLabel(b, i) ==
    [kind |-> i.op, Arity |-> IF i.idx THEN 0 ELSE i.ar, in |-> i.in, res |-> i.ar,
     BlockTypeEmpty |-> BlockTypeEmpty(i), stack |-> b.stack, IfRef |-> 0,
     LoopHeader |-> 0, HasElse |-> FALSE, thenTerm |-> FALSE, EndList |-> <<>>,
     EndLocals |-> <<>>, Results |-> <<>>, pre |-> b.locals,
     phis |-> [x \in Idx |-> Unused], BackEnds |-> <<>>, BackLocals |-> <<>>,
     LoopIdx |-> -1, pos |-> 0]

\* The operand that a block with a parameter found at its entry.
Param(l) == IF l.stack = <<>> THEN Unused ELSE Last(l.stack)

\* Mutant: the locals of the first path are kept.
MergeLocalsFirst(b, paths) == [b EXCEPT !.locals = paths[1]]

\* mergeLocals: a PHI where the paths disagree.
MergeLocals(b, paths) ==
    FoldLeft(LAMBDA acc, x :
               LET vals == [k \in DOMAIN paths |-> paths[k][x]]
               IN  IF \A k \in DOMAIN vals : vals[k] = vals[1]
                   THEN [acc EXCEPT !.locals[x] = vals[1]]
                   ELSE LET q == EmitPhi(acc, vals)
                        IN  [q EXCEPT !.locals[x] = LastRef(q)],
             b, [x \in Idx |-> x])

\* finalizeMerge: with no path to merge nothing happens.
FinalizeMerge(b, l) ==
    IF l.EndList = <<>> THEN b
    ELSE LET m == [EmitMerge(b, l.EndList) EXCEPT !.term = FALSE]
             q == IF Len(l.EndList) = 1 THEN [m EXCEPT !.locals = l.EndLocals[1]]
                  ELSE MergeLocals(m, l.EndLocals)
         IN  IF l.Arity = 0 THEN q
             ELSE IF Len(l.EndList) = 1
             THEN IF l.Results = <<>> THEN q ELSE Push(q, l.Results[1])
             ELSE IF Len(l.Results) = Len(l.EndList)
             THEN LET r == EmitPhi(q, l.Results) IN Push(r, LastRef(r))
             ELSE q

\* A path reaches the end of the label l: its END, locals and result (which is
\* not used where Arity is 0).
Arrive(b, k, result) ==
    LET e == EmitEnd(b)
        l == b.labels[k]
    IN  SetLabel(e, k, [l EXCEPT !.EndList = Append(@, LastRef(e)),
                                 !.EndLocals = Append(@, b.locals),
                                 !.Results = IF l.res = 0 THEN @
                                             ELSE Append(@, result)])

\* emitLoopBackEdge: the OSR diamond, when the loop has an index, and the
\* back edge with the values of the locals that have a PHI.  The parameter of a
\* loop has none: the code sees the operand that was there at the loop's entry.
BackEdge(b, k, param) ==
    LET l == b.labels[k]
        d == IF l.LoopIdx = -1 THEN b
             ELSE EmitNode(b, Node("osr", l.LoopIdx, b.locals, l.pos, 0))
        e == EmitEnd(d)
        s == SetLabel(e, k, [l EXCEPT !.BackEnds = Append(@, LastRef(e)),
                                      !.BackLocals = Append(@, b.locals)])
    IN  [s EXCEPT !.dropped = @ \/ (l.in > 0 /\ param # Param(l))]

Depth(b, n) == Len(b.labels) - n
BranchTo(b, k, result) ==
    IF b.labels[k].kind = "loop" THEN BackEdge(b, k, result) ELSE Arrive(b, k, result)

VisitBlock(b, i) == [b EXCEPT !.labels = Append(@, NewLabel(b, i))]

\* Mutant: loops inside an if are counted as well.
OsrEligibleAnywhere(b, i) == BlockTypeEmpty(i)

\* visitLoop gives an index to the loops that findOsrLoopStart can find, and a
\* PHI to the locals written between here and the loop's end.
OsrEligible(b, i) ==
    /\ BlockTypeEmpty(i)
    /\ \A k \in DOMAIN b.labels : b.labels[k].kind = "block" /\ b.labels[k].BlockTypeEmpty
Written(is, from, to) ==
    {is[q].n : q \in {r \in from + 1 .. to - 1 : is[r].op \in {"set", "tee"}}}
VisitLoop(b, i, is, info, p) ==
    LET e == EmitEnd(b)
        m == EmitNode(e, Node("loop_begin", 0, <<LastRef(e)>>, 0, 0))
        osr == OsrThreshold > 0 /\ OsrEligible(b, i)
        l0 == [NewLabel(b, i) EXCEPT !.LoopHeader = LastRef(m),
                                     !.LoopIdx = IF osr THEN b.loops ELSE -1,
                                     !.pos = p]
        q == FoldLeft(LAMBDA acc, x :
                 IF x \notin Written(is, p, info[p].end) THEN acc
                 ELSE LET f == [acc.b EXCEPT !.ir = Append(@, Node("phi", 0,
                                   <<acc.b.locals[x], Unused>>, l0.LoopHeader, 0))]
                      IN  [b |-> [f EXCEPT !.locals[x] = LastRef(f)],
                           l |-> [acc.l EXCEPT !.phis[x] = LastRef(f)]],
               [b |-> m, l |-> l0], [x \in Idx |-> x])
    IN  [q.b EXCEPT !.labels = Append(@, q.l),
                    !.loops = IF osr THEN @ + 1 ELSE @]

VisitIf(b, i) ==
    LET c == EmitNode(PopRef(b), Node("if", TopRef(b), <<>>, 0, i.id))
        t == EmitNode(c, Node("if_true", 0, <<>>, 0, 0))
    IN  [t EXCEPT !.labels = Append(@, [NewLabel(PopRef(b), i) EXCEPT !.IfRef = LastRef(c)]),
                  !.term = FALSE, !.deadIf = @ \/ b.term]

\* A path is revived, or code goes on after a merge, with other operands on the
\* value stack than its block leaves there.
JunkInElse(b, l) == b.junk \/ b.stack # l.stack
JunkAfter(b, l) == b.junk \/ Len(b.stack) # Len(l.stack) - l.in + l.res - l.Arity

\* The result of a block with a type index is what the path visited last left
\* on the stack: some path has another one.
Dropped(b, l) ==
    b.dropped \/ (l.res # l.Arity /\ \E k \in DOMAIN l.Results : l.Results[k] # TopRef(b))

VisitElse(b) ==
    LET k == Len(b.labels)
        a == IF b.term THEN b
             ELSE LET s == IF TopLabel(b).Arity = 0 THEN b ELSE PopRef(b)
                  IN  Arrive(s, k, TopRef(b))
        l == [a.labels[k] EXCEPT !.HasElse = TRUE, !.thenTerm = b.term]
        f == EmitNode([a EXCEPT !.ctl = l.IfRef], Node("if_false", 0, <<>>, 0, 0))
    IN  [SetLabel(f, k, l) EXCEPT !.locals = l.pre, !.term = FALSE, !.junk = JunkInElse(a, l)]

\* The live path arrives at its own block's end.
FallThrough(b) ==
    LET k == Len(b.labels)
    IN  IF b.term THEN b
        ELSE Arrive(IF TopLabel(b).Arity = 0 THEN b ELSE PopRef(b), k, TopRef(b))

EndOfBlock(b) ==
    LET a == FallThrough(b)
        l == TopLabel(a)
    IN  [FinalizeMerge(PopLabel(a), l) EXCEPT
            !.junk = IF l.EndList = <<>> THEN @ ELSE JunkAfter(a, l),
            !.dropped = Dropped(a, l)]

\* All back edges meet in one LOOP_END, the second input of the header.
EndOfLoop(b) ==
    LET l == TopLabel(b)
        e == IF b.term THEN b ELSE EmitEnd(b)
        m == EmitMerge(e, l.BackEnds)
        Wire(acc, x) ==
            IF l.phis[x] = Unused THEN acc
            ELSE IF Len(l.BackEnds) = 1
            THEN [acc EXCEPT !.ir[l.phis[x]].ls[2] = l.BackLocals[1][x]]
            ELSE LET f == EmitPhi(acc, [k \in DOMAIN l.BackLocals |-> l.BackLocals[k][x]])
                 IN  [f EXCEPT !.ir[l.phis[x]].ls[2] = LastRef(f)]
        w == FoldLeft(Wire, m, [x \in Idx |-> x])
        le == EmitEnd(w)
        s == [le EXCEPT !.ir[l.LoopHeader].ls = Append(@, LastRef(le))]
    IN  IF l.BackEnds = <<>> THEN PopLabel(b)
        ELSE PopLabel(IF b.term THEN s ELSE EmitMerge(s, <<LastRef(e)>>))

\* Without an else the false arm is empty and keeps the locals of before.
EndOfIf(b) ==
    LET k == Len(b.labels)
        l0 == TopLabel(b)
        a == FallThrough(b)
        f == EmitNode([a EXCEPT !.ctl = l0.IfRef, !.locals = l0.pre],
                  Node("if_false", 0, <<>>, 0, 0))
        z == IF l0.HasElse THEN a
             ELSE Arrive(f, k, IF l0.in = 0 THEN Unused ELSE Param(l0))
    IN  IF l0.HasElse /\ l0.thenTerm /\ b.term
        THEN [PopLabel(b) EXCEPT !.lost = @ \/ l0.EndList # <<>>]
        ELSE [FinalizeMerge(PopLabel(z), TopLabel(z)) EXCEPT
                !.junk = JunkAfter(a, l0), !.dropped = Dropped(a, TopLabel(z))]

ReturnValue(b) == TopRef(b)
VisitEnd(b, i) ==
    IF b.labels = <<>>
    THEN IF b.term THEN b
         ELSE EmitLast(PopRef(b), Node("return", ReturnValue(b), <<>>, 0, i.id))
    ELSE CASE TopLabel(b).kind = "block" -> EndOfBlock(b)
           [] TopLabel(b).kind = "loop" -> EndOfLoop(b)
           [] OTHER -> EndOfIf(b)

\* visitBr pops the result, visitBrIf leaves it for the other path.
VisitBr(b, i) ==
    LET k == Depth(b, i.ls[1])
        t == b.labels[k]
        pops == t.kind # "loop" /\ t.Arity > 0
    IN  IF k < 1 THEN [b EXCEPT !.failed = TRUE]
        ELSE [BranchTo(IF pops THEN PopRef(b) ELSE b, k, TopRef(b)) EXCEPT !.term = TRUE]
VisitBrIf(b, i) ==
    LET k == Depth(b, i.ls[1])
        c == EmitNode(PopRef(b), Node("if", TopRef(b), <<>>, 0, i.id))
        t == BranchTo(EmitNode(c, Node("if_true", 0, <<>>, 0, 0)), k, TopRef(c))
    IN  IF k < 1 THEN [b EXCEPT !.failed = TRUE]
        ELSE EmitNode([t EXCEPT !.ctl = LastRef(c)], Node("if_false", 0, <<>>, 0, 0))
VisitBrTable(b, i) ==
    LET s == EmitNode(PopRef(b), Node("switch", TopRef(b), <<>>, 0, i.id))
        first == b.labels[Depth(b, i.ls[1])]
        shared == first.kind # "loop" /\ first.Arity > 0
        q == IF shared THEN PopRef(s) ELSE s
        Case(acc, n) == BranchTo(EmitNode([acc EXCEPT !.ctl = LastRef(s)],
                                      Node("case", 0, <<>>, 0, 0)),
                                 Depth(acc, n), TopRef(s))
    IN  IF \E k \in DOMAIN i.ls : Depth(b, i.ls[k]) < 1 THEN [b EXCEPT !.failed = TRUE]
        ELSE [FoldLeft(Case, q, i.ls) EXCEPT !.term = TRUE]

VisitReturn(b, i) ==
    [EmitLast(PopRef(b), Node("return", ReturnValue(b), <<>>, 0, i.id)) EXCEPT
        !.term = TRUE]
VisitUnreachable(b, i) ==
    [EmitLast(b, Node("unreachable", 0, <<>>, 0, i.id)) EXCEPT !.term = TRUE]

\* memory.grow reloads MemoryBase for all the code that is visited after it.
VisitData(b, i) ==
    LET n == EmitNode(PopRef(b), Node(i.op, TopRef(b), <<b.base>>, 0, i.id))
        v == EmitNode(b, Node("value", 0, <<>>, 0, i.id))
    IN  CASE i.op = "value" -> Push(v, LastRef(v))
          [] i.op = "use" -> n
          [] i.op = "drop" -> PopRef(b)
          [] i.op = "get" -> Push(b, b.locals[i.n])
          [] i.op = "set" -> [PopRef(b) EXCEPT !.locals[i.n] = TopRef(b)]
          [] i.op = "tee" -> [b EXCEPT !.locals[i.n] = TopRef(b)]
          [] i.op = "load" -> Push(n, LastRef(n))
          [] i.op = "grow" -> Push([n EXCEPT !.base = LastRef(n),
                                             !.grown = @ \/ b.labels # <<>>], LastRef(n))

\* visitInstruction: in terminated code only the structure is visited.
VisitInstruction(b, i, is, info, p) ==
    IF b.failed \/ (b.term /\ i.op \notin Openers \cup {"else", "end"}) THEN b
    ELSE CASE i.op = "block" -> VisitBlock(b, i)
           [] i.op = "loop" -> VisitLoop(b, i, is, info, p)
           [] i.op = "if" -> VisitIf(b, i)
           [] i.op = "else" -> VisitElse(b)
           [] i.op = "end" -> VisitEnd(b, i)
           [] i.op = "br" -> VisitBr(b, i)
           [] i.op = "br_if" -> VisitBrIf(b, i)
           [] i.op = "br_table" -> VisitBrTable(b, i)
           [] i.op = "return" -> VisitReturn(b, i)
           [] i.op = "unreachable" -> VisitUnreachable(b, i)
           [] OTHER -> VisitData(b, i)

\* buildFromInstructions, with its stub for a body that only traps.
BuildFromInstructions(is, info) ==
    IF is[1].op = "unreachable" THEN VisitUnreachable(BuildInit, is[1])
    ELSE FoldLeft(LAMBDA b, p : VisitInstruction(b, is[p], is, info, p),
                  BuildInit, [p \in DOMAIN is |-> p])

-----------------------------------------------------------------------------
(* The OSR entry of a loop *)

\* findOsrLoopStart: the n-th loop, from 0, that visitLoop gives an index.
FindOsrLoopStart(is, n) ==
    LET Walk(acc, p) ==
            LET i == is[p]
                osr == /\ i.op = "loop" /\ BlockTypeEmpty(i)
                       /\ \A k \in DOMAIN acc.open :
                            acc.open[k].op = "block" /\ BlockTypeEmpty(acc.open[k])
            IN  IF i.op \in Openers
                THEN [open |-> Append(acc.open, i),
                      seen |-> IF osr THEN Append(acc.seen, p) ELSE acc.seen]
                ELSE IF i.op = "end" /\ acc.open # <<>>
                THEN [acc EXCEPT !.open = Front(@)]
                ELSE acc
        seen == FoldLeft(Walk, [open |-> <<>>, seen |-> <<>>], [p \in DOMAIN is |-> p]).seen
    IN  IF n < Len(seen) THEN seen[n + 1] ELSE Len(is) + 1

\* appendOsrFunctionSlot: the blocks around the loop are opened again, then
\* comes the rest of the body from the loop on.  All locals are parameters.
OsrBody(is, n) ==
    LET start == FindOsrLoopStart(is, n)
        open == FoldLeft(LAMBDA acc, p : IF is[p].op \in Openers THEN Append(acc, is[p])
                                         ELSE IF is[p].op = "end" THEN Front(acc)
                                         ELSE acc,
                         <<>>, [p \in 1 .. start - 1 |-> p])
    IN  open \o SubSeq(is, start, Len(is))

-----------------------------------------------------------------------------
(* The interpreter.  A machine stops at events; r is the answer to one. *)

Undef == -1
Made(i, r) == 2 * i.id + r
Event(e, id, v, base) == [e |-> e, id |-> id, v |-> v, base |-> base]
Machine(is, info, locals) ==
    [is |-> is, info |-> info, pc |-> 1, stack |-> <<>>, locals |-> locals]

WasmSilent(w) == w.pc < Len(w.is) /\ w.is[w.pc].op \in
    {"drop", "get", "set", "tee", "block", "loop", "else", "end", "br"}
WasmEvent(w) ==
    LET i == w.is[w.pc]
        v == IF w.stack = <<>> THEN Undef ELSE Last(w.stack)
    IN  CASE i.op = "value" -> Event("value", i.id, 0, 1)
          [] i.op \in {"if", "br_if"} -> Event("if", i.id, v, 1)
          [] i.op = "br_table" -> Event("switch", i.id, v, 1)
          [] i.op \in {"return", "end"} -> Event("return", i.id, v, 1)
          [] i.op = "unreachable" -> Event("unreachable", i.id, 0, 1)
          [] OTHER -> Event(i.op, i.id, v, 1)

\* The erased and the kept part of a jump, then the jump itself.
branchToLabel(w, stack, j) ==
    [w EXCEPT !.stack = SubSeq(stack, 1, Len(stack) - j.erase)
                          \o SubSeq(stack, Len(stack) - j.keep + 1, Len(stack)),
              !.pc = IF j.pos = 0 THEN Len(w.is)
                     ELSE IF w.is[j.pos].op = "loop" THEN j.pos
                     ELSE w.info[j.pos].end]

WasmStep(w, r) ==
    LET i == w.is[w.pc]
        info == w.info[w.pc]
        n == [w EXCEPT !.pc = @ + 1]
        pop == Front(w.stack)
    IN  CASE i.op = "value" -> [n EXCEPT !.stack = Append(@, Made(i, r))]
          [] i.op \in {"load", "grow"} -> [n EXCEPT !.stack = Append(pop, Made(i, r))]
          [] i.op \in {"use", "drop"} -> [n EXCEPT !.stack = pop]
          [] i.op = "get" -> [n EXCEPT !.stack = Append(@, w.locals[i.n])]
          [] i.op = "set" -> [n EXCEPT !.stack = pop, !.locals[i.n] = Last(w.stack)]
          [] i.op = "tee" -> [n EXCEPT !.locals[i.n] = Last(w.stack)]
          [] i.op \in {"block", "loop", "end"} -> n
          [] i.op = "else" -> [n EXCEPT !.pc = info.end]
          [] i.op = "if" -> [n EXCEPT !.stack = pop,
                               !.pc = IF r = 1 THEN @ ELSE IF info.else = 0 THEN info.end
                                      ELSE info.else + 1]
          [] i.op = "br" -> branchToLabel(w, w.stack, info.jumps[1])
          [] i.op = "br_if" -> IF r = 1 THEN branchToLabel(w, pop, info.jumps[1])
                               ELSE [n EXCEPT !.stack = pop]
          [] i.op = "br_table" -> branchToLabel(w, pop, info.jumps[r + 1])

\* To the next event, unless the loop in between never ends.
MaxSilent == 30
RECURSIVE Settle(_, _)
Settle(w, fuel) ==
    IF fuel > 0 /\ WasmSilent(w) THEN Settle(WasmStep(w, 0), fuel - 1) ELSE w
WasmSettle(w) == Settle(w, MaxSilent)

-----------------------------------------------------------------------------
(* Execution of the graph.  Before an OSR entry is taken `at` is a control *)
(* node and env the values made so far; after it osr is the interpreter    *)
(* of the OSR body, for the code LLVM makes of it.                         *)

NoOsr == [is |-> <<>>]
Ir == graph.ir
Quiet == {"start", "begin", "merge", "loop_begin", "end", "if_true", "if_false", "case"}
GraphSilent(t) == t.at # 0 /\ Ir[t.at].k \in Quiet

ValueOf(env, ref) == IF ref = Unused THEN Undef ELSE env[ref]
GraphEvent(t) ==
    LET n == Ir[t.at]
    IN  IF t.at = 0 THEN Event("stuck", 0, 0, 0)
        ELSE IF n.k \in {"value", "unreachable"} THEN Event(n.k, n.id, 0, 1)
        ELSE Event(n.k, n.id, ValueOf(t.env, n.v),
                   IF n.k = "load" /\ ValueOf(t.env, n.ls[1]) = Undef THEN 0 ELSE 1)

\* The control nodes that follow each node, in the order of their emission; an
\* END leads to the merge that has it as an input.
Followers(ir) ==
    [a \in DOMAIN ir |->
       IF ir[a].k \in {"phi", "param"} THEN <<>>
       ELSE SetToSortSeq({n \in DOMAIN ir :
                IF ir[a].k = "end" THEN a \in Range(ir[n].ls)
                                        /\ ir[n].k \in {"begin", "merge", "loop_begin"}
                ELSE ir[n].pred = a}, LAMBDA x, y : x < y)]
PhisOf(ir) == [a \in DOMAIN ir |-> {q \in DOMAIN ir : ir[q].k = "phi" /\ ir[q].at = a}]
\* IF_TRUE comes before IF_FALSE.
NextNode(a, r) ==
    LET s == graph.next[a]
        k == CASE Ir[a].k = "if" -> 2 - r [] Ir[a].k = "switch" -> r + 1 [] OTHER -> 1
    IN  IF k <= Len(s) /\ (Ir[a].k \notin {"if", "switch"} => Len(s) = 1) THEN s[k] ELSE 0

\* Leaving a node: its value is made, and all PHIs of a merge change at once.
GraphStep(t, r) ==
    LET a == t.at
        n == Ir[a]
        next == NextNode(a, r)
        input == CHOOSE k \in DOMAIN Ir[next].ls : Ir[next].ls[k] = a
    IN  [t EXCEPT !.at = next,
                  !.env = IF n.k \in {"value", "load", "grow"}
                          THEN [@ EXCEPT ![a] = 2 * n.id + r]
                          ELSE IF n.k = "end" /\ next # 0 /\ graph.phis[next] # {}
                          THEN [q \in DOMAIN @ |-> IF q \in graph.phis[next]
                                                   THEN ValueOf(@, Ir[q].ls[input]) ELSE @[q]]
                          ELSE @]
RECURSIVE GraphSettle(_, _)
GraphSettle(t, fuel) ==
    IF fuel > 0 /\ GraphSilent(t) THEN GraphSettle(GraphStep(t, 0), fuel - 1) ELSE t

AtOsr(t) == t.osr = NoOsr /\ t.at # 0 /\ Ir[t.at].k = "osr"
Tier1Silent(t) == IF t.osr = NoOsr THEN GraphSilent(t) ELSE WasmSilent(t.osr)
Tier1Event(t) == IF t.osr = NoOsr THEN GraphEvent(t) ELSE WasmEvent(t.osr)
Tier1Settle(t) == IF t.osr = NoOsr THEN GraphSettle(t, MaxSilent)
                  ELSE [t EXCEPT !.osr = WasmSettle(@)]
Tier1Step(t, r) == IF t.osr = NoOsr THEN GraphStep(t, r)
                   ELSE [t EXCEPT !.osr = WasmStep(@, r)]

-----------------------------------------------------------------------------
(* The behaviours *)

NoGraph == [ir |-> <<>>, faithful |-> FALSE]
Nothing == [at |-> 0, env |-> <<>>, osr |-> NoOsr]

IRInit ==
    /\ menu \in Menus
    /\ body = <<>>
    /\ chk = CheckInit
    /\ graph = NoGraph
    /\ wasm = NoOsr
    /\ tier1 = Nothing
    /\ phase = "load"

Stamp(is, from) == [k \in DOMAIN is |-> [is[k] EXCEPT !.id = from + k]]

\* The loader and the validator accept some more of the function.
Load ==
    /\ phase = "load"
    /\ \E f \in menu.frags :
         LET more == Stamp(f, Len(body))
             c == FoldLeft(CheckInstr, chk, more)
         IN  /\ c.ok /\ Len(c.ctrl) \in 1 .. MaxDepth
             /\ Len(body) + Len(f) + Len(c.ctrl) <= menu.len
             /\ body' = body \o more
             /\ chk' = c
    /\ UNCHANGED <<menu, graph, wasm, tier1, phase>>

\* The function is complete, and instantiation builds and compiles it.
Build ==
    /\ phase = "load"
    /\ LET is == body \o Stamp(Append(Epilogue, [op |-> "end", n |-> 0, in |-> 0, ar |-> 0,
                                                 idx |-> FALSE, ls |-> <<>>, id |-> 0]), Len(body))
           c == CheckBody(is)
           b == BuildFromInstructions(is, c.info)
       IN  /\ c.ok /\ Len(c.ctrl) = 0
           /\ body' = is
           /\ chk' = c
           /\ graph' = [ir |-> b.ir, next |-> Followers(b.ir), phis |-> PhisOf(b.ir),
                        faithful |-> ~(b.failed \/ b.deadIf \/ b.lost \/ b.junk \/ b.grown
                                       \/ b.dropped)]
    /\ phase' = "run"
    /\ wasm' = WasmSettle(Machine(body', chk'.info, [x \in Idx |-> 1000 + x]))
    /\ tier1' = [at |-> 1, osr |-> NoOsr,
                 env |-> [n \in DOMAIN graph'.ir |-> IF n <= NumLocals + 1 THEN 1000 + n - 1
                                                     ELSE Undef]]
    /\ UNCHANGED menu

\* A function whose build failed stays with the interpreter.  The other five
\* flags mark the functions that the builder is known to translate wrongly:
\* their executions are left out.
Running == phase = "run" /\ graph.faithful

\* Code between two events.
Silent ==
    /\ Running
    /\ WasmSilent(wasm) \/ Tier1Silent(tier1)
    /\ wasm' = WasmSettle(wasm)
    /\ tier1' = Tier1Settle(tier1)
    /\ UNCHANGED <<menu, body, chk, graph, phase>>

\* A back edge finds no OSR entry, or the one that was compiled for its loop:
\* the locals are stored for it, and what it returns is returned.
Osr(taken) ==
    LET n == Ir[tier1.at]
        is == OsrBody(body, n.v)
        c == CheckBody(is)
    IN  /\ Running /\ ~WasmSilent(wasm) /\ AtOsr(tier1)
        /\ taken => c.ok
        /\ tier1' = IF taken
                    THEN [Nothing EXCEPT !.osr = WasmSettle(Machine(is, c.info,
                             [x \in Idx |-> ValueOf(tier1.env, n.ls[x])]))]
                    ELSE GraphSettle(GraphStep(tier1, 0), MaxSilent)
        /\ UNCHANGED <<menu, body, chk, graph, wasm, phase>>

AtEvent == Running /\ ~WasmSilent(wasm) /\ ~Tier1Silent(tier1) /\ ~AtOsr(tier1)
Answers ==
    CASE WasmEvent(wasm).e \in {"value", "load", "grow", "if"} -> {0, 1}
      [] WasmEvent(wasm).e = "switch" -> 0 .. Len(wasm.is[wasm.pc].ls) - 1
      [] OTHER -> {0}
Respond ==
    /\ AtEvent /\ WasmEvent(wasm) = Tier1Event(tier1)
    /\ IF WasmEvent(wasm).e \in {"return", "unreachable"}
         THEN phase' = "done" /\ UNCHANGED <<wasm, tier1>>
         ELSE \E r \in Answers :
                /\ wasm' = WasmSettle(WasmStep(wasm, r))
                /\ tier1' = Tier1Settle(Tier1Step(tier1, r))
                /\ UNCHANGED phase
    /\ UNCHANGED <<menu, body, chk, graph>>

IRNext == Load \/ Build \/ Silent \/ Osr(TRUE) \/ Osr(FALSE) \/ Respond

IRSpec == IRInit /\ [][IRNext]_irVars

-----------------------------------------------------------------------------
(* Properties *)

(***************************************************************************)
(* Whatever the shape of a function (blocks, loops, ifs, branches out of   *)
(* any of them, locals assigned on some paths only, results left on the    *)
(* stack), the graph does what the interpreter does with it: the same      *)
(* values are used, tested, stored and returned in the same order, memory  *)
(* is read through a base that was loaded, and that also holds from the    *)
(* iteration on in which a loop is left for its OSR entry.  Not claimed    *)
(* for the functions marked by deadIf (an if in dead code), lost (an if    *)
(* whose arms end in branches to its own end), junk (a path that ends with *)
(* operands on the stack), grown (memory.grow inside a block) and dropped  *)
(* (a block type given by a type index, whose parameters and results the   *)
(* builder does not know, where two paths bring different values), which   *)
(* visitIf, visitLoop, visitEnd and visitInstruction translate differently.*)
(***************************************************************************)
TierOneAgrees ==
    AtEvent => Tier1Event(tier1) = WasmEvent(wasm)

(***************************************************************************)
(* The loop that findOsrLoopStart finds for the index in an OSR request is *)
(* the loop whose back edge makes that request: the two number the loops   *)
(* of a function on their own, one while it builds the graph and skips     *)
(* dead code, the other on the instructions.                               *)
(***************************************************************************)
OsrLoopsAgree ==
    phase = "run" => \A n \in DOMAIN Ir : Ir[n].k = "osr" =>
                       FindOsrLoopStart(body, Ir[n].v) = Ir[n].at
=============================================================================
