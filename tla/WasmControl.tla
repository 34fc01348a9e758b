----------------------------- MODULE WasmControl -----------------------------
(***************************************************************************)
(* Structured control from the binary to the interpreter: Loader::         *)
(* loadInstrSeq finds the end of every block, FormChecker checks the types *)
(* and precomputes for every branch how much of the value stack it erases, *)
(* and Executor::execute runs the instructions on a StackManager that has  *)
(* no labels, only values, frames and exception handlers.                  *)
(*                                                                         *)
(* The first phase reads one instruction per step, for each function of    *)
(* Fns in turn, and is disabled where loader or validator reject it; the   *)
(* second runs the last function.  A run-time value is its type, and the   *)
(* tag for an exception reference; conditions and br_table operands are    *)
(* arbitrary.  Instructions without control are one StackTrans each.       *)
(***************************************************************************)
EXTENDS Integers, Sequences, SequencesExt, FiniteSets

CONSTANTS
    Fns,            \* sequence of functions [in, out, locals, body]; the last
                    \* has body <<>>: any instructions of Menu are tried
    Menu,           \* the instructions of the last function
    Tags,           \* function from tag names to the types a tag carries
    MaxLen,         \* bound on the length of the last function
    MaxNest,        \* bound on the depth of its control stack
    MaxFrames,      \* bound on call depth
    \* What executions may do after which the code's stack, handlers or program
    \* counter are wrong; where FALSE they end there.
    MayCatchLate,   \* a handler whose block was left may be tried
    MayStrayPayload,\* the values of an exception may stay on the stack where
                    \* the label of the clause that catches it does not take
                    \* them, or be missing when a reference is thrown again
    MayJumpAstray   \* a branch may be taken to the label of a try_table

ValTypes == {"i32", "i64", "f32", "f64", "v128", "funcref", "externref", "exnref"}
Types == Seq(ValTypes)

\* What the loader and the index checks of FormChecker let through.
Clauses == [tag : DOMAIN Tags \cup {"all"}, ref : BOOLEAN, label : Nat]
WasmInstrs ==
    {i \in [op : {"trans", "drop", "block", "loop", "if", "else", "try", "end", "br",
                  "br_if", "br_table", "return", "call", "return_call", "throw",
                  "throw_ref", "unreachable"},
            in : Types, out : Types, labels : Seq(Nat), catches : Seq(Clauses),
            tag : DOMAIN Tags \cup {"none"}, f : DOMAIN Fns \cup {0}] :
       /\ i.op \in {"br", "br_if", "br_table"} => i.labels # <<>>
       /\ i.op = "throw" => i.tag \in DOMAIN Tags
       /\ i.op \in {"call", "return_call"} => i.f \in DOMAIN Fns}

ASSUME ConstantsOK ==
    /\ Fns \in Seq([in : Types, out : Types, locals : Types, body : Seq(WasmInstrs)])
    /\ Fns # <<>> /\ Last(Fns).body = <<>>
    /\ Menu \subseteq WasmInstrs
    /\ Tags \in [DOMAIN Tags -> Types] /\ {"all", "none"} \cap DOMAIN Tags = {}
    /\ {MaxLen, MaxNest, MaxFrames} \subseteq Nat
    /\ {MayCatchLate, MayStrayPayload, MayJumpAstray} \subseteq BOOLEAN

VARIABLES
    code,           \* code[f]: the instructions read so far
    typing,         \* typing[f][pc]: ValStack before the instruction, or
                    \* after it for an end, to which branches go; Unreached
                    \* in code that cannot be reached
    CtrlStack,      \* control frames of the function being read
    ValStack,       \* its operand types; "any" is unreachableVType
    values,         \* ValueStack
    frames,         \* FrameStack
    pc,             \* program counter in the function of the top frame
    exn,            \* the exception being thrown
    status          \* "check", "run", "throw", "done", "trap" or "uncaught"

checkVars == <<code, typing, CtrlStack, ValStack>>
runVars == <<values, frames, pc, exn, status>>
vars == <<code, typing, CtrlStack, ValStack, values, frames, pc, exn, status>>

\* at and below: where the frame being unwound is, and the position below which
\* the handlers of that frame have not been tried.
NoExn == [tag |-> "none", at |-> 0, below |-> 0]

\* A control frame: the instruction that opened it, its position, its types,
\* the height of ValStack below it, and whether its code is unreachable.
Ctrl(op, pos, in, out, height) ==
    [op |-> op, pos |-> pos, in |-> in, out |-> out, height |-> height,
     unreach |-> FALSE]

Init ==
    /\ code = <<<<>>>>
    /\ typing = <<<<>>>>
    /\ CtrlStack = <<Ctrl("func", 0, <<>>, Fns[1].out, 0)>>
    /\ ValStack = <<>>
    /\ values = <<>>
    /\ frames = <<>>
    /\ pc = 0
    /\ exn = NoExn
    /\ status = "check"

-----------------------------------------------------------------------------
(* FormChecker on its two stacks *)

fn == Len(code)
Cnt == Len(code[fn]) + 1
Top == Last(CtrlStack)

Matches(expected, got) == got = "any" \/ got = expected

\* popTypes, when it succeeds.  Below the height of an unreachable frame there
\* is any type.
CanPop(vals, ts) ==
    LET n == Min({Len(ts), Len(vals) - Top.height})
    IN  /\ n = Len(ts) \/ Top.unreach
        /\ \A i \in 0 .. n - 1 : Matches(ts[Len(ts) - i], vals[Len(vals) - i])
Pop(vals, ts) == SubSeq(vals, 1, Max({Top.height, Len(vals) - Len(ts)}))

\* StackPopAny.
CanPopAny(vals) == Len(vals) > Top.height \/ Top.unreach
PopAny(vals) == SubSeq(vals, 1, Max({Top.height, Len(vals) - 1}))

\* What is recorded of the code FormChecker looks at.
Unreached == <<"unreachable">>
Seen(ctrls, vals) ==
    IF \A k \in DOMAIN ctrls : ~ctrls[k].unreach THEN vals ELSE Unreached

\* unreachable().
Unreachable ==
    /\ ValStack' = SubSeq(ValStack, 1, Top.height)
    /\ CtrlStack' = Append(Front(CtrlStack), [Top EXCEPT !.unreach = TRUE])

\* checkCtrlStackDepth and getLabelTypes.
HasLabel(n) == n < Len(CtrlStack)
Label(n) == CtrlStack[Len(CtrlStack) - n]
LabelTypes(n) == IF Label(n).op = "loop" THEN Label(n).in ELSE Label(n).out

\* Mutant of RecordJump: the erased part leaves out the label's own values.
RecordJumpNoArity(vals, arity, n) ==
    [begin |-> Len(vals) - Label(n).height, end |-> arity, pos |-> Label(n).pos]

\* recordJump, with ValStack as it is after the operands are popped: how much
\* to erase, and the position of the block that is left.
RecordJump(vals, arity, n) ==
    [begin |-> Len(vals) - Label(n).height + arity, end |-> arity,
     pos |-> Label(n).pos]

-----------------------------------------------------------------------------
(* Loading and checking one instruction *)

\* The instructions that may come next.
NextInstrs == IF Fns[fn].body = <<>> THEN Menu
              ELSE IF Cnt <= Len(Fns[fn].body) THEN {Fns[fn].body[Cnt]} ELSE {}
Room(blocks) == Fns[fn].body = <<>> => Cnt + Len(CtrlStack) + blocks <= MaxLen

Emit(i, jumps) ==
    /\ code' = [code EXCEPT ![fn] =
                  Append(@, [ins |-> i, jumps |-> jumps, else |-> 0, end |-> 0,
                             last |-> "none"])]
    /\ typing' = [typing EXCEPT ![fn] = Append(@, Seen(CtrlStack, ValStack))]

\* Any instruction that takes and puts fixed types.
CheckTrans(i) ==
    /\ i.op = "trans" /\ Room(0)
    /\ CanPop(ValStack, i.in)
    /\ ValStack' = Pop(ValStack, i.in) \o i.out
    /\ Emit(i, <<>>)
    /\ UNCHANGED CtrlStack

CheckDrop(i) ==
    /\ i.op = "drop" /\ Room(0)
    /\ CanPopAny(ValStack)
    /\ ValStack' = PopAny(ValStack)
    /\ Emit(i, <<>>)
    /\ UNCHANGED CtrlStack

CatchTypes(c) == (IF c.tag = "all" THEN <<>> ELSE Tags[c.tag])
                   \o (IF c.ref THEN <<"exnref">> ELSE <<>>)

\* block, loop, if and try_table: pop the condition and the parameters, check
\* the catch clauses against the labels outside, push a control frame.
CheckBlock(i) ==
    LET take == i.in \o (IF i.op = "if" THEN <<"i32">> ELSE <<>>)
        vals == Pop(ValStack, take)
    IN  /\ i.op \in {"block", "loop", "if", "try"}
        /\ Room(1) /\ Len(CtrlStack) < MaxNest
        /\ CanPop(ValStack, take)
        /\ \A k \in DOMAIN i.catches :
             /\ HasLabel(i.catches[k].label)
             /\ CatchTypes(i.catches[k]) = LabelTypes(i.catches[k].label)
        /\ CtrlStack' = Append(CtrlStack, Ctrl(i.op, Cnt, i.in, i.out, Len(vals)))
        /\ ValStack' = vals \o i.in
        /\ Emit(i, [k \in DOMAIN i.catches |->
                      RecordJump(vals, Len(CatchTypes(i.catches[k])),
                                 i.catches[k].label)])

\* popCtrl succeeds: the frame's results and nothing else are on its stack.
CanPopCtrl ==
    /\ CanPop(ValStack, Top.out)
    /\ Len(Pop(ValStack, Top.out)) = Top.height

CheckElse(i) ==
    /\ i.op = "else" /\ Room(0)
    /\ Top.op = "if" /\ CanPopCtrl
    /\ CtrlStack' = Append(Front(CtrlStack),
                           Ctrl("else", Top.pos, Top.in, Top.out, Top.height))
    /\ ValStack' = Pop(ValStack, Top.out) \o Top.in
    /\ typing' = [typing EXCEPT ![fn] = Append(@, Seen(CtrlStack, ValStack))]
    /\ code' = [code EXCEPT ![fn] =
                  Append([@ EXCEPT ![Top.pos].else = Cnt],
                         [ins |-> i, jumps |-> <<>>, else |-> 0, end |-> 0,
                          last |-> "none"])]

\* The end of a block: loadInstrSeq stores its position in the instructions
\* that open the block and its else part, and marks the end of a try_table.
\* An if without else has the same types before and after.
CheckEnd(i) ==
    LET ends == {Top.pos} \cup
                (IF Top.op = "else" THEN {code[fn][Top.pos].else} ELSE {})
    IN  /\ i.op = "end" /\ Len(CtrlStack) > 1
        /\ CanPopCtrl
        /\ Top.op = "if" => Top.in = Top.out
        /\ CtrlStack' = Front(CtrlStack)
        /\ ValStack' = Pop(ValStack, Top.out) \o Top.out
        /\ typing' = [typing EXCEPT ![fn] = Append(@, Seen(CtrlStack', ValStack'))]
        /\ code' = [code EXCEPT ![fn] =
                      Append([p \in DOMAIN @ |->
                                IF p \in ends THEN [@[p] EXCEPT !.end = Cnt]
                                              ELSE @[p]],
                             [ins |-> i, jumps |-> <<>>, else |-> 0, end |-> 0,
                              last |-> IF Top.op = "try" THEN "try" ELSE "none"])]

CheckBr(i) ==
    LET n == i.labels[1]
    IN  /\ i.op = "br" /\ Room(0)
        /\ HasLabel(n)
        /\ CanPop(ValStack, LabelTypes(n))
        /\ Emit(i, <<RecordJump(Pop(ValStack, LabelTypes(n)),
                                Len(LabelTypes(n)), n)>>)
        /\ Unreachable

CheckBrIf(i) ==
    LET n == i.labels[1]
        take == LabelTypes(n) \o <<"i32">>
    IN  /\ i.op = "br_if" /\ Room(0)
        /\ HasLabel(n)
        /\ CanPop(ValStack, take)
        /\ Emit(i, <<RecordJump(Pop(ValStack, take), Len(LabelTypes(n)), n)>>)
        /\ ValStack' = Pop(ValStack, take) \o LabelTypes(n)
        /\ UNCHANGED CtrlStack

\* All labels of a br_table have as many types as its last one, and each takes
\* its types from the stack as it is after the operand is popped; in
\* unreachable code the first label leaves "any" for the others.
CheckBrTable(i) ==
    LET vals == PopAny(ValStack)
        Expects(k) == LabelTypes(i.labels[k])
    IN  /\ i.op = "br_table" /\ Room(0)
        /\ \A k \in DOMAIN i.labels : HasLabel(i.labels[k])
        /\ CanPop(ValStack, <<"i32">>)
        /\ \A k \in DOMAIN i.labels :
             /\ Len(Expects(k)) = Len(Expects(Len(i.labels)))
             /\ k = 1 \/ ~Top.unreach => CanPop(vals, Expects(k))
        /\ Emit(i, [k \in DOMAIN i.labels |->
                      RecordJump(Pop(vals, Expects(k)), Len(Expects(k)),
                                 i.labels[k])])
        /\ Unreachable

CheckReturn(i) ==
    /\ i.op = "return" /\ Room(0)
    /\ CanPop(ValStack, Fns[fn].out)
    /\ Emit(i, <<>>)
    /\ Unreachable

CheckCall(i) ==
    /\ i.op = "call" /\ Room(0)
    /\ CanPop(ValStack, Fns[i.f].in)
    /\ ValStack' = Pop(ValStack, Fns[i.f].in) \o Fns[i.f].out
    /\ Emit(i, <<>>)
    /\ UNCHANGED CtrlStack

CheckReturnCall(i) ==
    /\ i.op = "return_call" /\ Room(0)
    /\ Fns[fn].out = Fns[i.f].out
    /\ CanPop(ValStack, Fns[i.f].in)
    /\ Emit(i, <<>>)
    /\ Unreachable

CheckThrow(i) ==
    /\ i.op = "throw" /\ Room(0)
    /\ CanPop(ValStack, Tags[i.tag])
    /\ Emit(i, <<>>)
    /\ Unreachable

CheckThrowRef(i) ==
    /\ i.op = "throw_ref" /\ Room(0)
    /\ CanPop(ValStack, <<"exnref">>)
    /\ Emit(i, <<>>)
    /\ Unreachable

CheckUnreachable(i) ==
    /\ i.op = "unreachable" /\ Room(0)
    /\ Emit(i, <<>>)
    /\ Unreachable

Check ==
    /\ status = "check"
    /\ \E i \in NextInstrs :
         \/ CheckTrans(i) \/ CheckDrop(i) \/ CheckBlock(i) \/ CheckElse(i)
         \/ CheckEnd(i) \/ CheckBr(i) \/ CheckBrIf(i) \/ CheckBrTable(i)
         \/ CheckReturn(i) \/ CheckCall(i) \/ CheckReturnCall(i)
         \/ CheckThrow(i) \/ CheckThrowRef(i) \/ CheckUnreachable(i)
    /\ UNCHANGED runVars

-----------------------------------------------------------------------------
(* StackManager *)

Val(t) == [type |-> t, tag |-> "none"]
TypesOf(vals) == [k \in DOMAIN vals |-> vals[k].type]
LastOf(vals, n) == SubSeq(vals, Len(vals) - n + 1, Len(vals))

\* eraseValueStack: the values between the last b and the last e go.
Erase(vals, b, e) == SubSeq(vals, 1, Len(vals) - b) \o LastOf(vals, e)

Frame(f, from, locals, arity, vpos) ==
    [fn |-> f, from |-> from, locals |-> locals, arity |-> arity,
     vpos |-> vpos, handlers |-> <<>>]

\* enterFunction for an interpreted function whose arguments are on top of
\* vals: push the locals, then the frame.
ArgsOf(f) == [k \in DOMAIN Fns[f].in |-> Val(Fns[f].in[k])]
LocalsOf(f) == [k \in DOMAIN Fns[f].locals |-> Val(Fns[f].locals[k])]
LocalNum(f) == Len(Fns[f].in) + Len(Fns[f].locals)

\* The end of the last function's body ends the expression; the next function
\* is read, or runFunction pushes its dummy frame and enters the last one.
EndFunction ==
    /\ status = "check"
    /\ Fns[fn].body = <<>> \/ Cnt = Len(Fns[fn].body) + 1
    /\ Len(CtrlStack) = 1 /\ CanPopCtrl
    /\ LET last == [ins |-> [op |-> "end"], jumps |-> <<>>, else |-> 0,
                    end |-> 0, last |-> "func"]
           code1 == [code EXCEPT ![fn] = Append(@, last)]
           typing1 == [typing EXCEPT ![fn] = Append(@, Fns[fn].out)]
       IN  IF fn < Len(Fns)
             THEN /\ code' = Append(code1, <<>>)
                  /\ typing' = Append(typing1, <<>>)
                  /\ CtrlStack' = <<Ctrl("func", 0, <<>>, Fns[fn + 1].out, 0)>>
                  /\ ValStack' = <<>>
                  /\ UNCHANGED runVars
             ELSE /\ code' = code1
                  /\ typing' = typing1
                  /\ CtrlStack' = <<>>
                  /\ ValStack' = <<>>
                  /\ values' = ArgsOf(fn) \o LocalsOf(fn)
                  /\ frames' = <<Frame(0, 0, 0, 0, 0),
                                 Frame(fn, 0, LocalNum(fn), Len(Fns[fn].out),
                                       LocalNum(fn))>>
                  /\ pc' = 1
                  /\ status' = "run"
                  /\ UNCHANGED exn

Cur == Last(frames)
Instr == code[Cur.fn][pc]
At(op) == status = "run" /\ Instr.ins.op = op
SetHandlers(hs) == Append(Front(frames), [Cur EXCEPT !.handlers = hs])

\* popFrame.
PopFrame ==
    /\ values' = SubSeq(values, 1, Cur.vpos - Cur.locals)
                   \o LastOf(values, Cur.arity)
    /\ frames' = Front(frames)
    /\ pc' = Cur.from + 1
    /\ status' = IF Len(frames) = 2 THEN "done" ELSE "run"
    /\ UNCHANGED <<exn, checkVars>>

\* removeInactiveHandler: the handlers on top whose try_table does not hold p.
Holds(f, try, p) == try <= p /\ p <= code[f][try].end
RemoveInactive(f, hs, p) ==
    SubSeq(hs, 1, Max({0} \cup {k \in DOMAIN hs : Holds(f, hs[k].try, p)}))

\* The jump of a control frame: a loop's is its start, that of the function,
\* a block and an if its end.  For a try_table getJumpEnd reads the bytes of
\* the pointer to its TryDescriptor, which holds the end: the branch may go to
\* any instruction (or into other memory, which is not modelled).
Targets(f, j) ==
    IF j.pos = 0 THEN {Len(code[f])}
    ELSE CASE code[f][j.pos].ins.op = "loop" -> {j.pos}
           [] code[f][j.pos].ins.op \in {"block", "if"} -> {code[f][j.pos].end}
           [] code[f][j.pos].ins.op = "try" -> DOMAIN code[f]
Astray(f, j) == j.pos # 0 /\ code[f][j.pos].ins.op = "try"

\* branchToLabel.
Branch(vals, j) ==
    /\ MayJumpAstray \/ ~Astray(Cur.fn, j)
    /\ values' = Erase(vals, j.begin, j.end)
    /\ pc' \in Targets(Cur.fn, j)

-----------------------------------------------------------------------------
(* Executor::execute *)

Goto(p, vals) ==
    /\ pc' = p
    /\ values' = vals
    /\ UNCHANGED <<frames, exn, status, checkVars>>

Take(n) == SubSeq(values, 1, Len(values) - n)

RunTrans ==
    /\ At("trans")
    /\ Goto(pc + 1, Take(Len(Instr.ins.in))
                      \o [k \in DOMAIN Instr.ins.out |-> Val(Instr.ins.out[k])])
RunDrop == At("drop") /\ Goto(pc + 1, Take(1))
RunBlock == (At("block") \/ At("loop")) /\ Goto(pc + 1, values)

\* runIfElseOp: the false case goes on at the end, or after the else.
RunIf ==
    /\ At("if")
    /\ \/ Goto(pc + 1, Take(1))
       \/ Goto(IF Instr.else = 0 THEN Instr.end ELSE Instr.else + 1, Take(1))
RunElse == At("else") /\ Goto(Instr.end, values)

\* Mutant of RunTry: the handler points behind its try_table instruction.
RunTryPastInstr ==
    /\ At("try")
    /\ frames' = SetHandlers(Append(Cur.handlers,
                    [try |-> pc + 1, vpos |-> Len(values) - Len(Instr.ins.in)]))
    /\ pc' = pc + 1
    /\ UNCHANGED <<values, exn, status, checkVars>>

\* runTryTableOp and pushHandler.
RunTry ==
    /\ At("try")
    /\ frames' = SetHandlers(Append(Cur.handlers,
                    [try |-> pc, vpos |-> Len(values) - Len(Instr.ins.in)]))
    /\ pc' = pc + 1
    /\ UNCHANGED <<values, exn, status, checkVars>>

\* maybePopFrameOrHandler.
RunEnd ==
    /\ At("end")
    /\ CASE Instr.last = "func" -> PopFrame
         [] Instr.last = "try" ->
              /\ frames' = SetHandlers(Front(Cur.handlers))
              /\ pc' = pc + 1
              /\ UNCHANGED <<values, exn, status, checkVars>>
         [] OTHER -> Goto(pc + 1, values)

RunBr ==
    /\ At("br")
    /\ Branch(values, Instr.jumps[1])
    /\ UNCHANGED <<frames, exn, status, checkVars>>
RunBrIf ==
    /\ At("br_if")
    /\ \/ Branch(Take(1), Instr.jumps[1])
       \/ pc' = pc + 1 /\ values' = Take(1)
    /\ UNCHANGED <<frames, exn, status, checkVars>>
RunBrTable ==
    /\ At("br_table")
    /\ \E k \in DOMAIN Instr.jumps : Branch(Take(1), Instr.jumps[k])
    /\ UNCHANGED <<frames, exn, status, checkVars>>
RunReturn == At("return") /\ PopFrame

\* runCallOp: enterFunction removes the inactive handlers of the caller first.
RunCall ==
    LET f == Instr.ins.f
        vals == values \o LocalsOf(f)
    IN  /\ At("call") /\ Len(frames) < MaxFrames
        /\ values' = vals
        /\ frames' = Append(SetHandlers(RemoveInactive(Cur.fn, Cur.handlers, pc)),
                            Frame(f, pc, LocalNum(f), Len(Fns[f].out), Len(vals)))
        /\ pc' = 1
        /\ UNCHANGED <<exn, status, checkVars>>

\* The tail call replaces values, sizes and handlers of the frame and keeps
\* where it returns to.
RunReturnCall ==
    LET f == Instr.ins.f
        vals == values \o LocalsOf(f)
        kept == SubSeq(vals, 1, Cur.vpos - Cur.locals) \o LastOf(vals, LocalNum(f))
    IN  /\ At("return_call")
        /\ values' = kept
        /\ frames' = Append(Front(frames),
                            Frame(f, Cur.from, LocalNum(f), Len(Fns[f].out),
                                  Len(kept)))
        /\ pc' = 1
        /\ UNCHANGED <<exn, status, checkVars>>

\* unreachable traps; branches, returns and calls give up when the stop token
\* is set or the cost limit is reached.
Trap ==
    /\ status = "run"
    /\ Instr.ins.op \in {"unreachable", "br", "br_if", "br_table", "return",
                         "call", "return_call"}
    /\ status' = "trap"
    /\ UNCHANGED <<values, frames, pc, exn, checkVars>>

-----------------------------------------------------------------------------
(* throwException *)

Throw(tag, vals) ==
    /\ exn' = [tag |-> tag, at |-> pc, below |-> pc]
    /\ values' = vals
    /\ frames' = SetHandlers(RemoveInactive(Cur.fn, Cur.handlers, pc))
    /\ status' = "throw"
    /\ UNCHANGED <<pc, checkVars>>

RunThrow == At("throw") /\ Throw(Instr.ins.tag, values)

\* runThrowRefOp: the reference names the tag only; a null reference traps.
RunThrowRef ==
    /\ At("throw_ref")
    /\ IF Last(values).tag = "none"
         THEN /\ status' = "trap"
              /\ UNCHANGED <<values, frames, pc, exn, checkVars>>
         ELSE /\ MayStrayPayload \/ Tags[Last(values).tag] = <<>>
              /\ Throw(Last(values).tag, Take(1))

\* popTopHandler on a frame without handlers: the frame goes, and when none is
\* left the exception is uncaught.
PopFrameOfThrow ==
    /\ status = "throw"
    /\ IF frames = <<>>
         THEN status' = "uncaught" /\ UNCHANGED <<frames, exn>>
         ELSE /\ Cur.handlers = <<>>
              /\ frames' = Front(frames)
              /\ exn' = [exn EXCEPT !.at = Cur.from, !.below = Cur.from]
              /\ UNCHANGED status
    /\ UNCHANGED <<values, pc, checkVars>>

\* The try_table blocks around position p.
Enclosing(f, p) ==
    IF f = 0 THEN {}
    ELSE {t \in DOMAIN code[f] : /\ code[f][t].ins.op = "try"
                                 /\ t < p /\ p < code[f][t].end}

\* popTopHandler on a frame with handlers, and the search of its clauses: the
\* value stack is cut to the handler, and the first clause that matches
\* branches as if from the try_table instruction.
TryHandler ==
    /\ status = "throw"
    /\ frames # <<>> /\ Cur.handlers # <<>>
    /\ LET h == Last(Cur.handlers)
           ins == code[Cur.fn][h.try]
           catches == ins.ins.catches
           cut == SubSeq(values, 1, h.vpos) \o LastOf(values, Len(Tags[exn.tag]))
           Hit(k) == catches[k].tag \in {"all", exn.tag}
       IN  /\ MayCatchLate \/ h.try \in Enclosing(Cur.fn, exn.at)
           /\ frames' = SetHandlers(Front(Cur.handlers))
           /\ \/ /\ \A k \in DOMAIN catches : ~Hit(k)
                 /\ values' = cut
                 /\ exn' = [exn EXCEPT !.below = h.try]
                 /\ UNCHANGED <<pc, status>>
              \/ \E k \in DOMAIN catches :
                 /\ Hit(k) /\ \A l \in 1 .. k - 1 : ~Hit(l)
                 /\ \/ MayStrayPayload \/ catches[k].tag # "all"
                    \/ Tags[exn.tag] = <<>>
                 /\ Branch(IF catches[k].ref
                             THEN Append(cut, [type |-> "exnref", tag |-> exn.tag])
                             ELSE cut,
                           ins.jumps[k])
                 /\ exn' = NoExn
                 /\ status' = "run"
    /\ UNCHANGED checkVars

Run ==
    \/ RunTrans \/ RunDrop \/ RunBlock \/ RunIf \/ RunElse \/ RunTry \/ RunEnd
    \/ RunBr \/ RunBrIf \/ RunBrTable \/ RunReturn \/ RunCall \/ RunReturnCall
    \/ Trap \/ RunThrow \/ RunThrowRef
    \/ PopFrameOfThrow \/ TryHandler

Next == Check \/ EndFunction \/ Run

Spec == Init /\ [][Next]_vars

-----------------------------------------------------------------------------
(* Properties *)

\* The interpreter, which keeps no labels, agrees with the validator: whatever
\* branches, calls, returns and exceptions led to an instruction, the operands
\* above the frame have exactly the types FormChecker saw there, and code that
\* FormChecker found unreachable is not reached.  (Not so after a step that one
\* of the three May constants excludes.)
OperandsAsTyped ==
    status = "run" =>
        SubSeq(TypesOf(values), Cur.vpos + 1, Len(values)) = typing[Cur.fn][pc]

\* The blocks around the throw, or around the call that is unwound, whose
\* handlers have not been tried.
Waiting == {t \in Enclosing(Cur.fn, exn.at) : t < exn.below}

\* While an exception is thrown no handler of a block around it is missing:
\* each frame has the handlers of all the blocks around the throw or around the
\* call that is unwound, less the ones that have been tried, an inner one above
\* an outer one; whatever branches, calls, tail calls and ends of blocks, each
\* of which may find handlers of blocks that were left on top, came before.
NoHandlerMissing ==
    status = "throw" /\ frames # <<>> =>
        LET hs == SelectSeq(Cur.handlers, LAMBDA h : h.try \in Waiting)
        IN  /\ {hs[k].try : k \in DOMAIN hs} = Waiting
            /\ \A k, l \in DOMAIN hs : k < l => hs[k].try <= hs[l].try

\* And there is no other: no handler of a block that was left can catch it.
OnlyEnclosingHandlers ==
    status = "throw" /\ frames # <<>> =>
        \A k \in DOMAIN Cur.handlers : Cur.handlers[k].try \in Waiting
=============================================================================
