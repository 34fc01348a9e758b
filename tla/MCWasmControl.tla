---------------------------- MODULE MCWasmControl ----------------------------
(* Instances of WasmControl: callees that return, throw, catch and leave     *)
(* blocks, and a menu of instructions for the function that is enumerated.   *)
EXTENDS WasmControl

Ins(op, in, out) ==
    [op |-> op, in |-> in, out |-> out, labels |-> <<>>, catches |-> <<>>,
     tag |-> "none", f |-> 0]
Jump(op, labels) == [Ins(op, <<>>, <<>>) EXCEPT !.labels = labels]
Try(out, catches) == [Ins("try", <<>>, out) EXCEPT !.catches = catches]
Catch(tag, ref, label) == [tag |-> tag, ref |-> ref, label |-> label]
ThrowTag(tag) == [Ins("throw", <<>>, <<>>) EXCEPT !.tag = tag]
CallFn(op, f) == [Ins(op, <<>>, <<>>) EXCEPT !.f = f]

I32 == Ins("trans", <<>>, <<"i32">>)
I64 == Ins("trans", <<>>, <<"i64">>)

MCTags == [a |-> <<>>, b |-> <<"i32">>]

End == Ins("end", <<>>, <<>>)
Drop == Ins("drop", <<>>, <<>>)
Null == Ins("trans", <<>>, <<"exnref">>)

\* [] -> [i32] with a local: returns a value or throws b with one.
Callee ==
    [in |-> <<>>, out |-> <<"i32">>, locals |-> <<"i64">>,
     body |-> <<I64, I32, Ins("if", <<"i64">>, <<"i32">>), Drop, I32,
                Ins("else", <<>>, <<>>), Drop, I64, I32, ThrowTag("b"), End>>]

\* [] -> []: leaves an inner try_table by a branch or through its end; throws a
\* inside the outer one, which catches it by reference to throw it again, or
\* after it, or throws a null reference.
Leave ==
    [in |-> <<>>, out |-> <<>>, locals |-> <<>>,
     body |-> <<Ins("block", <<>>, <<"exnref">>), Try(<<>>, <<Catch("a", TRUE, 0)>>),
                Ins("block", <<>>, <<>>), Try(<<>>, <<Catch("all", FALSE, 0)>>),
                I32, Jump("br_if", <<1>>), End, End,
                I32, Ins("if", <<>>, <<>>), ThrowTag("a"), Ins("unreachable", <<>>, <<>>), End,
                End, I32, Ins("if", <<>>, <<>>), ThrowTag("a"), End,
                Null, End, Ins("throw_ref", <<>>, <<>>)>>]

Main(out) == [in |-> <<>>, out |-> out, locals |-> <<>>, body |-> <<>>]

MCFns == <<Callee, Leave, Main(<<"i32">>)>>
MCMenu ==
    {I32, I64, Drop, End,
     Ins("block", <<>>, <<>>), Ins("block", <<>>, <<"i32">>),
     Ins("loop", <<"i32">>, <<>>), Ins("if", <<>>, <<>>),
     Jump("br", <<0>>), Jump("br", <<1>>), Jump("br_if", <<0>>),
     Jump("br_if", <<1>>), Jump("br_table", <<0, 1>>), Ins("return", <<>>, <<>>),
     CallFn("call", 1), CallFn("call", 2), CallFn("return_call", 1),
     Try(<<>>, <<Catch("a", FALSE, 0), Catch("b", FALSE, 1)>>),
     Try(<<"i32">>, <<Catch("b", FALSE, 0)>>),
     Try(<<>>, <<Catch("all", FALSE, 0)>>),
     ThrowTag("a"), ThrowTag("b")}

\* Branches out of try_table blocks.
MCTryFns == <<Main(<<>>)>>
MCTryMenu ==
    {End, Ins("block", <<>>, <<>>), Jump("br", <<1>>), ThrowTag("a"),
     Try(<<>>, <<Catch("a", FALSE, 0)>>), Try(<<>>, <<>>)}
=============================================================================
