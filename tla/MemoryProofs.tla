-------- MODULE MemoryProofs ------------------------------------------------
(* Proofs about what linear memory rests on: the stack of fault handlers  *)
(* that turns a signal into a trap (FaultHandler), for any number of      *)
(* threads and any depth, and memory.grow (MemoryGrow), for any number of *)
(* threads, any limits and any page counts asked for.                     *)
EXTENDS FaultHandler, MemoryGrow, FiniteSetTheorems, TLAPS

(* A call more. *)
LEMMA AppendCall ==
    ASSUME NEW S, NEW s \in Seq(S), NEW e \in S
    PROVE  /\ Append(s, e) \in Seq(S)
           /\ Len(Append(s, e)) = Len(s) + 1
           /\ Append(s, e)[Len(s) + 1] = e
           /\ \A k \in 1 .. Len(s) : Append(s, e)[k] = s[k]
OBVIOUS

(* The first n calls. *)
LEMMA FirstCalls ==
    ASSUME NEW S, NEW s \in Seq(S), NEW n \in 0 .. Len(s)
    PROVE  /\ SubSeq(s, 1, n) \in Seq(S)
           /\ Len(SubSeq(s, 1, n)) = n
           /\ \A k \in 1 .. n : SubSeq(s, 1, n)[k] = s[k]
OBVIOUS

(* The types of one thread's variables. *)
LEMMA TypedCalls ==
    ASSUME FaultTypeOK, NEW t \in Threads
    PROVE  /\ calls[t] \in Seq(CallSet) /\ Depth(t) \in Nat
           /\ \A k \in 1 .. Depth(t) : calls[t][k] \in CallSet
<1>1. calls[t] \in Seq(CallSet)
  BY Zenon DEF FaultTypeOK
<1> QED
  BY <1>1 DEF Depth

(* An element of Live is a thread and the position of a counted call of it. *)
LEMMA LiveMember ==
    \A x : x \in Live <=> \E t \in Threads : \E k \in Counted(t) : x = <<t, k>>
<1>1. \A x : x \in Live <=> \E t \in Threads : x \in {t} \X Counted(t)
  BY Zenon DEF Live
<1>2. \A x, t : x \in {t} \X Counted(t) <=> \E k \in Counted(t) : x = <<t, k>>
  BY Z3
<1> QED
  BY <1>1, <1>2, ZenonT(60)

(* The same of the next state. *)
LEMMA LiveMemberNext ==
    \A x : x \in Live' <=> \E t \in Threads : \E k \in Counted(t)' : x = <<t, k>>
<1>1. \A x : x \in Live' <=> \E t \in Threads : x \in {t} \X Counted(t)'
  BY Zenon DEF Live
<1>2. \A x, t : x \in {t} \X Counted(t)' <=> \E k \in Counted(t)' : x = <<t, k>>
  BY Z3
<1> QED
  BY <1>1, <1>2, ZenonT(60)

(* Live depends only on which calls are counted. *)
LEMMA LiveSame ==
    ASSUME \A t \in Threads : Counted(t)' = Counted(t)
    PROVE  Live' = Live
<1>1. {{t} \X Counted(t)' : t \in Threads} = {{t} \X Counted(t) : t \in Threads}
  BY Zenon
<1> QED
  BY <1>1, Zenon DEF Live

(* One more call of t is counted. *)
LEMMA LiveAdd ==
    ASSUME NEW t \in Threads, NEW k,
           Counted(t)' = Counted(t) \cup {k},
           \A u \in Threads \ {t} : Counted(u)' = Counted(u)
    PROVE  Live' = Live \cup {<<t, k>>}
<1>1. \A x : x \in Live' <=> \E u \in Threads : \E j \in Counted(u)' : x = <<u, j>>
  BY LiveMemberNext
<1>2. \A x : x \in Live <=> \E u \in Threads : \E j \in Counted(u) : x = <<u, j>>
  BY LiveMember
<1>3. ASSUME NEW x \in Live' PROVE x \in Live \cup {<<t, k>>}
  BY <1>1, <1>2, <1>3, Z3
<1>4. ASSUME NEW x \in Live \cup {<<t, k>>} PROVE x \in Live'
  BY <1>1, <1>2, <1>4, Z3
<1> QED
  BY <1>3, <1>4, Zenon

(* One call of t less is counted. *)
LEMMA LiveRemove ==
    ASSUME NEW t \in Threads, NEW k,
           Counted(t)' = Counted(t) \ {k},
           \A u \in Threads \ {t} : Counted(u)' = Counted(u)
    PROVE  Live' = Live \ {<<t, k>>}
<1>1. \A x : x \in Live' <=> \E u \in Threads : \E j \in Counted(u)' : x = <<u, j>>
  BY LiveMemberNext
<1>2. \A x : x \in Live <=> \E u \in Threads : \E j \in Counted(u) : x = <<u, j>>
  BY LiveMember
<1>3. ASSUME NEW x \in Live' PROVE x \in Live \ {<<t, k>>}
  BY <1>1, <1>2, <1>3, Z3
<1>4. ASSUME NEW x \in Live \ {<<t, k>>} PROVE x \in Live'
  BY <1>1, <1>2, <1>4, Z3
<1> QED
  BY <1>3, <1>4, Zenon

(* A destructor that is about to count finds its own Fault counted. *)
LEMMA DecreaseCounts ==
    ASSUME FaultInv, NEW t \in Threads, at[t] = "decrease"
    PROVE  handlerCount > 0 /\ Depth(t) \in Counted(t) /\ <<t, Depth(t)>> \in Live
<1>1. calls[t] \in Seq(CallSet) /\ Depth(t) \in Nat
  BY TypedCalls DEF FaultInv
<1>2. Depth(t) > 0 /\ TopCall(t).kind = "compiled"
  BY DEF FaultInv, ChainInv
<1>3. Depth(t) \in Counted(t)
  BY <1>1, <1>2 DEF Counted, InCount, TopCall, Depth
<1>4. <<t, Depth(t)>> \in Live
  BY <1>3, LiveMember, Zenon
<1>5. Cardinality(Live) # 0
  BY <1>4, FS_EmptySet DEF FaultInv
<1>6. handlerCount # 0 /\ handlerCount \in Nat
  BY <1>5, Zenon DEF FaultInv, CountIsLive, FaultTypeOK
<1> QED
  BY <1>3, <1>4, <1>6

(* Every step keeps the types. *)
LEMMA FaultTypeStep ==
    ASSUME FaultInv, FaultNext
    PROVE  FaultTypeOK'
<1> USE DEF FaultTypeOK
<1>0. FaultTypeOK
  BY Zenon DEF FaultInv
<1>1. PICK t \in Threads :
        \/ CallCompiled(t) \/ Increase(t) \/ EnableHandler(t) \/ CallJit(t)
        \/ ReturnJit(t) \/ ReturnCompiled(t) \/ Decrease(t) \/ DisableHandler(t)
        \/ Restore(t) \/ EmitFault(t) \/ signalHandler(t)
  BY DEF FaultNext
<1>2. /\ calls[t] \in Seq(CallSet) /\ Depth(t) \in Nat /\ localHandler[t] \in Nat
      /\ \A k \in 1 .. Depth(t) : calls[t][k] \in CallSet
  BY <1>0, TypedCalls, Zenon
<1>3. CASE CallCompiled(t)
  <2>1. Append(calls[t], Call("compiled", localHandler[t])) \in Seq(CallSet)
    BY <1>2, AppendCall DEF Call, CallSet
  <2> QED
    BY <1>0, <1>2, <1>3, <2>1 DEF CallCompiled, Goes
<1>4. CASE Increase(t)
  BY <1>0, <1>4 DEF Increase, Goes
<1>5. CASE EnableHandler(t)
  BY <1>0, <1>5 DEF EnableHandler, Goes
<1>6. CASE CallJit(t)
  <2>1. Append(calls[t], Call("jit", 0)) \in Seq(CallSet)
    BY <1>2, AppendCall DEF Call, CallSet
  <2> QED
    BY <1>0, <1>2, <1>6, <2>1 DEF CallJit
<1>7. CASE ReturnJit(t)
  <2>1. SubSeq(calls[t], 1, Depth(t) - 1) \in Seq(CallSet)
    BY <1>2, <1>7, FirstCalls DEF ReturnJit, Depth
  <2> QED
    BY <1>0, <1>2, <1>7, <2>1 DEF ReturnJit
<1>8. CASE ReturnCompiled(t)
  BY <1>0, <1>8 DEF ReturnCompiled, Goes
<1>9. CASE Decrease(t)
  <2>1. handlerCount > 0
    BY <1>9, DecreaseCounts, Zenon DEF Decrease, Goes
  <2> QED
    BY <1>0, <1>9, <2>1 DEF Decrease, Goes
<1>10. CASE DisableHandler(t)
  BY <1>0, <1>10, Zenon DEF DisableHandler, Goes
<1>11. CASE Restore(t)
  <2>1. Depth(t) > 0
    BY <1>11 DEF Restore, Goes, FaultInv, ChainInv
  <2>2. SubSeq(calls[t], 1, Depth(t) - 1) \in Seq(CallSet)
    BY <1>2, <2>1, FirstCalls DEF Depth
  <2>3. TopCall(t) \in CallSet
    BY <1>2, <2>1 DEF TopCall
  <2>4. TopCall(t).Prev \in Nat
    BY <2>3 DEF CallSet
  <2> QED
    BY <1>0, <1>2, <1>11, <2>2, <2>4 DEF Restore, Goes
<1>12. CASE EmitFault(t)
  <2>1. localHandler[t] \in 0 .. Len(calls[t])
    BY Zenon DEF FaultInv, ChainInv, HandlerIsInnermost, IsInnermost, Depth
  <2>2. SubSeq(calls[t], 1, localHandler[t]) \in Seq(CallSet)
    BY <1>2, <2>1, FirstCalls
  <2> QED
    BY <1>0, <1>2, <1>12, <2>2, Zenon DEF EmitFault
<1>13. CASE signalHandler(t)
  <2>1. CASE installed
    BY <1>12, <1>13, <2>1, Zenon DEF signalHandler
  <2> QED
    BY <1>0, <1>13, <2>1, Zenon DEF signalHandler
<1> QED
  BY <1>1, <1>3, <1>4, <1>5, <1>6, <1>7, <1>8, <1>9, <1>10, <1>11, <1>12, <1>13, Zenon

(* Whether h is the innermost compiled call depends on the first n calls. *)
LEMMA InnermostSame ==
    ASSUME NEW r, NEW s, NEW n \in Nat, NEW h,
           \A k \in 1 .. n : r[k] = s[k],
           IsInnermost(h, s, n)
    PROVE  IsInnermost(h, r, n)
BY DEF IsInnermost

(* The part of ChainInv about one thread. *)
Chain(s, h, a) ==
    /\ IsInnermost(h, s, Len(s))
    /\ \A k \in 1 .. Len(s) : s[k].kind = "compiled" => IsInnermost(s[k].Prev, s, k - 1)
    /\ a # "code" => Len(s) > 0 /\ s[Len(s)].kind = "compiled"

(* ChainInv, thread by thread. *)
LEMMA ChainOf ==
    ChainInv <=> \A t \in Threads : Chain(calls[t], localHandler[t], at[t])
BY Zenon DEF ChainInv, Chain, HandlerIsInnermost, Depth, TopCall

(* The same of the next state. *)
LEMMA ChainOfNext ==
    ChainInv' <=> \A t \in Threads : Chain(calls'[t], localHandler'[t], at'[t])
BY Zenon DEF ChainInv, Chain, HandlerIsInnermost, Depth, TopCall

(* A compiled call begins. *)
LEMMA ChainCompiled ==
    ASSUME NEW s \in Seq(CallSet), NEW h \in Nat, NEW r \in Seq(CallSet),
           Chain(s, h, "code"), r = Append(s, Call("compiled", h)), NEW a
    PROVE  Chain(r, Len(s) + 1, a)
<1>1. Call("compiled", h) \in CallSet
  BY DEF Call, CallSet
<1>2. /\ Len(r) = Len(s) + 1 /\ r[Len(s) + 1] = Call("compiled", h)
      /\ \A k \in 1 .. Len(s) : r[k] = s[k]
  BY <1>1, AppendCall
<1>3. Len(s) \in Nat
  OBVIOUS
<1>4. IsInnermost(Len(s) + 1, r, Len(r))
  BY <1>2, <1>3 DEF IsInnermost, Call
<1>5. ASSUME NEW k \in 1 .. Len(r), r[k].kind = "compiled"
      PROVE  IsInnermost(r[k].Prev, r, k - 1)
  <2>1. CASE k = Len(s) + 1
    <3>1. r[k].Prev = h
      BY <1>2, <2>1 DEF Call
    <3>2. IsInnermost(h, s, Len(s))
      BY DEF Chain
    <3>3. IsInnermost(h, r, Len(s))
      BY <1>2, <1>3, <3>2, InnermostSame, Zenon
    <3>4. k - 1 = Len(s)
      BY <1>3, <2>1
    <3> QED
      BY <3>1, <3>3, <3>4
  <2>2. CASE k \in 1 .. Len(s)
    <3>1. r[k] = s[k] /\ IsInnermost(s[k].Prev, s, k - 1)
      BY <1>2, <1>5, <2>2 DEF Chain
    <3>2. k - 1 \in Nat /\ \A j \in 1 .. k - 1 : r[j] = s[j]
      BY <1>2, <1>3, <2>2
    <3> QED
      BY <3>1, <3>2, InnermostSame, Zenon
  <2> QED
    BY <1>2, <1>3, <1>5, <2>1, <2>2
<1> QED
  BY <1>2, <1>3, <1>4, <1>5 DEF Chain, Call

(* A JIT call begins. *)
LEMMA ChainJit ==
    ASSUME NEW s \in Seq(CallSet), NEW h \in Nat, NEW r \in Seq(CallSet),
           Chain(s, h, "code"), r = Append(s, Call("jit", 0))
    PROVE  Chain(r, h, "code")
<1>1. Call("jit", 0) \in CallSet
  BY DEF Call, CallSet
<1>2. /\ Len(r) = Len(s) + 1 /\ r[Len(s) + 1] = Call("jit", 0)
      /\ \A k \in 1 .. Len(s) : r[k] = s[k]
  BY <1>1, AppendCall
<1>3. Len(s) \in Nat
  OBVIOUS
<1>4. r[Len(s) + 1].kind = "jit"
  BY <1>2 DEF Call
<1>5. IsInnermost(h, r, Len(r))
  BY <1>2, <1>3, <1>4 DEF IsInnermost, Chain
<1>6. ASSUME NEW k \in 1 .. Len(r), r[k].kind = "compiled"
      PROVE  IsInnermost(r[k].Prev, r, k - 1)
  <2>1. k \in 1 .. Len(s)
    BY <1>2, <1>3, <1>4, <1>6
  <2>2. r[k] = s[k] /\ IsInnermost(s[k].Prev, s, k - 1)
    BY <1>2, <1>6, <2>1 DEF Chain
  <2>3. k - 1 \in Nat /\ \A j \in 1 .. k - 1 : r[j] = s[j]
    BY <1>2, <1>3, <2>1
  <2> QED
    BY <2>2, <2>3, InnermostSame, Zenon
<1> QED
  BY <1>5, <1>6 DEF Chain

(* The calls from n + 1 on are dropped. *)
LEMMA ChainDrop ==
    ASSUME NEW s \in Seq(CallSet), NEW h \in Nat, NEW n \in 0 .. Len(s), NEW g, NEW a, NEW b,
           Chain(s, h, b), IsInnermost(g, s, n),
           a # "code" => n > 0 /\ s[n].kind = "compiled"
    PROVE  Chain(SubSeq(s, 1, n), g, a)
<1> DEFINE r == SubSeq(s, 1, n)
<1>1. Len(r) = n /\ \A k \in 1 .. n : r[k] = s[k]
  BY FirstCalls
<1>2. Len(s) \in Nat /\ n \in Nat
  OBVIOUS
<1>3. IsInnermost(g, r, Len(r))
  BY <1>1, <1>2, InnermostSame, Zenon
<1>4. ASSUME NEW k \in 1 .. Len(r), r[k].kind = "compiled"
      PROVE  IsInnermost(r[k].Prev, r, k - 1)
  <2>1. k \in 1 .. Len(s) /\ k - 1 \in Nat /\ \A j \in 1 .. k - 1 : r[j] = s[j]
    BY <1>1, <1>2, <1>4
  <2>2. r[k] = s[k] /\ IsInnermost(s[k].Prev, s, k - 1)
    BY <1>1, <1>4, <2>1 DEF Chain
  <2> QED
    BY <2>1, <2>2, InnermostSame, Zenon
<1>5. a # "code" => Len(r) > 0 /\ r[Len(r)].kind = "compiled"
  BY <1>1, <1>2
<1> QED
  BY <1>3, <1>4, <1>5 DEF Chain

(* A step of t leaves the other threads alone. *)
Only(t) ==
    \A u \in Threads \ {t} : /\ calls'[u] = calls[u] /\ at'[u] = at[u]
                            /\ localHandler'[u] = localHandler[u]

(* Every step keeps the chain. *)
LEMMA ChainStep ==
    ASSUME FaultInv, FaultNext, FaultTypeOK'
    PROVE  ChainInv'
<1>0. FaultTypeOK /\ ChainInv
  BY DEF FaultInv
<1>1. PICK t \in Threads :
        \/ CallCompiled(t) \/ Increase(t) \/ EnableHandler(t) \/ CallJit(t)
        \/ ReturnJit(t) \/ ReturnCompiled(t) \/ Decrease(t) \/ DisableHandler(t)
        \/ Restore(t) \/ EmitFault(t) \/ signalHandler(t)
  BY DEF FaultNext
<1>2. /\ calls[t] \in Seq(CallSet) /\ Depth(t) = Len(calls[t]) /\ Depth(t) \in Nat
      /\ localHandler[t] \in Nat
      /\ calls \in [Threads -> Seq(CallSet)] /\ localHandler \in [Threads -> Nat]
      /\ at \in [Threads -> {"code", "increase", "enable", "decrease", "disable", "restore"}]
  BY <1>0, TypedCalls, Zenon DEF FaultTypeOK, Depth
<1>3. \A u \in Threads : Chain(calls[u], localHandler[u], at[u])
  BY <1>0, ChainOf
<1>4. SUFFICES Only(t) /\ Chain(calls'[t], localHandler'[t], at'[t])
  <2>1. \A u \in Threads : Chain(calls'[u], localHandler'[u], at'[u])
    BY <1>3, <1>4 DEF Only
  <2> QED
    BY <2>1, ChainOfNext
<1>5. calls'[t] \in Seq(CallSet)
  BY Zenon DEF FaultTypeOK
<1>6. CASE CallCompiled(t)
  <2>1. /\ at[t] = "code" /\ calls'[t] = Append(calls[t], Call("compiled", localHandler[t]))
        /\ localHandler'[t] = Len(calls[t]) + 1 /\ Only(t)
    BY <1>2, <1>6 DEF CallCompiled, Goes, Only
  <2>2. Chain(calls[t], localHandler[t], "code")
    BY <1>3, <2>1
  <2> QED
    BY <1>2, <1>5, <2>1, <2>2, ChainCompiled, Zenon
<1>7. CASE CallJit(t)
  <2>1. /\ at[t] = "code" /\ calls'[t] = Append(calls[t], Call("jit", 0))
        /\ localHandler'[t] = localHandler[t] /\ Only(t) /\ at'[t] = "code"
    BY <1>2, <1>7 DEF CallJit, Only
  <2>2. Chain(calls[t], localHandler[t], "code")
    BY <1>3, <2>1
  <2> QED
    BY <1>2, <1>5, <2>1, <2>2, ChainJit, Zenon
<1>8. CASE ReturnJit(t)
  <2>1. /\ at[t] = "code" /\ calls'[t] = SubSeq(calls[t], 1, Len(calls[t]) - 1)
        /\ localHandler'[t] = localHandler[t] /\ Only(t) /\ at'[t] = "code"
        /\ Len(calls[t]) > 0 /\ calls[t][Len(calls[t])].kind = "jit"
    BY <1>2, <1>8 DEF ReturnJit, Only, TopCall
  <2>2. Chain(calls[t], localHandler[t], "code")
    BY <1>3, <2>1
  <2>3. IsInnermost(localHandler[t], calls[t], Len(calls[t]) - 1)
    BY <1>2, <2>1, <2>2 DEF Chain, IsInnermost
  <2>4. Len(calls[t]) - 1 \in 0 .. Len(calls[t])
    BY <1>2, <2>1
  <2> QED
    BY <1>2, <2>1, <2>2, <2>3, <2>4, ChainDrop
<1>9. CASE Restore(t)
  <2>1. /\ at[t] = "restore" /\ calls'[t] = SubSeq(calls[t], 1, Len(calls[t]) - 1)
        /\ localHandler'[t] = calls[t][Len(calls[t])].Prev /\ Only(t) /\ at'[t] = "code"
    BY <1>2, <1>9 DEF Restore, Goes, Only, TopCall
  <2>2. Chain(calls[t], localHandler[t], "restore")
    BY <1>3, <2>1
  <2>3. Len(calls[t]) > 0
    BY <2>2 DEF Chain
  <2>4. IsInnermost(calls[t][Len(calls[t])].Prev, calls[t], Len(calls[t]) - 1)
    BY <1>2, <2>2, <2>3 DEF Chain
  <2>5. Len(calls[t]) - 1 \in 0 .. Len(calls[t])
    BY <1>2, <2>3
  <2> QED
    BY <1>2, <2>1, <2>2, <2>4, <2>5, ChainDrop, Zenon
<1>10. CASE EmitFault(t)
  <2>1. Chain(calls[t], localHandler[t], "code")
    BY <1>3, <1>10, Zenon DEF EmitFault
  <2>2. CASE localHandler[t] = 0
    BY <1>2, <1>3, <1>10, <2>2, Zenon DEF EmitFault, Only
  <2>3. CASE localHandler[t] # 0
    <3>1. /\ calls'[t] = SubSeq(calls[t], 1, localHandler[t]) /\ Only(t)
          /\ localHandler'[t] = localHandler[t] /\ at'[t] = "decrease"
      BY <1>2, <1>10, <2>3 DEF EmitFault, Only
    <3>2. /\ localHandler[t] \in 0 .. Len(calls[t])
          /\ calls[t][localHandler[t]].kind = "compiled"
          /\ IsInnermost(localHandler[t], calls[t], localHandler[t])
      BY <1>2, <2>1, <2>3 DEF Chain, IsInnermost
    <3> QED
      BY <1>2, <2>1, <2>3, <3>1, <3>2, ChainDrop
  <2> QED
    BY <2>2, <2>3
<1>11. CASE Increase(t) \/ EnableHandler(t) \/ ReturnCompiled(t) \/ Decrease(t) \/ DisableHandler(t)
  <2>1. /\ calls' = calls /\ localHandler' = localHandler
        /\ \A u \in Threads \ {t} : at'[u] = at[u]
    BY <1>2, <1>11 DEF Increase, EnableHandler, ReturnCompiled, Decrease, DisableHandler, Goes
  <2>2. Len(calls[t]) > 0 /\ calls[t][Len(calls[t])].kind = "compiled"
    BY <1>2, <1>3, <1>11
    DEF Increase, EnableHandler, ReturnCompiled, Decrease, DisableHandler, Goes, Chain, TopCall
  <2> QED
    BY <1>3, <2>1, <2>2 DEF Chain, Only
<1>12. CASE signalHandler(t)
  <2>1. CASE installed
    BY <1>10, <1>12, <2>1 DEF signalHandler
  <2>2. CASE ~installed
    BY <1>2, <1>3, <1>12, <2>2 DEF signalHandler, Only
  <2> QED
    BY <2>1, <2>2
<1> QED
  BY <1>1, <1>6, <1>7, <1>8, <1>9, <1>10, <1>11, <1>12

(* A step changes the counted calls of its thread only: none of them, or    *)
(* the innermost one when the step is that of the count itself.             *)
LEMMA CountedStep ==
    ASSUME FaultInv, FaultTypeOK', NEW t \in Threads
    PROVE  /\ \/ CallCompiled(t) \/ EnableHandler(t) \/ CallJit(t) \/ ReturnJit(t)
              \/ ReturnCompiled(t) \/ DisableHandler(t) \/ Restore(t) \/ EmitFault(t)
              => Counted(t)' = Counted(t)
           /\ Increase(t) => /\ Counted(t)' = Counted(t) \cup {Depth(t)}
                             /\ Depth(t) \notin Counted(t)
           /\ Decrease(t) => Counted(t)' = Counted(t) \ {Depth(t)}
<1>0. FaultTypeOK /\ ChainInv
  BY DEF FaultInv
<1>1. /\ calls[t] \in Seq(CallSet) /\ Len(calls[t]) \in Nat
      /\ localHandler[t] \in Nat
      /\ calls \in [Threads -> Seq(CallSet)]
      /\ at \in [Threads -> {"code", "increase", "enable", "decrease", "disable", "restore"}]
  BY <1>0, TypedCalls, Zenon DEF FaultTypeOK, Depth
<1>2. Chain(calls[t], localHandler[t], at[t])
  BY <1>0, ChainOf
<1>3. calls'[t] \in Seq(CallSet)
  BY Zenon DEF FaultTypeOK
<1>4. Counted(t) = {k \in 1 .. Len(calls[t]) : InCount(calls[t], at[t], k)}
  BY DEF Counted, Depth
<1>5. Counted(t)' = {k \in 1 .. Len(calls'[t]) : InCount(calls'[t], at'[t], k)}
  BY DEF Counted, Depth
<1>6. ASSUME CallCompiled(t) \/ CallJit(t) PROVE Counted(t)' = Counted(t)
  <2>1. PICK e \in CallSet : /\ calls'[t] = Append(calls[t], e)
                             /\ e.kind = "compiled" => at'[t] = "increase"
                             /\ at[t] = "code" /\ at'[t] \in {"code", "increase"}
    <3>1. CASE CallCompiled(t)
      BY <1>1, <3>1 DEF CallCompiled, Goes, Call, CallSet
    <3>2. CASE CallJit(t)
      BY <1>1, <3>2, ZenonT(60) DEF CallJit, Call, CallSet
    <3> QED
      BY <1>6, <3>1, <3>2
  <2>2. /\ Len(calls'[t]) = Len(calls[t]) + 1 /\ calls'[t][Len(calls[t]) + 1] = e
        /\ \A k \in 1 .. Len(calls[t]) : calls'[t][k] = calls[t][k]
    BY <1>1, <2>1, AppendCall
  <2>3. ~InCount(calls'[t], at'[t], Len(calls[t]) + 1)
    BY <1>1, <2>1, <2>2 DEF InCount
  <2>4. \A k \in 1 .. Len(calls[t]) :
           InCount(calls'[t], at'[t], k) <=> InCount(calls[t], at[t], k)
    BY <1>1, <2>1, <2>2 DEF InCount
  <2> QED
    BY <1>1, <1>4, <1>5, <2>2, <2>3, <2>4
<1>7. ASSUME EnableHandler(t) \/ ReturnCompiled(t) \/ DisableHandler(t) PROVE Counted(t)' = Counted(t)
  <2>1. /\ calls'[t] = calls[t]
        /\ at[t] \in {"increase", "disable", "restore"} <=> at'[t] \in {"increase", "disable", "restore"}
    BY <1>1, <1>7 DEF EnableHandler, ReturnCompiled, DisableHandler, Goes
  <2>2. \A k \in 1 .. Len(calls[t]) :
           InCount(calls'[t], at'[t], k) <=> InCount(calls[t], at[t], k)
    BY <2>1 DEF InCount
  <2> QED
    BY <1>4, <1>5, <2>1, <2>2
<1>8. ASSUME NEW n \in 0 .. Len(calls[t]), calls'[t] = SubSeq(calls[t], 1, n),
             at'[t] \in {"code", "decrease"},
             \A k \in n + 1 .. Len(calls[t]) : ~InCount(calls[t], at[t], k),
             at[t] # "code" => n < Len(calls[t])
      PROVE  Counted(t)' = Counted(t)
  <2>1. Len(calls'[t]) = n /\ \A k \in 1 .. n : calls'[t][k] = calls[t][k]
    BY <1>1, <1>8, FirstCalls
  <2>2. \A k \in 1 .. n : InCount(calls'[t], at'[t], k) <=> InCount(calls[t], at[t], k)
    BY <1>1, <1>8, <2>1 DEF InCount
  <2> QED
    BY <1>1, <1>4, <1>5, <1>8, <2>1, <2>2
<1>9. ASSUME ReturnJit(t) PROVE Counted(t)' = Counted(t)
  <2>1. /\ Len(calls[t]) > 0 /\ calls[t][Len(calls[t])].kind = "jit" /\ at[t] = "code"
        /\ at'[t] = "code" /\ calls'[t] = SubSeq(calls[t], 1, Len(calls[t]) - 1)
    BY <1>1, <1>9 DEF ReturnJit, TopCall, Depth
  <2>2. \A k \in Len(calls[t]) - 1 + 1 .. Len(calls[t]) : ~InCount(calls[t], at[t], k)
    BY <1>1, <2>1 DEF InCount
  <2> QED
    BY <1>1, <1>8, <2>1, <2>2
<1>10. ASSUME Restore(t) PROVE Counted(t)' = Counted(t)
  <2>1. /\ at[t] = "restore" /\ at'[t] = "code"
        /\ calls'[t] = SubSeq(calls[t], 1, Len(calls[t]) - 1)
    BY <1>1, <1>10 DEF Restore, Goes, TopCall, Depth
  <2>2. Len(calls[t]) > 0
    BY <1>2, <2>1 DEF Chain
  <2>3. \A k \in Len(calls[t]) - 1 + 1 .. Len(calls[t]) : ~InCount(calls[t], at[t], k)
    BY <1>1, <2>1 DEF InCount
  <2> QED
    BY <1>1, <1>8, <2>1, <2>2, <2>3
<1>11. ASSUME EmitFault(t) PROVE Counted(t)' = Counted(t)
  <2>1. CASE localHandler[t] = 0
    BY <1>1, <1>4, <1>5, <1>11, <2>1, Zenon DEF EmitFault
  <2>2. CASE localHandler[t] # 0
    <3>1. /\ at[t] = "code" /\ at'[t] = "decrease"
          /\ calls'[t] = SubSeq(calls[t], 1, localHandler[t])
      BY <1>1, <1>11, <2>2 DEF EmitFault
    <3>2. /\ localHandler[t] \in 0 .. Len(calls[t])
          /\ \A k \in localHandler[t] + 1 .. Len(calls[t]) : ~InCount(calls[t], at[t], k)
      BY <1>1, <1>2 DEF Chain, IsInnermost, InCount
    <3> QED
      BY <1>1, <1>8, <3>1, <3>2, Zenon
  <2> QED
    BY <2>1, <2>2
<1>12. ASSUME Increase(t) PROVE /\ Counted(t)' = Counted(t) \cup {Depth(t)}
                                /\ Depth(t) \notin Counted(t)
  <2>1. calls'[t] = calls[t] /\ at[t] = "increase" /\ at'[t] \in {"enable", "code"}
    BY <1>1, <1>12 DEF Increase, Goes
  <2>2. Len(calls[t]) > 0 /\ calls[t][Len(calls[t])].kind = "compiled"
    BY <1>2, <2>1 DEF Chain
  <2>3. InCount(calls'[t], at'[t], Len(calls[t])) /\ ~InCount(calls[t], at[t], Len(calls[t]))
    BY <2>1, <2>2 DEF InCount
  <2>4. \A k \in 1 .. Len(calls[t]) - 1 :
           InCount(calls'[t], at'[t], k) <=> InCount(calls[t], at[t], k)
    BY <1>1, <2>1 DEF InCount
  <2> QED
    BY <1>1, <1>4, <1>5, <2>1, <2>2, <2>3, <2>4 DEF Depth
<1>13. ASSUME Decrease(t) PROVE Counted(t)' = Counted(t) \ {Depth(t)}
  <2>1. calls'[t] = calls[t] /\ at[t] = "decrease" /\ at'[t] \in {"disable", "restore"}
    BY <1>1, <1>13 DEF Decrease, Goes
  <2>2. ~InCount(calls'[t], at'[t], Len(calls[t]))
    BY <2>1 DEF InCount
  <2>3. \A k \in 1 .. Len(calls[t]) - 1 :
           InCount(calls'[t], at'[t], k) <=> InCount(calls[t], at[t], k)
    BY <1>1, <2>1 DEF InCount
  <2> QED
    BY <1>1, <1>4, <1>5, <2>1, <2>2, <2>3 DEF Depth
<1> QED
  BY <1>6, <1>7, <1>9, <1>10, <1>11, <1>12, <1>13

(* Every step keeps the count. *)
LEMMA CountStep ==
    ASSUME FaultInv, FaultNext, FaultTypeOK'
    PROVE  IsFiniteSet(Live)' /\ CountIsLive'
<1>0. FaultTypeOK /\ IsFiniteSet(Live) /\ handlerCount = Cardinality(Live)
  BY DEF FaultInv, CountIsLive
<1>1. PICK t \in Threads :
        \/ CallCompiled(t) \/ Increase(t) \/ EnableHandler(t) \/ CallJit(t)
        \/ ReturnJit(t) \/ ReturnCompiled(t) \/ Decrease(t) \/ DisableHandler(t)
        \/ Restore(t) \/ EmitFault(t) \/ signalHandler(t)
  BY DEF FaultNext
<1>2. \A u \in Threads \ {t} : calls'[u] = calls[u] /\ at'[u] = at[u]
  <2>1. /\ calls \in [Threads -> Seq(CallSet)]
        /\ at \in [Threads -> {"code", "increase", "enable", "decrease", "disable", "restore"}]
    BY <1>0, Zenon DEF FaultTypeOK
  <2> QED
    BY <1>1, <2>1, Zenon DEF CallCompiled, Increase, EnableHandler, CallJit, ReturnJit, ReturnCompiled,
       Decrease, DisableHandler, Restore, EmitFault, signalHandler, Goes
<1>3. \A u \in Threads \ {t} : Counted(u)' = Counted(u)
  BY <1>2 DEF Counted, Depth
<1>4. CASE Increase(t)
  <2>1. Counted(t)' = Counted(t) \cup {Depth(t)} /\ Depth(t) \notin Counted(t)
    BY <1>4, CountedStep
  <2>2. Live' = Live \cup {<<t, Depth(t)>>}
    BY <1>3, <2>1, LiveAdd
  <2>3. <<t, Depth(t)>> \notin Live
    BY <2>1, LiveMember, Z3
  <2>4. IsFiniteSet(Live') /\ Cardinality(Live') = Cardinality(Live) + 1
    BY <1>0, <2>2, <2>3, FS_AddElement
  <2>5. handlerCount' = handlerCount + 1
    BY <1>4 DEF Increase
  <2> QED
    BY <1>0, <2>4, <2>5 DEF CountIsLive
<1>5. CASE Decrease(t)
  <2>1. Counted(t)' = Counted(t) \ {Depth(t)}
    BY <1>5, CountedStep
  <2>2. Live' = Live \ {<<t, Depth(t)>>}
    BY <1>3, <2>1, LiveRemove
  <2>3. <<t, Depth(t)>> \in Live
    BY <1>5, DecreaseCounts DEF Decrease, Goes
  <2>4. IsFiniteSet(Live') /\ Cardinality(Live') = Cardinality(Live) - 1
    BY <1>0, <2>2, <2>3, FS_RemoveElement, SMTT(60)
  <2>5. handlerCount' = handlerCount - 1
    BY <1>5 DEF Decrease
  <2> QED
    BY <1>0, <2>4, <2>5 DEF CountIsLive
<1>6. ASSUME Counted(t)' = Counted(t), handlerCount' = handlerCount
      PROVE  IsFiniteSet(Live)' /\ CountIsLive'
  <2>1. Live' = Live
    BY <1>3, <1>6, LiveSame
  <2> QED
    BY <1>0, <1>6, <2>1 DEF CountIsLive
<1>7. CASE \/ CallCompiled(t) \/ EnableHandler(t) \/ CallJit(t) \/ ReturnJit(t)
           \/ ReturnCompiled(t) \/ DisableHandler(t) \/ Restore(t) \/ EmitFault(t)
  <2>1. Counted(t)' = Counted(t)
    BY <1>7, CountedStep
  <2>2. handlerCount' = handlerCount
    BY <1>7, Zenon DEF CallCompiled, EnableHandler, CallJit, ReturnJit, ReturnCompiled,
       DisableHandler, Restore, EmitFault
  <2> QED
    BY <1>6, <2>1, <2>2
<1>8. CASE signalHandler(t)
  <2>1. CASE installed
    BY <1>7, <1>8, <2>1 DEF signalHandler
  <2>2. CASE ~installed
    <3>1. Counted(t)' = Counted(t) /\ handlerCount' = handlerCount
      BY <1>8, <2>2 DEF signalHandler, Counted, Depth
    <3> QED
      BY <1>6, <3>1
  <2> QED
    BY <2>1, <2>2
<1> QED
  BY <1>1, <1>4, <1>5, <1>7, <1>8

(* Every step keeps what is known about the handlers. *)
LEMMA WindowStep ==
    ASSUME FaultInv, FaultNext
    PROVE  WindowInv' /\ InstalledUnlessOverlap'
<1>0. FaultTypeOK /\ WindowInv /\ InstalledUnlessOverlap
  BY DEF FaultInv
<1>1. PICK t \in Threads :
        \/ CallCompiled(t) \/ Increase(t) \/ EnableHandler(t) \/ CallJit(t)
        \/ ReturnJit(t) \/ ReturnCompiled(t) \/ Decrease(t) \/ DisableHandler(t)
        \/ Restore(t) \/ EmitFault(t) \/ signalHandler(t)
  BY DEF FaultNext
<1>2. /\ handlerCount \in Nat
      /\ at \in [Threads -> {"code", "increase", "enable", "decrease", "disable", "restore"}]
  BY <1>0, Zenon DEF FaultTypeOK
<1>3. CASE Increase(t)
  <2>1. /\ at' = [at EXCEPT ![t] = IF handlerCount = 0 THEN "enable" ELSE "code"]
        /\ handlerCount' = handlerCount + 1 /\ installed' = installed /\ at[t] = "increase"
    BY <1>3 DEF Increase, Goes
  <2>2. overlap' <=> overlap \/ (handlerCount = 0 /\ \E u \in Threads : at[u] = "disable")
    BY <1>3, Zenon DEF Increase
  <2>3. ASSUME NEW u \in Threads, at'[u] = "disable" PROVE overlap' \/ handlerCount' = 0
    <3>1. at[u] = "disable"
      BY <1>2, <2>1, <2>3
    <3> QED
      BY <1>0, <2>2, <3>1 DEF WindowInv
  <2>4. ASSUME ~installed', ~overlap' PROVE \E u \in Threads : at'[u] = "enable"
    <3>1. CASE handlerCount = 0
      BY <1>2, <2>1, <3>1
    <3>2. CASE handlerCount # 0
      <4>1. PICK u \in Threads : at[u] = "enable"
        BY <1>0, <1>2, <2>1, <2>2, <2>4, <3>2 DEF InstalledUnlessOverlap
      <4> QED
        BY <1>2, <2>1, <4>1
    <3> QED
      BY <3>1, <3>2
  <2> QED
    BY <2>3, <2>4 DEF WindowInv, InstalledUnlessOverlap
<1>4. CASE Decrease(t)
  <2>1. handlerCount > 0
    BY <1>4, DecreaseCounts, Zenon DEF Decrease, Goes
  <2> QED
    BY <1>0, <1>2, <1>4, <2>1 DEF Decrease, Goes, WindowInv, InstalledUnlessOverlap
<1>5. CASE EnableHandler(t)
  BY <1>0, <1>2, <1>5 DEF EnableHandler, Goes, WindowInv, InstalledUnlessOverlap
<1>6. CASE DisableHandler(t)
  BY <1>0, <1>2, <1>6 DEF DisableHandler, Goes, WindowInv, InstalledUnlessOverlap
<1>7. CASE CallCompiled(t) \/ ReturnCompiled(t) \/ Restore(t)
  BY <1>0, <1>2, <1>7
  DEF CallCompiled, ReturnCompiled, Restore, Goes, WindowInv, InstalledUnlessOverlap
<1>8. CASE CallJit(t) \/ ReturnJit(t)
  BY <1>0, <1>2, <1>8 DEF CallJit, ReturnJit, WindowInv, InstalledUnlessOverlap
<1>9. CASE EmitFault(t) \/ signalHandler(t)
  <2>1. CASE EmitFault(t)
    BY <1>0, <1>2, <2>1, Zenon DEF EmitFault, WindowInv, InstalledUnlessOverlap
  <2>2. CASE UNCHANGED <<handlerCount, installed, at, overlap>>
    BY <1>0, <2>2 DEF WindowInv, InstalledUnlessOverlap
  <2> QED
    BY <1>9, <2>1, <2>2 DEF signalHandler
<1> QED
  BY <1>1, <1>3, <1>4, <1>5, <1>6, <1>7, <1>8, <1>9

(* The inductive invariant holds for any number of threads and any depth of *)
(* nested calls of compiled and IR JIT functions.                           *)
THEOREM FaultInvariant == FaultSpec => []FaultInv
<1>1. FaultInit => FaultInv
  <2> SUFFICES ASSUME FaultInit PROVE FaultInv
    OBVIOUS
  <2>1. <<>> \in Seq(CallSet) /\ Len(<<>>) = 0
    OBVIOUS
  <2>2. FaultTypeOK
    BY <2>1, Zenon DEF FaultInit, FaultTypeOK
  <2>3. \A t \in Threads : Chain(calls[t], localHandler[t], at[t])
    BY <2>1 DEF FaultInit, Chain, IsInnermost
  <2>4. \A t \in Threads : Counted(t) = {}
    BY <2>1 DEF FaultInit, Counted, Depth
  <2>5. Live = {}
    BY <2>4, LiveMember, Zenon
  <2>6. IsFiniteSet(Live) /\ CountIsLive
    BY <2>5, FS_EmptySet DEF CountIsLive, FaultInit
  <2> QED
    BY <2>2, <2>3, <2>6, ChainOf
    DEF FaultInit, FaultInv, WindowInv, InstalledUnlessOverlap
<1>2. FaultInv /\ [FaultNext]_faultVars => FaultInv'
  <2> SUFFICES ASSUME FaultInv, [FaultNext]_faultVars PROVE FaultInv'
    OBVIOUS
  <2>1. CASE FaultNext
    BY <2>1, FaultTypeStep, ChainStep, CountStep, WindowStep DEF FaultInv
  <2>2. CASE UNCHANGED faultVars
    <3>1. /\ calls' = calls /\ localHandler' = localHandler /\ handlerCount' = handlerCount
          /\ installed' = installed /\ at' = at /\ overlap' = overlap /\ dead' = dead
      BY <2>2 DEF faultVars
    <3>2. FaultTypeOK' /\ WindowInv' /\ InstalledUnlessOverlap'
      BY <3>1, Zenon DEF FaultInv, FaultTypeOK, WindowInv, InstalledUnlessOverlap
    <3>3. ChainInv'
      BY <3>1, ChainOf, ChainOfNext, Zenon DEF FaultInv
    <3>4. \A t \in Threads : Counted(t)' = Counted(t)
      BY <3>1, Zenon DEF Counted, Depth
    <3>5. Live' = Live
      BY <3>4, LiveSame
    <3> QED
      BY <3>1, <3>2, <3>3, <3>5 DEF FaultInv, CountIsLive
  <2> QED
    BY <2>1, <2>2
<1> QED
  BY <1>1, <1>2, PTL DEF FaultSpec

(* fault.cpp's count is the number of live Fault objects, whatever jumped   *)
(* out of whatever.                                                         *)
THEOREM CountAlwaysLive == FaultSpec => []CountIsLive
<1>1. FaultInv => CountIsLive
  BY DEF FaultInv
<1> QED
  BY <1>1, FaultInvariant, PTL

(* A fault jumps to the innermost compiled call of its thread. *)
THEOREM HandlerAlwaysInnermost == FaultSpec => []HandlerIsInnermost
<1>1. FaultInv => HandlerIsInnermost
  BY DEF FaultInv, ChainInv
<1> QED
  BY <1>1, FaultInvariant, PTL

(* The signal handlers are missing under a counted Fault only in the window *)
(* of the first constructor or after an overlap of the last destructor with *)
(* a first constructor.                                                     *)
THEOREM AlwaysInstalledUnlessOverlap == FaultSpec => []InstalledUnlessOverlap
<1>1. FaultInv => InstalledUnlessOverlap
  BY DEF FaultInv
<1> QED
  BY <1>1, FaultInvariant, PTL

-----------------------------------------------------------------------------
(* memory.grow.                                                           *)

(* The constructor maps and hands out exactly the pages it counts. *)
LEMMA MemInitInv ==
    MemInit => MemInv
<1> SUFFICES ASSUME MemInit PROVE MemInv
  OBVIOUS
<1>1. MemTypeOK
  <2>1. memPages \in Nat
    BY MemoryAssumption DEF MemInit
  <2>2. growing \in [Growers -> [at : {"rest", "asked", "checked", "mapped"},
                               old : Nat, min : Nat, count : Nat]]
    BY DEF MemInit, AtRest
  <2>3. handed \in [Pages -> 0 .. 2]
    BY DEF MemInit
  <2>4. mapping \in [Pages -> {"none", "zero", "data"}]
    BY DEF MemInit
  <2> QED
    BY <2>1, <2>2, <2>3, <2>4, Zenon DEF MemInit, MemTypeOK
<1>2. MappedCoversSize /\ PagesHandedOnce
  BY <1>1 DEF MemInit, MappedCoversSize, PagesHandedOnce, checkAccessBound, MemTypeOK
<1>3. MappedIsCounted
  BY <1>1 DEF MemInit, MappedIsCounted, MemTypeOK
<1>4. MappedBeforeCounted /\ OneAtATime
  BY DEF MemInit, MappedBeforeCounted, OneAtATime, AtRest
<1> QED
  BY <1>1, <1>2, <1>3, <1>4 DEF MemInv

(* Beginning a growth: the size just read is current, and when another is   *)
(* under way overlapped is set.                                             *)
LEMMA MemoryGrowStep ==
    ASSUME MemInv, NEW t \in Growers, MemoryGrow(t)
    PROVE  MemInv'
<1> USE DEF MemInv
<1>1. PICK n \in Counts :
        growing' = [growing EXCEPT ![t] = [at |-> "asked", old |-> memPages, min |-> 0, count |-> n]]
  BY ZenonT(60) DEF MemoryGrow, AtRest
<1>2. n \in Nat
  BY MemoryAssumption
<1>3. UNCHANGED <<reserved, memPages, mapping, handed>>
  BY DEF MemoryGrow
<1>4. /\ growing[t].at = "rest"
      /\ overlapped' = (overlapped \/ \E u \in Growers : growing[u].at # "rest")
  BY DEF MemoryGrow
<1>5. MemTypeOK'
  BY <1>1, <1>2, <1>3, <1>4 DEF MemTypeOK
<1>6. MappedCoversSize' /\ PagesHandedOnce'
  BY <1>3, <1>4, Zenon DEF MappedCoversSize, PagesHandedOnce, checkAccessBound
<1>7. MappedBeforeCounted'
  BY <1>1, <1>3 DEF MappedBeforeCounted, MemTypeOK
<1>8. OneAtATime'
  BY <1>1, <1>3, <1>4, Zenon DEF OneAtATime, MemTypeOK
<1>9. MappedIsCounted'
  BY <1>1, <1>3, <1>4 DEF MappedIsCounted, MemTypeOK
<1> QED
  BY <1>5, <1>6, <1>7, <1>8, <1>9

(* growPage's tests: the size it reads is covered, and current unless       *)
(* growths overlap.                                                         *)
LEMMA CheckGrowStep ==
    ASSUME MemInv, NEW t \in Growers, CheckGrow(t)
    PROVE  MemInv'
<1> USE DEF MemInv
<1>1. UNCHANGED <<reserved, memPages, mapping, handed, overlapped>> /\ growing[t].at = "asked"
  BY DEF CheckGrow
<1> DEFINE checked == [at |-> "checked", old |-> growing[t].old, min |-> memPages,
                       count |-> growing[t].count]
<1>2. \/ growing' = [growing EXCEPT ![t] = checked]
      \/ growing' = [growing EXCEPT ![t] = AtRest]
  BY Zenon DEF CheckGrow
<1>3. MemTypeOK'
  BY <1>1, <1>2 DEF MemTypeOK, AtRest
<1>4. MappedCoversSize' /\ PagesHandedOnce'
  BY <1>1 DEF MappedCoversSize, PagesHandedOnce, checkAccessBound
<1>5. MappedBeforeCounted'
  BY <1>1, <1>2 DEF MappedBeforeCounted, MemTypeOK, AtRest, MappedCoversSize, checkAccessBound
<1>6. OneAtATime'
  BY <1>1, <1>2 DEF OneAtATime, MemTypeOK, AtRest
<1>7. MappedIsCounted'
  BY <1>1, <1>2 DEF MappedIsCounted, MemTypeOK, AtRest
<1> QED
  BY <1>3, <1>4, <1>5, <1>6, <1>7

(* Mapping the new pages: nothing is unmapped, and the pages up to the new  *)
(* size are mapped.                                                         *)
LEMMA ResizePagesStep ==
    ASSUME MemInv, NEW t \in Growers, ResizePages(t)
    PROVE  MemInv'
<1> USE DEF MemInv
<1>1. /\ UNCHANGED <<reserved, memPages, handed, overlapped>>
      /\ growing[t].at = "checked"
      /\ growing' = [growing EXCEPT ![t].at = "mapped"]
      /\ mapping' = [p \in Pages |-> IF p \in New(t) THEN "zero" ELSE mapping[p]]
  BY DEF ResizePages
<1>2. MemTypeOK'
  BY <1>1 DEF MemTypeOK
<1>3. \A p \in Pages : mapping[p] # "none" => mapping'[p] # "none"
  BY <1>1
<1>4. \A p \in Pages : p < growing[t].min + growing[t].count => mapping'[p] # "none"
  BY <1>1 DEF MappedBeforeCounted, MemTypeOK, New, Pages
<1>5. MappedCoversSize' /\ PagesHandedOnce'
  BY <1>1, <1>3 DEF MappedCoversSize, PagesHandedOnce, checkAccessBound
<1>6. MappedBeforeCounted'
  BY <1>1, <1>3, <1>4 DEF MappedBeforeCounted, MemTypeOK
<1>7. OneAtATime'
  BY <1>1 DEF OneAtATime, MemTypeOK
<1>8. MappedIsCounted'
  <2> SUFFICES ASSUME ~overlapped, NEW p \in Pages, mapping'[p] # "none"
               PROVE  \/ p < memPages'
                      \/ \E u \in Growers :
                           growing'[u].at = "mapped" /\ p < growing'[u].min + growing'[u].count
    BY <1>1 DEF MappedIsCounted
  <2>1. CASE p \in New(t)
    BY <1>1, <2>1 DEF New, MemTypeOK, Pages
  <2>2. CASE p \notin New(t)
    BY <1>1, <2>2 DEF MappedIsCounted, MemTypeOK
  <2> QED
    BY <2>1, <2>2
<1> QED
  BY <1>2, <1>5, <1>6, <1>7, <1>8

(* The failure of the mapping leaves everything as it was. *)
LEMMA ResizeFailsStep ==
    ASSUME MemInv, NEW t \in Growers, ResizeFails(t)
    PROVE  MemInv'
<1> USE DEF MemInv
<1>1. /\ UNCHANGED <<reserved, memPages, mapping, handed, overlapped>>
      /\ growing[t].at = "checked"
      /\ growing' = [growing EXCEPT ![t] = AtRest]
  BY DEF ResizeFails
<1>2. MemTypeOK'
  BY <1>1 DEF MemTypeOK, AtRest
<1>3. MappedCoversSize' /\ PagesHandedOnce'
  BY <1>1 DEF MappedCoversSize, PagesHandedOnce, checkAccessBound
<1>4. MappedBeforeCounted'
  BY <1>1 DEF MappedBeforeCounted, MemTypeOK, AtRest
<1>5. OneAtATime'
  BY <1>1 DEF OneAtATime, MemTypeOK, AtRest
<1>6. MappedIsCounted'
  BY <1>1 DEF MappedIsCounted, MemTypeOK, AtRest
<1> QED
  BY <1>2, <1>3, <1>4, <1>5, <1>6

(* Setting the size: what it counts has been mapped, and without overlap    *)
(* it hands out the pages from the old size to the new.                     *)
LEMMA SetPagesStep ==
    ASSUME MemInv, NEW t \in Growers, SetPages(t)
    PROVE  MemInv'
<1> USE DEF MemInv
<1>1. /\ UNCHANGED <<reserved, mapping, overlapped>>
      /\ growing[t].at = "mapped"
      /\ memPages' = growing[t].min + growing[t].count
      /\ growing' = [growing EXCEPT ![t] = AtRest]
      /\ handed' = [p \in Pages |->
                      IF p \in growing[t].old .. growing[t].old + growing[t].count - 1
                         /\ handed[p] < 2
                      THEN handed[p] + 1 ELSE handed[p]]
  BY DEF SetPages, Answer
<1>2. MemTypeOK'
  BY <1>1 DEF MemTypeOK, AtRest
<1>3. MappedCoversSize'
  BY <1>1 DEF MappedCoversSize, MappedBeforeCounted, checkAccessBound
<1>4. MappedBeforeCounted'
  BY <1>1 DEF MappedBeforeCounted, MemTypeOK, AtRest
<1>5. OneAtATime'
  BY <1>1 DEF OneAtATime, MemTypeOK, AtRest
<1>6. MappedIsCounted'
  <2> SUFFICES ASSUME ~overlapped, NEW p \in Pages, mapping[p] # "none"
               PROVE  p < memPages'
    BY <1>1 DEF MappedIsCounted
  <2>1. growing[t].min = memPages /\ \A u \in Growers : growing[u].at = "mapped" => u = t
    BY <1>1 DEF OneAtATime
  <2>2. p < memPages \/ p < growing[t].min + growing[t].count
    BY <2>1 DEF MappedIsCounted
  <2> QED
    BY <1>1, <2>1, <2>2 DEF MemTypeOK, Pages
<1>7. PagesHandedOnce'
  <2> SUFFICES ASSUME ~overlapped, NEW p \in Pages
               PROVE  handed'[p] = IF p < memPages' THEN 1 ELSE 0
    BY <1>1 DEF PagesHandedOnce, checkAccessBound
  <2>1. growing[t].min = memPages /\ growing[t].old = memPages
    BY <1>1 DEF OneAtATime
  <2>2. handed[p] = IF p < memPages THEN 1 ELSE 0
    BY DEF PagesHandedOnce, checkAccessBound
  <2> QED
    BY <1>1, <2>1, <2>2 DEF MemTypeOK, Pages
<1> QED
  BY <1>2, <1>3, <1>4, <1>5, <1>6, <1>7

(* A store changes the contents of a mapped page. *)
LEMMA StoreStepInv ==
    ASSUME MemInv, NEW p \in Pages, NEW engine, Store(p, engine)
    PROVE  MemInv'
<1> USE DEF MemInv
<1>1. /\ UNCHANGED <<reserved, memPages, growing, handed, overlapped>>
      /\ mapping[p] # "none"
      /\ mapping' = [mapping EXCEPT ![p] = "data"]
  BY DEF Store
<1>2. MemTypeOK'
  BY <1>1 DEF MemTypeOK
<1>3. \A q \in Pages : mapping[q] # "none" <=> mapping'[q] # "none"
  BY <1>1 DEF MemTypeOK
<1>4. MappedCoversSize' /\ PagesHandedOnce' /\ MappedBeforeCounted' /\ MappedIsCounted'
  BY <1>1, <1>3
     DEF MappedCoversSize, PagesHandedOnce, checkAccessBound, MappedBeforeCounted, MappedIsCounted
<1>5. OneAtATime'
  BY <1>1 DEF OneAtATime
<1> QED
  BY <1>2, <1>4, <1>5

(* The invariant is inductive. *)
LEMMA MemNextInv ==
    MemInv /\ [MemNext]_memVars => MemInv'
<1> SUFFICES ASSUME MemInv, [MemNext]_memVars PROVE MemInv'
  OBVIOUS
<1>1. ASSUME NEW t \in Growers, MemoryGrow(t) PROVE MemInv'
  BY <1>1, MemoryGrowStep
<1>2. ASSUME NEW t \in Growers, CheckGrow(t) PROVE MemInv'
  BY <1>2, CheckGrowStep
<1>3. ASSUME NEW t \in Growers, ResizePages(t) PROVE MemInv'
  BY <1>3, ResizePagesStep
<1>4. ASSUME NEW t \in Growers, ResizeFails(t) PROVE MemInv'
  BY <1>4, ResizeFailsStep
<1>5. ASSUME NEW t \in Growers, SetPages(t) PROVE MemInv'
  BY <1>5, SetPagesStep
<1>6. ASSUME NEW p \in Pages, NEW engine \in {"interpreter", "compiled"}, Store(p, engine)
      PROVE  MemInv'
  BY <1>6, StoreStepInv
<1>7. ASSUME UNCHANGED memVars PROVE MemInv'
  BY <1>7 DEF memVars, MemInv, MemTypeOK, MappedCoversSize, checkAccessBound,
     MappedBeforeCounted, OneAtATime, MappedIsCounted, PagesHandedOnce
<1> QED
  BY <1>1, <1>2, <1>3, <1>4, <1>5, <1>6, <1>7 DEF MemNext

(* The inductive invariant of the growths of a shared memory. *)
THEOREM MemInvariant == MemSpec => []MemInv
<1> QED
  BY MemInitInv, MemNextInv, PTL DEF MemSpec

(* Every page within the size is mapped, under every race of growths, and   *)
(* growths that come one after the other keep the size and the mapped pages *)
(* equal: interpreter and compiled code trap the same accesses.             *)
THEOREM AlwaysMappedAsCounted == MemSpec => []MappedAsCounted
<1>1. MemInv => MappedCoversSize
  BY DEF MemInv
<1>2. MemInv => BoundsAgree
  BY DEF MemInv, BoundsAgree, MappedCoversSize, MappedIsCounted, checkAccessBound
<1> QED
  BY <1>1, <1>2, MemInvariant, PTL DEF MappedAsCounted

(* Growths that come one after the other hand every page out once. *)
THEOREM AlwaysPagesHandedOnce == MemSpec => []PagesHandedOnce
<1>1. MemInv => PagesHandedOnce
  BY DEF MemInv
<1> QED
  BY <1>1, MemInvariant, PTL

(* The data a memory holds survives growth, and the size never goes back,   *)
(* unless growths overlap.                                                  *)
LEMMA KeepsStep ==
    ASSUME MemInv, MemNext, ~overlapped'
    PROVE  /\ memPages' >= memPages
           /\ \A p \in Pages : mapping[p] = "data" => mapping'[p] = "data"
<1> USE DEF MemInv
<1>1. ASSUME NEW t \in Growers, ResizePages(t), NEW p \in Pages, mapping[p] = "data"
      PROVE  mapping'[p] = "data"
  <2>1. ~overlapped /\ growing[t].at = "checked"
    BY <1>1 DEF ResizePages
  <2>2. growing[t].min = memPages /\ \A u \in Growers : growing[u].at # "mapped"
    BY <2>1 DEF OneAtATime
  <2>3. p < memPages
    BY <1>1, <2>1, <2>2 DEF MappedIsCounted
  <2>4. p \notin New(t)
    BY <2>2, <2>3 DEF New, MemTypeOK, Pages
  <2> QED
    BY <1>1, <2>4 DEF ResizePages
<1>2. ASSUME NEW t \in Growers, SetPages(t) PROVE memPages' >= memPages
  <2>1. growing[t].min = memPages
    BY <1>2 DEF SetPages, OneAtATime
  <2> QED
    BY <1>2, <2>1 DEF SetPages, MemTypeOK
<1>3. ASSUME NEW q \in Pages, NEW engine, Store(q, engine), NEW p \in Pages, mapping[p] = "data"
      PROVE  mapping'[p] = "data"
  BY <1>3 DEF Store, MemTypeOK
<1>4. memPages \in Nat
  BY SMTT(60) DEF MemTypeOK
<1>5. ASSUME NEW t \in Growers, MemoryGrow(t) \/ CheckGrow(t) \/ ResizeFails(t)
      PROVE  UNCHANGED <<memPages, mapping>>
  BY <1>5, Zenon DEF MemoryGrow, CheckGrow, ResizeFails
<1>6. ASSUME NEW t \in Growers, ResizePages(t) PROVE UNCHANGED memPages
  BY <1>6 DEF ResizePages
<1>7. ASSUME NEW t \in Growers, SetPages(t) PROVE UNCHANGED mapping
  BY <1>7 DEF SetPages
<1>8. ASSUME NEW q \in Pages, NEW engine, Store(q, engine) PROVE UNCHANGED memPages
  BY <1>8 DEF Store
<1>9. CASE \E t \in Growers : MemoryGrow(t) \/ CheckGrow(t) \/ ResizeFails(t)
  BY <1>4, <1>5, <1>9
<1>10. CASE \E t \in Growers : ResizePages(t)
  BY <1>1, <1>4, <1>6, <1>10
<1>11. CASE \E t \in Growers : SetPages(t)
  BY <1>2, <1>7, <1>11
<1>12. CASE \E q \in Pages, engine \in {"interpreter", "compiled"} : Store(q, engine)
  BY <1>3, <1>4, <1>8, <1>12
<1> QED
  BY <1>9, <1>10, <1>11, <1>12 DEF MemNext

(* Without overlapping growths no step loses data or pages. *)
THEOREM GrowthAlwaysKeeps == MemSpec => GrowthKeeps
<1>1. MemInv /\ [MemNext]_memVars =>
        [~overlapped' => /\ memPages' >= memPages
                         /\ \A p \in Pages : mapping[p] = "data" => mapping'[p] = "data"]_memVars
  BY KeepsStep
<1> QED
  BY <1>1, MemInvariant, PTL DEF MemSpec, GrowthKeeps
=============================================================================
