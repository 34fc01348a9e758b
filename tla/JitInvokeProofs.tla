-------- MODULE JitInvokeProofs ---------------------------------------------
(* Proofs about JitInvoke: the published environment and the execution    *)
(* context are those of the innermost IR JIT activation, and the top      *)
(* frame of the last StackManager is the running function's own, for any  *)
(* depth and number of activations, any modules and any mixture of        *)
(* callees.                                                               *)
EXTENDS JitInvoke, TLAPS

(* What Append does. *)
LEMMA AppendLaws ==
    ASSUME NEW S, NEW s \in Seq(S), NEW e \in S
    PROVE  /\ Append(s, e) \in Seq(S)
           /\ Len(s) \in Nat
           /\ Len(Append(s, e)) = Len(s) + 1
           /\ Append(s, e)[Len(s) + 1] = e
           /\ \A k \in 1 .. Len(s) : Append(s, e)[k] = s[k]
  OBVIOUS

(* What cutting a sequence does. *)
LEMMA CutLaws ==
    ASSUME NEW S, NEW s \in Seq(S), NEW n \in 0 .. Len(s)
    PROVE  /\ SubSeq(s, 1, n) \in Seq(S)
           /\ Len(s) \in Nat
           /\ Len(SubSeq(s, 1, n)) = n
           /\ \A k \in 1 .. n : SubSeq(s, 1, n)[k] = s[k]
  OBVIOUS

(* A sequence is one of its own elements. *)
LEMMA OwnElements ==
    ASSUME NEW S, NEW s \in Seq(S)
    PROVE  s \in Seq(Elements(s))
  BY DEF Elements

(* A sequence over a set is one over a larger set. *)
LEMMA MoreElements ==
    ASSUME NEW S, NEW T, S \subseteq T, NEW s \in Seq(S)
    PROVE  s \in Seq(T)
  OBVIOUS

(* The innermost activation depends on the activations looked at alone. *)
LEMMA SamePrefix ==
    ASSUME NEW s, NEW r, NEW k \in Nat,
           NEW e, NEW c, \A i \in 1 .. k : r[i] = s[i], OfInnermost(s, k, e, c)
    PROVE  OfInnermost(r, k, e, c)
<1>1. CASE (\A i \in 1 .. k : s[i].kind # "jit") /\ e = None /\ c = NoCtx
  BY <1>1, Zenon DEF OfInnermost
<1>2. CASE \E i \in 1 .. k :
             /\ s[i].kind = "jit"
             /\ \A j \in (i + 1) .. k : s[j].kind # "jit"
             /\ e = s[i].id
             /\ c = [sm |-> s[i].sm, mod |-> s[i].mod]
  <2>1. PICK i \in 1 .. k :
             /\ s[i].kind = "jit"
             /\ \A j \in (i + 1) .. k : s[j].kind # "jit"
             /\ e = s[i].id
             /\ c = [sm |-> s[i].sm, mod |-> s[i].mod]
    BY <1>2, Zenon
  <2>2. \A j \in (i + 1) .. k : j \in 1 .. k
    OBVIOUS
  <2>3. r[i] = s[i] /\ \A j \in (i + 1) .. k : r[j].kind # "jit"
    BY <2>1, <2>2, Zenon
  <2> QED
    BY <2>1, <2>3, Zenon DEF OfInnermost
<1> QED
  BY <1>1, <1>2, Zenon DEF OfInnermost

(* One more activation that is not IR JIT code is not the innermost. *)
LEMMA OneMore ==
    ASSUME NEW s, NEW k \in Nat, NEW e, NEW c,
           s[k + 1].kind # "jit", OfInnermost(s, k, e, c)
    PROVE  OfInnermost(s, k + 1, e, c)
<1>1. \A i \in 1 .. k + 1 : i \in 1 .. k \/ i = k + 1
  OBVIOUS
<1>2. CASE (\A i \in 1 .. k : s[i].kind # "jit") /\ e = None /\ c = NoCtx
  BY <1>1, <1>2, Zenon DEF OfInnermost
<1>3. CASE \E i \in 1 .. k :
             /\ s[i].kind = "jit"
             /\ \A j \in (i + 1) .. k : s[j].kind # "jit"
             /\ e = s[i].id
             /\ c = [sm |-> s[i].sm, mod |-> s[i].mod]
  <2>1. PICK i \in 1 .. k :
             /\ s[i].kind = "jit"
             /\ \A j \in (i + 1) .. k : s[j].kind # "jit"
             /\ e = s[i].id
             /\ c = [sm |-> s[i].sm, mod |-> s[i].mod]
    BY <1>3, Zenon
  <2>2. \A j \in (i + 1) .. k + 1 : j \in (i + 1) .. k \/ j = k + 1
    OBVIOUS
  <2>3. i \in 1 .. k + 1
    OBVIOUS
  <2>4. \A j \in (i + 1) .. k + 1 : s[j].kind # "jit"
    BY <2>1, <2>2, Zenon
  <2> QED
    BY <2>1, <2>3, <2>4, Zenon DEF OfInnermost
<1> QED
  BY <1>2, <1>3, Zenon DEF OfInnermost

(* One activation less that is not IR JIT code leaves the innermost. *)
LEMMA OneLess ==
    ASSUME NEW s, NEW k \in Nat, NEW e, NEW c,
           s[k + 1].kind # "jit", OfInnermost(s, k + 1, e, c)
    PROVE  OfInnermost(s, k, e, c)
<1>1. \A i \in 1 .. k : i \in 1 .. k + 1
  OBVIOUS
<1>2. CASE (\A i \in 1 .. k + 1 : s[i].kind # "jit") /\ e = None /\ c = NoCtx
  BY <1>1, <1>2, Zenon DEF OfInnermost
<1>3. CASE \E i \in 1 .. k + 1 :
             /\ s[i].kind = "jit"
             /\ \A j \in (i + 1) .. k + 1 : s[j].kind # "jit"
             /\ e = s[i].id
             /\ c = [sm |-> s[i].sm, mod |-> s[i].mod]
  <2>1. PICK i \in 1 .. k + 1 :
             /\ s[i].kind = "jit"
             /\ \A j \in (i + 1) .. k + 1 : s[j].kind # "jit"
             /\ e = s[i].id
             /\ c = [sm |-> s[i].sm, mod |-> s[i].mod]
    BY <1>3, Zenon
  <2>2. i \in 1 .. k
    <3>1. i # k + 1
      BY <2>1, Zenon
    <3> QED
      BY <3>1
  <2>3. \A j \in (i + 1) .. k : j \in (i + 1) .. k + 1
    OBVIOUS
  <2> QED
    BY <2>1, <2>2, <2>3, Zenon DEF OfInnermost
<1> QED
  BY <1>2, <1>3, Zenon DEF OfInnermost

(* Entering a function keeps the chain of saved environments. *)
LEMMA PushSaved ==
    ASSUME NEW S, NEW s \in Seq(S), NEW a \in S, NEW e, NEW c, NEW f, NEW d,
           SavedInv(s, e, c), a.savedEnv = e, a.savedCtx = c,
           a.kind = "jit" => f = a.id /\ d = [sm |-> a.sm, mod |-> a.mod],
           a.kind # "jit" => f = e /\ d = c
    PROVE  SavedInv(Append(s, a), f, d)
<1> DEFINE r == Append(s, a)
<1> DEFINE n == Len(s)
<1>1. /\ r \in Seq(S) /\ n \in Nat /\ Len(r) = n + 1 /\ r[n + 1] = a
      /\ \A k \in 1 .. n : r[k] = s[k]
  BY AppendLaws
<1>2. OfInnermost(r, n, e, c)
  BY <1>1, SamePrefix, Zenon DEF SavedInv
<1> HIDE DEF r, n
<1>3. OfInnermost(r, n + 1, f, d)
  <2>1. CASE a.kind = "jit"
    <3>1. n + 1 \in 1 .. n + 1 /\ (n + 1 + 1) .. (n + 1) = {}
      BY <1>1
    <3> QED
      BY <1>1, <2>1, <3>1, Zenon DEF OfInnermost
  <2>2. CASE a.kind # "jit"
    BY <1>1, <1>2, <2>2, OneMore, Zenon
  <2> QED
    BY <2>1, <2>2, Zenon
<1>4. ASSUME NEW k \in 1 .. n + 1, r[k].kind = "jit"
      PROVE  OfInnermost(r, k - 1, r[k].savedEnv, r[k].savedCtx)
  <2>1. CASE k = n + 1
    <3>1. k - 1 = n
      BY <1>1, <2>1
    <3> QED
      BY <1>1, <1>2, <2>1, <3>1, Zenon
  <2>2. CASE k \in 1 .. n
    <3>1. k - 1 \in Nat /\ \A i \in 1 .. k - 1 : i \in 1 .. n
      BY <1>1, <2>2
    <3>2. r[k] = s[k] /\ \A i \in 1 .. k - 1 : r[i] = s[i]
      BY <1>1, <2>2, <3>1, Zenon
    <3>3. OfInnermost(s, k - 1, s[k].savedEnv, s[k].savedCtx)
      BY <1>4, <2>2, <3>2, Zenon DEF SavedInv, n
    <3>4. OfInnermost(r, k - 1, s[k].savedEnv, s[k].savedCtx)
      BY <1>1, <3>1, <3>2, <3>3, SamePrefix, Zenon
    <3> QED
      BY <3>2, <3>4, Zenon
  <2> QED
    BY <1>1, <2>1, <2>2
<1>5. SavedInv(r, f, d)
  BY <1>1, <1>3, <1>4, Zenon DEF SavedInv
<1> QED
  BY <1>5, Zenon DEF r

(* Leaving IR JIT code for what it saved, or leaving another function,      *)
(* keeps it too.                                                            *)
LEMMA CutSaved ==
    ASSUME NEW S, NEW s \in Seq(S), NEW n \in Nat, n < Len(s), NEW e, NEW c,
           NEW f, NEW d, SavedInv(s, e, c),
           s[n + 1].kind = "jit" => f = s[n + 1].savedEnv /\ d = s[n + 1].savedCtx,
           s[n + 1].kind # "jit" => f = e /\ d = c /\ n + 1 = Len(s)
    PROVE  SavedInv(SubSeq(s, 1, n), f, d)
<1> DEFINE r == SubSeq(s, 1, n)
<1>0. Len(s) \in Nat /\ n \in 0 .. Len(s)
  OBVIOUS
<1>1. /\ r \in Seq(S) /\ Len(r) = n
      /\ \A k \in 1 .. n : r[k] = s[k]
  BY <1>0, CutLaws, Zenon
<1> HIDE DEF r
<1>2. OfInnermost(s, n, f, d)
  <2>1. CASE s[n + 1].kind = "jit"
    <3>1. n + 1 \in 1 .. Len(s) /\ n + 1 - 1 = n
      BY <1>0
    <3> QED
      BY <2>1, <3>1 DEF SavedInv
  <2>2. CASE s[n + 1].kind # "jit"
    BY <2>2, OneLess DEF SavedInv
  <2> QED
    BY <2>1, <2>2, Zenon
<1>3. OfInnermost(r, n, f, d)
  BY <1>1, <1>2, SamePrefix, Zenon
<1>4. ASSUME NEW k \in 1 .. n, r[k].kind = "jit"
      PROVE  OfInnermost(r, k - 1, r[k].savedEnv, r[k].savedCtx)
  <2>1. k - 1 \in Nat /\ k \in 1 .. Len(s) /\ \A i \in 1 .. k - 1 : i \in 1 .. n
    BY <1>0
  <2>2. r[k] = s[k] /\ \A i \in 1 .. k - 1 : r[i] = s[i]
    BY <1>1, <2>1, Zenon
  <2>3. OfInnermost(s, k - 1, s[k].savedEnv, s[k].savedCtx)
    BY <1>4, <2>1, <2>2, Zenon DEF SavedInv
  <2>4. OfInnermost(r, k - 1, s[k].savedEnv, s[k].savedCtx)
    BY <1>1, <2>1, <2>2, <2>3, SamePrefix, Zenon
  <2> QED
    BY <2>2, <2>4, Zenon
<1>5. SavedInv(r, f, d)
  BY <1>1, <1>3, <1>4, Zenon DEF SavedInv
<1> QED
  BY <1>5, Zenon DEF r

(* The numbers of activations and the jump buffer, when one is entered. *)
LEMMA PushJump ==
    ASSUME NEW S, NEW s \in Seq(S), NEW a \in S, a.id \in Nat, NEW b \in Nat,
           NEW t \in Nat \cup {None}, NEW u, JumpInv(s, b, t), b < a.id,
           a.kind = "jit" => u = a.id,
           a.kind # "jit" => u = t
    PROVE  JumpInv(Append(s, a), a.id, u)
<1> DEFINE r == Append(s, a)
<1> DEFINE n == Len(s)
<1>1. /\ r \in Seq(S) /\ n \in Nat /\ Len(r) = n + 1 /\ r[n + 1] = a
      /\ \A k \in 1 .. n : r[k] = s[k]
  BY AppendLaws
<1>2. a.id \in Nat /\ \A k \in 1 .. n : s[k].id \in Nat
  BY Zenon DEF JumpInv
<1>3. /\ \A k \in 1 .. n : s[k].id <= b /\ (s[k].id = t => s[k].kind = "jit")
      /\ t # None => t <= b
  BY Zenon DEF JumpInv
<1>b. /\ \A k \in 1 .. n : \A i \in 1 .. k - 1 : s[i].id < s[k].id
      /\ \A k \in 1 .. n : s[k].kind = "jit" => t # None /\ s[k].id <= t
  BY Zenon DEF JumpInv
<1> HIDE DEF r, n
<1>4. \A k \in 1 .. n + 1 : k \in 1 .. n \/ k = n + 1
  BY <1>1
<1>5. \A k \in 1 .. n + 1 : r[k].id \in Nat /\ r[k].id <= a.id
  BY <1>1, <1>2, <1>3, <1>4, SMTT(60)
<1>6. u # None => u <= a.id
  <2>1. CASE a.kind = "jit"
    BY <1>2, <2>1
  <2>2. CASE a.kind # "jit"
    BY <1>2, <1>3, <2>2
  <2> QED
    BY <2>1, <2>2, Zenon
<1>7. ASSUME NEW k \in 1 .. n + 1, r[k].id = u PROVE r[k].kind = "jit"
  <2>1. CASE a.kind = "jit"
    <3>1. CASE k \in 1 .. n
      <4>1. s[k].id = a.id
        BY <1>1, <1>7, <2>1, <3>1, Zenon
      <4> QED
        BY <1>2, <1>3, <3>1, <4>1
    <3>2. CASE k = n + 1
      BY <1>1, <2>1, <3>2, Zenon
    <3> QED
      BY <1>4, <3>1, <3>2, Zenon
  <2>2. CASE a.kind # "jit"
    <3>1. CASE k \in 1 .. n
      BY <1>1, <1>3, <1>7, <2>2, <3>1, Zenon
    <3>2. CASE k = n + 1
      <4>1. a.id = t
        BY <1>1, <1>7, <2>2, <3>2, Zenon
      <4>2. t # None
        BY <1>2, <4>1, ConstantsOK, Zenon
      <4> QED
        BY <1>2, <1>3, <4>1, <4>2
    <3> QED
      BY <1>4, <3>1, <3>2, Zenon
  <2> QED
    BY <2>1, <2>2, Zenon
<1>8. ASSUME NEW k \in 1 .. n + 1, NEW i \in 1 .. k - 1 PROVE r[i].id < r[k].id
  <2>1. i \in 1 .. n /\ r[i].id = s[i].id
    BY <1>1
  <2>2. CASE k \in 1 .. n
    BY <1>1, <1>b, <2>1, <2>2, Zenon
  <2>3. CASE k = n + 1
    BY <1>1, <1>2, <1>3, <2>1, <2>3
  <2> QED
    BY <1>4, <2>2, <2>3, Zenon
<1>9. ASSUME NEW k \in 1 .. n + 1, r[k].kind = "jit" PROVE u # None /\ r[k].id <= u
  <2>1. CASE a.kind = "jit"
    BY <1>2, <1>5, <2>1, ConstantsOK, Zenon
  <2>2. CASE a.kind # "jit"
    <3>1. k \in 1 .. n
      BY <1>1, <1>4, <1>9, <2>2, Zenon
    <3> QED
      BY <1>1, <1>9, <1>b, <2>2, <3>1, Zenon
  <2> QED
    BY <2>1, <2>2, Zenon
<1>10. JumpInv(r, a.id, u)
  BY <1>1, <1>5, <1>6, <1>7, <1>8, <1>9, Zenon DEF JumpInv
<1> QED
  BY <1>10, Zenon DEF r

(* Who called depends on the activations looked at alone. *)
LEMMA SameCaller ==
    ASSUME NEW s, NEW r, NEW k \in Nat, NEW via,
           \A i \in 1 .. k : r[i] = s[i], CalledBy(via, s, k)
    PROVE  CalledBy(via, r, k)
<1>1. k > 0 => r[k] = s[k]
  OBVIOUS
<1> QED
  BY <1>1, Zenon DEF CalledBy

(* The callers, when an activation is entered. *)
LEMMA PushCaller ==
    ASSUME NEW S, NEW s \in Seq(S), NEW a \in S, CallerInv(s),
           CalledBy(a.via, s, Len(s))
    PROVE  CallerInv(Append(s, a))
<1> DEFINE r == Append(s, a)
<1> DEFINE n == Len(s)
<1>1. /\ n \in Nat /\ Len(r) = n + 1 /\ r[n + 1] = a
      /\ \A k \in 1 .. n : r[k] = s[k]
  BY AppendLaws
<1>2. \A k \in 1 .. n : CalledBy(s[k].via, s, k - 1)
  BY Zenon DEF CallerInv
<1>3. CalledBy(a.via, s, n)
  BY Zenon
<1> HIDE DEF r, n
<1>4. ASSUME NEW k \in 1 .. n + 1 PROVE CalledBy(r[k].via, r, k - 1)
  <2>0. k - 1 \in Nat /\ \A i \in 1 .. k - 1 : i \in 1 .. n
    BY <1>1
  <2>1. \A i \in 1 .. k - 1 : r[i] = s[i]
    BY <1>1, <2>0, Zenon
  <2>2. CalledBy(r[k].via, s, k - 1)
    <3>1. CASE k \in 1 .. n
      BY <1>1, <1>2, <3>1, Zenon
    <3>2. CASE k = n + 1
      <4>1. k - 1 = n
        BY <1>1, <3>2
      <4> QED
        BY <1>1, <1>3, <3>2, <4>1, Zenon
    <3> QED
      BY <1>1, <3>1, <3>2
  <2> QED
    BY <2>0, <2>1, <2>2, SameCaller, Zenon
<1>5. CallerInv(r)
  BY <1>1, <1>4, Zenon DEF CallerInv
<1> QED
  BY <1>5, Zenon DEF r

(* Both, when activations are cut off. *)
LEMMA CutJump ==
    ASSUME NEW S, NEW s \in Seq(S), NEW n \in Nat, n < Len(s), NEW b, NEW t,
           JumpInv(s, b, t), CallerInv(s)
    PROVE  JumpInv(SubSeq(s, 1, n), b, t) /\ CallerInv(SubSeq(s, 1, n))
<1> DEFINE r == SubSeq(s, 1, n)
<1>0. Len(s) \in Nat /\ n \in 0 .. Len(s)
  OBVIOUS
<1>1. /\ r \in Seq(S) /\ Len(r) = n
      /\ \A k \in 1 .. n : r[k] = s[k]
  BY <1>0, CutLaws, Zenon
<1> HIDE DEF r
<1>2. \A k \in 1 .. n : /\ k \in 1 .. Len(s) /\ k - 1 \in Nat
                        /\ \A i \in 1 .. k - 1 : i \in 1 .. n
  BY <1>0
<1>3. JumpInv(r, b, t)
  BY <1>1, <1>2, Zenon DEF JumpInv
<1>4. ASSUME NEW k \in 1 .. n PROVE CalledBy(r[k].via, r, k - 1)
  <2>1. CalledBy(s[k].via, s, k - 1)
    BY <1>2, Zenon DEF CallerInv
  <2>2. k - 1 \in Nat /\ \A i \in 1 .. k - 1 : r[i] = s[i]
    BY <1>1, <1>2, Zenon
  <2>3. CalledBy(s[k].via, r, k - 1)
    BY <2>1, <2>2, SameCaller, Zenon
  <2> QED
    BY <1>1, <2>3, Zenon
<1>5. CallerInv(r)
  BY <1>1, <1>4, Zenon DEF CallerInv
<1> QED
  BY <1>3, <1>5, Zenon DEF r

(* Entering a function. *)
LEMMA EnterStep ==
    ASSUME JitInv, NEW kind, NEW m, NEW via, NEW sm,
           NEW id \in Nat, born < id, ret = NoRet,
           CalledBy(via, acts, Len(acts)),
           Enter(kind, m, via, sm, id)
    PROVE  JitInv'
<1> DEFINE a == [kind |-> kind, id |-> id, mod |-> m, via |-> via, sm |-> sm,
                 savedEnv |-> envTls, savedCtx |-> context]
<1> DEFINE S == Elements(acts) \cup {a}
<1>1. JitTypeOK
  BY Zenon DEF JitInv
<1>2. /\ a.kind = kind /\ a.id = id /\ a.mod = m /\ a.via = via /\ a.sm = sm
      /\ a.savedEnv = envTls /\ a.savedCtx = context
  BY Zenon
<1>3. /\ acts' = Append(acts, a) /\ born' = id /\ UNCHANGED ret
      /\ kind = "jit" => /\ gJit' = [sm |-> sm, mod |-> m] /\ context' = [sm |-> sm, mod |-> m]
                         /\ envTls' = id /\ termBuf' = id
      /\ kind # "jit" => UNCHANGED <<gJit, context, envTls, termBuf>>
  BY Zenon DEF Enter
<1> HIDE DEF a
<1>s. acts \in Seq(S) /\ a \in S
  BY <1>1, MoreElements, Zenon DEF JitTypeOK
<1> HIDE DEF S
<1>4. JitTypeOK'
  <2>1. acts' \in Seq(S)
    BY <1>s, <1>3, AppendLaws, Zenon
  <2>2. acts' \in Seq(Elements(acts'))
    BY <2>1, OwnElements, Zenon
  <2>3. termBuf' \in Nat \cup {None}
    BY <1>1, <1>3, Zenon DEF JitTypeOK
  <2> QED
    BY <1>3, <2>2, <2>3, Zenon DEF JitTypeOK
<1>5. SavedInv(acts', envTls', context')
  <2>1. /\ a.kind = "jit" => envTls' = a.id /\ context' = [sm |-> a.sm, mod |-> a.mod]
        /\ a.kind # "jit" => envTls' = envTls /\ context' = context
    BY <1>2, <1>3, Zenon
  <2>2. SavedInv(acts, envTls, context)
    BY Zenon DEF JitInv
  <2>3. SavedInv(Append(acts, a), envTls', context')
    BY <1>s, <1>2, <2>1, <2>2, PushSaved, Zenon
  <2> QED
    BY <1>3, <2>3, Zenon
<1>6. JumpInv(acts', born', termBuf')
  <2>1. (a.kind = "jit" => termBuf' = a.id) /\ (a.kind # "jit" => termBuf' = termBuf)
    BY <1>2, <1>3, Zenon
  <2>2. JumpInv(acts, born, termBuf) /\ born \in Nat /\ termBuf \in Nat \cup {None}
    BY <1>1, Zenon DEF JitInv, JitTypeOK
  <2>3. JumpInv(Append(acts, a), a.id, termBuf')
    BY <1>s, <1>2, <2>1, <2>2, PushJump, Zenon
  <2> QED
    BY <1>2, <1>3, <2>3, Zenon
<1>7. CallerInv(acts')
  <2>1. CallerInv(acts)
    BY Zenon DEF JitInv
  <2>2. CallerInv(Append(acts, a))
    BY <1>s, <1>2, <2>1, PushCaller, Zenon
  <2> QED
    BY <1>3, <2>2, Zenon
<1>8. ReturnInv'
  BY <1>3, Zenon DEF ReturnInv, NoRet
<1> QED
  BY <1>4, <1>5, <1>6, <1>7, <1>8, Zenon DEF JitInv

(* Leaving the activation n + 1, with all that it called, with its result   *)
(* for its caller.                                                          *)
LEMMA CutStep ==
    ASSUME JitInv, NEW n \in Nat, n < Len(acts),
           acts' = SubSeq(acts, 1, n),
           acts[n + 1].kind = "jit" => envTls' = acts[n + 1].savedEnv
                                       /\ context' = acts[n + 1].savedCtx,
           acts[n + 1].kind # "jit" => UNCHANGED <<envTls, context>> /\ n + 1 = Len(acts),
           NEW err, ret' = [err |-> err, via |-> acts[n + 1].via, id |-> acts[n + 1].id],
           UNCHANGED <<gJit, termBuf, born>>
    PROVE  JitInv'
<1>1. /\ JitTypeOK /\ SavedInv(acts, envTls, context) /\ JumpInv(acts, born, termBuf)
      /\ CallerInv(acts)
  BY Zenon DEF JitInv
<1> DEFINE S == Elements(acts)
<1>s. acts \in Seq(S)
  BY <1>1, Zenon DEF JitTypeOK
<1> HIDE DEF S
<1>2. Len(acts) \in Nat /\ n \in 0 .. Len(acts) /\ n + 1 \in 1 .. Len(acts)
  BY <1>s
<1>4. /\ acts' \in Seq(S) /\ Len(acts') = n
      /\ \A k \in 1 .. n : acts'[k] = acts[k]
  BY <1>s, <1>2, CutLaws, Zenon
<1>5. JitTypeOK'
  <2>1. acts' \in Seq(Elements(acts'))
    BY <1>4, OwnElements, Zenon
  <2> QED
    BY <1>1, <2>1, Zenon DEF JitTypeOK
<1>6. SavedInv(acts', envTls', context')
  BY <1>s, <1>1, CutSaved, Zenon
<1>7. JumpInv(acts', born', termBuf') /\ CallerInv(acts')
  BY <1>s, <1>1, CutJump, Zenon
<1>8. ReturnInv'
  <2>1. CalledBy(acts[n + 1].via, acts, n + 1 - 1)
    BY <1>1, <1>2 DEF CallerInv
  <2>2. CalledBy(acts[n + 1].via, acts', n)
    <3>1. n + 1 - 1 = n
      OBVIOUS
    <3> QED
      BY <1>4, <2>1, <3>1, SameCaller, Zenon
  <2>3. ret'.via = acts[n + 1].via
    BY Zenon
  <2> QED
    BY <1>4, <2>2, <2>3, Zenon DEF ReturnInv
<1> QED
  BY <1>5, <1>6, <1>7, <1>8, Zenon DEF JitInv

(* A function that returns leaves the innermost activation. *)
LEMMA ReturnStep ==
    ASSUME JitInv, NEW err, Return(err)
    PROVE  JitInv'
<1>1. acts \in Seq(Elements(acts)) /\ acts # <<>>
  BY Zenon DEF JitInv, JitTypeOK, Return
<1> DEFINE n == Len(acts) - 1
<1>2. n \in Nat /\ n < Len(acts) /\ n + 1 = Len(acts)
  BY <1>1
<1>3. /\ acts' = SubSeq(acts, 1, n)
      /\ UNCHANGED <<gJit, termBuf, born>>
      /\ ret' = [err |-> err, via |-> acts[Len(acts)].via, id |-> acts[Len(acts)].id]
      /\ envTls' = IF acts[Len(acts)].kind = "jit" THEN acts[Len(acts)].savedEnv ELSE envTls
      /\ context' = IF acts[Len(acts)].kind = "jit" THEN acts[Len(acts)].savedCtx ELSE context
  BY Zenon DEF Return, Front, Top, Leave
<1> HIDE DEF n
<1> QED
  BY <1>2, <1>3, CutStep, Zenon

(* A jump leaves the IR JIT activation that filled the buffer, or the       *)
(* process is done for.                                                     *)
LEMMA JumpStep ==
    ASSUME JitInv, NEW err, LongJump(err), UNCHANGED <<gJit, termBuf, born>>
    PROVE  JitInv'
<1> DEFINE target == {i \in DOMAIN acts : acts[i].id = termBuf}
<1>1. DOMAIN acts = 1 .. Len(acts) /\ Len(acts) \in Nat
  BY DEF JitInv, JitTypeOK
<1>2. CASE target = {}
  <2>1. UNCHANGED <<acts, envTls, context, ret>>
    BY <1>2, Zenon DEF LongJump
  <2> QED
    BY <2>1, Zenon DEF JitInv, JitTypeOK, ReturnInv
<1>3. CASE target # {}
  <2>1. PICK i \in target :
          /\ acts' = SubSeq(acts, 1, i - 1)
          /\ Leave(acts[i])
          /\ ret' = [err |-> err, via |-> acts[i].via, id |-> acts[i].id]
    BY <1>3, Zenon DEF LongJump
  <2> DEFINE n == i - 1
  <2>2. n \in Nat /\ n < Len(acts) /\ n + 1 = i /\ i \in 1 .. Len(acts)
    BY <1>1
  <2>3. acts[i].kind = "jit"
    BY <2>2, Zenon DEF JitInv, JumpInv
  <2>4. envTls' = acts[i].savedEnv /\ context' = acts[i].savedCtx
    BY <2>1, <2>3, Zenon DEF Leave
  <2> HIDE DEF n
  <2>5. acts' = SubSeq(acts, 1, n)
    BY <2>1, Zenon DEF n
  <2> QED
    BY <2>1, <2>2, <2>3, <2>4, <2>5, CutStep, Zenon
<1> QED
  BY <1>2, <1>3, Zenon

(* A step that leaves the activations and what is published for them. *)
LEMMA QuietStep ==
    ASSUME JitInv, UNCHANGED <<acts, gJit, termBuf, envTls, context, born>>,
           ret' = NoRet \/ ret' = ret
    PROVE  JitInv'
  BY Zenon DEF JitInv, JitTypeOK, ReturnInv

(* The invariant is inductive: entering a function. *)
LEMMA EnterSteps ==
    ASSUME JitInv, NEW m \in Modules
    PROVE  /\ \A kind \in {"jit", "wasm"} : Invoke(kind, m) => JitInv'
           /\ \A kind \in CalleeKinds :
                HostCall(kind, m) \/ CallIndirect(kind, m) \/ InterpCall(kind, m) => JitInv'
<1>1. /\ born \in Nat /\ born + 1 \in Nat /\ born + 2 \in Nat
      /\ born < born + 1 /\ born < born + 2
  BY DEF JitInv, JitTypeOK
<1>2. ASSUME NEW kind \in {"jit", "wasm"}, Invoke(kind, m) PROVE JitInv'
  <2>1. ret = NoRet /\ Enter(kind, m, "invoke", born + 1, born + 2)
    BY <1>2, Zenon DEF Invoke, Running
  <2>2. CalledBy("invoke", acts, Len(acts))
    BY Zenon DEF CalledBy
  <2> QED
    BY <1>1, <2>1, <2>2, EnterStep, Zenon
<1>a. acts # <<>> => Len(acts) > 0
  <2>1. acts \in Seq(Elements(acts))
    BY Zenon DEF JitInv, JitTypeOK
  <2> QED
    BY <2>1
<1>3. ASSUME NEW kind \in {"jit", "host", "wasm"}, NEW via \in {"call", "indirect"},
             NEW caller, CallFunction(kind, m, via, caller)
      PROVE  JitInv'
  <2>1. ret = NoRet /\ CalledBy(via, acts, Len(acts))
    BY <1>3, <1>a, Zenon DEF CallFunction, InCode, Running, Top, CalledBy
  <2>2. Crash \/ Enter(kind, Callee(kind, m), via, gJit.sm, born + 1)
    BY <1>3, Zenon DEF CallFunction
  <2>3. CASE Crash
    BY <2>3, QuietStep, Zenon DEF Crash
  <2>4. CASE Enter(kind, Callee(kind, m), via, gJit.sm, born + 1)
    BY <1>1, <2>1, <2>4, EnterStep, Zenon
  <2> QED
    BY <2>2, <2>3, <2>4, Zenon
<1>4. ASSUME NEW kind \in {"jit", "host", "wasm"}, InterpCall(kind, m) PROVE JitInv'
  <2>1. /\ ret = NoRet /\ CalledBy("interp", acts, Len(acts))
        /\ Enter(kind, Callee(kind, m), "interp", Stack.id, born + 1)
    BY <1>4, <1>a, Zenon DEF InterpCall, InCode, Running, Top, CalledBy
  <2> QED
    BY <1>1, <2>1, EnterStep, Zenon
<1>5. CalleeKinds \subseteq {"jit", "host", "wasm"}
  BY ConstantsOK, Zenon
<1> QED
  BY <1>2, <1>3, <1>4, <1>5, Zenon DEF HostCall, CallIndirect

(* A longjmp or a return of an error of the interpreter. *)
LEMMA InterpReturnStep ==
    ASSUME JitInv, InterpCallReturns
    PROVE  JitInv'
<1>1. CASE ret.err = "ok"
  BY <1>1, QuietStep, Zenon DEF InterpCallReturns
<1>2. CASE ret.err # "ok"
  <2>1. acts \in Seq(Elements(acts))
    BY Zenon DEF JitInv, JitTypeOK
  <2>2. Len(acts) > 0 /\ acts[Len(acts)].kind = "wasm"
    BY Zenon DEF InterpCallReturns, Returning, JitInv, ReturnInv, CalledBy
  <2> DEFINE n == Len(acts) - 1
  <2>3. n \in Nat /\ n < Len(acts) /\ n + 1 = Len(acts)
    BY <2>1, <2>2
  <2>4. /\ acts' = SubSeq(acts, 1, n)
        /\ ret' = [err |-> ret.err, via |-> acts[Len(acts)].via, id |-> acts[Len(acts)].id]
        /\ UNCHANGED <<gJit, termBuf, envTls, context, born>>
    BY <1>2, Zenon DEF InterpCallReturns, Front, Top
  <2> HIDE DEF n
  <2> QED
    BY <2>2, <2>3, <2>4, CutStep, Zenon
<1> QED
  BY <1>1, <1>2, Zenon

(* The invariant is inductive. *)
LEMMA JitNextInv ==
    JitInv /\ [Next]_vars => JitInv'
<1> SUFFICES ASSUME JitInv, [Next]_vars PROVE JitInv'
  BY Zenon
<1>1. ASSUME NEW m \in Modules, NEW kind \in {"jit", "wasm"}, Invoke(kind, m) PROVE JitInv'
  BY <1>1, EnterSteps, Zenon
<1>2. ASSUME NEW m \in Modules, NEW kind \in CalleeKinds,
             HostCall(kind, m) \/ CallIndirect(kind, m) \/ InterpCall(kind, m)
      PROVE  JitInv'
  BY <1>2, EnterSteps, Zenon
<1>3. CASE HostReturn \/ JitReturn \/ WasmReturn
  BY <1>3, ReturnStep, Zenon DEF HostReturn, JitReturn, WasmReturn
<1>4. ASSUME NEW err \in Traps, JitTrap(err) PROVE JitInv'
  BY <1>4, JumpStep, Zenon DEF JitTrap
<1>5. CASE InvokeReturns
  BY <1>5, QuietStep, Zenon DEF InvokeReturns
<1>6. CASE CallReturns
  BY <1>6, QuietStep, Zenon DEF CallReturns
<1>7. CASE CallTerminated
  BY <1>7, JumpStep, Zenon DEF CallTerminated
<1>8. CASE HostCallFails
  BY <1>8, QuietStep, Zenon DEF HostCallFails
<1>9. CASE CallIndirectFails
  BY <1>9, JumpStep, Zenon DEF CallIndirectFails
<1>10. CASE InterpCallReturns
  BY <1>10, InterpReturnStep, Zenon
<1>11. CASE UNCHANGED vars
  BY <1>11, QuietStep, Zenon DEF vars
<1> QED
  BY <1>1, <1>2, <1>3, <1>4, <1>5, <1>6, <1>7, <1>8, <1>9, <1>10, <1>11, Zenon DEF Next

(* No activation, nothing published. *)
LEMMA JitInitInv ==
    Init => JitInv
<1> SUFFICES ASSUME Init PROVE JitInv
  BY Zenon
<1>1. acts = <<>> /\ Len(acts) = 0 /\ 1 .. Len(acts) = {}
  BY DEF Init
<1>2. JitTypeOK
  BY <1>1 DEF Init, JitTypeOK
<1>3. SavedInv(acts, envTls, context)
  BY <1>1, Zenon DEF Init, SavedInv, OfInnermost
<1>4. JumpInv(acts, born, termBuf) /\ CallerInv(acts) /\ ReturnInv
  BY <1>1, Zenon DEF Init, JumpInv, CallerInv, ReturnInv
<1> QED
  BY <1>2, <1>3, <1>4, Zenon DEF JitInv

(* The activation that the invariant names is the one that Inner chooses. *)
LEMMA PublishedOfInnermost ==
    JitInv => InnermostPublished
<1> SUFFICES ASSUME JitInv
             PROVE  /\ envTls = IF JitActs = {} THEN None ELSE acts[Inner].id
                    /\ context = IF JitActs = {} THEN NoCtx
                                 ELSE [sm |-> acts[Inner].sm, mod |-> acts[Inner].mod]
  BY Zenon DEF InnermostPublished, EnvIsInnermost, ContextIsInnermost
<1>1. DOMAIN acts = 1 .. Len(acts) /\ Len(acts) \in Nat
  BY DEF JitInv, JitTypeOK
<1>2. OfInnermost(acts, Len(acts), envTls, context)
  BY Zenon DEF JitInv, SavedInv
<1>3. CASE JitActs = {}
  <2>1. \A i \in 1 .. Len(acts) : acts[i].kind # "jit"
    BY <1>1, <1>3, Zenon DEF JitActs
  <2> QED
    BY <1>2, <1>3, <2>1, Zenon DEF OfInnermost
<1>4. CASE JitActs # {}
  <2>1. \E i \in 1 .. Len(acts) : acts[i].kind = "jit"
    BY <1>1, <1>4, Zenon DEF JitActs
  <2>2. PICK i \in 1 .. Len(acts) :
          /\ acts[i].kind = "jit"
          /\ \A j \in (i + 1) .. Len(acts) : acts[j].kind # "jit"
          /\ envTls = acts[i].id
          /\ context = [sm |-> acts[i].sm, mod |-> acts[i].mod]
    BY <1>2, <2>1, Zenon DEF OfInnermost
  <2>3. i \in JitActs /\ JitActs \subseteq 1 .. Len(acts)
    BY <1>1, <2>2, Zenon DEF JitActs
  <2>4. ASSUME NEW j \in JitActs PROVE j <= i
    <3>1. j \in 1 .. Len(acts) /\ acts[j].kind = "jit"
      BY <2>3, Zenon DEF JitActs
    <3>2. j \notin (i + 1) .. Len(acts)
      BY <2>2, <3>1, Zenon
    <3> QED
      BY <1>1, <2>2, <3>1, <3>2
  <2>5. Inner \in JitActs /\ \A j \in JitActs : j <= Inner
    BY <2>3, <2>4, Zenon DEF Inner
  <2>6. Inner = i
    <3>1. Inner <= i /\ i <= Inner
      BY <2>3, <2>4, <2>5, Zenon
    <3>2. Inner \in 1 .. Len(acts)
      BY <2>3, <2>5, Zenon
    <3> HIDE DEF Inner
    <3> QED
      BY <1>1, <3>1, <3>2
  <2> QED
    BY <1>4, <2>2, <2>6, Zenon
<1> QED
  BY <1>3, <1>4, Zenon

(* The inductive invariant of nested activations: what each saved, whom a   *)
(* jump reaches and who called whom.                                        *)
THEOREM JitInvariant == Spec => []JitInv
<1> QED
  BY JitInitInv, JitNextInv, PTL DEF Spec

(* The published environment and the execution context are those of the     *)
(* innermost IR JIT activation, through nested calls, re-entry by host      *)
(* functions, traps and termination, to any depth.                          *)
THEOREM AlwaysInnermostPublished == Spec => []InnermostPublished
<1> QED
  BY JitInvariant, PublishedOfInnermost, PTL

-----------------------------------------------------------------------------
(* The frames. Layout(lvl, pos) says on which StackManager each           *)
(* activation is and which frame there is its own; the lemmas come in the *)
(* order of the steps that move it: pop, resume, push, and then each      *)
(* action by one of them.                                                 *)

(* What replacing an element of a sequence does. *)
LEMMA ReplaceLaws ==
    ASSUME NEW S, NEW s \in Seq(S), NEW i \in 1 .. Len(s), NEW e \in S,
           NEW r, r = [s EXCEPT ![i] = e]
    PROVE  /\ r \in Seq(S) /\ Len(s) \in Nat /\ Len(r) = Len(s) /\ r[i] = e
           /\ \A j \in 1 .. Len(s) : j # i => r[j] = s[j]
  OBVIOUS

(* The last number of an interval. *)
LEMMA LastOrBefore ==
    ASSUME NEW n \in Nat
    PROVE  \A j \in 1 .. n : (j \in 1 .. n - 1 /\ j # n) \/ j = n
  OBVIOUS

(* What writing the frames of the last StackManager does. *)
LEMMA SetFramesLaws ==
    ASSUME stacks \in Seq(StackSet), Len(stacks) > 0, NEW fr \in Seq(FrameSet),
           SetFrames(Len(stacks), fr)
    PROVE  /\ stacks' \in Seq(StackSet)
           /\ Len(stacks') = Len(stacks)
           /\ \A j \in 1 .. Len(stacks) - 1 : stacks'[j] = stacks[j]
           /\ \A j \in 1 .. Len(stacks) : stacks'[j].id = stacks[j].id
           /\ stacks'[Len(stacks)].frames = fr
<1>0. PICK L \in Nat : L = Len(stacks)
  OBVIOUS
<1>1. L \in 1 .. Len(stacks) /\ stacks[L] \in StackSet
  BY <1>0
<1> DEFINE new == [id |-> stacks[L].id, frames |-> fr]
<1>2. new \in StackSet /\ new.id = stacks[L].id /\ new.frames = fr
  BY <1>1, Zenon DEF StackSet
<1>3. stacks' = [stacks EXCEPT ![L] = new]
  BY <1>0, Zenon DEF SetFrames
<1> HIDE DEF new
<1>4. /\ stacks' \in Seq(StackSet) /\ Len(stacks') = L /\ stacks'[L] = new
      /\ \A j \in 1 .. L : j # L => stacks'[j] = stacks[j]
  BY <1>0, <1>1, <1>2, <1>3, ReplaceLaws
<1>5. \A j \in 1 .. L - 1 : j \in 1 .. L /\ j # L
  OBVIOUS
<1>6. \A j \in 1 .. L : (j \in 1 .. L - 1 /\ j # L) \/ j = L
  BY LastOrBefore, Zenon
<1>7. \A j \in 1 .. L : stacks'[j].id = stacks[j].id
  BY <1>2, <1>4, <1>6, Zenon
<1> QED
  BY <1>0, <1>2, <1>4, <1>5, <1>7, Zenon

(* Pushing on a sequence of frames. *)
LEMMA FrameTyped ==
    ASSUME NEW m \in Modules \cup {None}, NEW i \in Nat \cup {None}
    PROVE  Frame(m, i) \in FrameSet /\ Frame(m, i).id = i
  BY Zenon DEF Frame, FrameSet

(* Activations and StackManagers that are only taken away, and frames that   *)
(* change, leave the order of the StackManagers.                             *)
LEMMA StacksKept ==
    ASSUME StacksInv, JitTypeOK, stacks' \in Seq(StackSet), Len(stacks') <= Len(stacks),
           \A j \in 1 .. Len(stacks') : stacks'[j].id = stacks[j].id,
           Len(acts') <= Len(acts), Len(acts') \in Nat,
           \A k \in 1 .. Len(acts') : acts'[k] = acts[k],
           UNCHANGED <<gJit, born>>
    PROVE  StacksInv'
<1>1. /\ Len(stacks) \in Nat /\ Len(stacks') \in Nat /\ Len(acts) \in Nat
      /\ \A j \in 1 .. Len(stacks') : j \in 1 .. Len(stacks)
      /\ \A j \in 1 .. Len(stacks') : \A i \in 1 .. j - 1 : i \in 1 .. Len(stacks')
      /\ \A k \in 1 .. Len(acts') : k \in 1 .. Len(acts)
  BY DEF StacksInv, JitTypeOK
<1>2. \A j \in 1 .. Len(stacks') : stacks'[j].id <= born'
  BY <1>1, Zenon DEF StacksInv
<1>3. \A j \in 1 .. Len(stacks') : \A i \in 1 .. j - 1 : stacks'[i].id < stacks'[j].id
  BY <1>1, Zenon DEF StacksInv
<1>4. \A k \in 1 .. Len(acts') :
         acts'[k].kind = "jit" => gJit'.sm # None /\ acts'[k].sm <= gJit'.sm
  BY <1>1, Zenon DEF StacksInv
<1> QED
  BY <1>2, <1>3, <1>4, Zenon DEF StacksInv

(* A step that changes nothing of the StackManagers but the frames of the    *)
(* last one.                                                                 *)
LastChanges ==
    /\ stacks' \in Seq(StackSet)
    /\ Len(stacks') = Len(stacks)
    /\ \A j \in 1 .. Len(stacks) - 1 : stacks'[j] = stacks[j]
    /\ \A j \in 1 .. Len(stacks) : stacks'[j].id = stacks[j].id

(* A step in which the innermost activation returns err. *)
LeavesTop(err) ==
    /\ acts' = Front(acts)
    /\ ret' = [err |-> err, via |-> Top.via, id |-> Top.id]

(* The innermost activation is on the last StackManager. *)
OnLast(lvl) == Len(acts) > 0 /\ lvl[Len(acts)] = Len(stacks)

(* Its frame, the top one, is popped. *)
PopsOwn(pos) ==
    /\ ~Unwinding
    /\ pos[Len(acts)] = CallDepth(Len(stacks))
    /\ stacks'[Len(stacks)].frames = PopFrames(Stack.frames, 1)

(* How many activations and StackManagers there are. *)
Sizes(n, L) == n = Len(acts) /\ L = Len(stacks)

(* There are so many of them.                                             *)
LEMMA SizesExist ==
    ASSUME JitTypeOK, StacksInv
    PROVE  \E n, L \in Nat : Sizes(n, L)
  BY DEF JitTypeOK, StacksInv, Sizes

(* What the layout says in numbers. *)
LEMMA LayoutNumbers ==
    ASSUME JitTypeOK, StacksInv, NEW lvl, NEW pos,
           Layout(lvl, pos), NEW n \in Nat, NEW L \in Nat, Sizes(n, L)
    PROVE  /\ \A k \in 1 .. n : lvl[k] \in 1 .. L /\ pos[k] \in Nat
           /\ \A j \in 1 .. L : /\ stacks[j] \in StackSet /\ stacks[j].id \in Nat
                                /\ stacks[j].frames \in Seq(FrameSet)
                                /\ CallDepth(j) \in Nat
<1>2. ASSUME NEW k \in 1 .. n PROVE lvl[k] \in 1 .. L /\ pos[k] \in Nat
  BY Zenon DEF Layout, Sizes
<1>3. ASSUME NEW j \in 1 .. L PROVE stacks[j] \in StackSet
  BY DEF StacksInv, Sizes
<1>4. ASSUME NEW j \in 1 .. L
      PROVE  /\ stacks[j].id \in Nat /\ stacks[j].frames \in Seq(FrameSet)
             /\ CallDepth(j) \in Nat
  <2>1. stacks[j].id \in Nat /\ stacks[j].frames \in Seq(FrameSet)
    BY <1>3, Zenon DEF StackSet
  <2>2. Len(stacks[j].frames) \in Nat
    BY <2>1, SMTT(60)
  <2> QED
    BY <2>1, <2>2, Zenon DEF CallDepth
<1> QED
  BY <1>2, <1>3, <1>4, Zenon

(* The layout after the innermost activation has been left with an error, or *)
(* with its values and its frame popped.                                     *)
LEMMA PopLayout ==
    ASSUME JitInv, StacksInv, NEW lvl, NEW pos,
           Layout(lvl, pos), OnLast(lvl), NEW err, LeavesTop(err), LastChanges,
           err = "ok" => PopsOwn(pos)
    PROVE  Layout(lvl, pos)'
<1>a. JitTypeOK /\ JumpInv(acts, born, termBuf)
  BY Zenon DEF JitInv
<1>0. PICK n, L \in Nat : Sizes(n, L)
  BY <1>a, SizesExist, Zenon
<1>e. n = Len(acts) /\ L = Len(stacks)
  BY <1>0, Zenon DEF Sizes
<1>n. \A k \in 1 .. n : lvl[k] \in 1 .. L /\ pos[k] \in Nat
  BY <1>0, <1>a, LayoutNumbers, Zenon
<1>s. \A j \in 1 .. L : stacks[j].frames \in Seq(FrameSet) /\ Len(stacks[j].frames) \in Nat
  BY <1>0, <1>a, LayoutNumbers, Zenon DEF CallDepth
<1>1. /\ lvl[n] = L /\ n - 1 \in Nat /\ n \in 1 .. n /\ L > 0 /\ L \in 1 .. L
      /\ \A k \in 1 .. n - 1 : k \in 1 .. n /\ \A i \in 1 .. k - 1 : i \in 1 .. n
  <2>1. n > 0 /\ lvl[n] = L
    BY <1>e, Zenon DEF OnLast
  <2>2. /\ n - 1 \in Nat /\ n \in 1 .. n
        /\ \A k \in 1 .. n - 1 : k \in 1 .. n /\ \A i \in 1 .. k - 1 : i \in 1 .. n
    BY <2>1
  <2>3. L \in 1 .. L
    BY <1>n, <2>1, <2>2, Zenon
  <2> QED
    BY <2>1, <2>2, <2>3
<1>l. /\ \A k \in 1 .. n : acts[k].sm = stacks[lvl[k]].id
      /\ \A k \in 1 .. n :
                lvl[k] < L \/ ~Unwinding =>
                    /\ pos[k] \in 1 .. CallDepth(lvl[k])
                    /\ stacks[lvl[k]].frames[pos[k]].id = acts[k].id
      /\ \A k \in 1 .. n : \A i \in 1 .. k - 1 :
                lvl[i] <= lvl[k] /\ (lvl[i] = lvl[k] => pos[i] < pos[k])
      /\ \A k \in 2 .. n :
                Above(acts[k].via, lvl[k - 1], pos[k - 1], CallDepth(lvl[k - 1]), lvl[k], pos[k])
  BY <1>e, ZenonT(60) DEF Layout
<1>c. /\ Len(stacks') = L
      /\ \A j \in 1 .. L - 1 : stacks'[j] = stacks[j]
      /\ \A j \in 1 .. L : stacks'[j].id = stacks[j].id
  BY <1>e, Zenon DEF LastChanges
<1>2. /\ Len(acts') = n - 1
      /\ \A k \in 1 .. n - 1 : acts'[k] = acts[k]
  <2>1. acts \in Seq(Elements(acts)) /\ n - 1 \in 0 .. Len(acts) /\ acts' = SubSeq(acts, 1, n - 1)
    BY <1>e, <1>a, <1>1 DEF JitTypeOK, LeavesTop, Front
  <2> QED
    BY <2>1, CutLaws, Zenon
<1>3. ret' # NoRet /\ ret'.err = err /\ ret'.via = acts[n].via
  <2>1. acts[n].id # None
    <3>1. acts[n].id \in Nat
      BY <1>e, <1>1, <1>a, Zenon DEF JumpInv
    <3> QED
      BY <3>1, ConstantsOK, Zenon
  <2>2. ret' = [err |-> err, via |-> acts[n].via, id |-> acts[n].id]
    BY <1>e, Zenon DEF LeavesTop, Top
  <2> QED
    BY <2>1, <2>2, Zenon DEF NoRet
<1>4. Unwinding' <=> err # "ok"
  BY <1>3, Zenon DEF Unwinding
<1>p. ASSUME err = "ok"
      PROVE  LET fr == stacks[L].frames
             IN  /\ ~Unwinding /\ pos[n] = Len(fr) /\ Len(stacks'[L].frames) = Len(fr) - 1
                 /\ \A p \in 1 .. Len(fr) - 1 : stacks'[L].frames[p] = fr[p]
  <2> DEFINE fr == stacks[L].frames
  <2>0. /\ ~Unwinding /\ pos[n] = Len(fr)
        /\ stacks'[L].frames = SubSeq(fr, 1, Len(fr) - 1)
    BY <1>e, <1>p, Zenon DEF PopsOwn, CallDepth, PopFrames, Stack
  <2>1. pos[n] \in 1 .. Len(fr)
    BY <1>1, <1>l, <2>0, Zenon DEF CallDepth
  <2>2. fr \in Seq(FrameSet) /\ Len(fr) - 1 \in 0 .. Len(fr)
    <3>1. fr \in Seq(FrameSet) /\ Len(fr) \in Nat
      BY <1>s, <1>1, Zenon
    <3> HIDE DEF fr
    <3> QED
      BY <2>0, <2>1, <3>1
  <2> HIDE DEF fr
  <2>3. /\ Len(SubSeq(fr, 1, Len(fr) - 1)) = Len(fr) - 1
        /\ \A p \in 1 .. Len(fr) - 1 : SubSeq(fr, 1, Len(fr) - 1)[p] = fr[p]
    BY <2>2, CutLaws, Zenon
  <2> QED
    BY <2>0, <2>3, Zenon DEF fr
<1>5. ASSUME NEW k \in 1 .. n - 1
      PROVE  lvl[k] \in 1 .. L /\ acts'[k].sm = stacks'[lvl[k]].id
  BY <1>n, <1>1, <1>2, <1>l, <1>c, ZenonT(60)
<1>6. ASSUME NEW k \in 1 .. n - 1, lvl[k] < L \/ ~Unwinding'
      PROVE  /\ pos[k] \in 1 .. Len(stacks'[lvl[k]].frames)
             /\ stacks'[lvl[k]].frames[pos[k]].id = acts'[k].id
  <2>0. k \in 1 .. n /\ acts'[k] = acts[k] /\ lvl[k] \in 1 .. L /\ pos[k] \in Nat
    BY <1>n, <1>1, <1>2, Zenon
  <2>1. CASE lvl[k] < L
    <3>1. lvl[k] \in 1 .. L - 1
      BY <2>0, <2>1
    <3> QED
      BY <1>l, <1>c, <2>0, <2>1, <3>1, SMTT(60) DEF CallDepth
  <2>2. CASE ~(lvl[k] < L)
    <3>1. lvl[k] = L /\ err = "ok"
      BY <1>4, <1>6, <2>0, <2>2
    <3>2. /\ pos[k] \in 1 .. Len(stacks[L].frames)
          /\ stacks[L].frames[pos[k]].id = acts[k].id
      BY <1>l, <1>p, <2>0, <3>1, Zenon DEF CallDepth
    <3>3. pos[k] < pos[n] /\ pos[n] = Len(stacks[L].frames)
      BY <1>1, <1>l, <1>p, <3>1, Zenon
    <3>4. pos[k] \in 1 .. Len(stacks[L].frames) - 1
      <4>1. Len(stacks[L].frames) \in Nat
        BY <1>s, <1>1, Zenon
      <4> QED
        BY <3>2, <3>3, <4>1
    <3> QED
      BY <1>p, <2>0, <3>1, <3>2, <3>4, ZenonT(60)
  <2> QED
    BY <2>1, <2>2, Zenon
<1>7. ASSUME NEW k \in 1 .. n - 1, NEW i \in 1 .. k - 1
      PROVE  lvl[i] <= lvl[k] /\ (lvl[i] = lvl[k] => pos[i] < pos[k])
  BY <1>1, <1>l, Zenon
<1>8. ASSUME NEW k \in 2 .. n
      PROVE  Above(acts[k].via, lvl[k - 1], pos[k - 1], Len(stacks'[lvl[k - 1]].frames),
                   lvl[k], pos[k])
  <2>1. Above(acts[k].via, lvl[k - 1], pos[k - 1], CallDepth(lvl[k - 1]), lvl[k], pos[k])
    BY <1>l, Zenon
  <2>2. acts[k].via = "invoke" => stacks'[lvl[k - 1]] = stacks[lvl[k - 1]]
    <3> SUFFICES ASSUME acts[k].via = "invoke" PROVE lvl[k - 1] \in 1 .. L - 1
      BY <1>c, Zenon
    <3>1. k \in 1 .. n /\ k - 1 \in 1 .. n
      OBVIOUS
    <3>2. lvl[k] \in 1 .. L /\ lvl[k - 1] \in 1 .. L
      BY <1>n, <3>1, Zenon
    <3>3. lvl[k] = lvl[k - 1] + 1
      BY <2>1, Zenon DEF Above
    <3> QED
      BY <3>2, <3>3, SMTT(60)
  <2> QED
    BY <2>1, <2>2, Zenon DEF Above, CallDepth
<1>9. ASSUME NEW k \in 2 .. n - 1
      PROVE  Above(acts'[k].via, lvl[k - 1], pos[k - 1], Len(stacks'[lvl[k - 1]].frames),
                   lvl[k], pos[k])
  <2>1. k \in 2 .. n /\ k \in 1 .. n - 1
    OBVIOUS
  <2>2. acts'[k].via = acts[k].via
    BY <1>2, <2>1, Zenon
  <2> QED
    BY <1>8, <2>1, <2>2, Zenon
<1>10. ASSUME n - 1 > 0
       PROVE  \E p \in Nat :
                /\ Above(ret'.via, lvl[n - 1], pos[n - 1],
                         Len(stacks'[lvl[n - 1]].frames), L, p)
                /\ ~Unwinding' => p = Len(stacks'[L].frames) + 1
  <2>1. n \in 2 .. n /\ pos[n] \in Nat
    <3>1. n \in 2 .. n
      BY <1>10, SMTT(60)
    <3> QED
      BY <1>n, <1>1, <3>1, Zenon
  <2>2. Above(ret'.via, lvl[n - 1], pos[n - 1], Len(stacks'[lvl[n - 1]].frames), L, pos[n])
    BY <1>1, <1>3, <1>8, <2>1, Zenon
  <2>3. ~Unwinding' => pos[n] = Len(stacks'[L].frames) + 1
    <3>1. Len(stacks[L].frames) \in Nat
      BY <1>s, <1>1, Zenon
    <3> QED
      BY <1>4, <1>p, <3>1
  <2> QED
    BY <2>1, <2>2, <2>3, Zenon
<1> QED
  BY <1>n, <1>1, <1>2, <1>3, <1>c, <1>5, <1>6, <1>7, <1>9, <1>10, Zenon DEF Layout, CallDepth

(* A step after which the innermost activation goes on, on the StackManager  *)
(* M, its frame being the top one there.                                     *)
Resumes(lvl, pos, M) ==
    /\ acts' = acts /\ ret' = NoRet
    /\ Len(stacks') = M /\ M <= Len(stacks)
    /\ \A j \in 1 .. M - 1 : stacks'[j] = stacks[j]
    /\ \A j \in 1 .. M : stacks'[j].id = stacks[j].id
    /\ Len(acts) > 0 =>
         /\ lvl[Len(acts)] = M
         /\ M < Len(stacks) \/ ~Unwinding
         /\ pos[Len(acts)] = Len(stacks'[M].frames)
         /\ \A p \in 1 .. pos[Len(acts)] : stacks'[M].frames[p] = stacks[M].frames[p]

(* The layout after such a step. *)
LEMMA ResumeLayout ==
    ASSUME JitInv, StacksInv, NEW lvl, NEW pos, Layout(lvl, pos),
           NEW M \in Nat, Resumes(lvl, pos, M)
    PROVE  Layout(lvl, pos)'
<1>a. JitTypeOK
  BY Zenon DEF JitInv
<1>0. PICK n, L \in Nat : Sizes(n, L)
  BY <1>a, SizesExist, Zenon
<1>e. n = Len(acts) /\ L = Len(stacks)
  BY <1>0, Zenon DEF Sizes
<1>n. \A k \in 1 .. n : lvl[k] \in 1 .. L /\ pos[k] \in Nat
  BY <1>0, <1>a, LayoutNumbers, Zenon
<1>l. /\ \A k \in 1 .. n : acts[k].sm = stacks[lvl[k]].id
      /\ \A k \in 1 .. n :
                lvl[k] < L \/ ~Unwinding =>
                    /\ pos[k] \in 1 .. CallDepth(lvl[k])
                    /\ stacks[lvl[k]].frames[pos[k]].id = acts[k].id
      /\ \A k \in 1 .. n : \A i \in 1 .. k - 1 :
                lvl[i] <= lvl[k] /\ (lvl[i] = lvl[k] => pos[i] < pos[k])
      /\ \A k \in 2 .. n :
                Above(acts[k].via, lvl[k - 1], pos[k - 1], CallDepth(lvl[k - 1]), lvl[k], pos[k])
  BY <1>e, Zenon DEF Layout
<1>c. /\ acts' = acts /\ ret' = NoRet
      /\ Len(stacks') = M /\ M <= L
      /\ \A j \in 1 .. M - 1 : stacks'[j] = stacks[j]
      /\ \A j \in 1 .. M : stacks'[j].id = stacks[j].id
  BY <1>e, Zenon DEF Resumes
<1>r. n > 0 => /\ lvl[n] = M
               /\ M < L \/ ~Unwinding
               /\ pos[n] = Len(stacks'[M].frames)
               /\ \A p \in 1 .. pos[n] : stacks'[M].frames[p] = stacks[M].frames[p]
  BY <1>e, Zenon DEF Resumes
<1>u. ~Unwinding'
  BY <1>c, Zenon DEF Unwinding
<1>1. ASSUME NEW k \in 1 .. n
      PROVE  /\ n > 0 /\ n \in 1 .. n /\ lvl[k] \in 1 .. M /\ lvl[k] \in Nat
             /\ pos[k] \in Nat /\ pos[n] \in Nat
             /\ lvl[k] < L \/ ~Unwinding
             /\ lvl[k] = M => pos[k] <= pos[n]
  <2>1. n > 0 /\ n \in 1 .. n
    OBVIOUS
  <2>2. lvl[n] = M /\ (M < L \/ ~Unwinding)
    BY <1>r, <2>1, Zenon
  <2>3. lvl[k] \in 1 .. L /\ pos[k] \in Nat /\ pos[n] \in Nat
    BY <1>n, <2>1, Zenon
  <2>4. lvl[k] <= M /\ (lvl[k] = M => pos[k] <= pos[n])
    <3>1. CASE k = n
      BY <2>2, <2>3, <3>1
    <3>2. CASE k # n
      <4>1. k \in 1 .. n - 1
        BY <3>2, SMTT(60)
      <4>2. lvl[k] <= lvl[n] /\ (lvl[k] = lvl[n] => pos[k] < pos[n])
        BY <1>l, <2>1, <4>1, Zenon
      <4> QED
        BY <2>2, <2>3, <4>2
    <3> QED
      BY <3>1, <3>2, Zenon
  <2> QED
    BY <2>1, <2>2, <2>3, <2>4
<1>2. ASSUME NEW k \in 1 .. n
      PROVE  lvl[k] \in 1 .. M /\ pos[k] \in Nat /\ acts'[k].sm = stacks'[lvl[k]].id
  <2>1. lvl[k] \in 1 .. M /\ pos[k] \in Nat
    BY <1>1, Zenon
  <2> QED
    BY <1>l, <1>c, <2>1, Zenon
<1>3. ASSUME NEW k \in 1 .. n
      PROVE  /\ pos[k] \in 1 .. Len(stacks'[lvl[k]].frames)
             /\ stacks'[lvl[k]].frames[pos[k]].id = acts'[k].id
  <2>1. /\ pos[k] \in 1 .. CallDepth(lvl[k])
        /\ stacks[lvl[k]].frames[pos[k]].id = acts[k].id
    BY <1>l, <1>1, Zenon
  <2>2. CASE lvl[k] < M
    <3>1. lvl[k] \in 1 .. M - 1
      BY <1>1, <2>2
    <3> QED
      BY <1>c, <2>1, <3>1, Zenon DEF CallDepth
  <2>3. CASE ~(lvl[k] < M)
    <3>1. lvl[k] = M /\ pos[k] <= pos[n] /\ pos[k] \in Nat /\ pos[n] \in Nat /\ n > 0
      BY <1>1, <2>3
    <3>2. pos[k] \in 1 .. pos[n]
      <4>1. pos[k] # 0
        BY <2>1
      <4> QED
        BY <3>1, <4>1
    <3>3. /\ pos[n] = Len(stacks'[M].frames)
          /\ stacks'[M].frames[pos[k]] = stacks[M].frames[pos[k]]
      BY <1>r, <3>1, <3>2, Zenon
    <3> QED
      BY <1>c, <2>1, <3>1, <3>2, <3>3, Zenon
  <2> QED
    BY <2>2, <2>3, Zenon
<1>4. ASSUME NEW k \in 2 .. n
      PROVE  Above(acts'[k].via, lvl[k - 1], pos[k - 1], Len(stacks'[lvl[k - 1]].frames),
                   lvl[k], pos[k])
  <2>1. Above(acts[k].via, lvl[k - 1], pos[k - 1], CallDepth(lvl[k - 1]), lvl[k], pos[k])
    BY <1>l, Zenon
  <2>2. acts[k].via = "invoke" => stacks'[lvl[k - 1]] = stacks[lvl[k - 1]]
    <3> SUFFICES ASSUME acts[k].via = "invoke" PROVE lvl[k - 1] \in 1 .. M - 1
      BY <1>c, Zenon
    <3>1. k \in 1 .. n /\ k - 1 \in 1 .. n
      OBVIOUS
    <3>2. lvl[k] \in 1 .. M /\ lvl[k - 1] \in 1 .. M
      BY <1>1, <3>1, Zenon
    <3>3. lvl[k] = lvl[k - 1] + 1
      BY <2>1, Zenon DEF Above
    <3> QED
      BY <3>2, <3>3, SMTT(60)
  <2> QED
    BY <1>c, <2>1, <2>2, Zenon DEF Above, CallDepth
<1>5. Len(acts') = n /\ Len(stacks') = M
  BY <1>c, <1>e, Zenon
<1>6. \A k \in 1 .. n : \A i \in 1 .. k - 1 :
                lvl[i] <= lvl[k] /\ (lvl[i] = lvl[k] => pos[i] < pos[k])
  BY <1>l, Zenon
<1>7. n > 0 => lvl[n] = M /\ pos[n] = Len(stacks'[M].frames)
  BY <1>r, Zenon
<1> QED
  BY <1>c, <1>2, <1>3, <1>4, <1>5, <1>6, <1>7, Zenon DEF Layout, CallDepth

(* A step that enters the function of activation a on the StackManager M.    *)
Pushes(lvl, pos, a, M) ==
    /\ ret = NoRet /\ ret' = NoRet
    /\ acts' = Append(acts, a)
    /\ Len(stacks') = M /\ M \in {Len(stacks), Len(stacks) + 1}
    /\ \A j \in 1 .. M - 1 : stacks'[j] = stacks[j]
    /\ \A j \in 1 .. Len(stacks) : stacks'[j].id = stacks[j].id
    /\ M = Len(stacks) =>
         /\ CallDepth(M) < Len(stacks'[M].frames)
         /\ \A p \in 1 .. CallDepth(M) : stacks'[M].frames[p] = stacks[M].frames[p]
    /\ a.sm = stacks'[M].id
    /\ Len(stacks'[M].frames) \in Nat \ {0}
    /\ stacks'[M].frames[Len(stacks'[M].frames)].id = a.id
    /\ Len(acts) > 0 => Above(a.via, lvl[Len(acts)], pos[Len(acts)], CallDepth(lvl[Len(acts)]),
                              M, Len(stacks'[M].frames))

(* The layout after such a step. *)
LEMMA PushLayout ==
    ASSUME JitInv, StacksInv, NEW lvl, NEW pos, Layout(lvl, pos),
           NEW a, NEW M \in Nat \ {0}, Pushes(lvl, pos, a, M)
    PROVE  \E new, at : Layout(new, at)'
<1>a. JitTypeOK
  BY Zenon DEF JitInv
<1>0. PICK n, L \in Nat : Sizes(n, L)
  BY <1>a, SizesExist, Zenon
<1>e. n = Len(acts) /\ L = Len(stacks)
  BY <1>0, Zenon DEF Sizes
<1>n. \A k \in 1 .. n : lvl[k] \in 1 .. L /\ pos[k] \in Nat
  BY <1>0, <1>a, LayoutNumbers, Zenon
<1>s. \A j \in 1 .. L : CallDepth(j) \in Nat
  BY <1>0, <1>a, LayoutNumbers, Zenon
<1>r. ret = NoRet /\ ret' = NoRet
  BY Zenon DEF Pushes
<1>u. ~Unwinding /\ ~Unwinding'
  BY <1>r, Zenon DEF Unwinding
<1>l. /\ \A k \in 1 .. n : acts[k].sm = stacks[lvl[k]].id
      /\ \A k \in 1 .. n : /\ pos[k] \in 1 .. CallDepth(lvl[k])
                           /\ stacks[lvl[k]].frames[pos[k]].id = acts[k].id
      /\ \A k \in 1 .. n : \A i \in 1 .. k - 1 :
                lvl[i] <= lvl[k] /\ (lvl[i] = lvl[k] => pos[i] < pos[k])
      /\ \A k \in 2 .. n :
                Above(acts[k].via, lvl[k - 1], pos[k - 1], CallDepth(lvl[k - 1]), lvl[k], pos[k])
      /\ n > 0 => lvl[n] = L /\ pos[n] = CallDepth(L)
  BY <1>e, <1>u, <1>r, ZenonT(60) DEF Layout
<1>c. /\ Len(stacks') = M /\ M \in {L, L + 1}
      /\ \A j \in 1 .. M - 1 : stacks'[j] = stacks[j]
      /\ \A j \in 1 .. L : stacks'[j].id = stacks[j].id
  BY <1>e, Zenon DEF Pushes
<1>d. PICK d \in Nat \ {0} : d = Len(stacks'[M].frames)
  BY Zenon DEF Pushes
<1>b. /\ a.sm = stacks'[M].id
      /\ stacks'[M].frames[d].id = a.id
      /\ n > 0 => Above(a.via, lvl[n], pos[n], CallDepth(lvl[n]), M, d)
      /\ M = L => /\ CallDepth(M) < d
                  /\ \A p \in 1 .. CallDepth(M) : stacks'[M].frames[p] = stacks[M].frames[p]
  BY <1>e, <1>d, Zenon DEF Pushes
<1>A. /\ Len(acts') = n + 1 /\ acts'[n + 1] = a
      /\ \A k \in 1 .. n : acts'[k] = acts[k]
  <2>1. acts \in Seq(Elements(acts) \cup {a})
    BY <1>a, MoreElements, Zenon DEF JitTypeOK
  <2>2. acts' = Append(acts, a)
    BY Zenon DEF Pushes
  <2> QED
    BY <1>e, <2>1, <2>2, AppendLaws
<1>p. PICK new, at : /\ new = [k \in 1 .. n + 1 |-> IF k = n + 1 THEN M ELSE lvl[k]]
                     /\ at = [k \in 1 .. n + 1 |-> IF k = n + 1 THEN d ELSE pos[k]]
  BY ZenonT(60)
<1>q. /\ new[n + 1] = M /\ at[n + 1] = d
      /\ \A k \in 1 .. n : new[k] = lvl[k] /\ at[k] = pos[k]
  BY <1>p
<1>i. \A k \in 1 .. n + 1 : k \in 1 .. n \/ k = n + 1
  OBVIOUS
<1>1. ASSUME NEW k \in 1 .. n
      PROVE  /\ lvl[k] \in 1 .. L /\ lvl[k] \in 1 .. M /\ pos[k] \in Nat
             /\ pos[k] \in 1 .. Len(stacks'[lvl[k]].frames)
             /\ stacks'[lvl[k]].frames[pos[k]].id = acts[k].id
             /\ lvl[k] = M => pos[k] < d
  <2>1. /\ lvl[k] \in 1 .. L /\ lvl[k] \in Nat /\ pos[k] \in Nat
        /\ pos[k] \in 1 .. CallDepth(lvl[k]) /\ CallDepth(lvl[k]) \in Nat
        /\ stacks[lvl[k]].frames[pos[k]].id = acts[k].id
    BY <1>n, <1>l, <1>s, SMTT(60)
  <2>2. lvl[k] \in 1 .. M
    BY <1>c, <2>1, SMTT(60)
  <2>3. CASE lvl[k] < M
    <3>1. lvl[k] \in 1 .. M - 1
      BY <2>1, <2>2, <2>3, SMTT(60)
    <3>2. stacks'[lvl[k]] = stacks[lvl[k]]
      BY <1>c, <3>1, Zenon
    <3> QED
      BY <2>1, <2>2, <2>3, <3>2, SMTT(60) DEF CallDepth
  <2>4. CASE ~(lvl[k] < M)
    <3>1. lvl[k] = M /\ M = L
      BY <1>c, <2>1, <2>4, SMTT(60)
    <3>2. /\ CallDepth(M) < d /\ CallDepth(M) \in Nat /\ pos[k] \in 1 .. CallDepth(M)
          /\ stacks'[M].frames[pos[k]] = stacks[M].frames[pos[k]]
      BY <1>b, <2>1, <3>1, ZenonT(60)
    <3>3. pos[k] \in 1 .. d /\ pos[k] < d
      BY <3>2
    <3> QED
      BY <1>d, <2>1, <2>2, <3>1, <3>2, <3>3, ZenonT(60)
  <2> QED
    BY <2>3, <2>4, Zenon
<1>2. ASSUME NEW k \in 1 .. n + 1
      PROVE  new[k] \in 1 .. M /\ at[k] \in Nat /\ acts'[k].sm = stacks'[new[k]].id
  <2>1. CASE k \in 1 .. n
    <3>1. new[k] = lvl[k] /\ at[k] = pos[k] /\ acts'[k] = acts[k]
      BY <1>q, <1>A, <2>1, Zenon
    <3>2. lvl[k] \in 1 .. M /\ pos[k] \in Nat /\ lvl[k] \in 1 .. L
      BY <1>1, <2>1, Zenon
    <3>3. acts[k].sm = stacks[lvl[k]].id
      BY <1>l, <2>1, Zenon
    <3>4. stacks'[lvl[k]].id = stacks[lvl[k]].id
      BY <1>c, <3>2, Zenon
    <3> QED
      BY <3>1, <3>2, <3>3, <3>4, Zenon
  <2>2. CASE k = n + 1
    BY <1>q, <1>A, <1>b, <2>2, SMTT(60)
  <2> QED
    BY <1>i, <2>1, <2>2, Zenon
<1>3. ASSUME NEW k \in 1 .. n + 1
      PROVE  /\ at[k] \in 1 .. Len(stacks'[new[k]].frames)
             /\ stacks'[new[k]].frames[at[k]].id = acts'[k].id
  <2>1. CASE k \in 1 .. n
    BY <1>q, <1>A, <1>1, <2>1, ZenonT(60)
  <2>2. CASE k = n + 1
    <3>1. d \in 1 .. d
      OBVIOUS
    <3> QED
      BY <1>q, <1>A, <1>b, <1>d, <2>2, <3>1, Zenon
  <2> QED
    BY <1>i, <2>1, <2>2, Zenon
<1>4. ASSUME NEW k \in 1 .. n + 1, NEW i \in 1 .. k - 1
      PROVE  new[i] <= new[k] /\ (new[i] = new[k] => at[i] < at[k])
  <2>0. i \in 1 .. n /\ new[i] = lvl[i] /\ at[i] = pos[i]
    BY <1>q, SMTT(60)
  <2>1. CASE k \in 1 .. n
    BY <1>l, <1>q, <2>0, <2>1, ZenonT(60)
  <2>2. CASE k = n + 1
    <3>1. lvl[i] \in 1 .. M /\ (lvl[i] = M => pos[i] < d)
      BY <1>1, <2>0, Zenon
    <3> QED
      BY <1>q, <2>0, <2>2, <3>1, SMTT(60)
  <2> QED
    BY <1>i, <2>1, <2>2, Zenon
<1>5. ASSUME NEW k \in 2 .. n + 1
      PROVE  Above(acts'[k].via, new[k - 1], at[k - 1], Len(stacks'[new[k - 1]].frames),
                   new[k], at[k])
  <2>0. k - 1 \in 1 .. n /\ new[k - 1] = lvl[k - 1] /\ at[k - 1] = pos[k - 1]
    BY <1>q
  <2>1. Above(acts'[k].via, lvl[k - 1], pos[k - 1], CallDepth(lvl[k - 1]), new[k], at[k])
    <3>1. CASE k \in 1 .. n
      <4>1. k \in 2 .. n
        BY <3>1, SMTT(60)
      <4> QED
        BY <1>l, <1>q, <1>A, <3>1, <4>1, Zenon
    <3>2. CASE k = n + 1
      <4>1. n > 0 /\ k - 1 = n
        BY <3>2
      <4> QED
        BY <1>b, <1>q, <1>A, <3>2, <4>1, Zenon
    <3> QED
      BY <1>i, <3>1, <3>2, SMTT(60)
  <2>2. acts'[k].via = "invoke" => stacks'[lvl[k - 1]] = stacks[lvl[k - 1]]
    <3> SUFFICES ASSUME acts'[k].via = "invoke" PROVE lvl[k - 1] \in 1 .. M - 1
      BY <1>c, Zenon
    <3>1. new[k] \in 1 .. M /\ lvl[k - 1] \in 1 .. M
      BY <1>1, <1>2, <2>0, SMTT(60)
    <3>2. new[k] = lvl[k - 1] + 1
      BY <2>1, Zenon DEF Above
    <3> QED
      BY <3>1, <3>2, SMTT(60)
  <2> QED
    BY <2>0, <2>1, <2>2, Zenon DEF Above, CallDepth
<1>6. new[n + 1] = M /\ at[n + 1] = Len(stacks'[M].frames) /\ n + 1 > 0
  BY <1>q, <1>d, SMTT(60)
<1>7. Layout(new, at)'
  BY <1>c, <1>r, <1>A, <1>2, <1>3, <1>4, <1>5, <1>6, ZenonT(60) DEF Layout, CallDepth
<1> QED
  BY <1>7, Zenon

(* Where the trampolines' variables point after such a step, and how old     *)
(* the StackManager is.                                                      *)
PushesOn(a, M) ==
    /\ born \in Nat /\ born' \in Nat /\ born <= born'
    /\ stacks' \in Seq(StackSet)
    /\ stacks'[M].id <= born'
    /\ M > Len(stacks) => stacks'[M].id > born
    /\ a.mod \in Modules \cup {None}
    /\ gJit' = IF a.kind = "jit" THEN [sm |-> a.sm, mod |-> a.mod] ELSE gJit

(* The order of the StackManagers after such a step. *)
LEMMA PushStacks ==
    ASSUME JitInv, StacksInv, NEW lvl, NEW pos, Layout(lvl, pos),
           NEW a, NEW M \in Nat \ {0}, Pushes(lvl, pos, a, M), PushesOn(a, M)
    PROVE  StacksInv'
<1>a. JitTypeOK
  BY Zenon DEF JitInv
<1>0. PICK n, L \in Nat : Sizes(n, L)
  BY <1>a, SizesExist, Zenon
<1>e. n = Len(acts) /\ L = Len(stacks)
  BY <1>0, Zenon DEF Sizes
<1>n. \A k \in 1 .. n : lvl[k] \in 1 .. L
  BY <1>0, <1>a, LayoutNumbers, Zenon
<1>s. \A j \in 1 .. L : stacks[j].id \in Nat
  BY <1>0, <1>a, LayoutNumbers, Zenon
<1>l. \A k \in 1 .. n : acts[k].sm = stacks[lvl[k]].id
  BY <1>e, ZenonT(60) DEF Layout
<1>c. /\ Len(stacks') = M /\ M \in {L, L + 1} /\ a.sm = stacks'[M].id
      /\ \A j \in 1 .. L : stacks'[j].id = stacks[j].id
  BY <1>e, Zenon DEF Pushes
<1>b. PICK b, c \in Nat : b = born /\ c = born' /\ b <= c
  BY Zenon DEF PushesOn
<1>o. /\ \A j \in 1 .. L : stacks[j].id <= b
      /\ \A j \in 1 .. L : \A i \in 1 .. j - 1 : stacks[i].id < stacks[j].id
      /\ gJit.sm # None => gJit.sm <= b
      /\ gJit \in [sm : Nat \cup {None}, mod : Modules \cup {None}]
      /\ \A k \in 1 .. n : acts[k].kind = "jit" => gJit.sm # None /\ acts[k].sm <= gJit.sm
  BY <1>e, <1>b, Zenon DEF StacksInv
<1>i. PICK id \in Nat : id = stacks'[M].id /\ id <= c /\ (M > L => id > b)
  <2>1. stacks' \in Seq(StackSet) /\ M \in 1 .. Len(stacks')
    BY <1>c DEF PushesOn
  <2>2. stacks'[M] \in StackSet
    BY <2>1
  <2>3. stacks'[M].id \in Nat
    BY <2>2, Zenon DEF StackSet
  <2> QED
    BY <1>b, <1>e, <2>3, Zenon DEF PushesOn
<1>A. /\ Len(acts') = n + 1 /\ acts'[n + 1] = a
      /\ \A k \in 1 .. n : acts'[k] = acts[k]
  <2>1. acts \in Seq(Elements(acts) \cup {a})
    BY <1>a, MoreElements, Zenon DEF JitTypeOK
  <2>2. acts' = Append(acts, a)
    BY Zenon DEF Pushes
  <2> QED
    BY <1>e, <2>1, <2>2, AppendLaws
<1>m. \A j \in 1 .. M : j \in 1 .. L \/ (j = M /\ M > L)
  BY <1>c
<1>1. ASSUME NEW j \in 1 .. M PROVE stacks'[j].id \in Nat /\ stacks'[j].id <= c
  <2>1. CASE j \in 1 .. L
    BY <1>b, <1>c, <1>o, <1>s, <2>1
  <2>2. CASE j = M
    BY <1>i, <2>2, Zenon
  <2> QED
    BY <1>m, <2>1, <2>2, Zenon
<1>2. ASSUME NEW j \in 1 .. M, NEW i \in 1 .. j - 1 PROVE stacks'[i].id < stacks'[j].id
  <2>1. i \in 1 .. L
    BY <1>c, SMTT(60)
  <2>2. stacks'[i].id = stacks[i].id /\ stacks[i].id \in Nat /\ stacks[i].id <= b
    BY <1>c, <1>o, <1>s, <2>1, Zenon
  <2>3. CASE j \in 1 .. L
    BY <1>c, <1>o, <2>2, <2>3, Zenon
  <2>4. CASE j = M /\ M > L
    BY <1>i, <2>2, <2>4
  <2> QED
    BY <1>m, <2>3, <2>4, Zenon
<1>3. ASSUME NEW k \in 1 .. n PROVE acts[k].sm \in Nat /\ acts[k].sm <= id
  <2>1. lvl[k] \in 1 .. L /\ lvl[k] \in 1 .. M
    BY <1>c, <1>n
  <2>2. acts[k].sm = stacks'[lvl[k]].id /\ stacks[lvl[k]].id \in Nat
    BY <1>c, <1>l, <1>s, <2>1, Zenon
  <2>3. CASE lvl[k] = M
    BY <1>i, <2>2, <2>3
  <2>4. CASE lvl[k] # M
    <3>1. lvl[k] \in 1 .. M - 1 /\ M \in 1 .. M
      BY <2>1, <2>4
    <3>2. stacks'[lvl[k]].id < id
      BY <1>2, <1>i, <3>1, Zenon
    <3>3. acts[k].sm \in Nat
      BY <1>l, <2>2, Zenon
    <3> QED
      BY <2>2, <3>2, <3>3
  <2> QED
    BY <2>3, <2>4, Zenon
<1>g. /\ a.kind = "jit" => gJit'.sm = id /\ gJit' \in [sm : Nat \cup {None}, mod : Modules \cup {None}]
      /\ a.kind # "jit" => gJit' = gJit
  BY <1>i, <1>c, Zenon DEF PushesOn
<1>4. /\ gJit' \in [sm : Nat \cup {None}, mod : Modules \cup {None}]
      /\ gJit'.sm # None => gJit'.sm <= c
  <2>1. CASE a.kind = "jit"
    BY <1>g, <1>i, <2>1, Zenon
  <2>2. CASE a.kind # "jit"
    <3>1. gJit.sm \in Nat \cup {None}
      BY <1>o, Zenon
    <3> QED
      BY <1>b, <1>g, <1>o, <2>2, <3>1
  <2> QED
    BY <2>1, <2>2, Zenon
<1>5. ASSUME NEW k \in 1 .. n + 1, acts'[k].kind = "jit"
      PROVE  gJit'.sm # None /\ acts'[k].sm <= gJit'.sm
  <2>1. CASE a.kind = "jit"
    <3>1. acts'[k].sm <= id
      <4>1. CASE k \in 1 .. n
        BY <1>A, <1>3, <4>1, Zenon
      <4>2. CASE k = n + 1
        BY <1>A, <1>c, <1>i, <4>2, SMTT(60)
      <4> QED
        BY <4>1, <4>2
    <3> QED
      BY <1>g, <2>1, <3>1, ConstantsOK, Zenon
  <2>2. CASE a.kind # "jit"
    <3>1. k \in 1 .. n
      BY <1>A, <1>5, <2>2, SMTT(60)
    <3> QED
      BY <1>A, <1>g, <1>o, <1>5, <2>2, <3>1, Zenon
  <2> QED
    BY <2>1, <2>2, Zenon
<1> QED
  BY <1>b, <1>c, <1>A, <1>1, <1>2, <1>4, <1>5, ZenonT(60) DEF StacksInv, PushesOn

(* The record that Enter appends. *)
LEMMA EnterRecord ==
    ASSUME NEW kind, NEW m, NEW via, NEW sm, NEW id, Enter(kind, m, via, sm, id)
    PROVE  \E a : /\ acts' = Append(acts, a) /\ UNCHANGED ret /\ born' = id
                  /\ a.kind = kind /\ a.id = id /\ a.mod = m /\ a.via = via /\ a.sm = sm
                  /\ gJit' = IF kind = "jit" THEN [sm |-> sm, mod |-> m] ELSE gJit
<1> DEFINE a == [kind |-> kind, id |-> id, mod |-> m, via |-> via, sm |-> sm,
                 savedEnv |-> envTls, savedCtx |-> context]
<1>1. /\ a.kind = kind /\ a.id = id /\ a.mod = m /\ a.via = via /\ a.sm = sm
  BY Zenon
<1>2. /\ acts' = Append(acts, a) /\ UNCHANGED ret /\ born' = id
      /\ gJit' = IF kind = "jit" THEN [sm |-> sm, mod |-> m] ELSE gJit
  BY Zenon DEF Enter
<1> HIDE DEF a
<1> QED
  BY <1>1, <1>2, ZenonT(60)

(* Where the innermost activation is while code runs. *)
LEMMA RunningOnLast ==
    ASSUME JitInv, StacksInv, NEW lvl, NEW pos, Layout(lvl, pos), Running, acts # <<>>
    PROVE  /\ Len(acts) > 0 /\ OnLast(lvl) /\ Len(stacks) \in Nat \ {0} /\ ~Unwinding
           /\ pos[Len(acts)] = CallDepth(Len(stacks))
           /\ CallDepth(Len(stacks)) \in Nat \ {0}
           /\ Stack.frames \in Seq(FrameSet) /\ Stack \in StackSet
           /\ Stack.id = Top.sm
           /\ Stack.frames[Len(Stack.frames)].id = Top.id
<1>a. JitTypeOK /\ acts \in Seq(Elements(acts))
  BY Zenon DEF JitInv, JitTypeOK
<1>0. PICK n, L \in Nat : Sizes(n, L)
  BY <1>a, SizesExist, Zenon
<1>e. n = Len(acts) /\ L = Len(stacks)
  BY <1>0, Zenon DEF Sizes
<1>1. n > 0
  BY <1>a, <1>e, SMTT(60)
<1>n. \A k \in 1 .. n : lvl[k] \in 1 .. L /\ pos[k] \in Nat
  BY <1>0, <1>a, LayoutNumbers, Zenon
<1>s. \A j \in 1 .. L : /\ stacks[j] \in StackSet /\ stacks[j].frames \in Seq(FrameSet)
                        /\ CallDepth(j) \in Nat
  BY <1>0, <1>a, LayoutNumbers, Zenon
<1>2. ret = NoRet /\ ~Unwinding
  BY Zenon DEF Running, Unwinding
<1>l. /\ \A k \in 1 .. n : /\ acts[k].sm = stacks[lvl[k]].id
                           /\ pos[k] \in 1 .. CallDepth(lvl[k])
                           /\ stacks[lvl[k]].frames[pos[k]].id = acts[k].id
      /\ lvl[n] = L /\ pos[n] = CallDepth(L)
  BY <1>e, <1>1, <1>2, Zenon DEF Layout
<1>3. n \in 1 .. n
  BY <1>1, SMTT(60)
<1>4. L \in 1 .. L /\ pos[n] \in 1 .. CallDepth(L)
  BY <1>n, <1>l, <1>3, Zenon
<1>5. CallDepth(L) \in Nat \ {0} /\ L \in Nat \ {0}
  BY <1>s, <1>4
<1>6. acts[n].sm = stacks[L].id /\ stacks[L].frames[CallDepth(L)].id = acts[n].id
  BY <1>l, <1>3, Zenon
<1> QED
  BY <1>e, <1>1, <1>2, <1>l, <1>s, <1>4, <1>5, <1>6, ZenonT(60) DEF OnLast, Stack, Top, CallDepth

(* A StackManager of its own for runFunction. *)
LEMMA InvokeFrames ==
    ASSUME JitInv, StacksInv, NEW lvl, NEW pos, Layout(lvl, pos),
           NEW m \in Modules, NEW kind, Invoke(kind, m)
    PROVE  StacksInv' /\ \E new, at : Layout(new, at)'
<1>a. JitTypeOK /\ born \in Nat
  BY Zenon DEF JitInv, JitTypeOK
<1>0. PICK n, L \in Nat : Sizes(n, L)
  BY <1>a, SizesExist, Zenon
<1>e. n = Len(acts) /\ L = Len(stacks)
  BY <1>0, Zenon DEF Sizes
<1>1. PICK a : /\ acts' = Append(acts, a) /\ UNCHANGED ret /\ born' = born + 2
               /\ a.kind = kind /\ a.id = born + 2 /\ a.mod = m /\ a.via = "invoke"
               /\ a.sm = born + 1
               /\ gJit' = IF kind = "jit" THEN [sm |-> born + 1, mod |-> m] ELSE gJit
  <2>1. Enter(kind, m, "invoke", born + 1, born + 2)
    BY Zenon DEF Invoke
  <2> QED
    BY <2>1, EnterRecord
<1>2. PICK fr : fr = <<Frame(None, None), Frame(m, born + 2)>>
  BY Zenon
<1>3. fr \in Seq(FrameSet) /\ Len(fr) = 2 /\ fr[2].id = born + 2
  <2>1. Frame(None, None) \in FrameSet
    BY FrameTyped, Zenon
  <2>2. Frame(m, born + 2) \in FrameSet /\ Frame(m, born + 2).id = born + 2
    BY <1>a, FrameTyped
  <2> QED
    BY <1>2, <2>1, <2>2
<1>4. PICK new : new = [id |-> born + 1, frames |-> fr]
  BY ZenonT(60)
<1>5. new \in StackSet /\ new.id = born + 1 /\ new.frames = fr
  BY <1>a, <1>3, <1>4 DEF StackSet
<1>6. /\ stacks' \in Seq(StackSet) /\ Len(stacks') = L + 1 /\ stacks'[L + 1] = new
      /\ \A j \in 1 .. L : stacks'[j] = stacks[j]
  <2>1. stacks' = Append(stacks, new) /\ stacks \in Seq(StackSet)
    BY <1>2, <1>4, ZenonT(60) DEF Invoke, StacksInv
  <2> QED
    BY <1>e, <1>5, <2>1, AppendLaws, SMTT(60)
<1>7. n > 0 => lvl[n] = L /\ pos[n] = CallDepth(L)
  BY <1>e, ZenonT(60) DEF Layout, Invoke, Running
<1>8. Pushes(lvl, pos, a, L + 1)
  <2>1. ret = NoRet /\ ret' = NoRet
    BY <1>1, Zenon DEF Invoke, Running
  <2>2. L + 1 # L /\ L + 1 - 1 = L
    OBVIOUS
  <2>3. n > 0 => Above("invoke", lvl[n], pos[n], CallDepth(lvl[n]), L + 1, 2)
    BY <1>7, Zenon DEF Above
  <2>4. /\ stacks'[L + 1].id = a.sm /\ Len(stacks'[L + 1].frames) = 2
        /\ stacks'[L + 1].frames[2].id = a.id
    BY <1>1, <1>3, <1>5, <1>6, ZenonT(60)
  <2>5. /\ \A j \in 1 .. (L + 1) - 1 : stacks'[j] = stacks[j]
        /\ \A j \in 1 .. L : stacks'[j].id = stacks[j].id
    BY <1>6, <2>2, SMTT(60)
  <2> QED
    BY <1>e, <1>1, <1>6, <2>1, <2>2, <2>3, <2>4, <2>5, SMTT(60) DEF Pushes
<1>9. PushesOn(a, L + 1)
  BY <1>a, <1>1, <1>5, <1>6, SMTT(60) DEF PushesOn
<1> QED
  BY <1>8, <1>9, PushLayout, PushStacks

(* The frames fr are those of the last StackManager and, above them, those   *)
(* that a call via `via` pushes.                                             *)
Extends(fr, via) ==
    /\ Len(fr) \in Nat /\ CallDepth(Len(stacks)) < Len(fr) /\ fr[Len(fr)].id = born + 1
    /\ \A p \in 1 .. CallDepth(Len(stacks)) : fr[p] = Stack.frames[p]
    /\ Above(via, Len(stacks), CallDepth(Len(stacks)), CallDepth(Len(stacks)), Len(stacks), Len(fr))

(* A call on the last StackManager, with or without a dummy frame below.     *)
LEMMA CalleeFrames ==
    ASSUME JitInv, StacksInv, NEW lvl, NEW pos, Layout(lvl, pos), Running, acts # <<>>,
           NEW m \in Modules \cup {None}, NEW kind, NEW via, NEW fr \in Seq(FrameSet),
           SetFrames(Len(stacks), fr), Enter(kind, m, via, Stack.id, born + 1),
           Extends(fr, via)
    PROVE  StacksInv' /\ \E new, at : Layout(new, at)'
<1>a. JitTypeOK /\ born \in Nat
  BY Zenon DEF JitInv, JitTypeOK
<1>0. PICK n, L \in Nat : Sizes(n, L)
  BY <1>a, SizesExist, Zenon
<1>e. n = Len(acts) /\ L = Len(stacks)
  BY <1>0, Zenon DEF Sizes
<1>t. /\ n > 0 /\ lvl[n] = L /\ L \in Nat \ {0} /\ pos[n] = CallDepth(L)
      /\ CallDepth(L) \in Nat \ {0} /\ Stack = stacks[L] /\ stacks[L].id \in Nat
  BY <1>e, RunningOnLast, ZenonT(60) DEF OnLast, Stack, StackSet
<1>x. /\ Len(fr) \in Nat /\ CallDepth(L) < Len(fr) /\ fr[Len(fr)].id = born + 1
      /\ \A p \in 1 .. CallDepth(L) : fr[p] = stacks[L].frames[p]
      /\ Above(via, L, CallDepth(L), CallDepth(L), L, Len(fr))
  BY <1>e, <1>t, ZenonT(60) DEF Extends, CallDepth
<1>1. PICK a : /\ acts' = Append(acts, a) /\ UNCHANGED ret /\ born' = born + 1
               /\ a.kind = kind /\ a.id = born + 1 /\ a.mod = m /\ a.via = via
               /\ a.sm = stacks[L].id
               /\ gJit' = IF kind = "jit" THEN [sm |-> stacks[L].id, mod |-> m] ELSE gJit
  BY <1>t, EnterRecord, SMTT(60)
<1>2. /\ stacks' \in Seq(StackSet) /\ Len(stacks') = L
      /\ \A j \in 1 .. L - 1 : stacks'[j] = stacks[j]
      /\ \A j \in 1 .. L : stacks'[j].id = stacks[j].id
      /\ stacks'[L].frames = fr
  <2>1. stacks \in Seq(StackSet) /\ Len(stacks) > 0
    BY <1>e, <1>t, SMTT(60) DEF StacksInv
  <2> QED
    BY <1>e, <2>1, SetFramesLaws, Zenon
<1>3. Len(fr) \in Nat \ {0} /\ L \in 1 .. L
  BY <1>x, <1>t, SMTT(60)
<1>4. stacks'[L].id = stacks[L].id /\ stacks[L].id <= born
  BY <1>2, <1>3, <1>e, ZenonT(60) DEF StacksInv
<1>8. Pushes(lvl, pos, a, L)
  <2>1. ret = NoRet /\ ret' = NoRet
    BY <1>1, ZenonT(60) DEF Running
  <2> QED
    BY <1>e, <1>t, <1>x, <1>1, <1>2, <1>3, <1>4, <2>1, ZenonT(60) DEF Pushes
<1>9. PushesOn(a, L)
  <2>1. ~(L > Len(stacks))
    BY <1>e, SMTT(60)
  <2>2. born + 1 \in Nat /\ born <= born + 1 /\ stacks'[L].id <= born + 1
    BY <1>a, <1>t, <1>4, SMTT(60)
  <2> QED
    BY <1>a, <1>1, <1>2, <2>1, <2>2, ZenonT(60) DEF PushesOn
<1> QED
  BY <1>t, <1>8, <1>9, PushLayout, PushStacks, ZenonT(60)

(* One frame pushed, or a dummy frame and one. *)
LEMMA ExtendsOne ==
    ASSUME NEW L \in Nat, L = Len(stacks), Stack.frames \in Seq(FrameSet),
           NEW f \in FrameSet, f.id = born + 1, NEW via, via = "interp"
    PROVE  /\ Append(Stack.frames, f) \in Seq(FrameSet)
           /\ Extends(Append(Stack.frames, f), via)
<1>1. PICK fr \in Seq(FrameSet) : fr = Stack.frames
  BY Zenon
<1>2. CallDepth(L) = Len(fr) /\ Len(fr) \in Nat
  BY <1>1 DEF Stack, CallDepth
<1>3. /\ Append(fr, f) \in Seq(FrameSet) /\ Len(Append(fr, f)) = Len(fr) + 1
      /\ Append(fr, f)[Len(fr) + 1] = f
      /\ \A p \in 1 .. Len(fr) : Append(fr, f)[p] = fr[p]
  BY AppendLaws
<1>4. Above(via, L, Len(fr), Len(fr), L, Len(fr) + 1)
  BY Zenon DEF Above
<1> QED
  BY <1>1, <1>2, <1>3, <1>4 DEF Extends

(* A dummy frame of the trampolines and one pushed above it.              *)
LEMMA ExtendsTwo ==
    ASSUME NEW L \in Nat, L = Len(stacks), Stack.frames \in Seq(FrameSet),
           NEW e \in FrameSet, NEW f \in FrameSet, f.id = born + 1,
           NEW via \in {"call", "indirect"}
    PROVE  /\ Append(Append(Stack.frames, e), f) \in Seq(FrameSet)
           /\ Extends(Append(Append(Stack.frames, e), f), via)
<1>1. PICK fr \in Seq(FrameSet) : fr = Stack.frames
  BY Zenon
<1>2. CallDepth(L) = Len(fr) /\ Len(fr) \in Nat
  BY <1>1 DEF Stack, CallDepth
<1>3. PICK g \in Seq(FrameSet) : g = Append(fr, e)
  BY AppendLaws, Zenon
<1>4. Len(g) = Len(fr) + 1 /\ \A p \in 1 .. Len(fr) : g[p] = fr[p]
  BY <1>3, AppendLaws
<1>5. /\ Append(g, f) \in Seq(FrameSet) /\ Len(Append(g, f)) = Len(fr) + 2
      /\ Append(g, f)[Len(fr) + 2] = f
      /\ \A p \in 1 .. Len(fr) : Append(g, f)[p] = fr[p]
  <2>1. /\ Append(g, f) \in Seq(FrameSet) /\ Len(Append(g, f)) = Len(g) + 1
        /\ Append(g, f)[Len(g) + 1] = f
        /\ \A p \in 1 .. Len(g) : Append(g, f)[p] = g[p]
    BY AppendLaws
  <2>2. Len(g) + 1 = Len(fr) + 2 /\ \A p \in 1 .. Len(fr) : p \in 1 .. Len(g)
    BY <1>2, <1>4
  <2> QED
    BY <1>4, <2>1, <2>2, Zenon
<1>6. Above(via, L, Len(fr), Len(fr), L, Len(fr) + 2)
  BY Zenon DEF Above
<1>7. Len(fr) < Len(fr) + 2 /\ Len(fr) + 2 \in Nat
  BY <1>2
<1> QED
  BY <1>1, <1>2, <1>3, <1>5, <1>6, <1>7, Zenon DEF Extends

(* The trampolines' StackManager, if it is alive, is the last one. *)
LEMMA TrampolineStack ==
    ASSUME JitInv, StacksInv, NEW lvl, NEW pos, Layout(lvl, pos), InCode("jit"),
           NEW i \in DOMAIN stacks, stacks[i].id = gJit.sm
    PROVE  i = Len(stacks) /\ gJit.sm = Stack.id
<1>a. JitTypeOK /\ Running /\ acts # <<>> /\ Top.kind = "jit"
  BY Zenon DEF JitInv, InCode
<1>0. PICK n, L \in Nat : Sizes(n, L)
  BY <1>a, SizesExist, ZenonT(60)
<1>e. n = Len(acts) /\ L = Len(stacks)
  BY <1>0, Zenon DEF Sizes
<1>1. n > 0 /\ L \in Nat \ {0} /\ Stack.id = Top.sm
  BY <1>e, <1>a, RunningOnLast, Zenon
<1>2. Top.sm <= gJit.sm
  <2>1. n \in 1 .. n
    BY <1>1
  <2> QED
    BY <1>e, <1>a, <2>1, SMTT(60) DEF StacksInv, Top
<1>3. \A j \in 1 .. L : stacks[j].id \in Nat
  BY <1>0, <1>a, LayoutNumbers, Zenon
<1>4. i \in 1 .. L /\ L \in 1 .. L
  BY <1>e, <1>1 DEF StacksInv
<1>5. stacks[L].id \in Nat /\ stacks[i].id \in Nat /\ stacks[L].id <= stacks[i].id
  BY <1>e, <1>1, <1>2, <1>3, <1>4, Zenon DEF Stack
<1>6. ASSUME i # L PROVE FALSE
  <2>1. i \in 1 .. L - 1
    BY <1>4, <1>6
  <2>2. stacks[i].id < stacks[L].id
    BY <1>e, <1>4, <2>1 DEF StacksInv
  <2> QED
    BY <1>5, <2>2
<1> QED
  BY <1>e, <1>6, Zenon DEF Stack

(* The frames of a call by the trampolines. *)
LEMMA CallFrames ==
    ASSUME JitInv, StacksInv, NEW lvl, NEW pos, Layout(lvl, pos), ~crashed',
           NEW m \in Modules, NEW kind, NEW via \in {"call", "indirect"},
           NEW caller \in Modules \cup {None}, CallFunction(kind, m, via, caller)
    PROVE  StacksInv' /\ \E new, at : Layout(new, at)'
<1>1. InCode("jit") /\ Running /\ acts # <<>>
  BY Zenon DEF CallFunction, InCode
<1>2. PICK i \in DOMAIN stacks :
        /\ stacks[i].id = gJit.sm
        /\ SetFrames(i, Append(Append(stacks[i].frames, Frame(caller, None)),
                               Frame(Callee(kind, m), born + 1)))
        /\ Enter(kind, Callee(kind, m), via, gJit.sm, born + 1)
  BY Zenon DEF CallFunction, Crash
<1>3. i = Len(stacks) /\ gJit.sm = Stack.id
  BY <1>1, <1>2, TrampolineStack, Zenon
<1>4. Stack.frames \in Seq(FrameSet) /\ Len(stacks) \in Nat
  BY <1>1, RunningOnLast, Zenon
<1>5. PICK g : g = Append(Append(Stack.frames, Frame(caller, None)),
                          Frame(Callee(kind, m), born + 1))
  BY Zenon
<1>6. Callee(kind, m) \in Modules \cup {None} /\ born + 1 \in Nat
  BY DEF Callee, JitInv, JitTypeOK
<1>7. /\ Frame(caller, None) \in FrameSet
      /\ Frame(Callee(kind, m), born + 1) \in FrameSet
      /\ Frame(Callee(kind, m), born + 1).id = born + 1
  BY <1>6, FrameTyped, ZenonT(60)
<1>8. g \in Seq(FrameSet) /\ Extends(g, via)
  BY <1>4, <1>5, <1>7, ExtendsTwo
<1>9. SetFrames(Len(stacks), g) /\ Enter(kind, Callee(kind, m), via, Stack.id, born + 1)
  BY <1>2, <1>3, <1>5, ZenonT(60) DEF Stack
<1> QED
  BY <1>1, <1>6, <1>8, <1>9, CalleeFrames

(* The frame of a call by the interpreter. *)
LEMMA InterpCallFrames ==
    ASSUME JitInv, StacksInv, NEW lvl, NEW pos, Layout(lvl, pos),
           NEW m \in Modules, NEW kind, InterpCall(kind, m)
    PROVE  StacksInv' /\ \E new, at : Layout(new, at)'
<1>1. Running /\ acts # <<>>
  BY Zenon DEF InterpCall, InCode
<1>4. Stack.frames \in Seq(FrameSet) /\ Len(stacks) \in Nat
  BY <1>1, RunningOnLast, Zenon
<1>5. PICK g : g = Append(Stack.frames, Frame(Callee(kind, m), born + 1))
  BY Zenon
<1>6. Callee(kind, m) \in Modules \cup {None} /\ born + 1 \in Nat
  BY DEF Callee, JitInv, JitTypeOK
<1>7. /\ Frame(Callee(kind, m), born + 1) \in FrameSet
      /\ Frame(Callee(kind, m), born + 1).id = born + 1
  BY <1>6, FrameTyped, Zenon
<1>8. g \in Seq(FrameSet) /\ Extends(g, "interp")
  BY <1>4, <1>5, <1>7, ExtendsOne, Zenon
<1>9. SetFrames(Len(stacks), g) /\ Enter(kind, Callee(kind, m), "interp", Stack.id, born + 1)
  BY <1>5, Zenon DEF InterpCall
<1> QED
  BY <1>1, <1>6, <1>8, <1>9, CalleeFrames

(* The StackManagers after a step that leaves them, or writes the frames of  *)
(* the last one.                                                             *)
LEMMA UnchangedStacks ==
    ASSUME StacksInv, UNCHANGED stacks
    PROVE  LastChanges
  BY Zenon DEF StacksInv, LastChanges

(* The same after SetFrames.                                              *)
LEMMA WrittenStacks ==
    ASSUME StacksInv, Len(stacks) > 0, NEW fr \in Seq(FrameSet), SetFrames(Len(stacks), fr)
    PROVE  LastChanges /\ stacks'[Len(stacks)].frames = fr
<1>1. stacks \in Seq(StackSet)
  BY Zenon DEF StacksInv
<1> QED
  BY <1>1, SetFramesLaws, Zenon DEF LastChanges

(* Popping frames leaves frames. *)
LEMMA PopTyped ==
    ASSUME NEW fr \in Seq(FrameSet), NEW n \in Nat, n <= Len(fr)
    PROVE  PopFrames(fr, n) \in Seq(FrameSet)
<1>1. Len(fr) - n \in 0 .. Len(fr)
  OBVIOUS
<1> QED
  BY <1>1, CutLaws, Zenon DEF PopFrames

(* The order of the StackManagers when the innermost activation is left. *)
LEMMA LeaveStacks ==
    ASSUME JitInv, StacksInv, acts # <<>>, NEW err, LeavesTop(err), LastChanges,
           UNCHANGED <<gJit, born>>
    PROVE  StacksInv'
<1>1. JitTypeOK /\ acts \in Seq(Elements(acts))
  BY Zenon DEF JitInv, JitTypeOK
<1>2. Len(acts) \in Nat /\ Len(acts) - 1 \in 0 .. Len(acts)
  BY <1>1
<1>3. acts' = SubSeq(acts, 1, Len(acts) - 1)
  BY Zenon DEF LeavesTop, Front
<1>4. /\ Len(acts') = Len(acts) - 1
      /\ \A k \in 1 .. Len(acts) - 1 : acts'[k] = acts[k]
  BY <1>1, <1>2, <1>3, CutLaws, ZenonT(60)
<1>5. Len(acts') <= Len(acts) /\ Len(acts') \in Nat
  BY <1>2, <1>4
<1>6. \A k \in 1 .. Len(acts') : acts'[k] = acts[k]
  BY <1>4, Zenon
<1>7. /\ stacks' \in Seq(StackSet) /\ Len(stacks') <= Len(stacks)
      /\ \A j \in 1 .. Len(stacks') : stacks'[j].id = stacks[j].id
  BY DEF LastChanges, StacksInv
<1> QED
  BY <1>1, <1>5, <1>6, <1>7, StacksKept, Zenon

(* A function that returns its values, or an error. *)
LEMMA ReturnFrames ==
    ASSUME JitInv, StacksInv, NEW lvl, NEW pos, Layout(lvl, pos), NEW err, Return(err)
    PROVE  StacksInv' /\ \E new, at : Layout(new, at)'
<1>1. /\ Running /\ acts # <<>> /\ LeavesTop(err) /\ UNCHANGED <<gJit, born>>
      /\ IF err = "ok" THEN SetFrames(Len(stacks), PopFrames(Stack.frames, 1)) ELSE UNCHANGED stacks
  BY Zenon DEF Return, LeavesTop
<1>2. /\ OnLast(lvl) /\ Len(stacks) \in Nat \ {0} /\ ~Unwinding
      /\ pos[Len(acts)] = CallDepth(Len(stacks))
      /\ CallDepth(Len(stacks)) \in Nat \ {0}
      /\ Stack.frames \in Seq(FrameSet)
  BY <1>1, RunningOnLast, ZenonT(60)
<1>3. CASE err = "ok"
  <2>1. PopFrames(Stack.frames, 1) \in Seq(FrameSet)
    <3>1. 1 \in Nat /\ 1 <= Len(Stack.frames)
      BY <1>2 DEF CallDepth, Stack
    <3> QED
      BY <1>2, <3>1, PopTyped, Zenon
  <2>2. LastChanges /\ stacks'[Len(stacks)].frames = PopFrames(Stack.frames, 1)
    <3>1. Len(stacks) > 0
      BY <1>2
    <3> QED
      BY <1>1, <1>3, <2>1, <3>1, WrittenStacks, Zenon
  <2>3. PopsOwn(pos)
    BY <1>2, <2>2, Zenon DEF PopsOwn
  <2> QED
    BY <1>1, <1>2, <2>2, <2>3, PopLayout, LeaveStacks, Zenon
<1>4. CASE err # "ok"
  <2>1. LastChanges
    BY <1>1, <1>4, UnchangedStacks, Zenon
  <2> QED
    BY <1>1, <1>2, <1>4, <2>1, PopLayout, LeaveStacks, Zenon
<1> QED
  BY <1>3, <1>4, Zenon

(* A jump by the trampolines, or a trap, leaves the innermost activation:    *)
(* the jump buffer is that of an IR JIT activation, and no older than the    *)
(* innermost one.                                                            *)
LEMMA JumpTarget ==
    ASSUME JitInv, NEW err, LongJump(err), ~crashed', acts # <<>>, Top.kind = "jit"
    PROVE  LeavesTop(err)
<1>1. acts \in Seq(Elements(acts)) /\ JumpInv(acts, born, termBuf)
  BY Zenon DEF JitInv, JitTypeOK
<1>2. PICK n \in Nat : n = Len(acts)
  BY <1>1
<1>3. n \in 1 .. n /\ DOMAIN acts = 1 .. n
  BY <1>1, <1>2
<1>4. PICK i \in 1 .. n : /\ acts[i].id = termBuf
                          /\ acts' = SubSeq(acts, 1, i - 1)
                          /\ ret' = [err |-> err, via |-> acts[i].via, id |-> acts[i].id]
  <2>1. {j \in DOMAIN acts : acts[j].id = termBuf} # {}
    BY Zenon DEF LongJump
  <2> QED
    BY <1>3, <2>1, Zenon DEF LongJump
<1>5. i = n
  <2> SUFFICES ASSUME i # n PROVE FALSE
    BY Zenon
  <2>1. i \in 1 .. n - 1
    OBVIOUS
  <2>2. acts[i].id < acts[n].id
    BY <1>1, <1>2, <1>3, <2>1, Zenon DEF JumpInv
  <2>3. acts[n].id <= termBuf
    BY <1>1, <1>2, <1>3, Zenon DEF JumpInv, Top
  <2>4. acts[i].id \in Nat /\ acts[n].id \in Nat
    BY <1>1, <1>2, <1>3, Zenon DEF JumpInv
  <2> QED
    BY <1>4, <2>2, <2>3, <2>4
<1> QED
  BY <1>2, <1>4, <1>5, Zenon DEF LeavesTop, Front, Top

(* Where the innermost activation is when its trampoline gets the result of  *)
(* a call, or the interpreter does.                                          *)
LEMMA ReturningOnLast ==
    ASSUME JitInv, StacksInv, NEW lvl, NEW pos, Layout(lvl, pos),
           Returning({"call", "indirect", "interp"})
    PROVE  /\ Len(acts) > 0 /\ acts # <<>> /\ OnLast(lvl) /\ Len(stacks) \in Nat \ {0}
           /\ Stack.frames \in Seq(FrameSet)
           /\ pos[Len(acts)] \in Nat
           /\ ~Unwinding => /\ pos[Len(acts)] \in 1 .. CallDepth(Len(stacks))
                            /\ ret.via = "interp" => CallDepth(Len(stacks)) = pos[Len(acts)]
                            /\ ret.via # "interp" => CallDepth(Len(stacks)) = pos[Len(acts)] + 1
<1>a. JitTypeOK /\ acts \in Seq(Elements(acts))
  BY Zenon DEF JitInv, JitTypeOK
<1>0. PICK n, L \in Nat : Sizes(n, L)
  BY <1>a, SizesExist, Zenon
<1>e. n = Len(acts) /\ L = Len(stacks)
  BY <1>0, Zenon DEF Sizes
<1>1. ret # NoRet /\ ret.via \in {"call", "indirect", "interp"}
  BY Zenon DEF Returning
<1>2. n > 0
  BY <1>1, <1>e, Zenon DEF JitInv, ReturnInv, CalledBy
<1>n. \A k \in 1 .. n : lvl[k] \in 1 .. L /\ pos[k] \in Nat
  BY <1>0, <1>a, LayoutNumbers, Zenon
<1>s. \A j \in 1 .. L : stacks[j].frames \in Seq(FrameSet) /\ CallDepth(j) \in Nat
  BY <1>0, <1>a, LayoutNumbers, Zenon
<1>3. PICK p \in Nat : /\ Above(ret.via, lvl[n], pos[n], CallDepth(lvl[n]), L, p)
                       /\ ~Unwinding => p = CallDepth(L) + 1
  BY <1>e, <1>1, <1>2, Zenon DEF Layout
<1>4. n \in 1 .. n
  BY <1>2
<1>5. lvl[n] = L
  BY <1>1, <1>3, Zenon DEF Above
<1>6. L \in 1 .. L /\ pos[n] \in Nat /\ CallDepth(L) \in Nat /\ stacks[L].frames \in Seq(FrameSet)
  BY <1>n, <1>s, <1>4, <1>5, Zenon
<1>7. ASSUME ~Unwinding
      PROVE  /\ pos[n] \in 1 .. CallDepth(L)
             /\ ret.via = "interp" => CallDepth(L) = pos[n]
             /\ ret.via # "interp" => CallDepth(L) = pos[n] + 1
  <2>1. pos[n] \in 1 .. CallDepth(L)
    BY <1>e, <1>4, <1>5, <1>7, ZenonT(60) DEF Layout
  <2>2. /\ ret.via = "interp" => p = pos[n] + 1
        /\ ret.via # "interp" => p = pos[n] + 2
    BY <1>1, <1>3, Zenon DEF Above
  <2> QED
    BY <1>3, <1>6, <1>7, <2>1, <2>2, SMTT(60)
<1>8. acts # <<>> /\ L \in Nat \ {0}
  BY <1>a, <1>e, <1>2, <1>6
<1> QED
  BY <1>e, <1>2, <1>5, <1>6, <1>7, <1>8, Zenon DEF OnLast, Stack

(* The order of the StackManagers when the innermost activation goes on. *)
LEMMA ResumeStacks ==
    ASSUME JitInv, StacksInv, stacks' \in Seq(StackSet), NEW lvl, NEW pos,
           NEW M \in Nat, Resumes(lvl, pos, M), UNCHANGED <<gJit, born>>
    PROVE  StacksInv'
<1>1. JitTypeOK /\ Len(acts) \in Nat
  BY DEF JitInv, JitTypeOK
<1>2. /\ acts' = acts /\ Len(stacks') = M /\ M <= Len(stacks)
      /\ \A j \in 1 .. M : stacks'[j].id = stacks[j].id
  BY Zenon DEF Resumes
<1> QED
  BY <1>1, <1>2, StacksKept

(* The frames when an error is handed on, by a jump or by the interpreter. *)
LEMMA ErrorFrames ==
    ASSUME JitInv, StacksInv, NEW lvl, NEW pos, Layout(lvl, pos), OnLast(lvl),
           acts # <<>>, NEW err, err # "ok", LeavesTop(err), LastChanges,
           UNCHANGED <<gJit, born>>
    PROVE  StacksInv' /\ \E new, at : Layout(new, at)'
  BY PopLayout, LeaveStacks, Zenon

(* A trap in IR JIT code. *)
LEMMA TrapFrames ==
    ASSUME JitInv, StacksInv, NEW lvl, NEW pos, Layout(lvl, pos), ~crashed',
           NEW err \in Traps, JitTrap(err)
    PROVE  StacksInv' /\ \E new, at : Layout(new, at)'
<1>1. /\ Running /\ acts # <<>> /\ Top.kind = "jit" /\ LongJump(err)
      /\ UNCHANGED <<stacks, gJit, born>>
  BY Zenon DEF JitTrap, InCode
<1>2. err # "ok"
  BY ConstantsOK, Zenon
<1>3. LeavesTop(err) /\ LastChanges /\ OnLast(lvl)
  BY <1>1, JumpTarget, UnchangedStacks, RunningOnLast, Zenon
<1> QED
  BY <1>1, <1>2, <1>3, ErrorFrames, Zenon

(* The trampolines that jump. *)
LEMMA TrampolineJumpFrames ==
    ASSUME JitInv, StacksInv, NEW lvl, NEW pos, Layout(lvl, pos), ~crashed',
           CallTerminated \/ CallIndirectFails
    PROVE  StacksInv' /\ \E new, at : Layout(new, at)'
<1>1. /\ Returning({"call", "indirect"}) /\ LongJump("Terminated") /\ UNCHANGED <<gJit, born>>
  BY Zenon DEF CallTerminated, CallIndirectFails, Returning
<1>2. Returning({"call", "indirect", "interp"})
  BY <1>1, Zenon DEF Returning
<1>3. /\ acts # <<>> /\ OnLast(lvl) /\ Len(stacks) \in Nat \ {0}
      /\ Stack.frames \in Seq(FrameSet)
  BY <1>2, ReturningOnLast, Zenon
<1>4. Top.kind = "jit"
  <2>1. CalledBy(ret.via, acts, Len(acts)) /\ ret.via \in {"call", "indirect"}
    BY <1>1, Zenon DEF Returning, JitInv, ReturnInv
  <2> QED
    BY <2>1, Zenon DEF CalledBy, Top
<1>5. LeavesTop("Terminated")
  BY <1>1, <1>3, <1>4, JumpTarget, Zenon
<1>6. LastChanges
  <2>1. CASE CallIndirectFails
    BY <2>1, UnchangedStacks, Zenon DEF CallIndirectFails
  <2>2. CASE CallTerminated
    <3>1. PICK fr : fr = IF Len(Stack.frames) >= 2 THEN PopFrames(Stack.frames, 2) ELSE <<>>
      BY Zenon
    <3>2. SetFrames(Len(stacks), fr)
      BY <2>2, <3>1, Zenon DEF CallTerminated
    <3>3. fr \in Seq(FrameSet)
      <4>1. CASE Len(Stack.frames) >= 2
        <5>1. 2 \in Nat /\ 2 <= Len(Stack.frames)
          BY <1>3, <4>1, Zenon
        <5> QED
          BY <1>3, <3>1, <4>1, <5>1, PopTyped, Zenon
      <4>2. CASE ~(Len(Stack.frames) >= 2)
        BY <3>1, <4>2
      <4> QED
        BY <4>1, <4>2, Zenon
    <3>4. Len(stacks) > 0
      BY <1>3
    <3> QED
      BY <3>2, <3>3, <3>4, WrittenStacks, Zenon
  <2> QED
    BY <2>1, <2>2, Zenon
<1> QED
  BY <1>1, <1>3, <1>5, <1>6, ErrorFrames, Zenon

(* The trampoline pops its dummy frame. *)
LEMMA CallReturnsFrames ==
    ASSUME JitInv, StacksInv, NEW lvl, NEW pos, Layout(lvl, pos), CallReturns
    PROVE  StacksInv' /\ \E new, at : Layout(new, at)'
<1>1. /\ Returning({"call", "indirect", "interp"}) /\ ret.via \in {"call", "indirect"}
      /\ ret' = NoRet /\ UNCHANGED <<acts, gJit, born>> /\ ret.err = "ok"
      /\ SetFrames(Len(stacks), PopFrames(Stack.frames, 1))
  BY Zenon DEF CallReturns, Returning
<1>2. ~Unwinding
  BY <1>1, Zenon DEF Unwinding
<1>3. PICK L \in Nat \ {0} : L = Len(stacks)
  BY <1>1, ReturningOnLast, Zenon
<1>4. PICK fr \in Seq(FrameSet) : fr = Stack.frames
  BY <1>1, ReturningOnLast, Zenon
<1>5. PICK q \in Nat \ {0} : q = pos[Len(acts)] /\ Len(fr) = q + 1 /\ lvl[Len(acts)] = L
  <2>1. /\ pos[Len(acts)] \in 1 .. CallDepth(L) /\ CallDepth(L) = pos[Len(acts)] + 1
        /\ pos[Len(acts)] \in Nat /\ lvl[Len(acts)] = L
    BY <1>1, <1>2, <1>3, ReturningOnLast, Zenon DEF OnLast
  <2>2. CallDepth(L) = Len(fr)
    BY <1>3, <1>4, Zenon DEF CallDepth, Stack
  <2>3. pos[Len(acts)] \in Nat \ {0}
    BY <2>1
  <2> QED
    BY <2>1, <2>2, <2>3, Zenon
<1>6. PICK g : g = PopFrames(fr, 1)
  BY Zenon
<1>7. g \in Seq(FrameSet) /\ Len(g) = q /\ \A p \in 1 .. q : g[p] = fr[p]
  <2>1. q \in 0 .. Len(fr) /\ g = SubSeq(fr, 1, q)
    BY <1>5, <1>6 DEF PopFrames
  <2> QED
    BY <2>1, CutLaws
<1>8. LastChanges /\ stacks'[L].frames = g
  <2>1. Len(stacks) > 0 /\ SetFrames(Len(stacks), g)
    BY <1>1, <1>3, <1>4, <1>6, SMTT(60)
  <2> QED
    BY <1>3, <1>7, <2>1, WrittenStacks, Zenon
<1>9. Resumes(lvl, pos, L)
  BY <1>1, <1>2, <1>3, <1>4, <1>5, <1>7, <1>8, SMTT(60) DEF Resumes, LastChanges, Stack
<1>10. stacks' \in Seq(StackSet)
  BY <1>8, Zenon DEF LastChanges
<1> QED
  BY <1>1, <1>9, <1>10, ResumeLayout, ResumeStacks, Zenon

(* The interpreter goes on, or hands the error on. *)
LEMMA InterpReturnsFrames ==
    ASSUME JitInv, StacksInv, NEW lvl, NEW pos, Layout(lvl, pos), InterpCallReturns
    PROVE  StacksInv' /\ \E new, at : Layout(new, at)'
<1>1. /\ Returning({"call", "indirect", "interp"}) /\ ret.via = "interp"
      /\ UNCHANGED <<stacks, gJit, born>>
  BY Zenon DEF InterpCallReturns, Returning
<1>2. /\ acts # <<>> /\ OnLast(lvl) /\ Len(stacks) \in Nat \ {0}
  BY <1>1, ReturningOnLast, Zenon
<1>3. CASE ret.err = "ok"
  <2>1. ret' = NoRet /\ acts' = acts
    BY <1>3, Zenon DEF InterpCallReturns
  <2>2. ~Unwinding
    BY <1>3, Zenon DEF Unwinding
  <2>3. CallDepth(Len(stacks)) = pos[Len(acts)]
    BY <1>1, <2>2, ReturningOnLast, Zenon
  <2>4. Resumes(lvl, pos, Len(stacks))
    <3>1. Len(stacks) <= Len(stacks)
      BY <1>2, SMTT(60)
    <3> QED
      BY <1>1, <1>2, <2>1, <2>2, <2>3, <3>1, Zenon DEF Resumes, CallDepth, OnLast
  <2>5. stacks' \in Seq(StackSet)
    BY <1>1, Zenon DEF StacksInv
  <2> QED
    BY <1>1, <1>2, <2>4, <2>5, ResumeLayout, ResumeStacks, Zenon
<1>4. CASE ret.err # "ok"
  <2>1. LeavesTop(ret.err)
    BY <1>4, Zenon DEF InterpCallReturns, LeavesTop
  <2>2. PICK err : err = ret.err
    BY Zenon
  <2>3. LastChanges
    BY <1>1, UnchangedStacks, Zenon
  <2> QED
    BY <1>1, <1>2, <1>4, <2>1, <2>2, <2>3, ErrorFrames, Zenon
<1> QED
  BY <1>3, <1>4, Zenon

(* The StackManager of runFunction goes out of scope. *)
LEMMA InvokeReturnsFrames ==
    ASSUME JitInv, StacksInv, NEW lvl, NEW pos, Layout(lvl, pos), InvokeReturns
    PROVE  StacksInv' /\ \E new, at : Layout(new, at)'
<1>1. /\ ret # NoRet /\ ret.via = "invoke" /\ ret' = NoRet /\ stacks' = Front(stacks)
      /\ UNCHANGED <<acts, gJit, born>>
  BY Zenon DEF InvokeReturns, Returning
<1>a. JitTypeOK
  BY Zenon DEF JitInv
<1>0. PICK n, L \in Nat : Sizes(n, L)
  BY <1>a, SizesExist, Zenon
<1>e. n = Len(acts) /\ L = Len(stacks)
  BY <1>0, Zenon DEF Sizes
<1>2. L > 0
  BY <1>e, <1>1, ZenonT(60) DEF Layout
<1>3. PICK M \in Nat : M = L - 1
  BY <1>2
<1>4. /\ stacks' \in Seq(StackSet) /\ Len(stacks') = M
      /\ \A j \in 1 .. M : stacks'[j] = stacks[j]
  <2>1. stacks \in Seq(StackSet) /\ M \in 0 .. Len(stacks)
    BY <1>e, <1>2, <1>3 DEF StacksInv
  <2>2. stacks' = SubSeq(stacks, 1, M)
    BY <1>1, <1>e, <1>3, Zenon DEF Front
  <2> QED
    BY <2>1, <2>2, CutLaws, Zenon
<1>5. ASSUME n > 0 PROVE lvl[n] = M /\ M \in 1 .. M /\ pos[n] = Len(stacks[M].frames)
  <2>1. PICK p \in Nat : Above(ret.via, lvl[n], pos[n], CallDepth(lvl[n]), L, p)
    BY <1>e, <1>1, <1>5, ZenonT(60) DEF Layout
  <2>2. L = lvl[n] + 1 /\ pos[n] = CallDepth(lvl[n])
    BY <1>1, <2>1, Zenon DEF Above
  <2>3. lvl[n] \in 1 .. L
    <3>1. n \in 1 .. n
      BY <1>5
    <3> QED
      BY <1>0, <1>a, <3>1, LayoutNumbers, Zenon
  <2> QED
    BY <1>3, <2>2, <2>3, SMTT(60) DEF CallDepth
<1>6. Resumes(lvl, pos, M)
  <2>1. M <= L /\ M < L /\ \A j \in 1 .. M - 1 : j \in 1 .. M
    BY <1>2, <1>3, SMTT(60)
  <2> QED
    BY <1>1, <1>e, <1>4, <1>5, <2>1, Zenon DEF Resumes
<1> QED
  BY <1>1, <1>4, <1>6, ResumeLayout, ResumeStacks, Zenon

(* A process that is gone takes no step, and what has been swallowed stays.  *)
LEMMA NextGoesOn ==
    Next => ~crashed /\ (swallowed => swallowed')
<1> SUFFICES ASSUME Next PROVE ~crashed /\ (swallowed => swallowed')
  BY Zenon
<1>1. ASSUME NEW kind, NEW m, NEW via, NEW caller, CallFunction(kind, m, via, caller)
      PROVE  ~crashed /\ (swallowed => swallowed')
  BY <1>1, Zenon DEF CallFunction, InCode, Running, Crash, Enter
<1>2. ASSUME NEW kind, NEW m, Invoke(kind, m) \/ InterpCall(kind, m)
      PROVE  ~crashed /\ (swallowed => swallowed')
  BY <1>2, SMTT(60) DEF Invoke, InterpCall, InCode, Running, Enter
<1>3. ASSUME NEW err, Return(err) \/ JitTrap(err)
      PROVE  ~crashed /\ (swallowed => swallowed')
  BY <1>3, SMTT(60) DEF Return, JitTrap, InCode, Running
<1>4. CASE InvokeReturns \/ CallReturns \/ CallTerminated \/ HostCallFails
           \/ CallIndirectFails \/ InterpCallReturns
  BY <1>4, SMTT(60) DEF InvokeReturns, CallReturns, CallTerminated, HostCallFails, CallIndirectFails,
              InterpCallReturns, Returning
<1> QED
  BY <1>1, <1>2, <1>3, <1>4, Zenon DEF Next, HostCall, CallIndirect, HostReturn, JitReturn, WasmReturn

(* The invariant of the frames is inductive. *)
LEMMA FramesNextInv ==
    JitInv /\ FramesInv /\ [Next]_vars => FramesInv'
<1> SUFFICES ASSUME JitInv, FramesInv, [Next]_vars, ~crashed', ~swallowed'
             PROVE  StacksInv' /\ \E new, at : Layout(new, at)'
  BY Zenon DEF FramesInv
<1>0. CASE UNCHANGED vars
  <2>1. /\ UNCHANGED <<acts, stacks, gJit, ret, born>> /\ ~crashed /\ ~swallowed
    BY <1>0, Zenon DEF vars
  <2>2. PICK lvl, pos : StacksInv /\ Layout(lvl, pos)
    BY <2>1, Zenon DEF FramesInv
  <2>3. StacksInv'
    BY <2>1, <2>2, Zenon DEF StacksInv
  <2>4. Layout(lvl, pos)'
    BY <2>1, <2>2, ZenonT(60) DEF Layout, CallDepth, Stack, Unwinding
  <2> QED
    BY <2>3, <2>4, Zenon
<1> SUFFICES ASSUME Next PROVE StacksInv' /\ \E new, at : Layout(new, at)'
  BY <1>0, Zenon
<1>1. ~crashed /\ ~swallowed
  BY NextGoesOn, Zenon
<1>2. StacksInv
  BY <1>1, Zenon DEF FramesInv
<1>3. PICK lvl, pos : Layout(lvl, pos)
  BY <1>1, Zenon DEF FramesInv
<1>4. ASSUME NEW m \in Modules, NEW kind \in {"jit", "wasm"}, Invoke(kind, m)
      PROVE  StacksInv' /\ \E new, at : Layout(new, at)'
  BY <1>2, <1>3, <1>4, InvokeFrames, Zenon
<1>5. ASSUME NEW m \in Modules, NEW kind \in CalleeKinds, HostCall(kind, m)
      PROVE  StacksInv' /\ \E new, at : Layout(new, at)'
  <2>1. gJit.mod \in Modules \cup {None}
    BY <1>2, Zenon DEF StacksInv
  <2> QED
    BY <1>2, <1>3, <1>5, <2>1, CallFrames, Zenon DEF HostCall
<1>6. ASSUME NEW m \in Modules, NEW kind \in CalleeKinds, CallIndirect(kind, m)
      PROVE  StacksInv' /\ \E new, at : Layout(new, at)'
  <2>1. Running /\ acts # <<>>
    BY <1>6, Zenon DEF CallIndirect, CallFunction, InCode
  <2>2. Stack.frames \in Seq(FrameSet) /\ CallDepth(Len(stacks)) \in Nat \ {0}
    BY <1>2, <1>3, <2>1, RunningOnLast, Zenon
  <2>3. Stack.frames[Len(Stack.frames)] \in FrameSet
    BY <2>2 DEF CallDepth, Stack
  <2>4. Stack.frames[Len(Stack.frames)].mod \in Modules \cup {None}
    BY <2>3, Zenon DEF FrameSet
  <2> QED
    BY <1>2, <1>3, <1>6, <2>4, CallFrames, Zenon DEF CallIndirect
<1>7. ASSUME NEW m \in Modules, NEW kind \in CalleeKinds, InterpCall(kind, m)
      PROVE  StacksInv' /\ \E new, at : Layout(new, at)'
  BY <1>2, <1>3, <1>7, InterpCallFrames, Zenon
<1>8. CASE HostReturn \/ JitReturn \/ WasmReturn
  BY <1>2, <1>3, <1>8, ReturnFrames, Zenon DEF HostReturn, JitReturn, WasmReturn
<1>9. ASSUME NEW err \in Traps, JitTrap(err)
      PROVE  StacksInv' /\ \E new, at : Layout(new, at)'
  BY <1>2, <1>3, <1>9, TrapFrames, Zenon
<1>10. CASE InvokeReturns
  BY <1>2, <1>3, <1>10, InvokeReturnsFrames, Zenon
<1>11. CASE CallReturns
  BY <1>2, <1>3, <1>11, CallReturnsFrames, Zenon
<1>12. CASE CallTerminated \/ CallIndirectFails
  BY <1>2, <1>3, <1>12, TrampolineJumpFrames, Zenon
<1>13. CASE HostCallFails
  BY <1>13, Zenon DEF HostCallFails
<1>14. CASE InterpCallReturns
  BY <1>2, <1>3, <1>14, InterpReturnsFrames, Zenon
<1> QED
  BY <1>4, <1>5, <1>6, <1>7, <1>8, <1>9, <1>10, <1>11, <1>12, <1>13, <1>14 DEF Next

(* No StackManager, no frame. *)
LEMMA FramesInitInv ==
    Init => FramesInv
<1> SUFFICES ASSUME Init PROVE StacksInv /\ \E lvl, pos : Layout(lvl, pos)
  BY Zenon DEF FramesInv
<1>1. acts = <<>> /\ stacks = <<>> /\ Len(acts) = 0 /\ Len(stacks) = 0 /\ ret = NoRet
  BY Zenon DEF Init
<1>2. StacksInv
  <2>1. stacks \in Seq(StackSet) /\ 1 .. Len(stacks) = {} /\ 1 .. Len(acts) = {}
    BY <1>1
  <2>2. gJit \in [sm : Nat \cup {None}, mod : Modules \cup {None}] /\ gJit.sm = None
    BY Zenon DEF Init, NoCtx
  <2> QED
    BY <2>1, <2>2, Zenon DEF StacksInv
<1>3. \A lvl, pos : Layout(lvl, pos)
  <2>1. 1 .. Len(acts) = {} /\ 2 .. Len(acts) = {} /\ ~(Len(acts) > 0)
    BY <1>1, SMTT(60)
  <2> QED
    BY <1>1, <2>1, Zenon DEF Layout
<1> QED
  BY <1>2, <1>3, Zenon

(* The layout has the own frame of the running function on top. *)
LEMMA OwnFrameOnTop ==
    JitInv /\ FramesInv => TopFrameIsOwn
<1> SUFFICES ASSUME JitInv, FramesInv, Running, acts # <<>>, ~swallowed
             PROVE  Stack.id = Top.sm /\ Stack.frames[Len(Stack.frames)].id = Top.id
  BY Zenon DEF TopFrameIsOwn
<1>1. StacksInv /\ \E lvl, pos : Layout(lvl, pos)
  BY Zenon DEF FramesInv, Running
<1> QED
  BY <1>1, RunningOnLast, ZenonT(60)

(* The inductive invariant of the StackManagers: until an error of an        *)
(* import is swallowed every activation has its frame where its caller's     *)
(* kind of call put it, and the trampolines work on the last StackManager    *)
(* or on one that is gone.                                                   *)
THEOREM FramesInvariant == Spec => []FramesInv
<1> QED
  BY JitInvariant, FramesInitInv, FramesNextInv, PTL DEF Spec

(* While a function runs the top frame is its own, whatever was called,      *)
(* re-entered, trapped or terminated before, to any depth, until an error of *)
(* an import is swallowed.                                                   *)
THEOREM AlwaysTopFrameIsOwn == Spec => []TopFrameIsOwn
<1> QED
  BY JitInvariant, FramesInvariant, OwnFrameOnTop, PTL
=============================================================================
