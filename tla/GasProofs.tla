-------- MODULE GasProofs ---------------------------------------------------
(* Proofs about Gas, for any number of threads, any cost table, any width *)
(* of the counters and any limits a host sets: the counter has what was   *)
(* executed, no charge takes it past a limit that was in force, and an    *)
(* Else can be refunded unless the sum was cleared in a branch. What the blocks of compiled code      *)
(* still owe is a sum over the threads; it is the cardinality of a set of *)
(* units here, of which a step changes those of one thread.               *)
EXTENDS Gas, FiniteSetTheorems, TLAPS

-----------------------------------------------------------------------------
(* Arithmetic, and the units.                                             *)

(* Quotient and remainder.                                                *)
LEMMA Quotient ==
    ASSUME NEW w \in Nat, w # 0, NEW x \in Nat
    PROVE  /\ x % w \in 0 .. w - 1
           /\ \E q \in Nat : x = q * w + (x % w)
<1>1. x % w \in 0 .. w - 1
  OBVIOUS
<1>2. x \div w \in Nat
  OBVIOUS
<1>3. x = w * (x \div w) + (x % w)
  OBVIOUS
<1>4. PICK q \in Nat : q = x \div w
  BY <1>2, Zenon
<1>5. x = q * w + (x % w)
  BY <1>3, <1>4
<1> QED BY <1>1, <1>5, Zenon
(* x is q times w and r over.                                             *)
Splits(x, w, q, r) ==
    x \in Nat /\ w \in Nat /\ w # 0 /\ q \in Nat /\ r \in 0 .. w - 1 /\ x = q * w + r
(* The remainder is the only one.                                         *)
LEMMA Unique ==
    ASSUME NEW w, NEW q, NEW r, NEW x, Splits(x, w, q, r)
    PROVE  x % w = r
<1> USE DEF Splits
<1>1. PICK p \in Nat : x = p * w + (x % w)
  BY Quotient, Zenon
<1>2. x % w \in 0 .. w - 1
  BY Quotient, Zenon
<1>3. PICK s \in 0 .. w - 1 : s = x % w
  BY <1>2, Zenon
<1>4. p * w + s = q * w + r
  <2>1. x = p * w + s
    BY <1>1, <1>3, Zenon
  <2> QED BY <2>1, Zenon
<1>5. ASSUME NEW a \in Nat, NEW b \in Nat, a < b PROVE b * w >= a * w + w
  <2>1. PICK c \in Nat : b = a + 1 + c
    BY <1>5
  <2>2. b * w = a * w + w + c * w
    BY <2>1
  <2>3. c * w >= 0
    OBVIOUS
  <2> QED BY <2>2, <2>3
<1>6. p = q
  <2>1. ASSUME p < q PROVE FALSE
    BY <2>1, <1>4, <1>5
  <2>2. ASSUME q < p PROVE FALSE
    BY <2>2, <1>4, <1>5
  <2> QED BY <2>1, <2>2
<1> QED BY <1>3, <1>4, <1>6
(* A number d more, or d more and a turn of the counter less, in the      *)
(* counter.                                                               *)
LEMMA Congruent ==
    ASSUME NEW w \in Nat, w # 0, NEW x \in Nat, NEW y \in Nat, NEW d \in 0 .. w,
           y = x + d \/ y + w = x + d
    PROVE  y % w = ((x % w) + d) % w
<1>1. PICK q \in Nat : x = q * w + (x % w)
  BY Quotient, Zenon
<1>2. PICK r \in 0 .. w - 1 : r = x % w
  BY Quotient, Zenon
<1>z. PICK z \in Nat : z = r + d
  OBVIOUS
<1>3. PICK p \in Nat : z = p * w + (z % w)
  BY Quotient, Zenon
<1>4. PICK s \in 0 .. w - 1 : s = z % w
  BY Quotient, Zenon
<1>5. x + d = (q + p) * w + s
  <2>1. (q + p) * w = q * w + p * w
    OBVIOUS
  <2>2. x = q * w + r
    BY <1>1, <1>2, Zenon
  <2>3. r + d = p * w + s
    BY <1>z, <1>3, <1>4, Zenon
  <2> QED BY <2>1, <2>2, <2>3
<1>6. CASE y = x + d
  <2>1. PICK n \in Nat : n = q + p
    OBVIOUS
  <2>2. y = n * w + s
    BY <1>5, <1>6, <2>1, Zenon
  <2>3. y % w = s
    <3>1. Splits(y, w, n, s)
      BY <2>2, Zenon DEF Splits
    <3> QED BY <3>1, Unique, Zenon
  <2> QED BY <2>3, <1>z, <1>2, <1>4, Zenon
<1>7. CASE y + w = x + d
  <2>1. y + w = (q + p) * w + s
    BY <1>5, <1>7, Zenon
  <2>2. q + p # 0
    <3>1. SUFFICES ASSUME q + p = 0 PROVE FALSE
      BY Zenon
    <3>2. (q + p) * w = 0
      BY <3>1
    <3> QED BY <3>2, <2>1
  <2>3. PICK n \in Nat : q + p = n + 1
    BY <2>2
  <2>4. (q + p) * w = n * w + w
    BY <2>3
  <2>5. y = n * w + s
    BY <2>1, <2>4
  <2>6. y % w = s
    <3>1. Splits(y, w, n, s)
      BY <2>5, Zenon DEF Splits
    <3> QED BY <3>1, Unique, Zenon
  <2> QED BY <2>6, <1>z, <1>2, <1>4, Zenon
<1> QED BY <1>6, <1>7, Zenon

-----------------------------------------------------------------------------
(* What a unit is.                                                        *)
LEMMA UnitsLaw ==
    ASSUME NEW calls, NEW u
    PROVE  u \in Units(calls) <=>
             \E t \in Users : \E i \in 1 .. Len(calls[t]) : \E k \in 1 .. calls[t][i].LocalGas : u = <<t, i, k>>
  BY DEF Units

(* n units of the i-th call of t.                                         *)
UnitsOf(t, i, n) == {<<t, i, k>> : k \in 1 .. n}

(* They are n.                                                            *)
LEMMA UnitsCount ==
    ASSUME NEW t, NEW i, NEW n \in Nat
    PROVE  IsFiniteSet(UnitsOf(t, i, n)) /\ Cardinality(UnitsOf(t, i, n)) = n
<1>1. PICK f : f = [k \in 1 .. n |-> <<t, i, k>>]
  BY Zenon
<1>2. f \in Bijection(1 .. n, UnitsOf(t, i, n))
  BY <1>1, Zenon DEF Bijection, Injection, Surjection, IsInjective, UnitsOf
<1>3. ExistsBijection(1 .. n, UnitsOf(t, i, n))
  BY <1>2, Zenon DEF ExistsBijection
<1>4. IsFiniteSet(1 .. n) /\ Cardinality(1 .. n) = n
  BY FS_Interval
<1> QED BY <1>3, <1>4, FS_Bijection, Zenon

(* The units of the threads other than t.                                 *)
OtherUnits(calls, t) == {u \in Units(calls) : u[1] # t}

(* The units of t are those of its last call.                             *)
LEMMA UnitsSplit ==
    ASSUME NEW calls, NEW t \in Users, NEW high, Settled(calls[t], high)
    PROVE  /\ Units(calls) = OtherUnits(calls, t) \cup UnitsOf(t, Len(calls[t]), Pending(calls[t]))
           /\ OtherUnits(calls, t) \cap UnitsOf(t, Len(calls[t]), Pending(calls[t])) = {}
           /\ Pending(calls[t]) \in 0 .. W - 1
<1>1. PICK fr : fr = calls[t]
  BY Zenon
<1>2. PICK n \in Nat : n = Len(fr) /\ DOMAIN fr = 1 .. n
  BY <1>1 DEF Settled
<1>3. \A i \in 1 .. n : fr[i].LocalGas \in 0 .. W - 1 /\ (i # n => fr[i].LocalGas = 0)
  <2>1. \A i \in 1 .. n : fr[i] \in Frames
    BY <1>1, <1>2 DEF Settled
  <2>2. \A i \in 1 .. n : fr[i].LocalGas \in 0 .. W - 1
    BY <2>1, Zenon DEF Frames
  <2> QED BY <2>2, <1>1, <1>2, Zenon DEF Settled
<1>4. Pending(fr) = IF n = 0 THEN 0 ELSE fr[n].LocalGas
  BY <1>1, <1>2 DEF Pending, LastOf, Settled
<1>w. W \in Nat /\ W # 0
  BY GasAssumption, Zenon
<1>5. Pending(fr) \in 0 .. W - 1
  BY <1>2, <1>3, <1>4, <1>w
<1>6. ASSUME NEW u PROVE u \in Units(calls) /\ u[1] = t <=> u \in UnitsOf(t, n, Pending(fr))
  <2>1. ASSUME u \in Units(calls), u[1] = t PROVE u \in UnitsOf(t, n, Pending(fr))
    <3>a. PICK s \in Users : \E i \in 1 .. Len(calls[s]) : \E k \in 1 .. calls[s][i].LocalGas : u = <<s, i, k>>
      BY <2>1, UnitsLaw
    <3>b. PICK i \in 1 .. Len(calls[s]) : \E k \in 1 .. calls[s][i].LocalGas : u = <<s, i, k>>
      BY <3>a, Zenon
    <3>1. PICK k \in 1 .. calls[s][i].LocalGas : u = <<s, i, k>>
      BY <3>b, Zenon
    <3>2. s = t
      BY <3>1, <2>1, Zenon
    <3>3. i \in 1 .. n /\ k \in 1 .. fr[i].LocalGas
      BY <3>1, <3>2, <1>1, <1>2, Zenon
    <3>4. i = n
      BY <3>3, <1>3
    <3>5. Pending(fr) = fr[n].LocalGas
      BY <3>3, <1>4
    <3> QED BY <3>1, <3>2, <3>3, <3>4, <3>5, Zenon DEF UnitsOf
  <2>2. ASSUME u \in UnitsOf(t, n, Pending(fr)) PROVE u \in Units(calls) /\ u[1] = t
    <3>1. PICK k \in 1 .. Pending(fr) : u = <<t, n, k>>
      BY <2>2, Zenon DEF UnitsOf
    <3>2. n # 0
      BY <3>1, <1>4
    <3>3. n \in 1 .. Len(calls[t]) /\ k \in 1 .. calls[t][n].LocalGas
      BY <3>1, <3>2, <1>1, <1>2, <1>4
    <3>4. u \in Units(calls)
      BY <3>1, <3>3, UnitsLaw, Zenon
    <3> QED BY <3>1, <3>4, Zenon
  <2> QED BY <2>1, <2>2, Zenon
<1>7. Len(calls[t]) = n /\ Pending(calls[t]) = Pending(fr)
  BY <1>1, <1>2, Zenon
<1> QED BY <1>5, <1>6, <1>7, Zenon DEF OtherUnits

(* A step of t leaves the units of the others.                            *)
LEMMA OthersSame ==
    ASSUME NEW calls, NEW more, NEW t \in Users, \A s \in Users : s # t => more[s] = calls[s]
    PROVE  OtherUnits(more, t) = OtherUnits(calls, t)
<1>1. ASSUME NEW a, NEW b, \A s \in Users : s # t => b[s] = a[s], NEW u \in OtherUnits(a, t)
      PROVE  u \in OtherUnits(b, t)
  <2>a. PICK s \in Users : \E i \in 1 .. Len(a[s]) : \E k \in 1 .. a[s][i].LocalGas : u = <<s, i, k>>
    BY <1>1, UnitsLaw DEF OtherUnits
  <2>b. PICK i \in 1 .. Len(a[s]) : \E k \in 1 .. a[s][i].LocalGas : u = <<s, i, k>>
    BY <2>a, Zenon
  <2>1. PICK k \in 1 .. a[s][i].LocalGas : u = <<s, i, k>>
    BY <2>b, Zenon
  <2>2. s # t
    BY <1>1, <2>1, Zenon DEF OtherUnits
  <2>3. b[s] = a[s]
    BY <1>1, <2>2, Zenon
  <2>4. u \in Units(b)
    BY <2>1, <2>3, UnitsLaw, Zenon
  <2> QED BY <2>1, <2>2, <2>4, Zenon DEF OtherUnits
<1>2. OtherUnits(calls, t) \subseteq OtherUnits(more, t)
  BY <1>1, Zenon
<1>3. OtherUnits(more, t) \subseteq OtherUnits(calls, t)
  BY <1>1, Zenon
<1> QED BY <1>2, <1>3, Zenon

(* The cardinality of a disjoint union.                                   *)
LEMMA DisjointUnion ==
    ASSUME NEW S, NEW T, IsFiniteSet(S), IsFiniteSet(T), S \cap T = {}
    PROVE  IsFiniteSet(S \cup T) /\ Cardinality(S \cup T) = Cardinality(S) + Cardinality(T)
<1>1. Cardinality(S \cap T) = 0
  BY FS_EmptySet, Zenon
<1>2. Cardinality(S) \in Nat /\ Cardinality(T) \in Nat
  BY FS_CardinalityType, Zenon
<1>3. IsFiniteSet(S \cup T) /\ Cardinality(S \cup T) = Cardinality(S) + Cardinality(T) - Cardinality(S \cap T)
  BY FS_Union, Zenon
<1> QED BY <1>1, <1>2, <1>3

(* What a step of t changes of the sum: what the last call of t has.      *)
LEMMA UnitsStep ==
    ASSUME NEW calls, NEW more, NEW t \in Users, NEW high,
           \A s \in Users : s # t => more[s] = calls[s],
           Settled(calls[t], high), Settled(more[t], high), IsFiniteSet(Units(calls))
    PROVE  /\ IsFiniteSet(Units(more))
           /\ \E r \in Nat : /\ Cardinality(Units(calls)) = r + Pending(calls[t])
                             /\ Cardinality(Units(more)) = r + Pending(more[t])
<1>1. PICK O : O = OtherUnits(calls, t) /\ O = OtherUnits(more, t)
  BY OthersSame, Zenon
<1>2. PICK A : A = UnitsOf(t, Len(calls[t]), Pending(calls[t]))
  BY Zenon
<1>3. PICK B : B = UnitsOf(t, Len(more[t]), Pending(more[t]))
  BY Zenon
<1>4. /\ Units(calls) = O \cup A /\ O \cap A = {} /\ Pending(calls[t]) \in 0 .. W - 1
  BY <1>1, <1>2, UnitsSplit, Zenon
<1>5. /\ Units(more) = O \cup B /\ O \cap B = {} /\ Pending(more[t]) \in 0 .. W - 1
  BY <1>1, <1>3, UnitsSplit, Zenon
<1>w. W \in Nat
  BY GasAssumption, Zenon
<1>6. PICK p \in Nat : p = Pending(calls[t])
  BY <1>4, <1>w
<1>7. PICK q \in Nat : q = Pending(more[t])
  BY <1>5, <1>w
<1>8. IsFiniteSet(A) /\ Cardinality(A) = p /\ IsFiniteSet(B) /\ Cardinality(B) = q
  BY <1>2, <1>3, <1>6, <1>7, UnitsCount, Zenon
<1>9. IsFiniteSet(O)
  BY <1>4, FS_Subset, Zenon
<1>10. PICK r \in Nat : r = Cardinality(O)
  BY <1>9, FS_CardinalityType, Zenon
<1>12. IsFiniteSet(O \cup A) /\ Cardinality(O \cup A) = r + p
  BY <1>4, <1>5, <1>8, <1>9, <1>10, DisjointUnion, Zenon
<1>13. IsFiniteSet(O \cup B) /\ Cardinality(O \cup B) = r + q
  BY <1>4, <1>5, <1>8, <1>9, <1>10, DisjointUnion, Zenon
<1> QED BY <1>4, <1>5, <1>6, <1>7, <1>12, <1>13, Zenon

-----------------------------------------------------------------------------
(* The stack of calls of a thread, and what a step has to keep.           *)

(* Below the last number of an interval.                                  *)
LEMMA BelowLast ==
    ASSUME NEW n \in Nat, NEW m \in Nat, n + 1 = m, NEW i \in 1 .. n
    PROVE  i \in 1 .. m /\ i # m
  OBVIOUS

(* The counter goes from a to b, the last call of one thread from p to q  *)
(* and the others have r: the total goes from x to y, d more up to a turn *)
(* of the counter.                                                        *)
Shifted(a, b, p, q, r, d, w, x, y) ==
    /\ a \in Nat /\ b \in Nat /\ p \in Nat /\ q \in Nat /\ r \in Nat /\ d \in Nat
    /\ w \in Nat /\ x \in Nat /\ y \in Nat /\ x = a + r + p /\ y = b + r + q
    /\ b + q = a + p + d \/ b + q + w = a + p + d

(* Then so does the total.                                                *)
LEMMA Shift ==
    ASSUME NEW a, NEW b, NEW p, NEW q, NEW r, NEW d, NEW w, NEW x, NEW y,
           Shifted(a, b, p, q, r, d, w, x, y)
    PROVE  y = x + d \/ y + w = x + d
  BY DEF Shifted

(* The constants are numbers of the counter.                              *)
LEMMA GasNumbers ==
    /\ W \in Nat /\ W # 0 /\ Limits \subseteq 0 .. W - 1
    /\ \A c \in {"instr", "if", "else", "end", "host"} : Cost[c] \in 0 .. W - 1
  BY GasAssumption, Zenon

(* The fields of a call.                                                  *)
LEMMA FrameLaws ==
    ASSUME NEW f \in Frames
    PROVE  f.kind \in {"interp", "compiled"} /\ f.ifs \in Nat /\ f.LocalGas \in 0 .. W - 1
           /\ f.GasLimit \in {0} \cup Limits
  BY Zenon DEF Frames

(* The counter turns at most once in one addition.                        *)
LEMMA ModSum ==
    ASSUME NEW a \in 0 .. W - 1, NEW b \in 0 .. W - 1
    PROVE  /\ (a + b) % W \in 0 .. W - 1
           /\ (a + b) % W = IF a + b >= W THEN a + b - W ELSE a + b
<1>0. W \in Nat /\ W # 0
  BY GasNumbers, Zenon
<1>1. CASE a + b >= W
  <2>1. Splits(a + b, W, 1, a + b - W)
    BY <1>0, <1>1 DEF Splits
  <2>2. (a + b) % W = a + b - W
    BY <2>1, Unique, Zenon
  <2> QED BY <1>0, <1>1, <2>2
<1>2. CASE ~(a + b >= W)
  <2>1. Splits(a + b, W, 0, a + b)
    BY <1>0, <1>2 DEF Splits
  <2>2. (a + b) % W = a + b
    BY <2>1, Unique, Zenon
  <2> QED BY <1>0, <1>2, <2>2
<1> QED BY <1>1, <1>2, Zenon

-----------------------------------------------------------------------------
(* A thread in no call.                                                   *)
LEMMA EmptyStack ==
    ASSUME NEW high PROVE Settled(<<>>, high) /\ Pending(<<>>) = 0 /\ ~InBranch(<<>>)
  BY DEF Settled, Pending, InBranch

(* The last call of a thread that is in one.                              *)
LEMMA LastLaws ==
    ASSUME NEW fr, NEW high, Settled(fr, high), fr # <<>>
    PROVE  /\ LastOf(fr) \in Frames /\ LastOf(fr).GasLimit <= high
           /\ Len(fr) \in 1 .. Len(fr) /\ Len(fr) \in Nat
           /\ LastOf(fr).kind = "interp" => LastOf(fr).LocalGas = 0
           /\ Pending(fr) = LastOf(fr).LocalGas
           /\ LastOf(fr).ifs > 0 => InBranch(fr)
<1>1. fr \in Seq(Frames)
  BY Zenon DEF Settled
<1>2. Len(fr) \in 1 .. Len(fr) /\ Len(fr) \in Nat
  BY <1>1
<1> QED BY <1>1, <1>2 DEF Settled, LastOf, Pending, InBranch

(* What a thread still owes is a number of the counter.                   *)
LEMMA PendingLaw ==
    ASSUME NEW fr, NEW high, Settled(fr, high)
    PROVE  Pending(fr) \in 0 .. W - 1
<1>1. CASE fr = <<>>
  BY <1>1, GasNumbers DEF Pending
<1>2. CASE fr # <<>>
  BY <1>2, LastLaws, FrameLaws, Zenon
<1> QED BY <1>1, <1>2, Zenon

(* A call more.                                                           *)
LEMMA PushLaws ==
    ASSUME NEW fr, NEW high, Settled(fr, high), Pending(fr) = 0,
           NEW f \in Frames, f.GasLimit <= high, f.LocalGas = 0, f.ifs = 0,
           NEW more, more = Append(fr, f)
    PROVE  /\ Settled(more, high) /\ Pending(more) = 0 /\ more # <<>>
           /\ InBranch(more) => InBranch(fr)
<1>1. fr \in Seq(Frames)
  BY Zenon DEF Settled
<1>2. PICK n \in Nat : n = Len(fr)
  BY <1>1
<1>3. /\ more \in Seq(Frames) /\ Len(more) = n + 1 /\ more[n + 1] = f
      /\ \A i \in 1 .. n : more[i] = fr[i]
  BY <1>1, <1>2
<1>4. \A i \in 1 .. n : fr[i].GasLimit <= high /\ fr[i].LocalGas = 0
  <2>1. n # 0 => fr # <<>>
    BY <1>2, Zenon
  <2>2. n # 0 => fr[n].LocalGas = 0
    BY <2>1, <1>2, LastLaws, Zenon DEF LastOf
  <2> QED BY <2>2, <1>2 DEF Settled
<1>5. more # <<>>
  BY <1>3
<1>6. Settled(more, high)
  BY <1>3, <1>4 DEF Settled
<1>7. Pending(more) = 0
  BY <1>3, <1>5, Zenon DEF Pending, LastOf
<1>8. InBranch(more) => InBranch(fr)
  BY <1>2, <1>3 DEF InBranch
<1> QED BY <1>5, <1>6, <1>7, <1>8, Zenon

(* A call less.                                                           *)
LEMMA PopLaws ==
    ASSUME NEW fr, NEW high, Settled(fr, high), fr # <<>>,
           NEW less, less = SubSeq(fr, 1, Len(fr) - 1)
    PROVE  /\ Settled(less, high) /\ Pending(less) = 0
           /\ InBranch(less) => InBranch(fr)
<1>1. fr \in Seq(Frames)
  BY Zenon DEF Settled
<1>2. Len(fr) \in Nat /\ Len(fr) # 0
  BY <1>1, SMTT(60)
<1>3. PICK n \in Nat : n + 1 = Len(fr) /\ n = Len(fr) - 1
  <2>1. Len(fr) - 1 \in Nat /\ (Len(fr) - 1) + 1 = Len(fr)
    BY <1>2
  <2> QED BY <2>1, Zenon
<1>4. /\ less \in Seq(Frames) /\ Len(less) = n /\ \A i \in 1 .. n : less[i] = fr[i]
  <2>1. n \in 0 .. Len(fr)
    BY <1>3
  <2>2. less = SubSeq(fr, 1, n)
    BY <1>3, Zenon
  <2> QED BY <2>1, <2>2, <1>1
<1>5. \A i \in 1 .. n : fr[i].GasLimit <= high /\ fr[i].LocalGas = 0
  <2>1. \A i \in 1 .. n : i \in 1 .. Len(fr) /\ i # Len(fr)
    BY <1>2, <1>3, BelowLast, Zenon
  <2> QED BY <2>1, Zenon DEF Settled
<1>6. Settled(less, high)
  BY <1>4, <1>5, Zenon DEF Settled
<1>7. Pending(less) = 0
  <2>1. less # <<>> => n # 0
    BY <1>4
  <2> QED BY <2>1, <1>4, <1>5 DEF Pending, LastOf
<1>8. InBranch(less) => InBranch(fr)
  BY <1>3, <1>4 DEF InBranch
<1> QED BY <1>6, <1>7, <1>8, Zenon

(* The last call changed to f.                                            *)
SetLast(fr, f) == [fr EXCEPT ![Len(fr)] = f]

(* What is true of the stack then.                                        *)
LEMMA SetLastLaws ==
    ASSUME NEW fr, NEW high, Settled(fr, high), fr # <<>>,
           NEW f \in Frames, f.GasLimit <= high, f.kind = "interp" => f.LocalGas = 0,
           NEW g, g = SetLast(fr, f)
    PROVE  /\ Settled(g, high) /\ Pending(g) = f.LocalGas /\ g # <<>> /\ LastOf(g) = f
           /\ InBranch(g) => InBranch(fr) \/ f.ifs > 0
<1>1. fr \in Seq(Frames)
  BY Zenon DEF Settled
<1>2. PICK n \in Nat : n = Len(fr) /\ n # 0
  BY <1>1
<1>3. /\ g \in Seq(Frames) /\ Len(g) = n /\ g[n] = f /\ \A i \in 1 .. n : i # n => g[i] = fr[i]
  BY <1>1, <1>2 DEF SetLast
<1>4. g # <<>>
  BY <1>2, <1>3, Zenon
<1>5. Settled(g, high)
  BY <1>2, <1>3 DEF Settled
<1>6. Pending(g) = f.LocalGas /\ LastOf(g) = f
  BY <1>3, <1>4, Zenon DEF Pending, LastOf
<1>7. InBranch(g) => InBranch(fr) \/ f.ifs > 0
  BY <1>2, <1>3, Zenon DEF InBranch
<1> QED BY <1>4, <1>5, <1>6, <1>7, Zenon

-----------------------------------------------------------------------------
(* A step of t to the calls fr, the operation o and the limit l, in       *)
(* normal form.                                                           *)
Moves(t, fr, o, l) ==
    /\ frames' = [frames EXCEPT ![t] = fr]
    /\ op' = [op EXCEPT ![t] = o]
    /\ lim' = [lim EXCEPT ![t] = l]
    /\ old' \in [Users -> 0 .. W]
    /\ CostLimit' = CostLimit /\ highest' = highest
    /\ o \in Ops /\ l \in {0} \cup Limits
    /\ Settled(fr, highest) /\ Doing(fr, o, l, highest)

(* The counter changes by what was executed, d, and by what the last call *)
(* of t owed and owes, p and q; where it takes no trap it stays within    *)
(* the highest limit.                                                     *)
Balances(p, q, d) ==
    /\ CostSum' \in 0 .. W - 1
    /\ trapped' \in BOOLEAN /\ wrapped' \in BOOLEAN
    /\ trapped' \/ CostSum' <= highest
    /\ d \in 0 .. W /\ owed' = (owed + d) % W
    /\ CostSum' + q = CostSum + p + d \/ CostSum' + q + W = CostSum + p + d

(* What RefundInv says when the sum was not cleared in a branch.          *)
Refundable == IsFiniteSet(Refunding) /\ (wrapped \/ Covered)

(* What a thread about to be paid back has coming.                        *)
Due(o) == IF o = "refund" THEN Cost["else"] ELSE 0

(* The sum still covers the refunds: it grows by what comes to be due,    *)
(* and by an If when a thread enters its first branch.                    *)
Covers(fr, o, more, u) ==
    \/ wrapped'
    \/ /\ ~wrapped
       /\ CostSum' + Due(o) >= CostSum + Due(u)
       /\ \/ InBranch(more) => InBranch(fr)
          \/ CostSum' + Due(o) >= CostSum + Due(u) + Cost["if"]

(* What GasInv says of the variables.                                     *)
LEMMA TypeLaws ==
    ASSUME GasInv
    PROVE  /\ CostSum \in 0 .. W - 1 /\ owed \in 0 .. W - 1 /\ CostLimit \in Limits /\ highest \in Limits
           /\ CostLimit <= highest /\ trapped \in BOOLEAN /\ wrapped \in BOOLEAN
           /\ old \in [Users -> 0 .. W] /\ lim \in [Users -> {0} \cup Limits] /\ op \in [Users -> Ops]
           /\ (trapped \/ CostSum <= highest)
           /\ \A t \in Users : Settled(frames[t], highest) /\ Doing(frames[t], op[t], lim[t], highest)
  BY Zenon DEF GasInv, GasTypeOK, LimitRespected

(* A step in normal form that balances keeps GasInv.                      *)
LEMMA StepKeeps ==
    ASSUME GasInv, NEW t \in Users, NEW fr, NEW o, NEW l, NEW d,
           Moves(t, fr, o, l), Balances(Pending(frames[t]), Pending(fr), d)
    PROVE  GasInv'
<1>1. /\ CostSum \in 0 .. W - 1 /\ owed \in 0 .. W - 1 /\ CostLimit \in Limits /\ highest \in Limits
      /\ frames \in [Users -> Seq(Frames)]
      /\ lim \in [Users -> {0} \cup Limits] /\ op \in [Users -> Ops]
      /\ \A s \in Users : Settled(frames[s], highest) /\ Doing(frames[s], op[s], lim[s], highest)
  BY Zenon DEF GasInv, GasTypeOK
<1>2. /\ frames' = [frames EXCEPT ![t] = fr] /\ op' = [op EXCEPT ![t] = o] /\ lim' = [lim EXCEPT ![t] = l]
      /\ old' \in [Users -> 0 .. W] /\ CostLimit' = CostLimit /\ highest' = highest
      /\ o \in Ops /\ l \in {0} \cup Limits /\ Settled(fr, highest) /\ Doing(fr, o, l, highest)
  BY Zenon DEF Moves
<1>3. fr \in Seq(Frames)
  BY <1>2, Zenon DEF Settled
<1>4. /\ frames' \in [Users -> Seq(Frames)] /\ op' \in [Users -> Ops] /\ lim' \in [Users -> {0} \cup Limits]
  BY <1>1, <1>2, <1>3, Zenon
<1>5. \A s \in Users : Settled(frames'[s], highest) /\ Doing(frames'[s], op'[s], lim'[s], highest)
  BY <1>1, <1>2, Zenon
<1>w. W \in Nat /\ W # 0
  BY GasNumbers, Zenon
<1>6. PICK p \in 0 .. W - 1 : p = Pending(frames[t])
  BY <1>1, PendingLaw, Zenon
<1>7. PICK q \in 0 .. W - 1 : q = Pending(fr)
  BY <1>2, PendingLaw, Zenon
<1>8. /\ CostSum' \in 0 .. W - 1 /\ trapped' \in BOOLEAN /\ wrapped' \in BOOLEAN
      /\ (trapped' \/ CostSum' <= highest)
      /\ d \in 0 .. W /\ owed' = (owed + d) % W
      /\ (CostSum' + q = CostSum + p + d \/ CostSum' + q + W = CostSum + p + d)
  BY <1>6, <1>7, Zenon DEF Balances
<1>9. PICK more : more = frames'
  BY Zenon
<1>10. more[t] = fr /\ \A s \in Users : s # t => more[s] = frames[s]
  BY <1>1, <1>2, <1>9, Zenon
<1>11. IsFiniteSet(Units(frames))
  BY Zenon DEF GasInv
<1>12. /\ IsFiniteSet(Units(more))
       /\ \E r \in Nat : Cardinality(Units(frames)) = r + Pending(frames[t])
                         /\ Cardinality(Units(more)) = r + Pending(more[t])
  BY <1>1, <1>2, <1>10, <1>11, UnitsStep, ZenonT(60)
<1>13. PICK r \in Nat : Cardinality(Units(frames)) = r + p /\ Cardinality(Units(more)) = r + q
  BY <1>6, <1>7, <1>10, <1>12, Zenon
<1>14. PICK x \in Nat : x = CostSum + r + p
  BY <1>1, <1>6, <1>w
<1>15. PICK y \in Nat : y = CostSum' + r + q
  BY <1>7, <1>8, <1>w, SMTT(60)
<1>16. x % W = owed
  <2>1. x = CostSum + Uncharged
    BY <1>1, <1>6, <1>13, <1>14, <1>w, SMTT(60) DEF Uncharged
  <2> QED BY <2>1, Zenon DEF GasInv, GasAccounted
<1>17. y = x + d \/ y + W = x + d
  <2>1. CostSum \in Nat /\ CostSum' \in Nat /\ p \in Nat /\ q \in Nat /\ d \in Nat
    BY <1>1, <1>8, <1>w
  <2>2. PICK a \in Nat : a = CostSum
    BY <2>1, Zenon
  <2>3. PICK b \in Nat : b = CostSum'
    BY <2>1, Zenon
  <2>4. x = a + r + p /\ y = b + r + q /\ (b + q = a + p + d \/ b + q + W = a + p + d)
    BY <2>2, <2>3, <1>8, <1>14, <1>15, Zenon
  <2>5. Shifted(a, b, p, q, r, d, W, x, y)
    BY <2>1, <2>4, <1>w, Zenon DEF Shifted
  <2> QED BY <2>5, Shift
<1>18. y % W = ((x % W) + d) % W
  BY <1>8, <1>17, <1>w, Congruent, ZenonT(60)
<1>19. y % W = owed'
  BY <1>8, <1>16, <1>18, Zenon
<1>20. y = CostSum' + Uncharged'
  BY <1>7, <1>8, <1>9, <1>13, <1>15, <1>w DEF Uncharged
<1>21. GasAccounted'
  BY <1>19, <1>20, Zenon DEF GasAccounted
<1>22. owed' \in 0 .. W - 1
  <2>1. y % W \in 0 .. W - 1
    BY <1>w, Quotient, Zenon
  <2> QED BY <2>1, <1>19, Zenon
<1>23. GasTypeOK'
  BY <1>1, <1>2, <1>4, <1>8, <1>22, Zenon DEF GasTypeOK
<1>24. LimitRespected'
  BY <1>2, <1>8, Zenon DEF LimitRespected
<1>25. CostLimit' <= highest'
  BY <1>2, Zenon DEF GasInv
<1>26. IsFiniteSet(Units(frames'))
  BY <1>9, <1>12, Zenon
<1>27. \A s \in Users : Settled(frames'[s], highest') /\ Doing(frames'[s], op'[s], lim'[s], highest')
  BY <1>2, <1>5, Zenon
<1> QED BY <1>21, <1>23, <1>24, <1>25, <1>26, <1>27, Zenon DEF GasInv

-----------------------------------------------------------------------------
(* The steps that charge nothing.                                         *)

(* A step in normal form that covers keeps Refundable.                     *)
LEMMA CoverKeeps ==
    ASSUME GasInv, Refundable, NEW t \in Users, NEW fr, NEW o, NEW l,
           Moves(t, fr, o, l), CostSum' \in 0 .. W - 1, Covers(frames[t], op[t], fr, o)
    PROVE  Refundable'
<1>1. /\ CostSum \in 0 .. W - 1 /\ frames \in [Users -> Seq(Frames)] /\ op \in [Users -> Ops]
  BY Zenon DEF GasInv, GasTypeOK
<1>2. /\ frames' = [frames EXCEPT ![t] = fr] /\ op' = [op EXCEPT ![t] = o]
  BY Zenon DEF Moves
<1>3. PICK R : R = Refunding /\ IsFiniteSet(R)
  BY Zenon DEF Refundable
<1>4. PICK S : S = Refunding'
  BY Zenon
<1>5. S = IF o = "refund" THEN R \cup {t} ELSE R \ {t}
  BY <1>1, <1>2, <1>3, <1>4, Zenon DEF Refunding
<1>6. t \in R <=> op[t] = "refund"
  BY <1>3, Zenon DEF Refunding
<1>7. PICK r \in Nat : r = Cardinality(R)
  BY <1>3, FS_CardinalityType, Zenon
<1>8. /\ IsFiniteSet(S)
      /\ Cardinality(S) = IF o = "refund" THEN IF t \in R THEN r ELSE r + 1
                                          ELSE IF t \in R THEN r - 1 ELSE r
  BY <1>3, <1>5, <1>7, FS_AddElement, FS_RemoveElement, ZenonT(60)
<1>9. t \in R => r # 0
  BY <1>3, <1>7, FS_EmptySet, Zenon
<1>10. PICK n \in Nat : n = Cardinality(S)
  BY <1>8, FS_CardinalityType, Zenon
<1>11. PICK c \in Nat : c = Cost["else"]
  BY GasNumbers
<1>12. PICK ci \in Nat : ci = Cost["if"]
  BY GasNumbers
<1>13. n * c + (IF op[t] = "refund" THEN c ELSE 0) = r * c + (IF o = "refund" THEN c ELSE 0)
  <2>1. CASE o = "refund" /\ t \notin R
    <3>1. n = r + 1
      BY <2>1, <1>8, <1>10, Zenon
    <3>2. n * c = r * c + c
      BY <3>1
    <3> QED BY <3>2, <2>1, <1>6, SMTT(60)
  <2>2. CASE o # "refund" /\ t \in R
    <3>1. r = n + 1
      BY <2>2, <1>8, <1>9, <1>10
    <3>2. r * c = n * c + c
      BY <3>1
    <3> QED BY <3>2, <2>2, <1>6, SMTT(60)
  <2>3. CASE o = "refund" <=> t \in R
    <3>1. n = r
      BY <2>3, <1>8, <1>10, Zenon
    <3> QED BY <3>1, <2>3, <1>6, Zenon
  <2> QED BY <2>1, <2>2, <2>3, Zenon
<1>14. PICK rc \in Nat : rc = r * c
  OBVIOUS
<1>15. PICK nc \in Nat : nc = n * c
  OBVIOUS
<1>16. nc + Due(op[t]) = rc + Due(o) /\ Due(o) \in Nat /\ Due(op[t]) \in Nat
  BY <1>11, <1>13, <1>14, <1>15, Zenon DEF Due
<1>17. PICK any \in BOOLEAN : any = Branching /\ any = \E s \in Users : InBranch(frames[s])
  BY Zenon DEF Branching
<1>18. PICK all \in BOOLEAN : all = Branching' /\ all = (\E s \in Users : InBranch(frames[s]))'
  BY Zenon DEF Branching
<1>19. all => any \/ (InBranch(fr) /\ ~InBranch(frames[t]))
  BY <1>1, <1>2, <1>17, <1>18, ZenonT(60)
<1>20. CASE wrapped'
  BY <1>4, <1>8, <1>20, Zenon DEF Refundable
<1>21. CASE ~wrapped'
  <2>1. /\ ~wrapped /\ CostSum' + Due(op[t]) >= CostSum + Due(o)
        /\ \/ InBranch(fr) => InBranch(frames[t])
           \/ CostSum' + Due(op[t]) >= CostSum + Due(o) + ci
    BY <1>12, <1>21, Zenon DEF Covers
  <2>2. rc + (IF any THEN ci ELSE 0) <= CostSum
    BY <2>1, <1>3, <1>7, <1>11, <1>12, <1>14, <1>17 DEF Refundable, Covered
  <2>n. CostSum \in Nat /\ CostSum' \in Nat
    BY <1>1, GasNumbers
  <2>3. nc + (IF all THEN ci ELSE 0) <= CostSum'
    <3>1. CASE any
      BY <3>1, <2>1, <2>2, <2>n, <1>16, SMTT(60)
    <3>2. CASE ~any /\ ~all
      BY <3>2, <2>1, <2>2, <2>n, <1>16, SMTT(60)
    <3>3. CASE ~any /\ all
      BY <3>3, <2>1, <2>2, <2>n, <1>16, <1>19, SMTT(60)
    <3> QED BY <3>1, <3>2, <3>3, Zenon
  <2>4. Covered'
    BY <2>3, <1>4, <1>10, <1>11, <1>12, <1>15, <1>18, SMTT(60) DEF Covered
  <2> QED BY <2>4, <1>4, <1>8, Zenon DEF Refundable
<1> QED BY <1>20, <1>21, Zenon

(* A step that charges nothing and drops nothing keeps both.              *)
LEMMA QuietStep ==
    ASSUME GasInv, NEW t \in Users, NEW fr, NEW o, NEW l, Moves(t, fr, o, l),
           UNCHANGED <<CostSum, owed, trapped, wrapped>>,
           Pending(fr) = Pending(frames[t]), InBranch(fr) => InBranch(frames[t]), o # "refund" \/ op[t] = "refund"
    PROVE  GasInv' /\ (Refundable => Refundable')
<1>1. /\ CostSum \in 0 .. W - 1 /\ owed \in 0 .. W - 1 /\ trapped \in BOOLEAN /\ wrapped \in BOOLEAN
      /\ (trapped \/ CostSum <= highest) /\ Settled(frames[t], highest)
  BY TypeLaws, Zenon
<1>w. W \in Nat /\ W # 0 /\ Cost["else"] \in Nat
  BY GasNumbers
<1>2. PICK p \in 0 .. W - 1 : p = Pending(frames[t])
  BY <1>1, PendingLaw, Zenon
<1>3. owed' = (owed + 0) % W
  <2>1. 0 \in 0 .. W - 1 /\ ~(owed + 0 >= W) /\ owed + 0 = owed
    BY <1>1, <1>w
  <2>2. (owed + 0) % W = IF owed + 0 >= W THEN owed + 0 - W ELSE owed + 0
    BY <1>1, <2>1, ModSum, Zenon
  <2> QED BY <2>1, <2>2, Zenon
<1>4. Balances(p, p, 0)
  BY <1>1, <1>3, <1>w, SMTT(60) DEF Balances
<1>5. GasInv'
  BY <1>2, <1>4, StepKeeps, Zenon
<1>6. Covers(frames[t], op[t], fr, o)
  <2>1. Due(op[t]) >= Due(o) /\ Due(op[t]) \in Nat /\ Due(o) \in Nat
    BY <1>w DEF Due
  <2> QED BY <2>1, <1>1, <1>w DEF Covers
<1> QED BY <1>1, <1>5, <1>6, CoverKeeps, Zenon

-----------------------------------------------------------------------------
(* Entering a function keeps both.                                        *)
LEMMA StepEnter == ASSUME GasInv, NEW t \in Users, enterFunction(t) PROVE GasInv' /\ (Refundable => Refundable')
<1>0. /\ Settled(frames[t], highest) /\ Doing(frames[t], op[t], lim[t], highest)
      /\ CostLimit \in Limits /\ CostLimit <= highest /\ highest \in Limits
      /\ old \in [Users -> 0 .. W]
  BY TypeLaws, Zenon
<1>w. W \in Nat /\ W # 0 /\ Limits \subseteq Nat
  BY GasNumbers, SMTT(60)
<1>1. Pending(frames[t]) = 0
  BY <1>0, Zenon DEF enterFunction, Doing, Pending
<1>2. op[t] = "enter" \/ frames[t] = <<>>
  BY Zenon DEF enterFunction
<1>u. UNCHANGED <<CostSum, CostLimit, owed, highest, trapped, wrapped>>
  BY Zenon DEF enterFunction
<1>3. ASSUME NEW f \in {Interpreted} \cup {Compiled(l) : l \in EntryLimits(t)},
             frames' = [frames EXCEPT ![t] = Append(@, f)], Goto(t, "none")
      PROVE  GasInv' /\ (Refundable => Refundable')
  <2>1. \A l \in EntryLimits(t) : l \in {0} \cup Limits /\ l <= highest
    BY <1>0, LastLaws, FrameLaws, ZenonT(60) DEF EntryLimits, Function, LastOf
  <2>2. f \in Frames /\ f.GasLimit <= highest /\ f.LocalGas = 0 /\ f.ifs = 0
    BY <1>3, <2>1, <1>w, <1>0 DEF Interpreted, Compiled, Frames
  <2>3. PICK more : more = Append(frames[t], f)
    BY Zenon
  <2>4. /\ Settled(more, highest) /\ Pending(more) = 0 /\ more # <<>>
        /\ InBranch(more) => InBranch(frames[t])
    BY <2>2, <2>3, <1>0, <1>1, PushLaws, ZenonT(60)
  <2>5. Moves(t, more, "none", 0)
    BY <1>3, <1>0, <1>u, <1>w, <2>3, <2>4, SMTT(60) DEF Moves, Goto, Doing, Ops, Adds, Flushes
  <2> QED BY <2>4, <2>5, <1>1, <1>u, QuietStep, Zenon
<1>4. ASSUME frames[t] # <<>>, Goto(t, "host"), frames' = frames
      PROVE  GasInv' /\ (Refundable => Refundable')
  <2>1. LastOf(frames[t]).LocalGas = 0
    BY <1>1, <1>4, Zenon DEF Pending
  <2>2. frames' = [frames EXCEPT ![t] = frames[t]]
    BY <1>4, Zenon DEF GasInv, GasTypeOK
  <2>3. Doing(frames[t], "host", 0, highest)
    BY <2>1, <1>0, <1>4, <1>w DEF Doing, Flushes
  <2>4. Moves(t, frames[t], "host", 0)
    <3>1. op' = [op EXCEPT ![t] = "host"] /\ lim' = [lim EXCEPT ![t] = 0] /\ old' \in [Users -> 0 .. W]
      BY <1>4, <1>0, <1>w DEF Goto
    <3>2. "host" \in Ops
      BY Zenon DEF Ops, Adds
    <3> QED BY <3>1, <3>2, <1>0, <1>u, <2>2, <2>3, Zenon DEF Moves
  <2> QED BY <2>4, <1>1, <1>u, QuietStep, Zenon
<1> QED BY <1>3, <1>4, Zenon DEF enterFunction

(* So do the steps that only begin, retry or leave a charge.              *)
LEMMA BeginMoves ==
    ASSUME GasInv, NEW t \in Users, NEW o \in Ops, NEW l \in {0} \cup Limits,
           op' = [op EXCEPT ![t] = o], lim' = [lim EXCEPT ![t] = l], old' \in [Users -> 0 .. W],
           UNCHANGED <<CostSum, CostLimit, frames, owed, highest, trapped, wrapped>>,
           Doing(frames[t], o, l, highest), o # "refund" \/ op[t] = "refund"
    PROVE  GasInv' /\ (Refundable => Refundable')
<1>1. Settled(frames[t], highest)
  BY TypeLaws, Zenon
<1>2. frames' = [frames EXCEPT ![t] = frames[t]]
  BY Zenon DEF GasInv, GasTypeOK
<1>3. Moves(t, frames[t], o, l)
  BY <1>1, <1>2, Zenon DEF Moves
<1> QED BY <1>3, QuietStep, Zenon

(* The beginning of an instruction keeps both.                            *)
LEMMA StepInstruction ==
    ASSUME GasInv, NEW t \in Users, NEW o \in {"instr", "if", "else"}, Instruction(t, o)
    PROVE  GasInv' /\ (Refundable => Refundable')
<1>1. /\ CostSum \in 0 .. W - 1 /\ CostLimit \in Limits /\ CostLimit <= highest /\ old \in [Users -> 0 .. W]
      /\ highest \in Limits
  BY TypeLaws, Zenon
<1>2. Doing(frames[t], o, CostLimit, highest)
  BY <1>1, Zenon DEF Instruction, Runs, Function, LastOf, Doing, Flushes
<1>w. W \in Nat
  BY GasNumbers, Zenon
<1>3. /\ op' = [op EXCEPT ![t] = o] /\ lim' = [lim EXCEPT ![t] = CostLimit]
      /\ old' \in [Users -> 0 .. W]
      /\ UNCHANGED <<CostSum, CostLimit, frames, owed, highest, trapped, wrapped>>
  BY <1>1, <1>w DEF Instruction, Begin
<1>4. o \in Ops /\ o # "refund"
  BY Zenon DEF Ops, Adds
<1> QED BY <1>1, <1>2, <1>3, <1>4, BeginMoves, ZenonT(60)

(* The load of the counter before the exchange keeps both.                *)
LEMMA StepLoad == ASSUME GasInv, NEW t \in Users, Load(t) PROVE GasInv' /\ (Refundable => Refundable')
<1>1. /\ CostSum \in 0 .. W - 1 /\ CostLimit \in Limits /\ CostLimit <= highest /\ old \in [Users -> 0 .. W]
      /\ op[t] \in Ops /\ Doing(frames[t], op[t], lim[t], highest)
  BY TypeLaws, Zenon
<1>2. Doing(frames[t], op[t], CostLimit, highest)
  BY <1>1, Zenon DEF Doing
<1>w. W \in Nat
  BY GasNumbers, Zenon
<1>3. /\ op' = [op EXCEPT ![t] = op[t]] /\ lim' = [lim EXCEPT ![t] = CostLimit]
      /\ old' \in [Users -> 0 .. W]
      /\ UNCHANGED <<CostSum, CostLimit, frames, owed, highest, trapped, wrapped>>
  BY <1>1, <1>w DEF Load, Begin
<1> QED BY <1>1, <1>2, <1>3, BeginMoves, ZenonT(60)

(* An exchange that fails keeps both.                                     *)
LEMMA StepRetry == ASSUME GasInv, NEW t \in Users, Retry(t) PROVE GasInv' /\ (Refundable => Refundable')
<1>1. /\ CostSum \in 0 .. W - 1 /\ old \in [Users -> 0 .. W] /\ op \in [Users -> Ops]
      /\ lim \in [Users -> {0} \cup Limits] /\ Doing(frames[t], op[t], lim[t], highest)
  BY TypeLaws, Zenon
<1>w. W \in Nat
  BY GasNumbers, Zenon
<1>2. /\ op' = [op EXCEPT ![t] = op[t]] /\ lim' = [lim EXCEPT ![t] = lim[t]]
      /\ old' \in [Users -> 0 .. W]
      /\ UNCHANGED <<CostSum, CostLimit, frames, owed, highest, trapped, wrapped>>
  BY <1>1, <1>w DEF Retry
<1>3. op[t] \in Ops /\ lim[t] \in {0} \cup Limits
  BY <1>1, Zenon
<1> QED BY <1>1, <1>2, <1>3, BeginMoves, ZenonT(60)

(* The beginning of a charge of compiled code keeps both.                 *)
LEMMA StepCharge ==
    ASSUME GasInv, NEW t \in Users, NEW why \in Flushes, Charge(t, why)
    PROVE  GasInv' /\ (Refundable => Refundable')
<1>1. /\ CostSum \in 0 .. W - 1 /\ old \in [Users -> 0 .. W] /\ Settled(frames[t], highest)
  BY TypeLaws, Zenon
<1>w. W \in Nat
  BY GasNumbers, Zenon
<1>2. frames[t] # <<>> /\ LastOf(frames[t]).kind = "compiled"
  BY Zenon DEF Charge, Runs, Function, LastOf
<1>3. PICK l : l = LastOf(frames[t]).GasLimit
  BY Zenon
<1>4. l \in {0} \cup Limits /\ l <= highest
  BY <1>1, <1>2, <1>3, LastLaws, FrameLaws, SMTT(60)
<1>5. /\ op' = [op EXCEPT ![t] = why] /\ lim' = [lim EXCEPT ![t] = l]
      /\ old' \in [Users -> 0 .. W]
      /\ UNCHANGED <<CostSum, CostLimit, frames, owed, highest, trapped, wrapped>>
  BY <1>1, <1>3, <1>w DEF Charge, Begin, Function, LastOf
<1>6. why \in Ops /\ why # "refund"
  BY Zenon DEF Ops, Adds, Flushes
<1>7. Doing(frames[t], why, l, highest)
  BY <1>2, <1>4, Zenon DEF Doing, Flushes
<1> QED BY <1>4, <1>5, <1>6, <1>7, BeginMoves, ZenonT(60)

(* A trap of compiled code keeps both.                                    *)
LEMMA StepTrap == ASSUME GasInv, NEW t \in Users, Trap(t) PROVE GasInv' /\ (Refundable => Refundable')
<1>1. /\ old \in [Users -> 0 .. W] /\ highest \in Limits /\ Doing(frames[t], op[t], lim[t], highest)
  BY TypeLaws, Zenon
<1>w. W \in Nat /\ Limits \subseteq Nat
  BY GasNumbers
<1>2. frames[t] # <<>> /\ LastOf(frames[t]).kind = "compiled"
  <2>1. CASE Runs(t, "compiled")
    BY <2>1, Zenon DEF Runs, Function, LastOf
  <2>2. CASE op[t] \in Flushes
    BY <2>2, <1>1, Zenon DEF Doing, Flushes
  <2> QED BY <2>1, <2>2, Zenon DEF Trap
<1>5. /\ op' = [op EXCEPT ![t] = "trap"] /\ lim' = [lim EXCEPT ![t] = 0]
      /\ old' \in [Users -> 0 .. W]
      /\ UNCHANGED <<CostSum, CostLimit, frames, owed, highest, trapped, wrapped>>
  BY <1>1, <1>w DEF Trap, Goto
<1>6. "trap" \in Ops
  BY Zenon DEF Ops
<1>7. Doing(frames[t], "trap", 0, highest)
  BY <1>1, <1>w, <1>2, SMTT(60) DEF Doing, Flushes
<1> QED BY <1>5, <1>6, <1>7, BeginMoves, ZenonT(60)

-----------------------------------------------------------------------------
(* The refund, and the steps that move units between the counter,         *)
(* LocalGas and what is lost.                                             *)

(* A step that changes the sum, balances and covers keeps both.           *)
LEMMA CostlyStep ==
    ASSUME GasInv, NEW t \in Users, NEW fr, NEW o, NEW l, NEW d, Moves(t, fr, o, l),
           Balances(Pending(frames[t]), Pending(fr), d), Covers(frames[t], op[t], fr, o)
    PROVE  GasInv' /\ (Refundable => Refundable')
<1>1. CostSum' \in 0 .. W - 1
  BY Zenon DEF Balances
<1> QED BY <1>1, StepKeeps, CoverKeeps, Zenon

(* A step by Goto is in normal form.                                      *)
LEMMA GotoMoves ==
    ASSUME GasInv, NEW t \in Users, NEW fr, NEW o, o \in Ops, Goto(t, o),
           frames' = [frames EXCEPT ![t] = fr], UNCHANGED <<CostLimit, highest>>,
           Settled(fr, highest), Doing(fr, o, 0, highest)
    PROVE  Moves(t, fr, o, 0)
<1>1. old \in [Users -> 0 .. W]
  BY TypeLaws, Zenon
<1>2. W \in Nat
  BY GasNumbers, Zenon
<1>3. op' = [op EXCEPT ![t] = o] /\ lim' = [lim EXCEPT ![t] = 0] /\ old' \in [Users -> 0 .. W]
  BY <1>1, <1>2 DEF Goto
<1> QED BY <1>3, Zenon DEF Moves

(* The refund keeps both: Refundable has its Else in the sum.              *)
LEMMA StepRefund == ASSUME GasInv, NEW t \in Users, Refund(t) PROVE GasInv' /\ (Refundable => Refundable')
<1>1. /\ CostSum \in 0 .. W - 1 /\ owed \in 0 .. W - 1 /\ trapped \in BOOLEAN /\ wrapped \in BOOLEAN
      /\ highest \in Limits /\ (trapped \/ CostSum <= highest)
      /\ Settled(frames[t], highest) /\ Doing(frames[t], op[t], lim[t], highest)
  BY TypeLaws, Zenon
<1>w. W \in Nat /\ W # 0 /\ Limits \subseteq 0 .. W - 1
  BY GasNumbers, Zenon
<1>2. PICK c \in 0 .. W - 1 : c = Cost["else"]
  BY GasNumbers, Zenon
<1>3. Amount(t) = c
  BY <1>2, Zenon DEF Refund, Amount, Flushes
<1>4. /\ op[t] = "refund" /\ CostSum > c /\ CostSum' = CostSum - c
      /\ owed' = (owed + W - c) % W /\ UNCHANGED <<CostLimit, frames, highest, trapped, wrapped>>
      /\ Goto(t, "end")
  BY <1>3, Zenon DEF Refund
<1>5. frames' = [frames EXCEPT ![t] = frames[t]]
  BY <1>4, Zenon DEF GasInv, GasTypeOK
<1>6. Doing(frames[t], "end", 0, highest)
  BY <1>1, <1>4, <1>w, SMTT(60) DEF Doing, Flushes
<1>7. "end" \in Ops
  BY Zenon DEF Ops, Adds
<1>8. Moves(t, frames[t], "end", 0)
  BY <1>1, <1>4, <1>5, <1>6, <1>7, GotoMoves, ZenonT(60)
<1>9. PICK p \in 0 .. W - 1 : p = Pending(frames[t])
  BY <1>1, PendingLaw
<1>10. PICK d \in 0 .. W : d = W - c
  BY <1>w
<1>11. owed + W - c = owed + d
  BY <1>1, <1>10, <1>w, SMTT(60)
<1>12. CostSum' \in 0 .. W - 1 /\ CostSum' <= CostSum
  BY <1>1, <1>4, <1>w, SMTT(60)
<1>13. trapped' \/ CostSum' <= highest
  <2>1. CostSum \in Nat /\ CostSum' \in Nat /\ highest \in Nat
    BY <1>1, <1>12, <1>w, SMTT(60)
  <2> QED BY <2>1, <1>1, <1>4, <1>12, SMTT(60)
<1>14. CostSum' + p + W = CostSum + p + d
  BY <1>1, <1>4, <1>10, <1>w, SMTT(60)
<1>15. Balances(p, p, d)
  BY <1>1, <1>4, <1>11, <1>12, <1>13, <1>14, SMTT(60) DEF Balances
<1>16. Covers(frames[t], op[t], frames[t], "end")
  <2>1. Due(op[t]) = c /\ Due("end") = 0
    BY <1>2, <1>4, Zenon DEF Due
  <2>2. CostSum' + Due(op[t]) >= CostSum + Due("end")
    BY <2>1, <1>1, <1>4, <1>w
  <2> QED BY <2>2, <1>4, <1>1, Zenon DEF Covers
<1> QED BY <1>8, <1>9, <1>15, <1>16, CostlyStep, Zenon

(* A charge past the limit keeps both.                                    *)
LEMMA StepStop == ASSUME GasInv, NEW t \in Users, Stop(t) PROVE GasInv' /\ (Refundable => Refundable')
<1>1. /\ Settled(frames[t], highest) /\ Doing(frames[t], op[t], lim[t], highest) /\ highest \in Limits
  BY TypeLaws, Zenon
<1>2. op[t] \in {"instr", "if", "skip", "else", "end", "refund", "host"}
  BY Zenon DEF Stop, Adds
<1>3. frames[t] # <<>> /\ Pending(frames[t]) = 0
  <2>1. frames[t] # <<>>
    BY <1>1, <1>2, Zenon DEF Doing
  <2>2. LastOf(frames[t]).LocalGas = 0
    <3>1. CASE op[t] = "host"
      BY <3>1, <1>1, Zenon DEF Doing
    <3>2. CASE op[t] # "host"
      <4>1. LastOf(frames[t]).kind = "interp"
        BY <3>2, <1>1, <1>2, Zenon DEF Doing
      <4> QED BY <4>1, <2>1, <1>1, LastLaws
    <3> QED BY <3>1, <3>2, Zenon
  <2> QED BY <2>1, <2>2, Zenon DEF Pending
<1>4. /\ frames' = [frames EXCEPT ![t] = <<>>] /\ Goto(t, "none")
      /\ UNCHANGED <<CostSum, CostLimit, owed, highest, trapped, wrapped>>
  BY Zenon DEF Stop
<1>5. Settled(<<>>, highest) /\ Pending(<<>>) = 0 /\ ~InBranch(<<>>)
  BY EmptyStack, Zenon
<1>6. Doing(<<>>, "none", 0, highest)
  BY Zenon DEF Doing, Flushes
<1>7. "none" \in Ops
  BY Zenon DEF Ops
<1>8. Moves(t, <<>>, "none", 0)
  BY <1>4, <1>5, <1>6, <1>7, GotoMoves, ZenonT(60)
<1> QED BY <1>3, <1>4, <1>5, <1>8, QuietStep

(* A return of an interpreted function keeps both.                        *)
LEMMA StepReturnInterp == ASSUME GasInv, NEW t \in Users, returnInterp(t) PROVE GasInv' /\ (Refundable => Refundable')
<1>1. /\ Settled(frames[t], highest) /\ old \in [Users -> 0 .. W]
      /\ op \in [Users -> Ops] /\ lim \in [Users -> {0} \cup Limits]
  BY TypeLaws, Zenon
<1>2. /\ frames[t] # <<>> /\ op[t] = "none" /\ LastOf(frames[t]).kind = "interp"
      /\ UNCHANGED <<CostSum, CostLimit, op, old, lim, owed, highest, trapped, wrapped>>
  BY Zenon DEF returnInterp, Runs, Function, LastOf
<1>3. PICK less : less = SubSeq(frames[t], 1, Len(frames[t]) - 1) /\ frames' = [frames EXCEPT ![t] = less]
  BY Zenon DEF returnInterp, Below
<1>4. Settled(less, highest) /\ Pending(less) = 0 /\ (InBranch(less) => InBranch(frames[t]))
  BY <1>1, <1>2, <1>3, PopLaws, ZenonT(60)
<1>5. Pending(frames[t]) = 0
  BY <1>1, <1>2, LastLaws
<1>6. Doing(less, "none", lim[t], highest)
  BY Zenon DEF Doing, Flushes
<1>7. op' = [op EXCEPT ![t] = "none"] /\ lim' = [lim EXCEPT ![t] = lim[t]] /\ lim[t] \in {0} \cup Limits
  BY <1>1, <1>2, Zenon
<1>8. "none" \in Ops
  BY Zenon DEF Ops
<1>9. Moves(t, less, "none", lim[t])
  BY <1>1, <1>2, <1>3, <1>4, <1>6, <1>7, <1>8, ZenonT(60) DEF Moves
<1> QED BY <1>2, <1>4, <1>5, <1>9, QuietStep

(* The blocks of compiled code keep both: what they execute is in         *)
(* LocalGas.                                                              *)
LEMMA StepExecute == ASSUME GasInv, NEW t \in Users, Execute(t) PROVE GasInv' /\ (Refundable => Refundable')
<1>1. /\ Settled(frames[t], highest) /\ old \in [Users -> 0 .. W]
      /\ op \in [Users -> Ops] /\ lim \in [Users -> {0} \cup Limits]
      /\ CostSum \in 0 .. W - 1 /\ trapped \in BOOLEAN /\ wrapped \in BOOLEAN
      /\ (trapped \/ CostSum <= highest)
  BY TypeLaws, Zenon
<1>w. W \in Nat /\ W # 0
  BY GasNumbers, Zenon
<1>2. /\ frames[t] # <<>> /\ op[t] = "none" /\ LastOf(frames[t]).kind = "compiled"
      /\ UNCHANGED <<CostSum, CostLimit, op, old, lim, highest, trapped>>
  BY Zenon DEF Execute, Runs, Function, LastOf
<1>3. PICK f \in Frames : f = LastOf(frames[t]) /\ f.GasLimit <= highest
  BY <1>1, <1>2, LastLaws, Zenon
<1>4. PICK c \in 0 .. W - 1 : c = Cost["instr"]
  BY GasNumbers, Zenon
<1>5. PICK p \in 0 .. W - 1 : p = f.LocalGas /\ p = Pending(frames[t])
  BY <1>1, <1>2, <1>3, LastLaws, FrameLaws, SMTT(60)
<1>6. PICK q \in 0 .. W - 1 : q = (p + c) % W
  BY ModSum, Zenon
<1>7. PICK g : g = [f EXCEPT !.LocalGas = q]
  BY ZenonT(60)
<1>8. g \in Frames /\ g.LocalGas = q /\ g.kind = "compiled" /\ g.GasLimit <= highest /\ g.ifs = f.ifs
  BY <1>2, <1>3, <1>7 DEF Frames
<1>9. PICK fr : fr = SetLast(frames[t], g)
  BY Zenon
<1>10. frames' = [frames EXCEPT ![t] = fr]
  BY <1>3, <1>4, <1>5, <1>6, <1>7, <1>9, SMTT(60) DEF Execute, SetLast, LastOf
<1>11. /\ Settled(fr, highest) /\ Pending(fr) = q
       /\ InBranch(fr) => InBranch(frames[t]) \/ f.ifs > 0
  BY <1>1, <1>2, <1>8, <1>9, SetLastLaws, ZenonT(60)
<1>12. InBranch(fr) => InBranch(frames[t])
  BY <1>1, <1>2, <1>3, <1>11, LastLaws, ZenonT(60)
<1>13. Doing(fr, "none", lim[t], highest)
  BY Zenon DEF Doing, Flushes
<1>14. op' = [op EXCEPT ![t] = "none"] /\ lim' = [lim EXCEPT ![t] = lim[t]] /\ lim[t] \in {0} \cup Limits
  BY <1>1, <1>2
<1>15. "none" \in Ops
  BY Zenon DEF Ops
<1>16. Moves(t, fr, "none", lim[t])
  BY <1>1, <1>2, <1>10, <1>11, <1>13, <1>14, <1>15, ZenonT(60) DEF Moves
<1>17. q = IF p + c >= W THEN p + c - W ELSE p + c
  BY <1>6, ModSum, Zenon
<1>18. CostSum + q = CostSum + p + c \/ CostSum + q + W = CostSum + p + c
  BY <1>1, <1>17, <1>w
<1>19. owed' = (owed + c) % W /\ wrapped' = (wrapped \/ p + c >= W)
  BY <1>3, <1>4, <1>5, Zenon DEF Execute, Function, LastOf
<1>20. Balances(p, q, c)
  BY <1>1, <1>2, <1>18, <1>19, <1>w DEF Balances
<1>21. Covers(frames[t], op[t], fr, "none")
  <2>1. Due(op[t]) = 0 /\ Due("none") = 0
    BY <1>2, Zenon DEF Due
  <2>2. CostSum' + Due(op[t]) >= CostSum + Due("none")
    BY <2>1, <1>1, <1>2, <1>w, SMTT(60)
  <2> QED BY <2>2, <1>12, <1>19, ZenonT(60) DEF Covers
<1> QED BY <1>5, <1>11, <1>16, <1>20, <1>21, CostlyStep, ZenonT(60)

(* What is charged at a trap, without regard to the limit, keeps both.    *)
LEMMA StepAtTrap == ASSUME GasInv, NEW t \in Users, updateGasAtTrap(t) PROVE GasInv' /\ (Refundable => Refundable')
<1>1. /\ Settled(frames[t], highest) /\ Doing(frames[t], op[t], lim[t], highest)
      /\ CostSum \in 0 .. W - 1 /\ owed \in 0 .. W - 1 /\ wrapped \in BOOLEAN
  BY TypeLaws, Zenon
<1>w. W \in Nat /\ W # 0
  BY GasNumbers, Zenon
<1>2. op[t] = "trap" /\ frames[t] # <<>>
  BY <1>1, Zenon DEF updateGasAtTrap, Doing
<1>3. PICK p \in 0 .. W - 1 : p = LastOf(frames[t]).LocalGas /\ p = Pending(frames[t])
  BY <1>1, <1>2, LastLaws, FrameLaws, Zenon
<1>4. /\ frames' = [frames EXCEPT ![t] = <<>>] /\ Goto(t, "none")
      /\ CostSum' = (CostSum + p) % W /\ wrapped' = (wrapped \/ CostSum + p >= W) /\ trapped' = TRUE
      /\ UNCHANGED <<CostLimit, owed, highest>>
  BY <1>3, Zenon DEF updateGasAtTrap, Function, LastOf
<1>5. Settled(<<>>, highest) /\ Pending(<<>>) = 0 /\ ~InBranch(<<>>)
  BY EmptyStack, Zenon
<1>6. Doing(<<>>, "none", 0, highest)
  BY Zenon DEF Doing, Flushes
<1>7. "none" \in Ops
  BY Zenon DEF Ops
<1>8. Moves(t, <<>>, "none", 0)
  BY <1>4, <1>5, <1>6, <1>7, GotoMoves, ZenonT(60)
<1>9. CostSum' \in 0 .. W - 1 /\ CostSum' = IF CostSum + p >= W THEN CostSum + p - W ELSE CostSum + p
  BY <1>1, <1>4, ModSum, Zenon
<1>10. owed' = (owed + 0) % W
  <2>1. 0 \in 0 .. W - 1 /\ ~(owed + 0 >= W) /\ owed + 0 = owed
    BY <1>1, <1>w, SMTT(60)
  <2>2. (owed + 0) % W = IF owed + 0 >= W THEN owed + 0 - W ELSE owed + 0
    BY <1>1, <2>1, ModSum, Zenon
  <2> QED BY <2>1, <2>2, <1>4, Zenon
<1>11. CostSum' + 0 = CostSum + p + 0 \/ CostSum' + 0 + W = CostSum + p + 0
  BY <1>1, <1>9, <1>w, SMTT(60)
<1>12. Balances(p, 0, 0)
  BY <1>1, <1>4, <1>9, <1>10, <1>11, <1>w, SMTT(60) DEF Balances
<1>13. Covers(frames[t], op[t], <<>>, "none")
  <2>1. Due(op[t]) = 0 /\ Due("none") = 0
    BY <1>2, Zenon DEF Due
  <2>2. ~wrapped' => CostSum' + Due(op[t]) >= CostSum + Due("none")
    <3>1. ~wrapped' => ~(CostSum + p >= W)
      BY <1>4, ZenonT(60)
    <3>2. ~wrapped' => CostSum' = CostSum + p
      BY <3>1, <1>9, Zenon
    <3> QED BY <2>1, <3>2, <1>1, <1>w
  <2> QED BY <2>2, <1>4, <1>5, ZenonT(60) DEF Covers
<1> QED BY <1>3, <1>5, <1>8, <1>12, <1>13, CostlyStep, SMTT(60)

(* A jump out of compiled code keeps both: what it loses is no longer     *)
(* owed.                                                                  *)
LEMMA StepJumpOut == ASSUME GasInv, NEW t \in Users, JumpOut(t) PROVE GasInv' /\ (Refundable => Refundable')
<1>1. /\ Settled(frames[t], highest) /\ old \in [Users -> 0 .. W]
      /\ op \in [Users -> Ops] /\ lim \in [Users -> {0} \cup Limits]
      /\ CostSum \in 0 .. W - 1 /\ owed \in 0 .. W - 1 /\ trapped \in BOOLEAN /\ wrapped \in BOOLEAN
      /\ (trapped \/ CostSum <= highest)
  BY TypeLaws, Zenon
<1>w. W \in Nat /\ W # 0
  BY GasNumbers, Zenon
<1>2. frames[t] # <<>> /\ op[t] = "none"
  BY Zenon DEF JumpOut, Runs
<1>3. PICK p \in 0 .. W - 1 : p = LastOf(frames[t]).LocalGas /\ p = Pending(frames[t])
  BY <1>1, <1>2, LastLaws, FrameLaws, Zenon
<1>4. /\ frames' = [frames EXCEPT ![t] = <<>>] /\ owed' = (owed + W - p) % W
      /\ UNCHANGED <<CostSum, CostLimit, op, old, lim, highest, trapped, wrapped>>
  BY <1>3, ZenonT(60) DEF JumpOut, Function, LastOf
<1>5. Settled(<<>>, highest) /\ Pending(<<>>) = 0 /\ ~InBranch(<<>>)
  BY EmptyStack, Zenon
<1>6. Doing(<<>>, "none", lim[t], highest)
  BY Zenon DEF Doing, Flushes
<1>7. op' = [op EXCEPT ![t] = "none"] /\ lim' = [lim EXCEPT ![t] = lim[t]] /\ lim[t] \in {0} \cup Limits
      /\ "none" \in Ops
  BY <1>1, <1>2, <1>4, Zenon DEF Ops
<1>8. Moves(t, <<>>, "none", lim[t])
  BY <1>1, <1>4, <1>5, <1>6, <1>7, ZenonT(60) DEF Moves
<1>9. PICK d \in 0 .. W : d = W - p
  BY <1>w
<1>10. owed + W - p = owed + d
  BY <1>1, <1>9, <1>w, Zenon
<1>11. CostSum' + 0 + W = CostSum + p + d
  BY <1>1, <1>4, <1>9, <1>w, SMTT(60)
<1>12. Balances(p, 0, d)
  BY <1>1, <1>4, <1>10, <1>11, Zenon DEF Balances
<1>13. Covers(frames[t], op[t], <<>>, "none")
  <2>1. Due(op[t]) = 0 /\ Due("none") = 0
    BY <1>2, Zenon DEF Due
  <2>2. CostSum' + Due(op[t]) >= CostSum + Due("none")
    BY <2>1, <1>1, <1>4, <1>w, SMTT(60)
  <2> QED BY <2>2, <1>4, <1>5, Zenon DEF Covers
<1> QED BY <1>3, <1>5, <1>8, <1>12, <1>13, CostlyStep, Zenon

-----------------------------------------------------------------------------
(* The charge, the host's own steps, and the theorems.                    *)

(* The charge c of t is paid.                                             *)
Paid(t, c) ==
    /\ c \in 0 .. W - 1
    /\ CostSum' \in 0 .. W - 1 /\ CostSum' <= highest
    /\ CostSum' = IF CostSum + c >= W THEN CostSum + c - W ELSE CostSum + c
    /\ wrapped' = (wrapped \/ CostSum + c >= W)
    /\ trapped' = trapped /\ op[t] # "refund"

(* What t is charged for each operation.                                  *)
LEMMA Amounts ==
    ASSUME GasInv, NEW t \in Users, op[t] \in Adds
    PROVE  /\ Amount(t) \in 0 .. W - 1
           /\ op[t] = "if" => Amount(t) = Cost["if"]
           /\ op[t] = "else" => Amount(t) = Cost["else"]
           /\ op[t] \in Flushes => Amount(t) = Pending(frames[t])
<1>1. Settled(frames[t], highest) /\ Doing(frames[t], op[t], lim[t], highest)
  BY TypeLaws, ZenonT(60)
<1>2. frames[t] # <<>>
  BY <1>1, Zenon DEF Doing, Adds, Flushes
<1>3. PICK p \in 0 .. W - 1 : p = Pending(frames[t]) /\ p = Function(t).LocalGas
  BY <1>1, <1>2, LastLaws, FrameLaws, ZenonT(60) DEF Function, LastOf
<1>4. CASE op[t] \in Flushes
  <2>1. Amount(t) = Function(t).LocalGas
    BY <1>4, Zenon DEF Amount, Flushes
  <2> QED BY <2>1, <1>3, <1>4, Zenon DEF Flushes
<1>5. CASE op[t] \notin Flushes
  <2>1. op[t] \in {"instr", "if", "skip", "else", "end", "host"}
    BY <1>5, Zenon DEF Adds
  <2>2. Amount(t) = IF op[t] = "instr" THEN Cost["instr"] ELSE IF op[t] = "if" THEN Cost["if"]
                    ELSE IF op[t] \in {"skip", "else"} THEN Cost["else"]
                    ELSE IF op[t] = "end" THEN Cost["end"] ELSE Cost["host"]
    BY <2>1, <1>5, Zenon DEF Amount
  <2> QED BY <2>1, <2>2, <1>5, GasNumbers, Zenon
<1> QED BY <1>4, <1>5, Zenon

(* An exchange that succeeds pays it, and within the limit t read.        *)
LEMMA PayPays ==
    ASSUME GasInv, NEW t \in Users, Pay(t)
    PROVE  Paid(t, Amount(t))
<1>1. /\ CostSum \in 0 .. W - 1 /\ highest \in Limits /\ lim \in [Users -> {0} \cup Limits]
      /\ Doing(frames[t], op[t], lim[t], highest)
  BY TypeLaws, Zenon
<1>2. PICK c \in 0 .. W - 1 : c = Amount(t)
  BY Amounts, Zenon DEF Pay
<1>3. /\ op[t] \in Adds /\ ~((CostSum + c) % W > lim[t]) /\ CostSum' = (CostSum + c) % W
      /\ wrapped' = (wrapped \/ CostSum + c >= W) /\ trapped' = trapped
  BY <1>2, Zenon DEF Pay, Exceeds
<1>4. CostSum' \in 0 .. W - 1 /\ CostSum' = IF CostSum + c >= W THEN CostSum + c - W ELSE CostSum + c
  BY <1>1, <1>3, ModSum, Zenon
<1>5. op[t] # "none" /\ op[t] # "refund"
  BY <1>3, Zenon DEF Adds, Flushes
<1>6. lim[t] <= highest /\ ~(CostSum' > lim[t])
  BY <1>1, <1>3, <1>5, Zenon DEF Doing
<1>7. CostSum' <= highest
  <2>1. CostSum' \in Nat /\ lim[t] \in Nat /\ highest \in Nat
    BY <1>1, <1>4, GasNumbers, SMTT(60)
  <2> QED BY <2>1, <1>6, SMTT(60)
<1>8. Paid(t, c)
  BY <1>3, <1>4, <1>5, <1>7, Zenon DEF Paid
<1> QED BY <1>2, <1>8, Zenon

(* A charge of the interpreter keeps both.                                *)
LEMMA InstructionPaid ==
    ASSUME GasInv, NEW t \in Users, NEW fr, NEW o, NEW c, Moves(t, fr, o, 0), Paid(t, c),
           owed' = (owed + c) % W, Pending(fr) = Pending(frames[t]), o = "refund" => c = Cost["else"],
           (InBranch(fr) => InBranch(frames[t])) \/ (o # "refund" /\ c = Cost["if"])
    PROVE  GasInv' /\ (Refundable => Refundable')
<1>1. /\ CostSum \in 0 .. W - 1 /\ trapped \in BOOLEAN /\ wrapped \in BOOLEAN /\ Settled(frames[t], highest)
  BY TypeLaws, Zenon
<1>w. W \in Nat /\ W # 0
  BY GasNumbers, Zenon
<1>2. /\ c \in 0 .. W - 1 /\ CostSum' \in 0 .. W - 1 /\ CostSum' <= highest
      /\ CostSum' = IF CostSum + c >= W THEN CostSum + c - W ELSE CostSum + c
      /\ wrapped' = (wrapped \/ CostSum + c >= W) /\ trapped' = trapped /\ op[t] # "refund"
  BY Zenon DEF Paid
<1>3. PICK p \in 0 .. W - 1 : p = Pending(frames[t])
  BY <1>1, PendingLaw, Zenon
<1>4. CostSum' + p = CostSum + p + c \/ CostSum' + p + W = CostSum + p + c
  BY <1>1, <1>2, <1>w, SMTT(60)
<1>5. wrapped' \in BOOLEAN /\ c \in 0 .. W
  BY <1>1, <1>2, <1>w, SMTT(60)
<1>6. Balances(p, p, c)
  BY <1>1, <1>2, <1>4, <1>5, Zenon DEF Balances
<1>7. Covers(frames[t], op[t], fr, o)
  <2>1. Due(op[t]) = 0 /\ (o # "refund" => Due(o) = 0) /\ (o = "refund" => Due(o) = c)
    BY <1>2, Zenon DEF Due
  <2>2. CASE wrapped'
    BY <2>2, Zenon DEF Covers
  <2>3. CASE ~wrapped'
    <3>1. ~wrapped /\ CostSum' = CostSum + c
      BY <2>3, <1>2, ZenonT(60)
    <3>2. CASE o = "refund"
      <4>1. CostSum' + Due(op[t]) >= CostSum + Due(o)
        BY <2>1, <3>1, <3>2, <1>1, <1>2, <1>w, SMTT(60)
      <4> QED BY <4>1, <3>1, <3>2, Zenon DEF Covers
    <3>3. CASE o # "refund"
      <4>1. CostSum' + Due(op[t]) >= CostSum + Due(o) /\ CostSum' + Due(op[t]) >= CostSum + Due(o) + c
        BY <2>1, <3>1, <3>3, <1>1, <1>2, <1>w, SMTT(60)
      <4> QED BY <4>1, <3>1, <3>3, Zenon DEF Covers
    <3> QED BY <3>2, <3>3, Zenon
  <2> QED BY <2>2, <2>3, Zenon
<1> QED BY <1>3, <1>6, <1>7, CostlyStep, Zenon

(* A charge of what LocalGas has keeps both.                              *)
LEMMA BlockPaid ==
    ASSUME GasInv, NEW t \in Users, NEW fr, NEW o, NEW c, Moves(t, fr, o, 0), Paid(t, c),
           owed' = owed, c = Pending(frames[t]), Pending(fr) = 0, o # "refund",
           InBranch(fr) => InBranch(frames[t])
    PROVE  GasInv' /\ (Refundable => Refundable')
<1>1. /\ CostSum \in 0 .. W - 1 /\ owed \in 0 .. W - 1 /\ trapped \in BOOLEAN /\ wrapped \in BOOLEAN
  BY TypeLaws, Zenon
<1>w. W \in Nat /\ W # 0
  BY GasNumbers, Zenon
<1>2. /\ c \in 0 .. W - 1 /\ CostSum' \in 0 .. W - 1 /\ CostSum' <= highest
      /\ CostSum' = IF CostSum + c >= W THEN CostSum + c - W ELSE CostSum + c
      /\ wrapped' = (wrapped \/ CostSum + c >= W) /\ trapped' = trapped /\ op[t] # "refund"
  BY Zenon DEF Paid
<1>3. CostSum' + 0 = CostSum + c + 0 \/ CostSum' + 0 + W = CostSum + c + 0
  BY <1>1, <1>2, <1>w
<1>4. owed' = (owed + 0) % W
  <2>1. 0 \in 0 .. W - 1 /\ ~(owed + 0 >= W) /\ owed + 0 = owed
    BY <1>1, <1>w
  <2>2. (owed + 0) % W = IF owed + 0 >= W THEN owed + 0 - W ELSE owed + 0
    BY <1>1, <2>1, ModSum, SMTT(60)
  <2> QED BY <2>1, <2>2, Zenon
<1>5. wrapped' \in BOOLEAN /\ 0 \in 0 .. W
  BY <1>1, <1>2, <1>w, SMTT(60)
<1>6. Balances(c, 0, 0)
  BY <1>1, <1>2, <1>3, <1>4, <1>5, Zenon DEF Balances
<1>7. Covers(frames[t], op[t], fr, o)
  <2>1. Due(op[t]) = 0 /\ Due(o) = 0
    BY <1>2, Zenon DEF Due
  <2>2. CASE wrapped'
    BY <2>2, Zenon DEF Covers
  <2>3. CASE ~wrapped'
    <3>1. ~wrapped /\ CostSum' = CostSum + c
      BY <2>3, <1>2, ZenonT(60)
    <3>2. CostSum' + Due(op[t]) >= CostSum + Due(o)
      BY <2>1, <3>1, <1>1, <1>2, <1>w, SMTT(60)
    <3> QED BY <3>1, <3>2, Zenon DEF Covers
  <2> QED BY <2>2, <2>3, Zenon
<1> QED BY <1>6, <1>7, CostlyStep, Zenon

(* An exchange that succeeds keeps both.                                  *)
LEMMA StepPay == ASSUME GasInv, NEW t \in Users, Pay(t) PROVE GasInv' /\ (Refundable => Refundable')
<1>1. /\ Settled(frames[t], highest) /\ Doing(frames[t], op[t], lim[t], highest) /\ highest \in Limits
      /\ op[t] \in Adds
  BY TypeLaws, ZenonT(60) DEF Pay
<1>w. W \in Nat /\ W # 0 /\ Limits \subseteq Nat
  BY GasNumbers
<1>2. PICK c \in 0 .. W - 1 : c = Amount(t) /\ Paid(t, c)
  BY <1>1, PayPays, Amounts, Zenon
<1>3. /\ op[t] = "if" => c = Cost["if"]
      /\ op[t] = "else" => c = Cost["else"]
      /\ op[t] \in Flushes => c = Pending(frames[t])
  BY <1>1, <1>2, Amounts, Zenon
<1>4. /\ owed' = IF op[t] \in Flushes THEN owed ELSE (owed + c) % W
      /\ UNCHANGED <<CostLimit, highest>> /\ Continue(t)
  BY <1>2, Zenon DEF Pay
<1>5. frames[t] # <<>>
  BY <1>1, ZenonT(60) DEF Doing, Adds, Flushes
<1>6. PICK f \in Frames : f = LastOf(frames[t]) /\ f.GasLimit <= highest
                          /\ f.LocalGas = Pending(frames[t]) /\ (f.ifs > 0 => InBranch(frames[t]))
                          /\ (f.kind = "interp" => f.LocalGas = 0)
  BY <1>1, <1>5, LastLaws, Zenon
<1>7. "none" \in Ops /\ "enter" \in Ops /\ "skip" \in Ops /\ "refund" \in Ops
  BY Zenon DEF Ops, Adds
<1>8. ASSUME NEW fr, Settled(fr, highest) PROVE Doing(fr, "none", 0, highest)
  BY Zenon DEF Doing, Flushes
<1>9. ASSUME frames' = frames PROVE frames' = [frames EXCEPT ![t] = frames[t]]
  BY <1>9, Zenon DEF GasInv, GasTypeOK
<1>10. CASE op[t] \in {"instr", "skip", "host"} /\ Goto(t, "none") /\ UNCHANGED frames
  <2>1. Moves(t, frames[t], "none", 0)
    BY <1>1, <1>4, <1>7, <1>8, <1>9, <1>10, GotoMoves, Zenon
  <2>2. op[t] \notin Flushes
    BY <1>10, Zenon DEF Flushes
  <2> QED BY <2>1, <2>2, <1>2, <1>4, InstructionPaid, Zenon
<1>11. CASE op[t] = "instr" /\ Goto(t, "enter") /\ UNCHANGED frames
  <2>1. Doing(frames[t], "enter", 0, highest)
    BY <1>1, <1>5, <1>6, <1>11, <1>w, SMTT(60) DEF Doing, Flushes
  <2>2. Moves(t, frames[t], "enter", 0)
    BY <2>1, <1>1, <1>4, <1>7, <1>9, <1>11, GotoMoves, Zenon
  <2>3. op[t] \notin Flushes
    BY <1>11, Zenon DEF Flushes
  <2> QED BY <2>2, <2>3, <1>2, <1>4, InstructionPaid, ZenonT(60)
<1>12. CASE op[t] = "if" /\ Goto(t, "skip") /\ UNCHANGED frames
  <2>1. Doing(frames[t], "skip", 0, highest)
    BY <1>1, <1>5, <1>12, <1>w, SMTT(60) DEF Doing, Flushes
  <2>2. Moves(t, frames[t], "skip", 0)
    BY <2>1, <1>1, <1>4, <1>7, <1>9, <1>12, GotoMoves, Zenon
  <2>3. op[t] \notin Flushes
    BY <1>12, Zenon DEF Flushes
  <2> QED BY <2>2, <2>3, <1>2, <1>4, InstructionPaid, ZenonT(60)
<1>13. CASE op[t] = "if" /\ Goto(t, "none") /\ UNCHANGED frames
  <2>1. Moves(t, frames[t], "none", 0)
    BY <1>1, <1>4, <1>7, <1>8, <1>9, <1>13, GotoMoves, SMTT(60)
  <2>2. op[t] \notin Flushes
    BY <1>13, Zenon DEF Flushes
  <2> QED BY <2>1, <2>2, <1>2, <1>4, InstructionPaid, Zenon
<1>14. CASE op[t] = "if" /\ Goto(t, "none") /\ frames' = [frames EXCEPT ![t][Len(frames[t])].ifs = @ + 1]
  <2>1. PICK g : g = [f EXCEPT !.ifs = @ + 1]
    BY Zenon
  <2>2. g \in Frames /\ g.LocalGas = f.LocalGas /\ g.kind = f.kind /\ g.GasLimit = f.GasLimit
    BY <2>1 DEF Frames
  <2>3. PICK fr : fr = SetLast(frames[t], g)
    BY Zenon
  <2>4. frames' = [frames EXCEPT ![t] = fr]
    BY <1>6, <1>14, <2>1, <2>3, Zenon DEF SetLast, LastOf
  <2>5. Settled(fr, highest) /\ Pending(fr) = Pending(frames[t])
    BY <1>1, <1>5, <1>6, <2>2, <2>3, SetLastLaws, ZenonT(60)
  <2>6. Moves(t, fr, "none", 0)
    BY <2>4, <2>5, <1>4, <1>7, <1>8, <1>14, GotoMoves, ZenonT(60)
  <2>7. op[t] \notin Flushes
    BY <1>14, Zenon DEF Flushes
  <2> QED BY <2>5, <2>6, <2>7, <1>2, <1>3, <1>4, <1>14, InstructionPaid, SMTT(60)
<1>15. CASE op[t] = "else" /\ Goto(t, "refund") /\ UNCHANGED frames
  <2>1. Doing(frames[t], "refund", 0, highest)
    BY <1>1, <1>5, <1>15, <1>w, SMTT(60) DEF Doing, Flushes
  <2>2. Moves(t, frames[t], "refund", 0)
    BY <2>1, <1>1, <1>4, <1>7, <1>9, <1>15, GotoMoves, SMTT(60)
  <2>3. op[t] \notin Flushes
    BY <1>15, Zenon DEF Flushes
  <2> QED BY <2>2, <2>3, <1>2, <1>3, <1>4, <1>15, InstructionPaid, ZenonT(60)
<1>16. CASE op[t] = "end" /\ Goto(t, "none") /\ frames' = [frames EXCEPT ![t][Len(frames[t])].ifs = @ - 1]
  <2>0. f.ifs > 0 /\ f.ifs \in Nat
    BY <1>1, <1>6, <1>16, FrameLaws, Zenon DEF Doing
  <2>1. PICK g : g = [f EXCEPT !.ifs = @ - 1]
    BY ZenonT(60)
  <2>2. g \in Frames /\ g.LocalGas = f.LocalGas /\ g.kind = f.kind /\ g.GasLimit = f.GasLimit
    <3>1. f.ifs - 1 \in Nat
      BY <2>0
    <3> QED BY <2>1, <3>1, Zenon DEF Frames
  <2>3. PICK fr : fr = SetLast(frames[t], g)
    BY Zenon
  <2>4. frames' = [frames EXCEPT ![t] = fr]
    BY <1>6, <1>16, <2>1, <2>3, SMTT(60) DEF SetLast, LastOf
  <2>5. Settled(fr, highest) /\ Pending(fr) = Pending(frames[t])
    BY <1>1, <1>5, <1>6, <2>2, <2>3, SetLastLaws, Zenon
  <2>6. Moves(t, fr, "none", 0)
    BY <2>4, <2>5, <1>4, <1>7, <1>8, <1>16, GotoMoves, ZenonT(60)
  <2>7. op[t] \notin Flushes
    BY <1>16, Zenon DEF Flushes
  <2>8. InBranch(frames[t])
    BY <2>0, <1>6, Zenon
  <2> QED BY <2>5, <2>6, <2>7, <2>8, <1>2, <1>4, InstructionPaid, ZenonT(60)
<1>17. ASSUME NEW o \in {"none", "enter"}, op[t] \in Flushes, Goto(t, o),
              frames' = [frames EXCEPT ![t][Len(frames[t])].LocalGas = 0]
       PROVE  GasInv' /\ (Refundable => Refundable')
  <2>1. PICK g : g = [f EXCEPT !.LocalGas = 0]
    BY Zenon
  <2>2. g \in Frames /\ g.LocalGas = 0 /\ g.kind = f.kind /\ g.GasLimit = f.GasLimit /\ g.ifs = f.ifs
    BY <2>1, <1>w DEF Frames
  <2>3. PICK fr : fr = SetLast(frames[t], g)
    BY Zenon
  <2>4. frames' = [frames EXCEPT ![t] = fr]
    BY <1>6, <1>17, <2>1, <2>3, Zenon DEF SetLast, LastOf
  <2>5. /\ Settled(fr, highest) /\ Pending(fr) = 0 /\ fr # <<>> /\ LastOf(fr) = g
        /\ InBranch(fr) => InBranch(frames[t]) \/ g.ifs > 0
    BY <1>1, <1>5, <1>6, <2>2, <2>3, SetLastLaws, ZenonT(60)
  <2>6. InBranch(fr) => InBranch(frames[t])
    BY <2>2, <2>5, <1>6, Zenon
  <2>7. Doing(fr, o, 0, highest)
    BY <2>2, <2>5, <1>1, <1>17, <1>w, SMTT(60) DEF Doing, Flushes
  <2>8. Moves(t, fr, o, 0)
    BY <2>4, <2>5, <2>7, <1>4, <1>7, <1>17, GotoMoves, ZenonT(60)
  <2> QED BY <2>5, <2>6, <2>8, <1>2, <1>3, <1>4, <1>17, BlockPaid, SMTT(60)
<1>18. CASE op[t] = "return" /\ Goto(t, "none") /\ frames' = [frames EXCEPT ![t] = Below(t)]
  <2>1. PICK less : less = SubSeq(frames[t], 1, Len(frames[t]) - 1) /\ frames' = [frames EXCEPT ![t] = less]
    BY <1>18, ZenonT(60) DEF Below
  <2>2. Settled(less, highest) /\ Pending(less) = 0 /\ (InBranch(less) => InBranch(frames[t]))
    BY <2>1, <1>1, <1>5, PopLaws, Zenon
  <2>3. Moves(t, less, "none", 0)
    BY <2>1, <2>2, <1>4, <1>7, <1>8, <1>18, GotoMoves, ZenonT(60)
  <2>4. op[t] \in Flushes
    BY <1>18, Zenon DEF Flushes
  <2> QED BY <2>2, <2>3, <2>4, <1>2, <1>3, <1>4, BlockPaid, ZenonT(60)
<1>19. "block" \in Flushes /\ "jump" \in Flushes
  BY Zenon DEF Flushes
<1> QED
  BY <1>4, <1>10, <1>11, <1>12, <1>13, <1>14, <1>15, <1>16, <1>17, <1>18, <1>19, SMTT(60) DEF Continue

-----------------------------------------------------------------------------
(* A higher limit disturbs no thread.                                     *)
LEMMA Raises ==
    ASSUME NEW fr, NEW o, NEW l, NEW high \in Limits, NEW higher \in Limits, high <= higher,
           l \in {0} \cup Limits, Settled(fr, high), Doing(fr, o, l, high)
    PROVE  Settled(fr, higher) /\ Doing(fr, o, l, higher)
<1>1. Limits \subseteq Nat
  BY GasNumbers, SMTT(60)
<1>2. fr \in Seq(Frames) /\ \A i \in 1 .. Len(fr) : fr[i] \in Frames
  BY DEF Settled
<1>3. \A i \in 1 .. Len(fr) : fr[i].GasLimit \in Nat
  <2> SUFFICES ASSUME NEW i \in 1 .. Len(fr) PROVE fr[i].GasLimit \in Nat
    BY Zenon
  <2>0. PICK f \in Frames : f = fr[i]
    BY <1>2, Zenon
  <2>1. f.GasLimit \in {0} \cup Limits
    BY FrameLaws, Zenon
  <2>3. 0 \in Nat
    BY Zenon
  <2>2. f.GasLimit \in Nat
    BY <2>1, <2>3, <1>1, ZenonT(60)
  <2> QED BY <2>0, <2>2, Zenon
<1>4. \A i \in 1 .. Len(fr) : fr[i].GasLimit <= higher
  BY <1>1, <1>3 DEF Settled
<1>5. l <= high => l <= higher
  BY <1>1
<1> QED BY <1>2, <1>4, <1>5, Zenon DEF Settled, Doing

(* A limit the host sets keeps GasInv.                                    *)
LEMMA StepLimit == ASSUME GasInv, NEW l \in Limits, setCostLimit(l) PROVE GasInv'
<1>1. /\ CostSum \in 0 .. W - 1 /\ highest \in Limits /\ (trapped \/ CostSum <= highest)
      /\ lim \in [Users -> {0} \cup Limits]
      /\ \A t \in Users : Settled(frames[t], highest) /\ Doing(frames[t], op[t], lim[t], highest)
  BY TypeLaws, Zenon
<1>w. W \in Nat /\ Limits \subseteq Nat
  BY GasNumbers
<1>2. /\ CostLimit' = l /\ highest' = IF l > highest THEN l ELSE highest
      /\ UNCHANGED <<CostSum, frames, op, old, lim, owed, trapped, wrapped>>
  BY Zenon DEF setCostLimit
<1>3. highest' \in Limits /\ highest <= highest' /\ l <= highest'
  BY <1>1, <1>2, <1>w, SMTT(60)
<1>4. \A t \in Users : Settled(frames[t], highest') /\ Doing(frames[t], op[t], lim[t], highest')
  BY <1>1, <1>3, Raises, Zenon
<1>5. trapped \/ CostSum <= highest'
  <2>1. CostSum \in Nat /\ highest \in Nat /\ highest' \in Nat
    BY <1>1, <1>3, <1>w, SMTT(60)
  <2> QED BY <2>1, <1>1, <1>3, SMTT(60)
<1>6. GasTypeOK'
  BY <1>2, <1>3, Zenon DEF GasInv, GasTypeOK
<1>7. GasAccounted' /\ IsFiniteSet(Units(frames'))
  BY <1>2, Zenon DEF GasInv, GasAccounted, Uncharged
<1>8. GasInv'
  BY <1>2, <1>3, <1>4, <1>5, <1>6, <1>7, Zenon DEF GasInv, LimitRespected
<1> QED BY <1>8, Zenon

(* No call, no units.                                                     *)
LEMMA NoUnits ==
    ASSUME NEW calls, \A t \in Users : calls[t] = <<>>
    PROVE  IsFiniteSet(Units(calls)) /\ Cardinality(Units(calls)) = 0
<1>1. Units(calls) = {}
  <2>1. ASSUME NEW u \in Units(calls) PROVE FALSE
    BY <2>1, UnitsLaw
  <2> QED BY <2>1, Zenon
<1> QED BY <1>1, FS_EmptySet, Zenon

(* No function runs and nothing is charged: the initial state.            *)
Fresh ==
    /\ frames \in [Users -> Seq(Frames)] /\ op \in [Users -> Ops]
    /\ lim \in [Users -> {0} \cup Limits] /\ old \in [Users -> 0 .. W]
    /\ \A t \in Users : frames[t] = <<>> /\ op[t] = "none"
    /\ CostSum = 0 /\ owed = 0 /\ trapped = FALSE /\ wrapped = FALSE /\ cleared = FALSE
    /\ CostLimit \in Limits /\ highest = CostLimit

(* Nothing is to be paid back when no thread is in a branch.              *)
NobodyIn == \A t \in Users : op[t] # "refund" /\ ~InBranch(frames[t])
LEMMA NothingToCover == NobodyIn /\ CostSum \in Nat => IsFiniteSet(Refunding) /\ Covered
<1> SUFFICES ASSUME NobodyIn, CostSum \in Nat PROVE IsFiniteSet(Refunding) /\ Covered
  BY Zenon
<1>1. Refunding = {} /\ ~Branching
  BY Zenon DEF Refunding, Branching, NobodyIn
<1>2. IsFiniteSet(Refunding) /\ Cardinality(Refunding) = 0
  BY <1>1, FS_EmptySet, Zenon
<1>3. PICK c \in Nat : c = Cost["else"]
  BY GasNumbers
<1>4. 0 * c + 0 <= CostSum
  OBVIOUS
<1> QED BY <1>1, <1>2, <1>3, <1>4, Zenon DEF Covered

(* Both are true of such a state.                                         *)
LEMMA FreshState == Fresh => GasInv /\ RefundInv
<1> SUFFICES ASSUME Fresh PROVE GasInv /\ RefundInv
  BY Zenon
<1> USE DEF Fresh
<1>w. W \in Nat /\ W # 0 /\ Limits \subseteq Nat
  BY GasNumbers
<1>1. IsFiniteSet(Units(frames)) /\ Uncharged = 0
  BY NoUnits, Zenon DEF Uncharged
<1>2. GasAccounted
  <2>1. Splits(0, W, 0, 0)
    BY <1>w DEF Splits
  <2>2. 0 % W = 0
    BY <2>1, Unique, Zenon
  <2>3. CostSum + Uncharged = 0
    BY <1>1
  <2> QED BY <2>2, <2>3, Zenon DEF GasAccounted
<1>3. GasTypeOK
  <2>1. CostSum \in 0 .. W - 1 /\ owed \in 0 .. W - 1
    BY <1>w
  <2>2. trapped \in BOOLEAN /\ wrapped \in BOOLEAN /\ highest \in Limits
    BY ZenonT(60)
  <2> QED BY <2>1, <2>2, Zenon DEF GasTypeOK
<1>4. \A t \in Users : Settled(frames[t], highest) /\ Doing(frames[t], op[t], lim[t], highest)
  BY EmptyStack, Zenon DEF Doing, Flushes
<1>5. LimitRespected /\ CostLimit <= highest
  BY <1>w DEF LimitRespected
<1>6. NobodyIn
  BY EmptyStack, Zenon DEF NobodyIn
<1>7. IsFiniteSet(Refunding) /\ Covered
  BY <1>6, <1>w, NothingToCover
<1> QED BY <1>1, <1>2, <1>3, <1>4, <1>5, <1>7, Zenon DEF GasInv, RefundInv

-----------------------------------------------------------------------------
(* The host clears the statistics.                                        *)

(* A thread that is in no branch has nothing to be paid back.             *)
LEMMA NoBranch == GasInv /\ ~Branching => NobodyIn
<1> SUFFICES ASSUME GasInv, ~Branching PROVE NobodyIn
  BY Zenon
<1>1. \A t \in Users : ~InBranch(frames[t])
  BY Zenon DEF Branching
<1>2. ASSUME NEW t \in Users, op[t] = "refund" PROVE FALSE
  <2>1. Settled(frames[t], highest) /\ Doing(frames[t], op[t], lim[t], highest)
    BY TypeLaws, Zenon
  <2>2. frames[t] # <<>> /\ LastOf(frames[t]).ifs > 0
    BY <2>1, <1>2, Zenon DEF Doing
  <2> QED BY <2>1, <2>2, <1>1, LastLaws, Zenon
<1> QED BY <1>1, <1>2, Zenon DEF NobodyIn

(* Of what a clear leaves, the sum is what compiled code has not charged. *)
LEMMA ClearAccounts == ASSUME GasInv, clear PROVE GasAccounted' /\ owed' \in 0 .. W - 1
<1>w. W \in Nat /\ W # 0
  BY GasNumbers, Zenon
<1>1. CostSum \in 0 .. W - 1 /\ owed \in 0 .. W - 1
  BY TypeLaws, Zenon
<1>2. PICK u \in Nat : u = Uncharged
  BY FS_CardinalityType, Zenon DEF GasInv, Uncharged
<1>3. CostSum' = 0 /\ owed' = (owed + W - CostSum) % W /\ Uncharged' = u
  BY <1>2, Zenon DEF clear, Uncharged
<1>4. PICK x \in Nat : x = CostSum + u
  BY <1>1, <1>w
<1>5. x % W = owed
  BY <1>2, <1>4, Zenon DEF GasInv, GasAccounted
<1>6. PICK d \in 0 .. W : d = W - CostSum /\ u + W = x + d
  BY <1>1, <1>4, <1>w
<1>7. u % W = ((x % W) + d) % W
  BY <1>6, <1>w, Congruent, ZenonT(60)
<1>8. owed + d = owed + W - CostSum
  BY <1>1, <1>6, <1>w
<1>9. u % W = owed'
  BY <1>3, <1>5, <1>7, <1>8, Zenon
<1>10. CostSum' + Uncharged' = u
  BY <1>2, <1>3
<1>11. GasAccounted'
  BY <1>9, <1>10, Zenon DEF GasAccounted
<1>12. u % W \in 0 .. W - 1
  BY <1>w, Quotient, Zenon
<1> QED BY <1>9, <1>11, <1>12, Zenon

(* A clear at any time keeps both.                                        *)
LEMMA StepClear == ASSUME GasInv, RefundInv, clear PROVE GasInv' /\ RefundInv'
<1>1. /\ frames' = frames /\ op' = op /\ lim' = lim /\ old' = old /\ CostLimit' = CostLimit
      /\ CostSum' = 0 /\ trapped' = FALSE /\ wrapped' = FALSE /\ highest' = highest
      /\ cleared' = Branching
  BY Zenon DEF clear
<1>w. W \in Nat /\ W # 0 /\ Limits \subseteq Nat
  BY GasNumbers
<1>2. GasAccounted' /\ owed' \in 0 .. W - 1
  BY ClearAccounts, Zenon
<1>3. GasTypeOK'
  <2>1. CostSum' \in 0 .. W - 1
    BY <1>1, <1>w
  <2>2. trapped' \in BOOLEAN /\ wrapped' \in BOOLEAN
    BY <1>1, Zenon
  <2> QED BY <2>1, <2>2, <1>1, <1>2, Zenon DEF GasInv, GasTypeOK
<1>4. LimitRespected'
  <2>1. highest \in Limits
    BY TypeLaws, Zenon
  <2>2. CostSum' <= highest'
    BY <2>1, <1>1, <1>w
  <2> QED BY <2>2, Zenon DEF LimitRespected
<1>5. GasInv'
  BY <1>1, <1>2, <1>3, <1>4, Zenon DEF GasInv
<1>6. Refunding' = Refunding /\ Branching' = Branching
  BY <1>1, Zenon DEF Refunding, Branching
<1>7. cleared' \in BOOLEAN /\ IsFiniteSet(Refunding')
  BY <1>1, <1>6, Zenon DEF RefundInv, Branching
<1>8. CASE Branching
  BY <1>1, <1>5, <1>7, <1>8, Zenon DEF RefundInv
<1>9. CASE ~Branching
  <2>0. ~Branching'
    BY <1>6, <1>9, Zenon
  <2>1. NobodyIn'
    BY <1>5, <2>0, NoBranch, PTL
  <2>2. (CostSum \in Nat)'
    BY <1>1
  <2>3. Covered'
    BY <2>1, <2>2, NothingToCover, PTL
  <2> QED BY <2>3, <1>5, <1>7, Zenon DEF RefundInv
<1> QED BY <1>8, <1>9, Zenon

(* A step of t changes no other thread's operation.                       *)
LEMMA OthersWait ==
    ASSUME GasInv, NEW t \in Users, GasStep(t)
    PROVE  \A s \in Users : s # t => op'[s] = op[s]
<1>1. op \in [Users -> Ops]
  BY TypeLaws, Zenon
<1>2. ASSUME NEW o, op' = [op EXCEPT ![t] = o] PROVE \A s \in Users : s # t => op'[s] = op[s]
  BY <1>1, <1>2, Zenon
<1>3. ASSUME NEW o, Goto(t, o) PROVE \A s \in Users : s # t => op'[s] = op[s]
  BY <1>2, <1>3, Zenon DEF Goto
<1>4. ASSUME NEW o, NEW l, Begin(t, o, l) PROVE \A s \in Users : s # t => op'[s] = op[s]
  BY <1>2, <1>4, Zenon DEF Begin
<1>5. ASSUME op' = op PROVE \A s \in Users : s # t => op'[s] = op[s]
  BY <1>5, Zenon
<1>6. CASE enterFunction(t)
  BY <1>6, <1>3, Zenon DEF enterFunction
<1>7. ASSUME NEW o, Instruction(t, o) PROVE \A s \in Users : s # t => op'[s] = op[s]
  BY <1>7, <1>4, Zenon DEF Instruction
<1>8. CASE Load(t)
  BY <1>8, <1>4, Zenon DEF Load
<1>9. CASE Retry(t) \/ returnInterp(t) \/ Execute(t) \/ JumpOut(t)
  BY <1>9, <1>5, Zenon DEF Retry, returnInterp, Execute, JumpOut
<1>10. CASE Pay(t)
  BY <1>10, <1>3, Zenon DEF Pay, Continue
<1>11. CASE Refund(t) \/ Stop(t) \/ Trap(t) \/ updateGasAtTrap(t)
  BY <1>11, <1>3, Zenon DEF Refund, Stop, Trap, updateGasAtTrap
<1>12. ASSUME NEW why, Charge(t, why) PROVE \A s \in Users : s # t => op'[s] = op[s]
  BY <1>12, <1>4, Zenon DEF Charge
<1> QED BY <1>6, <1>7, <1>8, <1>9, <1>10, <1>11, <1>12, Zenon DEF GasStep

(* A step of a thread keeps RefundInv when the last branch that a clear   *)
(* fell into is left.                                                     *)
LEMMA StepOfThread ==
    ASSUME GasInv, RefundInv, NEW t \in Users, GasStep(t), cleared' = (cleared /\ Branching')
    PROVE  GasInv' /\ RefundInv'
<1>1. GasInv' /\ (Refundable => Refundable')
  BY StepEnter, StepInstruction, StepLoad, StepRetry, StepPay, StepRefund, StepStop,
     StepReturnInterp, StepExecute, StepCharge, StepTrap, StepAtTrap, StepJumpOut, SMTT(60) DEF GasStep
<1>2. IsFiniteSet(Refunding')
  <2>1. PICK R : R = Refunding /\ IsFiniteSet(R)
    BY Zenon DEF RefundInv
  <2>2. Refunding' \subseteq R \cup {t}
    BY <2>1, OthersWait, Zenon DEF Refunding
  <2>3. IsFiniteSet(R \cup {t})
    BY <2>1, FS_AddElement, Zenon
  <2> QED BY <2>2, <2>3, FS_Subset, Zenon
<1>3. cleared' \in BOOLEAN
  BY Zenon DEF Branching
<1>4. CASE ~cleared
  BY <1>1, <1>3, <1>4, Zenon DEF RefundInv, Refundable
<1>5. CASE Branching'
  BY <1>1, <1>2, <1>3, <1>4, <1>5, Zenon DEF RefundInv
<1>6. CASE ~Branching'
  <2>1. NobodyIn'
    BY <1>1, <1>6, NoBranch, PTL
  <2>2. (CostSum \in Nat)'
    <3>1. CostSum' \in 0 .. W - 1
      BY <1>1, Zenon DEF GasInv, GasTypeOK
    <3> QED BY <3>1, GasNumbers
  <2>3. Covered'
    BY <2>1, <2>2, NothingToCover, PTL
  <2> QED BY <2>3, <1>1, <1>2, <1>3, Zenon DEF RefundInv
<1> QED BY <1>4, <1>5, <1>6, Zenon

(* GasInv and RefundInv are inductive together. LimitRespected needs to   *)
(* know that each limit compared with was in force, GasAccounted that     *)
(* only the last call of a thread, and only of compiled code, has a       *)
(* LocalGas; RefundCovered is true because the sum covers every Else      *)
(* about to be paid back, except after a clear that fell into a branch.   *)
THEOREM GasInvariant == GasSpec => [](GasInv /\ RefundInv)
<1>1. GasInit => GasInv /\ RefundInv
  <2> SUFFICES ASSUME GasInit PROVE GasInv /\ RefundInv
    BY Zenon
  <2>w. W \in Nat /\ "none" \in Ops
    BY GasNumbers, Zenon DEF Ops
  <2>1. /\ frames \in [Users -> Seq(Frames)] /\ op \in [Users -> Ops]
        /\ lim \in [Users -> {0} \cup Limits] /\ old \in [Users -> 0 .. W]
        /\ \A t \in Users : frames[t] = <<>> /\ op[t] = "none"
    BY <2>w DEF GasInit
  <2>2. CostSum = 0 /\ owed = 0 /\ trapped = FALSE /\ wrapped = FALSE /\ cleared = FALSE /\ CostLimit \in Limits /\ highest = CostLimit
    BY Zenon DEF GasInit
  <2> QED BY <2>1, <2>2, FreshState, Zenon DEF Fresh
<1>2. GasInv /\ RefundInv /\ [GasNext]_gasVars => GasInv' /\ RefundInv'
  <2> SUFFICES ASSUME GasInv, RefundInv, [GasNext]_gasVars PROVE GasInv' /\ RefundInv'
    BY Zenon
  <2>1. CASE UNCHANGED gasVars
    BY <2>1, Zenon DEF gasVars, GasInv, GasTypeOK, GasAccounted, Uncharged, LimitRespected, RefundInv, Refunding, Covered, Branching
  <2>2. ASSUME NEW l \in Limits, setCostLimit(l) PROVE GasInv' /\ RefundInv'
    <3>1. UNCHANGED <<frames, op, CostSum, wrapped, cleared>>
      BY <2>2, Zenon DEF setCostLimit
    <3>2. RefundInv'
      BY <3>1, Zenon DEF RefundInv, Refunding, Covered, Branching
    <3> QED BY <2>2, <3>2, StepLimit, Zenon
  <2>3. CASE clear
    BY <2>3, StepClear, Zenon
  <2>4. ASSUME NEW t \in Users, GasStep(t), cleared' = (cleared /\ Branching') PROVE GasInv' /\ RefundInv'
    BY <2>4, StepOfThread, Zenon
  <2> QED BY <2>1, <2>2, <2>3, <2>4, Zenon DEF GasNext
<1> QED BY <1>1, <1>2, PTL DEF GasSpec

(* CostSum, and what LocalGas has still to charge, are what was executed  *)
(* less what was paid back and what jumps out of compiled code dropped,   *)
(* in the counter's width (GasAccounted).                                 *)
THEOREM AlwaysGasAccounted == GasSpec => []GasAccounted
<1>1. GasInv => GasAccounted
  BY Zenon DEF GasInv
<1> QED BY <1>1, GasInvariant, PTL

(* No charge takes CostSum past the highest limit that was in force,      *)
(* except for the one made at a trap (LimitRespected).                    *)
THEOREM AlwaysLimitRespected == GasSpec => []LimitRespected
<1>1. GasInv => LimitRespected
  BY Zenon DEF GasInv
<1> QED BY <1>1, GasInvariant, PTL

(* subInstrCost finds enough in CostSum to pay an Else back, unless the   *)
(* counter has turned or was cleared while some thread was in a branch    *)
(* (RefundCovered). It takes a cost table in which an If is not free:     *)
(* with a free If a thread may be in a branch with nothing charged.       *)
THEOREM AlwaysRefundCovered ==
    ASSUME Cost["if"] > 0
    PROVE  GasSpec => []RefundCovered
<1>1. ASSUME GasInv, RefundInv, NEW t \in Users, op[t] = "refund", ~wrapped, ~cleared PROVE CostSum > Cost["else"]
  <2>1. Settled(frames[t], highest) /\ Doing(frames[t], op[t], lim[t], highest) /\ CostSum \in 0 .. W - 1
    BY <1>1, TypeLaws, Zenon
  <2>2. frames[t] # <<>> /\ LastOf(frames[t]).ifs > 0
    BY <2>1, <1>1, Zenon DEF Doing
  <2>3. InBranch(frames[t])
    BY <2>1, <2>2, LastLaws, Zenon
  <2>4. t \in Refunding /\ IsFiniteSet(Refunding)
    BY <1>1, Zenon DEF Refunding, RefundInv
  <2>5. PICK r \in Nat : r = Cardinality(Refunding) /\ r # 0
    BY <2>4, FS_CardinalityType, FS_EmptySet, Zenon
  <2>6. PICK c \in Nat : c = Cost["else"]
    BY GasNumbers
  <2>7. PICK ci \in Nat : ci = Cost["if"] /\ ci > 0
    BY GasNumbers
  <2>8. r * c + ci <= CostSum
    BY <1>1, <2>3, <2>5, <2>6, <2>7, Zenon DEF RefundInv, Covered, Branching
  <2>9. r * c >= c
    <3>1. PICK n \in Nat : r = n + 1
      BY <2>5
    <3>2. r * c = n * c + c /\ n * c \in Nat
      BY <3>1, SMTT(60)
    <3> QED BY <3>2
  <2>10. CostSum \in Nat /\ r * c \in Nat
    BY <2>1, GasNumbers
  <2> QED BY <2>6, <2>7, <2>8, <2>9, <2>10, SMTT(60)
<1>2. GasInv /\ RefundInv => RefundCovered
  BY <1>1, Zenon DEF RefundCovered
<1> QED BY <1>2, GasInvariant, PTL
=============================================================================
