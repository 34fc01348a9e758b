-------- MODULE WasiPathProofs ----------------------------------------------
(* Proofs about the resolution of a path (WasiPath): it stays beneath the *)
(* directory it started from, and it finds what the reference finds, for  *)
(* any tree of directories and links, any path and any bound on the       *)
(* links. The reference is a recursive function, and that it exists is    *)
(* proved here from its being tail recursive.                             *)
EXTENDS WasiPath, TLAPS

(* The inductive invariant: PartFds is a way down from the base, and a    *)
(* walk that is not over has found nothing.                               *)
PathInv ==
    /\ PathTypeOK
    /\ BeneathBase
    /\ walk = "part" => Fd \in Dirs
    /\ walk # "done" => found = Fails("none")

(* ds and then d are a way from b down, each a subdirectory of the one    *)
(* before.                                                                *)
Way(b, ds, d) ==
    LET way == Append(ds, d) IN
      /\ way[1] = b
      /\ \A i \in 1..Len(ds) : \E n \in DOMAIN Subdirs[way[i]] : Subdirs[way[i]][n] = way[i + 1]

(* What the assumption on the tree says of entries, links and paths.      *)
LEMMA PathConstants ==
  /\ kMaxNestedLinks \in Nat /\ Browsable \subseteq Dirs
  /\ "." \in PartNames /\ "" \notin PartNames
  /\ \A d \in Dirs : \A n : IsDir(d, n) => Subdirs[d][n] \in Dirs
  /\ \A d \in Dirs : \A n : IsLink(d, n) => IsPath(Links[d][n]) /\ Links[d][n] # NoPath /\ ~IsDir(d, n)
  /\ \A d \in Dirs : ~Has(d, "")
  /\ \A p \in Paths : IsPath(p)
BY PathAssumption, Zenon DEF IsDir, IsLink, Has

(* A stack that is not empty is what Popped leaves with Back on top.      *)
LEMMA BackLaws ==
  ASSUME NEW S, NEW ds \in Seq(S), ds # <<>>
  PROVE  /\ Len(ds) \in Nat \ {0} /\ Back(ds) \in S /\ Popped(ds) \in Seq(S)
         /\ Len(Popped(ds)) = Len(ds) - 1 /\ (Len(ds) # 1 => Popped(ds) # <<>>)
         /\ \A i \in 1..Len(ds) - 1 : Popped(ds)[i] = ds[i]
         /\ Append(Popped(ds), Back(ds)) = ds
<1>1. Len(ds) \in Nat \ {0} /\ Len(ds) - 1 \in 0..Len(ds)
  OBVIOUS
<1>a. Len(ds) - 1 \in Nat /\ Len(ds) = (Len(ds) - 1) + 1
  BY <1>1
<1>2. PICK m \in Nat : m = Len(ds) - 1 /\ m \in 0..Len(ds) /\ Len(ds) = m + 1
  BY <1>1, <1>a, Zenon
<1>3. /\ SubSeq(ds, 1, m) \in Seq(S) /\ Len(SubSeq(ds, 1, m)) = m
      /\ \A i \in 1..m : SubSeq(ds, 1, m)[i] = ds[i]
  BY <1>2
<1>4. Append(SubSeq(ds, 1, m), ds[m + 1]) = ds
  BY <1>2, <1>3
<1>5. ds[m + 1] \in S
  BY <1>2
<1>6. m # 0 => SubSeq(ds, 1, m) # <<>>
  BY <1>3
<1> QED BY <1>1, <1>2, <1>3, <1>4, <1>5, <1>6, SMTT(60) DEF Back, Popped

(* A step of .. leaves a way from the base.                               *)
LEMMA WayUp ==
  ASSUME NEW b, NEW ds \in Seq(Dirs), NEW d, ds # <<>>, Way(b, ds, d)
  PROVE  Back(ds) \in Dirs /\ Popped(ds) \in Seq(Dirs) /\ Way(b, Popped(ds), Back(ds))
<1>1. Back(ds) \in Dirs /\ Popped(ds) \in Seq(Dirs) /\ Len(Popped(ds)) = Len(ds) - 1
  BY BackLaws
<1>2. /\ \A i \in 1..Len(ds) : Append(Popped(ds), Back(ds))[i] = Append(ds, d)[i]
      /\ Len(ds) \in Nat \ {0}
  BY BackLaws
<1>3. \A i \in 1..Len(ds)-1 : i \in 1..Len(ds) /\ i+1 \in 1..Len(ds) /\ 1 \in 1..Len(ds)
  BY <1>2
<1>4. 1 \in 1..Len(ds)
  BY <1>2
<1> QED BY <1>1, <1>2, <1>3, <1>4, Zenon DEF Way

(* A step into a subdirectory leaves a way from the base.                 *)
LEMMA WayDown ==
  ASSUME NEW b, NEW ds \in Seq(Dirs), NEW d \in Dirs, NEW n \in DOMAIN Subdirs[d], Way(b, ds, d)
  PROVE  Append(ds, d) \in Seq(Dirs) /\ Way(b, Append(ds, d), Subdirs[d][n])
<1>1. Append(ds, d) \in Seq(Dirs) /\ Len(Append(ds, d)) = Len(ds) + 1 /\ Len(ds) \in Nat
  OBVIOUS
<1>2. /\ \A i \in 1..Len(ds)+1 : Append(Append(ds, d), Subdirs[d][n])[i] = Append(ds, d)[i]
      /\ Append(Append(ds, d), Subdirs[d][n])[Len(ds) + 2] = Subdirs[d][n]
      /\ Append(ds, d)[Len(ds) + 1] = d
  BY <1>1
<1>3. \A i \in 1..Len(ds)+1 : i = Len(ds)+1 \/ (i \in 1..Len(ds) /\ i+1 \in 1..Len(ds)+1)
  BY <1>1
<1>4. 1 \in 1..Len(ds)+1
  BY <1>1
<1> DEFINE way == Append(Append(ds, d), Subdirs[d][n])
<1>5. way[1] = b
  BY <1>2, <1>4 DEF Way
<1>6. ASSUME NEW i \in 1..Len(ds)+1
      PROVE  \E m \in DOMAIN Subdirs[way[i]] : Subdirs[way[i]][m] = way[i + 1]
  <2>1. CASE i = Len(ds) + 1
    <3>1. way[i] = d /\ way[i + 1] = Subdirs[d][n]
      BY <2>1, <1>1, <1>2
    <3> QED BY <3>1
  <2>2. CASE i \in 1..Len(ds) /\ i+1 \in 1..Len(ds)+1
    BY <2>2, <1>2 DEF Way
  <2> QED BY <2>1, <2>2, <1>3, Zenon
<1> QED BY <1>1, <1>5, <1>6, Zenon DEF Way

(* The errors of a walk.                                                  *)
Errors == {"none", "NOENT", "PERM", "NOTDIR", "ACCES", "LOOP"}

(* PathInv is inductive, hence an invariant.                              *)
THEOREM PathInvariant == PathSpec => []PathInv
<1>1. PathInit => PathInv
  <2> SUFFICES ASSUME PathInit PROVE PathInv
    OBVIOUS
  <2>1. PathTypeOK
    <3>0. kMaxNestedLinks \in Nat
      BY PathConstants, Zenon
    <3>1. 0 \in 0..kMaxNestedLinks /\ <<>> \in Seq(Dirs)
      BY <3>0
    <3> QED BY <3>1 DEF PathInit, PathTypeOK
  <2>2. BeneathBase
    <3>1. Append(<<>>, Fd)[1] = Fd /\ Len(<<>>) = 0 /\ 1..0 = {}
      OBVIOUS
    <3>2. Fails("none").err # "ok"
      BY DEF Fails
    <3> QED BY <3>1, <3>2 DEF PathInit, BeneathBase
  <2> QED BY <2>1, <2>2 DEF PathInv, PathInit
<1>2. PathInv /\ [PathNext]_pathVars => PathInv'
  <2> SUFFICES ASSUME PathInv, [PathNext]_pathVars PROVE PathInv'
    OBVIOUS
  <2>0. /\ PathTypeOK /\ Way(base, PartFds, Fd) /\ PartFds \in Seq(Dirs)
        /\ found.err = "ok" => found.dir = Fd /\ Fd \in Dirs
        /\ walk = "part" => Fd \in Dirs
        /\ walk # "done" => found = Fails("none")
    BY DEF PathInv, BeneathBase, Way, PathTypeOK
  <2>f. \A e \in Errors : Fails(e).err # "ok"
    BY DEF Fails, Errors
  <2>g. \A d, n : Found(d, n).dir = d
    BY DEF Found
  <2>w. ASSUME base' = base, Way(base, PartFds', Fd'),
               found'.err = "ok" => found'.dir = Fd' /\ Fd' \in Dirs
        PROVE  BeneathBase'
    BY <2>w DEF BeneathBase, Way
  <2>e. ASSUME NEW r, Ends(r), r.err = "ok" => r.dir = Fd /\ Fd \in Dirs
        PROVE  PathInv'
    <3>1. PathTypeOK'
      BY <2>0, <2>e DEF PathTypeOK, Ends, given
    <3>2. BeneathBase'
      BY <2>0, <2>e, <2>w DEF Ends, given
    <3> QED BY <3>1, <3>2, <2>e DEF PathInv, Ends
  <2>x. ASSUME NEW e \in Errors, Ends(Fails(e))
        PROVE  PathInv'
    BY <2>x, <2>e, <2>f
  <2>y. ASSUME NEW n, walk = "part", Ends(Found(Fd, n))
        PROVE  PathInv'
    BY <2>y, <2>e, <2>g, <2>0
  <2>z. ASSUME NEW ds \in Seq(Dirs), NEW d \in Dirs, Way(base, ds, d), Fd' = d, PartFds' = ds,
               base' = base, LinkCount' = LinkCount,
               \/ walk' = "part" /\ found' = Fails("none")
               \/ \E n : walk' = "done" /\ found' = Found(d, n)
        PROVE  PathInv'
    <3>1. PathTypeOK'
      BY <2>0, <2>z DEF PathTypeOK
    <3>2. BeneathBase'
      BY <2>w, <2>z, <2>g, <2>f DEF Errors
    <3> QED BY <3>1, <3>2, <2>z DEF PathInv
  <2>v. ASSUME NEW ds \in Seq(Dirs), NEW d \in Dirs, Way(base, ds, d), walk = "part", GoesOn(d, ds)
        PROVE  PathInv'
    BY <2>v, <2>z, <2>0 DEF GoesOn, given
  <2>1. CASE CheckPath
    <3>1. CASE walk' = "part" /\ Fd \in Dirs /\ UNCHANGED <<given, Fd, PartFds, Path, LinkCount, found, dropped>>
      BY <3>1, <2>1, <2>0, <2>z DEF CheckPath, given
    <3> QED BY <2>1, <3>1, <2>x DEF CheckPath, Errors
  <2>2. CASE Dot
    BY <2>2, <2>0, <2>y, <2>v DEF Dot
  <2>3. CASE DotDot
    <3>1. CASE PartFds = <<>>
      BY <3>1, <2>3, <2>x DEF DotDot, Errors
    <3>2. CASE PartFds # <<>>
      <4>1. Back(PartFds) \in Dirs /\ Popped(PartFds) \in Seq(Dirs)
            /\ Way(base, Popped(PartFds), Back(PartFds))
        BY <2>0, <3>2, WayUp
      <4> QED BY <2>3, <3>2, <4>1, <2>z, <2>v DEF DotDot, given
    <3> QED BY <3>1, <3>2
  <2>4. CASE TakeName
    BY <2>4, <2>y DEF TakeName, Named
  <2>5. CASE NoEntry
    BY <2>5, <2>x DEF NoEntry, Errors
  <2>6. CASE FollowLink
    <3>1. CASE LinkCount + 1 >= kMaxNestedLinks
      BY <3>1, <2>6, <2>x DEF FollowLink, Errors
    <3>2. CASE ~(LinkCount + 1 >= kMaxNestedLinks)
      <4>1. /\ LinkCount' = LinkCount + 1 /\ walk = "part" /\ walk' = "check"
            /\ base' = base /\ Fd' = Fd /\ PartFds' = PartFds /\ found' = found
        BY <2>6, <3>2 DEF FollowLink, Named, given
      <4>2. PathTypeOK'
        <5>0. kMaxNestedLinks \in Nat /\ LinkCount \in 0..kMaxNestedLinks
          BY <2>0, PathConstants, Zenon DEF PathTypeOK
        <5>1. LinkCount + 1 \in 0..kMaxNestedLinks
          BY <3>2, <5>0
        <5> QED BY <4>1, <5>1, <2>0 DEF PathTypeOK
      <4>3. BeneathBase'
        BY <4>1, <2>0, <2>w
      <4> QED BY <4>1, <4>2, <4>3, <2>0 DEF PathInv
    <3> QED BY <3>1, <3>2
  <2>7. CASE TakeEntry
    <3>1. CASE IsDir(Fd, Part) /\ ~LastPart
      <4>1. /\ Append(PartFds, Fd) \in Seq(Dirs) /\ Subdirs[Fd][Part] \in Dirs
            /\ Way(base, Append(PartFds, Fd), Subdirs[Fd][Part]) /\ walk = "part"
        BY <2>7, <3>1, <2>0, WayDown, PathConstants, Zenon DEF TakeEntry, Named, IsDir
      <4> QED BY <2>7, <3>1, <4>1, <2>z, <2>v, Zenon DEF TakeEntry, given
    <3> QED BY <2>7, <3>1, <2>x, <2>y DEF TakeEntry, Errors, Named
  <2>8. CASE UNCHANGED pathVars
    BY <2>8 DEF pathVars, given, PathInv, PathTypeOK, BeneathBase
  <2> QED BY <2>1, <2>2, <2>3, <2>4, <2>5, <2>6, <2>7, <2>8 DEF PathNext
<1> QED BY <1>1, <1>2, PTL DEF PathSpec

(* Whatever links and parts ".." there are, the walk is in a directory    *)
(* beneath the base, and what it finds is in that directory               *)
(* (BeneathBase).                                                         *)
THEOREM AlwaysBeneathBase == PathSpec => []BeneathBase
BY PathInvariant, PTL DEF PathInv
(* T is closed under the step N, which the states F stop.                 *)
Closed(T, F, N) == \A x \in T \ F : N[x] \in T
(* The states reached from at: the least closed set it is in.             *)
Orbit(S, F, N, at) == {x \in S : \A T \in SUBSET S : at \in T /\ Closed(T, F, N) => x \in T}

(* R is a function with the tail-recursive equation of F, N and A.        *)
Solves(R, S, F, N, A) ==
    /\ R = [at \in S |-> R[at]]
    /\ \A at \in S : R[at] = IF at \in F THEN A[at] ELSE R[N[at]]

(* The element of a set of one.                                           *)
One(U) == CHOOSE x : x \in U

(* A tail-recursive equation has a solution, whether or not it            *)
(* terminates: two states on the same orbit stop at the same state, if at *)
(* all.                                                                   *)
LEMMA TailRecursion ==
  ASSUME NEW S, NEW F, NEW N \in [S -> S], NEW A
  PROVE  \E R : Solves(R, S, F, N, A)
<1> DEFINE O(at) == Orbit(S, F, N, at)
           R == [at \in S |-> A[One(O(at) \cap F)]]
<1>1. ASSUME NEW at \in S
      PROVE  at \in O(at) /\ O(at) \subseteq S /\ Closed(O(at), F, N)
  BY Zenon DEF Orbit, Closed
<1>2. ASSUME NEW at \in S, NEW T \in SUBSET S, at \in T, Closed(T, F, N)
      PROVE  O(at) \subseteq T
  BY <1>2 DEF Orbit
<1>3. ASSUME NEW at \in S, at \in F
      PROVE  O(at) \cap F = {at}
  <2>1. Closed({at}, F, N)
    BY <1>3 DEF Closed
  <2>2. O(at) \subseteq {at}
    BY <1>2, <2>1
  <2> QED BY <2>2, <1>1, <1>3
<1>4. ASSUME NEW at \in S, at \notin F
      PROVE  O(at) \cap F = O(N[at]) \cap F
  <2>1. N[at] \in S /\ N[at] \in O(at)
    BY <1>1, <1>4 DEF Closed
  <2>2. O(N[at]) \subseteq O(at)
    BY <2>1, <1>1, <1>2
  <2>3. Closed({at} \cup O(N[at]), F, N)
    BY <2>1, <1>1, <1>4 DEF Closed
  <2>4. O(at) \subseteq {at} \cup O(N[at])
    BY <2>1, <2>3, <1>1, <1>2
  <2> QED BY <2>2, <2>4, <1>4
<1>5. ASSUME NEW at \in S
      PROVE  R[at] = IF at \in F THEN A[at] ELSE R[N[at]]
  <2>1. CASE at \in F
    <3>1. One({at}) = at
      BY DEF One
    <3>2. O(at) \cap F = {at}
      BY <2>1, <1>3 DEF Solves
    <3> QED BY <2>1, <3>1, <3>2
  <2>2. CASE at \notin F
    <3>1. N[at] \in S /\ O(at) \cap F = O(N[at]) \cap F
      BY <2>2, <1>4
    <3> HIDE DEF O
    <3> QED BY <2>2, <3>1
  <2> QED BY <2>1, <2>2
<1>6. R = [at \in S |-> R[at]]
  BY SMTT(60)
<1> HIDE DEF R
<1> QED BY <1>5, <1>6 DEF Solves

(* An answer for each place that says only that the recursion goes on     *)
(* there.                                                                 *)
Marked == [x \in Stages |-> [err |-> "next", dir |-> x, name |-> ""]]

(* Resolve is tail recursive: it answers by itself, or with the answer    *)
(* for one other place, the same whatever function it recurs through.     *)
LEMMA OneCall ==
  ASSUME NEW last, NEW slashes, NEW at \in Stages, NEW R
  PROVE  LET v == Resolve(Marked, last, slashes, at) IN
         IF v.err = "next" THEN v.dir \in Stages /\ Resolve(R, last, slashes, at) = R[v.dir]
         ELSE Resolve(R, last, slashes, at) = v
<1>1. PICK way \in Seq(Dirs), names \in Seq(PartNames), links \in Nat : at = <<way, names, links>> /\ way # <<>>
  BY DEF Stages
<1> DEFINE d == Back(way)
           n == Head(names)
           more == Tail(names)
           v == Resolve(Marked, last, slashes, at)
<1>2. d \in Dirs /\ (Len(way) # 1 => Popped(way) \in Seq(Dirs) /\ Popped(way) # <<>>)
  BY <1>1, BackLaws
<1>n. names # <<>> => n \in PartNames /\ more \in Seq(PartNames)
  OBVIOUS
<1>m. \A x \in Stages : Marked[x].err = "next" /\ Marked[x].dir = x
  BY Zenon DEF Marked
<1>f. \A e \in {"PERM", "ACCES", "NOENT", "LOOP", "NOTDIR"} : Fails(e).err # "next"
  BY DEF Fails
<1>g. Found(d, ".").err # "next" /\ Object(d, n).err # "next"
  BY DEF Found, Object
<1>s. \A w \in Seq(Dirs), ns \in Seq(PartNames), l \in Nat : w # <<>> => <<w, ns, l>> \in Stages
  BY DEF Stages
<1>r. ASSUME NEW w \in Seq(Dirs), NEW ns \in Seq(PartNames), NEW l \in Nat, w # <<>>,
             \A Q : Resolve(Q, last, slashes, at) = Q[<<w, ns, l>>]
      PROVE  v.err = "next" /\ v.dir \in Stages /\ Resolve(R, last, slashes, at) = R[v.dir]
  BY <1>r, <1>s, <1>m, SMTT(60)
<1>e. ASSUME NEW r, r.err # "next", \A Q : Resolve(Q, last, slashes, at) = r
      PROVE  v.err # "next" /\ Resolve(R, last, slashes, at) = v
  BY <1>e
<1> HIDE DEF v
<1> SUFFICES IF v.err = "next" THEN v.dir \in Stages /\ Resolve(R, last, slashes, at) = R[v.dir]
             ELSE Resolve(R, last, slashes, at) = v
  BY DEF v
<1>u. DEFINE to == Links[d][n]
<1>p. IsLink(d, n) => to.parts \in Seq(PartNames) /\ PartsOf(to, slashes) \in Seq(PartNames)
  <2> SUFFICES ASSUME IsLink(d, n) PROVE to.parts \in Seq(PartNames) /\ PartsOf(to, slashes) \in Seq(PartNames)
    OBVIOUS
  <2>1. IsPath(to)
    BY <1>2, PathConstants, Zenon
  <2>2. to.parts \in Seq(PartNames)
    BY <2>1 DEF IsPath
  <2>3. "." \in PartNames
    BY PathConstants, Zenon
  <2>4. <<".">> \in Seq(PartNames) /\ <<>> \in Seq(PartNames)
    BY <2>3
  <2> QED BY <2>2, <2>4 DEF PartsOf
<1>l. links + 1 \in Nat
  BY SMTT(60)
<1>3. CASE names = <<>> \/ names = <<".">>
  BY <1>1, <1>3, <1>e, <1>g, ZenonT(60) DEF Resolve
<1>4. CASE ~(names = <<>> \/ names = <<".">>) /\ n = "."
  <2>1. \A Q : Resolve(Q, last, slashes, at) = Q[<<way, more, links>>]
    BY <1>1, <1>4, ZenonT(60) DEF Resolve
  <2> QED BY <2>1, <1>1, <1>n, <1>4, <1>r, Zenon
<1>5. CASE ~(names = <<>> \/ names = <<".">>) /\ n = ".." /\ Len(way) = 1
  BY <1>1, <1>5, <1>e, <1>f, ZenonT(60) DEF Resolve
<1>6. CASE ~(names = <<>> \/ names = <<".">>) /\ n = ".." /\ Len(way) # 1
  <2>1. \A Q : Resolve(Q, last, slashes, at) = Q[<<Popped(way), more, links>>]
    BY <1>1, <1>6 DEF Resolve
  <2> QED BY <2>1, <1>1, <1>2, <1>n, <1>6, <1>r, Zenon
<1> DEFINE Name == ~(names = <<>> \/ names = <<".">>) /\ n # "." /\ n # ".."
           Leaf == more = <<>> /\ (~last \/ ~Stats(d, n))
<1>7. CASE Name /\ Leaf
  BY <1>1, <1>7, <1>e, <1>g, ZenonT(60) DEF Resolve
<1>8. CASE Name /\ ~Leaf /\ d \notin Browsable
  BY <1>1, <1>8, <1>e, <1>f, ZenonT(60) DEF Resolve
<1>9. CASE Name /\ ~Leaf /\ d \in Browsable /\ ~Has(d, n)
  BY <1>1, <1>9, <1>e, <1>f, ZenonT(60) DEF Resolve
<1> DEFINE There == Name /\ ~Leaf /\ d \in Browsable /\ Has(d, n)
<1>10. CASE There /\ IsLink(d, n) /\ links + 1 >= kMaxNestedLinks
  BY <1>1, <1>10, <1>e, <1>f, ZenonT(60) DEF Resolve
<1>11. CASE There /\ IsLink(d, n) /\ ~(links + 1 >= kMaxNestedLinks) /\ to.abs
  BY <1>1, <1>11, <1>e, <1>f, ZenonT(60) DEF Resolve
<1>12. CASE There /\ IsLink(d, n) /\ ~(links + 1 >= kMaxNestedLinks) /\ ~to.abs /\ more = <<>>
  <2>1. \A Q : Resolve(Q, last, slashes, at) = Q[<<way, PartsOf(to, slashes), links + 1>>]
    BY <1>1, <1>12, ZenonT(60) DEF Resolve
  <2> QED BY <2>1, <1>1, <1>p, <1>l, <1>12, <1>r, Zenon
<1>13. CASE There /\ IsLink(d, n) /\ ~(links + 1 >= kMaxNestedLinks) /\ ~to.abs /\ more # <<>>
  <2>1. \A Q : Resolve(Q, last, slashes, at) = Q[<<way, to.parts \o more, links + 1>>]
    BY <1>1, <1>13, Zenon DEF Resolve
  <2>2. to.parts \o more \in Seq(PartNames)
    BY <1>p, <1>n, <1>13, SMTT(60)
  <2> QED BY <2>1, <2>2, <1>1, <1>l, <1>r, Zenon
<1>14. CASE There /\ ~IsLink(d, n) /\ more = <<>>
  BY <1>1, <1>14, <1>e, <1>g, ZenonT(60) DEF Resolve
<1>15. CASE There /\ ~IsLink(d, n) /\ more # <<>> /\ IsDir(d, n)
  <2>1. \A Q : Resolve(Q, last, slashes, at) = Q[<<Append(way, Subdirs[d][n]), more, links>>]
    BY <1>1, <1>15 DEF Resolve
  <2>2. Append(way, Subdirs[d][n]) \in Seq(Dirs) /\ Append(way, Subdirs[d][n]) # <<>>
    <3>1. Subdirs[d][n] \in Dirs
      BY <1>2, <1>15, PathConstants, ZenonT(60)
    <3> QED BY <1>1, <3>1
  <2> QED BY <2>1, <2>2, <1>1, <1>n, <1>15, <1>r, ZenonT(60)
<1>16. CASE There /\ ~IsLink(d, n) /\ more # <<>> /\ ~IsDir(d, n)
  BY <1>1, <1>16, <1>e, <1>f, Zenon DEF Resolve
<1> HIDE DEF d, n, more, to
<1>q. Name \/ names = <<>> \/ names = <<".">> \/ n = "." \/ n = ".."
  OBVIOUS
<1> QED BY <1>q, <1>3, <1>4, <1>5, <1>6, <1>7, <1>8, <1>9, <1>10, <1>11, <1>12, <1>13, <1>14, <1>15, <1>16

(* The reference satisfies the equation it is defined by.                 *)
LEMMA ReferenceEquation ==
  ASSUME NEW last, NEW slashes, NEW at \in Stages
  PROVE  Reference(last, slashes)[at] = Resolve(Reference(last, slashes), last, slashes, at)
<1> DEFINE V(x) == Resolve(Marked, last, slashes, x)
<1>1. PICK F : F = {x \in Stages : V(x).err # "next"}
  BY Zenon
<1>2. PICK N : N = [x \in Stages |-> IF x \in F THEN x ELSE V(x).dir]
  BY Zenon
<1>a. PICK A : A = [x \in Stages |-> V(x)]
  BY Zenon
<1>b. N \in [Stages -> Stages]
  BY <1>1, <1>2, OneCall
<1>3. \A R : \A x \in Stages :
        (IF x \in F THEN A[x] ELSE R[N[x]]) = Resolve(R, last, slashes, x)
  BY <1>1, <1>2, <1>a, OneCall
<1>4. \E R : R = [x \in Stages |-> Resolve(R, last, slashes, x)]
  <2>1. PICK R : Solves(R, Stages, F, N, A)
    BY <1>b, TailRecursion
  <2>2. R = [x \in Stages |-> Resolve(R, last, slashes, x)]
    BY <2>1, <1>3 DEF Solves
  <2> QED BY <2>2
<1>5. Reference(last, slashes) = [x \in Stages |-> Resolve(Reference(last, slashes), last, slashes, x)]
  BY <1>4 DEF Reference
<1> QED BY <1>5

-----------------------------------------------------------------------------
(* The walk against the reference. Follows relates the state to what the  *)
(* reference returns from the same place: as long as no slash was         *)
(* dropped, what the call is to return is what the reference returns for  *)
(* the way walked so far, the parts left and the links followed.          *)

(* What the call is to return.                                            *)
Given == Specified(base, asked, follow, FollowTrailingSlashes)
(* What the reference returns from a place with a path ahead.             *)
RefAt(last, slashes, way, p, links) == Reference(last, slashes)[<<way, PartsOf(p, slashes), links>>]
(* What the reference returns from where the walk is.                     *)
Expects == RefAt(follow, FollowTrailingSlashes, Append(PartFds, Fd), Path, LinkCount)

(* What a result stands for, if the empty name is the directory itself.   *)
Reached(r) == IF r.err = "ok" /\ r.name = "" THEN Found(r.dir, ".") ELSE Meaning(r)

(* The walk is at a place from which the reference returns what it is to  *)
(* return.                                                                *)
Follows ==
    /\ IsPath(Path) /\ asked \in Paths
    /\ follow \in BOOLEAN /\ FollowTrailingSlashes \in BOOLEAN
    /\ walk = "part" => ~Path.abs
    /\ ~dropped =>
         /\ walk = "check" =>
              \/ Path = asked /\ Fd = base /\ PartFds = <<>> /\ LinkCount = 0
              \/ /\ Fd \in Browsable /\ Path # NoPath
                 /\ Given = IF Path.abs THEN Fails("PERM") ELSE Expects
         /\ walk = "part" => Given = Expects
         /\ walk = "done" => Given = Reached(found)

(* The places of the reference, and the top of a stack just pushed on.    *)
LEMMA StageLaws ==
  ASSUME NEW ds \in Seq(Dirs), NEW d \in Dirs, NEW names \in Seq(PartNames), NEW links \in Nat
  PROVE  /\ <<Append(ds, d), names, links>> \in Stages
         /\ Append(ds, d) \in Seq(Dirs) /\ Append(ds, d) # <<>>
         /\ Back(Append(ds, d)) = d /\ Popped(Append(ds, d)) = ds
         /\ Len(Append(ds, d)) = 1 <=> ds = <<>>
<1>1. /\ Append(ds, d) \in Seq(Dirs) /\ Len(Append(ds, d)) = Len(ds) + 1 /\ Len(ds) \in Nat
      /\ Append(ds, d)[Len(ds) + 1] = d
  OBVIOUS
<1>2. Append(ds, d) # <<>>
  BY <1>1
<1>3. SubSeq(Append(ds, d), 1, Len(ds)) = ds
  OBVIOUS
<1>4. Len(ds) + 1 - 1 = Len(ds) /\ (Len(ds) + 1 = 1 <=> Len(ds) = 0) /\ (Len(ds) = 0 <=> ds = <<>>)
  BY <1>1
<1>5. Popped(Append(ds, d)) = ds
  BY <1>1, <1>3, <1>4 DEF Popped
<1> QED BY <1>1, <1>2, <1>4, <1>5, Zenon DEF Stages, Back

(* The equation of the reference, as one implication for each of its      *)
(* cases.                                                                 *)
Cases(last, slashes, ds, d, names, links) ==
    LET R == Reference(last, slashes)
        X == R[<<Append(ds, d), names, links>>]
        n == Head(names)
        more == Tail(names)
        to == Links[d][n]
        dot == names = <<>> \/ names = <<".">>
        leaf == more = <<>> /\ (~last \/ ~Stats(d, n)) IN
    /\ dot => X = Found(d, ".")
    /\ ~dot /\ n = "." => X = R[<<Append(ds, d), more, links>>]
    /\ ~dot /\ n = ".." /\ ds = <<>> => X = Fails("PERM")
    /\ ~dot /\ n = ".." /\ ds # <<>> => X = R[<<ds, more, links>>]
    /\ ~dot /\ n \notin {".", ".."} =>
         /\ leaf => X = Object(d, n)
         /\ ~leaf /\ d \notin Browsable => X = Fails("ACCES")
         /\ ~leaf /\ d \in Browsable /\ ~Has(d, n) => X = Fails("NOENT")
         /\ ~leaf /\ Stats(d, n) /\ IsLink(d, n) =>
              /\ links + 1 >= kMaxNestedLinks => X = Fails("LOOP")
              /\ ~(links + 1 >= kMaxNestedLinks) =>
                   /\ to.abs => X = Fails("PERM")
                   /\ ~to.abs /\ more = <<>> => X = R[<<Append(ds, d), PartsOf(to, slashes), links + 1>>]
                   /\ ~to.abs /\ more # <<>> => X = R[<<Append(ds, d), to.parts \o more, links + 1>>]
         /\ ~leaf /\ Stats(d, n) /\ ~IsLink(d, n) =>
              /\ more = <<>> => X = Object(d, n)
              /\ more # <<>> /\ IsDir(d, n) => X = R[<<Append(Append(ds, d), Subdirs[d][n]), more, links>>]
              /\ more # <<>> /\ ~IsDir(d, n) => X = Fails("NOTDIR")

(* The reference satisfies each of its cases.                             *)
LEMMA ReferenceCases ==
  ASSUME NEW last, NEW slashes, NEW ds \in Seq(Dirs), NEW d \in Dirs,
         NEW names \in Seq(PartNames), NEW links \in Nat
  PROVE  Cases(last, slashes, ds, d, names, links)
<1> DEFINE R == Reference(last, slashes)
           X == R[<<Append(ds, d), names, links>>]
           n == Head(names)
           more == Tail(names)
           to == Links[d][n]
           dot == names = <<>> \/ names = <<".">>
           leaf == more = <<>> /\ (~last \/ ~Stats(d, n))
<1>1. PICK way : way = Append(ds, d)
  BY Zenon
<1>2. <<way, names, links>> \in Stages /\ Back(way) = d /\ Popped(way) = ds /\ (Len(way) = 1 <=> ds = <<>>)
  BY <1>1, StageLaws, ZenonT(60)
<1>3. X = Resolve(R, last, slashes, <<way, names, links>>)
  BY <1>1, <1>2, ReferenceEquation
<1>4. X = IF dot THEN Found(d, ".")
    ELSE IF n = "." THEN R[<<way, more, links>>]
    ELSE IF n = ".." THEN IF ds = <<>> THEN Fails("PERM") ELSE R[<<ds, more, links>>]
    ELSE IF leaf THEN Object(d, n)
    ELSE IF d \notin Browsable THEN Fails("ACCES")
    ELSE IF ~Has(d, n) THEN Fails("NOENT")
    ELSE IF IsLink(d, n)
      THEN IF links + 1 >= kMaxNestedLinks THEN Fails("LOOP")
           ELSE IF to.abs THEN Fails("PERM")
           ELSE IF more = <<>> THEN R[<<way, PartsOf(to, slashes), links + 1>>]
           ELSE R[<<way, to.parts \o more, links + 1>>]
    ELSE IF more = <<>> THEN Object(d, n)
    ELSE IF IsDir(d, n) THEN R[<<Append(way, Subdirs[d][n]), more, links>>]
    ELSE Fails("NOTDIR")
  BY <1>2, <1>3, ZenonT(60) DEF Resolve
<1> HIDE DEF R, X, n, more, to, dot, leaf
<1>5. Cases(last, slashes, ds, d, names, links)
  BY <1>1, <1>4, Zenon DEF Stats, Cases, R, X, n, more, to, dot, leaf
<1> QED BY <1>5

(* A path of one part, alone and with a last part ".".                    *)
LEMMA OneElement ==
  ASSUME NEW S, NEW p \in Seq(S), p # <<>>, Len(p) <= 1, "." \in S
  PROVE  /\ Head(p) \in S /\ p = <<Head(p)>> /\ p \o <<>> = <<Head(p)>> 
         /\ p \o <<".">> # <<>> /\ Head(p \o <<".">>) = Head(p) /\ Tail(p \o <<".">>) = <<".">>
<1>1. PICK k \in Nat : k = Len(p)
  OBVIOUS
<1>2. k # 0 /\ k <= 1
  BY <1>1
<1>3. k = 1
  BY <1>2
<1>4. PICK q \in Seq(S), x \in S : p = Append(q, x) /\ Len(q) = k - 1
  BY <1>1, BackLaws, Zenon
<1>5. q = <<>>
  BY <1>3, <1>4
<1>6. p = <<x>>
  BY <1>4, <1>5
<1>7. Head(<<x>>) = x /\ Tail(<<x>>) = <<>> /\ <<x>> \o <<>> = <<x>> /\ <<>> \o <<".">> = <<".">>
  OBVIOUS
<1>8. \A e \in Seq(S) : p \o e # <<>> /\ Head(p \o e) = Head(p) /\ Tail(p \o e) = Tail(p) \o e
  OBVIOUS
<1>9. <<".">> \in Seq(S)
  OBVIOUS
<1> QED BY <1>6, <1>7, <1>8, <1>9, Zenon

(* A path of several parts has parts after the first.                     *)
LEMMA MoreElements ==
  ASSUME NEW S, NEW p \in Seq(S), Len(p) > 1
  PROVE  p # <<>> /\ ~(Len(p) <= 1) /\ Head(p) \in S /\ Tail(p) \in Seq(S) /\ Tail(p) # <<>>
<1>1. Len(p) \in Nat /\ Len(p) # 0 /\ Len(p) - 1 # 0 /\ ~(Len(p) <= 1)
  OBVIOUS
<1>2. p # <<>>
  BY <1>1
<1>3. Head(p) \in S /\ Tail(p) \in Seq(S) /\ Len(Tail(p)) = Len(p) - 1
  BY <1>2
<1>4. Tail(p) # <<>>
  BY <1>1, <1>3, ZenonT(60)
<1> QED BY <1>1, <1>2, <1>3, <1>4

(* The four ways a path splits into Part, Remain and LastPart, against    *)
(* the parts that the reference takes it apart into.                      *)
Parsed(names) ==
    \/ Path = NoPath /\ names = <<>> /\ Part = "" /\ LastPart
    \/ /\ names = <<Part>> /\ Part \in PartNames /\ LastPart /\ Remain = NoPath
       /\ ~(Path.slash /\ FollowTrailingSlashes)
    \/ /\ names # <<>> /\ Head(names) = Part /\ Tail(names) = <<".">> /\ Part \in PartNames
       /\ ~LastPart /\ Remain = NoPath /\ Path.slash /\ FollowTrailingSlashes
    \/ /\ names # <<>> /\ Head(names) = Part /\ Part \in PartNames /\ ~LastPart
       /\ Tail(names) # <<>> /\ Tail(names) = PartsOf(Remain, FollowTrailingSlashes)
       /\ Remain # NoPath /\ IsPath(Remain) /\ ~Remain.abs /\ Remain.parts # <<>>
       /\ Remain.slash = Path.slash

(* A relative path splits in one of the four ways.                        *)
LEMMA PartsLaws ==
  ASSUME IsPath(Path), ~Path.abs, FollowTrailingSlashes \in BOOLEAN,
         NEW names, names = PartsOf(Path, FollowTrailingSlashes)
  PROVE  names \in Seq(PartNames) /\ Parsed(names)
<1>1. PICK p \in Seq(PartNames) : p = Path.parts
  BY DEF IsPath
<1>s. PICK sl : sl = Path.slash
  OBVIOUS
<1>2. Path = [abs |-> FALSE, parts |-> p, slash |-> sl] /\ sl \in BOOLEAN /\ (p = <<>> => ~sl)
  BY <1>1, <1>s DEF IsPath
<1>d. "." \in PartNames
  BY PathConstants, Zenon
<1>3. PICK e \in Seq(PartNames) : /\ e = IF Path.slash /\ FollowTrailingSlashes THEN <<".">> ELSE <<>>
                                 /\ names = p \o e
  <2>1. <<".">> \in Seq(PartNames) /\ <<>> \in Seq(PartNames)
    BY <1>d
  <2> QED BY <2>1, <1>1, ZenonT(60) DEF PartsOf
<1>4. names \in Seq(PartNames)
  BY <1>3
<1>f. LastPart <=> Len(p) <= 1 /\ ~(sl /\ FollowTrailingSlashes)
  BY <1>1, <1>s DEF LastPart
<1>5. CASE p = <<>>
  <2>1. e = <<>> /\ names = <<>> /\ Len(p) <= 1 /\ ~sl
    BY <1>2, <1>3, <1>5, <1>s
  <2>2. Path = NoPath /\ Part = ""
    BY <1>1, <1>2, <1>5, <2>1, ZenonT(60) DEF NoPath, Part
  <2> QED BY <1>4, <1>f, <2>1, <2>2, Zenon DEF Parsed
<1>6. CASE p # <<>> /\ Len(p) <= 1
  <2>0. /\ Head(p) \in PartNames /\ p \o <<>> = <<Head(p)>>
        /\ p \o <<".">> # <<>> /\ Head(p \o <<".">>) = Head(p) /\ Tail(p \o <<".">>) = <<".">>
    BY <1>6, <1>d, OneElement
  <2>1. Part = Head(p) /\ Remain = NoPath
    BY <1>1, <1>6 DEF Part, Remain
  <2>2. CASE sl /\ FollowTrailingSlashes
    <3>1. names # <<>> /\ Head(names) = Head(p) /\ Tail(names) = <<".">>
      BY <1>3, <1>s, <2>0, <2>2
    <3> QED BY <3>1, <2>0, <2>1, <2>2, <1>4, <1>f, <1>s, Zenon DEF Parsed
  <2>3. CASE ~(sl /\ FollowTrailingSlashes)
    <3>1. names = <<Head(p)>>
      BY <1>3, <1>s, <2>0, <2>3, Zenon
    <3> QED BY <3>1, <2>0, <2>1, <2>3, <1>4, <1>6, <1>f, <1>s DEF Parsed
  <2> QED BY <2>2, <2>3
<1>7. CASE Len(p) > 1
  <2>0. /\ p # <<>> /\ ~(Len(p) <= 1)
        /\ Head(p) \in PartNames /\ Tail(p) \in Seq(PartNames) /\ Tail(p) # <<>>
    BY <1>7, MoreElements
  <2>2. Part = Head(p) /\ ~LastPart
    BY <1>1, <1>f, <2>0 DEF Part
  <2>r. Remain = [abs |-> FALSE, parts |-> Tail(p), slash |-> sl]
    <3>1. PICK t : t = Tail(p)
      BY ZenonT(60)
    <3>2. Remain = [Path EXCEPT !.parts = t]
      BY <1>1, <3>1, <2>0 DEF Remain
    <3> QED BY <3>1, <3>2, <1>2, Zenon
  <2>3. names # <<>> /\ Head(names) = Head(p) /\ Tail(names) = Tail(p) \o e /\ Tail(p) \o e # <<>>
    BY <1>3, <2>0
  <2>4. PartsOf(Remain, FollowTrailingSlashes) = Tail(p) \o e
    BY <2>r, <1>3, <1>s, Zenon DEF PartsOf
  <2>5. Remain # NoPath /\ IsPath(Remain) /\ ~Remain.abs /\ Remain.parts # <<>> /\ Remain.slash = Path.slash
    BY <2>0, <2>r, <1>2, <1>s DEF NoPath, IsPath
  <2> QED BY <1>4, <2>0, <2>2, <2>3, <2>4, <2>5, Zenon DEF Parsed
<1>8. p = <<>> \/ (p # <<>> /\ Len(p) <= 1) \/ Len(p) > 1
  OBVIOUS
<1> QED BY <1>4, <1>5, <1>6, <1>7, <1>8

(* When Part is not the last, the reference goes on with the parts of     *)
(* Remain.                                                                *)
LEMMA Advances ==
  ASSUME IsPath(Path), ~Path.abs, FollowTrailingSlashes \in BOOLEAN, ~LastPart,
         NEW names, names = PartsOf(Path, FollowTrailingSlashes)
  PROVE  /\ names # <<>> /\ Head(names) = Part /\ Tail(names) # <<>>
         /\ IsPath(Remain) /\ ~Remain.abs
         /\ \A ds \in Seq(Dirs), d \in Dirs, links \in Nat :
              Reference(follow, FollowTrailingSlashes)[<<Append(ds, d), Tail(names), links>>] =
              RefAt(follow, FollowTrailingSlashes, Append(ds, d), Remain, links)
<1>p. "." \in PartNames
  BY PathConstants, ZenonT(60)
<1>0. IsPath(NoPath) /\ ~NoPath.abs /\ PartsOf(NoPath, FollowTrailingSlashes) = <<>>
  BY SMTT(60) DEF IsPath, NoPath, PartsOf
<1>1. CASE names # <<>> /\ Head(names) = Part /\ Tail(names) = <<".">> /\ Remain = NoPath
  <2>1. <<".">> \in Seq(PartNames) /\ <<>> \in Seq(PartNames) /\ <<".">> # <<>>
    BY <1>p
  <2>2. ASSUME NEW ds \in Seq(Dirs), NEW d \in Dirs, NEW links \in Nat
        PROVE  /\ Reference(follow, FollowTrailingSlashes)[<<Append(ds, d), <<".">>, links>>] = Found(d, ".")
               /\ Reference(follow, FollowTrailingSlashes)[<<Append(ds, d), <<>>, links>>] = Found(d, ".")
    <3>1. /\ Cases(follow, FollowTrailingSlashes, ds, d, <<".">>, links)
          /\ Cases(follow, FollowTrailingSlashes, ds, d, <<>>, links)
      BY <2>1, ReferenceCases, Zenon
    <3> QED BY <3>1, Zenon DEF Cases
  <2> QED BY <1>0, <1>1, <2>1, <2>2, Zenon DEF RefAt
<1>2. CASE /\ names # <<>> /\ Head(names) = Part /\ Tail(names) # <<>>
           /\ Tail(names) = PartsOf(Remain, FollowTrailingSlashes) /\ IsPath(Remain) /\ ~Remain.abs
  BY <1>2, Zenon DEF RefAt
<1>3. Parsed(names)
  BY PartsLaws
<1> QED BY <1>1, <1>2, <1>3, Zenon DEF Parsed

(* What the results of a walk stand for.                                  *)
LEMMA ReachedLaws ==
  /\ \A e \in Errors : Reached(Fails(e)) = Fails(e)
  /\ \A d, n : n # "" => Reached(Found(d, n)) = Object(d, n)
  /\ \A d : Reached(Found(d, "")) = Found(d, ".") /\ Reached(Found(d, ".")) = Found(d, ".")
  /\ \A d : Object(d, ".") = Found(d, ".")
<1>1. \A e \in Errors : Fails(e).err # "ok"
  BY DEF Fails, Errors
<1>2. \A d, n : Found(d, n).err = "ok" /\ Found(d, n).dir = d /\ Found(d, n).name = n
  BY SMTT(60) DEF Found
<1>3. "." # ""
  OBVIOUS
<1>4. \A d : Object(d, ".") = Found(d, ".")
  BY DEF Object
<1>5. \A d, n : n # "" => Reached(Found(d, n)) = Object(d, n)
  BY <1>2, ZenonT(60) DEF Meaning, Reached
<1>6. \A d : Reached(Found(d, "")) = Found(d, ".")
  BY <1>2, ZenonT(60) DEF Reached
<1>7. \A e \in Errors : Reached(Fails(e)) = Fails(e)
  BY <1>1, ZenonT(60) DEF Meaning, Reached
<1>8. \A d : Reached(Found(d, ".")) = Found(d, ".")
  BY <1>3, <1>4, <1>5, Zenon
<1> QED BY <1>4, <1>5, <1>6, <1>7, <1>8, Zenon

(* Every step of the walk keeps Follows: one case for each case of the    *)
(* reference.                                                             *)
LEMMA FollowsStep ==
  ASSUME PathInv, Follows, [PathNext]_pathVars
  PROVE  Follows'
<1>0. /\ PartFds \in Seq(Dirs) /\ (walk = "part" => Fd \in Dirs) /\ LinkCount \in Nat
      /\ IsPath(Path) /\ asked \in Paths
      /\ follow \in BOOLEAN /\ FollowTrailingSlashes \in BOOLEAN
      /\ walk = "part" => ~Path.abs
  <2>1. LinkCount \in 0..kMaxNestedLinks /\ kMaxNestedLinks \in Nat
    BY PathConstants, Zenon DEF PathInv, PathTypeOK
  <2>2. LinkCount \in Nat
    BY <2>1
  <2> QED BY <2>2, SMTT(60) DEF PathInv, PathTypeOK, Follows
<1>1. ~dropped =>
         /\ walk = "check" =>
              \/ Path = asked /\ Fd = base /\ PartFds = <<>> /\ LinkCount = 0
              \/ /\ Fd \in Browsable /\ Path # NoPath
                 /\ Given = IF Path.abs THEN Fails("PERM") ELSE Expects
         /\ walk = "part" => Given = Expects
         /\ walk = "done" => Given = Reached(found)
  BY DEF Follows
<1>g. ASSUME UNCHANGED given
      PROVE  /\ Given' = Given /\ asked' = asked /\ follow' = follow
             /\ FollowTrailingSlashes' = FollowTrailingSlashes
             /\ Expects' = RefAt(follow, FollowTrailingSlashes, Append(PartFds', Fd'), Path', LinkCount')
  BY <1>g DEF given, Given, Expects
<1>e. ASSUME NEW r, Ends(r), ~dropped => Given = Reached(r)
      PROVE  Follows'
  <2>1. /\ UNCHANGED <<given, Path, dropped>> /\ walk' = "done" /\ found' = r
    BY <1>e DEF Ends
  <2>2. Reached(found)' = Reached(r)
    BY <2>1
  <2> QED BY <2>1, <2>2, <1>0, <1>g, <1>e DEF Follows
<1>x. ASSUME NEW e \in Errors, Ends(Fails(e)), ~dropped => Given = Fails(e)
      PROVE  Follows'
  BY <1>x, <1>e, ReachedLaws, Zenon
<1>y. ASSUME NEW d, NEW n, n # "", Ends(Found(d, n)), ~dropped => Given = Object(d, n)
      PROVE  Follows'
  BY <1>y, <1>e, ReachedLaws, ZenonT(60)
<1>n. ASSUME NEW ds, NEW d, GoesOn(d, ds), walk = "part", IsPath(Remain), ~Remain.abs,
             ~dropped => Given = RefAt(follow, FollowTrailingSlashes, Append(ds, d), Remain, LinkCount)
      PROVE  Follows'
  <2>1. UNCHANGED <<given, LinkCount, walk, dropped>> /\ Fd' = d /\ PartFds' = ds /\ Path' = Remain
    BY <1>n DEF GoesOn
  <2>2. ~dropped => Given' = Expects'
    BY <2>1, <1>g, <1>n
  <2> QED BY <2>1, <2>2, <1>0, <1>g, <1>n DEF Follows
<1>2. CASE CheckPath
  <2>1. CASE Path = NoPath
    <3>1. ~dropped => Given = Fails("NOENT")
      BY <1>1, <1>2, <2>1, Zenon DEF CheckPath, Given, Specified
    <3> QED BY <1>2, <2>1, <3>1, <1>x, SMTT(60) DEF CheckPath, Errors
  <2>2. CASE Path # NoPath /\ Path.abs
    <3>1. ~dropped => Given = Fails("PERM")
      BY <1>1, <1>2, <2>2 DEF CheckPath, Given, Specified
    <3> QED BY <1>2, <2>2, <3>1, <1>x, SMTT(60) DEF CheckPath, Errors
  <2>3. CASE Path # NoPath /\ ~Path.abs /\ Fd \notin Dirs
    <3>1. Fd \notin Browsable
      BY <2>3, PathConstants, ZenonT(60)
    <3>2. ~dropped => Given = Fails("NOTDIR")
      BY <1>1, <1>2, <2>3, <3>1, ZenonT(60) DEF CheckPath, Given, Specified
    <3> QED BY <1>2, <2>3, <3>2, <1>x DEF CheckPath, Errors
  <2>4. CASE Path # NoPath /\ ~Path.abs /\ Fd \in Dirs /\ Fd \notin Browsable
    <3>2. ~dropped => Given = Fails("ACCES")
      BY <1>1, <1>2, <2>4, ZenonT(60) DEF CheckPath, Given, Specified
    <3> QED BY <1>2, <2>4, <3>2, <1>x, SMTT(60) DEF CheckPath, Errors
  <2>5. CASE Path # NoPath /\ ~Path.abs /\ Fd \in Dirs /\ Fd \in Browsable
    <3>1. walk' = "part" /\ UNCHANGED <<given, Fd, PartFds, Path, LinkCount, found, dropped>>
      BY <1>2, <2>5 DEF CheckPath
    <3>2. ASSUME ~dropped PROVE Given = Expects
      <4>1. CASE Path = asked /\ Fd = base /\ PartFds = <<>> /\ LinkCount = 0
        <5>1. Append(<<>>, Fd) = <<Fd>>
          OBVIOUS
        <5> QED BY <4>1, <5>1, <2>5 DEF Given, Specified, Expects, RefAt
      <4> QED BY <4>1, <3>2, <1>1, <1>2, <2>5, SMTT(60) DEF CheckPath
    <3>3. Expects' = Expects
      BY <3>1, <1>g DEF Expects
    <3> QED BY <3>1, <3>2, <3>3, <2>5, <1>0, <1>g DEF Follows
  <2> QED BY <2>1, <2>2, <2>3, <2>4, <2>5
<1>3. ASSUME walk = "part", PathNext PROVE Follows'
  <2>1. PICK names : names = PartsOf(Path, FollowTrailingSlashes)
    OBVIOUS
  <2>2. /\ Fd \in Dirs /\ ~Path.abs /\ names \in Seq(PartNames) /\ Parsed(names)
    BY <2>1, <1>0, <1>3, PartsLaws
  <2>3. ~dropped => Given = Reference(follow, FollowTrailingSlashes)[<<Append(PartFds, Fd), names, LinkCount>>]
    BY <2>1, <1>1, <1>3 DEF Expects, RefAt
  <2>4. Cases(follow, FollowTrailingSlashes, PartFds, Fd, names, LinkCount)
    BY <2>2, <1>0, ReferenceCases
  <2>5. LastPart => \/ Path = NoPath /\ names = <<>> /\ Part = ""
                    \/ names = <<Part>> /\ Part \in PartNames
    BY <2>2, ZenonT(60) DEF Parsed
  <2>6. ASSUME ~LastPart
        PROVE  /\ names # <<>> /\ Head(names) = Part /\ Tail(names) # <<>>
               /\ names # <<".">>
               /\ IsPath(Remain) /\ ~Remain.abs
               /\ \A ds \in Seq(Dirs), d \in Dirs, links \in Nat :
                    Reference(follow, FollowTrailingSlashes)[<<Append(ds, d), Tail(names), links>>] =
                    RefAt(follow, FollowTrailingSlashes, Append(ds, d), Remain, links)
    <3>1. Tail(<<".">>) = <<>>
      OBVIOUS
    <3> QED BY <2>1, <2>2, <2>6, <3>1, <1>0, Advances, ZenonT(60)
  <2>7. CASE Dot
    <3>1. CASE LastPart
      <4>1. names = <<".">>
        BY <2>5, <2>7, <3>1 DEF Dot
      <4>2. ~dropped => Given = Object(Fd, ".")
        BY <4>1, <2>3, <2>4, ReachedLaws, Zenon DEF Cases
      <4>3. "." # ""
        OBVIOUS
      <4> QED BY <2>7, <3>1, <4>2, <4>3, <1>y DEF Dot
    <3>2. CASE ~LastPart
      <4>1. ~dropped => Given = Reference(follow, FollowTrailingSlashes)[<<Append(PartFds, Fd), Tail(names), LinkCount>>]
        BY <2>3, <2>4, <2>6, <2>7, <3>2, ZenonT(60) DEF Cases, Dot
      <4>2. ~dropped => Given = RefAt(follow, FollowTrailingSlashes, Append(PartFds, Fd), Remain, LinkCount)
        BY <4>1, <3>2, <2>6, <2>2, <1>0, Zenon
      <4> QED BY <4>2, <3>2, <2>6, <2>7, <1>3, <1>n, ZenonT(60) DEF Dot
    <3> QED BY <3>1, <3>2
  <2>8. CASE DotDot
    <3>0. Part = ".." /\ (LastPart => names = <<"..">>)
      BY <2>5, <2>8 DEF DotDot
    <3>a. names # <<>> /\ names # <<".">> /\ Head(names) = ".."
      <4>1. <<"..">> # <<>> /\ Head(<<"..">>) = ".." /\ Head(<<".">>) = "."
        OBVIOUS
      <4> QED BY <3>0, <2>6, <4>1
    <3>1. CASE PartFds = <<>>
      <4>1. ~dropped => Given = Fails("PERM")
        BY <3>a, <3>1, <2>3, <2>4, Zenon DEF Cases
      <4> QED BY <2>8, <3>1, <4>1, <1>x, SMTT(60) DEF DotDot, Errors
    <3>2. CASE PartFds # <<>>
      <4>1. /\ Back(PartFds) \in Dirs /\ Popped(PartFds) \in Seq(Dirs)
            /\ Append(Popped(PartFds), Back(PartFds)) = PartFds
        BY <1>0, <3>2, BackLaws, SMTT(60)
      <4>2. ~dropped => Given = Reference(follow, FollowTrailingSlashes)[<<PartFds, Tail(names), LinkCount>>]
        BY <3>a, <3>2, <2>3, <2>4, ZenonT(60) DEF Cases
      <4>3. CASE LastPart
        <5>1. Tail(names) = <<>> /\ <<>> \in Seq(PartNames)
          <6>1. Tail(<<"..">>) = <<>> /\ <<>> \in Seq(PartNames)
            OBVIOUS
          <6> QED BY <3>0, <4>3, <6>1, Zenon
        <5>2. Cases(follow, FollowTrailingSlashes, Popped(PartFds), Back(PartFds), <<>>, LinkCount)
          BY <4>1, <5>1, <1>0, ReferenceCases, Zenon
        <5>3. ~dropped => Given = Found(Back(PartFds), ".")
          BY <4>1, <4>2, <5>1, <5>2, Zenon DEF Cases
        <5>4. /\ walk' = "done" /\ found' = Found(Back(PartFds), ".")
              /\ UNCHANGED <<given, Path, dropped>>
          BY <2>8, <3>2, <4>3 DEF DotDot
        <5>5. ~dropped => Given = Reached(found')
          BY <5>3, <5>4, ReachedLaws, Zenon
        <5>6. Reached(found)' = Reached(found')
          OBVIOUS
        <5> QED BY <5>4, <5>5, <5>6, <1>0, <1>g DEF Follows
      <4>4. CASE ~LastPart
        <5>1. ~dropped => Given = RefAt(follow, FollowTrailingSlashes, Append(Popped(PartFds), Back(PartFds)), Remain, LinkCount)
          BY <4>1, <4>2, <4>4, <2>6, <1>0, ZenonT(60)
        <5> QED BY <5>1, <4>4, <3>2, <2>6, <2>8, <1>3, <1>n DEF DotDot
      <4> QED BY <4>3, <4>4
    <3> QED BY <3>1, <3>2
  <2>9. CASE TakeName
    <3>0. LastPart /\ (~follow \/ ~Stats(Fd, Part)) /\ Part \notin {".", ".."}
      BY <2>9 DEF TakeName, Unfollowed, Named
    <3>1. CASE Path = NoPath /\ names = <<>> /\ Part = ""
      <4>1. ~dropped => Given = Reached(Found(Fd, Part))
        BY <3>1, <2>3, <2>4, ReachedLaws, Zenon DEF Cases
      <4> QED BY <2>9, <4>1, <1>e DEF TakeName
    <3>2. CASE names = <<Part>> /\ Part \in PartNames
      <4>1. <<Part>> # <<>> /\ Head(<<Part>>) = Part /\ Tail(<<Part>>) = <<>> /\ Head(<<".">>) = "."
        OBVIOUS
      <4>2. names # <<>> /\ names # <<".">> /\ Head(names) = Part /\ Tail(names) = <<>>
        BY <3>0, <3>2, <4>1
      <4>3. ~dropped => Given = Object(Fd, Part)
        BY <3>0, <4>2, <2>3, <2>4, Zenon DEF Cases
      <4>4. Part # ""
        BY <3>2, PathConstants, Zenon
      <4> QED BY <2>9, <4>3, <4>4, <1>y DEF TakeName
    <3> QED BY <3>0, <3>1, <3>2, <2>5, Zenon
  <2>10. CASE NoEntry
    <3>0. ~LastPart /\ ~Stats(Fd, Part) /\ Part \notin {".", ".."}
      BY <2>10, SMTT(60) DEF NoEntry, Named
    <3>1. ~dropped => Given = Fails(IF Fd \in Browsable THEN "NOENT" ELSE "ACCES")
      BY <3>0, <2>3, <2>4, <2>6, Zenon DEF Cases, Stats
    <3>2. (IF Fd \in Browsable THEN "NOENT" ELSE "ACCES") \in Errors
      BY DEF Errors
    <3> QED BY <3>1, <3>2, <2>10, <1>x DEF NoEntry
  <2>11. CASE FollowLink \/ TakeEntry
    <3>0. Stats(Fd, Part) /\ Part \notin {".", ".."} /\ (LastPart => follow)
      BY <2>11 DEF FollowLink, TakeEntry, Named, Unfollowed
    <3>1. Part # "" /\ Fd \in Browsable
      BY <3>0, <2>2, PathConstants, Zenon DEF Stats
    <3>2. /\ names # <<>> /\ names # <<".">> /\ Head(names) = Part
          /\ LastPart <=> Tail(names) = <<>>
          /\ ~(Tail(names) = <<>> /\ (~follow \/ ~Stats(Fd, Part)))
      <4>1. <<Part>> # <<>> /\ Head(<<Part>>) = Part /\ Tail(<<Part>>) = <<>> /\ Head(<<".">>) = "."
        OBVIOUS
      <4>2. LastPart => names # <<>> /\ names # <<".">> /\ Head(names) = Part /\ Tail(names) = <<>>
        BY <2>5, <3>0, <3>1, <4>1, Zenon
      <4> QED BY <4>2, <2>6, <3>0
    <3>3. CASE FollowLink
      <4>1. PICK to : to = Links[Fd][Part]
        OBVIOUS
      <4>2. IsLink(Fd, Part) /\ IsPath(to) /\ to # NoPath
        BY <3>3, <4>1, <2>2, PathConstants, Zenon DEF FollowLink
      <4>3. CASE LinkCount + 1 >= kMaxNestedLinks
        <5>1. ~dropped => Given = Fails("LOOP")
          BY <4>2, <4>3, <3>0, <3>2, <2>3, <2>4, Zenon DEF Cases
        <5> QED BY <5>1, <4>3, <3>3, <1>x, SMTT(60) DEF FollowLink, Errors
      <4>4. CASE ~(LinkCount + 1 >= kMaxNestedLinks)
        <5>1. /\ Path' = IF Remain = NoPath THEN to
                         ELSE [to EXCEPT !.parts = to.parts \o Remain.parts, !.slash = Remain.slash]
              /\ dropped' = (dropped \/ (FollowTrailingSlashes /\ Remain = NoPath /\ Path.slash /\ ~to.slash))
              /\ LinkCount' = LinkCount + 1 /\ walk' = "check" /\ UNCHANGED <<given, Fd, PartFds, found>>
          BY <3>3, <4>1, <4>4, SMTT(60) DEF FollowLink
        <5>2. ~dropped =>
                 /\ to.abs => Given = Fails("PERM")
                 /\ ~to.abs /\ Tail(names) = <<>> =>
                      Given = Reference(follow, FollowTrailingSlashes)
                                [<<Append(PartFds, Fd), PartsOf(to, FollowTrailingSlashes), LinkCount + 1>>]
                 /\ ~to.abs /\ Tail(names) # <<>> =>
                      Given = Reference(follow, FollowTrailingSlashes)
                                [<<Append(PartFds, Fd), to.parts \o Tail(names), LinkCount + 1>>]
          BY <4>1, <4>2, <4>4, <3>0, <3>2, <2>3, <2>4, Zenon DEF Cases
        <5>3. ASSUME IsPath(Path'), Path' # NoPath, Path'.abs = to.abs,
                     ~dropped' /\ ~to.abs =>
                       PartsOf(Path', FollowTrailingSlashes) =
                         IF Tail(names) = <<>> THEN PartsOf(to, FollowTrailingSlashes)
                         ELSE to.parts \o Tail(names)
              PROVE  Follows'
          <6>1. ~dropped' => ~dropped
            BY <5>1, Zenon
          <6>2. ~dropped' => Given' = IF Path'.abs THEN Fails("PERM") ELSE Expects'
            BY <5>1, <5>2, <5>3, <6>1, <1>g, ZenonT(60) DEF RefAt
          <6> QED BY <5>1, <5>3, <6>2, <3>1, <1>0, <1>g, Zenon DEF Follows
        <5>4. CASE Remain = NoPath
          <6>1. Path' = to
            BY <5>1, <5>4
          <6>2. ASSUME ~dropped', Tail(names) # <<>>
                PROVE  PartsOf(to, FollowTrailingSlashes) = to.parts \o Tail(names)
            <7>1. Tail(names) = <<".">> /\ Path.slash /\ FollowTrailingSlashes
              BY <6>2, <5>4, <3>2, <2>2, Zenon DEF Parsed
            <7>2. to.slash
              BY <7>1, <6>2, <5>1, <5>4, Zenon
            <7> QED BY <7>1, <7>2, Zenon DEF PartsOf
          <6> QED BY <6>1, <6>2, <5>3, <4>2, Zenon
        <5>5. CASE Remain # NoPath
          <6>1. /\ Tail(names) # <<>> /\ Tail(names) = PartsOf(Remain, FollowTrailingSlashes)
                /\ IsPath(Remain) /\ Remain.parts # <<>>
            BY <5>5, <3>1, <2>2, Zenon DEF Parsed
          <6>2. PICK a \in Seq(PartNames), b \in Seq(PartNames) : a = to.parts /\ b = Remain.parts
            BY <6>1, <4>2 DEF IsPath
          <6>3. PICK sl \in BOOLEAN : sl = Remain.slash
            BY <6>1 DEF IsPath
          <6>4. PICK q \in Seq(PartNames) : q = a \o b /\ q # <<>>
            <7>1. b # <<>> /\ Len(a) \in Nat /\ Len(b) \in Nat /\ Len(a \o b) = Len(a) + Len(b)
              BY <6>1, <6>2
            <7>2. Len(b) # 0
              BY <7>1
            <7>3. Len(a) + Len(b) # 0
              BY <7>1, <7>2
            <7>4. a \o b \in Seq(PartNames) /\ a \o b # <<>>
              BY <7>1, <7>3
            <7> QED BY <7>4, Zenon
          <6>5. Path' = [abs |-> to.abs, parts |-> q, slash |-> sl] /\ to.abs \in BOOLEAN
            BY <5>1, <5>5, <6>2, <6>3, <6>4, <4>2, ZenonT(60) DEF IsPath
          <6>6. IsPath(Path') /\ Path' # NoPath /\ Path'.abs = to.abs
            BY <6>4, <6>5 DEF IsPath, NoPath
          <6>7. PartsOf(Path', FollowTrailingSlashes) = to.parts \o Tail(names)
            <7>1. PICK e \in Seq(PartNames) : e = IF sl /\ FollowTrailingSlashes THEN <<".">> ELSE <<>>
              <8>1. "." \in PartNames
                BY PathConstants, Zenon
              <8>2. <<".">> \in Seq(PartNames) /\ <<>> \in Seq(PartNames)
                BY <8>1, SMTT(60)
              <8> QED BY <8>2, Zenon
            <7>2. Tail(names) = b \o e /\ PartsOf(Path', FollowTrailingSlashes) = q \o e
              BY <6>1, <6>2, <6>3, <6>5, <7>1, ZenonT(60) DEF PartsOf
            <7>3. (a \o b) \o e = a \o (b \o e)
              BY SMTT(60)
            <7> QED BY <6>2, <6>4, <7>2, <7>3, Zenon
          <6> QED BY <6>1, <6>6, <6>7, <5>3, ZenonT(60)
        <5> QED BY <5>4, <5>5
      <4> QED BY <4>3, <4>4
    <3>4. CASE TakeEntry
      <4>1. ~IsLink(Fd, Part)
        BY <3>4, ZenonT(60) DEF TakeEntry
      <4>2. CASE LastPart
        <5>1. ~dropped => Given = Object(Fd, Part)
          BY <4>1, <4>2, <3>0, <3>2, <2>3, <2>4, ZenonT(60) DEF Cases
        <5> QED BY <5>1, <4>2, <3>1, <3>4, <1>y, ZenonT(60) DEF TakeEntry
      <4>3. CASE ~LastPart /\ ~IsDir(Fd, Part)
        <5>1. ~dropped => Given = Fails("NOTDIR")
          BY <4>1, <4>3, <3>0, <3>2, <2>3, <2>4, Zenon DEF Cases
        <5> QED BY <5>1, <4>3, <3>4, <1>x, ZenonT(60) DEF TakeEntry, Errors
      <4>4. CASE ~LastPart /\ IsDir(Fd, Part)
        <5>1. PICK sub \in Dirs : sub = Subdirs[Fd][Part]
          BY <4>4, <2>2, PathConstants, ZenonT(60)
        <5>2. ~dropped => Given = Reference(follow, FollowTrailingSlashes)
                                    [<<Append(Append(PartFds, Fd), sub), Tail(names), LinkCount>>]
          BY <4>1, <4>4, <5>1, <3>0, <3>2, <2>3, <2>4, Zenon DEF Cases
        <5>3. Append(PartFds, Fd) \in Seq(Dirs)
          BY <1>0, <2>2, SMTT(60)
        <5>4. ~dropped => Given = RefAt(follow, FollowTrailingSlashes, Append(Append(PartFds, Fd), sub), Remain, LinkCount)
          BY <5>2, <5>3, <4>4, <2>6, <1>0, ZenonT(60)
        <5>5. CASE Remain # NoPath
          BY <5>1, <5>4, <5>5, <4>4, <3>4, <2>6, <1>3, <1>n DEF TakeEntry
        <5>6. CASE Remain = NoPath
          <6>1. PartsOf(NoPath, FollowTrailingSlashes) = <<>> /\ <<>> \in Seq(PartNames)
            BY DEF PartsOf, NoPath
          <6>2. Cases(follow, FollowTrailingSlashes, Append(PartFds, Fd), sub, <<>>, LinkCount)
            BY <6>1, <5>3, <1>0, ReferenceCases, ZenonT(60)
          <6>3. ~dropped => Given = Found(sub, ".")
            BY <6>1, <6>2, <5>4, <5>6, Zenon DEF Cases, RefAt
          <6>4. /\ walk' = "done" /\ found' = Found(sub, ".")
                /\ UNCHANGED <<given, Path, dropped>>
            BY <5>1, <5>6, <4>4, <3>4, Zenon DEF TakeEntry
          <6>5. ~dropped => Given = Reached(found')
            BY <6>3, <6>4, ReachedLaws, Zenon
          <6>6. Reached(found)' = Reached(found')
            OBVIOUS
          <6> QED BY <6>4, <6>5, <6>6, <1>0, <1>g DEF Follows
        <5> QED BY <5>5, <5>6, SMTT(60)
      <4> QED BY <4>2, <4>3, <4>4
    <3> QED BY <2>11, <3>3, <3>4
  <2> QED BY <1>3, <2>7, <2>8, <2>9, <2>10, <2>11 DEF PathNext, CheckPath
<1>4. CASE UNCHANGED pathVars
  <2>1. UNCHANGED <<given, Fd, PartFds, Path, LinkCount, walk, found, dropped>>
    BY <1>4 DEF pathVars
  <2>2. Expects' = Expects /\ Reached(found)' = Reached(found) /\ base' = base
    BY <2>1 DEF Expects, given
  <2> QED BY <2>1, <2>2, <1>0, <1>1, <1>g DEF Follows
<1>5. PathNext => CheckPath \/ walk = "part"
  BY DEF PathNext, Dot, DotDot, TakeName, NoEntry, FollowLink, TakeEntry, Named
<1> QED BY <1>2, <1>3, <1>4, <1>5

-----------------------------------------------------------------------------
(* Where the empty name comes from: a path that ends in "./" or "../".    *)

(* A path ahead that ends so comes from one that was asked for or is in a *)
(* link; nothing is ahead of a part only after the end of such a path.    *)
Dotted ==
    /\ FollowTrailingSlashes /\ DotSlash(Path) => EndsInDots
    /\ walk = "part" /\ Path = NoPath => EndsInDots
    /\ found.err = "ok" /\ found.name = "" => EndsInDots

(* The last part of what remains, and of what a link is replaced by.      *)
LEMMA LastPartLaws ==
  ASSUME NEW S, NEW a \in Seq(S), NEW b \in Seq(S), b # <<>>
  PROVE  /\ a \o b # <<>> /\ Back(a \o b) = Back(b)
         /\ Len(b) > 1 => Tail(b) # <<>> /\ Back(Tail(b)) = Back(b)
         /\ Len(b) <= 1 => Back(b) = Head(b)
<1>1. Len(a) \in Nat /\ Len(b) \in Nat /\ Len(b) >= 1 /\ Len(a \o b) = Len(a) + Len(b)
  OBVIOUS
<1>2. a \o b # <<>> /\ (a \o b)[Len(a) + Len(b)] = b[Len(b)]
  BY <1>1
<1>3. ASSUME Len(b) > 1 PROVE Tail(b) # <<>> /\ Len(Tail(b)) = Len(b) - 1 /\ Tail(b)[Len(b) - 1] = b[Len(b)]
  BY <1>1, <1>3
<1>4. ASSUME Len(b) <= 1 PROVE b[Len(b)] = Head(b)
  <2>1. PICK k \in Nat : k = Len(b) /\ k >= 1 /\ k <= 1
    BY <1>1, <1>4, Zenon
  <2>2. k = 1
    BY <2>1
  <2>3. Head(b) = b[1]
    OBVIOUS
  <2> QED BY <2>1, <2>2, <2>3, Zenon
<1> QED BY <1>1, <1>2, <1>3, <1>4, SMTT(60) DEF Back

(* Every step of the walk keeps Dotted.                                   *)
LEMMA DottedStep ==
  ASSUME PathInv, Follows, Dotted, [PathNext]_pathVars
  PROVE  Dotted'
<1>0. /\ IsPath(Path) /\ (walk = "part" => ~Path.abs /\ Fd \in Dirs)
      /\ FollowTrailingSlashes \in BOOLEAN
  BY SMTT(60) DEF PathInv, PathTypeOK, Follows
<1>1. /\ FollowTrailingSlashes /\ DotSlash(Path) => EndsInDots
      /\ walk = "part" /\ Path = NoPath => EndsInDots
      /\ found.err = "ok" /\ found.name = "" => EndsInDots
  BY Zenon DEF Dotted
<1>2. Path.parts \in Seq(PartNames) /\ Path.slash \in BOOLEAN
      /\ (walk = "part" /\ Path.parts = <<>> => Path = NoPath)
  <2>1. Path \in [abs : BOOLEAN, parts : Seq(PartNames), slash : BOOLEAN]
        /\ (Path.parts = <<>> /\ Path.slash => Path.abs)
    BY <1>0, Zenon DEF IsPath
  <2>2. Path.parts \in Seq(PartNames) /\ Path.slash \in BOOLEAN /\ Path.abs \in BOOLEAN
    BY <2>1, SMT
  <2>3. ASSUME walk = "part", Path.parts = <<>> PROVE Path = NoPath
    BY <2>1, <2>2, <2>3, <1>0, SMT DEF NoPath
  <2> QED BY <2>2, <2>3, Zenon
<1>g. ASSUME UNCHANGED given PROVE EndsInDots' = EndsInDots
  BY <1>g DEF given, EndsInDots
<1>e. ASSUME NEW r, Ends(r), r.err = "ok" /\ r.name = "" => EndsInDots
      PROVE  Dotted'
  <2>1. /\ UNCHANGED <<given, Path>> /\ walk' = "done" /\ found' = r
        /\ FollowTrailingSlashes' = FollowTrailingSlashes
    BY <1>e DEF Ends, given
  <2>2. DotSlash(Path)' = DotSlash(Path) /\ EndsInDots' = EndsInDots
    BY <2>1, <1>g DEF DotSlash
  <2> QED BY <2>1, <2>2, <1>1, <1>e DEF Dotted
<1>f. \A d, n : Found(d, n).name = n
  BY SMTT(60) DEF Found
<1>x. \A e : Fails(e).err = e
  BY SMTT(60) DEF Fails
<1>n. ASSUME NEW ds, NEW d, GoesOn(d, ds), walk = "part", ~LastPart,
             Remain = NoPath => Part \in {".", ".."}
      PROVE  Dotted'
  <2>1. /\ UNCHANGED <<given, walk, found>> /\ Path' = Remain
        /\ FollowTrailingSlashes' = FollowTrailingSlashes
    BY <1>n DEF GoesOn, given
  <2>2. EndsInDots' = EndsInDots /\ DotSlash(Path)' = DotSlash(Remain)
    BY <2>1, <1>g DEF DotSlash
  <2>3. CASE Path.parts = <<>>
    <3>1. NoPath.slash = FALSE /\ NoPath.parts = <<>> /\ Len(<<>>) <= 1
      BY DEF NoPath
    <3>2. LastPart
      BY <2>3, <3>1, <1>2, <1>n, ZenonT(60) DEF LastPart
    <3> QED BY <3>2, <1>n
  <2>4. CASE Path.parts # <<>> /\ Len(Path.parts) <= 1
    <3>1. FollowTrailingSlashes /\ Path.slash
      BY <2>4, <1>n DEF LastPart
    <3>2. Remain = NoPath /\ Part = Head(Path.parts)
      BY <2>4 DEF Remain, Part
    <3>3. Back(Path.parts) = Head(Path.parts)
      BY <2>4, <1>2, LastPartLaws
    <3>4. EndsInDots
      BY <3>1, <3>2, <3>3, <2>4, <1>1, <1>n, Zenon DEF DotSlash
    <3> QED BY <3>4, <2>2, Zenon DEF Dotted
  <2>5. CASE Path.parts # <<>> /\ ~(Len(Path.parts) <= 1)
    <3>1. Len(Path.parts) > 1
      BY <2>5, <1>2
    <3>2. Remain = [Path EXCEPT !.parts = Tail(Path.parts)]
      BY <2>5 DEF Remain
    <3>3. Tail(Path.parts) # <<>> /\ Back(Tail(Path.parts)) = Back(Path.parts)
      BY <2>5, <3>1, <1>2, LastPartLaws
    <3>4. Remain.parts = Tail(Path.parts) /\ Remain.slash = Path.slash
      BY <3>2, <1>0 DEF IsPath
    <3>5. DotSlash(Remain) => DotSlash(Path)
      BY <3>3, <3>4, <2>5, Zenon DEF DotSlash
    <3>6. Remain # NoPath
      <4>1. NoPath.parts = <<>>
        BY DEF NoPath
      <4> QED BY <3>3, <3>4, <4>1, Zenon
    <3> QED BY <3>5, <3>6, <2>1, <2>2, <1>1 DEF Dotted
  <2> QED BY <2>3, <2>4, <2>5, Zenon
<1>s. ASSUME NEW r, r.name # "", walk' = "done", found' = r, UNCHANGED <<given, Path>>
      PROVE  Dotted'
  <2>1. DotSlash(Path)' = DotSlash(Path) /\ EndsInDots' = EndsInDots
        /\ FollowTrailingSlashes' = FollowTrailingSlashes
    BY <1>s, <1>g DEF DotSlash, given
  <2> QED BY <2>1, <1>1, <1>s DEF Dotted
<1>3. CASE CheckPath
  <2>1. CASE \E e \in Errors : Ends(Fails(e))
    <3>1. \A e \in Errors : e # "ok"
      BY DEF Errors
    <3> QED BY <2>1, <3>1, <1>x, <1>e, ZenonT(60)
  <2>2. CASE walk' = "part" /\ Path # NoPath /\ UNCHANGED <<given, Path, found>>
    <3>1. DotSlash(Path)' = DotSlash(Path) /\ EndsInDots' = EndsInDots
          /\ FollowTrailingSlashes' = FollowTrailingSlashes
      BY <2>2, <1>g DEF DotSlash, given
    <3> QED BY <3>1, <2>2, <1>1 DEF Dotted
  <2> QED BY <1>3, <2>1, <2>2 DEF CheckPath, Errors
<1>4. CASE Dot
  <2>1. "." # "" /\ walk = "part" /\ Part = "."
    BY <1>4 DEF Dot
  <2>2. CASE LastPart
    BY <1>4, <2>1, <2>2, <1>e, <1>f, ZenonT(60) DEF Dot
  <2>3. CASE ~LastPart
    BY <1>4, <2>1, <2>3, <1>n DEF Dot
  <2> QED BY <2>2, <2>3
<1>5. CASE DotDot
  <2>1. "." # "" /\ walk = "part" /\ Part = ".." /\ "PERM" # "ok"
    BY <1>5 DEF DotDot
  <2>2. CASE PartFds = <<>>
    BY <1>5, <2>1, <2>2, <1>e, <1>x, ZenonT(60) DEF DotDot
  <2>3. CASE PartFds # <<>> /\ LastPart
    <3>1. walk' = "done" /\ found' = Found(Back(PartFds), ".") /\ UNCHANGED <<given, Path>>
      BY <1>5, <2>3 DEF DotDot
    <3>2. Found(Back(PartFds), ".").name # ""
      BY <1>f, <2>1, Zenon
    <3> QED BY <3>1, <3>2, <1>s
  <2>4. CASE PartFds # <<>> /\ ~LastPart
    BY <1>5, <2>1, <2>4, <1>n DEF DotDot
  <2> QED BY <2>2, <2>3, <2>4
<1>6. CASE TakeName
  <2>1. Ends(Found(Fd, Part)) /\ walk = "part"
    BY <1>6 DEF TakeName, Named
  <2>2. Part = "" => EndsInDots
    <3>1. ASSUME Part = "", Path.parts # <<>> PROVE FALSE
      <4>1. Part = Head(Path.parts)
        BY <3>1 DEF Part
      <4>2. Head(Path.parts) \in PartNames
        <5>1. \A s \in Seq(PartNames) : s # <<>> => Head(s) \in PartNames
          OBVIOUS
        <5> QED BY <5>1, <3>1, <1>2, Zenon
      <4> QED BY <4>1, <4>2, <3>1, PathConstants, Zenon
    <3> QED BY <3>1, <2>1, <1>1, <1>2, Zenon
  <2> QED BY <2>1, <2>2, <1>e, <1>f, ZenonT(60)
<1>7. CASE NoEntry
  <2>1. PICK e : e \in {"NOENT", "ACCES"} /\ Ends(Fails(e))
    BY <1>7 DEF NoEntry
  <2>2. e # "ok"
    BY <2>1
  <2> QED BY <2>1, <2>2, <1>e, <1>x, ZenonT(60)
<1>8. CASE FollowLink
  <2>1. IsLink(Fd, Part) /\ walk = "part" /\ Fd \in Dirs
    BY <1>8, <1>0 DEF FollowLink, Named
  <2>2. CASE LinkCount + 1 >= kMaxNestedLinks
    <3>1. Ends(Fails("LOOP")) /\ "LOOP" # "ok"
      BY <1>8, <2>2 DEF FollowLink
    <3> QED BY <3>1, <1>e, <1>x, ZenonT(60)
  <2>3. CASE ~(LinkCount + 1 >= kMaxNestedLinks)
    <3>1. PICK to : to = Links[Fd][Part]
      OBVIOUS
    <3>2. /\ Path' = IF Remain = NoPath THEN to
                     ELSE [to EXCEPT !.parts = to.parts \o Remain.parts, !.slash = Remain.slash]
          /\ walk' = "check" /\ UNCHANGED <<given, found>>
      BY <1>8, <2>3, <3>1, SMTT(60) DEF FollowLink
    <3>3. to \in LinkPaths /\ IsPath(to)
      <4>1. IsPath(to)
        BY <2>1, <3>1, PathConstants, ZenonT(60)
      <4>2. to \in {Links[Fd][n] : n \in DOMAIN Links[Fd]}
        BY <2>1, <3>1, SMT DEF IsLink
      <4> QED BY <4>1, <4>2, <2>1, SMT DEF LinkPaths
    <3>4. EndsInDots' = EndsInDots /\ DotSlash(Path)' = DotSlash(Path')
          /\ FollowTrailingSlashes' = FollowTrailingSlashes
      BY <3>2, <1>g DEF DotSlash, given
    <3>5. FollowTrailingSlashes /\ DotSlash(Path') => EndsInDots
      <4>1. CASE Remain = NoPath
        BY <4>1, <3>2, <3>3, ZenonT(60) DEF EndsInDots
      <4>2. CASE Remain # NoPath
        <5>1. ~(Len(Path.parts) <= 1)
          BY <4>2, ZenonT(60) DEF Remain
        <5>2. Remain = [Path EXCEPT !.parts = Tail(Path.parts)] /\ Len(Path.parts) > 1 /\ Path.parts # <<>>
          BY <5>1, <1>2 DEF Remain
        <5>3. Remain.parts = Tail(Path.parts) /\ Remain.slash = Path.slash
          BY <5>2, <1>0 DEF IsPath
        <5>4. /\ Tail(Path.parts) # <<>> /\ Back(Tail(Path.parts)) = Back(Path.parts)
              /\ Tail(Path.parts) \in Seq(PartNames)
          BY <5>2, <1>2, LastPartLaws
        <5>5. to.parts \in Seq(PartNames)
          BY <3>3 DEF IsPath
        <5>6. Back(to.parts \o Tail(Path.parts)) = Back(Path.parts)
          BY <5>4, <5>5, LastPartLaws
        <5>7. Path'.parts = to.parts \o Tail(Path.parts) /\ Path'.slash = Path.slash
          BY <3>2, <3>3, <4>2, <5>3 DEF IsPath
        <5>8. DotSlash(Path') => DotSlash(Path)
          BY <5>2, <5>6, <5>7, Zenon DEF DotSlash
        <5> QED BY <5>8, <1>1, Zenon
      <4> QED BY <4>1, <4>2, Zenon
    <3> QED BY <3>2, <3>4, <3>5, <1>1 DEF Dotted
  <2> QED BY <2>2, <2>3
<1>9. CASE TakeEntry
  <2>1. /\ walk = "part" /\ Stats(Fd, Part) /\ Part \notin {".", ".."} /\ Fd \in Dirs
        /\ "." # "" /\ "NOTDIR" # "ok"
    BY <1>9, <1>0 DEF TakeEntry, Named
  <2>2. Part # ""
    BY <2>1, PathConstants, Zenon DEF Stats
  <2>3. CASE LastPart
    BY <1>9, <2>2, <2>3, <1>e, <1>f, ZenonT(60) DEF TakeEntry
  <2>4. CASE ~LastPart /\ ~IsDir(Fd, Part)
    BY <1>9, <2>1, <2>4, <1>e, <1>x, ZenonT(60) DEF TakeEntry
  <2>5. CASE ~LastPart /\ IsDir(Fd, Part) /\ Remain # NoPath
    BY <1>9, <2>1, <2>5, <1>n, ZenonT(60) DEF TakeEntry
  <2>6. CASE ~LastPart /\ IsDir(Fd, Part) /\ Remain = NoPath
    <3>1. walk' = "done" /\ found' = Found(Subdirs[Fd][Part], ".") /\ UNCHANGED <<given, Path>>
      BY <1>9, <2>6 DEF TakeEntry
    <3>2. Found(Subdirs[Fd][Part], ".").name # ""
      BY <1>f, <2>1, Zenon
    <3> QED BY <3>1, <3>2, <1>s
  <2> QED BY <2>3, <2>4, <2>5, <2>6
<1>10. CASE UNCHANGED pathVars
  <2>1. UNCHANGED <<given, Path, walk, found, FollowTrailingSlashes>>
    BY <1>10 DEF pathVars, given
  <2>2. DotSlash(Path)' = DotSlash(Path) /\ EndsInDots' = EndsInDots
    BY <2>1, <1>g DEF DotSlash
  <2> QED BY <2>1, <2>2, <1>1 DEF Dotted
<1> QED BY <1>3, <1>4, <1>5, <1>6, <1>7, <1>8, <1>9, <1>10 DEF PathNext

(* A walk that dropped no slash returns what the reference returns for    *)
(* the path as given, or, only where a path ended in "./" or "../", the   *)
(* empty name in the directory that the reference returns                 *)
(* (ResolvesAsReference).                                                 *)
THEOREM FollowsReference == PathSpec => []ResolvesAsReference
<1>1. PathInit => Follows
  <2> SUFFICES ASSUME PathInit PROVE Follows
    OBVIOUS
  <2>1. IsPath(Path)
    BY PathConstants, Zenon DEF PathInit
  <2> QED BY <2>1, Zenon DEF PathInit, Follows
<1>2. PathInv /\ Follows /\ [PathNext]_pathVars => Follows'
  BY FollowsStep
<1>3. PathInit => Dotted
  <2> SUFFICES ASSUME PathInit PROVE Dotted
    OBVIOUS
  <2>1. Path = asked /\ walk = "check" /\ found.err = "none"
    BY DEF PathInit, Fails
  <2> QED BY <2>1 DEF Dotted, EndsInDots
<1>4. PathInv /\ Follows /\ Dotted /\ [PathNext]_pathVars => Dotted'
  BY DottedStep
<1>5. Follows /\ Dotted => ResolvesAsReference
  BY ZenonT(60) DEF Follows, Dotted, ResolvesAsReference, Given, Reached
<1> QED BY <1>1, <1>2, <1>3, <1>4, <1>5, PathInvariant, PTL DEF PathSpec
=============================================================================
