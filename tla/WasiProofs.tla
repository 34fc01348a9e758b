-------- MODULE WasiProofs --------------------------------------------------
(* Proofs about the descriptor table of WASI (WasiFds) and about          *)
(* poll_oneoff (WasiPoll), for any set of threads, descriptors and files. *)
EXTENDS WasiFds, WasiPoll, TLAPS

(* imply adds rights that imply no others. *)
LEMMA ImplyLaws ==
    ASSUME NEW R \in SUBSET Rights, NEW S \in SUBSET Rights
    PROVE  /\ imply(R) \in SUBSET Rights
           /\ R \subseteq imply(R)
           /\ R \subseteq imply(S) => imply(R) \subseteq imply(S)
<1>1. "seek" \notin {"tell", "datasync"} /\ "sync" \notin {"tell", "datasync"}
  BY Zenon
<1>2. imply(R) \in SUBSET Rights
  BY Zenon DEF imply, Rights
<1>3. R \subseteq imply(R)
  BY Zenon DEF imply
<1>4. ASSUME R \subseteq imply(S), NEW r \in imply(R) PROVE r \in imply(S)
  BY <1>1, <1>4, Zenon DEF imply
<1> QED
  BY <1>2, <1>3, <1>4, Zenon

(* The descriptors that init makes have the rights they are granted. *)
LEMMA FdsInitInv ==
    FdsInit => FdsInv
<1> SUFFICES ASSUME FdsInit PROVE FdsInv
  BY Zenon
<1>1. FsRightsBase \in [Nodes -> SUBSET Rights] /\ FsRightsInheriting \in [Nodes -> SUBSET Rights]
  BY RightsAssumption, Zenon DEF FdsInit
<1>2. FdsTypeOK
  BY <1>1, RightsAssumption, Zenon DEF FdsInit, FdsTypeOK, Calls, Resting
<1>3. RightsWithinGrant
  BY RightsAssumption, Zenon DEF FdsInit, RightsWithinGrant
<1>4. PendingWithinGrant /\ TestedFor
  BY Zenon DEF FdsInit, PendingWithinGrant, TestedFor, Resting
<1> QED
  BY <1>2, <1>3, <1>4, Zenon DEF FdsInv

(* A step that leaves nodes and calls alone changes none of the conjuncts   *)
(* about them.                                                              *)
LEMMA MapStep ==
    ASSUME FdsInv, UNCHANGED <<FsRightsBase, FsRightsInheriting, grants, doing, revoked>>,
           fdMap' \in [Fds -> made \cup {NoNode}]
    PROVE  FdsInv'
<1>1. FdsTypeOK'
  BY Zenon DEF FdsInv, FdsTypeOK, grants, revoked
<1>2. RightsWithinGrant'
  BY Zenon DEF FdsInv, RightsWithinGrant, grants
<1>3. PendingWithinGrant' /\ TestedFor'
  BY Zenon DEF FdsInv, PendingWithinGrant, TestedFor, grants, revoked
<1> QED
  BY <1>1, <1>2, <1>3, Zenon DEF FdsInv

(* A step that changes the call of one thread alone, to one that is within  *)
(* the grant and whose test holds.                                          *)
LEMMA CallStep ==
    ASSUME FdsInv, NEW t \in Guests, NEW d \in Calls,
           doing' = [doing EXCEPT ![t] = d],
           UNCHANGED <<fdMap, FsRightsBase, FsRightsInheriting, grants, revoked>>,
           d.node \in made \/ d = Resting,
           d.at \in {"setbase", "setinheriting"} =>
             /\ d.base \subseteq imply(grantBase[d.node])
             /\ d.inheriting \subseteq imply(grantInheriting[d.node])
             /\ imply(d.base) \subseteq imply(FsRightsBase[d.node])
             /\ imply(d.inheriting) \subseteq imply(FsRightsInheriting[d.node]),
           d.at = "opened" => d.base \cup d.inheriting \subseteq imply(grantInheriting[d.node])
    PROVE  FdsInv'
<1>1. FdsTypeOK /\ RightsWithinGrant /\ PendingWithinGrant /\ TestedFor
  BY Zenon DEF FdsInv
<1>2. \A u \in Guests : doing'[u] = IF u = t THEN d ELSE doing[u]
  BY <1>1, Zenon DEF FdsTypeOK
<1>3. FdsTypeOK'
  BY <1>1, <1>2, Zenon DEF FdsTypeOK, grants, revoked
<1>4. RightsWithinGrant'
  BY <1>1, Zenon DEF RightsWithinGrant, grants
<1>5. PendingWithinGrant'
  <2> SUFFICES ASSUME NEW u \in Guests
               PROVE  /\ doing'[u].at \in {"setbase", "setinheriting"} =>
                           /\ doing'[u].base \subseteq imply(grantBase[doing'[u].node])
                           /\ doing'[u].inheriting \subseteq imply(grantInheriting[doing'[u].node])
                      /\ doing'[u].at = "opened" =>
                           doing'[u].base \cup doing'[u].inheriting
                             \subseteq imply(grantInheriting[doing'[u].node])
    BY DEF PendingWithinGrant, grants, imply
  <2> QED
    BY <1>1, <1>2, Zenon DEF PendingWithinGrant
<1>6. TestedFor'
  <2> SUFFICES ASSUME NEW u \in Guests
               PROVE  /\ doing'[u].at = "setbase" =>
                           imply(doing'[u].base)
                             \subseteq imply(FsRightsBase[doing'[u].node]) \cup revokedBase[u]
                      /\ doing'[u].at \in {"setbase", "setinheriting"} =>
                           imply(doing'[u].inheriting)
                             \subseteq imply(FsRightsInheriting[doing'[u].node])
                                         \cup revokedInheriting[u]
    BY DEF TestedFor, imply, revoked
  <2> QED
    BY <1>1, <1>2, Zenon DEF TestedFor
<1> QED
  BY <1>3, <1>4, <1>5, <1>6, Zenon DEF FdsInv

(* The two assignments of fd_fdstat_set_rights. *)
LEMMA AssignStep ==
    ASSUME FdsInv, NEW t \in Guests, SetBase(t) \/ SetInheriting(t)
    PROVE  FdsInv'
<1> DEFINE n == doing[t].node
<1>1. FdsTypeOK /\ RightsWithinGrant /\ PendingWithinGrant /\ TestedFor
  BY Zenon DEF FdsInv
<1>2. doing[t] \in Calls /\ doing[t].at \in {"setbase", "setinheriting"}
  BY <1>1, Zenon DEF FdsTypeOK, SetBase, SetInheriting
<1>3. n \in made /\ n \in Nodes
  BY <1>1, <1>2 DEF FdsTypeOK, Resting
<1>4. /\ doing[t].base \in SUBSET Rights /\ doing[t].inheriting \in SUBSET Rights
      /\ doing[t].base \subseteq imply(grantBase[n])
      /\ doing[t].inheriting \subseteq imply(grantInheriting[n])
  BY <1>1, <1>2, Zenon DEF Calls, PendingWithinGrant
<1>5. /\ imply(doing[t].base) \subseteq imply(grantBase[n])
      /\ imply(doing[t].inheriting) \subseteq imply(grantInheriting[n])
  <2>1. grantBase[n] \in SUBSET Rights /\ grantInheriting[n] \in SUBSET Rights
    BY <1>1, <1>3, Zenon DEF FdsTypeOK
  <2> QED
    BY <2>1, <1>4, ImplyLaws
<1>6. UNCHANGED <<fdMap, grantBase, grantInheriting, parent, made>>
  BY Zenon DEF SetBase, SetInheriting, grants
<1>7. /\ FsRightsBase' \in [Nodes -> SUBSET Rights]
      /\ FsRightsInheriting' \in [Nodes -> SUBSET Rights]
      /\ \A m \in Nodes : FsRightsBase'[m] = FsRightsBase[m]
                            \/ (m = n /\ FsRightsBase'[m] = doing[t].base)
      /\ \A m \in Nodes : FsRightsInheriting'[m] = FsRightsInheriting[m]
                            \/ (m = n /\ FsRightsInheriting'[m] = doing[t].inheriting)
  BY <1>1, <1>3, <1>4 DEF FdsTypeOK, SetBase, SetInheriting
<1>8. \A u \in Guests : u # t => doing'[u] = doing[u]
  BY <1>1, Zenon DEF SetBase, SetInheriting, FdsTypeOK
<1>9. \/ SetBase(t) /\ doing'[t] = [doing[t] EXCEPT !.at = "setinheriting"]
      \/ SetInheriting(t) /\ doing'[t] = Resting
  BY <1>1, Zenon DEF SetBase, SetInheriting, FdsTypeOK
<1>10. /\ doing'[t] \in Calls
       /\ doing'[t].node \in made \/ doing'[t] = Resting
       /\ doing'[t].at \notin {"setbase", "opened"}
       /\ doing'[t].at = "setinheriting" =>
            /\ SetBase(t)
            /\ doing'[t].node = n /\ doing'[t].base = doing[t].base
            /\ doing'[t].inheriting = doing[t].inheriting
  <2>1. CASE SetBase(t) /\ doing'[t] = [doing[t] EXCEPT !.at = "setinheriting"]
    BY <2>1, <1>2, <1>3, Zenon DEF Calls
  <2>2. CASE SetInheriting(t) /\ doing'[t] = Resting
    BY <2>2 DEF Calls, Resting
  <2> QED
    BY <2>1, <2>2, <1>9, Zenon
<1>11. /\ revokedBase' \in [Guests -> SUBSET Rights]
       /\ revokedInheriting' \in [Guests -> SUBSET Rights]
  <2>1. /\ imply(FsRightsBase[n]) \in SUBSET Rights
        /\ imply(FsRightsInheriting[n]) \in SUBSET Rights
    <3>1. FsRightsBase[n] \in SUBSET Rights /\ FsRightsInheriting[n] \in SUBSET Rights
      BY <1>1, <1>3, Zenon DEF FdsTypeOK
    <3> QED
      BY <3>1, ImplyLaws
  <2>2. ASSUME NEW rev \in [Guests -> SUBSET Rights], NEW at, NEW g \in SUBSET Rights
        PROVE  Revoke(rev, t, at, g) \in [Guests -> SUBSET Rights]
    BY <2>2, Zenon DEF Revoke
  <2>3. /\ imply(FsRightsBase[n]) \ imply(doing[t].base) \in SUBSET Rights
        /\ imply(FsRightsInheriting[n]) \ imply(doing[t].inheriting) \in SUBSET Rights
    BY <2>1, Zenon
  <2> QED
    <3>1. CASE SetBase(t)
      BY <1>1, <2>2, <2>3, <3>1, Zenon DEF FdsTypeOK, SetBase
    <3>2. CASE SetInheriting(t)
      BY <1>1, <2>2, <2>3, <3>2, Zenon DEF FdsTypeOK, SetInheriting
    <3> QED
      BY <3>1, <3>2, Zenon
<1>12. FdsTypeOK'
  <2>1. doing' \in [Guests -> Calls]
    <3>1. doing' = [doing EXCEPT ![t] = doing'[t]]
      BY <1>1, Zenon DEF FdsTypeOK, SetBase, SetInheriting
    <3> QED
      BY <1>1, <1>10, <3>1, Zenon DEF FdsTypeOK
  <2>2. \A u \in Guests : doing'[u].node \in made \/ doing'[u] = Resting
    BY <1>1, <1>8, <1>10, Zenon DEF FdsTypeOK
  <2> QED
    BY <1>1, <1>6, <1>7, <1>11, <2>1, <2>2, Zenon DEF FdsTypeOK
<1>13. RightsWithinGrant'
  <2> SUFFICES ASSUME NEW m \in made
               PROVE  /\ imply(FsRightsBase'[m]) \subseteq imply(grantBase[m])
                      /\ imply(FsRightsInheriting'[m]) \subseteq imply(grantInheriting[m])
    BY <1>1, <1>6 DEF RightsWithinGrant, imply
  <2>1. m \in Nodes
    BY <1>1, Zenon DEF FdsTypeOK
  <2> QED
    BY <2>1, <1>1, <1>5, <1>7, Zenon DEF RightsWithinGrant
<1>14. PendingWithinGrant'
  <2> SUFFICES ASSUME NEW u \in Guests
               PROVE  /\ doing'[u].at \in {"setbase", "setinheriting"} =>
                           /\ doing'[u].base \subseteq imply(grantBase[doing'[u].node])
                           /\ doing'[u].inheriting \subseteq imply(grantInheriting[doing'[u].node])
                      /\ doing'[u].at = "opened" =>
                           doing'[u].base \cup doing'[u].inheriting
                             \subseteq imply(grantInheriting[doing'[u].node])
    BY <1>6 DEF PendingWithinGrant, imply
  <2>1. CASE u = t
    BY <2>1, <1>4, <1>10, Zenon
  <2>2. CASE u # t
    BY <2>2, <1>1, <1>8, Zenon DEF PendingWithinGrant
  <2> QED
    BY <2>1, <2>2, Zenon
<1>15. TestedFor'
  <2> SUFFICES ASSUME NEW u \in Guests
               PROVE  /\ doing'[u].at = "setbase" =>
                           imply(doing'[u].base)
                             \subseteq imply(FsRightsBase'[doing'[u].node]) \cup revokedBase'[u]
                      /\ doing'[u].at \in {"setbase", "setinheriting"} =>
                           imply(doing'[u].inheriting)
                             \subseteq imply(FsRightsInheriting'[doing'[u].node])
                                         \cup revokedInheriting'[u]
    BY Zenon DEF TestedFor, imply
  <2>1. CASE u = t
    <3>1. doing'[t].at # "setbase"
      BY <1>10, Zenon
    <3>2. ASSUME doing'[t].at = "setinheriting"
          PROVE  imply(doing'[t].inheriting)
                   \subseteq imply(FsRightsInheriting'[doing'[t].node]) \cup revokedInheriting'[t]
      <4>1. SetBase(t)
        BY <3>2, <1>10, Zenon
      <4>2. imply(doing[t].inheriting)
              \subseteq imply(FsRightsInheriting[n]) \cup revokedInheriting[t]
        BY <1>1, <1>2, Zenon DEF TestedFor
      <4>3. FsRightsInheriting' = FsRightsInheriting /\ revokedInheriting' = revokedInheriting
        BY <4>1, Zenon DEF SetBase
      <4>4. doing'[t].inheriting = doing[t].inheriting /\ doing'[t].node = n
        BY <3>2, <1>10, Zenon
      <4> QED
        BY <4>2, <4>3, <4>4, Zenon
    <3> QED
      BY <2>1, <3>1, <3>2, Zenon
  <2>2. CASE u # t /\ doing[u].at \in {"setbase", "setinheriting"}
    <3>1. doing[u].node \in Nodes /\ doing'[u] = doing[u]
      BY <1>1, <1>8, <2>2, SMTT(60) DEF FdsTypeOK, Resting
    <3>2. ASSUME doing[u].at = "setbase"
          PROVE  imply(doing[u].base)
                   \subseteq imply(FsRightsBase'[doing[u].node]) \cup revokedBase'[u]
      <4>1. imply(doing[u].base) \subseteq imply(FsRightsBase[doing[u].node]) \cup revokedBase[u]
        BY <3>2, <1>1, Zenon DEF TestedFor
      <4>2. CASE SetInheriting(t)
        <5>1. FsRightsBase' = FsRightsBase /\ revokedBase' = revokedBase
          BY <4>2, Zenon DEF SetInheriting
        <5> QED
          BY <4>1, <5>1, Zenon
      <4>3. CASE SetBase(t) /\ doing[u].node # n
        <5>1. FsRightsBase'[doing[u].node] = FsRightsBase[doing[u].node]
          BY <4>3, <3>1, <1>7, Zenon
        <5>2. revokedBase'[u] = revokedBase[u]
          BY <4>3, <2>2, Zenon DEF SetBase, Revoke
        <5> QED
          BY <4>1, <5>1, <5>2, Zenon
      <4>4. CASE SetBase(t) /\ doing[u].node = n
        <5>1. FsRightsBase'[n] = doing[t].base
          BY <4>4, <1>1, <1>3, Zenon DEF SetBase, FdsTypeOK
        <5>2. revokedBase'[u]
                = revokedBase[u] \cup (imply(FsRightsBase[n]) \ imply(doing[t].base))
          BY <4>4, <2>2, <3>2, Zenon DEF SetBase, Revoke
        <5> QED
          BY <4>1, <4>4, <5>1, <5>2, Zenon
      <4> QED
        BY <4>2, <4>3, <4>4, Zenon
    <3>3. imply(doing[u].inheriting)
            \subseteq imply(FsRightsInheriting'[doing[u].node]) \cup revokedInheriting'[u]
      <4>1. imply(doing[u].inheriting)
              \subseteq imply(FsRightsInheriting[doing[u].node]) \cup revokedInheriting[u]
        BY <2>2, <1>1, Zenon DEF TestedFor
      <4>2. CASE SetBase(t)
        <5>1. FsRightsInheriting' = FsRightsInheriting /\ revokedInheriting' = revokedInheriting
          BY <4>2, Zenon DEF SetBase
        <5> QED
          BY <4>1, <5>1, Zenon
      <4>3. CASE SetInheriting(t) /\ doing[u].node # n
        <5>1. FsRightsInheriting'[doing[u].node] = FsRightsInheriting[doing[u].node]
          BY <4>3, <3>1, <1>7, Zenon
        <5>2. revokedInheriting'[u] = revokedInheriting[u]
          BY <4>3, <2>2, Zenon DEF SetInheriting, Revoke
        <5> QED
          BY <4>1, <5>1, <5>2, Zenon
      <4>4. CASE SetInheriting(t) /\ doing[u].node = n
        <5>1. FsRightsInheriting'[n] = doing[t].inheriting
          BY <4>4, <1>1, <1>3, Zenon DEF SetInheriting, FdsTypeOK
        <5>2. revokedInheriting'[u]
                = revokedInheriting[u] \cup (imply(FsRightsInheriting[n]) \ imply(doing[t].inheriting))
          BY <4>4, <2>2, Zenon DEF SetInheriting, Revoke
        <5> QED
          BY <4>1, <4>4, <5>1, <5>2, Zenon
      <4> QED
        BY <4>2, <4>3, <4>4, Zenon
    <3> QED
      BY <3>1, <3>2, <3>3, Zenon
  <2>3. CASE u # t /\ doing[u].at \notin {"setbase", "setinheriting"}
    BY <2>3, <1>8, Zenon
  <2> QED
    BY <2>1, <2>2, <2>3, Zenon
<1> QED
  BY <1>12, <1>13, <1>14, <1>15, Zenon DEF FdsInv

(* A node made with rights the grant of its directory covers. *)
LEMMA MakeStep ==
    ASSUME FdsInv, NEW n \in Nodes, NEW a \in Fds,
           NEW b \in SUBSET Rights, NEW i \in SUBSET Rights, NEW from \in made \cup {NoNode},
           Make(n, a, b, i, from),
           from # NoNode => b \cup i \subseteq imply(grantInheriting[from]),
           doing' \in [Guests -> Calls],
           \A u \in Guests : doing'[u] = doing[u] \/ doing'[u] = Resting
    PROVE  FdsInv'
<1>1. FdsTypeOK /\ RightsWithinGrant /\ PendingWithinGrant /\ TestedFor
  BY Zenon DEF FdsInv
<1>2. n \notin made /\ made' = made \cup {n} /\ NoNode \notin Nodes
  BY RightsAssumption, Zenon DEF Make
<1>3. FdsTypeOK'
  <2>1. \A u \in Guests : doing'[u].node \in made' \/ doing'[u] = Resting
    BY <1>1, <1>2, Zenon DEF FdsTypeOK
  <2> QED
    BY <1>1, <1>2, <2>1, Zenon DEF FdsTypeOK, Make, revoked
<1>4. /\ FsRightsBase'[n] = b /\ FsRightsInheriting'[n] = i
      /\ grantBase'[n] = b /\ grantInheriting'[n] = i /\ parent'[n] = from
  BY <1>1, Zenon DEF FdsTypeOK, Make
<1>5. \A m \in made :
        /\ m \in Nodes
        /\ FsRightsBase'[m] = FsRightsBase[m] /\ FsRightsInheriting'[m] = FsRightsInheriting[m]
        /\ grantBase'[m] = grantBase[m] /\ grantInheriting'[m] = grantInheriting[m]
        /\ parent'[m] = parent[m]
  BY <1>1, <1>2, SMTT(60) DEF FdsTypeOK, Make
<1>6. RightsWithinGrant'
  <2> SUFFICES ASSUME NEW m \in made'
               PROVE  /\ imply(FsRightsBase'[m]) \subseteq imply(grantBase'[m])
                      /\ imply(FsRightsInheriting'[m]) \subseteq imply(grantInheriting'[m])
                      /\ parent'[m] # NoNode =>
                           grantBase'[m] \cup grantInheriting'[m]
                             \subseteq imply(grantInheriting'[parent'[m]])
    BY Zenon DEF RightsWithinGrant, imply
  <2>1. CASE m = n
    BY <2>1, <1>4, <1>5, Zenon
  <2>2. CASE m \in made
    <3>1. parent[m] # NoNode => parent[m] \in made
      BY <2>2, <1>5, <1>1, Zenon DEF FdsTypeOK
    <3> QED
      BY <2>2, <3>1, <1>1, <1>5, SMTT(60) DEF RightsWithinGrant
  <2> QED
    BY <2>1, <2>2, <1>2, Zenon
<1>7. \A u \in Guests : doing'[u].at # "none" => doing'[u] = doing[u] /\ doing[u].node \in made
  BY <1>1, SMTT(60) DEF FdsTypeOK, Resting
<1>8. PendingWithinGrant'
  <2> SUFFICES ASSUME NEW u \in Guests
               PROVE  /\ doing'[u].at \in {"setbase", "setinheriting"} =>
                           /\ doing'[u].base \subseteq imply(grantBase'[doing'[u].node])
                           /\ doing'[u].inheriting \subseteq imply(grantInheriting'[doing'[u].node])
                      /\ doing'[u].at = "opened" =>
                           doing'[u].base \cup doing'[u].inheriting
                             \subseteq imply(grantInheriting'[doing'[u].node])
    BY Zenon DEF PendingWithinGrant, imply
  <2> QED
    BY <1>1, <1>5, <1>7, ZenonT(60) DEF PendingWithinGrant
<1>9. TestedFor'
  <2> SUFFICES ASSUME NEW u \in Guests
               PROVE  /\ doing'[u].at = "setbase" =>
                           imply(doing'[u].base)
                             \subseteq imply(FsRightsBase'[doing'[u].node]) \cup revokedBase[u]
                      /\ doing'[u].at \in {"setbase", "setinheriting"} =>
                           imply(doing'[u].inheriting)
                             \subseteq imply(FsRightsInheriting'[doing'[u].node])
                                         \cup revokedInheriting[u]
    BY DEF TestedFor, imply, Make, revoked
  <2> QED
    BY <1>1, <1>5, <1>7, ZenonT(60) DEF TestedFor
<1> QED
  BY <1>3, <1>6, <1>8, <1>9, Zenon DEF FdsInv

(* A call that begins: getNodeOrNull found the node. *)
LEMMA TakeStep ==
    ASSUME FdsInv, NEW t \in Guests, NEW a \in Fds, NEW at \in {"setcheck", "opencheck"},
           NEW b \in SUBSET Rights, NEW i \in SUBSET Rights, Take(t, a, at, b, i)
    PROVE  FdsInv'
<1> DEFINE d == [at |-> at, node |-> fdMap[a], base |-> b, inheriting |-> i]
<1>1. fdMap[a] \in made /\ fdMap[a] \in Nodes
  BY Zenon DEF FdsInv, FdsTypeOK, Take
<1>2. d \in Calls /\ d.node \in made /\ d.at \in {"setcheck", "opencheck"}
  BY <1>1, Zenon DEF Calls
<1>3. doing' = [doing EXCEPT ![t] = d]
      /\ UNCHANGED <<fdMap, FsRightsBase, FsRightsInheriting, grants, revoked>>
  BY Zenon DEF Take
<1> HIDE DEF d
<1> QED
  BY <1>2, <1>3, CallStep, Zenon

(* The two tests: what they let through is in the node's rights now, and so *)
(* in its grant.                                                            *)
LEMMA CheckStep ==
    ASSUME FdsInv, NEW t \in Guests, SetCheck(t) \/ \E f \in Flags : OpenCheck(t, f)
    PROVE  FdsInv'
<1> DEFINE n == doing[t].node
<1>1. FdsTypeOK /\ RightsWithinGrant
  BY Zenon DEF FdsInv
<1>2. doing[t] \in Calls /\ n \in made /\ n \in Nodes /\ Resting \in Calls
  <2>1. doing[t] \in Calls /\ doing[t].at \in {"setcheck", "opencheck"}
    BY <1>1, Zenon DEF FdsTypeOK, SetCheck, OpenCheck
  <2>2. Resting \in Calls /\ Resting.at = "none"
    BY Zenon DEF Resting, Calls
  <2>3. n \in made
    BY <1>1, <2>1, <2>2, Zenon DEF FdsTypeOK
  <2> QED
    BY <1>1, <2>1, <2>2, <2>3, Zenon DEF FdsTypeOK
<1>3. /\ imply(FsRightsBase[n]) \subseteq imply(grantBase[n])
      /\ imply(FsRightsInheriting[n]) \subseteq imply(grantInheriting[n])
  BY <1>1, <1>2, Zenon DEF RightsWithinGrant
<1>4. UNCHANGED <<fdMap, FsRightsBase, FsRightsInheriting, grants, revoked>>
  BY Zenon DEF SetCheck, OpenCheck
<1>5. CASE doing' = [doing EXCEPT ![t] = Resting]
  <2>1. Resting.at = "none"
    BY Zenon DEF Resting
  <2> QED
    BY <1>2, <1>4, <1>5, <2>1, CallStep, Zenon
<1>6. ASSUME SetCheck(t), doing' # [doing EXCEPT ![t] = Resting]
      PROVE  FdsInv'
  <2> DEFINE d == [doing[t] EXCEPT !.at = "setbase"]
  <2>1. can(n, doing[t].base, doing[t].inheriting) /\ doing' = [doing EXCEPT ![t] = d]
    BY <1>6, Zenon DEF SetCheck
  <2>2. d \in Calls /\ d.node = n /\ d.at = "setbase"
        /\ d.base = doing[t].base /\ d.inheriting = doing[t].inheriting
    BY <1>2, Zenon DEF Calls
  <2>3. d.base \subseteq imply(FsRightsBase[n]) /\ d.inheriting \subseteq imply(FsRightsInheriting[n])
    BY <2>1, <2>2, Zenon DEF can
  <2>4. /\ d.base \in SUBSET Rights /\ d.inheriting \in SUBSET Rights
        /\ FsRightsBase[n] \in SUBSET Rights /\ FsRightsInheriting[n] \in SUBSET Rights
    BY <1>1, <1>2, <2>2, Zenon DEF Calls, FdsTypeOK
  <2> HIDE DEF d
  <2>5. /\ imply(d.base) \subseteq imply(FsRightsBase[n])
        /\ imply(d.inheriting) \subseteq imply(FsRightsInheriting[n])
    BY <2>3, <2>4, ImplyLaws
  <2> QED
    BY <1>2, <1>3, <1>4, <2>1, <2>2, <2>3, <2>5, CallStep, Zenon
<1>7. ASSUME NEW f \in Flags, OpenCheck(t, f), doing' # [doing EXCEPT ![t] = Resting]
      PROVE  FdsInv'
  <2> DEFINE d == [doing[t] EXCEPT !.at = "opened"]
  <2>1. /\ can(n, {"open"} \cup f.base, doing[t].base \cup doing[t].inheriting \cup f.inheriting)
        /\ doing' = [doing EXCEPT ![t] = d]
    BY <1>7, Zenon DEF OpenCheck
  <2>2. d \in Calls /\ d.node = n /\ d.at = "opened"
        /\ d.base = doing[t].base /\ d.inheriting = doing[t].inheriting
    BY <1>2, Zenon DEF Calls
  <2>3. d.base \cup d.inheriting \subseteq imply(FsRightsInheriting[n])
    BY <2>1, <2>2, Zenon DEF can
  <2> HIDE DEF d
  <2> QED
    BY <1>2, <1>3, <1>4, <2>1, <2>2, <2>3, CallStep, Zenon
<1> QED
  BY <1>5, <1>6, <1>7, Zenon

(* Every step of every thread keeps the invariant. *)
LEMMA FdsStepInv ==
    FdsInv /\ [FdsNext]_fdsVars => FdsInv'
<1> SUFFICES ASSUME FdsInv, [FdsNext]_fdsVars PROVE FdsInv'
  BY Zenon
<1>1. FdsTypeOK /\ PendingWithinGrant
  BY Zenon DEF FdsInv
<1>2. CASE UNCHANGED fdsVars
  BY <1>1, <1>2, MapStep, Zenon DEF fdsVars, grants, revoked, FdsTypeOK
<1>3. ASSUME NEW t \in Guests, NEW a \in Fds, NEW b \in Requests, NEW i \in Requests,
             SetRights(t, a, b, i)
      PROVE  FdsInv'
  BY <1>3, TakeStep, RightsAssumption, Zenon DEF SetRights
<1>4. ASSUME NEW t \in Guests, NEW a \in Fds, NEW dir \in BOOLEAN,
             NEW b \in Requests, NEW i \in Requests, PathOpen(t, a, dir, b, i)
      PROVE  FdsInv'
  <2>1. b \in SUBSET Rights /\ i \in SUBSET Rights
    BY RightsAssumption, Zenon
  <2>2. PICK c \in SUBSET Rights, j \in SUBSET Rights : Take(t, a, "opencheck", c, j)
    BY <1>4, <2>1, Zenon DEF PathOpen
  <2> QED
    BY <2>2, TakeStep, Zenon
<1>5. ASSUME NEW t \in Guests, OpenFails(t) PROVE FdsInv'
  <2>1. Resting \in Calls /\ Resting.at = "none"
    BY Zenon DEF Resting, Calls
  <2> QED
    BY <1>5, <2>1, CallStep, ZenonT(60) DEF OpenFails
<1>6. ASSUME NEW t \in Guests, NEW n \in Nodes, NEW a \in Fds, Opened(t, n, a) PROVE FdsInv'
  <2>1. doing[t] \in Calls /\ doing[t].at = "opened" /\ doing[t].node \in made
    BY <1>1, <1>6 DEF FdsTypeOK, Opened, Resting
  <2>2. doing[t].base \in SUBSET Rights /\ doing[t].inheriting \in SUBSET Rights
    BY <2>1, Zenon DEF Calls
  <2>3. doing[t].base \cup doing[t].inheriting \subseteq imply(grantInheriting[doing[t].node])
    BY <1>1, <2>1, Zenon DEF PendingWithinGrant
  <2>4. doing' \in [Guests -> Calls] /\ \A u \in Guests : doing'[u] = doing[u] \/ doing'[u] = Resting
    <3>1. Resting \in Calls
      BY Zenon DEF Resting, Calls
    <3> QED
      BY <1>1, <1>6, <3>1, Zenon DEF FdsTypeOK, Opened
  <2>5. Make(n, a, doing[t].base, doing[t].inheriting, doing[t].node)
    BY <1>6, Zenon DEF Opened
  <2> QED
    BY <2>1, <2>2, <2>3, <2>4, <2>5, MakeStep, Zenon
<1>7. ASSUME NEW t \in Guests, NEW n \in Nodes, NEW a \in Fds, Socket(t, n, a) PROVE FdsInv'
  <2>1. doing' \in [Guests -> Calls] /\ doing' = doing
    BY <1>1, <1>7, Zenon DEF FdsTypeOK, Socket
  <2>2. Make(n, a, SocketRights, SocketRights, NoNode)
    BY <1>7, Zenon DEF Socket
  <2> QED
    BY <2>1, <2>2, RightsAssumption, MakeStep, Zenon
<1>8. ASSUME NEW t \in Guests, NEW a \in Fds, CloseFd(t, a) PROVE FdsInv'
  BY <1>1, <1>8, MapStep, Zenon DEF CloseFd, FdsTypeOK
<1>9. ASSUME NEW t \in Guests, NEW a \in Fds, NEW b \in Fds, Renumber(t, a, b) PROVE FdsInv'
  BY <1>1, <1>9, MapStep, Zenon DEF Renumber, FdsTypeOK
<1> QED
  BY <1>2, <1>3, <1>4, <1>5, <1>6, <1>7, <1>8, <1>9, AssignStep, CheckStep, Zenon DEF FdsNext

(* FdsInv holds in every state: the rights are within the grants because    *)
(* the calls that passed their test carry rights within them too.           *)
THEOREM FdsInvariant ==
    FdsSpec => []FdsInv
<1>1. FdsInit => FdsInv
  BY FdsInitInv, Zenon
<1>2. FdsInv /\ [FdsNext]_fdsVars => FdsInv'
  BY FdsStepInv, Zenon
<1> QED
  BY <1>1, <1>2, PTL DEF FdsSpec

(* A node's rights never leave what it was made with, nor that what its     *)
(* directory may pass on, however fd_fdstat_set_rights and path_open race.  *)
THEOREM RightsAlwaysWithinGrant ==
    FdsSpec => []RightsWithinGrant
<1>1. FdsInv => RightsWithinGrant
  BY Zenon DEF FdsInv
<1> QED
  BY <1>1, FdsInvariant, PTL

(* A node that exists gains no rights but by an assignment of              *)
(* fd_fdstat_set_rights, which gives back at most what other threads took  *)
(* from the node between its own test and itself.                          *)
THEOREM RightsOnlyRemoved ==
    FdsSpec => OnlyRemoved
<1> DEFINE B(n) == imply(FsRightsBase'[n])
                     \subseteq imply(FsRightsBase[n]) \cup Restored(revokedBase, n, "setbase")
           I(n) == imply(FsRightsInheriting'[n])
                     \subseteq imply(FsRightsInheriting[n])
                                 \cup Restored(revokedInheriting, n, "setinheriting")
<1>1. ASSUME FdsInv, FdsNext PROVE Removes
  <2> SUFFICES ASSUME NEW n \in made PROVE B(n) /\ I(n)
    BY Zenon DEF Removes
  <2>1. FdsTypeOK /\ TestedFor /\ n \in Nodes
    BY <1>1, Zenon DEF FdsInv, FdsTypeOK
  <2>2. CASE FsRightsBase'[n] = FsRightsBase[n] /\ FsRightsInheriting'[n] = FsRightsInheriting[n]
    BY <2>2, Zenon
  <2>3. ASSUME NEW t \in Guests, SetBase(t) PROVE B(n) /\ I(n)
    <3>1. CASE doing[t].node # n
      BY <2>1, <2>3, <3>1, Zenon DEF SetBase, FdsTypeOK
    <3>2. CASE doing[t].node = n
      <4>1. FsRightsBase'[n] = doing[t].base /\ FsRightsInheriting' = FsRightsInheriting
        BY <2>1, <2>3, <3>2, Zenon DEF SetBase, FdsTypeOK
      <4>2. imply(doing[t].base) \subseteq imply(FsRightsBase[n]) \cup revokedBase[t]
        BY <2>1, <2>3, <3>2, Zenon DEF TestedFor, SetBase
      <4>3. doing[t].at = "setbase" /\ doing'[t].at = "setinheriting"
        BY <2>1, <2>3, Zenon DEF SetBase, FdsTypeOK, Calls
      <4>4. revokedBase[t] \subseteq Restored(revokedBase, n, "setbase")
        BY <3>2, <4>3, Zenon DEF Restored
      <4> QED
        BY <4>1, <4>2, <4>4, Zenon
    <3> QED
      BY <3>1, <3>2, Zenon
  <2>4. ASSUME NEW t \in Guests, SetInheriting(t) PROVE B(n) /\ I(n)
    <3>1. CASE doing[t].node # n
      BY <2>1, <2>4, <3>1, Zenon DEF SetInheriting, FdsTypeOK
    <3>2. CASE doing[t].node = n
      <4>1. FsRightsInheriting'[n] = doing[t].inheriting /\ FsRightsBase' = FsRightsBase
        BY <2>1, <2>4, <3>2, Zenon DEF SetInheriting, FdsTypeOK
      <4>2. imply(doing[t].inheriting)
              \subseteq imply(FsRightsInheriting[n]) \cup revokedInheriting[t]
        BY <2>1, <2>4, <3>2, Zenon DEF TestedFor, SetInheriting
      <4>3. doing[t].at = "setinheriting" /\ doing'[t].at = "none"
        BY <2>1, <2>4, Zenon DEF SetInheriting, FdsTypeOK, Resting
      <4>4. revokedInheriting[t] \subseteq Restored(revokedInheriting, n, "setinheriting")
        BY <3>2, <4>3, Zenon DEF Restored
      <4> QED
        BY <4>1, <4>2, <4>4, Zenon
    <3> QED
      BY <3>1, <3>2, Zenon
  <2>5. ASSUME NEW m \in Nodes, NEW a \in Fds, NEW b, NEW i, NEW from, Make(m, a, b, i, from)
        PROVE  FsRightsBase'[n] = FsRightsBase[n] /\ FsRightsInheriting'[n] = FsRightsInheriting[n]
    BY <2>1, <2>5, Zenon DEF Make, FdsTypeOK
  <2>6. \/ \E t \in Guests : SetBase(t) \/ SetInheriting(t)
        \/ UNCHANGED <<FsRightsBase, FsRightsInheriting>>
        \/ FsRightsBase'[n] = FsRightsBase[n] /\ FsRightsInheriting'[n] = FsRightsInheriting[n]
    BY <1>1, <2>5, ZenonT(60) DEF FdsNext, SetRights, SetCheck, PathOpen, Take, OpenCheck, OpenFails, Opened,
                      Socket, CloseFd, Renumber
  <2> HIDE DEF B, I
  <2> QED
    BY <2>2, <2>3, <2>4, <2>6, ZenonT(60)
<1>2. FdsInv /\ [FdsNext]_fdsVars => [Removes]_fdsVars
  BY <1>1, Zenon
<1> QED
  BY <1>2, FdsInvariant, PTL DEF FdsSpec, OnlyRemoved

-----------------------------------------------------------------------------
(* poll_oneoff. The laws of the model's maps and records come first: what *)
(* Without and With return, and what each change of a poller makes of its *)
(* fields.                                                                *)

(* A map of files to kinds has files in its domain and kinds as values.   *)
LEMMA RegisterLaws ==
    ASSUME NEW f \in Registers
    PROVE  /\ DOMAIN f \subseteq Natives
           /\ \A n \in DOMAIN f : f[n] \subseteq Kinds
  BY Zenon DEF Registers

(* Without(f, ns) is the map f less the files ns, and is such a map       *)
(* again.                                                                 *)
LEMMA WithoutLaws ==
    ASSUME NEW f \in Registers, NEW ns
    PROVE  /\ Without(f, ns) \in Registers
           /\ DOMAIN Without(f, ns) = DOMAIN f \ ns
           /\ \A n \in DOMAIN f \ ns : Without(f, ns)[n] = f[n]
<1>1. DOMAIN f \ ns \in SUBSET Natives /\ \A n \in DOMAIN f \ ns : f[n] \in SUBSET Kinds
  BY RegisterLaws, Zenon
<1>2. [n \in DOMAIN f \ ns |-> f[n]] \in [DOMAIN f \ ns -> SUBSET Kinds]
  BY <1>1, Zenon
<1>3. Without(f, ns) = [n \in DOMAIN f \ ns |-> f[n]]
  BY Zenon DEF Without, Restrict
<1>4. Without(f, ns) \in Registers
  BY <1>1, <1>2, <1>3, ZenonT(60) DEF Registers
<1> QED BY <1>3, <1>4, Zenon

(* With(f, n, ks) is the map f with ks at n, and is such a map again.     *)
LEMMA WithLaws ==
    ASSUME NEW f \in Registers, NEW n \in Natives, NEW ks \in SUBSET Kinds
    PROVE  /\ With(f, n, ks) \in Registers
           /\ DOMAIN With(f, n, ks) = DOMAIN f \cup {n}
           /\ With(f, n, ks)[n] = ks
           /\ \A m \in DOMAIN f : m # n => With(f, n, ks)[m] = f[m]
<1>1. DOMAIN f \cup {n} \in SUBSET Natives /\ \A m \in DOMAIN f : f[m] \in SUBSET Kinds
  BY RegisterLaws, Zenon
<1>2. With(f, n, ks) \in [DOMAIN f \cup {n} -> SUBSET Kinds]
  BY <1>1, Zenon DEF With
<1>3. With(f, n, ks) \in Registers
  BY <1>1, <1>2, Zenon DEF Registers
<1> QED BY <1>3, Zenon DEF With

(* The empty map is such a map.                                           *)
LEMMA EmptyLaws == Empty \in Registers /\ DOMAIN Empty = {}
<1>1. Empty \in [{} -> SUBSET Kinds] /\ DOMAIN Empty = {}
  BY Zenon DEF Empty
<1>2. {} \in SUBSET Natives
  BY Zenon
<1> QED BY <1>1, <1>2, Zenon DEF Registers

(* The types of the fields of a poller, and of the files it believes in.  *)
LEMMA PollerFields ==
    ASSUME NEW p \in PollerSet
    PROVE  /\ p.FdDatas \in Registers /\ p.interest \in Registers
           /\ p.OldFdDatas \in SUBSET Natives /\ p.stale \in SUBSET Natives /\ p.left \in SUBSET Natives
           /\ Believed(p) \in SUBSET Natives
<1>1. /\ p.FdDatas \in Registers /\ p.interest \in Registers
      /\ p.OldFdDatas \in SUBSET Natives /\ p.stale \in SUBSET Natives /\ p.left \in SUBSET Natives
  BY Zenon DEF PollerSet
<1>2. DOMAIN p.FdDatas \subseteq Natives
  BY <1>1, RegisterLaws, Zenon
<1> QED BY <1>1, <1>2, Zenon DEF Believed

(* p is the poller with these five fields.                                *)
Fields(p, f, old, i, s, l) ==
    /\ p \in PollerSet
    /\ p.FdDatas = f /\ p.OldFdDatas = old /\ p.interest = i /\ p.stale = s /\ p.left = l

(* A new poller knows of no file.                                         *)
LEMMA NewPollerLaws == Fields(NewPoller, Empty, {}, Empty, {}, {})
  BY EmptyLaws, Zenon DEF Fields, NewPoller, PollerSet

(* What a file closed behind its back makes of the fields of a poller.    *)
LEMMA MissLaws ==
    ASSUME NEW p \in PollerSet, NEW n, NEW gone
    PROVE  Fields(Drop(Miss(p, n), gone), p.FdDatas, p.OldFdDatas, Without(p.interest, gone),
                  p.stale \cup ({n} \cap Believed(p)), p.left)
<1>1. Without(p.interest, gone) \in Registers
  BY PollerFields, WithoutLaws, Zenon
<1>2. p.stale \cup ({n} \cap Believed(p)) \in SUBSET Natives
  BY PollerFields, Zenon
<1>3. Fields(Miss(p, n), p.FdDatas, p.OldFdDatas, p.interest, p.stale \cup ({n} \cap Believed(p)), p.left)
  BY <1>2, Zenon DEF Fields, Miss, PollerSet
<1>4. PICK q \in PollerSet : q = Miss(p, n)
  BY <1>3, Zenon DEF Fields
<1> QED BY <1>1, <1>3, <1>4, Zenon DEF Fields, Drop, PollerSet

(* What the kernel's forgetting of files makes of the fields of a poller. *)
LEMMA DropLaws ==
    ASSUME NEW p \in PollerSet, NEW gone
    PROVE  Fields(Drop(p, gone), p.FdDatas, p.OldFdDatas, Without(p.interest, gone), p.stale, p.left)
<1>1. Without(p.interest, gone) \in Registers
  BY PollerFields, WithoutLaws, Zenon
<1> QED BY <1>1, Zenon DEF Fields, Drop, PollerSet

(* What Poller::close makes of the fields of a poller.                    *)
LEMMA CloseLaws ==
    ASSUME NEW p \in PollerSet, NEW n, NEW gone
    PROVE  Fields(Drop(Close(p, n), gone), Without(p.FdDatas, {n}), p.OldFdDatas \ {n},
                  Without(p.interest, gone), p.stale \ {n}, p.left \ {n})
<1>1. Without(p.interest, gone) \in Registers /\ Without(p.FdDatas, {n}) \in Registers
  BY PollerFields, WithoutLaws, Zenon
<1>2. p.stale \ {n} \in SUBSET Natives /\ p.OldFdDatas \ {n} \in SUBSET Natives
      /\ p.left \ {n} \in SUBSET Natives
  BY PollerFields, Zenon
<1>3. Fields(Close(p, n), Without(p.FdDatas, {n}), p.OldFdDatas \ {n}, p.interest, p.stale \ {n}, p.left \ {n})
  BY <1>1, <1>2, ZenonT(60) DEF Fields, Close, PollerSet
<1>4. PICK q \in PollerSet : q = Close(p, n)
  BY <1>3, Zenon DEF Fields
<1> QED BY <1>1, <1>3, <1>4, Zenon DEF Fields, Drop, PollerSet

(* A step that takes n from the guest (NoFd: takes none) and after which  *)
(* the files gone are open no more: o, m are the open files and those     *)
(* with a descriptor before it, o1, m1 after it.                          *)
Closes(n, gone, o, m, o1, m1) ==
    /\ m \subseteq o /\ m1 = m \ {n} /\ o1 = o \ gone
    /\ gone \cap m \subseteq {n} /\ m1 \subseteq o1

(* A poller that misses the closing of n stays sound: it goes on          *)
(* believing in n, but as stale.                                          *)
LEMMA ClosedSound ==
    ASSUME NEW p \in PollerSet, NEW n, NEW gone, NEW o, NEW m, NEW o1, NEW m1, NEW reg,
           Closes(n, gone, o, m, o1, m1), Sound(p, o, m, reg), NEW q, q = Drop(Miss(p, n), gone)
    PROVE  Sound(q, o1, m1, reg) /\ Believed(q) = Believed(p) /\ q \in PollerSet
           /\ DOMAIN q.interest = DOMAIN p.interest \ gone
           /\ q.stale = p.stale \cup ({n} \cap Believed(p))
           /\ DOMAIN q.FdDatas = DOMAIN p.FdDatas
<1>1. Fields(q, p.FdDatas, p.OldFdDatas, Without(p.interest, gone),
                  p.stale \cup ({n} \cap Believed(p)), p.left)
  BY MissLaws, Zenon
<1>0. DOMAIN Without(p.interest, gone) = DOMAIN p.interest \ gone
  BY PollerFields, WithoutLaws, ZenonT(60)
<1>2. DOMAIN q.interest = DOMAIN p.interest \ gone
  BY <1>1, <1>0, Zenon DEF Fields
<1>3. Believed(q) = Believed(p)
  BY <1>1, Zenon DEF Fields, Believed
<1>4. q.stale = p.stale \cup ({n} \cap Believed(p)) /\ DOMAIN q.FdDatas = DOMAIN p.FdDatas /\ q \in PollerSet
  BY <1>1, Zenon DEF Fields
<1> QED BY <1>2, <1>3, <1>4, Zenon DEF Sound, Closes

(* A poller at rest that misses the closing of a file is at rest after    *)
(* it.                                                                    *)
LEMMA ClosedRests ==
    ASSUME NEW p \in PollerSet, NEW n, NEW gone, NEW o, NEW m, NEW o1, NEW m1, NEW reg,
           Closes(n, gone, o, m, o1, m1), Rests(p, o, m, reg), NEW q, q = Drop(Miss(p, n), gone)
    PROVE  Rests(q, o1, m1, reg)
<1>1. Sound(p, o, m, reg)
  BY ZenonT(60) DEF Rests
<1>2. Sound(q, o1, m1, reg) /\ Believed(q) = Believed(p)
      /\ DOMAIN q.interest = DOMAIN p.interest \ gone
      /\ q.stale = p.stale \cup ({n} \cap Believed(p))
  BY <1>1, ClosedSound, SMTT(60)
<1> QED BY <1>1, <1>2, Zenon DEF Rests, Closes, Sound

(* A poller in epoll_wait that misses the closing of a file is still      *)
(* well.                                                                  *)
LEMMA ClosedWaiting ==
    ASSUME NEW p \in PollerSet, NEW n, NEW gone, NEW o, NEW m, NEW o1, NEW m1, NEW reg,
           Closes(n, gone, o, m, o1, m1), Waiting(p, o, m, reg), NEW q, q = Drop(Miss(p, n), gone)
    PROVE  Waiting(q, o1, m1, reg)
<1>1. Sound(p, o, m, reg)
  BY ZenonT(60) DEF Waiting
<1>2. Sound(q, o1, m1, reg) /\ Believed(q) = Believed(p)
      /\ DOMAIN q.interest = DOMAIN p.interest \ gone
      /\ q.stale = p.stale \cup ({n} \cap Believed(p))
      /\ DOMAIN q.FdDatas = DOMAIN p.FdDatas
  BY <1>1, ClosedSound, SMTT(60)
<1>3. DOMAIN p.FdDatas \subseteq Believed(p)
  BY Zenon DEF Believed
<1> QED BY <1>1, <1>2, <1>3 DEF Waiting, Closes, Sound

(* A pooled poller that is told of the closing is at rest after it.       *)
LEMMA ToldRests ==
    ASSUME NEW p \in PollerSet, NEW n, NEW gone, NEW o, NEW m, NEW o1, NEW m1, NEW reg,
           Closes(n, gone, o, m, o1, m1), Rests(p, o, m, reg), NEW q, q = Drop(Close(p, n), gone)
    PROVE  /\ Rests(q, o1, m1, reg) /\ q \in PollerSet
           /\ q.left = p.left \ {n} /\ DOMAIN q.FdDatas = DOMAIN p.FdDatas \ {n}
<1>1. Fields(q, Without(p.FdDatas, {n}), p.OldFdDatas \ {n}, Without(p.interest, gone), p.stale \ {n}, p.left \ {n})
  BY CloseLaws, ZenonT(60)
<1>0. /\ DOMAIN Without(p.interest, gone) = DOMAIN p.interest \ gone
      /\ DOMAIN Without(p.FdDatas, {n}) = DOMAIN p.FdDatas \ {n}
  BY PollerFields, WithoutLaws, ZenonT(60)
<1>2. DOMAIN q.interest = DOMAIN p.interest \ gone /\ DOMAIN q.FdDatas = DOMAIN p.FdDatas \ {n}
  BY <1>1, <1>0, ZenonT(60) DEF Fields
<1>3. Believed(q) = Believed(p) \ {n}
  BY <1>1, <1>2, Zenon DEF Fields, Believed
<1>4. q.stale = p.stale \ {n} /\ q.left = p.left \ {n} /\ q \in PollerSet
  BY <1>1, Zenon DEF Fields
<1>5. Sound(q, o1, m1, reg)
  BY <1>2, <1>3, <1>4, Zenon DEF Sound, Closes, Rests
<1> QED BY <1>2, <1>3, <1>4, <1>5, ZenonT(60) DEF Sound, Closes, Rests

(* A call keeps what it asked for, of the files still open, when a file   *)
(* is closed under it by another thread.                                  *)
LEMMA ClosedServes ==
    ASSUME NEW p \in PollerSet, NEW n, NEW gone, NEW o, NEW m, NEW o1, NEW m1, NEW reg,
           NEW w \in Registers,
           Closes(n, gone, o, m, o1, m1), Sound(p, o, m, reg),
           DOMAIN p.FdDatas \subseteq DOMAIN p.interest \cup p.stale,
           Serves(p, w, m), NEW q, q = Drop(Miss(p, n), gone)
    PROVE  Serves(q, Without(w, {n}), m1)
<1>1. Fields(q, p.FdDatas, p.OldFdDatas, Without(p.interest, gone),
                  p.stale \cup ({n} \cap Believed(p)), p.left)
  BY MissLaws, ZenonT(60)
<1>2. /\ DOMAIN Without(p.interest, gone) = DOMAIN p.interest \ gone
      /\ \A k \in DOMAIN p.interest \ gone : Without(p.interest, gone)[k] = p.interest[k]
  BY PollerFields, WithoutLaws, Zenon
<1>3. /\ DOMAIN Without(w, {n}) = DOMAIN w \ {n}
      /\ \A k \in DOMAIN w \ {n} : Without(w, {n})[k] = w[k]
  BY WithoutLaws, ZenonT(60)
<1>4. q.FdDatas = p.FdDatas /\ q.interest = Without(p.interest, gone) /\ q.left = p.left
      /\ q.stale = p.stale \cup ({n} \cap Believed(p))
  BY <1>1, Zenon DEF Fields
<1>5. DOMAIN p.FdDatas \subseteq Believed(p)
  BY ZenonT(60) DEF Believed
<1>6. DOMAIN Without(w, {n}) \subseteq m1
  BY <1>3, Zenon DEF Serves, Closes
<1>7. ASSUME NEW k \in DOMAIN p.FdDatas, k \notin q.stale, k \notin p.left
      PROVE  /\ k \in DOMAIN Without(w, {n}) /\ Without(w, {n})[k] = p.FdDatas[k]
             /\ q.interest[k] = p.FdDatas[k]
  <2>1. k # n /\ k \notin p.stale /\ k \in Believed(p)
    BY <1>4, <1>5, <1>7, ZenonT(60)
  <2>2. k \in DOMAIN w /\ w[k] = p.FdDatas[k] /\ p.interest[k] = p.FdDatas[k]
    BY <1>7, <2>1, ZenonT(60) DEF Serves
  <2>3. k \in DOMAIN p.interest \ gone
    BY <2>1, Zenon DEF Sound, Closes
  <2> QED BY <2>1, <2>2, <2>3, <1>2, <1>3, <1>4, Zenon
<1>8. DOMAIN Without(w, {n}) \ (q.stale \cup p.left) \subseteq DOMAIN p.FdDatas
  BY <1>3, <1>4, ZenonT(60) DEF Serves
<1> QED BY <1>4, <1>6, <1>7, <1>8, ZenonT(60) DEF Serves

-----------------------------------------------------------------------------
(* The steps that close a file: no poller may be left believing in it as  *)
(* live.                                                                  *)

(* Which files are open and which have a descriptor, in terms of the      *)
(* tables.                                                                *)
LEMMA OpenLaws ==
    ASSUME NEW map, NEW hold, Descriptors(map, hold)
    PROVE  /\ MappedBy(map) \subseteq Open(map, hold)
           /\ \A n : n \in MappedBy(map) <=> n # NoFd /\ \E a \in Numbers : map[a] = n
           /\ \A n : n \in Open(map, hold) <=> \/ n \in Special
                                               \/ n \in MappedBy(map)
                                               \/ n # NoFd /\ \E t \in Callers : hold[t] = n
           /\ NoFd \notin Special /\ MappedBy(map) \subseteq Natives
<1>1. NoFd \notin Special
  BY PollAssumption, Zenon
<1>2. DOMAIN map = Numbers /\ DOMAIN hold = Callers /\ \A a \in Numbers : map[a] \in Natives \cup {NoFd}
  BY Zenon DEF Descriptors
<1> QED BY <1>1, <1>2, Zenon DEF Open, MappedBy, Range

(* A poller is at rest after the kernel forgot files it had no descriptor *)
(* of.                                                                    *)
LEMMA DropRests ==
    ASSUME NEW p \in PollerSet, NEW gone, NEW o, NEW m, NEW o1, NEW m1, NEW reg,
           Closes(NoFd, gone, o, m, o1, m1), m \subseteq Natives, Rests(p, o, m, reg), NEW q, q = Drop(p, gone)
    PROVE  /\ Rests(q, o1, m1, reg) /\ q \in PollerSet
           /\ q.left = p.left /\ DOMAIN q.FdDatas = DOMAIN p.FdDatas
<1>1. Fields(q, p.FdDatas, p.OldFdDatas, Without(p.interest, gone), p.stale, p.left)
  BY DropLaws, Zenon
<1>0. DOMAIN Without(p.interest, gone) = DOMAIN p.interest \ gone
  BY PollerFields, WithoutLaws, Zenon
<1>2. DOMAIN q.interest = DOMAIN p.interest \ gone /\ DOMAIN q.FdDatas = DOMAIN p.FdDatas
  BY <1>1, <1>0, Zenon DEF Fields
<1>3. Believed(q) = Believed(p)
  BY <1>1, Zenon DEF Fields, Believed
<1>4. q.stale = p.stale /\ q.left = p.left /\ q \in PollerSet
  BY <1>1, Zenon DEF Fields
<1>6. NoFd \notin m
  BY PollAssumption, Zenon
<1>5. Sound(q, o1, m1, reg)
  BY <1>2, <1>3, <1>4, <1>6, SMTT(60) DEF Sound, Closes, Rests
<1> QED BY <1>2, <1>3, <1>4, <1>5, <1>6 DEF Sound, Closes, Rests

(* A pooled poller that misses the closing of a file stays fit for the    *)
(* pool.                                                                  *)
LEMMA MissedPooled ==
    ASSUME NEW p, NEW n, NEW gone, NEW o, NEW m, NEW o1, NEW m1, NEW reg,
           Closes(n, gone, o, m, o1, m1), Pooled(p, o, m, reg)
    PROVE  Pooled(Drop(Miss(p, n), gone), o1, m1, reg)
<1>1. p \in PollerSet /\ Rests(p, o, m, reg)
  BY Zenon DEF Pooled
<1>2. PICK q : q = Drop(Miss(p, n), gone)
  BY Zenon
<1>3. Rests(q, o1, m1, reg)
  BY <1>1, <1>2, ClosedRests, Zenon
<1>4. q \in PollerSet /\ q.FdDatas = p.FdDatas /\ q.left = p.left
  BY <1>1, <1>2, MissLaws DEF Fields
<1> QED BY <1>2, <1>3, <1>4, Zenon DEF Pooled

(* A pooled poller that is told of the closing of a file stays fit for    *)
(* it.                                                                    *)
LEMMA ToldPooled ==
    ASSUME NEW p, NEW n, NEW gone, NEW o, NEW m, NEW o1, NEW m1, NEW reg,
           Closes(n, gone, o, m, o1, m1), Pooled(p, o, m, reg)
    PROVE  Pooled(Drop(Close(p, n), gone), o1, m1, reg)
<1>1. p \in PollerSet /\ Rests(p, o, m, reg) /\ DOMAIN p.FdDatas \subseteq p.left
  BY Zenon DEF Pooled
<1>2. PICK q : q = Drop(Close(p, n), gone)
  BY Zenon
<1>3. /\ Rests(q, o1, m1, reg) /\ q \in PollerSet
      /\ q.left = p.left \ {n} /\ DOMAIN q.FdDatas = DOMAIN p.FdDatas \ {n}
  BY <1>1, <1>2, ToldRests
<1> QED BY <1>1, <1>2, <1>3, Zenon DEF Pooled

(* A pooled poller from which only orphans vanish stays fit for the pool. *)
LEMMA DroppedPooled ==
    ASSUME NEW p, NEW gone, NEW o, NEW m, NEW o1, NEW m1, NEW reg,
           Closes(NoFd, gone, o, m, o1, m1), m \subseteq Natives, Pooled(p, o, m, reg)
    PROVE  Pooled(Drop(p, gone), o1, m1, reg)
<1>1. p \in PollerSet /\ Rests(p, o, m, reg) /\ DOMAIN p.FdDatas \subseteq p.left
  BY Zenon DEF Pooled
<1>2. PICK q : q = Drop(p, gone)
  BY Zenon
<1>3. /\ Rests(q, o1, m1, reg) /\ q \in PollerSet
      /\ q.left = p.left /\ DOMAIN q.FdDatas = DOMAIN p.FdDatas
  BY <1>1, <1>2, DropRests
<1> QED BY <1>1, <1>2, <1>3, Zenon DEF Pooled

(* A poll_oneoff in progress stays well when a file is closed: its wish   *)
(* loses the file, and its poller holds it as stale.                      *)
LEMMA ClosedPolled ==
    ASSUME NEW c, NEW n, NEW gone, NEW o, NEW m, NEW o1, NEW m1, NEW reg,
           Closes(n, gone, o, m, o1, m1), Polled(c, o, m, reg)
    PROVE  Polled([c EXCEPT !.poller = Drop(Miss(@, n), gone), !.asked = Without(@, {n})], o1, m1, reg)
<1>1. c \in PollSet
  BY Zenon DEF Polled
<1>2. PICK p \in PollerSet : p = c.poller
  BY <1>1, Zenon DEF PollSet
<1>3. PICK w \in Registers : w = c.asked
  BY <1>1, Zenon DEF PollSet
<1>4. PICK q : q = Drop(Miss(p, n), gone)
  BY Zenon
<1>5. PICK w1 : w1 = Without(w, {n})
  BY Zenon
<1>6. q \in PollerSet
  BY <1>4, MissLaws, Zenon DEF Fields
<1>7. w1 \in Registers
  BY <1>5, WithoutLaws, Zenon
<1>8. PICK d : d = [c EXCEPT !.poller = Drop(Miss(@, n), gone), !.asked = Without(@, {n})]
  BY Zenon
<1>9. d \in PollSet /\ d.at = c.at /\ d.poller = q /\ d.asked = w1
  BY <1>1, <1>2, <1>3, <1>4, <1>5, <1>6, <1>7, <1>8, ZenonT(60) DEF PollSet
<1>10. d.at = "ask" => Rests(q, o1, m1, reg)
  BY <1>2, <1>4, <1>9, ClosedRests, Zenon DEF Polled
<1>11. d.at = "wait" => Waiting(q, o1, m1, reg)
  BY <1>2, <1>4, <1>9, ClosedWaiting, Zenon DEF Polled
<1>12. ASSUME d.at # "none" PROVE Serves(q, w1, m1)
  <2>1. Serves(p, w, m)
    BY <1>2, <1>3, <1>9, <1>12, Zenon DEF Polled
  <2>2. c.at = "ask" \/ c.at = "wait"
    BY <1>1, <1>9, <1>12, Zenon DEF PollSet
  <2>3. DOMAIN p.FdDatas \subseteq Believed(p)
    BY Zenon DEF Believed
  <2>4. Sound(p, o, m, reg) /\ DOMAIN p.FdDatas \subseteq DOMAIN p.interest \cup p.stale
    BY <2>2, <2>3, <1>2, Zenon DEF Polled, Rests, Waiting
  <2> QED BY <2>1, <2>4, <1>4, <1>5, ClosedServes, ZenonT(60)
<1> QED BY <1>8, <1>9, <1>10, <1>11, <1>12, Zenon DEF Polled

(* A function on the indices of a sequence is a sequence of the same      *)
(* length.                                                                *)
LEMMA MappedSeq ==
    ASSUME NEW S, NEW T, NEW s \in Seq(S), NEW r, DOMAIN r = DOMAIN s,
           r = [i \in DOMAIN s |-> r[i]],
           \A i \in 1 .. Len(s) : r[i] \in T
    PROVE  r \in Seq(T) /\ Len(r) = Len(s)
<1>1. PICK n \in Nat : n = Len(s) /\ DOMAIN s = 1 .. n
  OBVIOUS
<1>2. r \in [1 .. n -> T]
  BY <1>1, Zenon
<1>3. r \in Seq(T)
  BY <1>2, SMTT(60)
<1> QED BY <1>1, <1>3

(* The steps that close keep the invariant: it is enough that each poller *)
(* of the pool, changed as the step changes it, stays fit for the pool.   *)
LEMMA CloseStep ==
    ASSUME PollInv, NEW map, NEW hold, NEW pool, NEW missed,
           References(map, hold, pool, missed), regular' = regular,
           Descriptors(map, hold),
           Open(map, hold) \subseteq Open(FdMap, held),
           MappedBy(map) = MappedBy(FdMap) \ {missed},
           DOMAIN pool = DOMAIN PollerPool,
           \A gone, o, m, o1, m1 :
             Closes(missed, gone, o, m, o1, m1) /\ m \subseteq Natives =>
             \A i \in 1 .. Len(PollerPool) :
               Pooled(PollerPool[i], o, m, regular) => Pooled(Drop(pool[i], gone), o1, m1, regular)
    PROVE  PollInv'
<1>1. PICK o, m, o1, m1, gone : /\ o = Open(FdMap, held) /\ m = MappedBy(FdMap)
                                /\ o1 = Open(map, hold) /\ m1 = MappedBy(map) /\ gone = o \ o1
  BY ZenonT(60)
<1>2. /\ FdMap' = map /\ held' = hold
      /\ PollerPool' = [i \in DOMAIN pool |-> Drop(pool[i], gone)]
      /\ poll' = [t \in Callers |-> [poll[t] EXCEPT !.poller = Drop(Miss(@, missed), gone),
                                                    !.asked = Without(@, {missed})]]
  BY <1>1, Zenon DEF References
<1>3. Descriptors(FdMap, held) /\ m \subseteq o /\ m \subseteq Natives /\ m1 \subseteq o1
  BY <1>1, OpenLaws, ZenonT(60) DEF PollInv
<1>4. Closes(missed, gone, o, m, o1, m1)
  BY <1>1, <1>3, Zenon DEF Closes
<1>5. o1 = OpenNow' /\ m1 = Mapped'
  BY <1>1, <1>2, ZenonT(60) DEF OpenNow, Mapped
<1>6. \A i \in 1 .. Len(PollerPool) : Pooled(PollerPool[i], o, m, regular)
  BY <1>1, Zenon DEF PollInv, OpenNow, Mapped
<1>7. \A i \in 1 .. Len(PollerPool) : Pooled(Drop(pool[i], gone), o1, m1, regular)
  BY <1>3, <1>4, <1>6, Zenon
<1>8. PollerPool \in Seq(PollerSet) /\ DOMAIN PollerPool = 1 .. Len(PollerPool)
  BY SMTT(60) DEF PollInv
<1>9. \A i \in 1 .. Len(PollerPool) : PollerPool'[i] = Drop(pool[i], gone)
  BY <1>2, <1>8, Zenon
<1>10. \A i \in 1 .. Len(PollerPool) : Pooled(PollerPool'[i], o1, m1, regular) /\ PollerPool'[i] \in PollerSet
  BY <1>7, <1>9, ZenonT(60) DEF Pooled
<1>11. DOMAIN PollerPool' = DOMAIN PollerPool /\ PollerPool' = [i \in DOMAIN PollerPool |-> PollerPool'[i]]
  BY <1>2, ZenonT(60)
<1>12. PollerPool' \in Seq(PollerSet) /\ Len(PollerPool') = Len(PollerPool)
  BY <1>8, <1>10, <1>11, MappedSeq, SMTT(60)
<1>13. \A t \in Callers : Polled(poll[t], o, m, regular)
  BY <1>1, Zenon DEF PollInv, OpenNow, Mapped
<1>14. \A t \in Callers : Polled(poll'[t], o1, m1, regular)
  BY <1>2, <1>4, <1>13, ClosedPolled, ZenonT(60)
<1>15. poll' \in [Callers -> PollSet]
  BY <1>2, <1>14, ZenonT(60) DEF Polled
<1> QED BY <1>2, <1>5, <1>10, <1>12, <1>14, <1>15, ZenonT(60) DEF PollInv

(* The end of a call that held a file open keeps the invariant.           *)
LEMMA StepCallReturns == ASSUME PollInv, NEW t \in Callers, CallReturns(t) PROVE PollInv'
<1>1. Descriptors(FdMap, held)
  BY Zenon DEF PollInv
<1>2. PICK hold : hold = [held EXCEPT ![t] = NoFd]
  BY Zenon
<1>3. Descriptors(FdMap, hold)
  BY <1>1, <1>2, Zenon DEF Descriptors
<1>4. \A u \in Callers : hold[u] = NoFd \/ hold[u] = held[u]
  BY <1>1, <1>2, Zenon DEF Descriptors
<1>5. Open(FdMap, hold) \subseteq Open(FdMap, held)
  BY <1>1, <1>3, <1>4, OpenLaws
<1>6. MappedBy(FdMap) = MappedBy(FdMap) \ {NoFd}
  BY Zenon DEF MappedBy
<1>7. References(FdMap, hold, PollerPool, NoFd) /\ regular' = regular
  BY <1>2, Zenon DEF CallReturns
<1> QED BY <1>3, <1>5, <1>6, <1>7, CloseStep, DroppedPooled

(* fd_close keeps the invariant: it tells every pooled poller.            *)
LEMMA StepClose == ASSUME PollInv, NEW t \in Callers, NEW a \in Numbers, fdClose(t, a) PROVE PollInv'
<1>1. Descriptors(FdMap, held)
  BY Zenon DEF PollInv
<1>2. PICK map : map = [FdMap EXCEPT ![a] = NoFd]
  BY ZenonT(60)
<1>3. PICK n : n = FdMap[a]
  BY Zenon
<1>4. Descriptors(map, held) /\ (\A b \in Numbers : map[b] = IF b = a THEN NoFd ELSE FdMap[b])
  BY <1>1, <1>2, Zenon DEF Descriptors
<1>5. MappedBy(map) = MappedBy(FdMap) \ {n}
  <2>1. \A b \in Numbers : FdMap[b] = n /\ n # NoFd => b = a
    BY <1>1, <1>3, Zenon DEF Descriptors
  <2> QED BY <2>1, <1>1, <1>3, <1>4, OpenLaws
<1>6. Open(map, held) \subseteq Open(FdMap, held)
  BY <1>1, <1>4, <1>5, OpenLaws
<1>7. PICK pool : pool = [i \in DOMAIN PollerPool |-> Close(PollerPool[i], n)]
  BY ZenonT(60)
<1>8. References(map, held, pool, n) /\ regular' = regular
  BY <1>2, <1>3, <1>7, Zenon DEF fdClose
<1>9. DOMAIN pool = DOMAIN PollerPool /\ \A i \in 1 .. Len(PollerPool) : pool[i] = Close(PollerPool[i], n)
  BY <1>7, SMTT(60) DEF PollInv
<1> QED BY <1>4, <1>5, <1>6, <1>8, <1>9, CloseStep, ToldPooled, ZenonT(60)

(* fd_renumber keeps the invariant although it tells no poller: the file  *)
(* it replaces is stale for all of them.                                  *)
LEMMA StepRenumber ==
    ASSUME PollInv, NEW t \in Callers, NEW a \in Numbers, NEW b \in Numbers, fdRenumber(t, a, b)
    PROVE  PollInv'
<1>1. Descriptors(FdMap, held) /\ a # b
  BY Zenon DEF PollInv, fdRenumber
<1>2. PICK map : map = [FdMap EXCEPT ![b] = FdMap[a], ![a] = NoFd]
  BY ZenonT(60)
<1>3. PICK n : n = FdMap[b]
  BY Zenon
<1>4. \A c \in Numbers : map[c] = IF c = a THEN NoFd ELSE IF c = b THEN FdMap[a] ELSE FdMap[c]
  BY <1>1, <1>2, Zenon DEF Descriptors
<1>0. Descriptors(map, held)
  BY <1>1, <1>2, <1>4, SMTT(60) DEF Descriptors
<1>5. MappedBy(map) = MappedBy(FdMap) \ {n}
  <2>1. \A c, d \in Numbers : FdMap[c] = FdMap[d] /\ FdMap[c] # NoFd => c = d
    BY <1>1, Zenon DEF Descriptors
  <2> QED BY <2>1, <1>0, <1>1, <1>3, <1>4, OpenLaws, SMTT(60)
<1>6. Open(map, held) \subseteq Open(FdMap, held)
  BY <1>1, <1>0, <1>5, OpenLaws, SMTT(60)
<1>7. PICK pool : pool = [i \in DOMAIN PollerPool |-> Miss(PollerPool[i], n)]
  BY ZenonT(60)
<1>8. References(map, held, pool, n) /\ regular' = regular
  BY <1>2, <1>3, <1>7, Zenon DEF fdRenumber
<1>9. DOMAIN pool = DOMAIN PollerPool /\ \A i \in 1 .. Len(PollerPool) : pool[i] = Miss(PollerPool[i], n)
  BY <1>7, SMTT(60) DEF PollInv
<1> QED BY <1>0, <1>5, <1>6, <1>8, <1>9, CloseStep, MissedPooled, SMTT(60)

-----------------------------------------------------------------------------
(* The steps that open a file and the steps of one poll_oneoff.           *)

(* A step that opens the file n, new to every table.                      *)
Opens(n, o, m, reg, o1, m1, reg1) ==
    /\ n \notin o /\ m \subseteq o
    /\ o1 = o \cup {n} /\ m1 = m \cup {n} /\ reg1 \ {n} = reg \ {n}

(* A file that is opened disturbs no poller and no poll_oneoff.           *)
LEMMA OpenedPolled ==
    ASSUME NEW n, NEW o, NEW m, NEW reg, NEW o1, NEW m1, NEW reg1, Opens(n, o, m, reg, o1, m1, reg1)
    PROVE  /\ \A p : Pooled(p, o, m, reg) => Pooled(p, o1, m1, reg1)
           /\ \A c : Polled(c, o, m, reg) => Polled(c, o1, m1, reg1)
<1>1. o1 \ m1 = o \ m /\ o \ reg \subseteq o1 \ reg1 /\ m \subseteq m1
  BY Zenon DEF Opens
<1>2. ASSUME NEW p, Sound(p, o, m, reg) PROVE Sound(p, o1, m1, reg1)
  BY <1>1, <1>2, ZenonT(60) DEF Sound
<1>3. ASSUME NEW p, Rests(p, o, m, reg) PROVE Rests(p, o1, m1, reg1)
  BY <1>1, <1>2, <1>3, ZenonT(60) DEF Rests
<1>4. ASSUME NEW p, Waiting(p, o, m, reg) PROVE Waiting(p, o1, m1, reg1)
  BY <1>1, <1>2, <1>4, ZenonT(60) DEF Waiting
<1>5. ASSUME NEW p, NEW w, Serves(p, w, m) PROVE Serves(p, w, m1)
  BY <1>1, <1>5, Zenon DEF Serves
<1> QED BY <1>3, <1>4, <1>5, ZenonT(60) DEF Pooled, Polled

(* path_open keeps the invariant.                                         *)
LEMMA StepOpen ==
    ASSUME PollInv, NEW t \in Callers, NEW a \in Numbers, NEW n \in Natives, pathOpen(t, a, n)
    PROVE  PollInv'
<1>1. Descriptors(FdMap, held) /\ n # NoFd /\ FdMap[a] = NoFd /\ n \notin OpenNow
  BY PollAssumption, Zenon DEF PollInv, pathOpen, OpenNow
<1>2. PICK map : map = [FdMap EXCEPT ![a] = n] /\ FdMap' = map
  BY Zenon DEF pathOpen
<1>3. \A b \in Numbers : map[b] = IF b = a THEN n ELSE FdMap[b]
  BY <1>1, <1>2, Zenon DEF Descriptors
<1>4. \A b \in Numbers : FdMap[b] # n
  BY <1>1, OpenLaws, Zenon DEF OpenNow
<1>5. Descriptors(map, held)
  BY <1>1, <1>2, <1>3, <1>4, Zenon DEF Descriptors
<1>6. held' = held /\ PollerPool' = PollerPool /\ poll' = poll
  BY Zenon DEF pathOpen
<1>7. MappedBy(map) = Mapped \cup {n}
  BY <1>1, <1>3, <1>5, OpenLaws, SMTT(60) DEF Mapped
<1>8. Open(map, held) = OpenNow \cup {n}
  BY <1>1, <1>5, <1>7, OpenLaws DEF OpenNow, Mapped
<1>9. Mapped' = Mapped \cup {n} /\ OpenNow' = OpenNow \cup {n}
  BY <1>2, <1>6, <1>7, <1>8, ZenonT(60) DEF Mapped, OpenNow
<1>10. Mapped \subseteq OpenNow
  BY <1>1, OpenLaws, Zenon DEF OpenNow, Mapped
<1>11. regular' \ {n} = regular \ {n}
  BY Zenon DEF pathOpen
<1>12. Opens(n, OpenNow, Mapped, regular, OpenNow', Mapped', regular')
  BY <1>1, <1>9, <1>10, <1>11, Zenon DEF Opens
<1>13. /\ \A i \in 1 .. Len(PollerPool) : Pooled(PollerPool[i], OpenNow', Mapped', regular')
       /\ \A u \in Callers : Polled(poll[u], OpenNow', Mapped', regular')
  BY <1>12, OpenedPolled DEF PollInv
<1> QED BY <1>2, <1>5, <1>6, <1>13, Zenon DEF PollInv

(* A call that takes hold of an open file keeps the invariant.            *)
LEMMA StepHold ==
    ASSUME PollInv, NEW t \in Callers, NEW a \in Numbers, getNodeOrNull(t, a)
    PROVE  PollInv'
<1>1. Descriptors(FdMap, held) /\ FdMap[a] # NoFd
  BY Zenon DEF PollInv, getNodeOrNull
<1>2. PICK hold : hold = [held EXCEPT ![t] = FdMap[a]] /\ held' = hold
  BY Zenon DEF getNodeOrNull
<1>3. Descriptors(FdMap, hold) /\ \A u \in Callers : hold[u] = IF u = t THEN FdMap[a] ELSE held[u]
  BY <1>1, <1>2, Zenon DEF Descriptors
<1>0. held[t] = NoFd
  BY Zenon DEF getNodeOrNull, OutsideCalls
<1>4. Open(FdMap, hold) = Open(FdMap, held)
  BY <1>0, <1>1, <1>3, OpenLaws
<1>5. UNCHANGED <<FdMap, regular, PollerPool, poll>>
  BY Zenon DEF getNodeOrNull
<1>6. OpenNow' = OpenNow /\ Mapped' = Mapped
  BY <1>2, <1>4, <1>5, Zenon DEF OpenNow, Mapped
<1> QED BY <1>2, <1>3, <1>5, <1>6, Zenon DEF PollInv

-----------------------------------------------------------------------------
(* A step of one poll_oneoff, which moves no descriptor, keeps the        *)
(* invariant when the call is well after it and so is each poller in the  *)
(* pool.                                                                  *)
LEMMA PollStep ==
    ASSUME PollInv, NEW t \in Callers, NEW c, UNCHANGED <<FdMap, regular, held>>,
           poll' = [poll EXCEPT ![t] = c], Polled(c, OpenNow, Mapped, regular),
           PollerPool' \in Seq(PollerSet),
           \A i \in 1 .. Len(PollerPool') : Pooled(PollerPool'[i], OpenNow, Mapped, regular)
    PROVE  PollInv'
<1>1. OpenNow' = OpenNow /\ Mapped' = Mapped
  BY Zenon DEF OpenNow, Mapped
<1>2. poll' \in [Callers -> PollSet]
  BY ZenonT(60) DEF PollInv, Polled
<1>3. \A u \in Callers : poll'[u] = IF u = t THEN c ELSE poll[u]
  BY ZenonT(60) DEF PollInv
<1>4. \A u \in Callers : Polled(poll'[u], OpenNow, Mapped, regular)
  BY <1>3, Zenon DEF PollInv
<1> QED BY <1>1, <1>2, <1>4, Zenon DEF PollInv

(* No call, and a new poller, are well in every state.                    *)
LEMMA NoPollLaws ==
    ASSUME NEW o, NEW m, NEW reg
    PROVE  Polled(NoPoll, o, m, reg) /\ Pooled(NewPoller, o, m, reg)
<1>1. Fields(NewPoller, Empty, {}, Empty, {}, {})
  BY NewPollerLaws, Zenon
<1>2. PICK p \in PollerSet : p = NewPoller
  BY <1>1, Zenon DEF Fields
<1>3. /\ DOMAIN p.FdDatas = {} /\ p.OldFdDatas = {} /\ DOMAIN p.interest = {} /\ p.stale = {}
  BY <1>1, <1>2, EmptyLaws, Zenon DEF Fields
<1>4. Believed(p) = {}
  BY <1>3, Zenon DEF Believed
<1>5. Pooled(p, o, m, reg)
  BY <1>3, <1>4, Zenon DEF Pooled, Rests, Sound
<1>6. NoPoll \in PollSet /\ NoPoll.at = "none"
  BY <1>2, EmptyLaws, Zenon DEF NoPoll, PollSet
<1> QED BY <1>2, <1>5, <1>6, Zenon DEF Polled

(* Taking a poller from the pool keeps the invariant.                     *)
LEMMA StepAcquire == ASSUME PollInv, NEW t \in Callers, acquirePoller(t) PROVE PollInv'
<1>1. PICK p : p = IF PollerPool = <<>> THEN NewPoller ELSE PollerPool[Len(PollerPool)]
  BY Zenon
<1>2. PICK c : c = [at |-> "ask", poller |-> p, asked |-> Empty]
  BY ZenonT(60)
<1>3. /\ poll' = [poll EXCEPT ![t] = c] /\ UNCHANGED <<FdMap, regular, held>>
      /\ PollerPool' = IF PollerPool = <<>> THEN <<>> ELSE SubSeq(PollerPool, 1, Len(PollerPool) - 1)
  BY <1>1, <1>2, Zenon DEF acquirePoller
<1>4. /\ PollerPool \in Seq(PollerSet) /\ Len(PollerPool) \in Nat
      /\ \A i \in 1 .. Len(PollerPool) : Pooled(PollerPool[i], OpenNow, Mapped, regular)
  BY DEF PollInv
<1>5. Pooled(p, OpenNow, Mapped, regular)
  <2>1. CASE PollerPool = <<>>
    BY <1>1, <2>1, NoPollLaws, Zenon
  <2>2. CASE PollerPool # <<>>
    <3>1. Len(PollerPool) \in 1 .. Len(PollerPool)
      BY <1>4, <2>2
    <3> QED BY <3>1, <2>2, <1>1, <1>4, Zenon
  <2> QED BY <2>1, <2>2, Zenon
<1>6. /\ PollerPool' \in Seq(PollerSet)
      /\ \A i \in 1 .. Len(PollerPool') : Pooled(PollerPool'[i], OpenNow, Mapped, regular)
  <2>1. CASE PollerPool = <<>>
    BY <1>3, <2>1, SMTT(60)
  <2>2. CASE PollerPool # <<>>
    <3>0. Len(PollerPool) # 0
      BY <1>4, <2>2, SMTT(60)
    <3>1. PICK k \in Nat : k + 1 = Len(PollerPool) /\ k = Len(PollerPool) - 1
      <4>1. Len(PollerPool) - 1 \in Nat /\ (Len(PollerPool) - 1) + 1 = Len(PollerPool)
        BY <1>4, <3>0
      <4> QED BY <4>1, Zenon
    <3>2. PollerPool' = SubSeq(PollerPool, 1, k)
      BY <1>3, <2>2, <3>1, Zenon
    <3>3. /\ PollerPool' \in Seq(PollerSet) /\ Len(PollerPool') = k
          /\ \A i \in 1 .. k : PollerPool'[i] = PollerPool[i]
      <4>1. k \in 0 .. Len(PollerPool)
        BY <3>1
      <4> QED BY <4>1, <3>2, <1>4
    <3> QED BY <3>1, <3>3, <1>4
  <2> QED BY <2>1, <2>2, Zenon
<1>7. p \in PollerSet /\ Rests(p, OpenNow, Mapped, regular) /\ DOMAIN p.FdDatas \subseteq p.left
  BY <1>5, Zenon DEF Pooled
<1>8. Serves(p, Empty, Mapped)
  BY <1>7, EmptyLaws, Zenon DEF Serves
<1>9. c \in PollSet /\ c.at = "ask" /\ c.poller = p /\ c.asked = Empty
  BY <1>2, <1>7, EmptyLaws, Zenon DEF PollSet
<1>10. Polled(c, OpenNow, Mapped, regular)
  BY <1>7, <1>8, <1>9, Zenon DEF Polled
<1> QED BY <1>3, <1>6, <1>10, PollStep, Zenon

(* Poller::wait up to epoll_wait keeps the invariant: it deletes from the *)
(* kernel what the last call asked for and this one did not.              *)
LEMMA StepWait == ASSUME PollInv, NEW t \in Callers, wait(t) PROVE PollInv'
<1>1. PICK b \in PollSet : b = poll[t] /\ b.at = "ask" /\ Polled(b, OpenNow, Mapped, regular)
  BY Zenon DEF PollInv, wait
<1>2. PICK p \in PollerSet : p = b.poller
  BY Zenon DEF PollSet
<1>3. PICK out : out = p.OldFdDatas \ DOMAIN p.FdDatas
  BY Zenon
<1>4. PICK q : q = [p EXCEPT !.interest = Without(@, out)]
  BY Zenon
<1>5. PICK c : c = [b EXCEPT !.at = "wait", !.poller = q]
  BY Zenon
<1>6. /\ poll' = [poll EXCEPT ![t] = c] /\ UNCHANGED <<FdMap, regular, held, PollerPool>>
  BY <1>1, <1>2, <1>3, <1>4, <1>5, ZenonT(60) DEF wait, PollInv, PollSet, PollerSet
<1>7. Fields(q, p.FdDatas, p.OldFdDatas, Without(p.interest, out), p.stale, p.left)
  BY <1>4, DropLaws, Zenon DEF Drop
<1>8. /\ DOMAIN Without(p.interest, out) = DOMAIN p.interest \ out
      /\ \A n \in DOMAIN p.interest \ out : Without(p.interest, out)[n] = p.interest[n]
  BY PollerFields, WithoutLaws, ZenonT(60)
<1>9. /\ q \in PollerSet /\ q.FdDatas = p.FdDatas /\ q.OldFdDatas = p.OldFdDatas /\ q.stale = p.stale /\ q.left = p.left
      /\ DOMAIN q.interest = DOMAIN p.interest \ out
      /\ \A n \in DOMAIN p.interest \ out : q.interest[n] = p.interest[n]
  BY <1>7, <1>8, Zenon DEF Fields
<1>10. c \in PollSet /\ c.at = "wait" /\ c.poller = q /\ c.asked = b.asked
  BY <1>5, <1>9, ZenonT(60) DEF PollSet
<1>11. Rests(p, OpenNow, Mapped, regular) /\ Serves(p, b.asked, Mapped)
  BY <1>1, <1>2, Zenon DEF Polled
<1>12. Sound(q, OpenNow, Mapped, regular)
  BY <1>9, <1>11, ZenonT(60) DEF Rests, Sound, Believed
<1>13. Waiting(q, OpenNow, Mapped, regular)
  BY <1>3, <1>9, <1>11, <1>12, ZenonT(60) DEF Waiting, Rests, Believed
<1>14. Serves(q, b.asked, Mapped)
  <2>1. ASSUME NEW n \in DOMAIN p.FdDatas \ p.stale PROVE q.interest[n] = p.interest[n]
    BY <1>3, <1>9, <1>11, <2>1, ZenonT(60) DEF Rests, Believed
  <2> QED BY <2>1, <1>9, <1>11, ZenonT(60) DEF Serves
<1>15. Polled(c, OpenNow, Mapped, regular)
  BY <1>10, <1>13, <1>14, Zenon DEF Polled
<1>16. PollerPool' = PollerPool /\ PollerPool \in Seq(PollerSet)
       /\ \A i \in 1 .. Len(PollerPool) : Pooled(PollerPool[i], OpenNow, Mapped, regular)
  BY <1>6, Zenon DEF PollInv
<1> QED BY <1>6, <1>15, <1>16, PollStep, Zenon

(* Giving a poller back that is fit for the pool keeps the invariant.     *)
LEMMA StepRelease ==
    ASSUME PollInv, NEW t \in Callers, NEW p, Release(t, p), Pooled(p, OpenNow, Mapped, regular)
    PROVE  PollInv'
<1>1. /\ PollerPool' = Append(PollerPool, p) /\ poll' = [poll EXCEPT ![t] = NoPoll]
      /\ UNCHANGED <<FdMap, regular, held>>
  BY Zenon DEF Release
<1>2. PollerPool \in Seq(PollerSet) /\ p \in PollerSet
  BY ZenonT(60) DEF PollInv, Pooled
<1>3. /\ PollerPool' \in Seq(PollerSet) /\ Len(PollerPool') = Len(PollerPool) + 1
      /\ \A i \in 1 .. Len(PollerPool) + 1 :
            PollerPool'[i] = IF i = Len(PollerPool) + 1 THEN p ELSE PollerPool[i]
  BY <1>1, <1>2
<1>4. \A i \in 1 .. Len(PollerPool) : Pooled(PollerPool[i], OpenNow, Mapped, regular)
  BY Zenon DEF PollInv
<1>5. \A i \in 1 .. Len(PollerPool') : Pooled(PollerPool'[i], OpenNow, Mapped, regular)
  BY <1>2, <1>3, <1>4, SMTT(60)
<1> QED BY <1>1, <1>3, <1>5, NoPollLaws, PollStep, ZenonT(60)

(* A wait that returns keeps the invariant: it swaps the books.           *)
LEMMA StepReturns == ASSUME PollInv, NEW t \in Callers, waitReturns(t) PROVE PollInv'
<1>1. PICK b \in PollSet : b = poll[t] /\ b.at = "wait" /\ Polled(b, OpenNow, Mapped, regular)
  BY Zenon DEF PollInv, waitReturns
<1>2. PICK p \in PollerSet : p = b.poller
  BY Zenon DEF PollSet
<1>3. PICK old : old = DOMAIN p.FdDatas
  BY Zenon
<1>4. PICK q : q = [p EXCEPT !.FdDatas = Empty, !.OldFdDatas = old, !.stale = @ \cap old, !.left = {}]
  BY Zenon
<1>5. Release(t, q)
  BY <1>1, <1>2, <1>3, <1>4, Zenon DEF waitReturns
<1>6. old \in SUBSET Natives
  BY <1>3, PollerFields, RegisterLaws, Zenon
<1>7. Fields(q, Empty, old, p.interest, p.stale \cap old, {})
  BY <1>4, <1>6, EmptyLaws, ZenonT(60) DEF Fields, PollerSet
<1>8. /\ q \in PollerSet /\ DOMAIN q.FdDatas = {} /\ q.OldFdDatas = old /\ q.interest = p.interest
      /\ q.stale = p.stale \cap old
  BY <1>7, EmptyLaws, Zenon DEF Fields
<1>9. Believed(q) = old
  BY <1>8, Zenon DEF Believed
<1>10. Waiting(p, OpenNow, Mapped, regular) /\ old \subseteq Believed(p)
  BY <1>1, <1>2, <1>3, Zenon DEF Polled, Believed
<1>11. Sound(q, OpenNow, Mapped, regular)
  BY <1>8, <1>9, <1>10, Zenon DEF Waiting, Sound
<1>12. Pooled(q, OpenNow, Mapped, regular)
  BY <1>3, <1>8, <1>9, <1>10, <1>11, SMTT(60) DEF Waiting, Pooled, Rests
<1> QED BY <1>5, <1>12, StepRelease, Zenon

(* A wait that fails keeps the invariant: FdDatas stays as it is.         *)
LEMMA StepFails == ASSUME PollInv, NEW t \in Callers, waitFails(t) PROVE PollInv'
<1>1. PICK b \in PollSet : b = poll[t] /\ b.at = "wait" /\ Polled(b, OpenNow, Mapped, regular)
  BY Zenon DEF PollInv, waitFails
<1>2. PICK p \in PollerSet : p = b.poller
  BY Zenon DEF PollSet
<1>3. PICK s : s = p.stale \cup (p.OldFdDatas \ DOMAIN p.FdDatas)
  BY Zenon
<1>4. PICK q : q = [p EXCEPT !.left = DOMAIN p.FdDatas, !.stale = @ \cup (p.OldFdDatas \ DOMAIN p.FdDatas)]
  BY Zenon
<1>5. Release(t, q)
  BY <1>1, <1>2, <1>4, Zenon DEF waitFails
<1>6. s \in SUBSET Natives /\ DOMAIN p.FdDatas \in SUBSET Natives
  BY <1>3, PollerFields, RegisterLaws, Zenon
<1>7. Fields(q, p.FdDatas, p.OldFdDatas, p.interest, s, DOMAIN p.FdDatas)
  BY <1>3, <1>4, <1>6, ZenonT(60) DEF Fields, PollerSet
<1>8. Believed(q) = Believed(p) /\ q \in PollerSet /\ q.left = DOMAIN q.FdDatas /\ q.stale = s /\ q.interest = p.interest
  BY <1>7, Zenon DEF Fields, Believed
<1>10. Waiting(p, OpenNow, Mapped, regular)
  BY <1>1, <1>2, ZenonT(60) DEF Polled
<1>11. Sound(q, OpenNow, Mapped, regular)
  BY <1>3, <1>8, <1>10, Zenon DEF Waiting, Sound, Believed
<1>12. Pooled(q, OpenNow, Mapped, regular)
  BY <1>3, <1>8, <1>10, <1>11, ZenonT(60) DEF Waiting, Pooled, Rests, Believed
<1> QED BY <1>5, <1>12, StepRelease, Zenon

-----------------------------------------------------------------------------
(* A subscription, the one step with several outcomes, and the theorems.  *)

(* The six outcomes of a subscription to events k of the file n: q is the *)
(* poller p after it, v the wish w after it.                              *)
Outcome(p, q, n, k, w, v) ==
    \/ /\ q = p /\ n \in DOMAIN p.FdDatas /\ k \in p.FdDatas[n]
       /\ v = IF n \in regular THEN w ELSE With(w, n, Had(w, n) \cup {k})
    \/ q = p /\ n \in regular /\ v = w
    \/ q = p /\ n \in DOMAIN p.interest /\ n \notin Believed(p)
    \/ /\ n \notin regular /\ n \notin DOMAIN p.interest /\ n \notin Believed(p)
       /\ Fields(q, With(p.FdDatas, n, {k}), p.OldFdDatas, With(p.interest, n, {k}), p.stale, p.left)
       /\ v = With(w, n, Had(w, n) \cup {k})
    \/ /\ n \in DOMAIN p.interest /\ n \in Believed(p)
       /\ Fields(q, With(p.FdDatas, n, Had(p.FdDatas, n) \cup {k}), p.OldFdDatas,
                 With(p.interest, n, Had(p.FdDatas, n) \cup {k}), p.stale, p.left)
       /\ v = IF n \in regular THEN w ELSE With(w, n, Had(w, n) \cup {k})
    \/ /\ n \notin DOMAIN p.interest /\ n \in Believed(p)
       /\ Fields(q, With(p.FdDatas, n, Had(p.FdDatas, n) \cup {k}), p.OldFdDatas,
                 p.interest, p.stale, p.left)
       /\ v = IF n \in regular THEN w ELSE With(w, n, Had(w, n) \cup {k})

(* The kinds that a file has, and one more, are kinds.                    *)
LEMMA HadLaws ==
    ASSUME NEW f \in Registers, NEW n, NEW k \in Kinds
    PROVE  Had(f, n) \cup {k} \in SUBSET Kinds
  BY RegisterLaws, Zenon DEF Had

(* What the two ways of recording a subscription make of a poller.        *)
LEMMA WriteFields ==
    ASSUME NEW p \in PollerSet, NEW n \in Natives, NEW ks \in SUBSET Kinds
    PROVE  /\ Fields([p EXCEPT !.FdDatas = With(p.FdDatas, n, ks), !.interest = With(@, n, ks)],
                     With(p.FdDatas, n, ks), p.OldFdDatas, With(p.interest, n, ks), p.stale, p.left)
           /\ Fields([p EXCEPT !.FdDatas = With(p.FdDatas, n, ks)],
                     With(p.FdDatas, n, ks), p.OldFdDatas, p.interest, p.stale, p.left)
<1>1. With(p.FdDatas, n, ks) \in Registers /\ With(p.interest, n, ks) \in Registers
  BY PollerFields, WithLaws, Zenon
<1> QED BY <1>1, ZenonT(60) DEF Fields, PollerSet

(* read and write have one of the six outcomes.                           *)
LEMMA Outcomes ==
    ASSUME NEW p \in PollerSet, NEW w \in Registers, NEW n \in Natives, NEW k \in Kinds
    PROVE  Outcome(p, Subscribed(p, n, k), n, k, w, Asked(w, n, k))
<1>1. PICK mask : mask = Had(p.FdDatas, n) \cup {k}
  BY ZenonT(60)
<1>2. mask \in SUBSET Kinds
  BY <1>1, PollerFields, HadLaws, Zenon
<1>3. PICK f : f = With(p.FdDatas, n, mask)
  BY Zenon
<1>4. PICK g : g = With(p.interest, n, mask)
  BY Zenon
<1>5. PICK qa : qa = [p EXCEPT !.FdDatas = f, !.interest = With(@, n, mask)]
  BY Zenon
<1>6. PICK qb : qb = [p EXCEPT !.FdDatas = f]
  BY ZenonT(60)
<1>7. /\ Fields(qa, f, p.OldFdDatas, g, p.stale, p.left)
      /\ Fields(qb, f, p.OldFdDatas, p.interest, p.stale, p.left)
  BY <1>2, <1>3, <1>4, <1>5, <1>6, WriteFields, Zenon
<1>8. PICK q : q = Subscribed(p, n, k)
  BY Zenon
<1>9. q = IF k \in Had(p.FdDatas, n) THEN p
          ELSE IF n \notin Believed(p)
            THEN IF n \in regular \/ n \in DOMAIN p.interest THEN p ELSE qa
          ELSE IF n \in DOMAIN p.interest THEN qa ELSE qb
  BY <1>1, <1>3, <1>5, <1>6, <1>8, Zenon DEF Subscribed, Believed
<1>10. PICK v : v = Asked(w, n, k)
  BY Zenon
<1>11. v = IF n \in regular THEN w ELSE With(w, n, Had(w, n) \cup {k})
  BY <1>10, Zenon DEF Asked
<1>12. k \in Had(p.FdDatas, n) => n \in DOMAIN p.FdDatas /\ k \in p.FdDatas[n]
  BY Zenon DEF Had
<1>13. n \notin Believed(p) => mask = {k}
  BY <1>1, Zenon DEF Had, Believed
<1>14. Outcome(p, q, n, k, w, v)
  <2>1. CASE k \in Had(p.FdDatas, n)
    BY <2>1, <1>9, <1>11, <1>12, ZenonT(60) DEF Outcome
  <2>2. CASE k \notin Had(p.FdDatas, n) /\ n \notin Believed(p)
    BY <2>2, <1>3, <1>4, <1>7, <1>9, <1>11, <1>13, ZenonT(60) DEF Outcome
  <2>3. CASE k \notin Had(p.FdDatas, n) /\ n \in Believed(p)
    BY <2>3, <1>1, <1>3, <1>4, <1>7, <1>9, <1>11, ZenonT(60) DEF Outcome
  <2> QED BY <2>1, <2>2, <2>3, Zenon
<1> QED BY <1>8, <1>10, <1>14, Zenon

(* v is the wish w with events k of the file n, if n can be waited for.   *)
Wishes(w, n, k, v) ==
           /\ v \in Registers /\ DOMAIN w \subseteq DOMAIN v /\ DOMAIN v \subseteq DOMAIN w \cup {n}
           /\ \A x \in DOMAIN w : x # n => v[x] = w[x]
           /\ n \notin regular => /\ n \in DOMAIN v
                                  /\ n \in DOMAIN w => v[n] = w[n] \cup {k}
                                  /\ n \notin DOMAIN w => v[n] = {k}

(* Asked adds the events k of the file n to the wish.                     *)
LEMMA WishLaws ==
    ASSUME NEW w \in Registers, NEW n \in Natives, NEW k \in Kinds, NEW v,
           v = IF n \in regular THEN w ELSE With(w, n, Had(w, n) \cup {k})
    PROVE  Wishes(w, n, k, v)
<1>1. CASE n \in regular
  BY <1>1, Zenon DEF Wishes
<1>2. CASE n \notin regular
  <2>1. PICK ks : ks = Had(w, n) \cup {k}
    BY Zenon
  <2>2. ks \in SUBSET Kinds
    BY <2>1, HadLaws, Zenon
  <2>3. /\ v \in Registers /\ DOMAIN v = DOMAIN w \cup {n} /\ v[n] = ks
        /\ \A x \in DOMAIN w : x # n => v[x] = w[x]
    BY <1>2, <2>1, <2>2, WithLaws, SMTT(60)
  <2>4. (n \in DOMAIN w => ks = w[n] \cup {k}) /\ (n \notin DOMAIN w => ks = {k})
    BY <2>1, Zenon DEF Had
  <2> QED BY <2>3, <2>4, <1>2, Zenon DEF Wishes
<1> QED BY <1>1, <1>2, Zenon

(* Whatever its outcome, a subscription leaves the poller at rest, and    *)
(* serving the wish.                                                      *)
LEMMA SubscribedRests ==
    ASSUME NEW p \in PollerSet, NEW w \in Registers, NEW n \in Natives, NEW k \in Kinds,
           NEW o, NEW m, n \in m, m \subseteq o,
           Rests(p, o, m, regular), Serves(p, w, m),
           NEW q, NEW v, Outcome(p, q, n, k, w, v)
    PROVE  q \in PollerSet /\ v \in Registers /\ Rests(q, o, m, regular) /\ Serves(q, v, m)
<1>1. /\ DOMAIN p.interest \subseteq o \ regular
      /\ p.stale \subseteq Believed(p)
      /\ p.stale \cap DOMAIN p.interest \subseteq o \ m
      /\ DOMAIN p.interest \subseteq Believed(p) \cup (o \ m)
      /\ Believed(p) \subseteq DOMAIN p.interest \cup p.stale
      /\ Believed(p) \cap (o \ m) \subseteq p.stale
  BY ZenonT(60) DEF Rests, Sound
<1>2. DOMAIN w \subseteq m
  BY Zenon DEF Serves
<1>3. /\ \A x \in DOMAIN p.FdDatas \ (p.stale \cup p.left) :
           x \in DOMAIN w /\ w[x] = p.FdDatas[x] /\ p.interest[x] = p.FdDatas[x]
      /\ DOMAIN w \ (p.stale \cup p.left) \subseteq DOMAIN p.FdDatas
  BY Zenon DEF Serves
<1>w. ASSUME NEW f \in Registers, NEW ks \in SUBSET Kinds
      PROVE  /\ DOMAIN With(f, n, ks) = DOMAIN f \cup {n}
             /\ With(f, n, ks)[n] = ks
             /\ \A x \in DOMAIN f : x # n => With(f, n, ks)[x] = f[x]
  BY <1>w, WithLaws, ZenonT(60)
<1>p. p.FdDatas \in Registers /\ p.interest \in Registers /\ {k} \in SUBSET Kinds
  BY PollerFields, ZenonT(60)
<1>4. CASE /\ q = p /\ n \in DOMAIN p.FdDatas /\ k \in p.FdDatas[n]
           /\ v = IF n \in regular THEN w ELSE With(w, n, Had(w, n) \cup {k})
  <2>1. /\ v \in Registers /\ DOMAIN w \subseteq DOMAIN v /\ DOMAIN v \subseteq DOMAIN w \cup {n}
        /\ \A x \in DOMAIN w : x # n => v[x] = w[x]
        /\ n \notin regular => (n \in DOMAIN w => v[n] = w[n] \cup {k})
        /\ n \in regular => v = w
    <3>1. Wishes(w, n, k, v)
      BY <1>4, WishLaws, ZenonT(60)
    <3> QED BY <3>1, <1>4, ZenonT(60) DEF Wishes
  <2>2. ASSUME NEW x \in DOMAIN p.FdDatas \ (p.stale \cup p.left) PROVE v[x] = w[x]
    <3>1. x \in DOMAIN w /\ w[x] = p.FdDatas[x]
      BY <1>3, <2>2, ZenonT(60)
    <3>2. x = n => w[n] \cup {k} = w[n]
      BY <3>1, <1>4, ZenonT(60)
    <3> QED BY <3>1, <3>2, <2>1, ZenonT(60)
  <2>3. Serves(q, v, m)
    BY <1>2, <1>3, <1>4, <2>1, <2>2, ZenonT(60) DEF Serves
  <2> QED BY <1>4, <2>1, <2>3, ZenonT(60)
<1>5. CASE q = p /\ n \in regular /\ v = w
  BY <1>5, Zenon
<1>6. CASE q = p /\ n \in DOMAIN p.interest /\ n \notin Believed(p)
  BY <1>6, <1>1, ZenonT(60)
<1>7. CASE /\ n \notin regular /\ n \notin DOMAIN p.interest /\ n \notin Believed(p)
           /\ Fields(q, With(p.FdDatas, n, {k}), p.OldFdDatas, With(p.interest, n, {k}), p.stale, p.left)
           /\ v = With(w, n, Had(w, n) \cup {k})
  <2>1. /\ v \in Registers /\ DOMAIN w \subseteq DOMAIN v /\ DOMAIN v \subseteq DOMAIN w \cup {n}
        /\ \A x \in DOMAIN w : x # n => v[x] = w[x]
        /\ n \in DOMAIN v /\ (n \notin DOMAIN w => v[n] = {k})
    <3>1. v = IF n \in regular THEN w ELSE With(w, n, Had(w, n) \cup {k})
      BY <1>7, ZenonT(60)
    <3>2. Wishes(w, n, k, v)
      BY <3>1, WishLaws, Zenon
    <3> QED BY <3>2, <1>7, ZenonT(60) DEF Wishes
  <2>2. /\ DOMAIN With(p.FdDatas, n, {k}) = DOMAIN p.FdDatas \cup {n}
        /\ With(p.FdDatas, n, {k})[n] = {k}
        /\ \A x \in DOMAIN p.FdDatas : x # n => With(p.FdDatas, n, {k})[x] = p.FdDatas[x]
        /\ DOMAIN With(p.interest, n, {k}) = DOMAIN p.interest \cup {n}
        /\ With(p.interest, n, {k})[n] = {k}
        /\ \A x \in DOMAIN p.interest : x # n => With(p.interest, n, {k})[x] = p.interest[x]
    BY <1>w, <1>p, ZenonT(60)
  <2>3. /\ q \in PollerSet /\ q.OldFdDatas = p.OldFdDatas /\ q.stale = p.stale /\ q.left = p.left
        /\ q.FdDatas = With(p.FdDatas, n, {k}) /\ q.interest = With(p.interest, n, {k})
    BY <1>7, ZenonT(60) DEF Fields
  <2>4. Believed(q) = Believed(p) \cup {n}
    BY <2>2, <2>3, ZenonT(60) DEF Believed
  <2>5. DOMAIN q.interest = DOMAIN p.interest \cup {n}
    BY <2>2, <2>3, ZenonT(60)
  <2>6. Sound(q, o, m, regular)
    BY <1>1, <1>7, <2>3, <2>4, <2>5, ZenonT(60) DEF Sound
  <2>7. Rests(q, o, m, regular)
    BY <1>1, <2>3, <2>4, <2>5, <2>6, ZenonT(60) DEF Rests
  <2>8. ASSUME n \notin p.left PROVE n \notin DOMAIN w
    BY <1>1, <1>3, <1>7, <2>8, ZenonT(60) DEF Believed
  <2>9. ASSUME NEW x \in DOMAIN q.FdDatas \ (q.stale \cup q.left)
        PROVE  x \in DOMAIN v /\ v[x] = q.FdDatas[x] /\ q.interest[x] = q.FdDatas[x]
    <3>1. CASE x = n
      BY <3>1, <2>1, <2>2, <2>3, <2>8, <2>9, ZenonT(60)
    <3>2. CASE x # n
      <4>1. x \in DOMAIN p.FdDatas \ (p.stale \cup p.left)
        BY <3>2, <2>2, <2>3, <2>9, ZenonT(60)
      <4>2. x \in DOMAIN w /\ w[x] = p.FdDatas[x] /\ p.interest[x] = p.FdDatas[x]
        BY <4>1, <1>3, <2>9, ZenonT(60)
      <4>3. x \in DOMAIN p.interest
        BY <4>1, <1>1, Zenon DEF Believed
      <4> QED BY <3>2, <4>1, <4>2, <4>3, <2>1, <2>2, <2>3, ZenonT(60)
    <3> QED BY <3>1, <3>2, ZenonT(60)
  <2>10. DOMAIN v \ (q.stale \cup q.left) \subseteq DOMAIN q.FdDatas
    BY <1>3, <2>1, <2>2, <2>3, ZenonT(60)
  <2>11. Serves(q, v, m)
    BY <1>2, <2>1, <2>3, <2>9, <2>10, ZenonT(60) DEF Serves
  <2> QED BY <2>1, <2>3, <2>7, <2>11, ZenonT(60)
<1>8. CASE /\ n \in DOMAIN p.interest /\ n \in Believed(p)
           /\ Fields(q, With(p.FdDatas, n, Had(p.FdDatas, n) \cup {k}), p.OldFdDatas,
                     With(p.interest, n, Had(p.FdDatas, n) \cup {k}), p.stale, p.left)
           /\ v = IF n \in regular THEN w ELSE With(w, n, Had(w, n) \cup {k})
  <2>0. n \notin regular /\ n \notin p.stale
    BY <1>1, <1>8, ZenonT(60)
  <2>1. /\ v \in Registers /\ DOMAIN w \subseteq DOMAIN v /\ DOMAIN v \subseteq DOMAIN w \cup {n}
        /\ \A x \in DOMAIN w : x # n => v[x] = w[x]
        /\ n \in DOMAIN v /\ (n \notin DOMAIN w => v[n] = {k}) /\ (n \in DOMAIN w => v[n] = w[n] \cup {k})
    <3>1. v = IF n \in regular THEN w ELSE With(w, n, Had(w, n) \cup {k})
      BY <1>8, ZenonT(60)
    <3>2. Wishes(w, n, k, v)
      BY <3>1, WishLaws, Zenon
    <3> QED BY <3>2, <2>0, ZenonT(60) DEF Wishes
  <2>m. PICK mask \in SUBSET Kinds : mask = Had(p.FdDatas, n) \cup {k}
    BY PollerFields, HadLaws, ZenonT(60)
  <2>2. /\ DOMAIN With(p.FdDatas, n, mask) = DOMAIN p.FdDatas \cup {n}
        /\ With(p.FdDatas, n, mask)[n] = mask
        /\ \A x \in DOMAIN p.FdDatas : x # n => With(p.FdDatas, n, mask)[x] = p.FdDatas[x]
        /\ DOMAIN With(p.interest, n, mask) = DOMAIN p.interest \cup {n}
        /\ With(p.interest, n, mask)[n] = mask
        /\ \A x \in DOMAIN p.interest : x # n => With(p.interest, n, mask)[x] = p.interest[x]
    BY <1>w, <1>p, ZenonT(60)
  <2>3. /\ q \in PollerSet /\ q.OldFdDatas = p.OldFdDatas /\ q.stale = p.stale /\ q.left = p.left
        /\ q.FdDatas = With(p.FdDatas, n, mask) /\ q.interest = With(p.interest, n, mask)
    BY <1>8, <2>m, ZenonT(60) DEF Fields
  <2>4. Believed(q) = Believed(p)
    BY <1>8, <2>2, <2>3, ZenonT(60) DEF Believed
  <2>5. DOMAIN q.interest = DOMAIN p.interest
    BY <1>8, <2>2, <2>3, ZenonT(60)
  <2>6. Sound(q, o, m, regular)
    BY <1>1, <2>3, <2>4, <2>5, ZenonT(60) DEF Sound
  <2>7. Rests(q, o, m, regular)
    BY <1>1, <2>3, <2>4, <2>5, <2>6, ZenonT(60) DEF Rests
  <2>8. ASSUME n \notin p.left PROVE v[n] = mask
    <3>1. CASE n \in DOMAIN p.FdDatas
      <4>1. n \in DOMAIN w /\ w[n] = p.FdDatas[n]
        BY <3>1, <1>3, <2>0, <2>8, ZenonT(60)
      <4>2. mask = p.FdDatas[n] \cup {k}
        BY <3>1, <2>m, ZenonT(60) DEF Had
      <4> QED BY <4>1, <4>2, <2>1, ZenonT(60)
    <3>2. CASE n \notin DOMAIN p.FdDatas
      <4>1. n \notin DOMAIN w
        BY <3>2, <1>3, <2>0, <2>8, ZenonT(60)
      <4>2. mask = {k}
        BY <3>2, <2>m, ZenonT(60) DEF Had
      <4> QED BY <4>1, <4>2, <2>1, ZenonT(60)
    <3> QED BY <3>1, <3>2, ZenonT(60)
  <2>9. ASSUME NEW x \in DOMAIN q.FdDatas \ (q.stale \cup q.left)
        PROVE  x \in DOMAIN v /\ v[x] = q.FdDatas[x] /\ q.interest[x] = q.FdDatas[x]
    <3>1. CASE x = n
      BY <3>1, <2>1, <2>2, <2>3, <2>8, <2>9, ZenonT(60)
    <3>2. CASE x # n
      <4>1. x \in DOMAIN p.FdDatas \ (p.stale \cup p.left)
        BY <3>2, <2>2, <2>3, <2>9, SMTT(60)
      <4>2. x \in DOMAIN w /\ w[x] = p.FdDatas[x] /\ p.interest[x] = p.FdDatas[x]
        BY <4>1, <1>3, <2>9, Zenon
      <4>3. x \in DOMAIN p.interest
        BY <4>1, <1>1, ZenonT(60) DEF Believed
      <4> QED BY <3>2, <4>1, <4>2, <4>3, <2>1, <2>2, <2>3, ZenonT(60)
    <3> QED BY <3>1, <3>2, ZenonT(60)
  <2>10. DOMAIN v \ (q.stale \cup q.left) \subseteq DOMAIN q.FdDatas
    BY <1>3, <2>0, <2>1, <2>2, <2>3, ZenonT(60)
  <2>11. Serves(q, v, m)
    BY <1>2, <2>1, <2>3, <2>9, <2>10, ZenonT(60) DEF Serves
  <2> QED BY <2>1, <2>3, <2>7, <2>11, ZenonT(60)
<1>9. CASE /\ n \notin DOMAIN p.interest /\ n \in Believed(p)
           /\ Fields(q, With(p.FdDatas, n, Had(p.FdDatas, n) \cup {k}), p.OldFdDatas,
                     p.interest, p.stale, p.left)
           /\ v = IF n \in regular THEN w ELSE With(w, n, Had(w, n) \cup {k})
  <2>0. n \in p.stale
    BY <1>1, <1>9, ZenonT(60)
  <2>1. /\ v \in Registers /\ DOMAIN w \subseteq DOMAIN v /\ DOMAIN v \subseteq DOMAIN w \cup {n}
        /\ \A x \in DOMAIN w : x # n => v[x] = w[x]
    <3>1. v = IF n \in regular THEN w ELSE With(w, n, Had(w, n) \cup {k})
      BY <1>9, Zenon
    <3>2. Wishes(w, n, k, v)
      BY <3>1, WishLaws, Zenon
    <3> QED BY <3>2, ZenonT(60) DEF Wishes
  <2>m. PICK mask \in SUBSET Kinds : mask = Had(p.FdDatas, n) \cup {k}
    BY PollerFields, HadLaws, Zenon
  <2>2. /\ DOMAIN With(p.FdDatas, n, mask) = DOMAIN p.FdDatas \cup {n}
        /\ \A x \in DOMAIN p.FdDatas : x # n => With(p.FdDatas, n, mask)[x] = p.FdDatas[x]
    BY <1>w, <1>p, ZenonT(60)
  <2>3. /\ q \in PollerSet /\ q.OldFdDatas = p.OldFdDatas /\ q.stale = p.stale /\ q.left = p.left
        /\ q.FdDatas = With(p.FdDatas, n, mask) /\ q.interest = p.interest
    BY <1>9, <2>m, Zenon DEF Fields
  <2>4. Believed(q) = Believed(p)
    BY <1>9, <2>2, <2>3, ZenonT(60) DEF Believed
  <2>6. Sound(q, o, m, regular)
    BY <1>1, <2>3, <2>4, ZenonT(60) DEF Sound
  <2>7. Rests(q, o, m, regular)
    BY <1>1, <2>3, <2>4, <2>6, ZenonT(60) DEF Rests
  <2>9. ASSUME NEW x \in DOMAIN q.FdDatas \ (q.stale \cup q.left)
        PROVE  x \in DOMAIN v /\ v[x] = q.FdDatas[x] /\ q.interest[x] = q.FdDatas[x]
    <3>0. x # n
      BY <2>0, <2>3, <2>9, ZenonT(60)
    <3>1. x \in DOMAIN p.FdDatas \ (p.stale \cup p.left)
      BY <3>0, <2>2, <2>3, <2>9, ZenonT(60)
    <3>2. x \in DOMAIN w /\ w[x] = p.FdDatas[x] /\ p.interest[x] = p.FdDatas[x]
      BY <3>1, <1>3, <2>9, Zenon
    <3> QED BY <3>0, <3>1, <3>2, <2>1, <2>2, <2>3, ZenonT(60)
  <2>10. DOMAIN v \ (q.stale \cup q.left) \subseteq DOMAIN q.FdDatas
    BY <1>3, <2>0, <2>1, <2>2, <2>3, ZenonT(60)
  <2>11. Serves(q, v, m)
    BY <1>2, <2>1, <2>3, <2>9, <2>10, ZenonT(60) DEF Serves
  <2> QED BY <2>1, <2>3, <2>7, <2>11, Zenon
<1> QED BY <1>4, <1>5, <1>6, <1>7, <1>8, <1>9, ZenonT(60) DEF Outcome

(* A subscription of poll_oneoff keeps the invariant.                     *)
LEMMA StepSubscribe ==
    ASSUME PollInv, NEW t \in Callers, NEW a \in Numbers, NEW k \in Kinds, Subscribe(t, a, k)
    PROVE  PollInv'
<1>1. PICK b \in PollSet : b = poll[t] /\ b.at = "ask" /\ Polled(b, OpenNow, Mapped, regular)
  BY Zenon DEF PollInv, Subscribe
<1>2. PICK p \in PollerSet : p = b.poller
  BY Zenon DEF PollSet
<1>3. PICK w \in Registers : w = b.asked
  BY Zenon DEF PollSet
<1>4. Descriptors(FdMap, held) /\ FdMap[a] # NoFd
  BY Zenon DEF PollInv, Subscribe
<1>5. PICK n \in Natives : n = FdMap[a]
  BY <1>4, Zenon DEF Descriptors
<1>6. n \in Mapped /\ Mapped \subseteq OpenNow
  BY <1>4, <1>5, OpenLaws, Zenon DEF OpenNow, Mapped
<1>7. PICK q : q = Subscribed(p, n, k)
  BY Zenon
<1>8. PICK v : v = Asked(w, n, k)
  BY Zenon
<1>9. Outcome(p, q, n, k, w, v)
  BY <1>7, <1>8, Outcomes, Zenon
<1>10. Rests(p, OpenNow, Mapped, regular) /\ Serves(p, w, Mapped)
  BY <1>1, <1>2, <1>3, ZenonT(60) DEF Polled
<1>11. q \in PollerSet /\ v \in Registers /\ Rests(q, OpenNow, Mapped, regular) /\ Serves(q, v, Mapped)
  BY <1>6, <1>9, <1>10, SubscribedRests, Zenon
<1>12. PICK c : c = [b EXCEPT !.poller = q, !.asked = v]
  BY Zenon
<1>13. c \in PollSet /\ c.at = "ask" /\ c.poller = q /\ c.asked = v
  BY <1>1, <1>11, <1>12, ZenonT(60) DEF PollSet
<1>14. Polled(c, OpenNow, Mapped, regular)
  BY <1>11, <1>13, Zenon DEF Polled
<1>15. /\ poll' = [poll EXCEPT ![t] = c] /\ UNCHANGED <<FdMap, regular, held, PollerPool>>
  BY <1>1, <1>2, <1>3, <1>5, <1>7, <1>8, <1>12, ZenonT(60) DEF Subscribe, PollInv, PollSet
<1>16. PollerPool' = PollerPool /\ PollerPool \in Seq(PollerSet)
       /\ \A i \in 1 .. Len(PollerPool) : Pooled(PollerPool[i], OpenNow, Mapped, regular)
  BY <1>15, Zenon DEF PollInv
<1> QED BY <1>14, <1>15, <1>16, PollStep, ZenonT(60)

(* PollInv is inductive, hence an invariant: of each poller it says what  *)
(* its books and the kernel's record have in common, at rest and in       *)
(* epoll_wait.                                                            *)
THEOREM PollInvariant == PollSpec => []PollInv
<1>1. PollInit => PollInv
  <2> SUFFICES ASSUME PollInit PROVE PollInv
    BY Zenon
  <2>1. FdMap = [a \in Numbers |-> IF a \in Special THEN a ELSE NoFd] /\ held = [t \in Callers |-> NoFd]
        /\ PollerPool = <<>> /\ poll = [t \in Callers |-> NoPoll]
    BY Zenon DEF PollInit
  <2>2. Descriptors(FdMap, held)
    BY <2>1, PollAssumption, Zenon DEF Descriptors
  <2>3. \A t \in Callers : Polled(poll[t], OpenNow, Mapped, regular)
    BY <2>1, NoPollLaws, Zenon
  <2>4. poll \in [Callers -> PollSet]
    BY <2>1, <2>3, Zenon DEF Polled
  <2> QED BY <2>1, <2>2, <2>3, <2>4, SMTT(60) DEF PollInv
<1>2. PollInv /\ [PollNext]_pollVars => PollInv'
  <2> SUFFICES ASSUME PollInv, [PollNext]_pollVars PROVE PollInv'
    BY Zenon
  <2>1. CASE UNCHANGED pollVars
    BY <2>1, Zenon DEF pollVars, PollInv, OpenNow, Mapped
  <2>2. ASSUME NEW t \in Callers, NEW a \in Numbers, NEW n \in Natives, pathOpen(t, a, n) PROVE PollInv'
    BY <2>2, StepOpen, Zenon
  <2>3. ASSUME NEW t \in Callers, NEW a \in Numbers, getNodeOrNull(t, a) PROVE PollInv'
    BY <2>3, StepHold, Zenon
  <2>4. ASSUME NEW t \in Callers, CallReturns(t) PROVE PollInv'
    BY <2>4, StepCallReturns, Zenon
  <2>5. ASSUME NEW t \in Callers, NEW a \in Numbers, fdClose(t, a) PROVE PollInv'
    BY <2>5, StepClose, Zenon
  <2>6. ASSUME NEW t \in Callers, NEW a \in Numbers, NEW b \in Numbers, fdRenumber(t, a, b) PROVE PollInv'
    BY <2>6, StepRenumber, Zenon
  <2>7. ASSUME NEW t \in Callers, acquirePoller(t) PROVE PollInv'
    BY <2>7, StepAcquire, Zenon
  <2>8. ASSUME NEW t \in Callers, NEW a \in Numbers, NEW k \in Kinds, Subscribe(t, a, k) PROVE PollInv'
    BY <2>8, StepSubscribe, Zenon
  <2>9. ASSUME NEW t \in Callers, wait(t) PROVE PollInv'
    BY <2>9, StepWait, Zenon
  <2>10. ASSUME NEW t \in Callers, waitReturns(t) PROVE PollInv'
    BY <2>10, StepReturns, Zenon
  <2>11. ASSUME NEW t \in Callers, waitFails(t) PROVE PollInv'
    BY <2>11, StepFails, Zenon
  <2> QED
    BY <2>1, <2>2, <2>3, <2>4, <2>5, <2>6, <2>7, <2>8, <2>9, <2>10, <2>11, Zenon DEF PollNext
<1> QED BY <1>1, <1>2, PTL DEF PollSpec

(* A poller no thread is waiting with is at rest.                         *)
LEMMA AtRestPollers ==
    ASSUME PollInv, NEW p \in Pollers
    PROVE  Rests(p, OpenNow, Mapped, regular) /\ p \in PollerSet
<1>1. CASE p \in Range(PollerPool)
  <2>1. PollerPool \in Seq(PollerSet) /\ DOMAIN PollerPool = 1 .. Len(PollerPool)
    BY SMTT(60) DEF PollInv
  <2>2. PICK i \in 1 .. Len(PollerPool) : p = PollerPool[i]
    BY <1>1, <2>1, Zenon DEF Range
  <2> QED BY <2>2, Zenon DEF PollInv, Pooled
<1>2. CASE p \in {q.poller : q \in {r \in Polls : r.at = "ask"}}
  <2>1. PICK t \in Callers : poll[t].at = "ask" /\ p = poll[t].poller
    BY <1>2, Zenon DEF Polls
  <2> QED BY <2>1, Zenon DEF PollInv, Polled, PollSet
<1> QED BY <1>1, <1>2, Zenon DEF Pollers

(* The orphans are the open files the guest has no descriptor of.         *)
LEMMA OrphansAre == OpenNow \ Mapped = Orphans
<1>1. NoFd \notin OpenNow
  BY PollAssumption, Zenon DEF OpenNow, Open
<1> QED BY <1>1, Zenon DEF OpenNow, Mapped, MappedBy, Orphans

(* The variables of WasiPoll keep their types.                            *)
THEOREM AlwaysPollTypeOK == PollSpec => []PollTypeOK
<1>1. PollInv => PollTypeOK
  BY AtRestPollers, PollerFields, ZenonT(60) DEF PollInv, PollTypeOK, Descriptors, Rests, Sound
<1> QED BY <1>1, PollInvariant, PTL

(* What a poller at rest believes the kernel watches, the kernel watches, *)
(* except for stale files, and conversely except for orphans              *)
(* (BookMatchesKernel): for any number of threads, files and pooled       *)
(* pollers.                                                               *)
THEOREM AlwaysBookMatchesKernel == PollSpec => []BookMatchesKernel
<1>1. PollInv => BookMatchesKernel
  BY AtRestPollers, OrphansAre, Zenon DEF BookMatchesKernel, Rests
<1> QED BY <1>1, PollInvariant, PTL

(* A thread in epoll_wait waits for what its call asked for, of every     *)
(* number that is not stale nor left by a call that failed, and for       *)
(* nothing else but orphans and what such a call left                     *)
(* (WaitsForWhatWasAsked).                                                *)
THEOREM AlwaysWaitsForWhatWasAsked == PollSpec => []WaitsForWhatWasAsked
<1>1. ASSUME PollInv, NEW q \in Polls, q.at = "wait"
      PROVE  /\ DOMAIN q.poller.interest \subseteq DOMAIN q.asked \cup Orphans \cup q.poller.left
             /\ \A n \in DOMAIN q.asked \ (q.poller.stale \cup q.poller.left) :
                  n \in DOMAIN q.poller.interest /\ q.poller.interest[n] = q.asked[n]
  <2>1. PICK p, w : p = q.poller /\ w = q.asked
    BY Zenon
  <2>2. Waiting(p, OpenNow, Mapped, regular) /\ Serves(p, w, Mapped)
    BY <1>1, <2>1, ZenonT(60) DEF PollInv, Polls, Polled
  <2>3. /\ \A x \in DOMAIN p.FdDatas \ (p.stale \cup p.left) :
             x \in DOMAIN w /\ w[x] = p.FdDatas[x] /\ p.interest[x] = p.FdDatas[x]
        /\ DOMAIN w \ (p.stale \cup p.left) \subseteq DOMAIN p.FdDatas
    BY <1>1, <2>1, <2>2, ZenonT(60) DEF Serves
  <2>4. /\ DOMAIN p.interest \subseteq DOMAIN p.FdDatas \cup Orphans
        /\ DOMAIN p.FdDatas \subseteq DOMAIN p.interest \cup p.stale
        /\ p.stale \cap DOMAIN p.interest \subseteq Orphans
    BY <2>2, OrphansAre, ZenonT(60) DEF Waiting, Sound
  <2>5. DOMAIN p.interest \subseteq DOMAIN w \cup Orphans \cup p.left
    BY <2>3, <2>4, Zenon
  <2>6. \A n \in DOMAIN w \ (p.stale \cup p.left) : n \in DOMAIN p.interest /\ p.interest[n] = w[n]
    BY <2>3, <2>4, SMTT(60)
  <2> QED BY <2>1, <2>5, <2>6, Zenon
<1>2. PollInv => WaitsForWhatWasAsked
  BY <1>1, Zenon DEF WaitsForWhatWasAsked
<1> QED BY <1>2, PollInvariant, PTL
=============================================================================
