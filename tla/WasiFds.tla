------------------------------ MODULE WasiFds -------------------------------
(***************************************************************************)
(* The rights of WASI descriptors (include/host/wasi/environ.h, vinode.h,  *)
(* lib/host/wasi/vinode.cpp).  FdMap is behind a lock; a call takes the    *)
(* node out of it and works on the node without one, so the check and the  *)
(* two assignments of fd_fdstat_set_rights interleave with the other       *)
(* threads' and a descriptor may be closed or renumbered meanwhile.        *)
(* path_open gives rights out of the inheriting ones of the directory;     *)
(* sockets get fixed rights.                                               *)
(***************************************************************************)
EXTENDS Naturals, Sequences

CONSTANTS
    Guests,         \* threads of the guest
    Fds,            \* descriptor numbers
    Nodes,          \* bound on the nodes ever made
    Requests,       \* the rights asked for, sets of rights
    Preopened,      \* descriptor number |-> [base, inheriting] of init
    SocketRights,
    NoNode

Rights == {"open", "seek", "tell", "sync", "datasync", "stat", "read", "create"}

ASSUME RightsAssumption ==
    /\ NoNode \notin Nodes
    /\ Requests \subseteq SUBSET Rights
    /\ Preopened \in [Fds -> [base : SUBSET Rights, inheriting : SUBSET Rights]]
    /\ SocketRights \subseteq Rights

VARIABLES
    fdMap,          \* descriptor number |-> node or NoNode
    FsRightsBase, FsRightsInheriting,
    grantBase, grantInheriting,     \* history: a node's rights when it was made
    parent,         \* history: the directory it was opened in, or NoNode
    made,           \* the nodes made so far
    doing,          \* thread |-> the call it is in
    revokedBase, revokedInheriting
                    \* history: thread |-> what other threads took from the node of its
                    \* fd_fdstat_set_rights between its test and its assignment

fdsVars == <<fdMap, FsRightsBase, FsRightsInheriting, grantBase, grantInheriting,
             parent, made, doing, revokedBase, revokedInheriting>>
grants == <<grantBase, grantInheriting, parent, made>>
revoked == <<revokedBase, revokedInheriting>>

imply(R) ==
    R \cup (IF "seek" \in R THEN {"tell"} ELSE {})
      \cup (IF "sync" \in R THEN {"datasync"} ELSE {})

can(n, base, inheriting) ==
    /\ base \subseteq imply(FsRightsBase[n])
    /\ inheriting \subseteq imply(FsRightsInheriting[n])

Resting == [at |-> "none", node |-> NoNode, base |-> {}, inheriting |-> {}]

(* init: the node of a descriptor is named by its number. *)
FdsInit ==
    /\ fdMap = [a \in Fds |-> IF a \in Nodes THEN a ELSE NoNode]
    /\ made = Fds \cap Nodes
    /\ FsRightsBase = [n \in Nodes |-> IF n \in Fds THEN Preopened[n].base ELSE {}]
    /\ FsRightsInheriting =
         [n \in Nodes |-> IF n \in Fds THEN Preopened[n].inheriting ELSE {}]
    /\ grantBase = FsRightsBase /\ grantInheriting = FsRightsInheriting
    /\ parent = [n \in Nodes |-> NoNode]
    /\ doing = [t \in Guests |-> Resting]
    /\ revokedBase = [t \in Guests |-> {}] /\ revokedInheriting = [t \in Guests |-> {}]

(* getNodeOrNull, for the call at. *)
Take(t, a, at, base, inheriting) ==
    /\ doing[t].at = "none" /\ fdMap[a] # NoNode
    /\ doing' = [doing EXCEPT ![t] = [at |-> at, node |-> fdMap[a], base |-> base,
                                      inheriting |-> inheriting]]
    /\ UNCHANGED <<fdMap, FsRightsBase, FsRightsInheriting, grants, revoked>>

SetRights(t, a, base, inheriting) == Take(t, a, "setcheck", base, inheriting)

(* Mutant: base is not compared. *)
SetCheckInheritingOnly(t) ==
    /\ doing[t].at = "setcheck"
    /\ doing' = [doing EXCEPT ![t] =
         IF can(doing[t].node, {}, doing[t].inheriting)
           THEN [@ EXCEPT !.at = "setbase"] ELSE Resting]
    /\ UNCHANGED <<fdMap, FsRightsBase, FsRightsInheriting, grants, revoked>>

(* fdFdstatSetRights: the test, or NOTCAPABLE. *)
SetCheck(t) ==
    /\ doing[t].at = "setcheck"
    /\ doing' = [doing EXCEPT ![t] =
         IF can(doing[t].node, doing[t].base, doing[t].inheriting)
           THEN [@ EXCEPT !.at = "setbase"] ELSE Resting]
    /\ UNCHANGED <<fdMap, FsRightsBase, FsRightsInheriting, grants, revoked>>

(* History: t takes gone from its node, from under the calls at at. *)
Revoke(rev, t, at, gone) ==
    [u \in Guests |-> IF u = t THEN {}
                      ELSE IF doing[u].at \in at /\ doing[u].node = doing[t].node
                        THEN rev[u] \cup gone ELSE rev[u]]

SetBase(t) ==
    /\ doing[t].at = "setbase"
    /\ FsRightsBase' = [FsRightsBase EXCEPT ![doing[t].node] = doing[t].base]
    /\ revokedBase' = Revoke(revokedBase, t, {"setbase"},
                             imply(FsRightsBase[doing[t].node]) \ imply(doing[t].base))
    /\ doing' = [doing EXCEPT ![t].at = "setinheriting"]
    /\ UNCHANGED <<fdMap, FsRightsInheriting, grants, revokedInheriting>>

SetInheriting(t) ==
    /\ doing[t].at = "setinheriting"
    /\ FsRightsInheriting' = [FsRightsInheriting EXCEPT ![doing[t].node] = doing[t].inheriting]
    /\ revokedInheriting' =
         Revoke(revokedInheriting, t, {"setbase", "setinheriting"},
                imply(FsRightsInheriting[doing[t].node]) \ imply(doing[t].inheriting))
    /\ doing' = [doing EXCEPT ![t] = Resting]
    /\ UNCHANGED <<fdMap, FsRightsBase, grants, revokedBase>>

(* path_open of a directory has no FD_SEEK, of a file no PATH_FILESTAT_GET. *)
PathOpen(t, a, directory, base, inheriting) ==
    LET not == IF directory THEN {"seek"} ELSE {"stat"} IN
      Take(t, a, "opencheck", base \ not, IF directory THEN inheriting ELSE inheriting \ not)

(* VINode::pathOpen up to the test; CREAT and TRUNC need a right of the     *)
(* directory, RSYNC and DSYNC one it gives.                                 *)
OpenCheck(t, flags) ==
    /\ doing[t].at = "opencheck"
    /\ doing' = [doing EXCEPT ![t] =
         IF can(doing[t].node, {"open"} \cup flags.base,
                doing[t].base \cup doing[t].inheriting \cup flags.inheriting)
           THEN [@ EXCEPT !.at = "opened"] ELSE Resting]
    /\ UNCHANGED <<fdMap, FsRightsBase, FsRightsInheriting, grants, revoked>>

(* resolvePath or openat fails. *)
OpenFails(t) ==
    /\ doing[t].at = "opened"
    /\ doing' = [doing EXCEPT ![t] = Resting]
    /\ UNCHANGED <<fdMap, FsRightsBase, FsRightsInheriting, grants, revoked>>

(* A node of its own rights, and generateRandomFdToNode. *)
Make(n, a, base, inheriting, from) ==
    /\ n \notin made /\ fdMap[a] = NoNode
    /\ fdMap' = [fdMap EXCEPT ![a] = n]
    /\ made' = made \cup {n}
    /\ FsRightsBase' = [FsRightsBase EXCEPT ![n] = base]
    /\ FsRightsInheriting' = [FsRightsInheriting EXCEPT ![n] = inheriting]
    /\ grantBase' = [grantBase EXCEPT ![n] = base]
    /\ grantInheriting' = [grantInheriting EXCEPT ![n] = inheriting]
    /\ parent' = [parent EXCEPT ![n] = from]
    /\ UNCHANGED revoked

(* Mutant: the node gets the rights of the directory, as the nodes of a     *)
(* walk do.                                                                 *)
OpenedAsDirectory(t, n, a) ==
    /\ doing[t].at = "opened"
    /\ Make(n, a, FsRightsBase[doing[t].node], FsRightsInheriting[doing[t].node], doing[t].node)
    /\ doing' = [doing EXCEPT ![t] = Resting]

(* directOpen: the rights that were asked for. *)
Opened(t, n, a) ==
    /\ doing[t].at = "opened"
    /\ Make(n, a, doing[t].base, doing[t].inheriting, doing[t].node)
    /\ doing' = [doing EXCEPT ![t] = Resting]

(* sock_open and sock_accept. *)
Socket(t, n, a) ==
    /\ doing[t].at = "none"
    /\ Make(n, a, SocketRights, SocketRights, NoNode)
    /\ UNCHANGED doing

CloseFd(t, a) ==
    /\ doing[t].at = "none" /\ fdMap[a] # NoNode
    /\ fdMap' = [fdMap EXCEPT ![a] = NoNode]
    /\ UNCHANGED <<FsRightsBase, FsRightsInheriting, grants, doing, revoked>>

Renumber(t, a, b) ==
    /\ doing[t].at = "none" /\ a # b /\ fdMap[a] # NoNode /\ fdMap[b] # NoNode
    /\ fdMap' = [fdMap EXCEPT ![b] = fdMap[a], ![a] = NoNode]
    /\ UNCHANGED <<FsRightsBase, FsRightsInheriting, grants, doing, revoked>>

Flags == [base : {{}, {"create"}}, inheriting : {{}, {"sync"}, {"datasync"}}]

FdsNext ==
    \E t \in Guests :
      \/ \E a \in Fds, b, i \in Requests : SetRights(t, a, b, i)
      \/ SetCheck(t)
      \/ SetBase(t)
      \/ SetInheriting(t)
      \/ \E a \in Fds, d \in BOOLEAN, b, i \in Requests : PathOpen(t, a, d, b, i)
      \/ \E f \in Flags : OpenCheck(t, f)
      \/ OpenFails(t)
      \/ \E n \in Nodes, a \in Fds : Opened(t, n, a)
      \/ \E n \in Nodes, a \in Fds : Socket(t, n, a)
      \/ \E a \in Fds : CloseFd(t, a)
      \/ \E a, b \in Fds : Renumber(t, a, b)

FdsSpec == FdsInit /\ [][FdsNext]_fdsVars

-----------------------------------------------------------------------------
Calls == [at : {"none", "setcheck", "setbase", "setinheriting", "opencheck", "opened"},
          node : Nodes \cup {NoNode}, base : SUBSET Rights, inheriting : SUBSET Rights]

(* The type invariant. *)
FdsTypeOK ==
    /\ fdMap \in [Fds -> made \cup {NoNode}]
    /\ made \subseteq Nodes
    /\ FsRightsBase \in [Nodes -> SUBSET Rights]
    /\ FsRightsInheriting \in [Nodes -> SUBSET Rights]
    /\ grantBase \in [Nodes -> SUBSET Rights]
    /\ grantInheriting \in [Nodes -> SUBSET Rights]
    /\ parent \in [Nodes -> made \cup {NoNode}]
    /\ doing \in [Guests -> Calls]
    /\ revokedBase \in [Guests -> SUBSET Rights] /\ revokedInheriting \in [Guests -> SUBSET Rights]
    /\ \A t \in Guests : doing[t].node \in made \/ doing[t] = Resting

(* However the calls interleave, a node's rights stay within those it was    *)
(* made with, and those within what the directory it was opened in may pass  *)
(* on: no chain of path_open, fd_fdstat_set_rights, fd_renumber and fd_close *)
(* leads to a right the preopened directory does not give.                   *)
RightsWithinGrant ==
    \A n \in made :
      /\ imply(FsRightsBase[n]) \subseteq imply(grantBase[n])
      /\ imply(FsRightsInheriting[n]) \subseteq imply(grantInheriting[n])
      /\ parent[n] # NoNode =>
           grantBase[n] \cup grantInheriting[n] \subseteq imply(grantInheriting[parent[n]])

(* A call past its test assigns or gives rights the grant covers. *)
PendingWithinGrant ==
    \A t \in Guests :
      /\ doing[t].at \in {"setbase", "setinheriting"} =>
           /\ doing[t].base \subseteq imply(grantBase[doing[t].node])
           /\ doing[t].inheriting \subseteq imply(grantInheriting[doing[t].node])
      /\ doing[t].at = "opened" =>
           doing[t].base \cup doing[t].inheriting \subseteq imply(grantInheriting[doing[t].node])

(* What a call past its test is about to assign, the node can do still, or   *)
(* another thread took it away meanwhile.                                    *)
TestedFor ==
    \A t \in Guests :
      /\ doing[t].at = "setbase" =>
           imply(doing[t].base) \subseteq imply(FsRightsBase[doing[t].node]) \cup revokedBase[t]
      /\ doing[t].at \in {"setbase", "setinheriting"} =>
           imply(doing[t].inheriting)
             \subseteq imply(FsRightsInheriting[doing[t].node]) \cup revokedInheriting[t]

FdsInv == FdsTypeOK /\ RightsWithinGrant /\ PendingWithinGrant /\ TestedFor

(* What the assignments to n made in a step, by a call at at, may give back. *)
Restored(rev, n, at) ==
    UNION {rev[t] : t \in {u \in Guests : /\ doing[u].at = at /\ doing[u].node = n
                                          /\ doing'[u].at # at}}

Removes ==
    \A n \in made :
      /\ imply(FsRightsBase'[n])
           \subseteq imply(FsRightsBase[n]) \cup Restored(revokedBase, n, "setbase")
      /\ imply(FsRightsInheriting'[n])
           \subseteq imply(FsRightsInheriting[n])
                       \cup Restored(revokedInheriting, n, "setinheriting")

(* "This can only be used to remove rights": no step of any call adds to     *)
(* what a node can do, except that an assignment of fd_fdstat_set_rights     *)
(* gives back what other threads took from the node after this call's own    *)
(* test and before the assignment.  The comment promises that without the    *)
(* exception; the code, which has no lock there, gives rights back in just   *)
(* that window and never any others.                                         *)
OnlyRemoved == [][Removes]_fdsVars

=============================================================================
