------------------------------- MODULE TierUp -------------------------------
(***************************************************************************)
(* What the tier-2 manager promises, without threads, queues or locks:     *)
(* the life of a function and of a loop of one module instance.  A         *)
(* function leaves "cold" once, as part of a batch, and ends "tier2" or    *)
(* "abandoned"; nothing is compiled twice, nothing is de-tiered and        *)
(* nothing that was given up is tried again.                               *)
(***************************************************************************)
CONSTANTS Funcs, Loops, Promotable

VARIABLES func, loop

vars == <<func, loop>>

Init ==
  /\ func = [f \in Funcs |-> "cold"]
  /\ loop = [p \in Loops |-> "counting"]

(* The functions of S go from one state to another; the others stay. *)
Move(S, from, to) ==
  /\ \A f \in S : func[f] = from
  /\ func' = [f \in Funcs |-> IF f \in S THEN to ELSE func[f]]
  /\ UNCHANGED loop

MoveLoop(p, from, to) ==
  /\ loop[p] = from
  /\ loop' = [q \in Loops |-> IF q = p THEN to ELSE loop[q]]
  /\ UNCHANGED func

Request(S) == S \subseteq Promotable /\ Move(S, "cold", "requested")
Reject(f)  == f \notin Promotable /\ Move({f}, "cold", "abandoned")
Promote(f) == Move({f}, "requested", "tier2")
Abandon(S) == Move(S, "requested", "abandoned")

RequestLoop(p) == p[1] \in Promotable /\ MoveLoop(p, "counting", "requested")
RejectLoop(p)  == p[1] \notin Promotable /\ MoveLoop(p, "counting", "settled")
SettleLoop(p)  == MoveLoop(p, "requested", "settled")

Next ==
  \/ \E S \in SUBSET Funcs : Request(S) \/ Abandon(S)
  \/ \E f \in Funcs : Reject(f) \/ Promote(f)
  \/ \E p \in Loops : RequestLoop(p) \/ RejectLoop(p) \/ SettleLoop(p)

Spec == Init /\ [][Next]_vars
=============================================================================
