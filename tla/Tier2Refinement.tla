-------------------------- MODULE Tier2Refinement ---------------------------
(* Tier2Manager implements TierUp: the state of a function and of a loop   *)
(* read off the sets, queues and tables of the manager.                    *)
EXTENDS Tier2Manager

(* The functions of call-count requests that may still be promoted. *)
Queued == {f \in Funcs : \E i \in DOMAIN Queue_ : f \in Queue_[i].batch}
Held   == IF IsOsr(req) THEN {}
          ELSE IF wpc \in {"install", "store"} THEN thunks ELSE req.batch

FuncState ==
  [f \in Funcs |-> IF FuncTable[f] = "tier2" THEN "tier2"
                   ELSE IF f \in Queued \cup Held THEN "requested"
                   ELSE IF f \in Seen_ THEN "abandoned" ELSE "cold"]

(* The loops of OSR requests that may still get their entry. *)
QueuedLoops == {p \in Loops : \E i \in DOMAIN OsrQueue_ : p = LoopOf(OsrQueue_[i])}
HeldLoops   == IF IsOsr(req) THEN {LoopOf(req)} ELSE {}

LoopState ==
  [p \in Loops |-> IF p \in QueuedLoops \cup HeldLoops THEN "requested"
                   ELSE IF p \in SeenOsr_ THEN "settled" ELSE "counting"]

Abstract == INSTANCE TierUp WITH func <- FuncState, loop <- LoopState

(* Every step of the threads, the worker and the closing thread is a step  *)
(* of the abstract life cycle or changes nothing of it: no function is     *)
(* compiled twice, retried after it was given up, or lost while queued.    *)
ImplementsTierUp == Abstract!Spec
=============================================================================
