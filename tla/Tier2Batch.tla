----------------------------- MODULE Tier2Batch -----------------------------
(***************************************************************************)
(* How Tier2Manager chooses the functions that one tier-up request         *)
(* recompiles together (lib/vm/tier2_manager.cpp).  The call graph of the  *)
(* module is a constant: Calls[f][c] is the number of direct `call c`      *)
(* instructions in the body of f.  Batches are sets: the code keeps them   *)
(* as vectors whose order depends on the iteration order of an             *)
(* unordered_map, so every order, and with a full batch every choice of    *)
(* the members that still fit, is a possible outcome.                      *)
(***************************************************************************)
EXTENDS Integers, FiniteSets

CONSTANTS
  Funcs,          \* function indices of the module, imports included
  Imports,        \* those below ImportFuncNum
  Unsupported,    \* defined functions isPromotable rejects (trap stubs,
                  \* multi-value results, non-scalar parameters or results)
  Calls,          \* static call frequencies
  MaxBatchSize,   \* MaxBatchSize_ (12 in the code)
  StaticFreqHot,  \* StaticFreqHot_ (2 in the code)
  Saturated       \* UINT32_MAX, the counter of an already notified function

ASSUME BatchAssumption ==
  /\ Funcs \subseteq Nat
  /\ Imports \subseteq Funcs
  /\ Unsupported \subseteq Funcs
  /\ Calls \in [Funcs -> [Funcs -> Nat]]
  /\ MaxBatchSize \in Nat /\ MaxBatchSize >= 2
  /\ StaticFreqHot \in Nat
  /\ Saturated \in Nat \ {0}

(* isPromotable *)
Promotable == (Funcs \ Imports) \ Unsupported

(* getOrBuildCGLocked: forward and reverse edges of the call graph. *)
Callees(f) == {c \in Funcs : Calls[f][c] > 0}
Callers(f) == {c \in Funcs \ Imports : Calls[c][f] > 0}

(***************************************************************************)
(* walkUpRootLocked with WalkupMaxDepth_ = 1: the caller of the hot        *)
(* function with the highest counter among those that are promotable, not  *)
(* Seen_ and not saturated; the lowest index wins a tie, because Callers   *)
(* is filled in index order and only a larger count replaces the best.     *)
(* The result is the set with that one function.                           *)
(***************************************************************************)
EligibleCallers(hot, seen, counter) ==
  {c \in (Callers(hot) \cap Promotable) \ ({hot} \cup seen) :
     counter[c] # Saturated}

WalkUpRoots(hot, seen, counter) ==
  LET eligible == EligibleCallers(hot, seen, counter)
      hottest  == {c \in eligible : \A d \in eligible : counter[d] <= counter[c]}
  IN  IF eligible = {} THEN {hot}
      ELSE {c \in hottest : \A d \in hottest : c <= d}

(* Mutant: TryAdd forgets the Seen_ filter. *)
AddableSeenToo(skip) == Promotable

(***************************************************************************)
(* bfsDownBatchLocked with BfsMaxDepth_ = 1.  Root and the hot function    *)
(* are added first, then the warm callees of Root, then those of the hot   *)
(* function, until the batch is full.  `skip` is the Seen_ filter: empty   *)
(* for OSR requests (SkipSeen), Seen_ otherwise.                           *)
(***************************************************************************)
Addable(skip) == Promotable \ skip

WarmCallees(f, skip, counter) ==
  {c \in Callees(f) \cap Addable(skip) :
     counter[c] # 0 \/ Calls[f][c] >= StaticFreqHot}

(* The sets that filling `batch` from `more` up to the cap can produce. *)
FillUpTo(batch, more) ==
  {batch \cup part : part \in
     {p \in SUBSET (more \ batch) :
        \/ p = more \ batch /\ Cardinality(batch \cup p) <= MaxBatchSize
        \/ Cardinality(batch \cup p) = MaxBatchSize}}

(* Mutant: the frontier is seeded with the root only. *)
BfsDownRootOnly(root, hot, skip, counter) ==
  FillUpTo({root} \cap Addable(skip), WarmCallees(root, skip, counter))

BfsDownBatches(root, hot, skip, counter) ==
  LET seed     == {root, hot} \cap Addable(skip)
      fromRoot == FillUpTo(seed, IF root \in seed
                                 THEN WarmCallees(root, skip, counter) ELSE {})
  IN  UNION {FillUpTo(b, IF hot \in seed
                         THEN WarmCallees(hot, skip, counter) ELSE {})
               : b \in fromRoot}
=============================================================================
