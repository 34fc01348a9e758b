-------------------------------- MODULE Gas ---------------------------------
(***************************************************************************)
(* Gas metering (include/common/statistics.h) with cost measuring on.  The *)
(* interpreter charges each instruction before it runs it, in the          *)
(* compare-exchange loops of addCost and subCost; AOT-compiled code adds   *)
(* up the instructions of a block in LocalGas and charges it at blocks,    *)
(* loops, calls and returns (updateGas), or without a check when it traps  *)
(* (updateGasAtTrap).  Functions of the two kinds call each other, and all *)
(* threads of an executor share CostSum and CostLimit.  Sums are modulo    *)
(* W, the code's 2^64.  The two JIT tiers charge nothing and have no part. *)
(***************************************************************************)
EXTENDS Naturals, Sequences, FiniteSets

CONSTANTS
    Users,          \* threads that execute functions
    W,              \* modulus of the counters
    Limits,         \* the cost limits a host sets
    Cost,           \* [instr, if, else, end, host |-> cost], the cost table
    Kinds,          \* thread |-> kinds of the functions it executes
    MaxFrames,      \* thread |-> bound on the depth of its calls
    MaxIfs,         \* bound on the branches a function is in
    MaxBlock        \* bound on LocalGas between two charges

ASSUME GasAssumption ==
    /\ W \in Nat \ {0}
    /\ Limits \subseteq 0 .. W - 1 /\ Limits # {}
    /\ Cost \in [{"instr", "if", "else", "end", "host"} -> 0 .. W - 1]
    /\ Kinds \in [Users -> SUBSET {"interp", "compiled"}]
    /\ MaxFrames \in [Users -> Nat]

VARIABLES
    CostSum, CostLimit,
    frames,         \* thread |-> its calls, innermost last
    op,             \* thread |-> the charge or step it is in, "none" between instructions
    old, lim,       \* thread |-> OldCostSum (W before the load) and the limit it compares with
    owed,           \* history: cost of what was run, less what a jump out of compiled
                    \* code dropped of the innermost function
    highest,        \* history: highest limit in force
    trapped,        \* history: a compiled function trapped
    wrapped,        \* history: a sum passed W
    cleared         \* history: the sum was cleared while a thread was in a
                    \* branch, and some thread has been in one since

gasVars == <<CostSum, CostLimit, frames, op, old, lim, owed, highest, trapped, wrapped, cleared>>

Interpreted == [kind |-> "interp", ifs |-> 0, LocalGas |-> 0, GasLimit |-> 0]
Compiled(l) == [kind |-> "compiled", ifs |-> 0, LocalGas |-> 0, GasLimit |-> l]
Function(t) == frames[t][Len(frames[t])]
Below(t) == SubSeq(frames[t], 1, Len(frames[t]) - 1)
Runs(t, kind) == frames[t] # <<>> /\ op[t] = "none" /\ Function(t).kind = kind

GasInit ==
    /\ CostSum = 0
    /\ CostLimit \in Limits
    /\ frames = [t \in Users |-> <<>>]
    /\ op = [t \in Users |-> "none"]
    /\ old = [t \in Users |-> W]
    /\ lim = [t \in Users |-> 0]
    /\ owed = 0
    /\ highest = CostLimit
    /\ trapped = FALSE
    /\ wrapped = FALSE
    /\ cleared = FALSE

(* Where compiled code charges LocalGas, and all that addCost and updateGas add. *)
Flushes == {"block", "jump", "return"}
Adds == {"instr", "if", "skip", "else", "end", "host"} \cup Flushes

(* What the charge t is in costs. *)
Amount(t) ==
    CASE op[t] = "instr" -> Cost["instr"]
      [] op[t] = "if" -> Cost["if"]
      [] op[t] \in {"skip", "else", "refund"} -> Cost["else"]
      [] op[t] = "end" -> Cost["end"]
      [] op[t] = "host" -> Cost["host"]
      [] op[t] \in Flushes -> Function(t).LocalGas

(* addCost and updateGas up to the loop: they read the limit and the sum. *)
Begin(t, o, l) ==
    /\ op' = [op EXCEPT ![t] = o]
    /\ old' = [old EXCEPT ![t] = CostSum]
    /\ lim' = [lim EXCEPT ![t] = l]

Goto(t, o) ==
    /\ op' = [op EXCEPT ![t] = o]
    /\ old' = [old EXCEPT ![t] = W]
    /\ lim' = [lim EXCEPT ![t] = 0]

(* The host sets the limit, at any time. *)
setCostLimit(l) ==
    /\ CostLimit' = l
    /\ highest' = IF l > highest THEN l ELSE highest
    /\ UNCHANGED <<CostSum, frames, op, old, lim, owed, trapped, wrapped, cleared>>

(* A thread is in a branch that has an Else after it. *)
InBranch(fr) == \E i \in 1 .. Len(fr) : fr[i].ifs > 0
Branching == \E t \in Users : InBranch(frames[t])

(* Statistics::clear, of VM::cleanup or of the host at any time: it takes  *)
(* no lock.  What was charged is no longer owed, what compiled code has    *)
(* not charged yet still is.                                               *)
clear ==
    /\ CostSum' = 0 /\ owed' = (owed + W - CostSum) % W
    /\ trapped' = FALSE /\ wrapped' = FALSE /\ cleared' = Branching
    /\ UNCHANGED <<CostLimit, frames, op, old, lim, highest>>

(* The limit a function entered now compares with: SavedThreadLocal copies *)
(* CostLimit, a direct call between compiled functions keeps the copy.     *)
EntryLimits(t) ==
    {CostLimit} \cup (IF frames[t] # <<>> /\ Function(t).kind = "compiled"
                      THEN {Function(t).GasLimit} ELSE {})

(* enterFunction: of the function invoked, or of a callee once the call is *)
(* charged.                                                                *)
enterFunction(t) ==
    /\ op[t] = "enter" \/ frames[t] = <<>>
    /\ \/ /\ Len(frames[t]) < MaxFrames[t]
          /\ \E f \in {Interpreted} \cup {Compiled(l) : l \in EntryLimits(t)} :
               f.kind \in Kinds[t] /\ frames' = [frames EXCEPT ![t] = Append(@, f)]
          /\ Goto(t, "none")
       \/ /\ frames[t] # <<>>
          /\ Goto(t, "host")
          /\ UNCHANGED frames
    /\ UNCHANGED <<CostSum, CostLimit, owed, highest, trapped, wrapped>>

(* Mutant: an If that enters its branch is not charged. *)
InstructionFreeIf(t, o) ==
    /\ Runs(t, "interp")
    /\ o = "else" => Function(t).ifs > 0
    /\ o = "if" => Function(t).ifs < MaxIfs
    /\ IF o = "if"
         THEN /\ frames' = [frames EXCEPT ![t][Len(frames[t])].ifs = @ + 1]
              /\ UNCHANGED <<op, old, lim>>
         ELSE Begin(t, o, CostLimit) /\ UNCHANGED frames
    /\ UNCHANGED <<CostSum, CostLimit, owed, highest, trapped, wrapped>>

(* The interpreter is at its next instruction, an Else only at the end of  *)
(* a branch it took.                                                       *)
Instruction(t, o) ==
    /\ Runs(t, "interp")
    /\ o = "else" => Function(t).ifs > 0
    /\ o = "if" => Function(t).ifs < MaxIfs
    /\ Begin(t, o, CostLimit)
    /\ UNCHANGED <<CostSum, CostLimit, frames, owed, highest, trapped, wrapped>>

(* The next of several charges of an instruction. *)
Load(t) ==
    /\ op[t] \in {"skip", "refund", "end", "host"} /\ old[t] = W
    /\ Begin(t, op[t], CostLimit)
    /\ UNCHANGED <<CostSum, CostLimit, frames, owed, highest, trapped, wrapped>>

Exceeds(t) == (old[t] + Amount(t)) % W > lim[t]

(* compare_exchange_weak fails, perhaps for no reason. *)
Retry(t) ==
    /\ old[t] # W
    /\ op[t] \in Adds => ~Exceeds(t)
    /\ op[t] = "refund" => old[t] > Amount(t)
    /\ old' = [old EXCEPT ![t] = CostSum]
    /\ UNCHANGED <<CostSum, CostLimit, frames, op, lim, owed, highest, trapped, wrapped>>

(* What t does once its charge is paid: an instruction may be a call.  An  *)
(* If enters the branch that has an Else after it, pays for the Else it    *)
(* skips to, or has no Else.                                               *)
Continue(t) ==
    \/ op[t] \in {"instr", "skip", "host"} /\ Goto(t, "none") /\ UNCHANGED frames
    \/ op[t] = "instr" /\ Goto(t, "enter") /\ UNCHANGED frames
    \/ op[t] = "if" /\ \/ Goto(t, "skip") /\ UNCHANGED frames
                       \/ Goto(t, "none") /\ UNCHANGED frames
                       \/ /\ Goto(t, "none")
                          /\ frames' = [frames EXCEPT ![t][Len(frames[t])].ifs = @ + 1]
    \/ op[t] = "else" /\ Goto(t, "refund") /\ UNCHANGED frames
    \/ op[t] = "end" /\ Goto(t, "none")
         /\ frames' = [frames EXCEPT ![t][Len(frames[t])].ifs = @ - 1]
    \/ op[t] = "block" /\ Goto(t, "none")
         /\ frames' = [frames EXCEPT ![t][Len(frames[t])].LocalGas = 0]
    \/ op[t] = "jump" /\ Goto(t, "enter")
         /\ frames' = [frames EXCEPT ![t][Len(frames[t])].LocalGas = 0]
    \/ op[t] = "return" /\ Goto(t, "none") /\ frames' = [frames EXCEPT ![t] = Below(t)]

(* Mutant: a store in place of the exchange. *)
PayStores(t) ==
    /\ op[t] \in Adds /\ old[t] # W /\ ~Exceeds(t)
    /\ CostSum' = (old[t] + Amount(t)) % W
    /\ wrapped' = (wrapped \/ old[t] + Amount(t) >= W)
    /\ owed' = IF op[t] \in Flushes THEN owed ELSE (owed + Amount(t)) % W
    /\ Continue(t)
    /\ UNCHANGED <<CostLimit, highest, trapped>>

(* Mutant: the sum that a failed exchange loaded is not compared again. *)
PayUnchecked(t) ==
    /\ op[t] \in Adds /\ old[t] = CostSum
    /\ CostSum' = (old[t] + Amount(t)) % W
    /\ wrapped' = (wrapped \/ old[t] + Amount(t) >= W)
    /\ owed' = IF op[t] \in Flushes THEN owed ELSE (owed + Amount(t)) % W
    /\ Continue(t)
    /\ UNCHANGED <<CostLimit, highest, trapped>>

(* The exchange of addCost or updateGas succeeds. *)
Pay(t) ==
    /\ op[t] \in Adds /\ old[t] = CostSum /\ ~Exceeds(t)
    /\ CostSum' = (old[t] + Amount(t)) % W
    /\ wrapped' = (wrapped \/ old[t] + Amount(t) >= W)
    /\ owed' = IF op[t] \in Flushes THEN owed ELSE (owed + Amount(t)) % W
    /\ Continue(t)
    /\ UNCHANGED <<CostLimit, highest, trapped>>

(* subCost gives the cost of the Else back, and the End is charged. *)
Refund(t) ==
    /\ op[t] = "refund" /\ old[t] = CostSum /\ old[t] > Amount(t)
    /\ CostSum' = old[t] - Amount(t)
    /\ owed' = (owed + W - Amount(t)) % W
    /\ Goto(t, "end")
    /\ UNCHANGED <<CostLimit, frames, highest, trapped, wrapped>>

(* CostLimitExceeded of the interpreter ends the execution. *)
Stop(t) ==
    /\ old[t] # W
    /\ \/ op[t] \in Adds \ Flushes /\ Exceeds(t)
       \/ op[t] = "refund" /\ old[t] <= Amount(t)
    /\ frames' = [frames EXCEPT ![t] = <<>>]
    /\ Goto(t, "none")
    /\ UNCHANGED <<CostSum, CostLimit, owed, highest, trapped, wrapped>>

returnInterp(t) ==
    /\ Runs(t, "interp")
    /\ frames' = [frames EXCEPT ![t] = Below(t)]
    /\ UNCHANGED <<CostSum, CostLimit, op, old, lim, owed, highest, trapped, wrapped>>

(* Compiled code runs an instruction. *)
Execute(t) ==
    /\ Runs(t, "compiled") /\ Function(t).LocalGas < MaxBlock
    /\ frames' = [frames EXCEPT ![t][Len(frames[t])].LocalGas = (@ + Cost["instr"]) % W]
    /\ wrapped' = (wrapped \/ Function(t).LocalGas + Cost["instr"] >= W)
    /\ owed' = (owed + Cost["instr"]) % W
    /\ UNCHANGED <<CostSum, CostLimit, op, old, lim, highest, trapped>>

(* Mutant: a call does not charge what was run before it. *)
ChargeNotAtCalls(t, why) ==
    /\ Runs(t, "compiled")
    /\ IF why = "jump" THEN Goto(t, "enter") ELSE Begin(t, why, Function(t).GasLimit)
    /\ UNCHANGED <<CostSum, CostLimit, frames, owed, highest, trapped, wrapped>>

(* It comes to a block or loop, a call or a return: updateGas. *)
Charge(t, why) ==
    /\ Runs(t, "compiled")
    /\ Begin(t, why, Function(t).GasLimit)
    /\ UNCHANGED <<CostSum, CostLimit, frames, owed, highest, trapped, wrapped>>

(* It traps, over the limit or for another reason. *)
Trap(t) ==
    /\ \/ Runs(t, "compiled")
       \/ op[t] \in Flushes /\ old[t] # W /\ Exceeds(t)
    /\ Goto(t, "trap")
    /\ UNCHANGED <<CostSum, CostLimit, frames, owed, highest, trapped, wrapped>>

(* The trap block: updateGasAtTrap, and the execution ends. *)
updateGasAtTrap(t) ==
    /\ op[t] = "trap"
    /\ CostSum' = (CostSum + Function(t).LocalGas) % W
    /\ wrapped' = (wrapped \/ CostSum + Function(t).LocalGas >= W)
    /\ trapped' = TRUE
    /\ frames' = [frames EXCEPT ![t] = <<>>]
    /\ Goto(t, "none")
    /\ UNCHANGED <<CostLimit, owed, highest>>

(* A signal, or emitFault of an intrinsic, jumps past the trap block. *)
JumpOut(t) ==
    /\ Runs(t, "compiled")
    /\ owed' = (owed + W - Function(t).LocalGas) % W
    /\ frames' = [frames EXCEPT ![t] = <<>>]
    /\ UNCHANGED <<CostSum, CostLimit, op, old, lim, highest, trapped, wrapped>>

GasStep(t) ==
    \/ enterFunction(t)
    \/ \E o \in {"instr", "if", "else"} : Instruction(t, o)
    \/ Load(t)
    \/ Retry(t)
    \/ Pay(t)
    \/ Refund(t)
    \/ Stop(t)
    \/ returnInterp(t)
    \/ Execute(t)
    \/ \E why \in Flushes : Charge(t, why)
    \/ Trap(t)
    \/ updateGasAtTrap(t)
    \/ JumpOut(t)

GasNext ==
    \/ \E l \in Limits : setCostLimit(l)
    \/ clear
    \/ \E t \in Users : GasStep(t) /\ cleared' = (cleared /\ Branching')

GasSpec == GasInit /\ [][GasNext]_gasVars

-----------------------------------------------------------------------------

Frames == [kind : {"interp", "compiled"}, ifs : Nat, LocalGas : 0 .. W - 1,
           GasLimit : {0} \cup Limits]
Ops == Adds \cup {"none", "refund", "enter", "trap"}

(* The type invariant. *)
GasTypeOK ==
    /\ CostSum \in 0 .. W - 1
    /\ CostLimit \in Limits
    /\ frames \in [Users -> Seq(Frames)]
    /\ op \in [Users -> Ops]
    /\ old \in [Users -> 0 .. W]
    /\ lim \in [Users -> {0} \cup Limits]
    /\ owed \in 0 .. W - 1
    /\ highest \in Limits
    /\ trapped \in BOOLEAN
    /\ wrapped \in BOOLEAN

(* LocalGas of all compiled functions of all threads, unit by unit. *)
Units(calls) ==
    UNION {UNION {{<<t, i, k>> : k \in 1 .. calls[t][i].LocalGas} : i \in 1 .. Len(calls[t])}
           : t \in Users}
Uncharged == Cardinality(Units(frames))

(***************************************************************************)
(* The gas counted is that of what was run since the last clear: concurrent charges of addCost,  *)
(* subCost and updateGas lose nothing and count nothing twice, and when a   *)
(* compiled function is left by a jump, from however deep a call, only what *)
(* the innermost function ran since its last charge is dropped.             *)
(***************************************************************************)
GasAccounted ==
    (CostSum + Uncharged) % W = owed

(***************************************************************************)
(* The sum stays within the highest limit that was in force, whatever the   *)
(* threads race for and the host sets or clears meanwhile, until a compiled *)
(* function traps and adds its gas without a check.                         *)
(***************************************************************************)
LimitRespected ==
    trapped \/ CostSum <= highest

(***************************************************************************)
(* subCost has an Else to give back, so a program is not stopped for its    *)
(* limit at the end of a branch: the If before it was paid, which is not    *)
(* free, and no other thread's refund takes that away.  It does refuse      *)
(* after a sum passed W, and after the host cleared the statistics while a  *)
(* thread was in a branch, until all threads have left their branches: a    *)
(* refund of what was charged before the clear is taken from what others    *)
(* have paid since.                                                         *)
(***************************************************************************)
RefundCovered ==
    \A t \in Users : op[t] = "refund" /\ ~wrapped /\ ~cleared => CostSum > Cost["else"]

-----------------------------------------------------------------------------
(* The inductive invariant.  Of a thread only the innermost function has    *)
(* LocalGas, and none while it makes a call: what a function ran is charged *)
(* before the next one is entered.                                          *)
LastOf(fr) == fr[Len(fr)]
Pending(fr) == IF fr = <<>> THEN 0 ELSE LastOf(fr).LocalGas

Settled(fr, high) ==
    /\ fr \in Seq(Frames)
    /\ \A i \in 1 .. Len(fr) :
         /\ fr[i].GasLimit <= high
         /\ i # Len(fr) \/ fr[i].kind = "interp" => fr[i].LocalGas = 0

(* What t is doing fits the function it is in, and the limit it compares    *)
(* with was in force.                                                       *)
Doing(fr, o, l, high) ==
    /\ o # "none" => fr # <<>> /\ l <= high
    /\ o \in Flushes \cup {"trap"} => LastOf(fr).kind = "compiled"
    /\ o \in {"instr", "if", "skip", "else", "end", "refund"} => LastOf(fr).kind = "interp"
    /\ o \in {"enter", "host"} => LastOf(fr).LocalGas = 0
    /\ o \in {"else", "refund", "end"} => LastOf(fr).ifs > 0

GasInv ==
    /\ GasTypeOK
    /\ CostLimit <= highest
    /\ \A t \in Users : Settled(frames[t], highest) /\ Doing(frames[t], op[t], lim[t], highest)
    /\ IsFiniteSet(Units(frames))
    /\ GasAccounted
    /\ LimitRespected

(* The sum covers the Else of every thread about to be paid back, and an    *)
(* If when a thread is in a branch.                                         *)
Refunding == {t \in Users : op[t] = "refund"}
Covered ==
    Cardinality(Refunding) * Cost["else"]
      + (IF Branching THEN Cost["if"] ELSE 0) <= CostSum

RefundInv ==
    /\ cleared \in BOOLEAN
    /\ IsFiniteSet(Refunding)
    /\ wrapped \/ cleared \/ Covered
=============================================================================
