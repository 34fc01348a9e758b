----------------------------- MODULE MemoryGrow -----------------------------
(***************************************************************************)
(* A linear memory that threads share (include/runtime/instance/memory.h,  *)
(* lib/system/allocator.cpp) and memory.grow, which the interpreter, the   *)
(* compiled code and the JIT do alike: read the size for the answer, read  *)
(* it again, test the limits, map the new pages and set the size, with no  *)
(* lock.  The interpreter tests an access against the size; compiled code  *)
(* tests nothing and relies on the pages beyond not being mapped.          *)
(***************************************************************************)
EXTENDS Integers

CONSTANTS
    Growers,        \* threads that grow the memory
    Counts,         \* page counts they ask for
    MinPages,       \* the limits of the memory type; MaxPages = NoMax: none
    MaxPages,
    NoMax,
    PageLimit,      \* of the configuration
    AllPages        \* k4G / kPageSize

ASSUME MemoryAssumption ==
    /\ Counts \subseteq Nat
    /\ MinPages \in Nat /\ PageLimit \in Nat /\ AllPages \in Nat
    /\ MinPages <= AllPages
    /\ NoMax \notin Nat
    /\ MaxPages \in Nat \cup {NoMax}
    /\ MaxPages # NoMax => MinPages <= MaxPages

VARIABLES
    reserved,       \* DataPtr is not null
    memPages,       \* MemType.getLimit().getMin()
    mapping,        \* page |-> "none" (not mapped), "zero" or "data"
    growing,        \* thread |-> where its growth is
    handed,         \* history: page |-> times it was handed out, up to 2
    overlapped      \* history: a growth began while another was under way

memVars == <<reserved, memPages, mapping, growing, handed, overlapped>>

Pages == 0 .. AllPages - 1
AtRest == [at |-> "rest", old |-> 0, min |-> 0, count |-> 0]

(* The constructor: the size is cut to the configured limit, and is 0 when *)
(* no address range is found.                                              *)
MemInit ==
    /\ reserved \in BOOLEAN
    /\ memPages = IF ~reserved THEN 0 ELSE IF MinPages > PageLimit THEN PageLimit ELSE MinPages
    /\ mapping = [p \in Pages |-> IF p < memPages THEN "zero" ELSE "none"]
    /\ growing = [t \in Growers |-> AtRest]
    /\ handed = [p \in Pages |-> IF p < memPages THEN 1 ELSE 0]
    /\ overlapped = FALSE

(* The page count for the answer. *)
MemoryGrow(t) ==
    /\ growing[t].at = "rest"
    /\ \E n \in Counts :
         growing' = [growing EXCEPT ![t] = [AtRest EXCEPT !.at = "asked", !.old = memPages,
                                                          !.count = n]]
    /\ overlapped' = (overlapped \/ \E u \in Growers : growing[u].at # "rest")
    /\ UNCHANGED <<reserved, memPages, mapping, handed>>

WithinLimits(total) ==
    /\ total <= AllPages
    /\ MaxPages # NoMax => total <= MaxPages
    /\ total <= PageLimit

(* growPage up to resize.  No pages are wanted, or too many: nothing changes. *)
CheckGrow(t) ==
    /\ growing[t].at = "asked"
    /\ growing' =
         [growing EXCEPT ![t] =
            IF growing[t].count # 0 /\ WithinLimits(memPages + growing[t].count)
            THEN [at |-> "checked", old |-> growing[t].old, min |-> memPages,
                  count |-> growing[t].count]
            ELSE AtRest]
    /\ UNCHANGED <<reserved, memPages, mapping, handed, overlapped>>

(* Mutated form: the range begins a page too early. *)
NewAndLast(t) == growing[t].min - 1 .. growing[t].min + growing[t].count - 1

New(t) == growing[t].min .. growing[t].min + growing[t].count - 1

(* Allocator::resize: fresh pages take the place of what the range held. *)
ResizePages(t) ==
    /\ growing[t].at = "checked"
    /\ reserved
    /\ mapping' = [p \in Pages |-> IF p \in New(t) THEN "zero" ELSE mapping[p]]
    /\ growing' = [growing EXCEPT ![t].at = "mapped"]
    /\ UNCHANGED <<reserved, memPages, handed, overlapped>>

(* A mutated form: the null pointer of resize is not tested. *)
ResizeUntested(t) ==
    /\ growing[t].at = "checked"
    /\ memPages' = growing[t].min + growing[t].count
    /\ growing' = [growing EXCEPT ![t] = AtRest]
    /\ UNCHANGED <<reserved, mapping, handed, overlapped>>

ResizeFails(t) ==
    /\ growing[t].at = "checked"
    /\ growing' = [growing EXCEPT ![t] = AtRest]
    /\ UNCHANGED <<reserved, memPages, mapping, handed, overlapped>>

(* A mutated form: the size is read for the answer when it has grown. *)
AnswerNewSize(t) == growing[t].min + growing[t].count

(* The size read first is the first page of the caller's. *)
Answer(t) == growing[t].old

SetPages(t) ==
    /\ growing[t].at = "mapped"
    /\ memPages' = growing[t].min + growing[t].count
    /\ handed' = [p \in Pages |->
                    IF p \in Answer(t) .. Answer(t) + growing[t].count - 1 /\ handed[p] < 2
                    THEN handed[p] + 1 ELSE handed[p]]
    /\ growing' = [growing EXCEPT ![t] = AtRest]
    /\ UNCHANGED <<reserved, mapping, overlapped>>

checkAccessBound(p) == p < memPages

(* A store reaches its page when the page is mapped and, interpreted, when *)
(* it is within the size; otherwise it traps.                              *)
Store(p, engine) ==
    /\ engine = "interpreter" => checkAccessBound(p)
    /\ mapping[p] # "none"
    /\ mapping' = [mapping EXCEPT ![p] = "data"]
    /\ UNCHANGED <<reserved, memPages, growing, handed, overlapped>>

MemNext ==
    \/ \E t \in Growers :
         MemoryGrow(t) \/ CheckGrow(t) \/ ResizePages(t) \/ ResizeFails(t) \/ SetPages(t)
    \/ \E p \in Pages, engine \in {"interpreter", "compiled"} : Store(p, engine)

MemSpec == MemInit /\ [][MemNext]_memVars

-----------------------------------------------------------------------------
(* Every page within the size is mapped, even when growths race and the    *)
(* size goes back: an access that passes checkAccessBound does not fault.  *)
MappedCoversSize == \A p \in Pages : checkAccessBound(p) => mapping[p] # "none"

(* While growths came one after the other and none has mapped pages it has *)
(* not yet counted, exactly the pages within the size are mapped: the      *)
(* interpreter's test and the compiled code's faults trap the same         *)
(* accesses.  A failed or refused growth leaves it so.                     *)
BoundsAgree ==
    (~overlapped /\ \A t \in Growers : growing[t].at # "mapped")
    => \A p \in Pages : mapping[p] # "none" <=> checkAccessBound(p)

(* What the size counts is mapped in every state, and nothing else is      *)
(* unless growths overlap or one is under way.                             *)
MappedAsCounted == MappedCoversSize /\ BoundsAgree

(* While growths came one after the other, no page was handed out twice,   *)
(* and none beyond the size: two allocators that grow the memory never get *)
(* the same page.                                                          *)
PagesHandedOnce ==
    ~overlapped => \A p \in Pages : handed[p] = IF checkAccessBound(p) THEN 1 ELSE 0

(* While growths came one after the other, no step makes the memory        *)
(* smaller or empties a page that holds data, whatever is stored between   *)
(* the steps of a growth.                                                  *)
GrowthKeeps ==
    [][~overlapped' =>
         /\ memPages' >= memPages
         /\ \A p \in Pages : mapping[p] = "data" => mapping'[p] = "data"]_memVars

-----------------------------------------------------------------------------
(* The inductive invariant. *)

MemTypeOK ==
    /\ reserved \in BOOLEAN
    /\ memPages \in Nat
    /\ mapping \in [Pages -> {"none", "zero", "data"}]
    /\ growing \in [Growers -> [at : {"rest", "asked", "checked", "mapped"},
                               old : Nat, min : Nat, count : Nat]]
    /\ handed \in [Pages -> 0 .. 2]
    /\ overlapped \in BOOLEAN

(* What a thread will make the size is mapped once it has mapped it. *)
MappedBeforeCounted ==
    \A t \in Growers, p \in Pages :
        /\ growing[t].at \in {"checked", "mapped"} /\ p < growing[t].min => mapping[p] # "none"
        /\ growing[t].at = "mapped" /\ p < growing[t].min + growing[t].count
             => mapping[p] # "none"

(* Without overlap one thread grows at a time and what it read is current. *)
OneAtATime ==
    ~overlapped =>
        /\ \A t, u \in Growers : growing[t].at # "rest" /\ growing[u].at # "rest" => t = u
        /\ \A t \in Growers : growing[t].at # "rest" => growing[t].old = memPages
        /\ \A t \in Growers :
             growing[t].at \in {"checked", "mapped"} => growing[t].min = memPages

(* Without overlap what is mapped is counted, or is what a growth that has  *)
(* mapped its pages will count.                                             *)
MappedIsCounted ==
    ~overlapped =>
        \A p \in Pages :
            mapping[p] # "none" =>
                \/ p < memPages
                \/ \E t \in Growers :
                     growing[t].at = "mapped" /\ p < growing[t].min + growing[t].count

MemInv ==
    /\ MemTypeOK
    /\ MappedCoversSize
    /\ MappedBeforeCounted
    /\ OneAtATime
    /\ MappedIsCounted
    /\ PagesHandedOnce
=============================================================================
