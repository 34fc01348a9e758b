------------------------------- MODULE MCHost --------------------------------
(***************************************************************************)
(* Instances of VMStore, WasiPath, WasiFds, WasiPoll and MemoryGrow: the   *)
(* objects a host keeps for its modules.  A behaviour is one of a single   *)
(* component, the others rest.                                             *)
(***************************************************************************)
EXTENDS MCVMStore, WasiPath, WasiFds, WasiPoll, MemoryGrow

(* A tree with links to a directory, through a link, up and down again, out *)
(* of the base, to themselves and to an absolute path, and a directory that *)
(* may not be searched.                                                     *)
P(ps, s) == [abs |-> FALSE, parts |-> ps, slash |-> s]
MCSubdirs == [root |-> [d |-> "d", x |-> "x"], d |-> [e |-> "e"], e |-> <<>>, x |-> <<>>]
MCFiles == [root |-> {"f"}, d |-> {"f"}, e |-> {}, x |-> {"f"}]
MCLinks ==
    [root |-> [l |-> P(<<"d">>, FALSE), g |-> P(<<"l", "f">>, FALSE)],
     d |-> [l |-> P(<<"..", "d", "e">>, TRUE), g |-> P(<<"..", "..">>, FALSE)],
     e |-> [l |-> P(<<"l">>, FALSE), g |-> [P(<<"f">>, FALSE) EXCEPT !.abs = TRUE]],
     x |-> <<>>]
MCPartNames == {".", "..", "d", "e", "x", "f", "l", "g"}
MCPaths ==
    {P(ps, s) : ps \in UNION {[1..n -> MCPartNames] : n \in 1..3}, s \in BOOLEAN}
    \cup {P(<<>>, FALSE), [P(<<"f">>, FALSE) EXCEPT !.abs = TRUE]}

MCPreopened ==
    [a \in Fds |-> IF a = 3 THEN [base |-> {"open", "stat"}, inheriting |-> {"open", "seek"}]
                   ELSE [base |-> {}, inheriting |-> {}]]

VARIABLE runs       \* the component that takes the steps

PathRests ==
    /\ base = "root" /\ asked = NoPath /\ Fd = "root" /\ PartFds = <<>> /\ Path = NoPath
    /\ follow = TRUE /\ FollowTrailingSlashes = TRUE /\ LinkCount = 0
    /\ walk = "done" /\ found = Fails("NOENT") /\ dropped = FALSE

MCInit ==
    /\ runs \in {"store", "path", "fds", "poll", "memory"}
    /\ Init /\ FdsInit /\ PollInit /\ MemInit
    /\ runs # "memory" => reserved
    /\ IF runs = "path" THEN PathInit ELSE PathRests

StoreStep(A) == runs = "store" /\ A /\ UNCHANGED <<runs, pathVars, fdsVars, pollVars, memVars>>
PathStep(A) == runs = "path" /\ A /\ UNCHANGED <<runs, vars, fdsVars, pollVars, memVars>>
FdsStep(A) == runs = "fds" /\ A /\ UNCHANGED <<runs, vars, pathVars, pollVars, memVars>>
PollStep(A) == runs = "poll" /\ A /\ UNCHANGED <<runs, vars, pathVars, fdsVars, memVars>>
MemStep(A) == runs = "memory" /\ A /\ UNCHANGED <<runs, vars, pathVars, fdsVars, pollVars>>

MCNext ==
    \/ StoreStep(Next)
    \/ PathStep(PathNext)
    \/ FdsStep(FdsNext)
    \/ PollStep(PollNext)
    \/ MemStep(MemNext)
MCSpec == MCInit /\ [][MCNext]_<<runs, vars, pathVars, fdsVars, pollVars, memVars>>
=============================================================================
