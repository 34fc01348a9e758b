--------------------------- MODULE MCTier2Manager ---------------------------
(* Small modules for Tier2Manager: call graphs and loops as constants.     *)
EXTENDS Tier2Manager, TLC

CallGraph(edges) ==
  [f \in Funcs |-> [c \in Funcs |->
     IF \E e \in edges : e[1] = f /\ e[2] = c
     THEN (CHOOSE e \in edges : e[1] = f /\ e[2] = c)[3] ELSE 0]]

(* 1 calls 2 once and 3 twice, 2 calls 3 and the import 0, 4 is a trap     *)
(* stub that calls 2.                                                      *)
MCCalls == CallGraph({<<1, 2, 1>>, <<1, 3, 2>>, <<2, 3, 1>>, <<2, 0, 1>>,
                      <<4, 2, 1>>})

MCLoops == {<<2, 0>>, <<4, 0>>}
MCOneLoop == {<<2, 0>>}

ThreadSymmetry == Permutations(Threads)
=============================================================================
