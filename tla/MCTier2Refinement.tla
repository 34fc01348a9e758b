-------------------------- MODULE MCTier2Refinement -------------------------
(* The instance of MCTier2Manager, with the refinement mapping.            *)
EXTENDS MCTier2Manager, Tier2Refinement
=============================================================================
