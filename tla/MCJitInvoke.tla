---------------------------- MODULE MCJitInvoke ----------------------------
(* Instances of JitInvoke for TLC. *)
EXTENDS JitInvoke, TLC

ModuleSymmetry == Permutations(Modules)
=============================================================================
