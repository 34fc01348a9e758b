------------------------------ MODULE MCVMStore ------------------------------
(* A module without imports, one that imports WASI and the module "lib", and *)
(* one that does not validate.                                               *)
EXTENDS VMStore

MCImportsOf == [plain |-> {}, app |-> {"wasi", "lib"}, bad |-> {}]
=============================================================================
