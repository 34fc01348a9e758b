------------------------------- MODULE VMStore -------------------------------
(***************************************************************************)
(* A VM, the StoreManager it registers into, and the lifetimes of module   *)
(* instances.  The VM's calls are serialised by VM::Mutex; the store's are *)
(* not, so the embedder may register, unregister and delete its own host   *)
(* modules while the VM is in the middle of an instantiation, which runs   *)
(* wasm code.  An instantiation is therefore two steps: make the instance  *)
(* and resolve its imports; then hand it over or recycle it.               *)
(*                                                                         *)
(* An instance is an address, and the allocator gives a freed address      *)
(* again, except one that the VM still holds: what is deleted a second     *)
(* time is undefined, whatever is there, and the model ends.  Calls that   *)
(* fail before they change anything are not steps, and executing functions *)
(* changes nothing here.  A component is abstracted to whether it          *)
(* validates; the plug-in modules are like the built-in one.               *)
(***************************************************************************)
EXTENDS Naturals, FiniteSets, Functions

CONSTANTS
    Names,          \* module names the embedder and the VM register
    Wasi,           \* the name of the built-in host module, not in Names
    Asts,           \* wasm modules
    ImportsOf,      \* function from Asts to sets of names
    Invalid,        \* the modules of Asts that do not validate
    MaxInsts,       \* a bound on the instances alive at once
    None

ASSUME ConstantsOK ==
    /\ Wasi \notin Names
    /\ ImportsOf \in [Asts -> SUBSET (Names \cup {Wasi})]
    /\ Invalid \subseteq Asts
    /\ MaxInsts \in Nat \ {0}
    /\ None \notin 1 .. MaxInsts
    /\ None \notin Asts \cup Names \cup {Wasi}

VARIABLES
    Stage,          \* VMStage
    Mod,            \* loaded AST [ast, valid], or None
    Comp,           \* loaded component: "good", "bad", or None
    insts,          \* module instances by address: [name, ast, imports]
    ActiveModInst,  \* address, or None
    ActiveCompInst, \* the component it is an instance of, or None
    RegModInsts,    \* addresses the VM owns through registerModule
    BuiltIn,        \* address of the WASI module instance
    FailedMod,      \* address of the last recycled instance, or None
    hosts,          \* addresses the embedder owns
    NamedMod,       \* StoreManager: partial function from names to addresses
    linked,         \* addresses whose LinkedStore holds the store
    pending,        \* instantiation under way [op, inst, found], or Idle
    forced,         \* history: force-deleted while the VM owned them
    twice,          \* history: deleted when they did not exist
    outlived        \* history: imported by FailedMod, gone by a cleanup

vmVars == <<Stage, Mod, Comp, ActiveModInst, ActiveCompInst, RegModInsts,
            BuiltIn>>
storeVars == <<NamedMod, linked>>
history == <<forced, twice, outlived>>
vars == <<vmVars, storeVars, insts, FailedMod, hosts, pending, history>>

Idle == [op |-> "none", inst |-> None, found |-> FALSE]
Inst(name, ast, imports) == [name |-> name, ast |-> ast, imports |-> imports]

Init ==
    /\ Stage = "Inited"
    /\ Mod = None
    /\ Comp = None
    /\ insts = [i \in {1} |-> Inst(Wasi, None, {})]
    /\ ActiveModInst = None
    /\ ActiveCompInst = None
    /\ RegModInsts = {}
    /\ BuiltIn = 1
    /\ FailedMod = None
    /\ hosts = {}
    /\ NamedMod = [n \in {Wasi} |-> 1]
    /\ linked = {1}
    /\ pending = Idle
    /\ forced = {} /\ twice = {} /\ outlived = {}

-----------------------------------------------------------------------------
(* StoreManager and ModuleInstance *)

Free == (1 .. MaxInsts) \ (DOMAIN insts \cup forced)
Fresh == CHOOSE i \in Free : TRUE
Some(a) == {a} \ {None}
Extend(f, x, v) == [y \in DOMAIN f \cup {x} |-> IF y = x THEN v ELSE f[y]]
Pending == Some(pending.inst)

\* ~ModuleInstance of the instances in gone: one that is linked erases its
\* name from the store.
Destroy(gone) ==
    /\ insts' = Restrict(insts, DOMAIN insts \ gone)
    /\ NamedMod' = Restrict(NamedMod, DOMAIN NamedMod \
                             {insts[i].name : i \in gone \cap linked})
    /\ linked' = linked \ gone
    /\ twice' = gone \ DOMAIN insts

\* registerModule(ModInst): a name that is taken is a conflict.
Register(i) ==
    /\ insts[i].name \notin DOMAIN NamedMod
    /\ NamedMod' = Extend(NamedMod, insts[i].name, i)
    /\ linked' = linked \cup {i}

\* Instances that others have imported from; the failed instance, whose
\* functions a table may still hold, counts as long as what it imported is
\* there.
ImportsBy(i) == insts[i].imports \ (IF i = FailedMod THEN outlived ELSE {})
Imported == UNION {ImportsBy(i) : i \in DOMAIN insts}

-----------------------------------------------------------------------------
(* The embedder, on its own thread *)

CreateHost(n) ==
    /\ Free # {}
    /\ insts' = Extend(insts, Fresh, Inst(n, None, {}))
    /\ hosts' = hosts \cup {Fresh}
    /\ UNCHANGED <<vmVars, storeVars, FailedMod, pending, history>>

\* Executor::registerModule(Store, ModInst).
RegisterHost(i) ==
    /\ i \in hosts
    /\ Register(i)
    /\ UNCHANGED <<vmVars, insts, FailedMod, hosts, pending, history>>

\* The embedder keeps a module that others have imported, as the API asks.
DeleteHost(i) ==
    /\ i \in hosts \ Imported
    /\ Destroy({i})
    /\ hosts' = hosts \ {i}
    /\ UNCHANGED <<vmVars, FailedMod, pending, forced, outlived>>

\* WasmEdge_VMForceDeleteRegisteredModule: unregisterModule, then delete,
\* whoever owns the instance.
ForceDelete(n) ==
    /\ n \in DOMAIN NamedMod
    /\ LET i == NamedMod[n]
       IN  /\ i \notin Imported
           /\ NamedMod' = Restrict(NamedMod, DOMAIN NamedMod \ {n})
           /\ linked' = linked \ {i}
           /\ insts' = Restrict(insts, DOMAIN insts \ {i})
           /\ hosts' = hosts \ {i}
           /\ forced' = forced \cup ({i} \ hosts)
           /\ twice' = {i} \ DOMAIN insts
    /\ UNCHANGED <<vmVars, FailedMod, pending, outlived>>

-----------------------------------------------------------------------------
(* The VM *)

\* Registering and running send an instantiated VM back.
Demote == Stage' = IF Stage = "Instantiated" THEN "Validated" ELSE Stage

\* unsafeLoadWasm, of a path or bytes, or of a module that may be validated.
LoadModule(a, valid) ==
    /\ pending = Idle
    /\ valid => a \notin Invalid
    /\ Mod' = [ast |-> a, valid |-> valid]
    /\ Stage' = "Loaded"
    /\ UNCHANGED <<Comp, ActiveModInst, ActiveCompInst, RegModInsts, BuiltIn,
                   storeVars, insts, FailedMod, hosts, pending, history>>
LoadComponent(c) ==
    /\ pending = Idle
    /\ Comp' = c
    /\ Stage' = "Loaded"
    /\ UNCHANGED <<Mod, ActiveModInst, ActiveCompInst, RegModInsts, BuiltIn,
                   storeVars, insts, FailedMod, hosts, pending, history>>

\* unsafeValidate: a loaded module comes before a loaded component.
Validate ==
    /\ pending = Idle
    /\ Stage # "Inited"
    /\ IF Mod # None
         THEN /\ Mod.ast \notin Invalid
              /\ Mod' = [Mod EXCEPT !.valid = TRUE]
         ELSE Comp = "good" /\ UNCHANGED Mod
    /\ Stage' = "Validated"
    /\ UNCHANGED <<Comp, ActiveModInst, ActiveCompInst, RegModInsts, BuiltIn,
                   storeVars, insts, FailedMod, hosts, pending, history>>

\* Executor::instantiate up to the imports, which are links to what findModule
\* returns; without one of them it will fail.
Begin(op, ast, name) ==
    LET found == ImportsOf[ast] \cap DOMAIN NamedMod
    IN  /\ Free # {}
        /\ insts' = Extend(insts, Fresh,
                           Inst(name, ast, {NamedMod[n] : n \in found}))
        /\ pending' = [op |-> op, inst |-> Fresh,
                       found |-> found = ImportsOf[ast]]
        /\ UNCHANGED <<storeVars, FailedMod>>

\* Mutant of InstantiateModule: the stage alone tells a valid module.
InstantiateModuleByStage ==
    /\ pending = Idle
    /\ Stage \in {"Validated", "Instantiated"}
    /\ Mod # None
    /\ Begin("instantiate", Mod.ast, None)
    /\ UNCHANGED <<vmVars, hosts, history>>

\* unsafeInstantiate.
InstantiateModule ==
    /\ pending = Idle
    /\ Stage \in {"Validated", "Instantiated"}
    /\ Mod # None /\ Mod.valid
    /\ Begin("instantiate", Mod.ast, None)
    /\ UNCHANGED <<vmVars, hosts, history>>
InstantiateComponent ==
    /\ pending = Idle
    /\ Stage \in {"Validated", "Instantiated"}
    /\ Mod = None /\ Comp # None
    /\ ActiveCompInst' = Comp
    /\ Stage' = "Instantiated"
    /\ UNCHANGED <<Mod, Comp, ActiveModInst, RegModInsts, BuiltIn, storeVars,
                   insts, FailedMod, hosts, pending, history>>

\* Mutant of RunWasmFile: the stage stays.
RunWasmFileKeepsStage(a, loads) ==
    /\ pending = Idle
    /\ Mod' = IF loads THEN [ast |-> a, valid |-> a \notin Invalid] ELSE Mod
    /\ IF a \in Invalid THEN UNCHANGED <<pending, insts, storeVars, FailedMod>>
       ELSE Begin("run", a, None)
    /\ UNCHANGED <<Stage, Comp, ActiveModInst, ActiveCompInst, RegModInsts,
                   BuiltIn, hosts, history>>

\* unsafeRunWasmFile, of a path or bytes, which become the loaded module, or
\* of a module.
RunWasmFile(a, loads) ==
    /\ pending = Idle
    /\ Demote
    /\ Mod' = IF loads THEN [ast |-> a, valid |-> a \notin Invalid] ELSE Mod
    /\ IF a \in Invalid THEN UNCHANGED <<pending, insts, storeVars, FailedMod>>
       ELSE Begin("run", a, None)
    /\ UNCHANGED <<Comp, ActiveModInst, ActiveCompInst, RegModInsts, BuiltIn,
                   hosts, history>>
RunComponent(c) ==
    /\ pending = Idle
    /\ Demote
    /\ Comp' = c
    /\ UNCHANGED <<Mod, ActiveModInst, ActiveCompInst, RegModInsts, BuiltIn,
                   storeVars, insts, FailedMod, hosts, pending, history>>

\* unsafeRegisterModule(Name, Module).
RegisterModule(n, a) ==
    /\ pending = Idle
    /\ Demote
    /\ IF a \in Invalid \/ n \in DOMAIN NamedMod
         THEN UNCHANGED <<pending, insts, storeVars, FailedMod>>
         ELSE Begin("register", a, n)
    /\ UNCHANGED <<Mod, Comp, ActiveModInst, ActiveCompInst, RegModInsts,
                   BuiltIn, hosts, history>>

\* unsafeRegisterModule(ModInst).
RegisterImport(i) ==
    /\ pending = Idle
    /\ i \in hosts
    /\ Demote
    /\ IF insts[i].name \in DOMAIN NamedMod THEN UNCHANGED storeVars
       ELSE Register(i)
    /\ UNCHANGED <<Mod, Comp, ActiveModInst, ActiveCompInst, RegModInsts,
                   BuiltIn, insts, FailedMod, hosts, pending, history>>

\* Instantiation fails: recycleModule keeps the instance in place of the last
\* one that failed.
Recycle ==
    /\ pending # Idle
    /\ Destroy(Some(FailedMod))
    /\ FailedMod' = pending.inst /\ outlived' = {}
    /\ pending' = Idle
    /\ UNCHANGED <<vmVars, hosts, forced>>

\* The new instance replaces the active one.
Activate ==
    /\ pending # Idle /\ pending.found /\ pending.op # "register"
    /\ Destroy(Some(ActiveModInst))
    /\ ActiveModInst' = pending.inst
    /\ Stage' = IF pending.op = "run" THEN Stage ELSE "Instantiated"
    /\ pending' = Idle
    /\ UNCHANGED <<Mod, Comp, ActiveCompInst, RegModInsts, BuiltIn, FailedMod,
                   hosts, forced, outlived>>

\* Mutant of FinishRegister: whoever has taken the name is destroyed.
FinishRegisterTakesName ==
    /\ pending # Idle /\ pending.found /\ pending.op = "register"
    /\ LET name == insts[pending.inst].name
           old == {NamedMod[n] : n \in {name} \cap DOMAIN NamedMod}
       IN  /\ NamedMod' = Extend(NamedMod, name, pending.inst)
           /\ linked' = (linked \ old) \cup {pending.inst}
           /\ insts' = Restrict(insts, DOMAIN insts \ old)
    /\ RegModInsts' = RegModInsts \cup {pending.inst}
    /\ pending' = Idle
    /\ UNCHANGED <<Stage, Mod, Comp, ActiveModInst, ActiveCompInst, BuiltIn,
                   FailedMod, hosts, history>>

\* The new instance is registered and kept; that its name may have been taken
\* meanwhile is ignored.
FinishRegister ==
    /\ pending # Idle /\ pending.found /\ pending.op = "register"
    /\ IF insts[pending.inst].name \in DOMAIN NamedMod THEN UNCHANGED storeVars
       ELSE Register(pending.inst)
    /\ RegModInsts' = RegModInsts \cup {pending.inst}
    /\ pending' = Idle
    /\ UNCHANGED <<Stage, Mod, Comp, ActiveModInst, ActiveCompInst, BuiltIn,
                   insts, FailedMod, hosts, history>>

\* The instances cleanup destroys; a new WASI module instance takes the
\* address of the old one.
Cleared == Some(ActiveModInst) \cup RegModInsts \cup {BuiltIn}
NewHosts == [n \in {Wasi} |-> BuiltIn]
Forget ==
    /\ Stage' = "Inited" /\ Mod' = None /\ Comp' = None
    /\ ActiveModInst' = None /\ ActiveCompInst' = None /\ RegModInsts' = {}
    /\ insts' = Extend(Restrict(insts, DOMAIN insts \ Cleared), BuiltIn, Inst(Wasi, None, {}))
    /\ twice' = Cleared \ DOMAIN insts
    /\ outlived' = outlived \cup
         (IF FailedMod = None THEN {} ELSE insts[FailedMod].imports \cap Cleared)

\* Mutant of Cleanup: the links of instances that stay are kept.
CleanupKeepsLinks ==
    /\ pending = Idle
    /\ Forget
    /\ NamedMod' = NewHosts
    /\ linked' = (linked \ Cleared) \cup {BuiltIn}
    /\ UNCHANGED <<BuiltIn, FailedMod, hosts, pending, forced>>

\* unsafeCleanup: StoreManager::reset unlinks every instance, the VM's
\* instances go, and the host modules are made and registered again.  The
\* failed instance stays.
Cleanup ==
    /\ pending = Idle
    /\ Forget
    /\ NamedMod' = NewHosts
    /\ linked' = {BuiltIn}
    /\ UNCHANGED <<BuiltIn, FailedMod, hosts, pending, forced>>

Step ==
    \/ \E n \in Names : CreateHost(n)
    \/ \E i \in hosts : RegisterHost(i)
    \/ \E i \in hosts : DeleteHost(i)
    \/ \E i \in hosts : RegisterImport(i)
    \/ \E n \in DOMAIN NamedMod : ForceDelete(n)
    \/ \E a \in Asts, valid \in BOOLEAN : LoadModule(a, valid)
    \/ \E a \in Asts, loads \in BOOLEAN : RunWasmFile(a, loads)
    \/ \E n \in Names, a \in Asts : RegisterModule(n, a)
    \/ \E c \in {"good", "bad"} : LoadComponent(c)
    \/ \E c \in {"good", "bad"} : RunComponent(c)
    \/ Validate \/ InstantiateModule \/ InstantiateComponent
    \/ Recycle \/ Activate \/ FinishRegister \/ Cleanup

Next == twice = {} /\ Step

Spec == Init /\ [][Next]_vars

-----------------------------------------------------------------------------
(* Properties *)

\* The store and the instances agree, whoever registers, fails, deletes or
\* cleans up in between: a name leads to a live instance of that name, and
\* exactly the instances that the store names will unlink themselves from it
\* when they are destroyed.
LinksAgree ==
    /\ linked = Range(NamedMod)
    /\ linked \subseteq DOMAIN insts
    /\ \A n \in DOMAIN NamedMod : insts[NamedMod[n]].name = n

Owned ==
    [active |-> Some(ActiveModInst), registered |-> RegModInsts,
     builtin |-> {BuiltIn}, failed |-> Some(FailedMod), embedder |-> hosts,
     pending |-> Pending]
AnyOwned == UNION {Owned[o] : o \in DOMAIN Owned}

\* Every instance has one owner, which deletes it, and what an instance has
\* imported exists as long as the importer, with two exceptions in the code.
\* An instance of the VM that ForceDelete deleted is deleted again by cleanup,
\* and nothing else is ever deleted twice.  And of what the failed instance
\* imported, cleanup leaves the embedder's modules only, although the store
\* keeps the failed instance because it may still be referenced.
NoDangling ==
    /\ twice \subseteq forced
    /\ twice = {} =>
         /\ DOMAIN insts = AnyOwned \ forced
         /\ \A o, p \in DOMAIN Owned : o # p => Owned[o] \cap Owned[p] = {}
         /\ Imported \subseteq DOMAIN insts

\* An instantiated VM executes what is loaded: no sequence of loading,
\* running, registering and failing leaves the stage at Instantiated with an
\* active instance of another module.
InstantiatedIsCurrent ==
    Stage = "Instantiated" =>
        IF Mod # None
          THEN ActiveModInst # None /\ insts[ActiveModInst].ast = Mod.ast
          ELSE ActiveCompInst = Comp

\* No instance, not even a recycled one, is made of a module that did not
\* validate, although runWasmFile may leave one loaded in a later stage.
OnlyValidated == \A i \in DOMAIN insts : insts[i].ast \notin Invalid

-----------------------------------------------------------------------------
(* The inductive invariant *)

TypeOK ==
    /\ Stage \in {"Inited", "Loaded", "Validated", "Instantiated"}
    /\ Mod \in {None} \cup [ast : Asts, valid : BOOLEAN]
    /\ insts \in [DOMAIN insts -> [name : Names \cup {Wasi, None},
                                  ast : Asts \cup {None},
                                  imports : SUBSET (1 .. MaxInsts)]]
    /\ DOMAIN insts \cup {BuiltIn} \subseteq 1 .. MaxInsts
    /\ NamedMod \in [DOMAIN NamedMod -> DOMAIN insts]
    /\ pending \in {Idle} \cup
         [op : {"instantiate", "run", "register"}, inst : DOMAIN insts,
          found : BOOLEAN]

\* The instances that may be named by the store and imported.
Kept == RegModInsts \cup hosts \cup {BuiltIn}

\* Who owns what.
OwnersInv ==
    /\ DOMAIN insts = (Kept \cup Some(ActiveModInst) \cup Some(FailedMod)
                           \cup Pending) \ forced
    /\ forced \subseteq RegModInsts \cup {BuiltIn}
    /\ RegModInsts \cap hosts = {} /\ BuiltIn \notin RegModInsts \cup hosts
    /\ Kept \cap (Some(ActiveModInst) \cup Some(FailedMod) \cup Pending) = {}
    /\ Some(ActiveModInst) \cap (Some(FailedMod) \cup Pending) = {}
    /\ Some(FailedMod) \cap Pending = {}

\* What is registered or imported is kept, and only the VM's own instances
\* import: when they go, all that they import from may go with them.
LinkInv ==
    /\ linked \subseteq Kept
    /\ \A i \in DOMAIN insts : ImportsBy(i) \subseteq Kept \ forced
    /\ \A i \in (hosts \cup {BuiltIn}) \cap DOMAIN insts : insts[i].imports = {}
    /\ BuiltIn \in DOMAIN insts => insts[BuiltIn].name = Wasi

\* What the VM has validated, and what it is instantiating.
StageInv ==
    /\ Mod # None /\ Mod.valid => Mod.ast \notin Invalid
    /\ pending # Idle /\ pending.op = "instantiate" =>
         Mod # None /\ insts[pending.inst].ast = Mod.ast
    /\ pending # Idle /\ pending.op = "run" => Stage # "Instantiated"

\* The strengthening of the four properties that every step preserves: an
\* instance that goes is named by nobody and imported by nobody who stays.
IndInv ==
    /\ TypeOK /\ StageInv
    /\ LinksAgree /\ InstantiatedIsCurrent /\ OnlyValidated
    /\ twice \subseteq forced
    /\ twice = {} => OwnersInv /\ LinkInv
=============================================================================
