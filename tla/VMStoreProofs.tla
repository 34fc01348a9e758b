---------------------------- MODULE VMStoreProofs ----------------------------
(***************************************************************************)
(* The properties of VMStore for every set of modules and names and any    *)
(* number of instances.                                                    *)
(***************************************************************************)
EXTENDS VMStore, TLAPS

(* The invariant, as long as nothing was deleted twice. *)
Live ==
    /\ TypeOK /\ OwnersInv /\ LinkInv /\ StageInv
    /\ LinksAgree /\ InstantiatedIsCurrent /\ OnlyValidated

(* What the VM holds but has not registered exists, and so do the          *)
(* embedder's modules.                                                     *)
LEMMA HeldLives ==
  ASSUME Live
  PROVE  Some(ActiveModInst) \cup Some(FailedMod) \cup Pending \cup hosts \subseteq DOMAIN insts
BY DEF Live, OwnersInv, Kept

(* The allocator returns an address that is not in use. *)
LEMMA FreshProps ==
  ASSUME Free # {}
  PROVE  Fresh \in 1 .. MaxInsts /\ Fresh \notin DOMAIN insts /\ Fresh \notin forced
BY DEF Fresh, Free

(* registerModule keeps the store and the instances in agreement. *)
LEMMA RegisterLinks ==
  ASSUME TypeOK, LinksAgree, NEW i \in DOMAIN insts, Register(i),
         UNCHANGED insts
  PROVE  LinksAgree' /\ NamedMod' \in [DOMAIN NamedMod' -> DOMAIN insts']
<1>1. \A n \in DOMAIN NamedMod' : NamedMod'[n] =
        IF n = insts[i].name THEN i ELSE NamedMod[n]
  BY DEF Register, Extend
<1>2. /\ NamedMod' = Extend(NamedMod, insts[i].name, i)
      /\ DOMAIN NamedMod' = DOMAIN NamedMod \cup {insts[i].name}
      /\ insts[i].name \notin DOMAIN NamedMod
      /\ linked' = linked \cup {i}
  BY DEF Register, Extend
<1>3. NamedMod' \in [DOMAIN NamedMod' -> DOMAIN insts']
  BY <1>2 DEF TypeOK, Extend
<1>4. linked' = Range(NamedMod')
  BY <1>1, <1>2 DEF LinksAgree, Range
<1>5. linked' \subseteq DOMAIN insts'
  BY <1>2 DEF LinksAgree
<1>6. \A n \in DOMAIN NamedMod' : insts'[NamedMod'[n]].name = n
  BY <1>1, <1>2 DEF LinksAgree
<1>. QED  BY <1>3, <1>4, <1>5, <1>6 DEF LinksAgree

(* The destructors keep them in agreement: they erase by name, and a name  *)
(* leads to the instance of that name.                                     *)
LEMMA DestroyLinks ==
  ASSUME TypeOK, LinksAgree, NEW gone, Destroy(gone)
  PROVE  LinksAgree' /\ NamedMod' \in [DOMAIN NamedMod' -> DOMAIN insts']
<1> DEFINE names == {insts[i].name : i \in gone \cap linked}
<1>1. /\ DOMAIN insts' = DOMAIN insts \ gone
      /\ \A i \in DOMAIN insts' : insts'[i] = insts[i]
      /\ NamedMod' = [n \in DOMAIN NamedMod \ names |-> NamedMod[n]]
      /\ DOMAIN NamedMod' = DOMAIN NamedMod \ names
      /\ \A n \in DOMAIN NamedMod' : NamedMod'[n] = NamedMod[n]
      /\ linked' = linked \ gone
  BY DEF Destroy, Restrict
<1>2. \A n \in DOMAIN NamedMod :
        /\ NamedMod[n] \in linked
        /\ n \in names <=> NamedMod[n] \in gone
  BY DEF LinksAgree, Range
<1>3. NamedMod' \in [DOMAIN NamedMod' -> DOMAIN insts']
  BY <1>1, <1>2 DEF TypeOK
<1>4. linked' = Range(NamedMod')
  <2>1. \A i \in linked' : \E n \in DOMAIN NamedMod' : NamedMod'[n] = i
    <3> SUFFICES ASSUME NEW i \in linked'
                 PROVE  \E n \in DOMAIN NamedMod' : NamedMod'[n] = i
      OBVIOUS
    <3>1. PICK n \in DOMAIN NamedMod : NamedMod[n] = i
      BY <1>1 DEF LinksAgree, Range
    <3>2. n \in DOMAIN NamedMod'
      BY <1>1, <1>2, <3>1
    <3>. QED  BY <1>1, <3>1, <3>2
  <2>2. \A n \in DOMAIN NamedMod' : NamedMod'[n] \in linked'
    BY <1>1, <1>2
  <2>. QED  BY <2>1, <2>2 DEF Range
<1>5. linked' \subseteq DOMAIN insts'
  BY <1>1 DEF LinksAgree
<1>6. \A n \in DOMAIN NamedMod' : insts'[NamedMod'[n]].name = n
  BY <1>1, <1>3 DEF LinksAgree
<1>. QED  BY <1>3, <1>4, <1>5, <1>6 DEF LinksAgree

(* Init satisfies the invariant. *)
LEMMA IndInit == Init => IndInv
<1> SUFFICES ASSUME Init PROVE IndInv
  OBVIOUS
<1> USE ConstantsOK
<1>1. DOMAIN insts = {1} /\ insts[1] = Inst(Wasi, None, {})
  BY DEF Init
<1>2. DOMAIN NamedMod = {Wasi} /\ NamedMod[Wasi] = 1
  BY DEF Init
<1>3. TypeOK
  BY DEF Init, TypeOK, Inst
<1>4. OwnersInv
  BY <1>1 DEF Init, OwnersInv, Kept, Some, Pending, Idle
<1>5. LinkInv
  BY <1>1 DEF Init, LinkInv, Kept, Some, Inst, ImportsBy
<1>6. StageInv /\ InstantiatedIsCurrent /\ OnlyValidated
  BY <1>1 DEF Init, StageInv, InstantiatedIsCurrent, OnlyValidated, Inst
<1>7. LinksAgree
  BY <1>1, <1>2 DEF Init, LinksAgree, Range, Inst
<1>. QED  BY <1>3, <1>4, <1>5, <1>6, <1>7 DEF IndInv, Init

(* The parts of the invariant about instances do not read the stage. *)
LEMMA StageOnly ==
  ASSUME Live, UNCHANGED <<insts, ActiveModInst, RegModInsts, BuiltIn,
                             FailedMod, hosts, NamedMod, linked, pending,
                             forced, outlived>>
  PROVE  /\ OwnersInv' /\ LinkInv' /\ LinksAgree' /\ OnlyValidated'
         /\ insts' \in [DOMAIN insts' -> [name : Names \cup {Wasi, None},
                                          ast : Asts \cup {None},
                                          imports : SUBSET (1 .. MaxInsts)]]
         /\ DOMAIN insts' \subseteq 1 .. MaxInsts
         /\ NamedMod' \in [DOMAIN NamedMod' -> DOMAIN insts']
         /\ pending' \in {Idle} \cup
              [op : {"instantiate", "run", "register"}, inst : DOMAIN insts',
               found : BOOLEAN]
<1>1. OwnersInv'
  BY DEF Live, OwnersInv, Kept, Pending, Some
<1>2. LinkInv'
  BY DEF Live, LinkInv, Kept, ImportsBy
<1>3. LinksAgree' /\ OnlyValidated'
  BY DEF Live, LinksAgree, OnlyValidated, Range
<1>. QED  BY <1>1, <1>2, <1>3 DEF Live, TypeOK

(* Executor::instantiate adds an instance that nobody knows of yet. *)
LEMMA BeginInd ==
  ASSUME Live, pending = Idle,
         NEW op \in {"instantiate", "run", "register"}, NEW ast \in Asts,
         NEW name \in Names \cup {None}, ast \notin Invalid, Begin(op, ast, name),
         op = "instantiate" => Mod # None /\ Mod.ast = ast /\ UNCHANGED Mod,
         Mod' \in {None} \cup [ast : Asts, valid : BOOLEAN],
         Mod' # None /\ Mod'.valid => Mod'.ast \notin Invalid,
         Stage' \in {"Inited", "Loaded", "Validated", "Instantiated"},
         Stage' = "Instantiated" => UNCHANGED <<Stage, Mod>>,
         op = "run" => Stage' # "Instantiated",
         UNCHANGED <<Comp, ActiveModInst, ActiveCompInst, RegModInsts, BuiltIn,
                     hosts, forced, outlived>>
  PROVE  Live'
<1> USE ConstantsOK
<1> DEFINE found == ImportsOf[ast] \cap DOMAIN NamedMod
           imports == {NamedMod[n] : n \in found}
<1>1. Fresh \in 1 .. MaxInsts /\ Fresh \notin DOMAIN insts /\ Fresh \notin forced
  BY FreshProps DEF Begin
<1>2. /\ insts' = Extend(insts, Fresh, Inst(name, ast, imports))
      /\ pending' = [op |-> op, inst |-> Fresh, found |-> found = ImportsOf[ast]]
      /\ NamedMod' = NamedMod /\ linked' = linked /\ FailedMod' = FailedMod
  BY DEF Begin, storeVars
<1>3. /\ DOMAIN insts' = DOMAIN insts \cup {Fresh}
      /\ insts'[Fresh] = [name |-> name, ast |-> ast, imports |-> imports]
      /\ \A i \in DOMAIN insts : insts'[i] = insts[i]
  BY <1>1, <1>2 DEF Extend, Inst
<1>4. imports \subseteq linked
  BY DEF Live, LinksAgree, Range
<1>5. imports \subseteq Kept \ forced /\ imports \subseteq DOMAIN insts
      /\ DOMAIN insts \subseteq 1 .. MaxInsts
  BY <1>4 DEF Live, LinkInv, LinksAgree, OwnersInv, TypeOK
<1> HIDE DEF found, imports
<1>6. Pending' = {Fresh} /\ Pending = {}
  BY <1>1, <1>2 DEF Pending, Some, Idle
<1>7. TypeOK'
  <2>1. insts' \in [DOMAIN insts' -> [name : Names \cup {Wasi, None},
                                      ast : Asts \cup {None},
                                      imports : SUBSET (1 .. MaxInsts)]]
    BY <1>2, <1>5 DEF Live, TypeOK, Extend, Inst
  <2>2. DOMAIN insts' \subseteq 1 .. MaxInsts
    BY <1>1, <1>3, <1>5
  <2>3. NamedMod' \in [DOMAIN NamedMod' -> DOMAIN insts']
    BY <1>2, <1>3 DEF Live, TypeOK
  <2>4. pending' \in [op : {"instantiate", "run", "register"},
                      inst : DOMAIN insts', found : BOOLEAN]
    BY <1>2, <1>3
  <2>5. BuiltIn' \in 1 .. MaxInsts
    BY DEF Live, TypeOK
  <2>. QED  BY <2>1, <2>2, <2>3, <2>4, <2>5 DEF TypeOK
<1>8. OwnersInv'
  BY <1>1, <1>2, <1>3, <1>6 DEF Live, OwnersInv, Kept, Some
<1>9. LinkInv'
  <2>1. Kept' = Kept /\ Fresh \notin Kept /\ Fresh # FailedMod
    BY <1>1 DEF Live, OwnersInv, Kept, Some
  <2>2. \A i \in DOMAIN insts' : ImportsBy(i)' \subseteq Kept' \ forced'
    <3>1. \A i \in DOMAIN insts : ImportsBy(i)' = ImportsBy(i)
      BY <1>2, <1>3 DEF ImportsBy
    <3>2. PICK f : f = Fresh
      OBVIOUS
    <3>3. ImportsBy(f)' \subseteq imports
      BY <1>2, <1>3, <3>2 DEF ImportsBy
    <3>4. \A i \in DOMAIN insts : ImportsBy(i) \subseteq Kept \ forced
      BY DEF Live, LinkInv
    <3>. QED  BY <1>3, <1>5, <2>1, <3>1, <3>2, <3>3, <3>4
  <2>3. \A i \in ((hosts \cup {BuiltIn}) \cap DOMAIN insts)' : insts'[i].imports = {}
    BY <1>3, <2>1 DEF Live, LinkInv, Kept
  <2>4. BuiltIn \in DOMAIN insts' => insts'[BuiltIn].name = Wasi
    BY <1>3, <2>1 DEF Live, LinkInv, Kept
  <2>. QED  BY <1>2, <2>1, <2>2, <2>3, <2>4 DEF Live, LinkInv
<1>10. StageInv'
  BY <1>2, <1>3 DEF StageInv
<1>11. LinksAgree'
  <2>1. \A n \in DOMAIN NamedMod : NamedMod[n] \in DOMAIN insts
    BY SMTT(60) DEF Live, TypeOK
  <2>2. linked' = Range(NamedMod') /\ linked' \subseteq DOMAIN insts'
    BY <1>2, <1>3 DEF Live, LinksAgree
  <2>. QED  BY <1>2, <1>3, <2>1, <2>2 DEF Live, LinksAgree
<1>12. InstantiatedIsCurrent'
  BY <1>3, HeldLives DEF Live, InstantiatedIsCurrent, Some
<1>13. OnlyValidated'
  BY <1>3 DEF Live, OnlyValidated
<1>. QED
  BY <1>7, <1>8, <1>9, <1>10, <1>11, <1>12, <1>13 DEF Live

(* Calls that change the stage, the loaded units or the active component   *)
(* only.                                                                   *)
LEMMA StageInd ==
  ASSUME Live, pending = Idle,
         UNCHANGED <<insts, ActiveModInst, RegModInsts, BuiltIn, FailedMod, hosts,
                     NamedMod, linked, pending, forced, outlived>>,
         Mod' \in {None} \cup [ast : Asts, valid : BOOLEAN],
         Mod' # None /\ Mod'.valid => Mod'.ast \notin Invalid,
         Stage' \in {"Inited", "Loaded", "Validated", "Instantiated"},
         InstantiatedIsCurrent'
  PROVE  Live'
<1>1. TypeOK'
  <2>1. BuiltIn' \in 1 .. MaxInsts
    BY DEF Live, TypeOK
  <2>. QED  BY <2>1, StageOnly DEF TypeOK
<1>2. StageInv'
  BY DEF StageInv, Idle
<1>. QED  BY <1>1, <1>2, StageOnly DEF Live

(* The embedder makes a module. *)
LEMMA CreateHostInd ==
  ASSUME Live, NEW n \in Names, CreateHost(n)
  PROVE  Live'
<1> USE ConstantsOK
<1>1. Fresh \in 1 .. MaxInsts /\ Fresh \notin DOMAIN insts /\ Fresh \notin forced
  BY FreshProps DEF CreateHost
<1>2. /\ insts' = Extend(insts, Fresh, Inst(n, None, {}))
      /\ hosts' = hosts \cup {Fresh}
      /\ UNCHANGED <<Stage, Mod, Comp, ActiveModInst, ActiveCompInst, RegModInsts,
                     BuiltIn, NamedMod, linked, FailedMod, pending, forced, outlived>>
  BY DEF CreateHost, storeVars, vmVars, history
<1>3. /\ DOMAIN insts' = DOMAIN insts \cup {Fresh}
      /\ insts'[Fresh] = [name |-> n, ast |-> None, imports |-> {}]
      /\ \A i \in DOMAIN insts : insts'[i] = insts[i]
  BY <1>1, <1>2 DEF Extend, Inst
<1>4. Kept' = Kept \cup {Fresh} /\ Pending' = Pending
  BY <1>2 DEF Kept, Pending, Some
<1>5. Fresh \notin Kept /\ Fresh # FailedMod /\ BuiltIn \in Kept /\ hosts \subseteq Kept
  BY <1>1 DEF Live, OwnersInv, Kept, Some
<1>6. TypeOK'
  <2>1. insts' \in [DOMAIN insts' -> [name : Names \cup {Wasi, None},
                                      ast : Asts \cup {None},
                                      imports : SUBSET (1 .. MaxInsts)]]
    BY <1>2, SMTT(60) DEF Live, TypeOK, Extend, Inst
  <2>. QED  BY <1>1, <1>2, <1>3, <2>1 DEF Live, TypeOK
<1>7. OwnersInv'
  BY <1>1, <1>2, <1>3, <1>4, SMTT(60) DEF Live, OwnersInv, Kept, Some
<1>8. LinkInv'
  <2>1. \A i \in DOMAIN insts : ImportsBy(i)' = ImportsBy(i)
    BY <1>2, <1>3 DEF ImportsBy
  <2>f. PICK f : f = Fresh
    OBVIOUS
  <2>2. ImportsBy(f)' = {}
    BY <1>3, <2>f DEF ImportsBy
  <2>3. \A i \in DOMAIN insts' : ImportsBy(i)' \subseteq Kept' \ forced'
    <3>1. \A i \in DOMAIN insts : ImportsBy(i) \subseteq Kept \ forced
      BY DEF Live, LinkInv
    <3>. QED  BY <1>1, <1>2, <1>3, <1>4, <2>1, <2>2, <2>f, <3>1
  <2>4. \A i \in ((hosts \cup {BuiltIn}) \cap DOMAIN insts)' : insts'[i].imports = {}
    BY <1>2, <1>3, <1>5 DEF Live, LinkInv
  <2>5. linked' \subseteq Kept' /\ (BuiltIn' \in DOMAIN insts' => insts'[BuiltIn'].name = Wasi)
    BY <1>2, <1>3, <1>4, <1>5 DEF Live, LinkInv
  <2>. QED  BY <2>3, <2>4, <2>5 DEF LinkInv
<1>9. StageInv'
  BY <1>2, <1>3 DEF Live, StageInv, TypeOK
<1>10. LinksAgree'
  <2>1. \A m \in DOMAIN NamedMod : NamedMod[m] \in DOMAIN insts
    BY SMTT(60) DEF Live, TypeOK
  <2>2. linked' = Range(NamedMod') /\ linked' \subseteq DOMAIN insts'
    BY <1>2, <1>3 DEF Live, LinksAgree
  <2>. QED  BY <1>2, <1>3, <2>1, <2>2 DEF Live, LinksAgree
<1>11. InstantiatedIsCurrent'
  BY <1>2, <1>3, HeldLives DEF Live, InstantiatedIsCurrent, Some
<1>12. OnlyValidated'
  BY <1>3 DEF Live, OnlyValidated
<1>. QED
  BY <1>6, <1>7, <1>8, <1>9, <1>10, <1>11, <1>12 DEF Live

(* Registration of an instance that is kept, also by the VM. *)
LEMMA RegisterInd ==
  ASSUME Live, NEW i \in Kept \cap DOMAIN insts, Register(i), Stage' # Stage => Stage' = "Validated",
         UNCHANGED <<Mod, Comp, ActiveModInst, ActiveCompInst, RegModInsts, BuiltIn,
                     insts, FailedMod, hosts, pending, forced, outlived>>
  PROVE  Live'
<1>1. i \in DOMAIN insts
  OBVIOUS
<1>2. LinksAgree' /\ NamedMod' \in [DOMAIN NamedMod' -> DOMAIN insts']
  BY <1>1, RegisterLinks DEF Live
<1>3. Kept' = Kept /\ Pending' = Pending
  BY DEF Kept, Pending, Some
<1>4. TypeOK'
  BY <1>2 DEF Live, TypeOK
<1>5. OwnersInv'
  BY <1>3 DEF Live, OwnersInv, Some
<1>6. LinkInv'
  BY <1>3 DEF Live, LinkInv, Register, ImportsBy
<1>7. StageInv' /\ InstantiatedIsCurrent' /\ OnlyValidated'
  BY DEF Live, StageInv, InstantiatedIsCurrent, OnlyValidated
<1>. QED  BY <1>2, <1>4, <1>5, <1>6, <1>7 DEF Live

(* What is left after destructors ran. *)
LEMMA DestroyProps ==
  ASSUME TypeOK, NEW gone, insts' = Restrict(insts, DOMAIN insts \ gone)
  PROVE  /\ DOMAIN insts' = DOMAIN insts \ gone
         /\ \A i \in DOMAIN insts' : insts'[i] = insts[i]
         /\ insts' \in [DOMAIN insts' -> [name : Names \cup {Wasi, None},
                                          ast : Asts \cup {None},
                                          imports : SUBSET (1 .. MaxInsts)]]
         /\ DOMAIN insts' \subseteq 1 .. MaxInsts
BY DEF TypeOK, Restrict

(* unregisterModule and deletion of one instance do what the destructor of *)
(* a registered instance does.                                             *)
LEMMA ForceDeleteDestroys ==
  ASSUME Live, NEW n, ForceDelete(n)
  PROVE  \E i \in (Kept \cap DOMAIN insts) \ Imported :
           /\ Destroy({i}) /\ hosts' = hosts \ {i} /\ forced' = forced \cup ({i} \ hosts)
           /\ UNCHANGED <<vmVars, FailedMod, pending, outlived>>
<1> DEFINE i == NamedMod[n]
<1>1. i \notin Imported /\ i \in linked /\ insts[i].name = n
  BY DEF ForceDelete, Live, LinksAgree, Range
<1>2. i \in (Kept \cap DOMAIN insts) \ Imported
  BY <1>1 DEF Live, LinksAgree, LinkInv
<1>3. {insts[j].name : j \in {i} \cap linked} = {n}
  BY <1>1
<1>4. /\ Destroy({i}) /\ hosts' = hosts \ {i} /\ forced' = forced \cup ({i} \ hosts)
      /\ UNCHANGED <<vmVars, FailedMod, pending, outlived>>
  BY <1>3 DEF ForceDelete, Destroy
<1>. QED  BY <1>2, <1>4, Zenon

(* Deletion of a registered or a host module that nobody has imported.     *)
LEMMA DeleteInd ==
  ASSUME Live, NEW i \in (Kept \cap DOMAIN insts) \ Imported, Destroy({i}),
         hosts' = hosts \ {i}, forced' = forced \cup ({i} \ hosts),
         UNCHANGED <<vmVars, FailedMod, pending, outlived>>
  PROVE  Live'
<1> USE ConstantsOK
<1>1. /\ DOMAIN insts' = DOMAIN insts \ {i}
      /\ \A j \in DOMAIN insts' : insts'[j] = insts[j]
      /\ insts' \in [DOMAIN insts' -> [name : Names \cup {Wasi, None},
                                       ast : Asts \cup {None},
                                       imports : SUBSET (1 .. MaxInsts)]]
      /\ DOMAIN insts' \subseteq 1 .. MaxInsts
  BY DestroyProps, Zenon DEF Live, Destroy
<1>2. LinksAgree' /\ NamedMod' \in [DOMAIN NamedMod' -> DOMAIN insts']
  BY DestroyLinks DEF Live
<1>3. /\ Pending' = Pending /\ linked' = linked \ {i}
      /\ UNCHANGED <<Stage, Mod, Comp, ActiveModInst, ActiveCompInst, RegModInsts,
                     BuiltIn, FailedMod, pending, outlived>>
  BY DEF vmVars, Pending, Some, Destroy
<1>k. Kept' \ forced' = (Kept \ forced) \ {i} /\ Kept \ {i} \subseteq Kept'
  BY <1>3 DEF Kept, Live, OwnersInv
<1>4. i \notin Pending /\ i \notin Some(ActiveModInst) /\ i \notin Some(FailedMod)
  BY DEF Live, OwnersInv, Kept
<1>5. TypeOK'
  <2>1. pending = Idle \/ pending.inst \in DOMAIN insts'
    BY <1>1, <1>4 DEF Live, TypeOK, Pending, Some
  <2>. QED  BY <1>1, <1>2, <1>3, <2>1 DEF Live, TypeOK
<1>6. OwnersInv'
  BY <1>1, <1>3, <1>4 DEF Live, OwnersInv, Kept, Some
<1>7. LinkInv'
  <2>1. \A j \in DOMAIN insts' : ImportsBy(j)' = ImportsBy(j) /\ i \notin ImportsBy(j)
    BY <1>1, <1>3 DEF ImportsBy, Imported
  <2>2. \A j \in DOMAIN insts' : ImportsBy(j)' \subseteq Kept' \ forced'
    BY <1>1, <1>k, <2>1 DEF Live, LinkInv
  <2>3. \A j \in ((hosts \cup {BuiltIn}) \cap DOMAIN insts)' : insts'[j].imports = {}
    BY <1>1, <1>3 DEF Live, LinkInv
  <2>4. linked' \subseteq Kept' /\ (BuiltIn' \in DOMAIN insts' => insts'[BuiltIn'].name = Wasi)
    BY <1>1, <1>3, <1>k DEF Live, LinkInv
  <2>. QED  BY <2>2, <2>3, <2>4 DEF LinkInv
<1>8. StageInv'
  BY <1>1, <1>3, <1>5 DEF Live, StageInv, TypeOK, Idle
<1>9. InstantiatedIsCurrent'
  BY <1>1, <1>3, <1>4, HeldLives DEF Live, InstantiatedIsCurrent, Some
<1>10. OnlyValidated'
  BY <1>1 DEF Live, OnlyValidated
<1>. QED
  BY <1>2, <1>5, <1>6, <1>7, <1>8, <1>9, <1>10 DEF Live

(* A failed instance is kept in place of the last one: neither is named by *)
(* the store or imported.                                                  *)
LEMMA RecycleInd ==
  ASSUME Live, Recycle
  PROVE  Live'
<1> USE ConstantsOK
<1> DEFINE gone == Some(FailedMod)
<1>1. /\ DOMAIN insts' = DOMAIN insts \ gone
      /\ \A j \in DOMAIN insts' : insts'[j] = insts[j]
      /\ insts' \in [DOMAIN insts' -> [name : Names \cup {Wasi, None},
                                       ast : Asts \cup {None},
                                       imports : SUBSET (1 .. MaxInsts)]]
      /\ DOMAIN insts' \subseteq 1 .. MaxInsts
  BY DestroyProps, Zenon DEF Live, Destroy, Recycle
<1>2. LinksAgree' /\ NamedMod' \in [DOMAIN NamedMod' -> DOMAIN insts']
  BY DestroyLinks DEF Live, Recycle
<1>3. /\ Kept' = Kept /\ linked' = linked \ gone
      /\ FailedMod' = pending.inst /\ pending' = Idle /\ outlived' = {}
      /\ UNCHANGED <<Stage, Mod, Comp, ActiveModInst, ActiveCompInst, RegModInsts,
                     BuiltIn, hosts, forced>>
  BY DEF vmVars, Kept, Recycle, Destroy
<1>4. pending.inst \in DOMAIN insts /\ pending.inst # None
  BY DEF Recycle, Live, TypeOK
<1>5. Pending = {pending.inst} /\ Pending' = {} /\ Some(FailedMod') = {pending.inst}
  BY <1>3, <1>4 DEF Pending, Some, Idle
<1>6. TypeOK'
  BY <1>1, <1>2, <1>3 DEF Live, TypeOK
<1>7. OwnersInv'
  BY <1>1, <1>3, <1>5 DEF Live, OwnersInv, Some
<1>8. LinkInv'
  <2>1. \A j \in DOMAIN insts' : j # FailedMod
    BY <1>1, <1>4 DEF Some, Live, TypeOK
  <2>2. \A j \in DOMAIN insts' : ImportsBy(j)' \subseteq insts[j].imports
                                 /\ ImportsBy(j) = insts[j].imports
    BY <1>1, <2>1 DEF ImportsBy
  <2>3. \A j \in DOMAIN insts' : ImportsBy(j)' \subseteq Kept' \ forced'
    BY <1>1, <1>3, <2>2 DEF Live, LinkInv
  <2>4. \A j \in ((hosts \cup {BuiltIn}) \cap DOMAIN insts)' : insts'[j].imports = {}
    BY <1>1, <1>3 DEF Live, LinkInv
  <2>5. linked' \subseteq Kept' /\ (BuiltIn' \in DOMAIN insts' => insts'[BuiltIn'].name = Wasi)
    BY <1>1, <1>3 DEF Live, LinkInv
  <2>. QED  BY <2>3, <2>4, <2>5 DEF LinkInv
<1>9. StageInv'
  BY <1>3 DEF Live, StageInv, Idle
<1>10. InstantiatedIsCurrent'
  <2>1. Some(ActiveModInst) \cap gone = {}
    BY DEF Live, OwnersInv
  <2>. QED  BY <1>1, <1>3, <2>1, HeldLives DEF Live, InstantiatedIsCurrent, Some
<1>11. OnlyValidated'
  BY <1>1 DEF Live, OnlyValidated
<1>. QED
  BY <1>2, <1>6, <1>7, <1>8, <1>9, <1>10, <1>11 DEF Live

(* The new instance takes the place of the active one, which nobody names  *)
(* or imports.                                                             *)
LEMMA ActivateInd ==
  ASSUME Live, Activate
  PROVE  Live'
<1> USE ConstantsOK
<1> DEFINE gone == Some(ActiveModInst)
<1>1. /\ DOMAIN insts' = DOMAIN insts \ gone
      /\ \A j \in DOMAIN insts' : insts'[j] = insts[j]
      /\ insts' \in [DOMAIN insts' -> [name : Names \cup {Wasi, None},
                                       ast : Asts \cup {None},
                                       imports : SUBSET (1 .. MaxInsts)]]
      /\ DOMAIN insts' \subseteq 1 .. MaxInsts
  BY DestroyProps, Zenon DEF Live, Destroy, Activate
<1>2. LinksAgree' /\ NamedMod' \in [DOMAIN NamedMod' -> DOMAIN insts']
  BY DestroyLinks DEF Live, Activate
<1>3. /\ Kept' = Kept /\ linked' = linked \ gone
      /\ ActiveModInst' = pending.inst /\ pending' = Idle
      /\ Stage' = IF pending.op = "run" THEN Stage ELSE "Instantiated"
      /\ UNCHANGED <<Mod, Comp, ActiveCompInst, RegModInsts, BuiltIn, FailedMod,
                     hosts, forced, outlived>>
  BY DEF Kept, Activate, Destroy
<1>4. /\ pending # Idle /\ pending.op \in {"instantiate", "run"}
      /\ pending.inst \in DOMAIN insts /\ pending.inst # None
  BY DEF Activate, Live, TypeOK
<1>5. Pending = {pending.inst} /\ Pending' = {} /\ Some(ActiveModInst') = {pending.inst}
  BY <1>3, <1>4 DEF Pending, Some, Idle
<1>6. TypeOK'
  BY <1>1, <1>2, <1>3 DEF Live, TypeOK
<1>7. OwnersInv'
  BY <1>1, <1>3, <1>5 DEF Live, OwnersInv, Some
<1>8. LinkInv'
  <2>1. \A j \in DOMAIN insts' : ImportsBy(j)' = ImportsBy(j)
    BY <1>1, <1>3 DEF ImportsBy
  <2>2. \A j \in DOMAIN insts' : ImportsBy(j)' \subseteq Kept' \ forced'
    BY <1>1, <1>3, <2>1 DEF Live, LinkInv
  <2>3. \A j \in ((hosts \cup {BuiltIn}) \cap DOMAIN insts)' : insts'[j].imports = {}
    BY <1>1, <1>3 DEF Live, LinkInv
  <2>4. linked' \subseteq Kept' /\ (BuiltIn' \in DOMAIN insts' => insts'[BuiltIn'].name = Wasi)
    BY <1>1, <1>3 DEF Live, LinkInv
  <2>. QED  BY <2>2, <2>3, <2>4 DEF LinkInv
<1>9. StageInv'
  BY <1>3 DEF Live, StageInv, Idle
<1>10. InstantiatedIsCurrent'
  <2>1. pending.inst \in DOMAIN insts'
    BY <1>1, <1>4, <1>5 DEF Live, OwnersInv
  <2>2. CASE pending.op = "instantiate"
    BY <1>1, <1>3, <1>4, <2>1, <2>2 DEF Live, StageInv, InstantiatedIsCurrent
  <2>3. CASE pending.op = "run"
    BY <1>1, <1>3, <1>4, <2>1, <2>3 DEF Live, StageInv, InstantiatedIsCurrent
  <2>. QED  BY <1>4, <2>2, <2>3
<1>11. OnlyValidated'
  BY <1>1 DEF Live, OnlyValidated
<1>. QED
  BY <1>2, <1>6, <1>7, <1>8, <1>9, <1>10, <1>11 DEF Live

(* The new instance is kept under its name, or without one. *)
LEMMA FinishRegisterInd ==
  ASSUME Live, FinishRegister
  PROVE  Live'
<1> USE ConstantsOK
<1>1. /\ RegModInsts' = RegModInsts \cup {pending.inst} /\ pending' = Idle
      /\ UNCHANGED <<Stage, Mod, Comp, ActiveModInst, ActiveCompInst, BuiltIn,
                     insts, FailedMod, hosts, forced, outlived>>
  BY DEF FinishRegister, history
<1>2. pending.inst \in DOMAIN insts /\ pending.inst # None
  BY DEF FinishRegister, Live, TypeOK
<1>3. /\ Pending = {pending.inst} /\ Pending' = {}
      /\ Kept' = Kept \cup {pending.inst}
  BY <1>1, <1>2 DEF Pending, Some, Idle, Kept
<1>4. /\ LinksAgree' /\ NamedMod' \in [DOMAIN NamedMod' -> DOMAIN insts']
      /\ linked' \subseteq linked \cup {pending.inst}
  <2>1. CASE Register(pending.inst)
    BY <1>1, <1>2, <2>1, RegisterLinks DEF Live, Register
  <2>2. CASE UNCHANGED storeVars
    BY <1>1, <2>2 DEF Live, TypeOK, LinksAgree, Range, storeVars
  <2>. QED  BY <2>1, <2>2 DEF FinishRegister
<1>5. TypeOK'
  BY <1>1, <1>4 DEF Live, TypeOK
<1>6. OwnersInv'
  BY <1>1, <1>3 DEF Live, OwnersInv, Kept, Some
<1>7. LinkInv'
  <2>1. \A j \in DOMAIN insts' : ImportsBy(j)' = ImportsBy(j)
    BY <1>1 DEF ImportsBy
  <2>. QED  BY <1>1, <1>3, <1>4, <2>1 DEF Live, LinkInv
<1>8. StageInv' /\ InstantiatedIsCurrent' /\ OnlyValidated'
  BY <1>1 DEF Live, StageInv, InstantiatedIsCurrent, OnlyValidated, Idle
<1>. QED  BY <1>4, <1>5, <1>6, <1>7, <1>8 DEF Live

(* What stays imports nothing that went, and the store is as new; what was *)
(* deleted twice the embedder had deleted.                                 *)
LEMMA CleanupInd ==
  ASSUME Live, Cleanup
  PROVE  IndInv'
<1> USE ConstantsOK
<1> DEFINE left == Restrict(insts, DOMAIN insts \ Cleared)
<1>1. /\ DOMAIN insts' = (DOMAIN insts \ Cleared) \cup {BuiltIn}
      /\ insts'[BuiltIn] = Inst(Wasi, None, {})
      /\ \A j \in DOMAIN insts' : j # BuiltIn => insts'[j] = insts[j] /\ j \in DOMAIN insts \ Cleared
      /\ insts' = [j \in DOMAIN insts' |-> insts'[j]]
  <2>1. DOMAIN left = DOMAIN insts \ Cleared /\ \A j \in DOMAIN left : left[j] = insts[j]
    BY DEF Restrict
  <2>2. insts' = Extend(left, BuiltIn, Inst(Wasi, None, {}))
    BY DEF Cleanup, Forget
  <2> HIDE DEF left
  <2>. QED  BY <2>1, <2>2 DEF Extend
<1>2. /\ Stage' = "Inited" /\ Mod' = None
      /\ ActiveModInst' = None /\ RegModInsts' = {}
      /\ NamedMod' = [n \in {Wasi} |-> BuiltIn] /\ linked' = {BuiltIn}
      /\ pending = Idle
      /\ twice' = Cleared \ DOMAIN insts
      /\ outlived' = outlived \cup (IF FailedMod = None THEN {} ELSE insts[FailedMod].imports \cap Cleared)
      /\ UNCHANGED <<BuiltIn, FailedMod, hosts, pending, forced>>
  BY DEF Cleanup, Forget, NewHosts
<1>3. /\ Kept' = hosts \cup {BuiltIn} /\ Pending = {} /\ Pending' = {}
      /\ Some(ActiveModInst') = {}
  BY <1>2 DEF Kept, Pending, Some, Idle
<1>4. DOMAIN insts' = hosts \cup {BuiltIn} \cup Some(FailedMod) /\ BuiltIn \notin Some(FailedMod)
  BY <1>1, <1>3 DEF Live, OwnersInv, Kept, Cleared
<1>5. twice' \subseteq forced /\ (twice' = {} => forced = {})
  BY <1>2 DEF Live, OwnersInv, Kept, Cleared, Some
<1>b. BuiltIn \in 1 .. MaxInsts
  BY DEF Live, TypeOK
<1>6. TypeOK'
  <2>1. insts' \in [DOMAIN insts' -> [name : Names \cup {Wasi, None},
                                      ast : Asts \cup {None},
                                      imports : SUBSET (1 .. MaxInsts)]]
    BY <1>1 DEF Live, TypeOK, Inst
  <2>2. DOMAIN insts' \subseteq 1 .. MaxInsts
    BY <1>1, <1>b DEF Live, TypeOK
  <2>. QED  BY <1>2, <1>4, <2>1, <2>2 DEF TypeOK
<1>7. LinksAgree'
  BY <1>1, <1>2, <1>4 DEF LinksAgree, Range, Inst
<1>8. StageInv' /\ InstantiatedIsCurrent' /\ OnlyValidated'
  BY <1>1, <1>2 DEF Live, StageInv, InstantiatedIsCurrent, OnlyValidated, Idle, Inst
<1>9. ASSUME twice' = {} PROVE OwnersInv'
  BY <1>2, <1>3, <1>4, <1>5, <1>9 DEF Live, OwnersInv, Kept, Some
<1>10. ASSUME twice' = {} PROVE LinkInv'
  <2>1. ASSUME NEW j \in DOMAIN insts', j # BuiltIn
        PROVE  ImportsBy(j)' \subseteq Kept' \ forced'
    <3>1. insts'[j] = insts[j] /\ j \in DOMAIN insts
      BY <1>1, <2>1
    <3>2. CASE j \in hosts
      BY <1>2, <3>1, <3>2 DEF ImportsBy, Live, LinkInv
    <3>3. CASE j = FailedMod
      <4>1. ImportsBy(j)' \subseteq ImportsBy(j) \ Cleared
        <5>1. PICK im : im = insts[FailedMod].imports
          OBVIOUS
        <5>2. FailedMod # None
          BY <3>1, <3>3 DEF Live, TypeOK
        <5>3. outlived' = outlived \cup (im \cap Cleared)
          BY <1>2, <5>1, <5>2
        <5>4. ImportsBy(j)' = im \ outlived' /\ ImportsBy(j) = im \ outlived
          BY <1>2, <3>1, <3>3, <5>1 DEF ImportsBy
        <5>. QED  BY <5>3, <5>4
      <4>2. ImportsBy(j) \subseteq Kept \ forced
        BY <3>1 DEF Live, LinkInv
      <4>. QED  BY <1>2, <1>3, <4>1, <4>2 DEF Kept, Cleared
    <3>. QED  BY <1>4, <2>1, <3>2, <3>3 DEF Some
  <2>b. PICK b : b = BuiltIn
    OBVIOUS
  <2>2. ImportsBy(b)' = {}
    BY <1>1, <2>b DEF ImportsBy, Inst
  <2>3. \A j \in DOMAIN insts' : ImportsBy(j)' \subseteq Kept' \ forced'
    BY <2>1, <2>2, <2>b
  <2>4. \A j \in ((hosts \cup {BuiltIn}) \cap DOMAIN insts)' : insts'[j].imports = {}
    BY <1>1, <1>2 DEF Live, LinkInv, Inst
  <2>5. linked' \subseteq Kept' /\ insts'[BuiltIn'].name = Wasi
    BY <1>1, <1>2, <1>3 DEF Inst
  <2>. QED  BY <2>3, <2>4, <2>5 DEF LinkInv
<1>. QED  BY <1>2, <1>5, <1>6, <1>7, <1>8, <1>9, <1>10 DEF IndInv

(* Every step but a cleanup keeps the invariant as long as nothing was     *)
(* deleted twice, and deletes nothing twice.                               *)
LEMMA LiveStep ==
  ASSUME Live, twice = {}, Step
  PROVE  (Live' /\ twice' = {}) \/ Cleanup
<1> USE ConstantsOK
<1>0. /\ Mod \in {None} \cup [ast : Asts, valid : BOOLEAN]
      /\ Mod # None /\ Mod.valid => Mod.ast \notin Invalid
      /\ Stage \in {"Inited", "Loaded", "Validated", "Instantiated"}
  BY DEF Live, TypeOK, StageInv
<1>h. hosts \subseteq DOMAIN insts
  BY DEF Live, OwnersInv, Kept
<1>u. UNCHANGED history => twice' = {}
  BY DEF history
<1>d. ASSUME NEW gone, gone \subseteq DOMAIN insts, Destroy(gone) PROVE twice' = {}
  BY <1>d DEF Destroy
<1>1. ASSUME NEW n \in Names, CreateHost(n) PROVE Live'
  BY <1>1, CreateHostInd
<1>2. ASSUME NEW i \in hosts, RegisterHost(i) PROVE Live'
  BY <1>2, <1>h, RegisterInd DEF RegisterHost, vmVars, Kept, history
<1>3. ASSUME NEW i \in hosts, DeleteHost(i) PROVE Live'
  <2>1. i \in (Kept \cap DOMAIN insts) \ Imported /\ forced' = forced \cup ({i} \ hosts)
    BY <1>3, <1>h DEF DeleteHost, Kept
  <2>. QED  BY <1>3, <2>1, DeleteInd DEF DeleteHost
<1>4. ASSUME NEW i \in hosts, RegisterImport(i) PROVE Live'
  <2>1. CASE Register(i)
    BY <1>4, <2>1, <1>h, RegisterInd DEF RegisterImport, Demote, Kept, history
  <2>2. CASE UNCHANGED storeVars
    BY <1>0, <1>4, <2>2, StageInd
    DEF RegisterImport, Demote, storeVars, history, InstantiatedIsCurrent
  <2>. QED  BY <1>4, <2>1, <2>2 DEF RegisterImport
<1>5. ASSUME NEW n \in DOMAIN NamedMod, ForceDelete(n) PROVE Live'
  BY <1>5, ForceDeleteDestroys, DeleteInd, Zenon
<1>6. ASSUME NEW a \in Asts, NEW valid \in BOOLEAN, LoadModule(a, valid)
      PROVE  Live'
  BY <1>6, StageInd DEF LoadModule, storeVars, history, InstantiatedIsCurrent
<1>7. ASSUME NEW a \in Asts, NEW loads \in BOOLEAN, RunWasmFile(a, loads)
      PROVE  Live'
  <2>1. /\ pending = Idle
        /\ Mod' \in {None} \cup [ast : Asts, valid : BOOLEAN]
        /\ Mod' # None /\ Mod'.valid => Mod'.ast \notin Invalid
        /\ Stage' \in {"Inited", "Loaded", "Validated", "Instantiated"}
        /\ Stage' # "Instantiated"
        /\ UNCHANGED <<Comp, ActiveModInst, ActiveCompInst, RegModInsts, BuiltIn,
                       hosts, forced, outlived>>
    BY <1>0, <1>7 DEF RunWasmFile, Demote, history
  <2>2. CASE a \in Invalid
    BY <1>7, <2>1, <2>2, StageInd, SMTT(60)
       DEF RunWasmFile, storeVars, history, InstantiatedIsCurrent
  <2>3. CASE a \notin Invalid
    <3>1. Begin("run", a, None)
      BY <1>7, <2>3 DEF RunWasmFile
    <3>. QED  BY <2>1, <2>3, <3>1, BeginInd
  <2>. QED  BY <2>2, <2>3
<1>8. ASSUME NEW n \in Names, NEW a \in Asts, RegisterModule(n, a) PROVE Live'
  <2>1. /\ pending = Idle
        /\ Stage' \in {"Inited", "Loaded", "Validated", "Instantiated"}
        /\ Stage' # "Instantiated"
        /\ UNCHANGED <<Mod, Comp, ActiveModInst, ActiveCompInst, RegModInsts,
                       BuiltIn, hosts, forced, outlived>>
    BY <1>0, <1>8 DEF RegisterModule, Demote, history
  <2>2. CASE a \in Invalid \/ n \in DOMAIN NamedMod
    BY <1>0, <1>8, <2>1, <2>2, StageInd, SMTT(60)
    DEF RegisterModule, storeVars, history, InstantiatedIsCurrent
  <2>3. CASE ~(a \in Invalid \/ n \in DOMAIN NamedMod)
    <3>1. Begin("register", a, n)
      BY <1>8, <2>3 DEF RegisterModule
    <3>. QED  BY <1>0, <2>1, <2>3, <3>1, BeginInd
  <2>. QED  BY <2>2, <2>3, SMTT(60)
<1>9. ASSUME NEW c \in {"good", "bad"}, LoadComponent(c) PROVE Live'
  BY <1>0, <1>9, StageInd DEF LoadComponent, storeVars, history, InstantiatedIsCurrent
<1>10. ASSUME NEW c \in {"good", "bad"}, RunComponent(c) PROVE Live'
  BY <1>0, <1>10, StageInd DEF RunComponent, Demote, storeVars, history, InstantiatedIsCurrent
<1>11. ASSUME Validate PROVE Live'
  BY <1>0, <1>11, StageInd, Zenon DEF Validate, storeVars, history, InstantiatedIsCurrent
<1>12. ASSUME InstantiateModule PROVE Live'
  <2>1. Begin("instantiate", Mod.ast, None) /\ UNCHANGED <<vmVars, hosts, history>>
    BY <1>12 DEF InstantiateModule
  <2>2. pending = Idle /\ Mod # None /\ Mod.ast \in Asts \ Invalid
    BY <1>0, <1>12 DEF InstantiateModule
  <2>. QED  BY <1>0, <2>1, <2>2, BeginInd DEF vmVars, history
<1>13. ASSUME InstantiateComponent PROVE Live'
  BY <1>0, <1>13, StageInd DEF InstantiateComponent, storeVars, history, InstantiatedIsCurrent
<1>14. ASSUME Recycle \/ Activate PROVE twice' = {}
  <2>1. Some(FailedMod) \subseteq DOMAIN insts /\ Some(ActiveModInst) \subseteq DOMAIN insts
    BY DEF Live, OwnersInv, Kept
  <2>. QED  BY <1>14, <1>d, <2>1, Zenon DEF Recycle, Activate
<1>15. ASSUME NEW i \in hosts, DeleteHost(i) PROVE twice' = {}
  BY <1>15, <1>d, <1>h DEF DeleteHost
<1>16. ASSUME NEW n \in DOMAIN NamedMod, ForceDelete(n) PROVE twice' = {}
  <2>1. PICK i \in DOMAIN insts : Destroy({i})
    BY <1>16, ForceDeleteDestroys, Zenon
  <2>. QED  BY <2>1, <1>d
<1>17. ASSUME NEW n \in Names, CreateHost(n) PROVE twice' = {}
  BY <1>17, <1>u DEF CreateHost
<1>18. ASSUME NEW i, RegisterHost(i) \/ RegisterImport(i) PROVE twice' = {}
  BY <1>18, <1>u DEF RegisterHost, RegisterImport
<1>19. ASSUME NEW a, NEW b, LoadModule(a, b) \/ RunWasmFile(a, b) \/ RegisterModule(a, b)
       PROVE  twice' = {}
  BY <1>19, <1>u DEF LoadModule, RunWasmFile, RegisterModule
<1>20. ASSUME NEW c, LoadComponent(c) \/ RunComponent(c) PROVE twice' = {}
  BY <1>20, <1>u DEF LoadComponent, RunComponent
<1>21. ASSUME Validate \/ InstantiateModule \/ InstantiateComponent \/ FinishRegister
       PROVE  twice' = {}
  BY <1>21, <1>u DEF Validate, InstantiateModule, InstantiateComponent, FinishRegister
<1>. QED
  BY <1>1, <1>2, <1>3, <1>4, <1>5, <1>6, <1>7, <1>8, <1>9, <1>10, <1>11, <1>12,
     <1>13, <1>14, <1>15, <1>16, <1>17, <1>18, <1>19, <1>20, <1>21,
     RecycleInd, ActivateInd, FinishRegisterInd, Zenon DEF Step

(* Every step keeps the invariant. *)
LEMMA IndNext ==
  ASSUME IndInv, [Next]_vars
  PROVE  IndInv'
<1>1. CASE Next
  <2>1. Live /\ twice = {} /\ Step
    BY <1>1 DEF IndInv, Live, Next
  <2>2. CASE Cleanup
    BY <2>1, <2>2, CleanupInd
  <2>3. CASE Live' /\ twice' = {}
    BY <2>3 DEF IndInv, Live
  <2>. QED  BY <2>1, <2>2, <2>3, LiveStep
<1>2. CASE UNCHANGED vars
  <2>1. UNCHANGED <<Stage, Mod, Comp, ActiveModInst, ActiveCompInst, RegModInsts, BuiltIn,
                    insts, FailedMod, hosts, NamedMod, linked, pending, forced, twice, outlived>>
    BY <1>2 DEF vars, vmVars, storeVars, history
  <2>2. TypeOK' /\ StageInv' /\ InstantiatedIsCurrent' /\ OnlyValidated' /\ LinksAgree'
    BY <2>1 DEF IndInv, TypeOK, StageInv, InstantiatedIsCurrent, OnlyValidated, LinksAgree, Range
  <2>3. ASSUME twice = {} PROVE OwnersInv' /\ LinkInv'
    BY <2>1, <2>3, StageOnly DEF IndInv, Live
  <2>. QED  BY <2>1, <2>2, <2>3 DEF IndInv
<1>. QED  BY <1>1, <1>2

-----------------------------------------------------------------------------

(* The inductive invariant holds of every behaviour, whatever              *)
(* WasmEdge_VMForceDeleteRegisteredModule is given.                        *)
THEOREM Invariance ==
  Spec => []IndInv
<1>1. IndInv /\ [Next]_vars => IndInv'
  BY IndNext
<1>. QED  BY IndInit, <1>1, PTL DEF Spec

(* The store names live instances by their names, and they know that they  *)
(* are named: StoreManager::NamedMod and ModuleInstance::LinkedStore agree.*)
THEOREM StoreAgrees ==
  Spec => []LinksAgree
<1>1. IndInv => LinksAgree
  BY DEF IndInv
<1>. QED  BY <1>1, Invariance, PTL

(* Every instance has one owner, nothing is deleted twice but what the     *)
(* embedder deleted while the VM owned it, and whatever an instance has    *)
(* imported is alive, but for what a cleanup took from the failed one.     *)
THEOREM NothingDangles ==
  Spec => []NoDangling
<1>1. IndInv => NoDangling
  <2> SUFFICES ASSUME IndInv, twice = {}
               PROVE  /\ DOMAIN insts = AnyOwned \ forced
                      /\ \A o, p \in DOMAIN Owned : o # p => Owned[o] \cap Owned[p] = {}
                      /\ Imported \subseteq DOMAIN insts
    BY Zenon DEF IndInv, NoDangling
  <2>0. OwnersInv /\ LinkInv
    BY DEF IndInv
  <2>1. DOMAIN insts = AnyOwned \ forced
    <3>1. AnyOwned =
            Some(ActiveModInst) \cup RegModInsts \cup {BuiltIn} \cup Some(FailedMod)
              \cup hosts \cup Pending
      BY DEF AnyOwned, Owned
    <3>. QED  BY <2>0, <3>1 DEF OwnersInv, Kept
  <2>2. \A o, p \in DOMAIN Owned : o # p => Owned[o] \cap Owned[p] = {}
    BY <2>0 DEF OwnersInv, Kept, Owned
  <2>3. Imported \subseteq DOMAIN insts
    BY <2>0 DEF OwnersInv, LinkInv, Imported
  <2>. QED  BY <2>1, <2>2, <2>3
<1>. QED  BY <1>1, Invariance, PTL

(* A VM in stage Instantiated runs the unit that is loaded. *)
THEOREM RunsWhatIsLoaded ==
  Spec => []InstantiatedIsCurrent
<1>1. IndInv => InstantiatedIsCurrent
  BY DEF IndInv
<1>. QED  BY <1>1, Invariance, PTL

(* unsafeInstantiate, unsafeRunWasmFile and unsafeRegisterModule make no   *)
(* instance of a module that does not validate.                            *)
THEOREM InstancesAreValid ==
  Spec => []OnlyValidated
<1>1. IndInv => OnlyValidated
  BY DEF IndInv
<1>. QED  BY <1>1, Invariance, PTL
=============================================================================
