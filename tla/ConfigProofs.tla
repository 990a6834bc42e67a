---------------------------- MODULE ConfigProofs ----------------------------
(***************************************************************************)
(* From a parsed file to its targets: the values keep their types through  *)
(* the defaults and the expansion, expansion never yields two explicit     *)
(* entries of one identity, what is accepted meets the assumptions of the  *)
(* rest of the program, whatever the file says, and expansion, taken one   *)
(* specification at a time, comes to what is said of whole lists.          *)
(***************************************************************************)
EXTENDS ConfigLoad, SequenceTheorems, FiniteSetTheorems, TLAPS

(* Defaults fill in values of the same kinds. *)
LEMMA DefaultedType ==
    ASSUME NEW c \in Config
    PROVE  Defaulted(c) \in Config /\ Defaulted(c).defaults.attrs \in Attrs
<1> DEFINE address == Or(c.address, VaultAddr, "")
           method == Or(c.method, "token", "")
           token == IF c.method \in {"", "token"} THEN Or(c.token, {"env"}, {}) ELSE c.token
           interval == Or(c.interval, DefaultInterval, 0)
           concurrency == Or(c.concurrency, DefaultConcurrency, 0)
           timeout == Or(c.timeout, DefaultTimeout, Unset)
           policy == Or(c.policy, "error", "")
           defaults == Completed(c.defaults)
<1>1. address \in Texts /\ method \in Texts /\ policy \in Texts
  BY LoadAssumption DEF Or, Config
<1>2. token \in References
  BY DEF Or, Config, References
<1>3. interval \in Int /\ concurrency \in Int /\ timeout \in Int \union {Unset}
  BY LoadAssumption DEF Or, Config
<1>4. defaults \in Defaults /\ defaults.attrs \in Attrs
  <2>1. c.defaults \in Defaults
    BY DEF Config
  <2> QED
    BY <2>1, LoadAssumption, ExpandAssumption DEF Or, Completed, Defaults
<1>5. Defaulted(c) =
          [c EXCEPT !.address = address, !.method = method, !.token = token,
                    !.interval = interval, !.concurrency = concurrency, !.timeout = timeout,
                    !.policy = policy, !.defaults = defaults]
  BY DEF Defaulted, Config
<1> HIDE DEF address, method, token, interval, concurrency, timeout, policy, defaults
<1>6. \A k \in Config, v \in Texts :
         [k EXCEPT !.address = v] \in Config /\ [k EXCEPT !.method = v] \in Config
  BY DEF Config
<1>7. \A k \in Config, v \in References : [k EXCEPT !.token = v] \in Config
  BY DEF Config
<1>8. \A k \in Config, v \in Int :
         [k EXCEPT !.interval = v] \in Config /\ [k EXCEPT !.concurrency = v] \in Config
  BY DEF Config
<1>9. \A k \in Config, v \in Int \union {Unset} : [k EXCEPT !.timeout = v] \in Config
  BY DEF Config
<1>10. \A k \in Config, v \in Texts : [k EXCEPT !.policy = v] \in Config
  BY DEF Config
<1>11. \A k \in Config, v \in Defaults :
          [k EXCEPT !.defaults = v] \in Config /\ [k EXCEPT !.defaults = v].defaults = v
  BY DEF Config
<1>12. Defaulted(c) =
           [[[[[[[[c EXCEPT !.address = address] EXCEPT !.method = method]
               EXCEPT !.token = token] EXCEPT !.interval = interval]
               EXCEPT !.concurrency = concurrency] EXCEPT !.timeout = timeout]
               EXCEPT !.policy = policy] EXCEPT !.defaults = defaults]
  BY <1>5
<1>13. PICK k \in Config : k = [[[[c EXCEPT !.address = address] EXCEPT !.method = method]
                                  EXCEPT !.token = token] EXCEPT !.interval = interval]
  BY <1>1, <1>2, <1>3, <1>6, <1>7, <1>8
<1>14. PICK l \in Config : l = [[[k EXCEPT !.concurrency = concurrency]
                                 EXCEPT !.timeout = timeout] EXCEPT !.policy = policy]
  BY <1>1, <1>3, <1>8, <1>9, <1>10
<1>15. Defaulted(c) = [l EXCEPT !.defaults = defaults]
  BY <1>12, <1>13, <1>14
<1> QED
  BY <1>4, <1>11, <1>15

(* What the expansion relies on: the defaults are filled in, and the bundles *)
(* that targets list are declared.                                          *)
Bundled(t) == \A i \in DOMAIN t.bundles : t.bundles[i] \in Declared
Sourced ==
    /\ stage # "parsed" => config.defaults.attrs \in Attrs
    /\ stage \in {"parsed", "defaulted"} => turn = 1
    /\ stage = "expanding" =>
          /\ turn \in DOMAIN config.targets
          /\ Bundled(target)
          /\ \A n \in DOMAIN config.targets : Bundled(config.targets[n])

(* The sources of a target are lists of specifications. *)
LEMMA SourceSpecs ==
    ASSUME TypeOK, Sourced, stage = "expanding", NEW n \in Sources
    PROVE  SpecsOf(n) \in Seq(VariableSpec)
<1>1. CASE FromBundle(n)
  <2>1. n \in DOMAIN target.bundles /\ target.bundles \in Seq(BundleNames)
    BY <1>1 DEF TypeOK, ExpandTypeOK, FromBundle, Sources, Target
  <2>2. target.bundles[n] \in Declared
    BY <2>1 DEF Sourced, Bundled
  <2>3. config.bundles \in [BundleNames -> Seq(VariableSpec) \union {Unset}]
    BY DEF TypeOK, Config
  <2> QED
    BY <1>1, <2>2, <2>3 DEF SpecsOf, FromBundle, Declared
<1>2. CASE ~FromBundle(n)
  BY <1>2 DEF TypeOK, ExpandTypeOK, SpecsOf, FromBundle, Target
<1> QED
  BY <1>1, <1>2

LEMMA SpecsType ==
    ASSUME TypeOK, Sourced, Reading
    PROVE  SpecsOf(source) \in Seq(VariableSpec) /\ SpecsOf(source)[at] \in VariableSpec
<1>1. SpecsOf(source) \in Seq(VariableSpec)
  BY SourceSpecs DEF Reading, TypeOK, ExpandTypeOK
<1> QED
  BY <1>1 DEF Reading

(* A specification resolves. *)
LEMMA ResolveType ==
    ASSUME TypeOK, config.defaults.attrs \in Attrs, NEW s \in VariableSpec
    PROVE  /\ Resolve(s) \in ResolvedVariable
           /\ Identity(Resolve(s)) \in Identities
           /\ Derived(Resolve(s)) => Signature(Resolve(s)) \in Signatures
<1> DEFINE v == Resolve(s)
<1>1. config.defaults \in Defaults
  BY DEF TypeOK, Config
<1>2. ASSUME NEW r \in VaultRef \union {Unset}
      PROVE  Mounted(r) \in VaultRef \union {Unset} /\ (r # Unset => Mounted(r) \in VaultRef)
  <2>1. CASE r = Unset
    BY <2>1 DEF Mounted
  <2>2. CASE r \in VaultRef
    <3>1. r # Unset
      BY <2>2, ExpandAssumption
    <3>2. config.defaults.mount \in Segments
      BY <1>1 DEF Defaults
    <3>3. Mounted(r) = [mount |-> IF r.mount = <<>> THEN config.defaults.mount ELSE r.mount,
                        path |-> r.path, field |-> r.field]
      BY <2>2, <3>1 DEF Mounted, VaultRef
    <3>4. /\ r.mount \in Segments /\ r.path \in Segments /\ r.field \in Texts
      BY <2>2 DEF VaultRef
    <3>5. Mounted(r) \in VaultRef
      BY <3>2, <3>3, <3>4 DEF VaultRef
    <3> QED
      BY <3>5
  <2> QED
    BY <2>1, <2>2
<1>3. v \in ResolvedVariable
  BY <1>1, <1>2, ExpandAssumption
     DEF Resolve, VariableSpec, ResolvedVariable, Defaults, TypeOK
<1> HIDE DEF v
<1>4. Identity(v) \in Identities
  BY <1>3 DEF Identity, Identities, ResolvedVariable
<1>5. ASSUME Derived(v)  PROVE Signature(v) \in Signatures
  <2>1. v.fromSecret \in VaultRef
    BY <1>3, <1>5 DEF Derived, ResolvedVariable
  <2>2. SecretKey(v.fromSecret) \in Segments
    BY <2>1, ConcatProperties DEF SecretKey, VaultRef, Segments
  <2> QED
    BY <1>3, <2>2 DEF Signature, Signatures, ResolvedVariable
<1> QED
  BY <1>3, <1>4, <1>5 DEF v

(* So does what is read from a source. *)
LEMMA CurrentType ==
    ASSUME TypeOK, Sourced, Reading
    PROVE  /\ Current \in ResolvedVariable
           /\ Identity(Current) \in Identities
           /\ Derived(Current) => Signature(Current) \in Signatures
<1>1. config.defaults.attrs \in Attrs /\ SpecsOf(source)[at] \in VariableSpec
  BY SpecsType DEF Sourced, Reading
<1> QED
  BY <1>1, ResolveType DEF Current

(* An index into a list that grows by one may take the new place. *)
LEMMA IndexType ==
    ASSUME NEW n \in Nat, NEW index \in [Identities -> 0..n], NEW id
    PROVE  [index EXCEPT ![id] = n + 1] \in [Identities -> 0..(n + 1)]
<1>1. \A i \in Identities : index[i] \in 0..(n + 1)
  OBVIOUS
<1>2. n + 1 \in 0..(n + 1)
  OBVIOUS
<1> QED
  BY <1>1, <1>2

(* A target that starts has nothing yet. *)
LEMMA StartsType ==
    ASSUME NEW t \in Target, Starts(t)
    PROVE  ExpandTypeOK'
<1>1. source' = 1 /\ at' = 1 /\ target' = t /\ Len(t.bundles) \in Nat
  BY DEF Starts, Target
<1>2. /\ ordered' = <<>> /\ originBundle' = <<>> /\ fromSecretSeen' = {} /\ refused' = {}
      /\ keyed' = [i \in Identities |-> 0]
  BY DEF Starts
<1> QED
  BY <1>1, <1>2 DEF ExpandTypeOK, Sources

(* Every call of add keeps the types of the expansion. *)
LEMMA AddType ==
    ASSUME TypeOK, Sourced, AddNext
    PROVE  ExpandTypeOK' /\ UNCHANGED <<stage, config, target>>
<1> USE DEF ExpandTypeOK, Advance, Sources
<1>0. ExpandTypeOK
  BY DEF TypeOK
<1>1. ASSUME Reading, Refuse  PROVE ExpandTypeOK' /\ UNCHANGED <<stage, config, target>>
  BY <1>0, <1>1 DEF Refuse
<1>2. ASSUME Reading, AppendEntry,
             keyed' \in [Identities -> 0..(Len(ordered) + 1)], fromSecretSeen' \subseteq Signatures
      PROVE  ExpandTypeOK' /\ UNCHANGED <<stage, config, target>>
  <2>1. ordered' \in Seq(ResolvedVariable) /\ Len(ordered') = Len(ordered) + 1
    BY <1>0, <1>2, CurrentType DEF AppendEntry
  <2>2. originBundle' \in Seq(BOOLEAN) /\ Len(originBundle') = Len(originBundle) + 1
    BY <1>0, <1>2 DEF AppendEntry, FromBundle
  <2> QED
    BY <1>0, <1>2, <2>1, <2>2 DEF AppendEntry
<1>3. CASE AddDerived
  <2>1. keyed' \in [Identities -> 0..(Len(ordered) + 1)]
    BY <1>0, <1>3 DEF AddDerived
  <2>2. fromSecretSeen' \subseteq Signatures
    BY <1>0, <1>3, CurrentType DEF AddDerived, Taking
  <2> QED
    BY <1>2, <1>3, <2>1, <2>2 DEF AddDerived, Taking
<1>4. CASE AddKeyed
  <2>1. keyed' \in [Identities -> 0..(Len(ordered) + 1)]
    <3>1. keyed' = [keyed EXCEPT ![Identity(Current)] = Len(ordered) + 1]
      BY <1>4 DEF AddKeyed
    <3>2. Len(ordered) \in Nat /\ keyed \in [Identities -> 0..Len(ordered)]
      BY <1>0
    <3> QED
      BY <3>1, <3>2, IndexType
  <2> QED
    BY <1>0, <1>2, <1>4, <2>1 DEF AddKeyed, Taking
<1>5. CASE Override
  <2>1. ordered' \in Seq(ResolvedVariable) /\ Len(ordered') = Len(ordered)
    BY <1>0, <1>5, CurrentType DEF Override, Taking
  <2>2. originBundle' \in Seq(BOOLEAN) /\ Len(originBundle') = Len(originBundle)
    <3>1. originBundle' = [originBundle EXCEPT ![keyed[Identity(Current)]] = FALSE]
      BY <1>5 DEF Override
    <3>2. keyed[Identity(Current)] \in 1..Len(originBundle)
      BY <1>0, <1>5, CurrentType DEF Override, Taking
    <3> QED
      BY <1>0, <3>1, <3>2, ExceptSeq
  <2> QED
    BY <1>0, <1>5, <2>1, <2>2 DEF Override, Taking
<1>6. CASE NextSource
  BY <1>0, <1>6 DEF NextSource, FromBundle, entries, Target
<1> QED
  BY <1>1, <1>3, <1>4, <1>5, <1>6
     DEF AddNext, RefuseScope, RefuseDerived, RefuseKeyed, Taking

(* Every step keeps the types, given that listed bundles are declared.      *)
LEMMA TypeStep ==
    ASSUME TypeOK, Sourced, [Next]_vars
    PROVE  TypeOK'
<1>1. CASE ApplyDefaults
  BY <1>1, DefaultedType DEF ApplyDefaults, TypeOK, ExpandTypeOK, progress, entries, load, Sources
<1>2. CASE Validate
  <2>1. config.targets[1] \in Target
    BY <1>2 DEF Validate, Valid, TargetsValid, TypeOK, Config
  <2>2. ExpandTypeOK'
    BY <1>2, <2>1, StartsType DEF Validate
  <2> QED
    BY <1>2, <2>2 DEF Validate, TypeOK, load
<1>3. CASE Reject
  BY <1>3 DEF Reject, TypeOK, ExpandTypeOK, progress, entries, load, Sources
<1>4. CASE Add
  BY <1>4, AddType DEF Add, TypeOK, load
<1>5. CASE TargetDone
  <2>1. /\ turn' \in Nat \ {0} /\ failed' \in BOOLEAN
        /\ file' \in Config /\ config' \in Config
        /\ stage' \in {"parsed", "defaulted", "expanding", "loaded", "rejected"}
    BY <1>5 DEF TargetDone, TypeOK
  <2>2. expanded' \in Seq(ExpandedTarget)
    <3>1. [kind |-> target.kind, ref |-> target.ref, variables |-> ordered] \in ExpandedTarget
      BY DEF TypeOK, ExpandTypeOK, Target, ExpandedTarget
    <3> QED
      BY <1>5, <3>1 DEF TargetDone, TypeOK
  <2>3. ExpandTypeOK'
    <3>1. CASE turn < Len(config.targets)
      <4>1. config.targets[turn + 1] \in Target
        BY <3>1 DEF TypeOK, Config
      <4> QED
        BY <1>5, <3>1, <4>1, StartsType DEF TargetDone
    <3>2. CASE ~(turn < Len(config.targets))
      BY <1>5, <3>2 DEF TargetDone, TypeOK, ExpandTypeOK, progress, entries, Sources
    <3> QED
      BY <3>1, <3>2
  <2> QED
    BY <2>1, <2>2, <2>3 DEF TypeOK
<1>6. CASE UNCHANGED vars
  BY <1>6 DEF vars, TypeOK, ExpandTypeOK, progress, entries, load, Sources
<1> QED
  BY <1>1, <1>2, <1>3, <1>4, <1>5, <1>6 DEF Next

(* Bundles are declared from validate on: nothing changes the configuration *)
(* after that, and every target that starts is one validate has seen.       *)
LEMMA SourcedStep ==
    ASSUME TypeOK, Sourced, [Next]_vars
    PROVE  Sourced'
<1> USE DEF Sourced, Bundled, Declared
<1>1. CASE ApplyDefaults
  BY <1>1, DefaultedType DEF ApplyDefaults, TypeOK, load
<1>2. CASE Validate
  <2>1. /\ config' = config /\ turn' = turn /\ target' = config.targets[1]
        /\ TargetsValid /\ stage = "defaulted"
    BY <1>2 DEF Validate, Valid, Starts, load
  <2>2. \A n \in DOMAIN config.targets : Bundled(config.targets[n])
    BY <2>1 DEF TargetsValid, TargetValid
  <2>3. 1 \in DOMAIN config.targets
    <3>1. config.targets \in Seq(Target) /\ config.targets # <<>>
      BY <2>1 DEF TypeOK, Config, TargetsValid
    <3> QED
      BY <3>1
  <2>4. turn = 1
    BY <2>1
  <2> QED
    BY <2>1, <2>2, <2>3, <2>4
<1>3. CASE Reject
  BY <1>3 DEF Reject, load
<1>4. CASE Add
  <2>1. stage' = stage /\ config' = config /\ target' = target /\ turn' = turn
    BY <1>4, AddType DEF Add, load
  <2> QED
    BY <2>1
<1>5. CASE TargetDone
  <2>1. config.targets \in Seq(Target) /\ turn \in Nat
    BY DEF TypeOK, Config
  <2>2. stage = "expanding" /\ config' = config /\ turn' = turn + 1
    BY <1>5 DEF TargetDone, Done
  <2>3. CASE turn < Len(config.targets)
    <3>1. target' = config.targets[turn + 1] /\ turn + 1 \in DOMAIN config.targets
      BY <1>5, <2>1, <2>3 DEF TargetDone, Starts
    <3>2. stage' = stage
      BY <1>5, <2>3 DEF TargetDone
    <3> QED
      BY <2>2, <3>1, <3>2
  <2>4. CASE ~(turn < Len(config.targets))
    BY <1>5, <2>2, <2>4 DEF TargetDone
  <2> QED
    BY <2>3, <2>4
<1>6. CASE UNCHANGED vars
  BY <1>6 DEF vars, load
<1> QED
  BY <1>1, <1>2, <1>3, <1>4, <1>5, <1>6 DEF Next

(* Types, for every file: through the defaults, validate and the expansion. *)
THEOREM ExpandTyping == Spec => [](TypeOK /\ Sourced)
<1>1. Init => TypeOK /\ Sourced
  <2> SUFFICES ASSUME Init  PROVE TypeOK /\ Sourced
    OBVIOUS
  <2>1. file \in Config /\ config \in Config
    BY LoadAssumption DEF Init
  <2>2. target \in Target
    <3>1. /\ Nothing.kind \in Kinds /\ Nothing.ref \in Texts
          /\ Nothing.bundles \in Seq(BundleNames) /\ Nothing.variables \in Seq(VariableSpec)
      <4>1. /\ Nothing.kind = "instance" /\ Nothing.ref = "" /\ Nothing.bundles = <<>>
            /\ Nothing.variables = <<>>
        BY DEF Nothing
      <4>2. "" \in Texts
        BY LoadAssumption
      <4> QED
        BY <4>1, <4>2, EmptySeq DEF Kinds
    <3>2. target = [kind |-> Nothing.kind, ref |-> Nothing.ref, bundles |-> Nothing.bundles,
                    variables |-> Nothing.variables]
      BY DEF Init, Nothing
    <3> QED
      BY <3>1, <3>2 DEF Target
  <2>3. source \in Sources
    <3>1. source = 1 /\ Len(target.bundles) \in Nat
      BY <2>2 DEF Init, Target
    <3> QED
      BY <3>1 DEF Sources
  <2>4. ExpandTypeOK
    <3>1. /\ ordered = <<>> /\ originBundle = <<>> /\ keyed = [i \in Identities |-> 0]
          /\ at = 1 /\ fromSecretSeen = {} /\ refused = {}
      BY DEF Init
    <3> QED
      BY <2>2, <2>3, <3>1 DEF ExpandTypeOK
  <2>5. TypeOK
    <3>1. expanded \in Seq(ExpandedTarget)
      BY EmptySeq DEF Init
    <3>2. turn \in Nat \ {0} /\ stage \in {"parsed"}
      BY DEF Init
    <3>3. failed \in BOOLEAN
      BY DEF Init
    <3> QED
      BY <2>1, <2>4, <3>1, <3>2, <3>3 DEF TypeOK
  <2> QED
    BY <2>5 DEF Init, Sourced
<1>2. TypeOK /\ Sourced /\ [Next]_vars => (TypeOK /\ Sourced)'
  BY TypeStep, SourcedStep
<1> QED
  BY <1>1, <1>2, PTL DEF Spec

(* keyed is an index of ordered: it leads to an explicit entry of the       *)
(* identity, and every explicit entry is where it says.  Uniqueness alone   *)
(* would not survive an append; with the index an append needs keyed = 0.   *)
KeyedIndexes ==
    /\ \A id \in Identities : keyed[id] # 0 =>
          /\ ~Derived(ordered[keyed[id]])
          /\ Identity(ordered[keyed[id]]) = id
    /\ \A i \in DOMAIN ordered : ~Derived(ordered[i]) => keyed[Identity(ordered[i])] = i

(* Every step keeps the index right: an append adds an entry that had none, *)
(* an override puts one of the same identity in the same place, and the     *)
(* next target starts with neither entries nor index.                       *)
LEMMA IndexStep ==
    ASSUME TypeOK, Sourced, KeyedIndexes, [Next]_vars
    PROVE  KeyedIndexes'
<1> USE DEF KeyedIndexes
<1>0. /\ ordered \in Seq(ResolvedVariable)
      /\ keyed \in [Identities -> 0..Len(ordered)]
  BY DEF TypeOK, ExpandTypeOK
<1>1. ASSUME UNCHANGED <<ordered, keyed>>  PROVE KeyedIndexes'
  BY <1>1
<1>2. ASSUME NEW i \in DOMAIN ordered  PROVE Identity(ordered[i]) \in Identities
  <2>1. ordered[i] \in ResolvedVariable
    BY <1>0
  <2> QED
    BY <2>1 DEF Identity, Identities, ResolvedVariable
<1>3. CASE AddDerived
  <2>1. ordered' = Append(ordered, Current) /\ keyed' = keyed
    BY <1>3 DEF AddDerived, AppendEntry
  <2>2. Derived(Current)
    BY <1>3 DEF AddDerived, Taking
  <2> QED
    BY <1>0, <2>1, <2>2
<1>4. CASE AddKeyed
  <2>1. /\ ordered' = Append(ordered, Current)
        /\ keyed' = [keyed EXCEPT ![Identity(Current)] = Len(ordered) + 1]
        /\ ~Derived(Current) /\ keyed[Identity(Current)] = 0
    BY <1>4 DEF AddKeyed, AppendEntry, Taking
  <2>2. Identity(Current) \in Identities
    BY <1>4, CurrentType DEF AddKeyed, Taking
  <2> QED
    BY <1>0, <1>2, <2>1, <2>2
<1>5. CASE Override
  <2>1. /\ ordered' = [ordered EXCEPT ![keyed[Identity(Current)]] = Current]
        /\ keyed' = keyed
        /\ ~Derived(Current) /\ keyed[Identity(Current)] # 0
    BY <1>5 DEF Override, Taking
  <2>2. Identity(Current) \in Identities
    BY <1>5, CurrentType DEF Override, Taking
  <2> QED
    BY <1>0, <1>2, <2>1, <2>2
<1>6. ASSUME NEW t, Starts(t)  PROVE KeyedIndexes'
  BY <1>6 DEF Starts
<1>7. CASE Add
  BY <1>1, <1>3, <1>4, <1>5, <1>7
     DEF Add, AddNext, RefuseScope, RefuseDerived, RefuseKeyed, Refuse, NextSource, entries
<1> QED
  BY <1>1, <1>6, <1>7
     DEF Next, ApplyDefaults, Validate, Reject, TargetDone, entries, vars

(* No two explicit entries of an expanded target have one identity, which   *)
(* is what the build of the desired state is told (expand.go:76-94).        *)
THEOREM ExpansionUnique == Spec => []UniqueIdentities
<1>1. Init => KeyedIndexes
  BY DEF Init, KeyedIndexes
<1>2. TypeOK /\ Sourced /\ KeyedIndexes /\ [Next]_vars => KeyedIndexes'
  BY IndexStep
<1>3. KeyedIndexes => UniqueIdentities
  BY DEF KeyedIndexes, UniqueIdentities
<1> QED
  BY <1>1, <1>2, <1>3, ExpandTyping, PTL DEF Spec

-----------------------------------------------------------------------------
(* What is accepted is what the rest of the program assumes.  The checks    *)
(* are made before the expansion and the assumptions are about its result,  *)
(* so the invariant has to carry three things through it: which             *)
(* configuration was checked, which target an expansion belongs to, and     *)
(* that every entry taken so far meets the assumptions.                     *)
Checked ==
    /\ config = IF stage = "parsed" THEN file ELSE Defaulted(file)
    /\ stage \in {"expanding", "loaded"} => Valid
Paired ==
    /\ stage \in {"parsed", "defaulted"} => expanded = <<>>
    /\ stage = "expanding" => Len(expanded) = turn - 1 /\ target = config.targets[turn]
    /\ stage = "loaded" => Len(expanded) = Len(config.targets)
    /\ stage \in {"expanding", "loaded"} => \A n \in DOMAIN expanded :
          expanded[n].kind = config.targets[n].kind /\ expanded[n].ref = config.targets[n].ref
Ready ==
    /\ stage = "expanding" => \A i \in DOMAIN ordered : EntryReady(target.kind, ordered[i])
    /\ EntriesReady

(* The defaults of a checked configuration are filled in. *)
LEMMA DefaultsFilled ==
    ASSUME NEW c \in Config
    PROVE  LET d == Defaulted(c)
           IN  /\ d.defaults.mount # <<>>
               /\ d.targets = c.targets
               /\ d.timeout = IF c.timeout = Unset THEN DefaultTimeout ELSE c.timeout
<1>1. /\ Defaulted(c).defaults = Completed(c.defaults)
      /\ Defaulted(c).targets = c.targets
      /\ Defaulted(c).timeout = Or(c.timeout, DefaultTimeout, Unset)
  BY DEF Defaulted, Config
<1>2. Completed(c.defaults).mount # <<>>
  BY LoadAssumption DEF Completed, Or
<1> QED
  BY <1>1, <1>2 DEF Or

(* Nothing changes the configuration once its defaults are filled in, and   *)
(* only validate lets the expansion begin.                                  *)
LEMMA CheckedStep ==
    ASSUME TypeOK, Sourced, Checked, [Next]_vars
    PROVE  Checked'
<1>1. CASE ApplyDefaults
  BY <1>1 DEF ApplyDefaults, Checked, load
<1>2. CASE Validate
  <2>1. stage = "defaulted" /\ stage' = "expanding" /\ config' = config /\ file' = file /\ Valid
    BY <1>2 DEF Validate, load
  <2>2. Valid'
    BY <2>1 DEF Valid, VaultValid, GitLabValid, SyncValid, BundlesValid, TargetsValid, TargetValid,
                Declared
  <2> QED
    BY <2>1, <2>2 DEF Checked
<1>3. CASE Reject
  BY <1>3 DEF Reject, Checked, load
<1>4. ASSUME stage = "expanding", stage' \in {"expanding", "loaded", "rejected"},
             config' = config, file' = file
      PROVE  Checked'
  <2>1. Valid' = Valid
    BY <1>4 DEF Valid, VaultValid, GitLabValid, SyncValid, BundlesValid, TargetsValid, TargetValid,
                Declared
  <2> QED
    BY <1>4, <2>1 DEF Checked
<1>5. CASE Add
  <2>1. stage = "expanding"
    BY <1>5 DEF Add, AddNext, RefuseScope, AddDerived, RefuseDerived, AddKeyed, Override,
                RefuseKeyed, NextSource, Taking, Reading
  <2>2. stage' = stage /\ config' = config /\ file' = file
    BY <1>5, AddType DEF Add, load
  <2> QED
    BY <1>4, <2>1, <2>2
<1>6. CASE TargetDone
  <2>1. /\ stage = "expanding" /\ config' = config /\ file' = file
        /\ stage' \in {"expanding", "loaded", "rejected"}
    BY <1>6 DEF TargetDone, Done
  <2> QED
    BY <1>4, <2>1
<1>7. CASE UNCHANGED vars
  <2>1. stage' = stage /\ config' = config /\ file' = file
    BY <1>7 DEF vars, load
  <2>2. Valid' = Valid
    BY <2>1 DEF Valid, VaultValid, GitLabValid, SyncValid, BundlesValid, TargetsValid, TargetValid,
                Declared
  <2> QED
    BY <2>1, <2>2 DEF Checked
<1> QED
  BY <1>1, <1>2, <1>3, <1>5, <1>6, <1>7 DEF Next

(* Add takes its steps while a target is expanded. *)
LEMMA AddExpands ==
    ASSUME Add
    PROVE  stage = "expanding" /\ UNCHANGED load
BY DEF Add, AddNext, RefuseScope, AddDerived, RefuseDerived, AddKeyed, Override,
       RefuseKeyed, NextSource, Taking, Reading

(* The targets are expanded one after the other, in their order. *)
LEMMA PairedStep ==
    ASSUME TypeOK, Sourced, Paired, [Next]_vars
    PROVE  Paired'
<1> USE DEF Paired
<1>1. CASE ApplyDefaults \/ Reject
  BY <1>1 DEF ApplyDefaults, Reject, load
<1>2. CASE Validate
  <2>1. /\ stage = "defaulted" /\ stage' = "expanding"
        /\ target' = config.targets[1] /\ UNCHANGED <<config, turn, expanded>>
    BY <1>2 DEF Validate, Starts, load
  <2>2. turn = 1
    BY <2>1 DEF Sourced
  <2> QED
    BY <2>1, <2>2
<1>3. CASE Add
  <2>1. stage = "expanding" /\ UNCHANGED <<stage, config, target, turn, expanded>>
    BY <1>3, AddExpands, AddType DEF Add, load
  <2> QED
    BY <2>1
<1>4. CASE TargetDone
  <2> DEFINE new == [kind |-> target.kind, ref |-> target.ref, variables |-> ordered]
  <2>1. /\ stage = "expanding" /\ config' = config /\ turn' = turn + 1
        /\ expanded' = Append(expanded, new)
    BY <1>4 DEF TargetDone, Done
  <2>2. /\ config.targets \in Seq(Target) /\ expanded \in Seq(ExpandedTarget)
        /\ turn \in Nat /\ turn \in DOMAIN config.targets
    BY <2>1 DEF TypeOK, Config, Sourced
  <2>3. /\ Len(expanded) = turn - 1 /\ target = config.targets[turn]
        /\ \A n \in DOMAIN expanded :
              expanded[n].kind = config.targets[n].kind /\ expanded[n].ref = config.targets[n].ref
    BY <2>1
  <2>4. Len(expanded') = turn /\ DOMAIN expanded' = 1..turn
        /\ expanded'[turn] = new /\ \A n \in 1..(turn - 1) : expanded'[n] = expanded[n]
    BY <2>1, <2>2, <2>3
  <2>5. \A n \in DOMAIN expanded' :
           expanded'[n].kind = config.targets[n].kind /\ expanded'[n].ref = config.targets[n].ref
    <3>1. new.kind = target.kind /\ new.ref = target.ref
      OBVIOUS
    <3> HIDE DEF new
    <3>2. \A n \in 1..turn : n = turn \/ n \in 1..(turn - 1)
      BY <2>2
    <3>3. \A n \in 1..(turn - 1) : n \in DOMAIN expanded
      BY <2>2, <2>3
    <3> QED
      BY <2>3, <2>4, <3>1, <3>2, <3>3
  <2>6. CASE turn < Len(config.targets)
    <3>1. target' = config.targets[turn + 1] /\ stage' = stage
      BY <1>4, <2>6 DEF TargetDone, Starts
    <3>2. Len(expanded') = turn' - 1 /\ target' = config'.targets[turn']
      BY <2>1, <2>2, <2>4, <3>1
    <3> QED
      BY <2>1, <2>5, <3>1, <3>2
  <2>7. CASE ~(turn < Len(config.targets))
    <3>1. stage' \in {"rejected", "loaded"}
      BY <1>4, <2>7 DEF TargetDone
    <3>2. turn = Len(config.targets)
      BY <2>2, <2>7
    <3> QED
      BY <2>1, <2>4, <2>5, <3>1, <3>2
  <2> QED
    BY <2>6, <2>7
<1>5. CASE UNCHANGED vars
  BY <1>5 DEF vars, load
<1> QED
  BY <1>1, <1>2, <1>3, <1>4, <1>5 DEF Next

(* A specification that was checked and whose scope is allowed is ready     *)
(* once its defaults are filled in.                                         *)
LEMMA CurrentReady ==
    ASSUME TypeOK, Sourced, Checked, Paired, Reading, ScopeAllowed(Current)
    PROVE  EntryReady(target.kind, Current)
<1> DEFINE s == SpecsOf(source)[at]
<1>1. Valid /\ target = config.targets[turn] /\ turn \in DOMAIN config.targets
      /\ config = Defaulted(file) /\ file \in Config
  BY DEF Reading, Checked, Paired, Sourced, TypeOK
<1>2. \E kind : SpecValid(s, kind)
  <2>1. at \in DOMAIN SpecsOf(source)
    BY DEF Reading
  <2>2. CASE FromBundle(source)
    <3>1. source \in DOMAIN target.bundles /\ target.bundles \in Seq(BundleNames)
      BY <2>2 DEF TypeOK, ExpandTypeOK, FromBundle, Sources, Target
    <3>2. target.bundles[source] \in Declared
      BY <3>1 DEF Sourced, Bundled, Reading
    <3>3. AllValid(config.bundles[target.bundles[source]], "project")
      BY <1>1, <3>2 DEF Valid, BundlesValid
    <3> QED
      BY <2>1, <2>2, <3>3 DEF SpecsOf, FromBundle, AllValid
  <2>3. CASE ~FromBundle(source)
    <3>1. AllValid(target.variables, target.kind)
      BY <1>1 DEF Valid, TargetsValid, TargetValid
    <3> QED
      BY <2>1, <2>3, <3>1 DEF SpecsOf, FromBundle, AllValid
  <2> QED
    BY <2>2, <2>3
<1>3. Current \in ResolvedVariable /\ Current = Resolve(s)
  BY CurrentType DEF Current
<1>4. config.defaults.attrs \notin Mistyped /\ config.defaults.mount # <<>>
  <2>1. config.defaults.attrs \notin Mistyped
    BY <1>1 DEF Valid
  <2>2. config.defaults.mount # <<>>
    BY <1>1, DefaultsFilled
  <2> QED
    BY <2>1, <2>2
<1>5. s \in VariableSpec
  BY SpecsType
<1>6. ASSUME NEW r \in VaultRef
      PROVE  /\ Mounted(r) # Unset
             /\ Mounted(r).mount # <<>> /\ Mounted(r).field = r.field
  <2>1. r # Unset
    BY ExpandAssumption
  <2>2. Mounted(r) = [r EXCEPT !.mount = IF r.mount = <<>> THEN config.defaults.mount ELSE r.mount]
    BY <2>1 DEF Mounted, VaultRef
  <2>3. Mounted(r).mount # <<>> /\ Mounted(r).field = r.field
    BY <1>4, <2>2 DEF VaultRef
  <2>4. Mounted(r) \in VaultRef
    <3>1. config.defaults.mount \in Segments
      BY DEF TypeOK, Config, Defaults
    <3> QED
      BY <2>2, <3>1 DEF VaultRef
  <2> QED
    BY <2>3, <2>4, ExpandAssumption
<1>7. Mounted(Unset) = Unset
  BY DEF Mounted
<1> HIDE DEF s
<1>8. /\ Current.key = s.key /\ Current.vault = Mounted(s.vault)
      /\ Current.fromSecret = Mounted(s.fromSecret)
      /\ Current.attrs = IF s.attrs = Unset THEN config.defaults.attrs ELSE s.attrs
  BY <1>3 DEF Resolve
<1>9. s.vault \in VaultRef \union {Unset} /\ s.fromSecret \in VaultRef \union {Unset}
  BY <1>5 DEF VariableSpec
<1>10. ExplicitShape(s) \/ DerivedShape(s)
  BY <1>2 DEF SpecValid
<1>11. Current.attrs \notin Mistyped
  BY <1>2, <1>4, <1>8 DEF SpecValid
<1>12. target.kind = "instance" => Current.scope = AnyScope
  BY DEF ScopeAllowed
<1>13. CASE ExplicitShape(s)
  <2>1. s.vault \in VaultRef /\ s.fromSecret = Unset /\ s.key \in ValidKeys /\ s.vault.field # ""
    BY <1>9, <1>13 DEF ExplicitShape
  <2>2. Mounted(s.vault).field # ""
    BY <1>6, <2>1
  <2>3. /\ Current.vault # Unset /\ Current.vault.mount # <<>>
        /\ Current.fromSecret = Unset /\ Current.key \in ValidKeys
    BY <1>6, <1>7, <1>8, <2>1
  <2> QED
    BY <1>8, <1>11, <1>12, <2>2, <2>3 DEF EntryReady, Explicit, Derived
<1>14. CASE DerivedShape(s)
  <2>1. s.fromSecret \in VaultRef /\ s.vault = Unset /\ s.key = ""
    BY <1>9, <1>14 DEF DerivedShape
  <2>2. /\ Current.fromSecret # Unset /\ Current.fromSecret.mount # <<>>
        /\ Current.vault = Unset /\ Current.key = ""
    BY <1>6, <1>7, <1>8, <2>1
  <2> QED
    BY <1>11, <1>12, <2>2 DEF EntryReady, Explicit, Derived
<1> QED
  BY <1>10, <1>13, <1>14

(* What EntriesReady says of one target. *)
ListReady(kind, vs) ==
    /\ \A i \in DOMAIN vs : EntryReady(kind, vs[i])
    /\ \A i, j \in DOMAIN vs :
          Explicit(vs[i]) /\ Explicit(vs[j]) /\ Identity(vs[i]) = Identity(vs[j]) => i = j

(* Add takes only entries that are ready, and a target that is done has     *)
(* only such entries, no two of them explicit and of one identity.          *)
LEMMA ReadyStep ==
    ASSUME TypeOK, Sourced, KeyedIndexes, Checked, Paired, Ready, [Next]_vars
    PROVE  Ready'
<1>1. EntriesReady = (\A n \in DOMAIN expanded : ListReady(expanded[n].kind, expanded[n].variables))
  BY DEF EntriesReady, ListReady
<1>2. EntriesReady' =
         (\A n \in DOMAIN expanded' : ListReady(expanded'[n].kind, expanded'[n].variables))
  BY DEF EntriesReady, ListReady
<1>3. ASSUME UNCHANGED expanded,
             stage' = "expanding" => \A i \in DOMAIN ordered' : EntryReady(target'.kind, ordered'[i])
      PROVE  Ready'
  BY <1>1, <1>2, <1>3 DEF Ready
<1>4. CASE ApplyDefaults \/ Reject
  BY <1>3, <1>4 DEF ApplyDefaults, Reject, load
<1>5. CASE Validate
  BY <1>3, <1>5 DEF Validate, Starts, load
<1>6. CASE Add
  <2>1. /\ stage = "expanding" /\ UNCHANGED <<stage, target, expanded>>
        /\ ordered \in Seq(ResolvedVariable)
        /\ \A i \in DOMAIN ordered : EntryReady(target.kind, ordered[i])
    BY <1>6, AddExpands, AddType DEF Add, load, Ready, TypeOK, ExpandTypeOK
  <2>2. ASSUME Taking(TRUE) \/ Taking(FALSE)
        PROVE  EntryReady(target.kind, Current) /\ Current \in ResolvedVariable
    BY <2>2, CurrentReady, CurrentType DEF Taking
  <2>3. CASE AddDerived \/ AddKeyed
    <3>1. ordered' = Append(ordered, Current) /\ EntryReady(target.kind, Current)
      BY <2>2, <2>3 DEF AddDerived, AddKeyed, AppendEntry
    <3>2. \A i \in DOMAIN ordered' : EntryReady(target.kind, ordered'[i])
      BY <2>1, <3>1
    <3> QED
      BY <1>3, <2>1, <3>2
  <2>4. CASE Override
    <3>1. /\ ordered' = [ordered EXCEPT ![keyed[Identity(Current)]] = Current]
          /\ EntryReady(target.kind, Current)
      BY <2>2, <2>4 DEF Override
    <3>2. \A i \in DOMAIN ordered' : EntryReady(target.kind, ordered'[i])
      BY <2>1, <3>1
    <3> QED
      BY <1>3, <2>1, <3>2
  <2>5. CASE UNCHANGED ordered
    BY <1>3, <2>1, <2>5
  <2> QED
    BY <1>6, <2>3, <2>4, <2>5
       DEF Add, AddNext, RefuseScope, RefuseDerived, RefuseKeyed, Refuse, NextSource, entries
<1>7. CASE TargetDone
  <2> DEFINE new == [kind |-> target.kind, ref |-> target.ref, variables |-> ordered]
  <2>1. stage = "expanding" /\ expanded' = Append(expanded, new)
    BY <1>7 DEF TargetDone, Done
  <2>2. ListReady(target.kind, ordered)
    <3>1. \A i \in DOMAIN ordered : EntryReady(target.kind, ordered[i])
      BY <2>1 DEF Ready
    <3>2. \A i \in DOMAIN ordered : Explicit(ordered[i]) <=> ~Derived(ordered[i])
      BY <3>1 DEF EntryReady
    <3>3. \A i, j \in DOMAIN ordered :
             ~Derived(ordered[i]) /\ ~Derived(ordered[j])
             /\ Identity(ordered[i]) = Identity(ordered[j]) => i = j
      BY DEF KeyedIndexes
    <3> QED
      BY <3>1, <3>2, <3>3 DEF ListReady
  <2>3. new.kind = target.kind /\ new.variables = ordered
    OBVIOUS
  <2>4. expanded \in Seq(ExpandedTarget)
    BY DEF TypeOK
  <2> HIDE DEF new
  <2>5. \A n \in DOMAIN expanded' :
           expanded'[n] = new \/ (n \in DOMAIN expanded /\ expanded'[n] = expanded[n])
    BY <2>1, <2>4
  <2>6. \A n \in DOMAIN expanded' : ListReady(expanded'[n].kind, expanded'[n].variables)
    BY <1>1, <2>2, <2>3, <2>5 DEF Ready
  <2>7. stage' = "expanding" => ordered' = <<>>
    BY <1>7 DEF TargetDone, Starts
  <2> QED
    BY <1>2, <2>6, <2>7 DEF Ready
<1>8. CASE UNCHANGED vars
  BY <1>3, <1>8 DEF vars, load, entries, Ready
<1> QED
  BY <1>4, <1>5, <1>6, <1>7, <1>8 DEF Next

(* A path of segments that is split at two places starts with the shorter   *)
(* first half.                                                              *)
LEMMA FirstHalf ==
    ASSUME NEW a \in Segments, NEW b \in Segments, NEW c \in Segments, NEW d \in Segments,
           a \o b = c \o d, Len(a) >= Len(c)
    PROVE  SubSeq(a, 1, Len(c)) = c
<1>1. /\ Len(a) \in Nat /\ Len(c) \in Nat
      /\ \A i \in 1..Len(c) : a[i] \in Texts
  BY DEF Segments
<1>2. /\ \A i \in 1..Len(c) : (a \o b)[i] = a[i]
      /\ \A i \in 1..Len(c) : (c \o d)[i] = c[i]
  BY DEF Segments
<1>3. /\ SubSeq(a, 1, Len(c)) \in Seq(Texts)
      /\ Len(SubSeq(a, 1, Len(c))) = Len(c)
      /\ \A i \in 1..Len(c) : SubSeq(a, 1, Len(c))[i] = a[i]
  BY <1>1 DEF Segments
<1> QED
  BY <1>1, <1>2, <1>3, SeqEqual DEF Segments

(* Split in two at two places, its halves are the same or one first half    *)
(* lies inside the other.                                                   *)
LEMMA SplitsApart ==
    ASSUME NEW m \in Segments, NEW p \in Segments, NEW n \in Segments, NEW q \in Segments,
           m \o p = n \o q, ~Inside(m, n), ~Inside(n, m)
    PROVE  m = n /\ p = q
<1>1. Len(m) \in Nat /\ Len(n) \in Nat
  BY DEF Segments
<1>2. Len(m) >= Len(n) => SubSeq(m, 1, Len(n)) = n
  BY FirstHalf
<1>3. n \o q = m \o p
  OBVIOUS
<1>4. Len(n) >= Len(m) => SubSeq(n, 1, Len(m)) = m
  BY <1>3, FirstHalf
<1>5. Len(m) = Len(n)
  BY <1>1, <1>2, <1>4 DEF Inside
<1>6. SubSeq(m, 1, Len(n)) = n
  BY <1>1, <1>2, <1>5
<1>7. SubSeq(m, 1, Len(m)) = m
  BY SubSeqFull DEF Segments
<1>8. m = n
  BY <1>5, <1>6, <1>7
<1>9. m \o p = m \o q
  BY <1>8
<1> QED
  BY <1>8, <1>9, ConcatSimplifications DEF Segments

(* An accepted configuration is one the rest of the program can use.        *)
LEMMA AcceptedUsable ==
    ASSUME TypeOK, Checked, Paired, Ready, stage = "loaded"
    PROVE  LoopReady /\ EntriesReady /\ TargetsDistinct /\ SecretsApart
<1>1. Valid /\ config = Defaulted(file) /\ file \in Config
  BY DEF Checked, TypeOK
<1>2. /\ config.targets = file.targets
      /\ config.timeout = IF file.timeout = Unset THEN DefaultTimeout ELSE file.timeout
  BY <1>1, DefaultsFilled
<1>3. LoopReady
  BY <1>1, <1>2 DEF LoopReady, Valid, SyncValid
<1>4. TargetsDistinct
  <2>1. Len(expanded) = Len(config.targets)
    BY DEF Paired
  <2>2. DOMAIN expanded = DOMAIN config.targets
    BY <2>1 DEF TypeOK, Config
  <2>3. \A n \in DOMAIN expanded :
           expanded[n].kind = config.targets[n].kind /\ expanded[n].ref = config.targets[n].ref
    BY DEF Paired
  <2>4. \A i, j \in DOMAIN config.targets :
           /\ config.targets[i].kind = config.targets[j].kind
           /\ config.targets[i].ref = config.targets[j].ref
           => i = j
    BY <1>1 DEF Valid, TargetsValid
  <2> QED
    BY <1>2, <2>1, <2>2, <2>3, <2>4 DEF TargetsDistinct
<1>5. ASSUME NEW r \in RefsUsed
      PROVE  r.mount \in Segments /\ r.path \in Segments
  <2>0. PICK n \in DOMAIN expanded : \E i \in DOMAIN expanded[n].variables :
           LET v == expanded[n].variables[i]
           IN  r = IF Explicit(v) THEN v.vault ELSE v.fromSecret
    BY <1>5 DEF RefsUsed
  <2>1. PICK i \in DOMAIN expanded[n].variables :
           LET v == expanded[n].variables[i]
           IN  r = IF Explicit(v) THEN v.vault ELSE v.fromSecret
    BY <2>0
  <2> DEFINE v == expanded[n].variables[i]
  <2>2. expanded[n] \in ExpandedTarget
    BY DEF TypeOK
  <2>3. v \in ResolvedVariable
    BY <2>2 DEF ExpandedTarget
  <2>4. EntryReady(expanded[n].kind, v)
    BY DEF Ready, EntriesReady
  <2>5. r = IF Explicit(v) THEN v.vault ELSE v.fromSecret
    BY <2>1
  <2> HIDE DEF v
  <2>6. r \in VaultRef
    BY <2>3, <2>4, <2>5 DEF EntryReady, Explicit, Derived, ResolvedVariable
  <2> QED
    BY <2>6 DEF VaultRef
<1>6. SecretsApart
  <2>1. SUFFICES ASSUME \A q, r \in RefsUsed : ~Inside(q.mount, r.mount),
                        NEW q \in RefsUsed, NEW r \in RefsUsed, SecretKey(q) = SecretKey(r)
                 PROVE  q.mount = r.mount /\ q.path = r.path
    BY DEF SecretsApart
  <2>2. q.mount \o q.path = r.mount \o r.path
    BY <2>1 DEF SecretKey
  <2>3. ~Inside(q.mount, r.mount) /\ ~Inside(r.mount, q.mount)
    BY <2>1
  <2>4. /\ q.mount \in Segments /\ q.path \in Segments
        /\ r.mount \in Segments /\ r.path \in Segments
    BY <1>5
  <2> QED
    BY <2>2, <2>3, <2>4, SplitsApart
<1> QED
  BY <1>3, <1>4, <1>6 DEF Ready

(* Whatever a file says: what Parse accepts has a positive interval and     *)
(* sane limits, an explicit timeout of 0 kept; every entry names one secret *)
(* through a mount, explicit ones with a key and a field and one per        *)
(* identity; no target is there twice; and no two secrets share a cache     *)
(* key unless mounts overlap (load.go:40-145, validate.go, expand.go).      *)
THEOREM AcceptedMeets == Spec => []AcceptedMeetsAssumptions
<1>1. Init => KeyedIndexes /\ Checked /\ Paired /\ Ready
  <2> SUFFICES ASSUME Init  PROVE KeyedIndexes /\ Checked /\ Paired /\ Ready
    OBVIOUS
  <2>1. stage = "parsed" /\ config = file /\ expanded = <<>> /\ ordered = <<>>
    BY DEF Init
  <2>2. KeyedIndexes
    BY DEF Init, KeyedIndexes
  <2> QED
    BY <2>1, <2>2 DEF Checked, Paired, Ready, EntriesReady
<1>2. TypeOK /\ Sourced /\ KeyedIndexes /\ Checked /\ Paired /\ Ready /\ [Next]_vars
      => (KeyedIndexes /\ Checked /\ Paired /\ Ready)'
  BY IndexStep, CheckedStep, PairedStep, ReadyStep
<1>3. TypeOK /\ Checked /\ Paired /\ Ready => AcceptedMeetsAssumptions
  BY AcceptedUsable DEF AcceptedMeetsAssumptions
<1> QED
  BY <1>1, <1>2, <1>3, ExpandTyping, PTL DEF Spec

-----------------------------------------------------------------------------
(* Expansion, one specification at a time, comes to what the reference says *)
(* of whole lists.  The invariant is the reference restricted to the        *)
(* occurrences that have been read.                                         *)
Here == <<source, at>>
Passed == {o \in Occurrences : Precedes(o, Here)}
Taken(P) == Firsts \cap P

(* Of the occurrences in P, q is the one in the place of p. *)
Leads(q, p, P) ==
    \/ q = p /\ ~\E r \in P : Same(p, r) /\ Precedes(p, r) /\ Overriding(p, r)
    \/ Same(p, q) /\ Precedes(p, q) /\ Overriding(p, q) /\ ~Duplicate(q)

Refuses(P, errs) == errs = {p \in P : ~ScopeAllowed(SpecAt(p)) \/ Duplicate(p)}
Counts(P, list) == IsFiniteSet(Taken(P)) /\ Len(list) = Cardinality(Taken(P))
Places(P, list, origins) ==
    \A p \in Taken(P) : \E q \in P :
        Leads(q, p, P) /\ list[Rank(p)] = SpecAt(q) /\ origins[Rank(p)] = FromBundle(q[1])
Indexes(P, index) ==
    /\ \A p \in Taken(P) : ~Derived(SpecAt(p)) => index[Identity(SpecAt(p))] = Rank(p)
    /\ \A id \in Identities : index[id] # 0 =>
          \E p \in Taken(P) : ~Derived(SpecAt(p)) /\ Identity(SpecAt(p)) = id
Sees(P, seen) ==
    /\ \A p \in Taken(P) : Derived(SpecAt(p)) => Signature(SpecAt(p)) \in seen
    /\ \A s \in seen : \E p \in Taken(P) : Derived(SpecAt(p)) /\ Signature(SpecAt(p)) = s

(* Whatever is allowed has a first of its name. *)
Represented(P) == \A o \in P : ScopeAllowed(SpecAt(o)) => \E p \in Taken(P) : Same(p, o)

Follows(P, list, origins, index, seen, errs) ==
    /\ Refuses(P, errs) /\ Counts(P, list) /\ Places(P, list, origins)
    /\ Indexes(P, index) /\ Sees(P, seen) /\ Represented(P)
Tracked ==
    stage = "expanding" =>
        Follows(Passed, ordered, originBundle, keyed, fromSecretSeen, refused)

(* What the proofs need to know of the state while a target is expanded. *)
Expanding == TypeOK /\ Sourced /\ stage = "expanding"

(* An occurrence is a pair of places, and what is there resolves. *)
LEMMA OccurrenceType ==
    ASSUME Expanding, NEW o \in Occurrences
    PROVE  /\ o = <<o[1], o[2]>>
           /\ o[1] \in Sources /\ o[1] \in Nat /\ o[1] >= 1
           /\ o[2] \in DOMAIN SpecsOf(o[1]) /\ o[2] \in Nat /\ o[2] >= 1
           /\ Identity(SpecAt(o)) \in Identities
<1>1. PICK n \in Sources, j \in Nat : j \in DOMAIN SpecsOf(n) /\ o = <<n, j>>
  <2>1. PICK n \in Sources : o \in {<<n, j>> : j \in DOMAIN SpecsOf(n)}
    BY DEF Occurrences
  <2>2. PICK j \in DOMAIN SpecsOf(n) : o = <<n, j>>
    BY <2>1
  <2>3. SpecsOf(n) \in Seq(VariableSpec)
    BY SourceSpecs DEF Expanding
  <2>4. j \in Nat
    BY <2>3
  <2> QED
    BY <2>2, <2>4
<1>2. SpecsOf(n) \in Seq(VariableSpec)
  BY SourceSpecs DEF Expanding
<1>3. j >= 1 /\ SpecsOf(n)[j] \in VariableSpec
  BY <1>1, <1>2
<1>4. n \in Nat /\ n >= 1
  BY DEF Sources, Expanding, TypeOK, ExpandTypeOK, Target
<1>5. Identity(SpecAt(o)) \in Identities
  BY <1>1, <1>3, ResolveType DEF SpecAt, Expanding, Sourced
<1> QED
  BY <1>1, <1>3, <1>4, <1>5

(* Occurrences come one after another. *)
LEMMA Order ==
    ASSUME Expanding
    PROVE  /\ \A o, p \in Occurrences : o = p \/ Precedes(o, p) \/ Precedes(p, o)
           /\ \A o, p \in Occurrences : Precedes(o, p) => ~Precedes(p, o)
           /\ \A o \in Occurrences : ~Precedes(o, o)
           /\ \A o, p, q \in Occurrences : Precedes(o, p) /\ Precedes(p, q) => Precedes(o, q)
<1>1. \A o \in Occurrences : o = <<o[1], o[2]>> /\ o[1] \in Nat /\ o[2] \in Nat
  BY OccurrenceType
<1>2. \A o, p \in Occurrences : o[1] = p[1] /\ o[2] = p[2] => o = p
  BY <1>1
<1>3. ASSUME NEW o \in Occurrences, NEW p \in Occurrences
      PROVE  /\ o = p \/ Precedes(o, p) \/ Precedes(p, o)
             /\ Precedes(o, p) => ~Precedes(p, o)
             /\ ~Precedes(o, o)
  BY <1>1, <1>2 DEF Precedes
<1>4. ASSUME NEW o \in Occurrences, NEW p \in Occurrences, NEW q \in Occurrences,
             Precedes(o, p), Precedes(p, q)
      PROVE  Precedes(o, q)
  BY <1>1, <1>4 DEF Precedes
<1> QED
  BY <1>3, <1>4

(* Specifications of one name are of one kind, scope and identity. *)
LEMMA SameMeans ==
    ASSUME NEW o, NEW p
    PROVE  /\ Same(o, p) =>
                 /\ Derived(SpecAt(o)) <=> Derived(SpecAt(p))
                 /\ ScopeAllowed(SpecAt(o)) <=> ScopeAllowed(SpecAt(p))
                 /\ ~Derived(SpecAt(p)) => Identity(SpecAt(o)) = Identity(SpecAt(p))
           /\ ~Derived(SpecAt(o)) /\ ~Derived(SpecAt(p)) =>
                 (Same(o, p) <=> Identity(SpecAt(o)) = Identity(SpecAt(p)))
           /\ Derived(SpecAt(o)) /\ Derived(SpecAt(p)) =>
                 (Same(o, p) <=> Signature(SpecAt(o)) = Signature(SpecAt(p)))
<1> DEFINE v == SpecAt(o)
           w == SpecAt(p)
<1>1. /\ Name(v) = IF Derived(v) THEN <<SecretKey(v.fromSecret), v.prefix, v.scope>>
                                 ELSE <<v.key, v.scope>>
      /\ Name(w) = IF Derived(w) THEN <<SecretKey(w.fromSecret), w.prefix, w.scope>>
                                 ELSE <<w.key, w.scope>>
      /\ Same(o, p) <=> Name(v) = Name(w)
  BY DEF Name, Same, Signature, Identity
<1> HIDE DEF v, w
<1>2. \A a, b, c, d, e : <<a, b, c>> # <<d, e>>
  <2> TAKE a, b, c, d, e
  <2>1. Len(<<a, b, c>>) = 3 /\ Len(<<d, e>>) = 2
    OBVIOUS
  <2> QED
    BY <2>1
<1>3. Same(o, p) => (Derived(v) <=> Derived(w)) /\ v.scope = w.scope
  BY <1>1, <1>2
<1>4. ~Derived(v) /\ ~Derived(w) => (Same(o, p) <=> Identity(v) = Identity(w))
  BY <1>1 DEF Identity
<1>5. Derived(v) /\ Derived(w) => (Same(o, p) <=> Signature(v) = Signature(w))
  BY <1>1 DEF Signature
<1> QED
  BY <1>3, <1>4, <1>5 DEF v, w, ScopeAllowed

LEMMA SameEquivalence ==
    /\ \A o, p : Same(o, p) => Same(p, o)
    /\ \A o, p, q : Same(o, p) /\ Same(p, q) => Same(o, q)
BY DEF Same

(* Nothing of the same name comes before the first, so there is one. *)
LEMMA FirstUnique ==
    ASSUME Expanding, NEW p \in Firsts, NEW q \in Firsts, Same(p, q)
    PROVE  p = q
<1>1. p \in Occurrences /\ q \in Occurrences /\ ~Precedes(p, q) /\ ~Precedes(q, p)
  BY SameEquivalence DEF Firsts
<1> QED
  BY <1>1, Order

(* The places of the first occurrences: none of two has the same, and those *)
(* that have been taken have places in the list.                            *)
Upto(p) == {o \in Firsts : ~Precedes(p, o)}
LEMMA Ranks ==
    ASSUME Expanding, IsFiniteSet(Taken(Passed))
    PROVE  /\ \A p \in Taken(Passed) : Rank(p) \in 1..Cardinality(Taken(Passed))
           /\ \A p, q \in Taken(Passed) : Rank(p) = Rank(q) => p = q
<1> DEFINE T == Taken(Passed)
<1>1. /\ T \subseteq Firsts /\ T \subseteq Occurrences
      /\ \A o \in Firsts, p \in T : Precedes(o, p) \/ o = p => o \in T
  <2>1. ASSUME NEW o \in Firsts, NEW p \in T, Precedes(o, p) \/ o = p
        PROVE  o \in T
    <3>1. o \in Occurrences /\ p \in Occurrences /\ p \in Passed
      BY DEF Firsts, Taken, Passed
    <3>2. /\ o[1] \in Nat /\ o[2] \in Nat /\ p[1] \in Nat /\ p[2] \in Nat
          /\ source \in Nat /\ at \in Nat
      BY <3>1, OccurrenceType DEF Expanding, TypeOK, ExpandTypeOK, Sources
    <3>3. Precedes(o, Here)
      BY <2>1, <3>1, <3>2 DEF Precedes, Passed, Here
    <3> QED
      BY <3>1, <3>3 DEF Taken, Passed
  <2> QED
    BY <2>1 DEF Taken, Firsts, Passed
<1>2. \A p \in T : Upto(p) \subseteq T /\ p \in Upto(p)
  BY <1>1, Order DEF Upto, Firsts
<1>3. \A p : Rank(p) = Cardinality(Upto(p))
  BY DEF Rank, Upto
<1> HIDE DEF T
<1>4. ASSUME NEW p \in T
      PROVE  IsFiniteSet(Upto(p)) /\ Rank(p) \in 1..Cardinality(T)
  <2>1. IsFiniteSet(T)
    BY DEF T
  <2>2. /\ IsFiniteSet(Upto(p)) /\ Cardinality(Upto(p)) <= Cardinality(T)
        /\ Cardinality(Upto(p)) \in Nat /\ Cardinality(T) \in Nat
    BY <1>2, <2>1, FS_Subset, FS_CardinalityType
  <2>3. Cardinality(Upto(p)) # 0
    BY <1>2, <2>2, FS_EmptySet
  <2> QED
    BY <1>3, <2>2, <2>3
<1>5. ASSUME NEW p \in T, NEW q \in T, Precedes(p, q)
      PROVE  Rank(p) # Rank(q)
  <2>1. p \in Occurrences /\ q \in Occurrences
    BY <1>1
  <2>2. Upto(p) \subseteq Upto(q)
    <3>1. ASSUME NEW o \in Upto(p)  PROVE o \in Upto(q)
      <4>1. o \in Occurrences /\ o \in Firsts /\ ~Precedes(p, o)
        BY DEF Upto, Firsts
      <4>2. ~Precedes(q, o)
        BY <1>5, <2>1, <4>1, Order
      <4> QED
        BY <4>1, <4>2 DEF Upto
    <3> QED
      BY <3>1
  <2>3. q \notin Upto(p) /\ q \in Upto(q)
    BY <1>2, <1>5 DEF Upto
  <2> QED
    BY <1>3, <1>4, <2>2, <2>3, FS_Subset
<1>6. ASSUME NEW p \in T, NEW q \in T, Rank(p) = Rank(q)
      PROVE  p = q
  BY <1>1, <1>5, <1>6, Order
<1> QED
  BY <1>4, <1>6 DEF T

(* The occurrence whose turn it is comes after those that have been read,   *)
(* and before all others.                                                   *)
After == Passed \union {Here}
LEMMA Turn ==
    ASSUME Expanding, Reading
    PROVE  /\ Here \in Occurrences /\ Here[1] = source
           /\ Current = SpecAt(Here)
           /\ Identity(SpecAt(Here)) \in Identities
           /\ Passed \subseteq Occurrences /\ Here \notin Passed
           /\ \A o \in Occurrences : Precedes(o, Here) <=> o \in Passed
           /\ \A o \in After : ~Precedes(Here, o)
<1>1. source \in Sources /\ at \in DOMAIN SpecsOf(source) /\ Here[1] = source /\ Here[2] = at
  BY DEF Expanding, TypeOK, ExpandTypeOK, Reading, Here
<1>2. Here \in Occurrences
  BY <1>1 DEF Occurrences, Here
<1>3. Passed \subseteq Occurrences /\ \A o \in Occurrences : Precedes(o, Here) <=> o \in Passed
  BY DEF Passed
<1>4. Here \notin Passed /\ \A o \in After : ~Precedes(Here, o)
  BY <1>2, <1>3, Order DEF After
<1>5. Current = SpecAt(Here)
  BY <1>1 DEF Current, SpecAt
<1> QED
  BY <1>1, <1>2, <1>3, <1>4, <1>5, OccurrenceType

(* It is a first unless a first of its name has been read.                  *)
LEMMA Newcomer ==
    ASSUME Expanding, Reading, Represented(Passed)
    PROVE  /\ Here \in Firsts <=>
                 ScopeAllowed(SpecAt(Here)) /\ ~\E p \in Taken(Passed) : Same(p, Here)
           /\ Here \in Firsts => Taken(After) = Taken(Passed) \union {Here}
           /\ Here \notin Firsts => Taken(After) = Taken(Passed)
           /\ Here \notin Taken(Passed)
<1>1. ASSUME ScopeAllowed(SpecAt(Here)), NEW o \in Occurrences, Precedes(o, Here), Same(o, Here)
      PROVE  \E p \in Taken(Passed) : Same(p, Here)
  <2>1. o \in Passed /\ ScopeAllowed(SpecAt(o))
    BY <1>1, Turn, SameMeans
  <2>2. PICK p \in Taken(Passed) : Same(p, o)
    BY <2>1 DEF Represented
  <2> QED
    BY <1>1, <2>2, SameEquivalence
<1>2. ASSUME NEW p \in Taken(Passed)
      PROVE  p \in Occurrences /\ Precedes(p, Here)
  BY Turn DEF Taken
<1>3. Here \in Firsts <=>
         ScopeAllowed(SpecAt(Here)) /\ ~\E p \in Taken(Passed) : Same(p, Here)
  BY <1>1, <1>2, Turn DEF Firsts
<1> QED
  BY <1>3, Turn DEF Taken, After

(* What is in the place of an entry stays there, unless the new one         *)
(* overrides it.                                                            *)
LEMMA LeadsOn ==
    ASSUME Expanding, Reading, NEW p \in Taken(Passed), NEW q \in Passed,
           Leads(q, p, Passed),
           q = p => ~(Same(p, Here) /\ Overriding(p, Here))
    PROVE  Leads(q, p, After)
BY DEF Leads, After

(* What is refused changes nothing else. *)
LEMMA StaysRefused ==
    ASSUME Expanding, Reading, Represented(Passed),
           NEW list, NEW origins, NEW index, NEW seen, NEW errs,
           Follows(Passed, list, origins, index, seen, errs),
           ~ScopeAllowed(SpecAt(Here)) \/ Duplicate(Here),
           Here \notin Firsts,
           \A p \in Taken(Passed), q \in Passed :
               Leads(q, p, Passed) /\ origins[Rank(p)] = FromBundle(q[1]) /\ q = p
               => ~(Same(p, Here) /\ Overriding(p, Here))
    PROVE  Follows(After, list, origins, index, seen, errs \union {Here})
<1>1. Taken(After) = Taken(Passed)
  BY Newcomer
<1>2. Refuses(After, errs \union {Here})
  BY Turn DEF Follows, Refuses, After
<1>3. Counts(After, list) /\ Indexes(After, index) /\ Sees(After, seen)
  BY <1>1 DEF Follows, Counts, Indexes, Sees
<1>4. Represented(After)
  <2>1. ScopeAllowed(SpecAt(Here)) => \E p \in Taken(Passed) : Same(p, Here)
    BY Newcomer
  <2> QED
    BY <1>1, <2>1 DEF Represented, After
<1>5. Places(After, list, origins)
  <2> SUFFICES ASSUME NEW p \in Taken(Passed)
               PROVE  \E q \in After : /\ Leads(q, p, After)
                                       /\ list[Rank(p)] = SpecAt(q)
                                       /\ origins[Rank(p)] = FromBundle(q[1])
    BY <1>1 DEF Places
  <2>1. PICK q \in Passed : /\ Leads(q, p, Passed)
                            /\ list[Rank(p)] = SpecAt(q)
                            /\ origins[Rank(p)] = FromBundle(q[1])
    BY DEF Follows, Places
  <2>2. Leads(q, p, After)
    BY <2>1, LeadsOn
  <2> QED
    BY <2>1, <2>2 DEF After
<1> QED
  BY <1>2, <1>3, <1>4, <1>5 DEF Follows

(* A first takes the next place. *)
LEMMA TakesPlace ==
    ASSUME Expanding, Reading, Represented(Passed), Here \in Firsts,
           Counts(Passed, ordered), Places(Passed, ordered, originBundle)
    PROVE  /\ Counts(After, Append(ordered, Current))
           /\ Places(After, Append(ordered, Current), Append(originBundle, FromBundle(source)))
           /\ Rank(Here) = Len(ordered) + 1
           /\ Represented(After)
<1> DEFINE list == Append(ordered, Current)
           origins == Append(originBundle, FromBundle(source))
           T == Taken(Passed)
           n == Cardinality(T)
<1>1. Taken(After) = T \union {Here} /\ Here \notin T /\ ~\E p \in T : Same(p, Here)
  BY Newcomer
<1>2. /\ IsFiniteSet(Taken(After)) /\ Cardinality(Taken(After)) = n + 1 /\ n \in Nat
      /\ Len(ordered) = n /\ Len(originBundle) = n /\ IsFiniteSet(T)
  <2>1. IsFiniteSet(T) /\ Len(ordered) = n
    BY DEF Counts
  <2> QED
    BY <1>1, <2>1, FS_AddElement, FS_CardinalityType DEF Expanding, TypeOK, ExpandTypeOK
<1>3. Upto(Here) = Taken(After)
  <2>1. ASSUME NEW o \in Firsts
        PROVE  ~Precedes(Here, o) <=> o \in Taken(After)
    <3>1. o \in Occurrences /\ (o = Here \/ Precedes(o, Here) \/ Precedes(Here, o))
      BY Turn, Order DEF Firsts
    <3> QED
      BY <3>1, Turn DEF Taken, After
  <2> QED
    BY <2>1 DEF Upto, Taken
<1>4. Rank(Here) = n + 1
  BY <1>2, <1>3 DEF Rank, Upto
<1>5. /\ \A i \in 1..n : list[i] = ordered[i] /\ origins[i] = originBundle[i]
      /\ list[n + 1] = Current /\ origins[n + 1] = FromBundle(source)
      /\ Len(list) = n + 1
  <2>1. ordered \in Seq(ResolvedVariable) /\ originBundle \in Seq(BOOLEAN)
    BY DEF Expanding, TypeOK, ExpandTypeOK
  <2> QED
    BY <1>2, <2>1
<1>6. \A p \in T : Rank(p) \in 1..n
  BY <1>2, Ranks
<1> HIDE DEF list, origins, T, n
<1>7. ASSUME NEW p \in Taken(After)
      PROVE  \E q \in After : /\ Leads(q, p, After)
                              /\ list[Rank(p)] = SpecAt(q)
                              /\ origins[Rank(p)] = FromBundle(q[1])
  <2>1. CASE p = Here
    <3>1. Leads(Here, Here, After)
      BY Turn DEF Leads
    <3>2. list[Rank(p)] = SpecAt(Here) /\ origins[Rank(p)] = FromBundle(Here[1])
      BY <1>4, <1>5, <2>1, Turn
    <3> QED
      BY <2>1, <3>1, <3>2 DEF After
  <2>2. CASE p \in T
    <3>1. PICK q \in Passed : /\ Leads(q, p, Passed)
                              /\ ordered[Rank(p)] = SpecAt(q)
                              /\ originBundle[Rank(p)] = FromBundle(q[1])
      BY <2>2 DEF Places, T
    <3>2. Leads(q, p, After)
      BY <1>1, <2>2, <3>1, LeadsOn DEF T
    <3> QED
      BY <1>5, <1>6, <2>2, <3>1, <3>2 DEF After
  <2> QED
    BY <1>1, <2>1, <2>2
<1>8. Represented(After)
  <2>1. Same(Here, Here)
    BY DEF Same
  <2> QED
    BY <1>1, <2>1 DEF Represented, After, T
<1> QED
  BY <1>2, <1>4, <1>5, <1>7, <1>8 DEF Counts, Places, list, origins

(* A first is neither beyond the instance nor a duplicate. *)
LEMMA FirstAccepted ==
    ASSUME Expanding, Reading, NEW errs, Here \in Firsts, Refuses(Passed, errs)
    PROVE  Refuses(After, errs)
<1>1. ScopeAllowed(SpecAt(Here)) /\ ~Duplicate(Here)
  BY DEF Firsts, Duplicate
<1> QED
  BY <1>1 DEF Refuses, After

(* What has been read of the same name, if anything allowed has, comes      *)
(* before what is read now.                                                 *)
LEMMA ReadEarlier ==
    ASSUME Expanding, Reading, NEW p \in Passed
    PROVE  p \in Occurrences /\ Precedes(p, Here)
BY Turn

(* Every step of the expansion does to the entries read so far what the     *)
(* reference says of one occurrence more.                                   *)
Afterwards ==
    Follows(After, ordered', originBundle', keyed', fromSecretSeen', refused')

LEMMA RefuseScopeStep ==
    ASSUME Expanding, Tracked, RefuseScope
    PROVE  Afterwards
<1>1. Reading /\ ~ScopeAllowed(SpecAt(Here))
  BY Turn DEF RefuseScope
<1>2. /\ refused' = refused \union {Here}
      /\ ordered' = ordered /\ originBundle' = originBundle /\ keyed' = keyed
      /\ fromSecretSeen' = fromSecretSeen
  BY DEF RefuseScope, Refuse, Here
<1>3. Represented(Passed) /\ Follows(Passed, ordered, originBundle, keyed, fromSecretSeen, refused)
  BY DEF Tracked, Follows, Expanding
<1>4. ASSUME NEW p \in Taken(Passed)
      PROVE  ~Same(p, Here)
  BY <1>1, SameMeans DEF Taken, Firsts
<1>5. Here \notin Firsts
  BY <1>1 DEF Firsts
<1> QED
  BY <1>1, <1>2, <1>3, <1>4, <1>5, StaysRefused DEF Afterwards

LEMMA RefuseDerivedStep ==
    ASSUME Expanding, Tracked, RefuseDerived
    PROVE  Afterwards
<1>1. /\ Reading /\ Derived(SpecAt(Here)) /\ ScopeAllowed(SpecAt(Here))
      /\ Signature(SpecAt(Here)) \in fromSecretSeen
  BY Turn DEF RefuseDerived, Taking
<1>2. /\ refused' = refused \union {Here}
      /\ ordered' = ordered /\ originBundle' = originBundle /\ keyed' = keyed
      /\ fromSecretSeen' = fromSecretSeen
  BY DEF RefuseDerived, Refuse, Here
<1>3. Represented(Passed) /\ Follows(Passed, ordered, originBundle, keyed, fromSecretSeen, refused)
  BY DEF Tracked, Follows, Expanding
<1>4. PICK p \in Taken(Passed) : Derived(SpecAt(p)) /\ Same(p, Here)
  BY <1>1, <1>3, SameMeans DEF Follows, Sees
<1>5. Here \notin Firsts
  BY <1>1, <1>3, <1>4, Newcomer
<1>6. Duplicate(Here)
  <2>1. p \in Occurrences /\ Precedes(p, Here) /\ ~Overriding(p, Here)
    BY <1>1, <1>4, ReadEarlier DEF Taken, Overriding
  <2> QED
    BY <1>4, <2>1 DEF Duplicate
<1>7. \A o : ~Overriding(o, Here)
  BY <1>1 DEF Overriding
<1> QED
  BY <1>1, <1>2, <1>3, <1>5, <1>6, <1>7, StaysRefused DEF Afterwards

LEMMA AddDerivedStep ==
    ASSUME Expanding, Tracked, AddDerived
    PROVE  Afterwards
<1>1. /\ Reading /\ Derived(SpecAt(Here)) /\ ScopeAllowed(SpecAt(Here))
      /\ Signature(SpecAt(Here)) \notin fromSecretSeen
  BY Turn DEF AddDerived, Taking
<1>2. /\ fromSecretSeen' = fromSecretSeen \union {Signature(SpecAt(Here))}
      /\ ordered' = Append(ordered, Current)
      /\ originBundle' = Append(originBundle, FromBundle(source))
      /\ keyed' = keyed /\ refused' = refused
  BY <1>1, Turn DEF AddDerived, AppendEntry
<1>3. /\ Represented(Passed) /\ Counts(Passed, ordered)
      /\ Places(Passed, ordered, originBundle) /\ Indexes(Passed, keyed)
      /\ Sees(Passed, fromSecretSeen) /\ Refuses(Passed, refused)
  BY DEF Tracked, Follows, Expanding
<1>4. ASSUME NEW p \in Taken(Passed)
      PROVE  ~Same(p, Here)
  BY <1>1, <1>3, SameMeans DEF Sees
<1>5. Here \in Firsts /\ Taken(After) = Taken(Passed) \union {Here}
  BY <1>1, <1>3, <1>4, Newcomer
<1>6. Indexes(After, keyed')
  BY <1>1, <1>2, <1>3, <1>5 DEF Indexes
<1>7. Sees(After, fromSecretSeen')
  BY <1>1, <1>2, <1>3, <1>5 DEF Sees
<1>8. Refuses(After, refused')
  BY <1>1, <1>2, <1>3, <1>5, FirstAccepted
<1>9. /\ Counts(After, ordered') /\ Places(After, ordered', originBundle')
      /\ Represented(After)
  BY <1>1, <1>2, <1>3, <1>5, TakesPlace
<1> QED
  BY <1>6, <1>7, <1>8, <1>9 DEF Afterwards, Follows

(* The first of an explicit specification's identity, and its place. *)
LEMMA Keyed ==
    ASSUME Expanding, Reading, ~Derived(SpecAt(Here)), Indexes(Passed, keyed),
           Counts(Passed, ordered)
    PROVE  /\ keyed[Identity(SpecAt(Here))] # 0 =>
                 \E p \in Taken(Passed) : Same(p, Here) /\ keyed[Identity(SpecAt(Here))] = Rank(p)
           /\ keyed[Identity(SpecAt(Here))] = 0 => \A p \in Taken(Passed) : ~Same(p, Here)
<1> DEFINE id == Identity(SpecAt(Here))
<1>1. id \in Identities
  BY Turn
<1>2. ASSUME keyed[id] # 0
      PROVE  \E p \in Taken(Passed) : Same(p, Here) /\ keyed[id] = Rank(p)
  <2>1. PICK p \in Taken(Passed) : ~Derived(SpecAt(p)) /\ Identity(SpecAt(p)) = id
    BY <1>1, <1>2 DEF Indexes
  <2> QED
    BY <2>1, SameMeans DEF Indexes
<1>3. ASSUME NEW p \in Taken(Passed), Same(p, Here)
      PROVE  keyed[id] # 0
  <2>1. ~Derived(SpecAt(p)) /\ Identity(SpecAt(p)) = id
    BY <1>3, SameMeans
  <2>2. Rank(p) \in 1..Cardinality(Taken(Passed)) /\ keyed[id] = Rank(p)
    BY <2>1, Ranks DEF Indexes, Counts
  <2>3. Cardinality(Taken(Passed)) \in Nat
    BY FS_CardinalityType DEF Counts
  <2> QED
    BY <2>2, <2>3
<1> QED
  BY <1>2, <1>3

LEMMA AddKeyedStep ==
    ASSUME Expanding, Tracked, AddKeyed
    PROVE  Afterwards
<1> DEFINE id == Identity(SpecAt(Here))
<1>1. /\ Reading /\ ~Derived(SpecAt(Here)) /\ ScopeAllowed(SpecAt(Here))
      /\ keyed[id] = 0 /\ id \in Identities
  BY Turn DEF AddKeyed, Taking
<1>2. /\ keyed' = [keyed EXCEPT ![id] = Len(ordered) + 1]
      /\ ordered' = Append(ordered, Current)
      /\ originBundle' = Append(originBundle, FromBundle(source))
      /\ fromSecretSeen' = fromSecretSeen /\ refused' = refused
  BY <1>1, Turn DEF AddKeyed, AppendEntry
<1>3. /\ Represented(Passed) /\ Counts(Passed, ordered)
      /\ Places(Passed, ordered, originBundle) /\ Indexes(Passed, keyed)
      /\ Sees(Passed, fromSecretSeen) /\ Refuses(Passed, refused)
  BY DEF Tracked, Follows, Expanding
<1>4. \A p \in Taken(Passed) : ~Same(p, Here)
  BY <1>1, <1>3, Keyed
<1>5. Here \in Firsts /\ Taken(After) = Taken(Passed) \union {Here}
  BY <1>1, <1>3, <1>4, Newcomer
<1>6. Sees(After, fromSecretSeen')
  BY <1>1, <1>2, <1>3, <1>5 DEF Sees
<1>7. Refuses(After, refused')
  BY <1>1, <1>2, <1>3, <1>5, FirstAccepted
<1>8. /\ Counts(After, ordered') /\ Places(After, ordered', originBundle')
      /\ Represented(After) /\ Rank(Here) = Len(ordered) + 1
  BY <1>1, <1>2, <1>3, <1>5, TakesPlace
<1>9. Indexes(After, keyed')
  <2>1. /\ keyed'[id] = Rank(Here)
        /\ \A i \in Identities : i # id => keyed'[i] = keyed[i]
    BY <1>1, <1>2, <1>8 DEF Expanding, TypeOK, ExpandTypeOK
  <2>2. ASSUME NEW p \in Taken(After), ~Derived(SpecAt(p))
        PROVE  keyed'[Identity(SpecAt(p))] = Rank(p)
    <3>1. CASE p = Here
      BY <2>1, <3>1
    <3>2. CASE p \in Taken(Passed)
      <4>1. Identity(SpecAt(p)) # id
        BY <1>1, <1>4, <2>2, <3>2, SameMeans
      <4>2. Identity(SpecAt(p)) \in Identities
        BY <3>2, OccurrenceType DEF Taken, Firsts
      <4> QED
        BY <1>3, <2>1, <2>2, <3>2, <4>1, <4>2 DEF Indexes
    <3> QED
      BY <1>5, <3>1, <3>2
  <2>3. ASSUME NEW i \in Identities, keyed'[i] # 0
        PROVE  \E p \in Taken(After) : ~Derived(SpecAt(p)) /\ Identity(SpecAt(p)) = i
    <3>1. CASE i = id
      BY <1>1, <1>5, <3>1
    <3>2. CASE i # id
      BY <1>3, <1>5, <2>1, <2>3, <3>2 DEF Indexes
    <3> QED
      BY <3>1, <3>2
  <2> QED
    BY <2>2, <2>3 DEF Indexes
<1> QED
  BY <1>6, <1>7, <1>8, <1>9 DEF Afterwards, Follows

(* The entry of a first that is still the bundle's is the first itself.     *)
LEMMA RefuseKeyedStep ==
    ASSUME Expanding, Tracked, RefuseKeyed
    PROVE  Afterwards
<1> DEFINE id == Identity(SpecAt(Here))
<1>1. /\ Reading /\ ~Derived(SpecAt(Here)) /\ ScopeAllowed(SpecAt(Here))
      /\ keyed[id] # 0 /\ id \in Identities
      /\ FromBundle(source) \/ ~originBundle[keyed[id]]
  BY Turn DEF RefuseKeyed, Taking, Replaceable
<1>2. /\ refused' = refused \union {Here}
      /\ ordered' = ordered /\ originBundle' = originBundle /\ keyed' = keyed
      /\ fromSecretSeen' = fromSecretSeen
  BY DEF RefuseKeyed, Refuse, Here
<1>3. /\ Represented(Passed) /\ Counts(Passed, ordered)
      /\ Places(Passed, ordered, originBundle) /\ Indexes(Passed, keyed)
      /\ Follows(Passed, ordered, originBundle, keyed, fromSecretSeen, refused)
  BY DEF Tracked, Follows, Expanding
<1>4. PICK p \in Taken(Passed) : Same(p, Here) /\ keyed[id] = Rank(p)
  BY <1>1, <1>3, Keyed
<1>5. PICK q \in Passed : Leads(q, p, Passed) /\ originBundle[Rank(p)] = FromBundle(q[1])
  BY <1>3 DEF Places
<1>6. Here \notin Firsts
  BY <1>1, <1>3, <1>4, Newcomer
<1>7. Same(q, Here)
  BY <1>4, <1>5, SameEquivalence DEF Leads
<1>8. ~Overriding(q, Here)
  BY <1>1, <1>4, <1>5, Turn DEF Overriding
<1>9. Duplicate(Here)
  BY <1>1, <1>5, <1>7, <1>8, ReadEarlier DEF Duplicate
<1>10. ASSUME NEW o \in Taken(Passed), originBundle[Rank(o)] = FromBundle(o[1]),
              Same(o, Here), Overriding(o, Here)
       PROVE  FALSE
  <2>1. o = p
    <3>1. Same(p, o)
      BY <1>4, <1>10, SameEquivalence
    <3> QED
      BY <3>1, FirstUnique DEF Taken
  <2>2. ~FromBundle(source) /\ FromBundle(o[1])
    BY <1>1, <1>10, Turn DEF Overriding
  <2> QED
    BY <1>1, <1>4, <1>10, <2>1, <2>2
<1>11. \A o \in Taken(Passed), r \in Passed :
          Leads(r, o, Passed) /\ originBundle[Rank(o)] = FromBundle(r[1]) /\ r = o
          => ~(Same(o, Here) /\ Overriding(o, Here))
  BY <1>10
<1> QED
  BY <1>1, <1>2, <1>3, <1>6, <1>9, <1>11, StaysRefused DEF Afterwards

(* An inline variable takes the place of the bundle's. *)
LEMMA OverrideStep ==
    ASSUME Expanding, Tracked, Override
    PROVE  Afterwards
<1> DEFINE id == Identity(SpecAt(Here))
<1>1. /\ Reading /\ ~Derived(SpecAt(Here)) /\ ScopeAllowed(SpecAt(Here))
      /\ keyed[id] # 0 /\ id \in Identities
      /\ ~FromBundle(source) /\ originBundle[keyed[id]]
  BY Turn DEF Override, Taking, Replaceable
<1>2. /\ ordered' = [ordered EXCEPT ![keyed[id]] = Current]
      /\ originBundle' = [originBundle EXCEPT ![keyed[id]] = FALSE]
      /\ keyed' = keyed /\ fromSecretSeen' = fromSecretSeen /\ refused' = refused
  BY <1>1, Turn DEF Override
<1>3. /\ Represented(Passed) /\ Counts(Passed, ordered)
      /\ Places(Passed, ordered, originBundle) /\ Indexes(Passed, keyed)
      /\ Sees(Passed, fromSecretSeen) /\ Refuses(Passed, refused)
  BY DEF Tracked, Follows, Expanding
<1>4. PICK p \in Taken(Passed) : Same(p, Here) /\ keyed[id] = Rank(p)
  BY <1>1, <1>3, Keyed
<1>5. PICK q \in Passed : Leads(q, p, Passed) /\ originBundle[Rank(p)] = FromBundle(q[1])
  BY <1>3 DEF Places
<1>6. Here \notin Firsts /\ Taken(After) = Taken(Passed)
  BY <1>1, <1>3, <1>4, Newcomer
<1>7. /\ FromBundle(p[1])
      /\ ~\E r \in Passed : Same(p, r) /\ Precedes(p, r) /\ Overriding(p, r)
  BY <1>1, <1>4, <1>5 DEF Leads, Overriding
<1>8. p \in Firsts /\ p \in Passed /\ p \in Occurrences /\ Precedes(p, Here)
  BY <1>1, ReadEarlier DEF Taken
<1>9. ~Duplicate(Here)
  <2> SUFFICES ASSUME NEW o \in Occurrences, Precedes(o, Here), Same(o, Here), ~Overriding(o, Here)
               PROVE  FALSE
    BY DEF Duplicate
  <2>1. o \in Passed /\ ~FromBundle(o[1]) /\ ~Derived(SpecAt(o))
    BY <1>1, Turn, SameMeans DEF Overriding
  <2>2. Same(p, o) /\ Same(o, p)
    BY <1>4, SameEquivalence
  <2>3. Precedes(p, o)
    BY <1>7, <1>8, <2>1, <2>2, Order DEF Firsts
  <2>4. Overriding(p, o)
    BY <1>7, <2>1 DEF Overriding
  <2> QED
    BY <1>7, <2>1, <2>2, <2>3, <2>4
<1>10. Leads(Here, p, After)
  <2>1. Overriding(p, Here)
    BY <1>1, <1>7, Turn DEF Overriding
  <2> QED
    BY <1>4, <1>8, <1>9, <2>1 DEF Leads
<1>11. Refuses(After, refused')
  BY <1>1, <1>2, <1>3, <1>9 DEF Refuses, After
<1>12. Indexes(After, keyed') /\ Sees(After, fromSecretSeen')
  BY <1>2, <1>3, <1>6 DEF Indexes, Sees
<1>13. Represented(After)
  BY <1>3, <1>4, <1>6 DEF Represented, After
<1>14. Len(ordered') = Len(ordered) /\ Counts(After, ordered')
  <2>1. Len(ordered') = Len(ordered)
    BY <1>2 DEF Expanding, TypeOK, ExpandTypeOK
  <2> QED
    BY <1>3, <1>6, <2>1 DEF Counts
<1>15. Places(After, ordered', originBundle')
  <2>1. /\ \A r \in Taken(Passed) : Rank(r) \in DOMAIN ordered /\ Rank(r) \in DOMAIN originBundle
        /\ \A r \in Taken(Passed) : Rank(r) = Rank(p) => r = p
    <3>1. Len(ordered) = Cardinality(Taken(Passed)) /\ Len(originBundle) = Len(ordered)
      BY <1>3 DEF Counts, Expanding, TypeOK, ExpandTypeOK
    <3>2. DOMAIN ordered = 1..Len(ordered) /\ DOMAIN originBundle = 1..Len(originBundle)
      BY DEF Expanding, TypeOK, ExpandTypeOK
    <3> QED
      BY <1>3, <3>1, <3>2, Ranks DEF Counts
  <2>2. /\ ordered'[Rank(p)] = SpecAt(Here) /\ originBundle'[Rank(p)] = FALSE
        /\ \A k \in DOMAIN ordered : k # Rank(p) => ordered'[k] = ordered[k]
        /\ \A k \in DOMAIN originBundle : k # Rank(p) => originBundle'[k] = originBundle[k]
    BY <1>1, <1>2, <1>4, <2>1, Turn DEF Expanding, TypeOK, ExpandTypeOK
  <2>3. FromBundle(Here[1]) = FALSE
    BY <1>1, Turn DEF FromBundle
  <2> SUFFICES ASSUME NEW r \in Taken(Passed)
               PROVE  \E s \in After : /\ Leads(s, r, After)
                                       /\ ordered'[Rank(r)] = SpecAt(s)
                                       /\ originBundle'[Rank(r)] = FromBundle(s[1])
    BY <1>6 DEF Places
  <2>4. CASE r = p
    BY <1>10, <2>2, <2>3, <2>4 DEF After
  <2>5. CASE r # p
    <3>1. PICK s \in Passed : /\ Leads(s, r, Passed)
                              /\ ordered[Rank(r)] = SpecAt(s)
                              /\ originBundle[Rank(r)] = FromBundle(s[1])
      BY <1>3 DEF Places
    <3>2. ~Same(r, Here)
      <4>1. ASSUME Same(r, Here)  PROVE Same(r, p)
        BY <1>4, <4>1, SameEquivalence
      <4> QED
        BY <1>8, <2>5, <4>1, FirstUnique DEF Taken
    <3>3. Leads(s, r, After)
      BY <1>1, <3>1, <3>2, LeadsOn
    <3>4. Rank(r) # Rank(p)
      BY <2>1, <2>5
    <3> QED
      BY <2>1, <2>2, <3>1, <3>3, <3>4 DEF After
  <2> QED
    BY <2>4, <2>5
<1> QED
  BY <1>11, <1>12, <1>13, <1>14, <1>15 DEF Afterwards, Follows

(* Nothing has been read when a target's turn comes. *)
LEMMA Beginning ==
    /\ Expanding /\ source = 1 /\ at = 1
    /\ ordered = <<>> /\ fromSecretSeen = {} /\ refused = {}
    /\ keyed = [i \in Identities |-> 0]
    => Tracked
<1> SUFFICES ASSUME Expanding, source = 1, at = 1, ordered = <<>>, fromSecretSeen = {},
                    refused = {}, keyed = [i \in Identities |-> 0]
             PROVE  Tracked
  OBVIOUS
<1>1. Passed = {}
  <2>1. ASSUME NEW o \in Occurrences  PROVE ~Precedes(o, Here)
    BY OccurrenceType DEF Precedes, Here
  <2> QED
    BY <2>1 DEF Passed
<1>2. Taken(Passed) = {}
  BY <1>1 DEF Taken
<1>3. Counts(Passed, ordered)
  BY <1>2, FS_EmptySet DEF Counts
<1>4. /\ Refuses(Passed, refused) /\ Places(Passed, ordered, originBundle)
      /\ Indexes(Passed, keyed) /\ Sees(Passed, fromSecretSeen) /\ Represented(Passed)
  BY <1>1, <1>2 DEF Refuses, Places, Indexes, Sees, Represented
<1> QED
  BY <1>3, <1>4 DEF Tracked, Follows

(* The reference speaks of the configuration and the target alone. *)
LEMMA Unmoved ==
    ASSUME config' = config, target' = target
    PROVE  /\ Occurrences' = Occurrences
           /\ \A P, list, origins, index, seen, errs :
                 Follows(P, list, origins, index, seen, errs)'
                 <=> Follows(P, list, origins, index, seen, errs)
<1>1. Sources' = Sources /\ \A n : SpecsOf(n)' = SpecsOf(n) /\ FromBundle(n)' = FromBundle(n)
  BY DEF Sources, SpecsOf, FromBundle
<1>2. \A s : Resolve(s)' = Resolve(s)
  BY DEF Resolve, Mounted
<1>3. Occurrences' = Occurrences
  BY <1>1 DEF Occurrences
<1>4. \A o : SpecAt(o)' = SpecAt(o)
  BY <1>1, <1>2 DEF SpecAt
<1>5. \A v : ScopeAllowed(v)' = ScopeAllowed(v)
  BY DEF ScopeAllowed
<1>6. \A o, p : Same(o, p)' = Same(o, p) /\ Overriding(o, p)' = Overriding(o, p)
  BY <1>1, <1>4 DEF Same, Overriding
<1>7. \A p : Duplicate(p)' = Duplicate(p)
  BY <1>3, <1>6 DEF Duplicate
<1>8. Firsts' = Firsts
  BY <1>3, <1>4, <1>5, <1>6 DEF Firsts
<1>9. \A p : Rank(p)' = Rank(p)
  BY <1>8 DEF Rank
<1>10. \A P : Taken(P)' = Taken(P)
  BY <1>8 DEF Taken
<1>11. \A q, p, P : Leads(q, p, P)' = Leads(q, p, P)
  BY <1>6, <1>7 DEF Leads
<1>12. \A P, list, origins, index, seen, errs :
          /\ Refuses(P, errs)' = Refuses(P, errs)
          /\ Counts(P, list)' = Counts(P, list)
          /\ Represented(P)' = Represented(P)
  BY <1>4, <1>5, <1>6, <1>7, <1>10 DEF Refuses, Counts, Represented
<1>13. \A P, list, origins : Places(P, list, origins)' = Places(P, list, origins)
  BY <1>1, <1>4, <1>9, <1>10, <1>11 DEF Places
<1>14. \A P, index, seen :
          /\ Indexes(P, index)' = Indexes(P, index)
          /\ Sees(P, seen)' = Sees(P, seen)
  BY <1>4, <1>9, <1>10 DEF Indexes, Sees
<1> QED
  BY <1>3, <1>12, <1>13, <1>14 DEF Follows

(* What has been read after a specification is handed to add is one         *)
(* occurrence more, and the next source begins where the last one ended.    *)
LEMMA Onward ==
    ASSUME Expanding, UNCHANGED <<config, target>>
    PROVE  /\ Reading /\ source' = source /\ at' = at + 1 => Passed' = After
           /\ ~Reading /\ source' = source + 1 /\ at' = 1 => Passed' = Passed
<1>1. /\ source \in Nat /\ source \in Sources /\ at \in Nat /\ at >= 1
      /\ SpecsOf(source) \in Seq(VariableSpec)
  BY SourceSpecs DEF Expanding, TypeOK, ExpandTypeOK, Sources
<1>2. Occurrences' = Occurrences
  BY Unmoved
<1>3. Passed' = {o \in Occurrences : o[1] < source' \/ (o[1] = source' /\ o[2] < at')}
  BY <1>2 DEF Passed, Precedes, Here
<1>4. Passed = {o \in Occurrences : o[1] < source \/ (o[1] = source /\ o[2] < at)}
  BY DEF Passed, Precedes, Here
<1>5. ASSUME Reading, source' = source, at' = at + 1
      PROVE  Passed' = After
  <2>1. Here \in Occurrences /\ Here[1] = source /\ Here[2] = at
    BY <1>5, Turn DEF Here
  <2>2. ASSUME NEW o \in Occurrences
        PROVE  o[1] < source' \/ (o[1] = source' /\ o[2] < at')
               <=> o[1] < source \/ (o[1] = source /\ o[2] < at) \/ o = Here
    <3>1. o = <<o[1], o[2]>> /\ o[1] \in Nat /\ o[2] \in Nat
      BY OccurrenceType
    <3>2. o = Here <=> o[1] = source /\ o[2] = at
      BY <3>1 DEF Here
    <3> QED
      BY <1>1, <1>5, <3>1, <3>2
  <2> QED
    BY <1>3, <1>4, <2>1, <2>2 DEF After
<1>6. ASSUME ~Reading, source' = source + 1, at' = 1
      PROVE  Passed' = Passed
  <2>1. at \notin DOMAIN SpecsOf(source)
    BY <1>6 DEF Reading, Expanding
  <2>2. ASSUME NEW o \in Occurrences
        PROVE  o[1] < source' \/ (o[1] = source' /\ o[2] < at')
               <=> o[1] < source \/ (o[1] = source /\ o[2] < at)
    <3>1. o[1] \in Nat /\ o[2] \in Nat /\ o[2] >= 1 /\ o[2] \in DOMAIN SpecsOf(o[1])
      BY OccurrenceType
    <3>2. o[1] = source => o[2] < at
      BY <1>1, <2>1, <3>1
    <3> QED
      BY <1>1, <1>6, <3>1, <3>2
  <2> QED
    BY <1>3, <1>4, <2>2
<1> QED
  BY <1>5, <1>6

(* Every step keeps to the reference. *)
LEMMA TrackedStep ==
    ASSUME TypeOK, Sourced, Tracked, [Next]_vars
    PROVE  Tracked'
<1>1. (TypeOK /\ Sourced)'
  BY TypeStep, SourcedStep
<1>2. ASSUME NEW t, Starts(t)  PROVE Tracked'
  <2>1. stage' # "expanding" => Tracked'
    BY DEF Tracked
  <2>2. Identities' = Identities
    BY DEF Identities
  <2>3. stage' = "expanding" => Expanding'
    BY <1>1 DEF Expanding
  <2>4. /\ source' = 1 /\ at' = 1 /\ ordered' = <<>> /\ fromSecretSeen' = {} /\ refused' = {}
        /\ keyed' = [i \in Identities |-> 0]
    BY <1>2 DEF Starts
  <2>5. (/\ Expanding /\ source = 1 /\ at = 1
         /\ ordered = <<>> /\ fromSecretSeen = {} /\ refused = {}
         /\ keyed = [i \in Identities |-> 0]
         => Tracked)'
    BY Beginning, PTL
  <2> QED
    BY <2>1, <2>2, <2>3, <2>4, <2>5
<1>3. ASSUME stage = "expanding", UNCHANGED <<config, target>>,
             Passed' = After, Afterwards
      PROVE  Tracked'
  <2>1. Follows(Passed, ordered, originBundle, keyed, fromSecretSeen, refused)'
    BY <1>3, Unmoved DEF Afterwards
  <2> QED
    BY <2>1 DEF Tracked
<1>4. ASSUME stage = "expanding", UNCHANGED <<config, target, entries>>, Passed' = Passed
      PROVE  Tracked'
  <2>1. Follows(Passed, ordered, originBundle, keyed, fromSecretSeen, refused)
    BY <1>4 DEF Tracked
  <2>2. Follows(Passed, ordered, originBundle, keyed, fromSecretSeen, refused)'
    BY <1>4, <2>1, Unmoved DEF entries
  <2> QED
    BY <2>2 DEF Tracked
<1>5. CASE Add
  <2>1. stage = "expanding" /\ Expanding
    BY <1>5, AddExpands DEF Expanding
  <2>2. CASE NextSource
    <3>1. Passed' = Passed
      BY <2>1, <2>2, Onward DEF NextSource
    <3> QED
      BY <1>4, <2>1, <2>2, <3>1 DEF NextSource
  <2>3. CASE ~NextSource
    <3>1. Reading /\ Advance
      BY <1>5, <2>3 DEF Add, AddNext, RefuseScope, AddDerived, RefuseDerived, AddKeyed, Override,
                        RefuseKeyed, Taking, Refuse, AppendEntry
    <3>2. Passed' = After
      BY <2>1, <3>1, Onward DEF Advance
    <3>3. Afterwards
      BY <1>5, <2>1, <2>3, RefuseScopeStep, AddDerivedStep, RefuseDerivedStep, AddKeyedStep,
         OverrideStep, RefuseKeyedStep DEF Add, AddNext
    <3> QED
      BY <1>3, <2>1, <3>1, <3>2, <3>3 DEF Advance
  <2> QED
    BY <2>2, <2>3
<1>6. CASE ApplyDefaults \/ Reject
  BY <1>6 DEF ApplyDefaults, Reject, Tracked
<1>7. CASE Validate
  BY <1>2, <1>7 DEF Validate
<1>8. CASE TargetDone
  <2>1. CASE turn < Len(config.targets)
    BY <1>2, <1>8, <2>1 DEF TargetDone
  <2>2. CASE ~(turn < Len(config.targets))
    <3>1. stage' # "expanding"
      BY <1>8, <2>2 DEF TargetDone
    <3> QED
      BY <3>1 DEF Tracked
  <2> QED
    BY <2>1, <2>2
<1>9. CASE UNCHANGED vars
  <2>1. UNCHANGED <<stage, config, target, source, at, entries>>
    BY <1>9 DEF vars, progress
  <2>2. CASE stage = "expanding"
    <3>1. Passed' = Passed
      BY <2>1, Unmoved DEF Passed, Precedes, Here
    <3> QED
      BY <1>4, <2>1, <2>2, <3>1
  <2>3. CASE stage # "expanding"
    BY <2>1, <2>3 DEF Tracked
  <2> QED
    BY <2>2, <2>3
<1> QED
  BY <1>5, <1>6, <1>7, <1>8, <1>9 DEF Next

(* When everything has been read, the reference restricted to what has been *)
(* read is the reference.                                                   *)
LEMMA TrackedMeets ==
    ASSUME TypeOK, Sourced, Tracked
    PROVE  ExpandMeetsReference
<1> SUFFICES ASSUME Done
             PROVE  /\ refused = {p \in Occurrences : ~ScopeAllowed(SpecAt(p)) \/ Duplicate(p)}
                    /\ Len(ordered) = Cardinality(Firsts)
                    /\ \A p \in Firsts : \E q \in Occurrences :
                          Wins(q, p) /\ ordered[Rank(p)] = SpecAt(q)
  BY DEF ExpandMeetsReference
<1>1. Expanding /\ ~FromBundle(source) /\ at \notin DOMAIN SpecsOf(source)
  BY DEF Done, Expanding, Reading
<1>2. /\ source \in Nat /\ source \in Sources /\ at \in Nat /\ at >= 1
      /\ SpecsOf(source) \in Seq(VariableSpec) /\ Len(target.bundles) \in Nat
  BY <1>1, SourceSpecs DEF Expanding, TypeOK, ExpandTypeOK, Sources, Target
<1>3. source = Len(target.bundles) + 1
  BY <1>1, <1>2 DEF Sources, FromBundle
<1>4. ASSUME NEW o \in Occurrences  PROVE Precedes(o, Here)
  <2>1. /\ o[1] \in Sources /\ o[1] \in Nat /\ o[2] \in Nat /\ o[2] >= 1
        /\ o[2] \in DOMAIN SpecsOf(o[1])
    BY <1>1, OccurrenceType
  <2>2. o[1] <= source
    BY <1>2, <1>3, <2>1 DEF Sources
  <2>3. o[1] = source => o[2] < at
    BY <1>1, <1>2, <2>1
  <2> QED
    BY <1>2, <2>1, <2>2, <2>3 DEF Precedes, Here
<1>5. Passed = Occurrences /\ Taken(Passed) = Firsts
  BY <1>4 DEF Passed, Taken, Firsts
<1>6. /\ Refuses(Occurrences, refused) /\ Counts(Occurrences, ordered)
      /\ Places(Occurrences, ordered, originBundle)
  BY <1>1, <1>5 DEF Tracked, Follows, Expanding
<1>7. \A q, p : Leads(q, p, Occurrences) <=> Wins(q, p)
  BY DEF Leads, Wins
<1> QED
  BY <1>5, <1>6, <1>7 DEF Refuses, Counts, Places

(* However bundles overlap and inline variables override them: what is      *)
(* refused, what is kept and in which order, and what each entry holds, is  *)
(* what the doc comment of expand says (expand.go:8-12).                    *)
THEOREM ExpansionMeets == Spec => []ExpandMeetsReference
<1>1. Init => Tracked
  BY DEF Init, Tracked
<1>2. TypeOK /\ Sourced /\ Tracked /\ [Next]_vars => Tracked'
  BY TrackedStep
<1>3. TypeOK /\ Sourced /\ Tracked => ExpandMeetsReference
  BY TrackedMeets
<1> QED
  BY <1>1, <1>2, <1>3, ExpandTyping, PTL DEF Spec
=============================================================================
