---------------------------- MODULE ConfigExpand ----------------------------
(***************************************************************************)
(* internal/config/expand.go: how the bundles a target lists and its       *)
(* inline variables become the target's ResolvedVariables.  ConfigLoad     *)
(* drives it, target after target, once the configuration is validated.    *)
(*                                                                         *)
(* One step hands one specification to expandTarget's add.  The sources of *)
(* a target are its bundles in listed order and then its inline variables; *)
(* an occurrence <<n, j>> is the j-th specification of the n-th source.    *)
(* Mounts and paths are sequences of segments: <<"a", "b">> is a/b.        *)
(***************************************************************************)
EXTENDS Integers, Sequences, FiniteSets

CONSTANTS
    BundleNames,
    Keys,           \* what a key or a prefix may be, "" if it is left out
    Scopes,         \* what a scope may be
    Texts,          \* the other texts: references, fields, segments
    AnyScope,       \* defaultEnvironmentScope, "*"
    Attrs,          \* the other attributes, taken together
    Unset           \* a nil pointer

Kinds == {"instance", "group", "project"}
Segments == Seq(Texts)

VaultRef == [mount : Segments, path : Segments, field : Texts]
VariableSpec ==
    [key : Keys, vault : VaultRef \union {Unset}, fromSecret : VaultRef \union {Unset},
     prefix : Keys, scope : Scopes \union {Unset}, attrs : Attrs \union {Unset}]
ResolvedVariable ==
    [key : Keys, vault : VaultRef \union {Unset}, fromSecret : VaultRef \union {Unset},
     prefix : Keys, scope : Scopes, attrs : Attrs]
Target == [kind : Kinds, ref : Texts, bundles : Seq(BundleNames), variables : Seq(VariableSpec)]

ASSUME ExpandAssumption ==
    /\ AnyScope \in Scopes \ {""}
    /\ Unset \notin VaultRef
    /\ Unset \notin Scopes
    /\ Unset \notin Attrs

VARIABLES
    stage,         \* of Parse: see ConfigLoad
    config,        \* the Config, with its defaults once they are applied
    target,        \* the target that is expanded
    source,        \* the source being read
    at,            \* and the place in it
    ordered,       \* the entries so far
    originBundle,  \* whether each of them came from a bundle
    keyed,         \* explicit entries by identity: a place in ordered, or 0
    fromSecretSeen,
    refused        \* errs: the occurrences refused

progress == <<source, at>>
entries == <<ordered, originBundle, keyed, fromSecretSeen, refused>>

Identities == Keys \X Scopes
Signatures == Segments \X Keys \X Scopes
Identity(v) == <<v.key, v.scope>>

(* SecretKey joins mount and path, and forgets where one ends. *)
SecretKey(r) == r.mount \o r.path
Signature(v) == <<SecretKey(v.fromSecret), v.prefix, v.scope>>
Derived(v) == v.fromSecret # Unset

Sources == 1..(Len(target.bundles) + 1)
SpecsOf(n) ==
    IF n <= Len(target.bundles) THEN config.bundles[target.bundles[n]] ELSE target.variables
FromBundle(n) == n <= Len(target.bundles)

(* expandTarget is called for target t. *)
Starts(t) ==
    /\ target' = t
    /\ source' = 1
    /\ at' = 1
    /\ ordered' = <<>>
    /\ originBundle' = <<>>
    /\ keyed' = [i \in Identities |-> 0]
    /\ fromSecretSeen' = {}
    /\ refused' = {}

Mounted(r) ==
    IF r = Unset THEN Unset
    ELSE [r EXCEPT !.mount = IF @ = <<>> THEN config.defaults.mount ELSE @]

Resolve(spec) ==
    [key        |-> spec.key,
     vault      |-> Mounted(spec.vault),
     fromSecret |-> Mounted(spec.fromSecret),
     prefix     |-> spec.prefix,
     scope      |-> IF spec.scope = Unset THEN config.defaults.scope ELSE spec.scope,
     attrs      |-> IF spec.attrs = Unset THEN config.defaults.attrs ELSE spec.attrs]

(* The specification whose turn it is, with the defaults applied. *)
Current == Resolve(SpecsOf(source)[at])

Reading == stage = "expanding" /\ at \in DOMAIN SpecsOf(source)
Advance == at' = at + 1 /\ UNCHANGED <<stage, config, target, source>>

(* Instance variables have no scope; a default scope counts as one. *)
ScopeAllowed(v) == v.scope = AnyScope \/ target.kind # "instance"

Taking(derived) == Reading /\ ScopeAllowed(Current) /\ Derived(Current) = derived

Refuse ==
    /\ Advance
    /\ refused' = refused \union {<<source, at>>}
    /\ UNCHANGED <<ordered, originBundle, keyed, fromSecretSeen>>

AppendEntry ==
    /\ Advance
    /\ ordered' = Append(ordered, Current)
    /\ originBundle' = Append(originBundle, FromBundle(source))
    /\ UNCHANGED refused

RefuseScope == Reading /\ ~ScopeAllowed(Current) /\ Refuse

(* from_secret entries are told apart by secret, prefix and scope, and a    *)
(* second one is refused wherever it comes from.                            *)
AddDerived ==
    /\ Taking(TRUE)
    /\ Signature(Current) \notin fromSecretSeen
    /\ fromSecretSeen' = fromSecretSeen \union {Signature(Current)}
    /\ AppendEntry
    /\ UNCHANGED keyed

RefuseDerived ==
    /\ Taking(TRUE)
    /\ Signature(Current) \in fromSecretSeen
    /\ Refuse

(* Mutant: the place is taken after the entry is appended. *)
AddKeyedLate ==
    /\ Taking(FALSE)
    /\ keyed[Identity(Current)] = 0
    /\ keyed' = [keyed EXCEPT ![Identity(Current)] = Len(ordered) + 2]
    /\ AppendEntry
    /\ UNCHANGED fromSecretSeen

AddKeyed ==
    /\ Taking(FALSE)
    /\ keyed[Identity(Current)] = 0
    /\ keyed' = [keyed EXCEPT ![Identity(Current)] = Len(ordered) + 1]
    /\ AppendEntry
    /\ UNCHANGED fromSecretSeen

(* The entry of this identity, if it is still the bundle's, may be replaced *)
(* by an inline one.                                                        *)
Replaceable(id) == ~FromBundle(source) /\ originBundle[keyed[id]]

(* Mutant: the override is added at the end. *)
OverrideAppending ==
    /\ Taking(FALSE)
    /\ keyed[Identity(Current)] # 0
    /\ Replaceable(Identity(Current))
    /\ AppendEntry
    /\ UNCHANGED <<keyed, fromSecretSeen>>

(* Mutant: the overridden entry still counts as the bundle's. *)
OverrideKeepingOrigin ==
    /\ Taking(FALSE)
    /\ keyed[Identity(Current)] # 0
    /\ Replaceable(Identity(Current))
    /\ ordered' = [ordered EXCEPT ![keyed[Identity(Current)]] = Current]
    /\ Advance
    /\ UNCHANGED <<originBundle, keyed, fromSecretSeen, refused>>

(* In place: the override takes the position of what it replaces. *)
Override ==
    /\ Taking(FALSE)
    /\ keyed[Identity(Current)] # 0
    /\ Replaceable(Identity(Current))
    /\ ordered' = [ordered EXCEPT ![keyed[Identity(Current)]] = Current]
    /\ originBundle' = [originBundle EXCEPT ![keyed[Identity(Current)]] = FALSE]
    /\ Advance
    /\ UNCHANGED <<keyed, fromSecretSeen, refused>>

RefuseKeyed ==
    /\ Taking(FALSE)
    /\ keyed[Identity(Current)] # 0
    /\ ~Replaceable(Identity(Current))
    /\ Refuse

NextSource ==
    /\ stage = "expanding"
    /\ ~Reading
    /\ FromBundle(source)
    /\ source' = source + 1
    /\ at' = 1
    /\ UNCHANGED <<stage, config, target, entries>>

AddNext ==
    \/ RefuseScope
    \/ AddDerived \/ RefuseDerived
    \/ AddKeyed \/ Override \/ RefuseKeyed
    \/ NextSource

-----------------------------------------------------------------------------
(* Typing. *)
ExpandTypeOK ==
    /\ target \in Target
    /\ source \in Sources
    /\ at \in Nat \ {0}
    /\ ordered \in Seq(ResolvedVariable)
    /\ originBundle \in Seq(BOOLEAN)
    /\ Len(originBundle) = Len(ordered)
    /\ keyed \in [Identities -> 0..Len(ordered)]
    /\ fromSecretSeen \subseteq Signatures
    /\ refused \subseteq Sources \X (Nat \ {0})

(* No two explicit entries of a target have one identity, although bundles  *)
(* overlap and inline variables override them: the build of the desired     *)
(* state relies on it (ConfigAssumption in Desired).                        *)
UniqueIdentities ==
    \A i, j \in DOMAIN ordered :
        ~Derived(ordered[i]) /\ ~Derived(ordered[j]) /\ Identity(ordered[i]) = Identity(ordered[j])
        => i = j

(* The reference: what the doc comment of expand says of whole lists.       *)
Occurrences == UNION {{<<n, j>> : j \in DOMAIN SpecsOf(n)} : n \in Sources}
SpecAt(o) == Resolve(SpecsOf(o[1])[o[2]])
Precedes(o, p) == o[1] < p[1] \/ (o[1] = p[1] /\ o[2] < p[2])
Name(v) == IF Derived(v) THEN Signature(v) ELSE Identity(v)
Same(o, p) == Name(SpecAt(o)) = Name(SpecAt(p))

(* A duplicate: something of the same identity comes before it, and it is   *)
(* not the one inline variable that overrides what bundles say.             *)
Overriding(o, p) == ~Derived(SpecAt(p)) /\ ~FromBundle(p[1]) /\ FromBundle(o[1])
Duplicate(p) == \E o \in Occurrences : Precedes(o, p) /\ Same(o, p) /\ ~Overriding(o, p)

Firsts ==
    {p \in Occurrences : /\ ScopeAllowed(SpecAt(p))
                         /\ ~\E o \in Occurrences : Precedes(o, p) /\ Same(o, p)}
Rank(p) == Cardinality({o \in Firsts : ~Precedes(p, o)})
Wins(q, p) ==
    \/ q = p /\ ~\E r \in Occurrences : Same(p, r) /\ Precedes(p, r) /\ Overriding(p, r)
    \/ Same(p, q) /\ Precedes(p, q) /\ Overriding(p, q) /\ ~Duplicate(q)

(* What is refused is exactly what the instance cannot have and every       *)
(* duplicate but an inline override of a bundle's variable, and the entries *)
(* are the first occurrences in order, each replaced by its override        *)
(* (expand.go:8-12).                                                        *)
Done == stage = "expanding" /\ ~FromBundle(source) /\ ~Reading
ExpandMeetsReference ==
    Done =>
        /\ refused = {p \in Occurrences : ~ScopeAllowed(SpecAt(p)) \/ Duplicate(p)}
        /\ Len(ordered) = Cardinality(Firsts)
        /\ \A p \in Firsts : \E q \in Occurrences :
              Wins(q, p) /\ ordered[Rank(p)] = SpecAt(q)
=============================================================================
