----------------------------- MODULE ConfigLoad -----------------------------
(***************************************************************************)
(* internal/config/load.go and validate.go: what becomes of a file that    *)
(* has been parsed.  applyDefaults, validate, expand (target after target, *)
(* ConfigExpand), and a Config or an error: at start and at each SIGHUP.   *)
(*                                                                         *)
(* The targets of a file are one list, in the order the code visits them:  *)
(* the instance, if there is one, the groups, the projects.                *)
(***************************************************************************)
EXTENDS ConfigExpand

CONSTANTS
    Files,         \* bound: what the YAML file may say
    VaultAddr,     \* the environment variable, "" if it is not set
    ValidURLs,     \* what validURL accepts
    ValidKeys,     \* what keyRe matches
    Mistyped,      \* attributes with a variable_type that is none
    DefaultInterval, DefaultConcurrency, DefaultTimeout,
    DefaultMount, DefaultAttrs

References == SUBSET {"env", "file"}   \* which of a pair of *_env, *_file keys is set
Defaults == [mount : Segments, scope : Scopes, attrs : Attrs \union {Unset}]
Config ==
    [address : Texts, method : Texts, token : References, roleId : References,
     secretId : References, role : Texts, url : Texts, gitlabToken : References,
     rateLimit : Int, interval : Int, jitter : Int, concurrency : Int,
     timeout : Int \union {Unset}, policy : Texts, defaults : Defaults,
     bundles : [BundleNames -> Seq(VariableSpec) \union {Unset}],   \* Unset: not declared
     targets : Seq(Target)]

ASSUME LoadAssumption ==
    /\ Files \subseteq Config
    /\ \A f \in Files : \A i \in DOMAIN f.targets : f.targets[i].kind = "instance" => i = 1
    /\ {VaultAddr, "", "token", "error"} \subseteq Texts
    /\ "" \notin ValidURLs /\ "" \notin ValidKeys
    /\ Unset \notin Int \union Seq(VariableSpec)
    /\ DefaultInterval \in Int /\ DefaultConcurrency \in Int /\ DefaultTimeout \in Int
    /\ DefaultMount \in Segments \ {<<>>}
    /\ DefaultAttrs \in Attrs \ Mistyped

VARIABLES
    file,      \* what the YAML file says
    turn,      \* expand: the target whose turn it is
    expanded,  \* Config.Expanded
    failed     \* expand: a target had errors

load == <<file, turn, expanded, failed>>
vars == <<stage, config, target, progress, entries, load>>

(* config.Target, what the reconciler is given. *)
ExpandedTarget == [kind : Kinds, ref : Texts, variables : Seq(ResolvedVariable)]

Nothing == [kind |-> "instance", ref |-> "", bundles |-> <<>>, variables |-> <<>>]

(* Parse has decoded the file; unknown keys are an error before this.       *)
Init ==
    /\ file \in Files
    /\ config = file
    /\ stage = "parsed"
    /\ target = Nothing
    /\ source = 1
    /\ at = 1
    /\ ordered = <<>>
    /\ originBundle = <<>>
    /\ keyed = [i \in Identities |-> 0]
    /\ fromSecretSeen = {}
    /\ refused = {}
    /\ turn = 1
    /\ expanded = <<>>
    /\ failed = FALSE

Or(value, default, none) == IF value = none THEN default ELSE value

Completed(defaults) ==
    [mount |-> Or(defaults.mount, DefaultMount, <<>>),
     scope |-> Or(defaults.scope, AnyScope, ""),
     attrs |-> Or(defaults.attrs, DefaultAttrs, Unset)]

(* Mutant: an explicit timeout of 0 counts as left out. *)
DefaultedZeroing(c) ==
    [c EXCEPT
        !.address = Or(@, VaultAddr, ""),
        !.method = Or(@, "token", ""),
        !.token = IF c.method \in {"", "token"} THEN Or(@, {"env"}, {}) ELSE @,
        !.interval = Or(@, DefaultInterval, 0),
        !.concurrency = Or(@, DefaultConcurrency, 0),
        !.timeout = IF @ \in {Unset, 0} THEN DefaultTimeout ELSE @,
        !.policy = Or(@, "error", ""),
        !.defaults = Completed(@)]

(* Only what is left out gets a default, and a timeout of 0 is not. *)
Defaulted(c) ==
    [c EXCEPT
        !.address = Or(@, VaultAddr, ""),
        !.method = Or(@, "token", ""),
        !.token = IF c.method \in {"", "token"} THEN Or(@, {"env"}, {}) ELSE @,
        !.interval = Or(@, DefaultInterval, 0),
        !.concurrency = Or(@, DefaultConcurrency, 0),
        !.timeout = Or(@, DefaultTimeout, Unset),
        !.policy = Or(@, "error", ""),
        !.defaults = Completed(@)]

ApplyDefaults ==
    /\ stage = "parsed"
    /\ stage' = "defaulted"
    /\ config' = Defaulted(config)
    /\ UNCHANGED <<target, progress, entries, load>>

-----------------------------------------------------------------------------
(* validate, one operator per section. *)
ExactlyOne(refs) == Cardinality(refs) = 1

VaultValid ==
    /\ config.address \in ValidURLs
    /\ \/ config.method = "token" /\ config.token # {"env", "file"}
       \/ /\ config.method = "approle"
          /\ ExactlyOne(config.roleId)
          /\ ExactlyOne(config.secretId)
       \/ config.method = "kubernetes" /\ config.role # ""

GitLabValid ==
    config.url \in ValidURLs /\ ExactlyOne(config.gitlabToken) /\ config.rateLimit >= 0

SyncValid ==
    /\ config.interval > 0
    /\ config.jitter >= 0
    /\ config.concurrency >= 1
    /\ config.timeout >= 0
    /\ config.policy \in {"error", "skip-warn"}

(* validateSpec; a bundle's specification counts as a project's.            *)
ExplicitShape(spec) ==
    /\ spec.vault # Unset /\ spec.fromSecret = Unset
    /\ spec.key \in ValidKeys
    /\ spec.vault.path # <<>> /\ spec.vault.field # ""
    /\ spec.prefix = ""

DerivedShape(spec) ==
    /\ spec.fromSecret # Unset /\ spec.vault = Unset
    /\ spec.key = ""
    /\ spec.fromSecret.path # <<>> /\ spec.fromSecret.field = ""
    /\ spec.prefix \in ValidKeys \union {""}

SpecValid(spec, kind) ==
    /\ ExplicitShape(spec) \/ DerivedShape(spec)
    /\ spec.attrs \notin Mistyped
    /\ kind = "instance" => spec.scope \in {Unset, AnyScope}

AllValid(specs, kind) == \A i \in DOMAIN specs : SpecValid(specs[i], kind)

Declared == {b \in BundleNames : config.bundles[b] # Unset}
BundlesValid == \A b \in Declared : AllValid(config.bundles[b], "project")

TargetValid(t) ==
    /\ \A i \in DOMAIN t.bundles : t.bundles[i] \in Declared
    /\ AllValid(t.variables, t.kind)
    /\ t.kind # "instance" => t.ref # ""

(* Only references that are the same text are seen here; what else names    *)
(* the same object is left to the claims of a pass.                         *)
TargetsValid ==
    /\ config.targets # <<>>
    /\ \A i \in DOMAIN config.targets : TargetValid(config.targets[i])
    /\ \A i, j \in DOMAIN config.targets :
          /\ config.targets[i].kind = config.targets[j].kind
          /\ config.targets[i].ref = config.targets[j].ref
          => i = j

Valid ==
    /\ VaultValid /\ GitLabValid /\ SyncValid
    /\ config.defaults.attrs \notin Mistyped
    /\ BundlesValid /\ TargetsValid

Validate ==
    /\ stage = "defaulted"
    /\ Valid
    /\ stage' = "expanding"
    /\ Starts(config.targets[1])
    /\ UNCHANGED <<config, load>>

Reject ==
    /\ stage = "defaulted"
    /\ ~Valid
    /\ stage' = "rejected"
    /\ UNCHANGED <<config, target, progress, entries, load>>

-----------------------------------------------------------------------------
Add == AddNext /\ UNCHANGED load

(* expandTarget has returned: its variables and its errors are kept.        *)
TargetDone ==
    /\ Done
    /\ expanded' = Append(expanded, [kind |-> target.kind, ref |-> target.ref,
                                     variables |-> ordered])
    /\ failed' = (failed \/ refused # {})
    /\ turn' = turn + 1
    /\ UNCHANGED <<file, config>>
    /\ IF turn < Len(config.targets)
       THEN Starts(config.targets[turn + 1]) /\ UNCHANGED stage
       ELSE /\ stage' = IF failed' THEN "rejected" ELSE "loaded"
            /\ UNCHANGED <<target, progress, entries>>

Next == ApplyDefaults \/ Validate \/ Reject \/ Add \/ TargetDone

Spec == Init /\ [][Next]_vars

-----------------------------------------------------------------------------
TypeOK ==
    /\ stage \in {"parsed", "defaulted", "expanding", "loaded", "rejected"}
    /\ file \in Config
    /\ config \in Config
    /\ turn \in Nat \ {0}
    /\ expanded \in Seq(ExpandedTarget)
    /\ failed \in BOOLEAN
    /\ ExpandTypeOK

(* What the daemon, the reconciler and the build assume of a configuration  *)
(* (DaemonAssumption, ConfigAssumption), each a consequence of checks made  *)
(* at two places and after defaults that may put back what was checked.     *)
LoopReady ==
    /\ config.interval > 0 /\ config.jitter >= 0 /\ config.concurrency >= 1
    /\ config.timeout = IF file.timeout = Unset THEN DefaultTimeout ELSE file.timeout
    /\ config.timeout >= 0

Explicit(v) == v.vault # Unset
EntryReady(kind, v) ==
    /\ Explicit(v) <=> ~Derived(v)
    /\ Explicit(v) => v.key \in ValidKeys /\ v.vault.mount # <<>> /\ v.vault.field # ""
    /\ Derived(v) => v.key = "" /\ v.fromSecret.mount # <<>>
    /\ v.attrs \notin Mistyped
    /\ kind = "instance" => v.scope = AnyScope

EntriesReady ==
    \A n \in DOMAIN expanded :
        LET vs == expanded[n].variables
        IN  /\ \A i \in DOMAIN vs : EntryReady(expanded[n].kind, vs[i])
            /\ \A i, j \in DOMAIN vs :
                  Explicit(vs[i]) /\ Explicit(vs[j]) /\ Identity(vs[i]) = Identity(vs[j]) => i = j

TargetsDistinct ==
    /\ Len(expanded) = Len(file.targets)
    /\ \A m, n \in DOMAIN expanded :
          expanded[m].kind = expanded[n].kind /\ expanded[m].ref = expanded[n].ref => m = n

(* The cache tells secrets apart by SecretKey.  That is right as long as no *)
(* mount lies inside another, which Vault does not allow.                   *)
RefsUsed ==
    UNION {{IF Explicit(v) THEN v.vault ELSE v.fromSecret :
               v \in {expanded[n].variables[i] : i \in DOMAIN expanded[n].variables}} :
           n \in DOMAIN expanded}
Inside(m, n) == Len(m) > Len(n) /\ SubSeq(m, 1, Len(n)) = n
SecretsApart ==
    (\A q, r \in RefsUsed : ~Inside(q.mount, r.mount)) =>
        \A q, r \in RefsUsed :
            SecretKey(q) = SecretKey(r) => q.mount = r.mount /\ q.path = r.path

AcceptedMeetsAssumptions ==
    stage = "loaded" => LoopReady /\ EntriesReady /\ TargetsDistinct /\ SecretsApart
=============================================================================
