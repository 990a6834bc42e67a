------------------------------ MODULE Desired ------------------------------
(***************************************************************************)
(* What internal/sync computes for one target: the variables the           *)
(* configuration and the secrets ask for (desired.go), and the actions     *)
(* that a comparison with GitLab plans (diff.go).                          *)
(*                                                                         *)
(* The fields of a secret are numbered 1..NumFields in the order           *)
(* sort.Strings gives their names.  A slot <<i, f>> is one outcome of the  *)
(* build: entry i of the target, field f of its secret.  Slot <<i, 0>>     *)
(* belongs to the entry itself: the one outcome of an explicit entry, and  *)
(* the failed read of a from_secret entry.                                 *)
(***************************************************************************)
EXTENDS Naturals, Sequences, FiniteSets

CONSTANTS
    Targets,     \* the entries of Config.Expanded
    Kind,        \* Kind[t]: the level the target is at
    Specs,       \* Specs[t]: its ResolvedVariables, in order
    Secrets,     \* the SecretKey()s the configuration refers to
    NumFields,   \* bound: the fields a secret can have
    Values,      \* the field values told apart
    Maskable,    \* the values maskableViolation accepts
    Oversized,   \* the values longer than instanceValueLimit bytes
    Keys,        \* valid GitLab variable keys
    InvalidKey,  \* a derived key that keyRe rejects
    Scopes,      \* environment scopes
    NoScope,     \* the empty scope of instance variables
    Attrs,       \* a type, protected, raw and description, taken together
    SkipWarn,    \* sync.on_masked_violation is "skip-warn"
    Absent       \* nothing there: a field, a secret, a variable, a target

Kinds == {"instance", "group", "project"}
Fields == 1..NumFields
Contents == [Fields -> Values \union {Absent}]
Identities == Keys \X (Scopes \union {NoScope})
Bodies == [value : Values, masked : BOOLEAN, attrs : Attrs]
Variables == [id : Identities, body : Bodies]

ResolvedVariable ==
    [explicit : BOOLEAN,      \* spec.Vault # nil; otherwise spec.FromSecret
     secret   : Secrets,
     field    : Fields,       \* the field of an explicit entry
     key      : [0..NumFields -> Keys \union {InvalidKey}],
                              \* [0]: the explicit key; [f]: Prefix + sanitizeKey
     scope    : Scopes,
     masked   : BOOLEAN,
     attrs    : Attrs]

Entries(t) == 1..Len(Specs[t])
Slots(t) == Entries(t) \X (0..NumFields)

(* Instance variables have no environment scope. *)
ScopeAt(t, scope) == IF Kind[t] = "instance" THEN NoScope ELSE scope

(* r.identityFor for the key of slot <<i, f>>. *)
IdentityFor(t, i, f) == <<Specs[t][i].key[f], ScopeAt(t, Specs[t][i].scope)>>

(* Validation and expansion accept only valid explicit keys, one entry per  *)
(* identity; sync.concurrency and the rest is typed.                        *)
ASSUME ConfigAssumption ==
    /\ NumFields \in Nat
    /\ Kind \in [Targets -> Kinds]
    /\ \A t \in Targets : Specs[t] \in Seq(ResolvedVariable)
    /\ \A t \in Targets : \A i \in Entries(t) :
          Specs[t][i].explicit => Specs[t][i].key[0] \in Keys
    /\ \A t \in Targets : \A i, j \in Entries(t) :
          /\ Specs[t][i].explicit
          /\ Specs[t][j].explicit
          /\ IdentityFor(t, i, 0) = IdentityFor(t, j, 0)
          => i = j

ASSUME ValueAssumption ==
    /\ Maskable \subseteq Values
    /\ Oversized \subseteq Values
    /\ SkipWarn \in BOOLEAN
    /\ InvalidKey \notin Keys
    /\ Absent \notin Values
    /\ Absent \notin Contents
    /\ Absent \notin Bodies
    /\ Absent \notin Secrets

-----------------------------------------------------------------------------
(* Actions.  "want" is a variable the build asked for that is not compared  *)
(* with GitLab yet, "none" a slot without an outcome.                       *)

WithVariable == {"want", "create", "update", "noop"}
Reasons == {"", "vault", "field", "key", "collision", "limit", "masked"}
Action ==
    [op : WithVariable, var : Variables, reason : {"", "apply"}, err : BOOLEAN]
    \union [op : {"none", "skip"}, var : {Absent}, reason : Reasons, err : BOOLEAN]

NoAction == [op |-> "none", var |-> Absent, reason |-> "", err |-> FALSE]
Skip(reason, err) == [op |-> "skip", var |-> Absent, reason |-> reason, err |-> err]
Want(v) == [op |-> "want", var |-> v, reason |-> "", err |-> FALSE]

NoPlan(t) == [s \in Slots(t) |-> NoAction]

-----------------------------------------------------------------------------
(* buildDesired, one entry at a time. *)

(* Mutant: explicit keys are not reserved up front. *)
ReservedNothing(t) == {}

(* The identities the explicit entries reserve before any secret is read. *)
Reserved(t) ==
    {IdentityFor(t, i, 0) : i \in {j \in Entries(t) : Specs[t][j].explicit}}

(* add: the instance limit first, then the masking rules. *)
Add(t, i, f, value) ==
    LET spec == Specs[t][i]
        body == [value |-> value, masked |-> spec.masked, attrs |-> spec.attrs]
    IN  IF Kind[t] = "instance" /\ value \in Oversized THEN Skip("limit", TRUE)
        ELSE IF spec.masked /\ value \notin Maskable THEN Skip("masked", ~SkipWarn)
        ELSE Want([id |-> IdentityFor(t, i, f), body |-> body])

(* Field f is in the secret and its derived key is valid: it asks for an    *)
(* identity.                                                                *)
Asks(t, i, f, content) == content[f] # Absent /\ Specs[t][i].key[f] \in Keys

(* The identity of field f is taken: by an entry before this one, or by a   *)
(* field of the same secret that sorts before it.                           *)
Collides(t, i, f, content, taken) ==
    \/ IdentityFor(t, i, f) \in taken
    \/ \E g \in 1..(f - 1) :
          Asks(t, i, g, content) /\ IdentityFor(t, i, g) = IdentityFor(t, i, f)

(* Mutant: a colliding derived key is passed over in silence. *)
FieldOutcomeSilent(t, i, f, content, taken) ==
    IF content[f] = Absent \/ Collides(t, i, f, content, taken) THEN NoAction
    ELSE IF Specs[t][i].key[f] \notin Keys THEN Skip("key", TRUE)
    ELSE Add(t, i, f, content[f])

(* The outcome of field f of entry i, once its secret is read. *)
FieldOutcome(t, i, f, content, taken) ==
    IF content[f] = Absent THEN NoAction
    ELSE IF Specs[t][i].key[f] \notin Keys THEN Skip("key", TRUE)
    ELSE IF Collides(t, i, f, content, taken) THEN Skip("collision", TRUE)
    ELSE Add(t, i, f, content[f])

(* The outcome of an explicit entry, once its secret is read. *)
ExplicitOutcome(t, i, content) ==
    LET field == Specs[t][i].field
    IN  IF content[field] = Absent THEN Skip("field", TRUE)
        ELSE Add(t, i, 0, content[field])

(* What entry i contributes to the slot <<i, f>>. *)
Outcome(t, i, f, content, taken) ==
    IF Specs[t][i].explicit
    THEN IF f = 0 THEN ExplicitOutcome(t, i, content) ELSE NoAction
    ELSE IF f = 0 THEN NoAction ELSE FieldOutcome(t, i, f, content, taken)

(* The plan after entry i, whose secret holds content. *)
Built(t, plan, i, content, taken) ==
    [s \in Slots(t) |-> IF s[1] = i THEN Outcome(t, i, s[2], content, taken)
                        ELSE plan[s]]

(* The plan after entry i, whose secret could not be read: one skip, for a  *)
(* from_secret entry too.                                                   *)
Unread(t, plan, i) == [plan EXCEPT ![<<i, 0>>] = Skip("vault", TRUE)]

(* The identities that are taken after entry i. *)
TakenBy(t, i, content) ==
    IF Specs[t][i].explicit THEN {}
    ELSE {IdentityFor(t, i, f) : f \in {g \in Fields : Asks(t, i, g, content)}}

-----------------------------------------------------------------------------
(* diffTarget: compare one wanted variable with what GitLab has under its   *)
(* identity.  fieldChanges compares everything but the identity.            *)

(* Mutant: a variable that exists is always updated. *)
ComparedNever(action, observed) ==
    IF action.op # "want" THEN action
    ELSE [action EXCEPT !.op = IF observed[action.var.id] = Absent THEN "create" ELSE "update"]

Compared(action, observed) ==
    LET have == observed[action.var.id]
    IN  IF action.op # "want" THEN action
        ELSE [action EXCEPT !.op = IF have = Absent THEN "create"
                                   ELSE IF have = action.var.body THEN "noop"
                                   ELSE "update"]

Diff(plan, observed) == [s \in DOMAIN plan |-> Compared(plan[s], observed)]

(* The order in which the loop of syncTarget applies the actions. *)
Before(r, s) == r[1] < s[1] \/ (r[1] = s[1] /\ r[2] < s[2])

-----------------------------------------------------------------------------
(* A reference for buildDesired that has no order of evaluation in it: of   *)
(* all slots that ask for an identity one owns it, an explicit entry before *)
(* any derived key, the first derived key otherwise.  read[i] is the        *)
(* content entry i read, or Absent.                                         *)

Asking(t, read) ==
    {s \in Slots(t) :
        \/ Specs[t][s[1]].explicit /\ s[2] = 0
        \/ /\ ~Specs[t][s[1]].explicit
           /\ s[2] # 0
           /\ read[s[1]] # Absent
           /\ Asks(t, s[1], s[2], read[s[1]])}

Owners(t, read) ==
    LET asking == Asking(t, read)
    IN  {s \in asking :
           s[2] = 0 \/ ~\E r \in asking :
               /\ r[2] = 0 \/ Before(r, s)
               /\ IdentityFor(t, r[1], r[2]) = IdentityFor(t, s[1], s[2])}

ValueOf(t, s, read) ==
    read[s[1]][IF s[2] = 0 THEN Specs[t][s[1]].field ELSE s[2]]

Acceptable(t, s, value) ==
    /\ value # Absent
    /\ Kind[t] = "instance" => value \notin Oversized
    /\ Specs[t][s[1]].masked => value \in Maskable

(* The variables the target should have. *)
DesiredOf(t, read) ==
    {[id   |-> IdentityFor(t, s[1], s[2]),
      body |-> [value  |-> ValueOf(t, s, read),
                masked |-> Specs[t][s[1]].masked,
                attrs  |-> Specs[t][s[1]].attrs]] :
        s \in {r \in Owners(t, read) : /\ read[r[1]] # Absent
                                       /\ Acceptable(t, r, ValueOf(t, r, read))}}
=============================================================================
