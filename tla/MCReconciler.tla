---------------------------- MODULE MCReconciler ----------------------------
(***************************************************************************)
(* Instances of Reconciler for TLC.  Each cfg picks the targets, the       *)
(* secrets and the disturbances of one scenario from the definitions here. *)
(***************************************************************************)
EXTENDS Reconciler, TLC

CONSTANTS absent, invalid, nobody,   \* model values
          s1, s2,                    \* secrets
          v1, v2, bad,               \* values; bad is neither maskable nor short
          attr                       \* attributes

Explicit(secret, field, key, scope, masked) ==
    [explicit |-> TRUE, secret |-> secret, field |-> field,
     key |-> [f \in 0..NumFields |-> key], scope |-> scope,
     masked |-> masked, attrs |-> attr]

FromSecret(secret, keyOf, scope, masked) ==
    [explicit |-> FALSE, secret |-> secret, field |-> 1,
     key |-> [f \in 0..NumFields |-> IF f = 0 THEN invalid ELSE keyOf[f]],
     scope |-> scope, masked |-> masked, attrs |-> attr]

Holding(object, identity, body) ==
    [o \in Objects |-> [i \in Identities |->
        IF o = object /\ i = identity THEN body ELSE Absent]]
\* Fields in the order in which TLC sorts them: its workers share these records.
Body(value, masked) == [masked |-> masked, attrs |-> attr, value |-> value]

(* Aliases: project 1 named by its path and by its ID, beside group 1.      *)
AliasKind == ("byPath" :> "project") @@ ("byId" :> "project") @@ ("group" :> "group")
AliasSpecs == ("byPath" :> <<Explicit(s1, 1, "A", "all", FALSE)>>)
           @@ ("byId" :> <<Explicit(s1, 1, "A", "all", TRUE)>>)
           @@ ("group" :> <<Explicit(s1, 1, "A", "all", FALSE),
                            Explicit(s1, 1, "A", "prod", FALSE)>>)
AliasNames == [t \in Targets |-> 1]
AliasVaults == {[s \in Secrets |-> <<v1>>]}
AliasStore == Holding(<<"project", 1>>, <<"A", "all">>, Body(v2, FALSE))
AliasEdits == {<<<<"project", 1>>, <<"A", "all">>, b>> : b \in {absent, Body(v2, FALSE)}}
AliasRotations == {<<s1, <<v2>>>>, <<s1, absent>>}
AliasMoves == {<<"byId", 2>>}

(* Build: entries that compete for identities at the instance, where a      *)
(* value may be too long, and in a project, over every content of one       *)
(* secret and, for the other, each way in which its two fields may be       *)
(* missing, good, or bad beside a good one.                                 *)
BuildKind == ("inst" :> "instance") @@ ("p" :> "project")
BuildSpecs ==
       ("inst" :> <<FromSecret(s1, <<"A", "B">>, "all", TRUE),
                    Explicit(s1, 1, "B", "all", FALSE)>>)
    @@ ("p" :> <<FromSecret(s1, <<"A", "B">>, "all", FALSE),
                 Explicit(s2, 1, "A", "all", TRUE),
                 FromSecret(s2, <<"B", "B">>, "all", TRUE),
                 FromSecret(s1, <<"B", invalid>>, "prod", FALSE)>>)
BuildNames == ("inst" :> absent) @@ ("p" :> 1)
BuildVaults == {vs \in [Secrets -> Read] :
                    vs[s2] \in {absent, <<absent, absent>>, <<v1, absent>>, <<absent, v1>>,
                               <<v1, v1>>, <<bad, v1>>, <<v1, bad>>}}
BuildStore == [o \in Objects |-> [i \in Identities |->
    CASE o = <<"project", 1>> /\ i = <<"B", "all">> -> Body(v1, TRUE)
      [] o = <<"instance", 0>> /\ i = <<"B", "">> -> Body(v1, FALSE)
      [] OTHER -> Absent]]
BuildEdits == {<<<<"project", 1>>, <<"A", "all">>, Body(v1, TRUE)>>,
               <<<<"instance", 0>>, <<"B", "">>, absent>>}

(* Converging: a group, and a project in which a key derived from one       *)
(* secret falls to another while the first cannot be read.                  *)
PairKind == ("group" :> "group") @@ ("project" :> "project")
PairSpecs == ("group" :> <<Explicit(s1, 1, "A", "all", FALSE)>>)
          @@ ("project" :> <<FromSecret(s1, <<"A">>, "all", FALSE),
                             FromSecret(s2, <<"A">>, "all", FALSE)>>)
PairNames == [t \in Targets |-> 1]
PairVaults == {[s \in Secrets |-> IF s = s1 THEN <<v1>> ELSE <<v2>>]}
PairStore == Holding(<<"group", 1>>, <<"A", "all">>, Body(v2, FALSE))
PairEdits == {<<<<"group", 1>>, <<"A", "all">>, absent>>}
PairRotations == {<<s1, <<v2>>>>, <<s1, absent>>, <<s1, <<v1>>>>, <<s2, <<v1>>>>}
PairMoves == {<<"project", 2>>, <<"group", absent>>}
=============================================================================
