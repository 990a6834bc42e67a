------------------------------ MODULE MCConfig ------------------------------
(***************************************************************************)
(* Instances of ConfigLoad for TLC: a good file, every single setting of   *)
(* it changed to each value that matters, malformed specifications at each *)
(* place, several targets, and every expansion of up to three overlapping  *)
(* bundles and two inline variables.                                       *)
(***************************************************************************)
EXTENDS ConfigLoad, SequencesExt

CONSTANTS unset, b1, b2, b3   \* model values

SecretMount == <<"secret">>

Secret(mount) == [mount |-> mount, path |-> <<"p">>, field |-> ""]
Explicitly(key, scope, attrs) ==
    [key |-> key, vault |-> [mount |-> <<>>, path |-> <<"p">>, field |-> "f"],
     fromSecret |-> unset, prefix |-> "", scope |-> scope, attrs |-> attrs]
FromSecret(mount, scope, attrs) ==
    [key |-> "", vault |-> unset, fromSecret |-> Secret(mount), prefix |-> "",
     scope |-> scope, attrs |-> attrs]

MCBundles == [b \in {b1, b2, b3} |->
    CASE b = b1 -> <<Explicitly("A", unset, "x"), FromSecret(<<>>, unset, unset)>>
      [] b = b2 -> <<Explicitly("A", "*", "y"), Explicitly("B", unset, unset)>>
      [] b = b3 -> <<Explicitly("B", "prod", "x"), FromSecret(<<"kv">>, "prod", "y")>>]

MCTarget(kind, ref, bundles, variables) ==
    [kind |-> kind, ref |-> ref, bundles |-> bundles, variables |-> variables]
RefOf(kind) == IF kind = "instance" THEN "" ELSE "one"

Good ==
    [address |-> "http", method |-> "", token |-> {}, roleId |-> {"env"},
     secretId |-> {"file"}, role |-> "role", url |-> "http", gitlabToken |-> {"env"},
     rateLimit |-> 0, interval |-> 0, jitter |-> 0, concurrency |-> 0,
     timeout |-> unset, policy |-> "",
     defaults |-> [mount |-> <<>>, scope |-> "", attrs |-> unset],
     bundles |-> MCBundles,
     targets |-> <<MCTarget("project", "one", <<b1>>, <<>>)>>]

Settings ==
         {[Good EXCEPT !.address = a] : a \in {"", "malformed"}}
    \cup {[Good EXCEPT !.url = u] : u \in {"", "malformed"}}
    \cup {[Good EXCEPT !.method = n, !.token = t, !.roleId = r, !.role = k] :
            n \in {"", "token", "approle", "kubernetes", "other"},
            t \in References, r \in References, k \in {"", "role"}}
    \cup {[Good EXCEPT !.gitlabToken = t, !.rateLimit = l] : t \in References, l \in {-1, 1}}
    \cup {[Good EXCEPT !.interval = i, !.timeout = t] :
            i \in -1..2, t \in {unset} \cup -1..1}
    \cup {[Good EXCEPT !.jitter = j, !.concurrency = c] : j \in -1..1, c \in -1..1}
    \cup {[Good EXCEPT !.policy = p] : p \in {"skip-warn", "other"}}
    \cup {[Good EXCEPT !.defaults.attrs = a] : a \in {"x", "mistyped"}}

Specs ==
    LET e == Explicitly("A", unset, unset)
        f == FromSecret(<<"kv">>, unset, unset)
    IN  {[e EXCEPT !.key = k, !.prefix = p] : k \in Keys, p \in Keys}
   \cup {[f EXCEPT !.key = k, !.prefix = p] : k \in Keys, p \in Keys}
   \cup {[e EXCEPT !.vault.field = ""], [e EXCEPT !.vault.path = <<>>],
         [f EXCEPT !.fromSecret.path = <<>>], [f EXCEPT !.fromSecret.field = "f"],
         [e EXCEPT !.vault = unset], [e EXCEPT !.fromSecret = f.fromSecret],
         [e EXCEPT !.attrs = "mistyped"], [e EXCEPT !.scope = "prod"]}

Malformed ==
         {[Good EXCEPT !.targets = <<MCTarget(k, RefOf(k), <<>>, <<s>>)>>] :
            k \in Kinds, s \in Specs}
    \cup {[Good EXCEPT !.bundles[b1] = <<s>>] : s \in Specs}
    \cup {[Good EXCEPT !.bundles[b1] = <<>>, !.bundles[b2] = unset,
                       !.targets = <<MCTarget("group", "one", <<b>>, <<>>)>>] : b \in {b1, b2}}

(* Two secrets whose keys are the same text, and up to three targets.       *)
Nested == <<FromSecret(<<"kv">>, unset, unset),
            [FromSecret(<<"kv">>, unset, unset) EXCEPT !.fromSecret.path = <<"a", "p">>],
            FromSecret(<<"kv", "a">>, unset, unset)>>
Several ==
    {[Good EXCEPT !.targets = ts, !.defaults.scope = s] :
        ts \in UNION {{<<>>, <<t>>, <<t, u>>, <<MCTarget("instance", "", <<b1>>, <<>>), t, u>>} :
                  t \in {MCTarget("group", r, <<b2>>, SubSeq(Nested, m, n)) :
                             r \in {"", "one"}, m \in 1..2, n \in 1..3},
                  u \in {MCTarget(k, r, <<b2, b>>, <<>>) :
                             k \in {"group", "project"}, r \in {"one", "two"}, b \in {b2, b3}}},
        s \in {"", "prod"}}

Inlines == BoundedSeq({Explicitly("A", unset, "z"), Explicitly("B", "prod", unset),
                       Explicitly("B", "*", "z"), FromSecret(<<>>, unset, "z"),
                       FromSecret(<<"secret">>, "prod", unset)}, 2)
Expansions ==
    {[Good EXCEPT !.defaults.scope = s, !.targets = <<MCTarget(k, RefOf(k), bs, vs)>>] :
        s \in {"", "prod"}, k \in Kinds, bs \in BoundedSeq(BundleNames, 3), vs \in Inlines}

MCFiles == Settings \cup Malformed \cup Several \cup Expansions
=============================================================================
