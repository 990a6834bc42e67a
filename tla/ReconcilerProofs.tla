-------------------------- MODULE ReconcilerProofs --------------------------
(***************************************************************************)
(* Theorems about Reconciler for any configuration, any Vault and any      *)
(* GitLab: its types, the semaphore and the claims.                        *)
(***************************************************************************)
EXTENDS Reconciler, FiniteSetTheorems, TLAPS

-----------------------------------------------------------------------------
(* What the build and the comparison with GitLab return. *)

(* Every value of a field makes an action: a wanted variable or a skip. *)
LEMMA AddType ==
    ASSUME NEW t \in Targets, NEW i \in Entries(t), NEW f \in 0..NumFields,
           NEW value \in Values, Specs[t][i].key[f] \in Keys
    PROVE  Add(t, i, f, value) \in Action
<1>1. Specs[t][i] \in ResolvedVariable
  BY ConfigAssumption DEF Entries
<1>2. IdentityFor(t, i, f) \in Identities
  BY <1>1 DEF IdentityFor, ScopeAt, Identities, ResolvedVariable
<1>3. Want([id |-> IdentityFor(t, i, f),
            body |-> [value |-> value, masked |-> Specs[t][i].masked,
                      attrs |-> Specs[t][i].attrs]]) \in Action
  BY <1>1, <1>2 DEF Want, Action, WithVariable, Reasons, Variables, Bodies, ResolvedVariable
<1>4. \A e \in BOOLEAN : Skip("limit", e) \in Action /\ Skip("masked", e) \in Action
  BY DEF Skip, Action, WithVariable, Reasons
<1> QED
  BY <1>3, <1>4, ValueAssumption DEF Add

(* So does every outcome of an entry. *)
LEMMA OutcomeType ==
    ASSUME NEW t \in Targets, NEW i \in Entries(t), NEW f \in 0..NumFields,
           NEW content \in Contents, NEW held
    PROVE  Outcome(t, i, f, content, held) \in Action
<1>1. Specs[t][i] \in ResolvedVariable
  BY ConfigAssumption DEF Entries
<1>2. NoAction \in Action
  BY DEF NoAction, Action, WithVariable, Reasons
<1>3. \A reason \in Reasons : Skip(reason, TRUE) \in Action
  BY DEF Skip, Action
<1>4. ASSUME Specs[t][i].explicit  PROVE  ExplicitOutcome(t, i, content) \in Action
  <2>1. Specs[t][i].field \in Fields
    BY <1>1 DEF ResolvedVariable
  <2>2. content[Specs[t][i].field] \in Values \union {Absent}
    BY <2>1 DEF Contents
  <2>3. 0 \in 0..NumFields /\ Specs[t][i].key[0] \in Keys
    BY <1>4, ConfigAssumption
  <2> QED
    BY <2>2, <2>3, <1>3, AddType DEF ExplicitOutcome, Reasons
<1>5. ASSUME f # 0  PROVE  FieldOutcome(t, i, f, content, held) \in Action
  <2>1. f \in Fields
    BY <1>5, ConfigAssumption DEF Fields
  <2>2. content[f] \in Values \union {Absent}
    BY <2>1 DEF Contents
  <2> QED
    BY <2>2, <1>2, <1>3, AddType DEF FieldOutcome, Reasons
<1> QED
  BY <1>2, <1>4, <1>5 DEF Outcome

(* Whatever the build and the comparison do to a plan, it stays one. *)
LEMMA PlanTypes ==
    ASSUME NEW t \in Targets, NEW p \in [Slots(t) -> Action]
    PROVE  /\ NoPlan(t) \in [Slots(t) -> Action]
           /\ \A i \in Entries(t), content \in Contents : \A held :
                 Built(t, p, i, content, held) \in [Slots(t) -> Action]
           /\ \A i \in Entries(t) : Unread(t, p, i) \in [Slots(t) -> Action]
           /\ \A observed \in [Identities -> Bodies \union {Absent}] :
                 Diff(p, observed) \in [Slots(t) -> Action]
<1>1. NoPlan(t) \in [Slots(t) -> Action]
  BY DEF NoPlan, NoAction, Action, WithVariable, Reasons
<1>2. ASSUME NEW i \in Entries(t), NEW content \in Contents, NEW held
      PROVE  Built(t, p, i, content, held) \in [Slots(t) -> Action]
  <2>1. \A s \in Slots(t) : s[2] \in 0..NumFields
    BY DEF Slots
  <2> QED
    BY <2>1, OutcomeType DEF Built
<1>3. ASSUME NEW i \in Entries(t)  PROVE  Unread(t, p, i) \in [Slots(t) -> Action]
  <2>1. Skip("vault", TRUE) \in Action
    BY DEF Skip, Action, WithVariable, Reasons
  <2> QED
    BY <2>1 DEF Unread
<1>4. ASSUME NEW observed \in [Identities -> Bodies \union {Absent}]
      PROVE  Diff(p, observed) \in [Slots(t) -> Action]
  <2>1. ASSUME NEW a \in Action  PROVE  Compared(a, observed) \in Action
    BY <2>1 DEF Compared, Action, WithVariable
  <2> QED
    BY <2>1 DEF Diff
<1> QED
  BY <1>1, <1>2, <1>3, <1>4

-----------------------------------------------------------------------------
(* Typing, with the semaphore: that a token is there to be taken back needs *)
(* the count of targets at work.                                            *)

(* What a request that is due asks for. *)
LEMMA RequestType ==
    ASSUME TypeOK, NEW t \in Targets, NEW s \in todo[t]
    PROVE  /\ s \in Slots(t)
           /\ RequestOf(t, s) \in Request
           /\ plan[t][s] \in Action
           /\ plan[t][s].op \in {"create", "update"}
<1>1. s \in Slots(t) /\ plan[t][s].op \in {"create", "update"} /\ plan[t][s] \in Action
  BY DEF TypeOK, Pending
<1>2. plan[t][s].var \in Variables
  BY <1>1 DEF Action
<1>3. Object(t) \in Objects
  BY ConfigAssumption DEF TypeOK, Object, Objects
<1> QED
  BY <1>1, <1>2, <1>3 DEF RequestOf, Request

(* GitLab stays typed whatever request it carries out. *)
LEMMA WrittenType ==
    ASSUME TypeOK, NEW r \in Request
    PROVE  Written(r) \in [Objects -> [Identities -> Bodies \union {Absent}]]
BY DEF TypeOK, Written, Request, Variables

(* The plan stays typed when an action is marked as failed. *)
LEMMA FailedType ==
    ASSUME TypeOK, NEW t \in Targets, NEW s \in todo[t], Failed(t, s)
    PROVE  /\ DOMAIN plan' = Targets
           /\ \A u \in Targets : plan'[u] \in [Slots(u) -> Action]
           /\ DOMAIN todo' = Targets
           /\ \A u \in Targets : todo'[u] \subseteq Pending(plan'[u])
<1> DEFINE marked == [plan[t][s] EXCEPT !.err = TRUE, !.reason = "apply"]
<1>1. s \in Slots(t) /\ plan[t][s] \in Action /\ plan[t][s].op \in {"create", "update"}
  BY RequestType
<1>2. marked \in Action /\ marked.op = plan[t][s].op
  BY <1>1 DEF Action, WithVariable
<1>3. plan' = [plan EXCEPT ![t] = [plan[t] EXCEPT ![s] = marked]]
  BY <1>1 DEF Failed, TypeOK
<1>4. DOMAIN plan' = Targets /\ \A u \in Targets : plan'[u] \in [Slots(u) -> Action]
  BY <1>1, <1>2, <1>3 DEF TypeOK
<1>5. DOMAIN todo' = Targets /\ \A u \in Targets : todo'[u] \subseteq todo[u]
  BY DEF Failed, TypeOK
<1>6. ASSUME NEW u \in Targets  PROVE  Pending(plan[u]) \subseteq Pending(plan'[u])
  BY <1>1, <1>2, <1>3, <1>6 DEF TypeOK, Pending
<1> QED
  BY <1>4, <1>5, <1>6 DEF TypeOK

(* The targets at work. *)
Busy == {t \in Targets : AtWork(t)}

(* There are finitely many targets at work, so that they can be counted. *)
LEMMA BusyFinite == IsFiniteSet(Busy) /\ Cardinality(Busy) \in Nat
<1>1. Busy \subseteq Targets
  BY DEF Busy
<1> QED
  BY <1>1, EnvironmentAssumption, FS_Subset, FS_CardinalityType

(* A step takes a token when its target goes to work, gives it back when    *)
(* it returns, and leaves the count alone otherwise.                        *)
LEMMA SemaphoreStep ==
    ASSUME TypeOK, SemaphoreAccounted, [Next]_vars
    PROVE  SemaphoreAccounted' /\ sem' \in 0..Concurrency
<1> USE DEF TypeOK, SemaphoreAccounted
<1>1. sem = Cardinality(Busy)
  BY DEF Busy
<1>2. sem' = Cardinality(Busy)' => SemaphoreAccounted'
  BY DEF Busy
<1>3. ASSUME NEW t \in Targets, Acquire(t)
      PROVE  SemaphoreAccounted' /\ sem' \in 0..Concurrency
  <2>1. t \notin Busy /\ Busy' = Busy \union {t}
    BY <1>3 DEF Busy, AtWork, Acquire
  <2>2. Cardinality(Busy') = Cardinality(Busy) + 1
    BY <2>1, BusyFinite, FS_AddElement
  <2> QED
    BY <1>1, <1>2, <1>3, <2>2, EnvironmentAssumption DEF Acquire
<1>4. ASSUME NEW t \in Targets, Return(t)
      PROVE  SemaphoreAccounted' /\ sem' \in 0..Concurrency
  <2>1. t \in Busy /\ Busy' = Busy \ {t}
    BY <1>4 DEF Busy, AtWork, Return
  <2>2. Cardinality(Busy') = Cardinality(Busy) - 1 /\ Cardinality(Busy') \in Nat
    BY <2>1, BusyFinite, FS_RemoveElement, FS_CardinalityType
  <2> QED
    BY <1>1, <1>2, <1>4, <2>2, EnvironmentAssumption DEF Return
<1>5. ASSUME UNCHANGED sem, \A u \in Targets : AtWork(u)' = AtWork(u)
      PROVE  SemaphoreAccounted' /\ sem' \in 0..Concurrency
  <2>1. Busy' = Busy
    BY <1>5 DEF Busy
  <2> QED
    BY <1>1, <1>2, <1>5, <2>1
<1>6. ASSUME NEW t \in Targets, Step(t), ~Acquire(t), ~Return(t)
      PROVE  UNCHANGED sem /\ \A u \in Targets : AtWork(u)' = AtWork(u)
  <2>1. ASSUME ResolveKnown(t) \/ ResolveOk(t) \/ ResolveErr(t) \/ Claim(t) \/ Refuse(t)
        PROVE  UNCHANGED sem /\ \A u \in Targets : AtWork(u)' = AtWork(u)
    BY <2>1 DEF ResolveKnown, ResolveOk, ResolveErr, MustLookUp, Claim, Refuse, GiveUp, AtWork
  <2>2. ASSUME ReadOk(t) \/ ReadErr(t) \/ Lists(t) \/ ListErr(t)
        PROVE  UNCHANGED sem /\ \A u \in Targets : AtWork(u)' = AtWork(u)
    BY <2>2 DEF ReadOk, ReadErr, Lists, ListOk, ListMissing, Observes, ListErr, Listing, GiveUp,
                AtWork
  <2>3. ASSUME Apply(t)
        PROVE  UNCHANGED sem /\ \A u \in Targets : AtWork(u)' = AtWork(u)
    BY <2>3 DEF Apply, ApplyOk, ApplyErr, ApplyLost, AtWork
  <2> QED
    BY <1>6, <2>1, <2>2, <2>3 DEF Step
<1>7. ASSUME NewPass
      PROVE  UNCHANGED sem /\ \A u \in Targets : AtWork(u)' = AtWork(u)
  BY <1>7 DEF NewPass, AtWork
<1>8. ASSUME Environment \/ UNCHANGED vars
      PROVE  UNCHANGED sem /\ \A u \in Targets : AtWork(u)' = AtWork(u)
  BY <1>8 DEF Environment, PassTimeout, Rebuild, LateApply, LateDrop, Meddle, VaultWrite,
              Rename, vars, AtWork
<1> QED
  BY <1>3, <1>4, <1>5, <1>6, <1>7, <1>8 DEF Next

(* What an entry takes is an identity. *)
LEMMA IdentityTypes ==
    ASSUME NEW t \in Targets
    PROVE  /\ Reserved(t) \subseteq Identities
           /\ \A i \in Entries(t), content \in Contents :
                 TakenBy(t, i, content) \subseteq Identities
<1>1. \A i \in Entries(t) : Specs[t][i] \in ResolvedVariable
  BY ConfigAssumption DEF Entries
<1>2. ASSUME NEW i \in Entries(t), NEW f, Specs[t][i].key[f] \in Keys
      PROVE  IdentityFor(t, i, f) \in Identities
  <2>1. Specs[t][i].scope \in Scopes
    BY <1>1 DEF ResolvedVariable
  <2> QED
    BY <1>2, <2>1 DEF IdentityFor, ScopeAt, Identities
<1>3. \A i \in Entries(t) : Specs[t][i].explicit => Specs[t][i].key[0] \in Keys
  BY ConfigAssumption
<1> QED
  BY <1>2, <1>3 DEF Reserved, TakenBy, Asks

(* Actions are pending only while they are being applied, so that no plan   *)
(* changes under them.                                                      *)
PendingOnlyApplying == \A t \in Targets : todo[t] # {} => pc[t] = "applying"

(* Every step of a target, of the daemon or of the environment keeps the    *)
(* types, given that the semaphore stays within its capacity.               *)
LEMMA TypeStep ==
    ASSUME TypeOK, PendingOnlyApplying, [Next]_vars, sem' \in 0..Concurrency
    PROVE  TypeOK'
<1> USE DEF TypeOK, local, shared, call, remote, history
<1>1. ASSUME NEW t \in Targets, Acquire(t)  PROVE TypeOK'
  BY <1>1 DEF Acquire, PCs
<1>2. ASSUME NEW t \in Targets, ResolveKnown(t)  PROVE TypeOK'
  BY <1>2, EnvironmentAssumption DEF ResolveKnown, PCs, Ids
<1>3. ASSUME NEW t \in Targets, ResolveOk(t)  PROVE TypeOK'
  BY <1>3, EnvironmentAssumption DEF ResolveOk, MustLookUp, PCs, Ids
<1>4. ASSUME NEW t \in Targets, ResolveErr(t)  PROVE TypeOK'
  BY <1>4, EnvironmentAssumption DEF ResolveErr, GiveUp, Fails, Upset, PCs, TargetErrors
<1>5. ASSUME NEW t \in Targets, Claim(t)  PROVE TypeOK'
  <2>1. Reserved(t) \subseteq Identities
    BY IdentityTypes
  <2> QED
    BY <1>5, <2>1 DEF Claim, PCs
<1>6. ASSUME NEW t \in Targets, Refuse(t)  PROVE TypeOK'
  BY <1>6 DEF Refuse, GiveUp, PCs, TargetErrors
<1>7. ASSUME NEW t \in Targets, ReadOk(t)  PROVE TypeOK'
  <2> DEFINE s == SecretAt(t)
             built == Built(t, plan[t], at[t], Answer(s), taken[t])
  <2>1. at[t] \in Entries(t) /\ s \in Secrets
    <3>1. at[t] \in Entries(t)
      BY <1>7 DEF ReadOk, Reading
    <3>2. Specs[t][at[t]] \in ResolvedVariable
      BY <3>1, ConfigAssumption DEF Entries
    <3> QED
      BY <3>1, <3>2 DEF SecretAt, ResolvedVariable
  <2>2. Answer(s) \in Contents
    BY <1>7, <2>1 DEF ReadOk, Answer, Read
  <2>3. built \in [Slots(t) -> Action]
    BY <2>1, <2>2, PlanTypes
  <2>4. todo[t] = {}
    BY <1>7 DEF ReadOk, Reading, PendingOnlyApplying
  <2>5. TakenBy(t, at[t], Answer(s)) \subseteq Identities
    BY <2>1, <2>2, IdentityTypes
  <2> QED
    BY <1>7, <2>1, <2>2, <2>3, <2>4, <2>5 DEF ReadOk, Read
<1>8. ASSUME NEW t \in Targets, ReadErr(t)  PROVE TypeOK'
  <2>1. at[t] \in Entries(t)
    BY <1>8 DEF ReadErr, Reading
  <2>2. Unread(t, plan[t], at[t]) \in [Slots(t) -> Action]
    BY <2>1, PlanTypes
  <2>3. todo[t] = {}
    BY <1>8 DEF ReadErr, Reading, PendingOnlyApplying
  <2> QED
    BY <1>8, <2>2, <2>3, EnvironmentAssumption DEF ReadErr, Fails, Upset
<1>9. ASSUME NEW t \in Targets, Lists(t)  PROVE TypeOK'
  <2>1. store[Object(t)] \in [Identities -> Bodies \union {Absent}] /\ Object(t) \in Objects
    BY ConfigAssumption DEF Object, Objects
  <2>2. ASSUME NEW observed \in [Identities -> Bodies \union {Absent}], Observes(t, observed),
               slipped' \in [Objects -> SUBSET Identities], upsets' \in 0..MaxUpsets
        PROVE  TypeOK'
    <3>1. Diff(plan[t], observed) \in [Slots(t) -> Action]
      BY PlanTypes
    <3> QED
      BY <2>2, <3>1 DEF Observes, PCs
  <2>3. CASE ListOk(t)
    BY <2>1, <2>2, <2>3 DEF ListOk
  <2>4. ASSUME NEW i \in Identities, ListMissing(t, i)  PROVE TypeOK'
    <3>1. [store[Object(t)] EXCEPT ![i] = Absent] \in [Identities -> Bodies \union {Absent}]
      BY <2>1
    <3>2. slipped' \in [Objects -> SUBSET Identities]
      BY <2>1, <2>4 DEF ListMissing
    <3>3. upsets' \in 0..MaxUpsets
      BY <2>4, EnvironmentAssumption DEF ListMissing, Upset
    <3> QED
      BY <2>2, <2>4, <3>1, <3>2, <3>3 DEF ListMissing
  <2> QED
    BY <1>9, <2>3, <2>4 DEF Lists
<1>10. ASSUME NEW t \in Targets, ListErr(t)  PROVE TypeOK'
  <2>1. NoPlan(t) \in [Slots(t) -> Action]
    BY PlanTypes
  <2>2. todo[t] = {}
    BY <1>10 DEF ListErr, Listing, PendingOnlyApplying
  <2> QED
    BY <1>10, <2>1, <2>2, EnvironmentAssumption
       DEF ListErr, GiveUp, Fails, Upset, PCs, TargetErrors
<1>11. ASSUME NEW t \in Targets, Apply(t)  PROVE TypeOK'
  <2>1. PICK s \in Slots(t) : ApplyOk(t, s) \/ ApplyErr(t, s) \/ ApplyLost(t, s)
    BY <1>11 DEF Apply
  <2>2. s \in todo[t]
    BY <2>1 DEF ApplyOk, ApplyErr, ApplyLost, IsNext
  <2>3. RequestOf(t, s) \in Request
    BY <2>2, RequestType
  <2>4. CASE ApplyOk(t, s)
    <3>1. store' \in [Objects -> [Identities -> Bodies \union {Absent}]]
      BY <2>3, <2>4, WrittenType DEF ApplyOk
    <3> QED
      BY <2>4, <3>1 DEF ApplyOk
  <2>5. CASE ApplyErr(t, s)
    BY <2>2, <2>5, FailedType, EnvironmentAssumption DEF ApplyErr, Fails, Upset
  <2>6. CASE ApplyLost(t, s)
    BY <2>2, <2>3, <2>6, FailedType, EnvironmentAssumption DEF ApplyLost, Upset
  <2> QED
    BY <2>1, <2>4, <2>5, <2>6
<1>12. ASSUME NEW t \in Targets, Return(t)  PROVE TypeOK'
  BY <1>12 DEF Return, PCs
<1>13. ASSUME NewPass  PROVE TypeOK'
  <2>1. \A t \in Targets : NoPlan(t) \in [Slots(t) -> Action]
    BY PlanTypes
  <2> QED
    BY <1>13, <2>1 DEF NewPass, PCs, TargetErrors, Ids, Read
<1>14. ASSUME Environment  PROVE TypeOK'
  <2>1. CASE PassTimeout
    BY <2>1, EnvironmentAssumption DEF PassTimeout, Upset
  <2>2. CASE Rebuild
    BY <2>2, EnvironmentAssumption DEF Rebuild, Upset
  <2>3. ASSUME NEW r \in late, LateApply(r)  PROVE TypeOK'
    <3>1. Written(r) \in [Objects -> [Identities -> Bodies \union {Absent}]]
      BY WrittenType
    <3>2. r.object \in Objects /\ r.var.id \in Identities
      BY DEF Request, Variables
    <3>3. store' \in [Objects -> [Identities -> Bodies \union {Absent}]]
      BY <2>3, <3>1 DEF LateApply
    <3>4. touched' \in [Objects -> SUBSET Identities]
      <4>1. Touch(r.object, r.var.id) \/ UNCHANGED touched
        BY <2>3 DEF LateApply
      <4>2. touched[r.object] \union {r.var.id} \in SUBSET Identities
        BY <3>2
      <4> QED
        BY <3>2, <4>1, <4>2 DEF Touch
    <3>5. /\ late' \subseteq Request
          /\ UNCHANGED <<pc, local, sem, shared, call, vault, names, slipped, upsets>>
      BY <2>3 DEF LateApply
    <3> QED
      BY <3>3, <3>4, <3>5
  <2>4. ASSUME NEW r \in late, LateDrop(r)  PROVE TypeOK'
    BY <2>4 DEF LateDrop
  <2>5. ASSUME NEW e \in Edits, Meddle(e[1], e[2], e[3])  PROVE TypeOK'
    BY <2>5, EnvironmentAssumption DEF Meddle, Upset, Touch
  <2>6. ASSUME NEW r \in Rotations, VaultWrite(r[1], r[2])  PROVE TypeOK'
    BY <2>6, EnvironmentAssumption DEF VaultWrite, Upset
  <2>7. ASSUME NEW m \in Moves, Rename(m[1], m[2])  PROVE TypeOK'
    BY <2>7, EnvironmentAssumption DEF Rename, Upset
  <2> QED
    BY <1>14, <2>1, <2>2, <2>3, <2>4, <2>5, <2>6, <2>7 DEF Environment
<1>15. ASSUME UNCHANGED vars  PROVE TypeOK'
  BY <1>15 DEF vars
<1> QED
  BY <1>1, <1>2, <1>3, <1>4, <1>5, <1>6, <1>7, <1>8, <1>9, <1>10, <1>11, <1>12,
     <1>13, <1>14, <1>15 DEF Next, Step

(* Init is typed, with an empty semaphore and nothing pending. *)
LEMMA InitType ==
    ASSUME Init
    PROVE  TypeOK /\ SemaphoreAccounted /\ PendingOnlyApplying
<1>1. \A t \in Targets : NoPlan(t) \in [Slots(t) -> Action]
  BY DEF NoPlan, NoAction, Action, WithVariable, Reasons
<1>2. TypeOK
  <2>1. /\ pc \in [Targets -> PCs]
        /\ at \in [Targets -> Nat]
        /\ id \in [Targets -> Ids]
        /\ taken \in [Targets -> SUBSET Identities]
        /\ err \in [Targets -> TargetErrors]
        /\ claimed \in [Objects -> Targets \union {NoTarget}]
        /\ resolved \in [Targets -> ObjectIds \union {Absent}]
        /\ snap \in [Secrets -> Read]
        /\ touched \in [Objects -> SUBSET Identities]
        /\ slipped \in [Objects -> SUBSET Identities]
    BY DEF Init, PCs, TargetErrors, Ids, Read
  <2>2. /\ DOMAIN plan = Targets
        /\ \A t \in Targets : plan[t] \in [Slots(t) -> Action]
        /\ DOMAIN todo = Targets
        /\ \A t \in Targets : todo[t] \subseteq Pending(plan[t])
    BY <1>1 DEF Init
  <2>3. /\ sem \in 0..Concurrency
        /\ upsets \in 0..MaxUpsets
        /\ dryRun \in BOOLEAN
        /\ expired \in BOOLEAN
        /\ late \subseteq Request
    <3>1. sem = 0 /\ upsets = 0 /\ dryRun \in DryRuns /\ expired = FALSE /\ late = {}
      BY DEF Init
    <3>2. Concurrency \in Nat /\ MaxUpsets \in Nat /\ DryRuns \subseteq BOOLEAN
      BY EnvironmentAssumption
    <3>3. sem \in 0..Concurrency /\ upsets \in 0..MaxUpsets
      BY <3>1, <3>2
    <3>4. dryRun \in BOOLEAN /\ expired \in BOOLEAN /\ late \subseteq Request
      BY <3>1, <3>2
    <3> QED
      BY <3>3, <3>4
  <2>4. vault \in [Secrets -> Read]
    <3>1. vault \in InitVaults
      BY DEF Init
    <3>2. \A v \in InitVaults : v \in [Secrets -> Read]
      BY EnvironmentAssumption
    <3> QED
      BY <3>1, <3>2
  <2>5. store \in [Objects -> [Identities -> Bodies \union {Absent}]]
    <3>1. store = InitStore
      BY DEF Init
    <3>2. InitStore \in [Objects -> [Identities -> Bodies \union {Absent}]]
      BY EnvironmentAssumption
    <3> QED
      BY <3>1, <3>2
  <2>6. names \in [Targets -> ObjectIds \union {Absent}]
    BY EnvironmentAssumption DEF Init
  <2> QED
    BY <2>1, <2>2, <2>3, <2>4, <2>5, <2>6 DEF TypeOK
<1>3. SemaphoreAccounted
  <2>1. {t \in Targets : AtWork(t)} = {}
    BY DEF Init, AtWork
  <2> QED
    BY <2>1, FS_EmptySet DEF Init, SemaphoreAccounted
<1>4. PendingOnlyApplying
  BY DEF Init, PendingOnlyApplying
<1> QED
  BY <1>2, <1>3, <1>4

(* Only a comparison with GitLab makes actions pending, and a target leaves *)
(* the loop that applies them only when none is left.                       *)
LEMMA PendingStep ==
    ASSUME TypeOK, PendingOnlyApplying, [Next]_vars
    PROVE  PendingOnlyApplying'
<1> USE DEF PendingOnlyApplying, TypeOK, local
<1>1. ASSUME NEW t \in Targets, Step(t)  PROVE PendingOnlyApplying'
  <2>1. CASE Acquire(t) \/ ResolveKnown(t) \/ ResolveOk(t) \/ ResolveErr(t)
    BY <2>1 DEF Acquire, ResolveKnown, ResolveOk, ResolveErr, MustLookUp, GiveUp
  <2>2. CASE Claim(t) \/ Refuse(t) \/ ReadOk(t) \/ ReadErr(t)
    BY <2>2 DEF Claim, Refuse, ReadOk, ReadErr, GiveUp
  <2>3. CASE Lists(t) \/ ListErr(t)
    BY <2>3 DEF Lists, ListOk, ListMissing, Observes, ListErr, Listing, GiveUp
  <2>4. CASE Apply(t)
    BY <2>4 DEF Apply, ApplyOk, ApplyErr, ApplyLost, Failed, IsNext
  <2>5. CASE Return(t)
    BY <2>5 DEF Return
  <2> QED
    BY <1>1, <2>1, <2>2, <2>3, <2>4, <2>5 DEF Step
<1>2. CASE NewPass
  BY <1>2 DEF NewPass
<1>3. CASE Environment
  BY <1>3 DEF Environment, PassTimeout, Rebuild, LateApply, LateDrop, Meddle, VaultWrite, Rename
<1>4. CASE UNCHANGED vars
  BY <1>4 DEF vars
<1> QED
  BY <1>1, <1>2, <1>3, <1>4 DEF Next

(* The state stays typed through every pass, whatever fails, and            *)
(* sync.concurrency bounds the targets at work: a token is in the semaphore *)
(* for each of them and for nobody else (reconciler.go:41-52).              *)
THEOREM Typing == Spec => [](TypeOK /\ SemaphoreAccounted /\ PendingOnlyApplying)
<1>1. Init => TypeOK /\ SemaphoreAccounted /\ PendingOnlyApplying
  BY InitType
<1>2. TypeOK /\ SemaphoreAccounted /\ PendingOnlyApplying /\ [Next]_vars
      => (TypeOK /\ SemaphoreAccounted /\ PendingOnlyApplying)'
  BY SemaphoreStep, TypeStep, PendingStep
<1> QED
  BY <1>1, <1>2, PTL DEF Spec

(* Every variable of the reconciler keeps to its type. *)
THEOREM Typed == Spec => []TypeOK
BY Typing, PTL

(* No more than Concurrency targets are ever at work at the same time. *)
THEOREM BoundedConcurrency == Spec => [](Cardinality({t \in Targets : AtWork(t)}) <= Concurrency)
<1>1. TypeOK /\ SemaphoreAccounted => Cardinality({t \in Targets : AtWork(t)}) <= Concurrency
  BY EnvironmentAssumption DEF TypeOK, SemaphoreAccounted
<1> QED
  BY <1>1, Typing, PTL

-----------------------------------------------------------------------------
(* Claims.  That two targets past the claim never share an object does not  *)
(* survive a step by itself: the claim set has to be tied to the targets.   *)
(* Whoever is past the claim is the owner on record, whoever is on record   *)
(* is past the claim, a refusal is the fault of another, and a target that  *)
(* is still on its way has not failed.                                      *)
OwnerOnRecord == \A t \in Targets : PastClaim(t) => claimed[Object(t)] = t
RecordIsOwner ==
    \A o \in Objects : \A t \in Targets : claimed[o] = t => PastClaim(t) /\ Object(t) = o
RefusedByOther ==
    \A t \in Targets : err[t] = "duplicate" => claimed[Object(t)] \notin {NoTarget, t}
NoErrorUnderWay ==
    \A t \in Targets : pc[t] \notin {"returning", "done"} => err[t] = "none"
ClaimsHold == OwnerOnRecord /\ RecordIsOwner /\ RefusedByOther /\ NoErrorUnderWay

(* Nobody is past the claim before a pass, and nothing is claimed. *)
LEMMA NobodyClaims ==
    ASSUME \A t \in Targets : pc[t] = "waiting" /\ err[t] = "none",
           claimed = [o \in Objects |-> NoTarget]
    PROVE  ClaimsHold
BY EnvironmentAssumption
   DEF ClaimsHold, OwnerOnRecord, RecordIsOwner, RefusedByOther, NoErrorUnderWay, PastClaim

(* A step after which the same targets are past the claim, on the same      *)
(* objects and with the same refusals, leaves the claims in order.          *)
LEMMA ClaimsUntouched ==
    ASSUME TypeOK, ClaimsHold, UNCHANGED <<id, claimed>>,
           \A t \in Targets : PastClaim(t)' = PastClaim(t),
           \A t \in Targets : err'[t] = "duplicate" <=> err[t] = "duplicate",
           \A t \in Targets : pc'[t] \notin {"returning", "done"} => err'[t] = "none"
    PROVE  ClaimsHold'
<1>1. \A t \in Targets : Object(t)' = Object(t)
  BY DEF Object
<1>2. OwnerOnRecord'
  BY <1>1 DEF ClaimsHold, OwnerOnRecord
<1>3. RecordIsOwner'
  BY <1>1 DEF ClaimsHold, RecordIsOwner
<1>4. RefusedByOther'
  BY <1>1 DEF ClaimsHold, RefusedByOther
<1>5. NoErrorUnderWay'
  BY DEF NoErrorUnderWay
<1> QED
  BY <1>2, <1>3, <1>4, <1>5 DEF ClaimsHold

(* Resolution fills in the ID of a target that is not past the claim. *)
LEMMA ClaimsResolve ==
    ASSUME TypeOK, ClaimsHold, NEW t \in Targets, ResolveKnown(t) \/ ResolveOk(t)
    PROVE  ClaimsHold'
<1> USE DEF TypeOK, ClaimsHold
<1>1. /\ pc[t] = "resolving" /\ pc' = [pc EXCEPT ![t] = "claiming"]
      /\ \A u \in Targets \ {t} : id'[u] = id[u]
      /\ UNCHANGED <<err, claimed>>
  BY DEF ResolveKnown, ResolveOk, MustLookUp, shared
<1>2. \A u \in Targets : PastClaim(u)' = PastClaim(u)
  BY <1>1 DEF PastClaim
<1>3. ~PastClaim(t) /\ err[t] = "none"
  BY <1>1 DEF PastClaim, NoErrorUnderWay
<1>4. \A u \in Targets \ {t} : Object(u)' = Object(u)
  BY <1>1 DEF Object
<1>5. OwnerOnRecord'
  BY <1>1, <1>2, <1>3, <1>4 DEF OwnerOnRecord
<1>6. RecordIsOwner'
  BY <1>1, <1>2, <1>3, <1>4 DEF RecordIsOwner
<1>7. RefusedByOther'
  BY <1>1, <1>3, <1>4 DEF RefusedByOther
<1>8. NoErrorUnderWay'
  BY <1>1 DEF NoErrorUnderWay
<1> QED
  BY <1>5, <1>6, <1>7, <1>8

(* The target that claims was not past the claim and its object had no      *)
(* owner; now it is, and has.                                               *)
LEMMA ClaimsClaim ==
    ASSUME TypeOK, ClaimsHold, NEW t \in Targets, Claim(t)
    PROVE  ClaimsHold'
<1> USE DEF ClaimsHold
<1>1. /\ pc[t] = "claiming" /\ pc' = [pc EXCEPT ![t] = "building"]
      /\ claimed[Object(t)] = NoTarget /\ claimed' = [claimed EXCEPT ![Object(t)] = t]
      /\ UNCHANGED <<id, err>>
  BY DEF Claim, local
<1>2. /\ Object(t) \in Objects
      /\ pc \in [Targets -> PCs]
      /\ claimed \in [Objects -> Targets \union {NoTarget}]
  BY ConfigAssumption DEF TypeOK, Object, Objects
<1>3. \A u \in Targets : Object(u)' = Object(u)
  BY <1>1 DEF Object
<1>4. PastClaim(t)' /\ \A u \in Targets \ {t} : PastClaim(u)' = PastClaim(u)
  BY <1>1, <1>2 DEF PastClaim
<1>5. \A u \in Targets : PastClaim(u) => Object(u) # Object(t)
  BY <1>1, EnvironmentAssumption DEF OwnerOnRecord
<1>6. OwnerOnRecord'
  BY <1>1, <1>2, <1>3, <1>4, <1>5 DEF OwnerOnRecord
<1>7. RecordIsOwner'
  BY <1>1, <1>2, <1>3, <1>4 DEF RecordIsOwner
<1>8. RefusedByOther'
  BY <1>1, <1>2, <1>3 DEF RefusedByOther
<1>9. NoErrorUnderWay'
  BY <1>1, <1>2 DEF NoErrorUnderWay
<1> QED
  BY <1>6, <1>7, <1>8, <1>9

(* A refused target is not past the claim, so the owner is another one. *)
LEMMA ClaimsRefuse ==
    ASSUME TypeOK, ClaimsHold, NEW t \in Targets, Refuse(t)
    PROVE  ClaimsHold'
<1> USE DEF TypeOK, ClaimsHold
<1>1. /\ pc[t] = "claiming" /\ pc' = [pc EXCEPT ![t] = "returning"]
      /\ claimed[Object(t)] # NoTarget
      /\ err' = [err EXCEPT ![t] = "duplicate"]
      /\ UNCHANGED <<id, claimed>>
  BY DEF Refuse, GiveUp, shared
<1>2. \A u \in Targets : Object(u)' = Object(u)
  BY <1>1 DEF Object
<1>3. \A u \in Targets : PastClaim(u)' = PastClaim(u)
  BY <1>1 DEF PastClaim
<1>4. ~PastClaim(t) /\ Object(t) \in Objects
  BY <1>1, ConfigAssumption DEF PastClaim, Object, Objects
<1>5. OwnerOnRecord' /\ RecordIsOwner'
  BY <1>1, <1>2, <1>3 DEF OwnerOnRecord, RecordIsOwner
<1>6. RefusedByOther'
  BY <1>1, <1>2, <1>4 DEF RefusedByOther, RecordIsOwner
<1>7. NoErrorUnderWay'
  BY <1>1 DEF NoErrorUnderWay
<1> QED
  BY <1>5, <1>6, <1>7

(* So no step of the system disturbs the claims. *)
LEMMA ClaimsStep ==
    ASSUME TypeOK, ClaimsHold, [Next]_vars
    PROVE  ClaimsHold'
<1> USE DEF local, shared, remote
<1>1. ASSUME NEW t \in Targets, Step(t)  PROVE ClaimsHold'
  <2>1. CASE Acquire(t) \/ ResolveErr(t)
    <3>1. UNCHANGED <<id, claimed>>
      BY <2>1 DEF Acquire, ResolveErr, GiveUp
    <3>2. /\ pc[t] \in {"waiting", "resolving"} /\ err[t] = "none"
          /\ \A u \in Targets \ {t} : pc'[u] = pc[u] /\ err'[u] = err[u]
          /\ \/ pc'[t] = "resolving" /\ err'[t] = "none"
             \/ pc'[t] = "returning" /\ err'[t] = "resolve"
      BY <2>1 DEF Acquire, ResolveErr, MustLookUp, GiveUp, TypeOK, ClaimsHold, NoErrorUnderWay
    <3>3. \A u \in Targets : PastClaim(u)' = PastClaim(u)
      BY <3>2 DEF PastClaim
    <3> QED
      BY <3>1, <3>2, <3>3, ClaimsUntouched DEF ClaimsHold, NoErrorUnderWay
  <2>2. CASE ResolveKnown(t) \/ ResolveOk(t)
    BY <2>2, ClaimsResolve
  <2>3. CASE Claim(t)
    BY <2>3, ClaimsClaim
  <2>4. CASE Refuse(t)
    BY <2>4, ClaimsRefuse
  <2>5. CASE ReadOk(t) \/ ReadErr(t) \/ Lists(t) \/ ListErr(t) \/ Apply(t)
    <3>1. UNCHANGED <<id, claimed>>
      BY <2>5 DEF ReadOk, ReadErr, Lists, ListOk, ListMissing, Observes, ListErr, GiveUp,
                  Apply, ApplyOk, ApplyErr, ApplyLost
    <3>2. /\ pc[t] \in {"building", "applying"} /\ err[t] = "none"
          /\ \A u \in Targets \ {t} : pc'[u] = pc[u] /\ err'[u] = err[u]
          /\ \/ pc'[t] \in {"building", "applying"} /\ err'[t] = "none"
             \/ pc'[t] = "returning" /\ err'[t] = "list"
      <4>1. pc[t] \in {"building", "applying"}
        BY <2>5 DEF ReadOk, ReadErr, Reading, Lists, ListOk, ListMissing, Observes, ListErr, Listing,
                    Apply, ApplyOk, ApplyErr, ApplyLost, IsNext
      <4>2. err[t] = "none"
        BY <4>1 DEF ClaimsHold, NoErrorUnderWay
      <4> QED
        BY <2>5, <4>1, <4>2 DEF TypeOK, ReadOk, ReadErr, Lists, ListOk, ListMissing, Observes, ListErr, GiveUp,
                    Apply, ApplyOk, ApplyErr, ApplyLost
    <3>3. \A u \in Targets : PastClaim(u)' = PastClaim(u)
      BY <3>2 DEF PastClaim
    <3> QED
      BY <3>1, <3>2, <3>3, ClaimsUntouched DEF ClaimsHold, NoErrorUnderWay
  <2>6. CASE Return(t)
    <3>1. UNCHANGED <<id, claimed, err>>
      BY <2>6 DEF Return
    <3>2. /\ pc[t] \in {"returning", "applying"} /\ pc'[t] = "done"
          /\ \A u \in Targets \ {t} : pc'[u] = pc[u]
      BY <2>6 DEF Return, TypeOK
    <3>3. pc[t] = "applying" => err[t] = "none"
      BY DEF ClaimsHold, NoErrorUnderWay
    <3>4. \A u \in Targets : PastClaim(u)' = PastClaim(u)
      BY <3>1, <3>2, <3>3 DEF PastClaim
    <3> QED
      BY <3>1, <3>2, <3>4, ClaimsUntouched DEF ClaimsHold, NoErrorUnderWay
  <2> QED
    BY <1>1, <2>1, <2>2, <2>3, <2>4, <2>5, <2>6 DEF Step
<1>2. CASE NewPass
  <2>1. \A t \in Targets : pc'[t] = "waiting" /\ err'[t] = "none"
    BY <1>2 DEF NewPass
  <2>2. claimed' = [o \in Objects |-> NoTarget]
    BY <1>2 DEF NewPass
  <2> QED
    BY <2>1, <2>2, EnvironmentAssumption
       DEF ClaimsHold, OwnerOnRecord, RecordIsOwner, RefusedByOther, NoErrorUnderWay, PastClaim
<1>3. CASE Environment \/ UNCHANGED vars
  <2>1. UNCHANGED <<pc, id, err, claimed>>
    BY <1>3 DEF Environment, PassTimeout, Rebuild, LateApply, LateDrop, Meddle, VaultWrite,
                Rename, vars
  <2>2. \A t \in Targets : PastClaim(t)' = PastClaim(t)
    BY <2>1 DEF PastClaim
  <2> QED
    BY <2>1, <2>2, ClaimsUntouched DEF ClaimsHold, NoErrorUnderWay
<1> QED
  BY <1>1, <1>2, <1>3 DEF Next

(* The claim set and the targets agree in every reachable state, whatever   *)
(* order the targets resolve and claim in (reconciler.go:133-153).          *)
THEOREM Claims == Spec => []ClaimsHold
<1>1. Init => ClaimsHold
  BY NobodyClaims DEF Init
<1>2. TypeOK /\ ClaimsHold /\ [Next]_vars => ClaimsHold'
  BY ClaimsStep
<1> QED
  BY <1>1, <1>2, Typing, PTL DEF Spec

(* No two targets ever reconcile one GitLab object in a pass, for any       *)
(* number of aliases, with any concurrency and whatever is renamed          *)
(* meanwhile (reconciler.go:80-88).                                         *)
THEOREM NoTwoWriters == Spec => []OneWriterPerObject
<1>1. ClaimsHold => OneWriterPerObject
  BY DEF ClaimsHold, OwnerOnRecord, OneWriterPerObject
<1> QED
  BY <1>1, Claims, PTL

(* A refused target always has another one to blame that is past the claim  *)
(* of the same object, so no circle of refusals leaves an object to nobody. *)
THEOREM RefusalsJustified == Spec => []RefusalHasOwner
<1>1. ASSUME TypeOK, ClaimsHold  PROVE RefusalHasOwner
  <2> SUFFICES ASSUME NEW t \in Targets, err[t] = "duplicate"
               PROVE  \E u \in Targets \ {t} :
                         claimed[Object(t)] = u /\ PastClaim(u) /\ Object(u) = Object(t)
    BY DEF RefusalHasOwner
  <2>1. Object(t) \in Objects
    BY <1>1, ConfigAssumption DEF TypeOK, Object, Objects
  <2>2. claimed[Object(t)] \in Targets \ {t}
    BY <1>1, <2>1 DEF TypeOK, ClaimsHold, RefusedByOther
  <2> QED
    BY <1>1, <2>1, <2>2 DEF ClaimsHold, RecordIsOwner
<1> QED
  BY <1>1, Typing, Claims, PTL
=============================================================================
