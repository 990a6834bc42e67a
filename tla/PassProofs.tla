----------------------------- MODULE PassProofs -----------------------------
(***************************************************************************)
(* What a pass does, for any configuration, any secrets, any interleaving  *)
(* of the targets and any disturbance: the plan of a target is the one the *)
(* order-free reference asks for, the writes carry out that plan and       *)
(* nothing else, and a report without errors means that the configuration  *)
(* is in force.                                                            *)
(***************************************************************************)
EXTENDS SourceUseProofs

-----------------------------------------------------------------------------
(* The build as a function of what the entries read.  TakenBefore is what   *)
(* the code keeps in taken when it comes to entry i, Result the outcome of  *)
(* a slot; neither needs a state.                                           *)
TakenBefore(t, i, read) ==
    Reserved(t) \union
    UNION {TakenBy(t, j, read[j]) : j \in {k \in Entries(t) : k < i /\ read[k] # Absent}}

Result(t, s, read) ==
    IF read[s[1]] # Absent
    THEN Outcome(t, s[1], s[2], read[s[1]], TakenBefore(t, s[1], read))
    ELSE IF s[2] = 0 THEN Skip("vault", TRUE) ELSE NoAction

(* Slots are pairs of numbers. *)
LEMMA SlotParts ==
    ASSUME NEW t \in Targets, NEW s \in Slots(t)
    PROVE  /\ s = <<s[1], s[2]>>
           /\ s[1] \in Entries(t) /\ s[1] \in Nat
           /\ s[2] \in 0..NumFields /\ s[2] \in Nat
           /\ s[2] # 0 => s[2] \in Fields
BY ConfigAssumption DEF Slots, Entries, Fields

(* Conversely. *)
LEMMA SlotOf ==
    ASSUME NEW t \in Targets, NEW i \in Entries(t), NEW f \in 0..NumFields
    PROVE  <<i, f>> \in Slots(t)
BY DEF Slots

LEMMA FieldSlot ==
    /\ 0 \in 0..NumFields
    /\ \A f \in Fields : f \in 0..NumFields /\ f # 0 /\ f \in Nat
BY ConfigAssumption DEF Fields

(* The entries before an entry decide what it may take. *)
LEMMA TakenBeforeSame ==
    ASSUME NEW t, NEW i \in Nat, NEW read, NEW other,
           \A j \in Entries(t) : j < i => read[j] = other[j]
    PROVE  TakenBefore(t, i, read) = TakenBefore(t, i, other)
BY DEF TakenBefore

LEMMA ResultSame ==
    ASSUME NEW t \in Targets, NEW s \in Slots(t), NEW read, NEW other,
           \A j \in Entries(t) : j <= s[1] => read[j] = other[j]
    PROVE  Result(t, s, read) = Result(t, s, other)
<1>1. s[1] \in Entries(t) /\ s[1] \in Nat
  BY SlotParts
<1>2. read[s[1]] = other[s[1]]
  BY <1>1
<1>3. TakenBefore(t, s[1], read) = TakenBefore(t, s[1], other)
  <2>1. \A j \in Entries(t) : j < s[1] => j <= s[1]
    BY <1>1 DEF Entries
  <2> QED
    BY <1>1, <2>1, TakenBeforeSame
<1> QED
  BY <1>2, <1>3 DEF Result

(* The next entry adds what it takes, if its secret could be read. *)
LEMMA TakenBeforeNext ==
    ASSUME NEW t \in Targets, NEW i \in Entries(t), NEW read
    PROVE  TakenBefore(t, i + 1, read) =
               TakenBefore(t, i, read)
               \union (IF read[i] # Absent THEN TakenBy(t, i, read[i]) ELSE {})
<1> DEFINE held(n) == {k \in Entries(t) : k < n /\ read[k] # Absent}
<1>1. held(i + 1) = held(i) \union (IF read[i] # Absent THEN {i} ELSE {})
  BY ConfigAssumption DEF Entries
<1> HIDE DEF held
<1>2. \A n : TakenBefore(t, n, read) =
                 Reserved(t) \union UNION {TakenBy(t, j, read[j]) : j \in held(n)}
  BY DEF TakenBefore, held
<1> QED
  BY <1>1, <1>2

(* Before the first entry only the explicit keys are taken. *)
LEMMA TakenBeforeFirst ==
    ASSUME NEW t \in Targets, NEW read
    PROVE  TakenBefore(t, 1, read) = Reserved(t)
<1>1. {k \in Entries(t) : k < 1 /\ read[k] # Absent} = {}
  BY ConfigAssumption DEF Entries
<1> QED
  BY <1>1 DEF TakenBefore

-----------------------------------------------------------------------------
(* The plan meets the reference. *)

(* What slot s holds if it holds a variable. *)
VariableAt(t, s, read) ==
    [id   |-> IdentityFor(t, s[1], s[2]),
     body |-> [value  |-> ValueOf(t, s, read),
               masked |-> Specs[t][s[1]].masked,
               attrs  |-> Specs[t][s[1]].attrs]]

(* A value is wanted unless the level or the masking rules refuse it. *)
LEMMA AddWants ==
    ASSUME NEW t, NEW i, NEW f, NEW value
    PROVE  LET a == Add(t, i, f, value)
           IN  /\ a.op = "want" <=> /\ Kind[t] = "instance" => value \notin Oversized
                                    /\ Specs[t][i].masked => value \in Maskable
               /\ a.op = "want" =>
                    a.var = [id   |-> IdentityFor(t, i, f),
                             body |-> [value  |-> value,
                                       masked |-> Specs[t][i].masked,
                                       attrs  |-> Specs[t][i].attrs]]
BY DEF Add, Skip, Want

(* An identity is taken when an entry comes to its field exactly if some    *)
(* slot that asks for it has precedence.                                    *)
LEMMA CollidesWithAsking ==
    ASSUME NEW t \in Targets, NEW read \in [Entries(t) -> Read],
           NEW i \in Entries(t), NEW f \in Fields, ~Specs[t][i].explicit, read[i] # Absent
    PROVE  Collides(t, i, f, read[i], TakenBefore(t, i, read)) <=>
               \E r \in Asking(t, read) :
                   /\ r[2] = 0 \/ Before(r, <<i, f>>)
                   /\ IdentityFor(t, r[1], r[2]) = IdentityFor(t, i, f)
<1> DEFINE wanted == IdentityFor(t, i, f)
           held == TakenBefore(t, i, read)
<1>1. /\ 0 \in 0..NumFields /\ f \in Nat /\ i \in Nat
      /\ \A g \in Fields : g \in 0..NumFields /\ g # 0 /\ g \in Nat
      /\ \A g \in 1..(f - 1) : g \in Fields /\ g < f
  BY ConfigAssumption DEF Fields, Entries
<1>2. ASSUME Collides(t, i, f, read[i], held)
      PROVE  \E r \in Asking(t, read) :
                 (r[2] = 0 \/ Before(r, <<i, f>>)) /\ IdentityFor(t, r[1], r[2]) = wanted
  <2>1. CASE wanted \in Reserved(t)
    <3>1. PICK j \in Entries(t) : Specs[t][j].explicit /\ IdentityFor(t, j, 0) = wanted
      BY <2>1 DEF Reserved
    <3>2. <<j, 0>> \in Asking(t, read)
      BY <1>1, <3>1, SlotOf DEF Asking
    <3> QED
      BY <3>1, <3>2
  <2>2. ASSUME NEW j \in Entries(t), j < i, read[j] # Absent, wanted \in TakenBy(t, j, read[j])
        PROVE  \E r \in Asking(t, read) :
                 (r[2] = 0 \/ Before(r, <<i, f>>)) /\ IdentityFor(t, r[1], r[2]) = wanted
    <3>1. PICK g \in Fields : /\ ~Specs[t][j].explicit
                              /\ Asks(t, j, g, read[j])
                              /\ IdentityFor(t, j, g) = wanted
      BY <2>2 DEF TakenBy
    <3>2. <<j, g>> \in Asking(t, read)
      BY <1>1, <2>2, <3>1, SlotOf DEF Asking
    <3>3. Before(<<j, g>>, <<i, f>>)
      BY <2>2 DEF Before
    <3> QED
      BY <3>1, <3>2, <3>3
  <2>3. ASSUME NEW g \in 1..(f - 1), Asks(t, i, g, read[i]), IdentityFor(t, i, g) = wanted
        PROVE  \E r \in Asking(t, read) :
                 (r[2] = 0 \/ Before(r, <<i, f>>)) /\ IdentityFor(t, r[1], r[2]) = wanted
    <3>1. <<i, g>> \in Asking(t, read)
      BY <1>1, <2>3, SlotOf DEF Asking
    <3>2. Before(<<i, g>>, <<i, f>>)
      BY <1>1 DEF Before
    <3> QED
      BY <2>3, <3>1, <3>2
  <2> QED
    BY <1>2, <2>1, <2>2, <2>3 DEF Collides, TakenBefore
<1>3. ASSUME NEW r \in Asking(t, read), r[2] = 0 \/ Before(r, <<i, f>>),
             IdentityFor(t, r[1], r[2]) = wanted
      PROVE  Collides(t, i, f, read[i], held)
  <2>1. r \in Slots(t)
    BY DEF Asking
  <2>2. /\ r = <<r[1], r[2]>> /\ r[1] \in Entries(t) /\ r[1] \in Nat
        /\ r[2] \in Nat /\ (r[2] # 0 => r[2] \in Fields)
    BY <2>1, SlotParts
  <2>3. CASE r[2] = 0
    <3>1. Specs[t][r[1]].explicit
      BY <2>3 DEF Asking
    <3>2. wanted \in Reserved(t)
      BY <1>3, <2>2, <2>3, <3>1 DEF Reserved
    <3> QED
      BY <3>2 DEF Collides, TakenBefore
  <2>4. CASE r[2] # 0
    <3>1. ~Specs[t][r[1]].explicit /\ read[r[1]] # Absent /\ Asks(t, r[1], r[2], read[r[1]])
      BY <2>4 DEF Asking
    <3>2. r[1] < i \/ (r[1] = i /\ r[2] < f)
      BY <1>3, <2>4 DEF Before
    <3>3. CASE r[1] < i
      <4>1. wanted \in TakenBy(t, r[1], read[r[1]])
        BY <1>3, <2>2, <2>4, <3>1 DEF TakenBy
      <4> QED
        BY <2>2, <3>1, <3>3, <4>1 DEF Collides, TakenBefore
    <3>4. CASE r[1] = i /\ r[2] < f
      <4>1. r[2] \in 1..(f - 1)
        BY <1>1, <2>2, <2>4, <3>4
      <4> QED
        BY <1>3, <3>1, <3>4, <4>1 DEF Collides
    <3> QED
      BY <3>2, <3>3, <3>4
  <2> QED
    BY <2>3, <2>4
<1> QED
  BY <1>2, <1>3

(* A slot holds a variable exactly if it owns its identity and its value is *)
(* there and acceptable.                                                    *)
LEMMA ResultWants ==
    ASSUME NEW t \in Targets, NEW read \in [Entries(t) -> Read], NEW s \in Slots(t)
    PROVE  /\ Result(t, s, read).op = "want" <=>
                  /\ s \in Owners(t, read)
                  /\ read[s[1]] # Absent
                  /\ Acceptable(t, s, ValueOf(t, s, read))
           /\ Result(t, s, read).op = "want" => Result(t, s, read).var = VariableAt(t, s, read)
<1> DEFINE i == s[1]
           f == s[2]
<1>1. s = <<i, f>> /\ i \in Entries(t) /\ (f # 0 => f \in Fields)
  BY SlotParts
<1>2. CASE read[i] = Absent
  BY <1>2 DEF Result, Skip, NoAction
<1>3. CASE read[i] # Absent /\ Specs[t][i].explicit /\ f = 0
  <2>1. s \in Owners(t, read)
    BY <1>3 DEF Owners, Asking
  <2>2. ValueOf(t, s, read) = read[i][Specs[t][i].field]
    BY <1>3 DEF ValueOf
  <2>3. Result(t, s, read) = ExplicitOutcome(t, i, read[i])
    BY <1>3 DEF Result, Outcome
  <2>4. CASE ValueOf(t, s, read) = Absent
    BY <2>2, <2>3, <2>4 DEF ExplicitOutcome, Skip, Acceptable
  <2>5. CASE ValueOf(t, s, read) # Absent
    <3>1. Result(t, s, read) = Add(t, i, 0, ValueOf(t, s, read))
      BY <2>2, <2>3, <2>5 DEF ExplicitOutcome
    <3> QED
      BY <1>3, <2>1, <2>5, <3>1, AddWants DEF Acceptable, VariableAt
  <2> QED
    BY <2>4, <2>5
<1>4. CASE read[i] # Absent /\ Specs[t][i].explicit /\ f # 0
  BY <1>4 DEF Result, Outcome, NoAction, Owners, Asking
<1>5. CASE read[i] # Absent /\ ~Specs[t][i].explicit /\ f = 0
  BY <1>5 DEF Result, Outcome, NoAction, Owners, Asking
<1>6. CASE read[i] # Absent /\ ~Specs[t][i].explicit /\ f # 0
  <2> DEFINE held == TakenBefore(t, i, read)
  <2>1. ValueOf(t, s, read) = read[i][f]
    BY <1>6 DEF ValueOf
  <2>2. Result(t, s, read) = FieldOutcome(t, i, f, read[i], held)
    BY <1>6 DEF Result, Outcome
  <2>3. s \in Owners(t, read) <=>
            Asks(t, i, f, read[i]) /\ ~Collides(t, i, f, read[i], held)
    <3>1. s \in Asking(t, read) <=> Asks(t, i, f, read[i])
      BY <1>6 DEF Asking
    <3> QED
      BY <1>1, <1>6, <3>1, CollidesWithAsking DEF Owners
  <2>4. CASE Asks(t, i, f, read[i]) /\ ~Collides(t, i, f, read[i], held)
    <3>1. Result(t, s, read) = Add(t, i, f, read[i][f])
      BY <2>2, <2>4 DEF FieldOutcome, Asks
    <3> QED
      BY <1>6, <2>1, <2>3, <2>4, <3>1, AddWants DEF Acceptable, VariableAt, Asks
  <2>5. CASE ~(Asks(t, i, f, read[i]) /\ ~Collides(t, i, f, read[i], held))
    <3> HIDE DEF held
    <3>1. FieldOutcome(t, i, f, read[i], held).op # "want"
      BY <2>5 DEF FieldOutcome, Asks, NoAction, Skip
    <3> QED
      BY <2>2, <2>3, <2>5, <3>1
  <2> QED
    BY <2>4, <2>5
<1> QED
  BY <1>2, <1>3, <1>4, <1>5, <1>6

(* No two slots own one identity. *)
LEMMA OwnersApart ==
    ASSUME NEW t \in Targets, NEW read,
           NEW r \in Owners(t, read), NEW s \in Owners(t, read),
           IdentityFor(t, r[1], r[2]) = IdentityFor(t, s[1], s[2])
    PROVE  r = s
<1>1. r \in Asking(t, read) /\ s \in Asking(t, read)
  BY DEF Owners
<1>2. r \in Slots(t) /\ s \in Slots(t)
  BY <1>1 DEF Asking
<1>3. /\ r = <<r[1], r[2]>> /\ r[1] \in Entries(t) /\ r[1] \in Nat /\ r[2] \in Nat
      /\ s = <<s[1], s[2]>> /\ s[1] \in Entries(t) /\ s[1] \in Nat /\ s[2] \in Nat
  BY <1>2, SlotParts
<1>4. CASE r[2] = 0 /\ s[2] = 0
  <2>1. Specs[t][r[1]].explicit /\ Specs[t][s[1]].explicit
    BY <1>1, <1>4 DEF Asking
  <2> QED
    BY <1>3, <1>4, <2>1, ConfigAssumption
<1>5. CASE r[2] # 0 \/ s[2] # 0
  <2>1. ~(s[2] # 0 /\ (r[2] = 0 \/ Before(r, s))) /\ ~(r[2] # 0 /\ (s[2] = 0 \/ Before(s, r)))
    BY <1>1 DEF Owners
  <2>2. ~Before(r, s) /\ ~Before(s, r)
    BY <1>5, <2>1
  <2> QED
    BY <1>3, <2>2 DEF Before
<1> QED
  BY <1>4, <1>5

-----------------------------------------------------------------------------
(* The build in the state.  That a finished plan meets the reference is not *)
(* inductive by itself: it has to be said of a build under way what it has  *)
(* done and what it has taken, of an earlier target that it has done        *)
(* nothing, and of one that returns early that it reports why.              *)

(* What has become of an outcome once it was compared with GitLab. *)
Settled(a, outcome) ==
    IF outcome.op = "want"
    THEN a.op \in {"create", "update", "noop"} /\ a.var = outcome.var
    ELSE a = outcome

NotBuilt(t) == at[t] = 1 /\ plan[t] = NoPlan(t)
HalfBuilt(t) ==
    /\ at[t] \in 1..(Len(Specs[t]) + 1)
    /\ taken[t] = TakenBefore(t, at[t], ReadBy(t))
    /\ \A s \in Slots(t) :
          plan[t][s] = IF s[1] < at[t] THEN Result(t, s, ReadBy(t)) ELSE NoAction
WellBuilt(t) == \A s \in Slots(t) : Settled(plan[t][s], Result(t, s, ReadBy(t)))

PlanAt(t) ==
    /\ pc[t] \in {"waiting", "resolving", "claiming"} => NotBuilt(t)
    /\ pc[t] = "building" => HalfBuilt(t)
    /\ Planned(t) => WellBuilt(t)
    /\ pc[t] = "returning" => err[t] # "none"
Plans == \A t \in Targets : PlanAt(t)

(* What the source has answered in this pass stays its answer. *)
SnapGrows == \A s \in Secrets : snap[s] # Absent => snap'[s] = snap[s]

LEMMA ReadByType ==
    ASSUME TypeOK, NEW t \in Targets
    PROVE  ReadBy(t) \in [Entries(t) -> Read]
<1>1. \A i \in Entries(t) : snap[Specs[t][i].secret] \in Read
  BY SecretOfEntry DEF TypeOK
<1> QED
  BY <1>1 DEF ReadBy, Read

(* So an entry of which the plan tells whether it was read, is not read     *)
(* again.                                                                   *)
LEMMA ReadStable ==
    ASSUME NEW t \in Targets, NEW i \in Entries(t), SnapGrows,
           plan'[t][<<i, 0>>].reason = "vault" <=> plan[t][<<i, 0>>].reason = "vault",
           plan[t][<<i, 0>>].reason = "vault" \/ ReadBy(t)[i] # Absent
    PROVE  ReadBy(t)'[i] = ReadBy(t)[i]
<1>1. Specs[t][i].secret \in Secrets
  BY SecretOfEntry
<1> QED
  BY <1>1 DEF ReadBy, SnapGrows

(* The plan tells it of the entries that have an outcome. *)
LEMMA OutcomeTells ==
    ASSUME NEW t \in Targets, NEW i \in Entries(t), NEW read,
           plan[t][<<i, 0>>] = Result(t, <<i, 0>>, read) \/
           Settled(plan[t][<<i, 0>>], Result(t, <<i, 0>>, read))
    PROVE  read[i] = Absent => plan[t][<<i, 0>>].reason = "vault"
BY DEF Result, Settled, Skip

(* A target that a step leaves alone keeps its plan, whatever others read.  *)
LEMMA PlanUntouched ==
    ASSUME NEW t \in Targets, PlanAt(t), SnapGrows,
           pc'[t] = pc[t], at'[t] = at[t], taken'[t] = taken[t],
           plan'[t] = plan[t], err'[t] = err[t]
    PROVE  PlanAt(t)'
<1>1. CASE pc[t] = "building"
  <2>1. HalfBuilt(t)
    BY <1>1 DEF PlanAt
  <2>2. \A i \in Entries(t) : i < at[t] => ReadBy(t)'[i] = ReadBy(t)[i]
    <3> SUFFICES ASSUME NEW i \in Entries(t), i < at[t]
                 PROVE  ReadBy(t)'[i] = ReadBy(t)[i]
      OBVIOUS
    <3>1. plan[t][<<i, 0>>] = Result(t, <<i, 0>>, ReadBy(t))
      BY <2>1, FieldSlot, SlotOf DEF HalfBuilt
    <3>2. plan[t][<<i, 0>>].reason = "vault" \/ ReadBy(t)[i] # Absent
      BY <3>1, OutcomeTells
    <3> QED
      BY <3>2, ReadStable
  <2>3. TakenBefore(t, at[t], ReadBy(t)') = TakenBefore(t, at[t], ReadBy(t))
    BY <2>1, <2>2, TakenBeforeSame DEF HalfBuilt
  <2>4. ASSUME NEW s \in Slots(t), s[1] < at[t]
        PROVE  Result(t, s, ReadBy(t)') = Result(t, s, ReadBy(t))
    <3>1. \A j \in Entries(t) : j <= s[1] => j < at[t]
      BY <2>1, <2>4, SlotParts DEF HalfBuilt, Entries
    <3> QED
      BY <2>2, <3>1, ResultSame
  <2>5. HalfBuilt(t)'
    BY <2>1, <2>3, <2>4 DEF HalfBuilt
  <2> QED
    BY <1>1, <2>5 DEF PlanAt, Planned
<1>2. CASE Planned(t)
  <2>1. WellBuilt(t)
    BY <1>2 DEF PlanAt
  <2>2. ASSUME NEW i \in Entries(t)  PROVE ReadBy(t)'[i] = ReadBy(t)[i]
    <3>1. Settled(plan[t][<<i, 0>>], Result(t, <<i, 0>>, ReadBy(t)))
      BY <2>1, FieldSlot, SlotOf DEF WellBuilt
    <3>2. plan[t][<<i, 0>>].reason = "vault" \/ ReadBy(t)[i] # Absent
      BY <3>1, OutcomeTells
    <3> QED
      BY <3>2, ReadStable
  <2>3. \A s \in Slots(t) : Result(t, s, ReadBy(t)') = Result(t, s, ReadBy(t))
    BY <2>2, ResultSame
  <2>4. WellBuilt(t)'
    BY <2>1, <2>3 DEF WellBuilt
  <2> QED
    BY <1>2, <2>4 DEF PlanAt, Planned
<1>3. CASE pc[t] # "building" /\ ~Planned(t)
  BY <1>3 DEF PlanAt, Planned, NotBuilt
<1> QED
  BY <1>1, <1>2, <1>3

(* With the claim the build begins: nothing is built, the explicit keys are *)
(* taken.                                                                   *)
LEMMA PlanClaim ==
    ASSUME TypeOK, NEW t \in Targets, PlanAt(t), Claim(t)
    PROVE  PlanAt(t)'
<1>1. /\ pc'[t] = "building" /\ taken'[t] = Reserved(t)
      /\ at'[t] = 1 /\ plan'[t] = NoPlan(t)
  BY DEF Claim, TypeOK, PlanAt, NotBuilt
<1>2. HalfBuilt(t)'
  <2>1. 1 \in 1..(Len(Specs[t]) + 1)
    BY ConfigAssumption
  <2>2. \A s \in Slots(t) : ~(s[1] < 1) /\ NoPlan(t)[s] = NoAction
    BY SlotParts DEF Entries, NoPlan
  <2> QED
    BY <1>1, <2>1, <2>2, TakenBeforeFirst DEF HalfBuilt
<1> QED
  BY <1>1, <1>2 DEF PlanAt, Planned

(* What Built puts into the slots of an entry whose secret was read.        *)
LEMMA BuiltResult ==
    ASSUME NEW t, NEW n, NEW p, NEW content, content # Absent,
           NEW read, read[n] = content, NEW s \in Slots(t)
    PROVE  Built(t, p, n, content, TakenBefore(t, n, read))[s] =
               IF s[1] = n THEN Result(t, s, read) ELSE p[s]
BY DEF Built, Result

(* A read gives its entry an outcome and leaves those before it theirs.     *)
LEMMA PlanRead ==
    ASSUME TypeOK, NEW t \in Targets, PlanAt(t), SnapGrows, ReadOk(t) \/ ReadErr(t)
    PROVE  PlanAt(t)'
<1> DEFINE n == at[t]
           new == ReadBy(t)'
<1>1. n \in Entries(t) /\ n \in Nat /\ <<n, 0>> \in Slots(t) /\ pc[t] = "building"
  BY ReadingAt DEF ReadOk, ReadErr, Reading
<1>2. HalfBuilt(t)
  BY <1>1 DEF PlanAt
<1>3. at'[t] = n + 1 /\ pc' = pc /\ at'[t] \in 1..(Len(Specs[t]) + 1)
  <2>1. at'[t] = n + 1 /\ pc' = pc
    BY DEF ReadOk, ReadErr, TypeOK
  <2> QED
    BY <1>1, <2>1, ConfigAssumption DEF Entries
<1>4. ASSUME NEW i \in Entries(t), i < n  PROVE new[i] = ReadBy(t)[i]
  <2>1. plan[t][<<i, 0>>] = Result(t, <<i, 0>>, ReadBy(t))
    BY <1>2, <1>4, FieldSlot, SlotOf DEF HalfBuilt
  <2>2. plan'[t][<<i, 0>>] = plan[t][<<i, 0>>]
    BY <1>4, <1>1, ReasonsKept
  <2> QED
    BY <2>1, <2>2, OutcomeTells, ReadStable
<1>5. TakenBefore(t, n, new) = TakenBefore(t, n, ReadBy(t))
  BY <1>1, <1>4, TakenBeforeSame
<1>6. ASSUME NEW s \in Slots(t), s[1] < n  PROVE Result(t, s, new) = Result(t, s, ReadBy(t))
  <2>1. \A j \in Entries(t) : j <= s[1] => j < n
    BY <1>1, <1>6, SlotParts DEF Entries
  <2> QED
    BY <1>4, <2>1, ResultSame
<1>7. /\ taken'[t] = taken[t] \union (IF new[n] # Absent THEN TakenBy(t, n, new[n]) ELSE {})
      /\ \A s \in Slots(t) :
            plan'[t][s] = IF s[1] = n THEN Result(t, s, new) ELSE plan[t][s]
  <2>1. CASE ReadOk(t)
    <3> DEFINE content == Answer(SecretAt(t))
    <3>1. /\ content # Absent
          /\ snap' = [snap EXCEPT ![SecretAt(t)] = content]
          /\ plan'[t][<<n, 0>>].reason # "vault"
      BY <2>1, ReadOkEffect
    <3>2. SecretAt(t) \in Secrets
      BY <2>1, ReadingAt DEF ReadOk
    <3>3. new[n] = content
      BY <1>1, <3>1, <3>2 DEF ReadBy, SecretAt, TypeOK
    <3>4. taken[t] = TakenBefore(t, n, new)
      BY <1>2, <1>5 DEF HalfBuilt
    <3>5. taken'[t] = taken[t] \union TakenBy(t, n, content)
      BY <2>1 DEF ReadOk, TypeOK
    <3>6. plan'[t] = Built(t, plan[t], n, content, taken[t])
      BY <2>1 DEF ReadOk, TypeOK
    <3>7. \A s \in Slots(t) :
              plan'[t][s] = IF s[1] = n THEN Result(t, s, new) ELSE plan[t][s]
      BY <1>1, <3>1, <3>3, <3>4, <3>6, BuiltResult
    <3>8. taken'[t] = taken[t] \union (IF new[n] # Absent THEN TakenBy(t, n, new[n]) ELSE {})
      BY <3>1, <3>3, <3>5
    <3> QED
      BY <3>7, <3>8
  <2>2. CASE ReadErr(t)
    <3>1. plan'[t][<<n, 0>>].reason = "vault" /\ UNCHANGED taken
      BY <2>2, ReadErrEffect DEF ReadErr
    <3>2. new[n] = Absent
      BY <1>1, <3>1 DEF ReadBy
    <3>3. plan'[t] = [plan[t] EXCEPT ![<<n, 0>>] = Skip("vault", TRUE)]
      BY <2>2 DEF ReadErr, Unread, TypeOK
    <3>4. plan[t] \in [Slots(t) -> Action]
      BY DEF TypeOK
    <3>5. \A s \in Slots(t) : s[1] = n => plan[t][s] = NoAction
      BY <1>1, <1>2 DEF HalfBuilt
    <3>6. ASSUME NEW s \in Slots(t)
          PROVE  plan'[t][s] = IF s[1] = n THEN Result(t, s, new) ELSE plan[t][s]
      <4>1. s = <<s[1], s[2]>>
        BY SlotParts
      <4>2. CASE s[1] = n /\ s[2] = 0
        BY <3>2, <3>3, <3>4, <4>1, <4>2 DEF Result
      <4>3. CASE s[1] = n /\ s[2] # 0
        BY <3>2, <3>3, <3>4, <3>5, <4>1, <4>3 DEF Result
      <4>4. CASE s[1] # n
        BY <3>3, <3>4, <4>1, <4>4
      <4> QED
        BY <4>2, <4>3, <4>4
    <3>7. taken'[t] = taken[t] \union (IF new[n] # Absent THEN TakenBy(t, n, new[n]) ELSE {})
      BY <3>1, <3>2
    <3> QED
      BY <3>6, <3>7
  <2> QED
    BY <2>1, <2>2
<1>8. HalfBuilt(t)'
  <2>1. taken'[t] = TakenBefore(t, n + 1, new)
    BY <1>1, <1>2, <1>5, <1>7, TakenBeforeNext DEF HalfBuilt
  <2>2. ASSUME NEW s \in Slots(t)
        PROVE  plan'[t][s] = IF s[1] < n + 1 THEN Result(t, s, new) ELSE NoAction
    <3>1. s[1] \in Nat
      BY SlotParts
    <3>2. CASE s[1] = n
      BY <1>1, <1>7, <3>2
    <3>3. CASE s[1] < n
      BY <1>1, <1>2, <1>6, <1>7, <3>1, <3>3 DEF HalfBuilt
    <3>4. CASE s[1] > n
      BY <1>1, <1>2, <1>7, <3>1, <3>4 DEF HalfBuilt
    <3> QED
      BY <1>1, <3>1, <3>2, <3>3, <3>4
  <2> QED
    BY <1>3, <2>1, <2>2 DEF HalfBuilt
<1> QED
  BY <1>1, <1>3, <1>8 DEF PlanAt, Planned

(* Within a step that answers no read and changes no outcome, the entries   *)
(* have read what they had.                                                 *)
LEMMA ReadByKept ==
    ASSUME NEW t \in Targets, UNCHANGED snap,
           \A i \in Entries(t) :
              plan'[t][<<i, 0>>].reason = "vault" <=> plan[t][<<i, 0>>].reason = "vault"
    PROVE  ReadBy(t)' = ReadBy(t)
BY DEF ReadBy

(* The comparison with GitLab settles what the build wanted. *)
LEMMA PlanLists ==
    ASSUME TypeOK, NEW t \in Targets, PlanAt(t), Lists(t)
    PROVE  PlanAt(t)'
<1>1. PICK observed : Observes(t, observed)
  BY DEF Lists, ListOk, ListMissing
<1>2. Listing(t) /\ HalfBuilt(t)
  BY <1>1 DEF Observes, Listing, PlanAt
<1>3. \A i \in Entries(t) : i < at[t]
  BY <1>2, ConfigAssumption DEF HalfBuilt, Listing, Entries
<1>4. plan[t] \in [Slots(t) -> Action] /\ plan'[t] = Diff(plan[t], observed)
  BY <1>1 DEF Observes, TypeOK
<1>5. \A s \in Slots(t) : plan'[t][s] = Compared(plan[t][s], observed)
  BY <1>4 DEF Diff
<1>6. \A s \in Slots(t) : plan[t][s] = Result(t, s, ReadBy(t))
  BY <1>2, <1>3, SlotParts DEF HalfBuilt
<1>7. \A s \in Slots(t) : plan'[t][s].reason = plan[t][s].reason
  BY <1>4, <1>5 DEF Compared, Action
<1>8. ReadBy(t)' = ReadBy(t)
  <2>1. UNCHANGED snap
    BY <1>1 DEF Observes, shared
  <2> QED
    BY <1>7, <2>1, FieldSlot, SlotOf, ReadByKept
<1>9. ASSUME NEW s \in Slots(t)  PROVE Settled(Compared(plan[t][s], observed), plan[t][s])
  <2>1. plan[t][s] \in Action
    BY <1>4
  <2> QED
    BY <2>1 DEF Settled, Compared, Action
<1>10. WellBuilt(t)'
  BY <1>5, <1>6, <1>8, <1>9 DEF WellBuilt
<1>11. pc'[t] = "applying"
  BY <1>1 DEF Observes, TypeOK
<1> QED
  BY <1>10, <1>11 DEF PlanAt, Planned

(* What the build returns for a slot is settled only by the comparison. *)
LEMMA ResultOps ==
    ASSUME NEW t, NEW s, NEW read
    PROVE  Result(t, s, read).op \in {"want", "skip", "none"}
BY DEF Result, Outcome, ExplicitOutcome, FieldOutcome, Add, NoAction, Skip, Want

(* A write that fails is noted in its action, and changes nothing else.     *)
LEMMA FailedEffect ==
    ASSUME TypeOK, NEW t \in Targets, NEW s \in todo[t], Failed(t, s)
    PROVE  /\ s \in Slots(t)
           /\ \A r \in Slots(t) : /\ plan'[t][r].op = plan[t][r].op
                                  /\ plan'[t][r].var = plan[t][r].var
                                  /\ plan'[t][r].err = (plan[t][r].err \/ r = s)
           /\ \A r \in Slots(t) : r # s => plan'[t][r] = plan[t][r]
           /\ \A r \in Slots(t) : plan'[t][r].reason = "vault" <=> plan[t][r].reason = "vault"
           /\ \A u \in Targets \ {t} : plan'[u] = plan[u] /\ todo'[u] = todo[u]
           /\ todo'[t] = todo[t] \ {s}
<1>1. s \in Slots(t) /\ plan[t][s] \in Action /\ plan[t][s].op \in {"create", "update"}
  BY RequestType
<1>2. plan[t] \in [Slots(t) -> Action] /\ DOMAIN plan = Targets /\ DOMAIN todo = Targets
  BY DEF TypeOK
<1>3. plan' = [plan EXCEPT ![t] = [plan[t] EXCEPT
                  ![s] = [plan[t][s] EXCEPT !.err = TRUE, !.reason = "apply"]]]
  BY <1>1, <1>2 DEF Failed
<1>4. /\ plan'[t][s] = [plan[t][s] EXCEPT !.err = TRUE, !.reason = "apply"]
      /\ \A r \in Slots(t) : r # s => plan'[t][r] = plan[t][r]
      /\ \A u \in Targets \ {t} : plan'[u] = plan[u]
  BY <1>1, <1>2, <1>3
<1>5. /\ plan'[t][s].op = plan[t][s].op /\ plan'[t][s].var = plan[t][s].var
      /\ plan'[t][s].err = TRUE
      /\ plan[t][s].reason # "vault" /\ plan'[t][s].reason # "vault"
  BY <1>1, <1>4 DEF Action, WithVariable
<1>6. todo'[t] = todo[t] \ {s} /\ \A u \in Targets \ {t} : todo'[u] = todo[u]
  BY <1>2 DEF Failed
<1>7. \A r \in Slots(t) : plan[t][r].err \in BOOLEAN
  <2>1. \A a \in Action : a.err \in BOOLEAN
    BY DEF Action
  <2> QED
    BY <1>2, <2>1
<1>8. \A r \in Slots(t) : plan'[t][r].err = (plan[t][r].err \/ r = s)
  BY <1>4, <1>5, <1>7
<1> QED
  BY <1>1, <1>4, <1>5, <1>6, <1>8

(* Applying the plan leaves the plan what it is. *)
LEMMA PlanApply ==
    ASSUME TypeOK, NEW t \in Targets, PlanAt(t), Apply(t)
    PROVE  PlanAt(t)'
<1>1. PICK s \in Slots(t) : ApplyOk(t, s) \/ ApplyErr(t, s) \/ ApplyLost(t, s)
  BY DEF Apply
<1>2. s \in todo[t] /\ pc[t] = "applying" /\ pc' = pc /\ UNCHANGED snap
  BY <1>1 DEF ApplyOk, ApplyErr, ApplyLost, IsNext, shared
<1>3. CASE ApplyOk(t, s)
  BY <1>2, <1>3, PlanUntouched DEF ApplyOk, SnapGrows
<1>4. CASE ApplyErr(t, s) \/ ApplyLost(t, s)
  <2>1. Failed(t, s)
    BY <1>4 DEF ApplyErr, ApplyLost
  <2>2. ReadBy(t)' = ReadBy(t)
    BY <1>2, <2>1, FailedEffect, FieldSlot, SlotOf, ReadByKept
  <2>3. WellBuilt(t)
    BY <1>2 DEF PlanAt, Planned
  <2>4. plan[t][s].op \in {"create", "update"}
    BY <1>2, RequestType
  <2>5. ASSUME NEW r \in Slots(t)  PROVE Settled(plan'[t][r], Result(t, r, ReadBy(t)))
    <3>1. Settled(plan[t][r], Result(t, r, ReadBy(t)))
      BY <2>3 DEF WellBuilt
    <3>2. CASE r # s
      <4>1. plan'[t][r] = plan[t][r]
        BY <1>2, <2>1, <3>2, FailedEffect
      <4> QED
        BY <3>1, <4>1
    <3>3. CASE r = s
      <4>1. Result(t, r, ReadBy(t)).op = "want"
        BY <2>4, <3>1, <3>3, ResultOps DEF Settled
      <4>2. plan'[t][r].op = plan[t][r].op /\ plan'[t][r].var = plan[t][r].var
        BY <1>2, <2>1, FailedEffect
      <4> QED
        BY <3>1, <4>1, <4>2 DEF Settled
    <3> QED
      BY <3>2, <3>3
  <2>6. WellBuilt(t)'
    BY <2>2, <2>5 DEF WellBuilt
  <2> QED
    BY <1>2, <2>6 DEF PlanAt, Planned
<1> QED
  BY <1>1, <1>3, <1>4

(* The other steps of a target: on its way to the claim, giving up, and     *)
(* returning.                                                               *)
LEMMA PlanOther ==
    ASSUME TypeOK, ClaimsHold, NEW t \in Targets, PlanAt(t),
           \/ Acquire(t) \/ ResolveKnown(t) \/ ResolveOk(t) \/ ResolveErr(t)
           \/ Refuse(t) \/ ListErr(t) \/ Return(t)
    PROVE  PlanAt(t)'
<1>1. CASE Acquire(t) \/ ResolveKnown(t) \/ ResolveOk(t)
  <2>1. /\ pc[t] \in {"waiting", "resolving"}
        /\ pc'[t] \in {"resolving", "claiming"}
        /\ UNCHANGED <<at, plan>>
    BY <1>1 DEF Acquire, ResolveKnown, ResolveOk, MustLookUp, TypeOK, local
  <2> QED
    BY <2>1 DEF PlanAt, NotBuilt, Planned
<1>2. CASE ResolveErr(t) \/ Refuse(t) \/ ListErr(t)
  <2>1. pc'[t] = "returning" /\ err'[t] # "none"
    BY <1>2 DEF ResolveErr, Refuse, ListErr, GiveUp, TypeOK
  <2> QED
    BY <2>1 DEF PlanAt, Planned
<1>3. CASE Return(t)
  <2>1. /\ pc'[t] = "done" /\ UNCHANGED <<at, plan, taken, err, snap>>
        /\ pc[t] \in {"returning", "applying"}
    BY <1>3 DEF Return, TypeOK, local, shared
  <2>2. pc[t] = "applying" => WellBuilt(t)
    BY DEF PlanAt, Planned
  <2>3. pc[t] = "returning" => err[t] # "none"
    BY DEF PlanAt
  <2>4. ReadBy(t)' = ReadBy(t)
    BY <2>1, ReadByKept
  <2> QED
    BY <2>1, <2>2, <2>3, <2>4 DEF PlanAt, Planned, WellBuilt
<1> QED
  BY <1>1, <1>2, <1>3

(* No step but the start of a pass takes an answer of the source back. *)
LEMMA SnapsGrow ==
    ASSUME TypeOK, [Next]_vars
    PROVE  NewPass \/ SnapGrows
<1>1. ASSUME NEW t \in Targets, Step(t)  PROVE SnapGrows
  <2>1. CASE ReadOk(t)
    BY <2>1 DEF ReadOk, Answer, SnapGrows, TypeOK
  <2>2. CASE ~ReadOk(t)
    BY <1>1, <2>2 DEF Step, Acquire, ResolveKnown, ResolveOk, ResolveErr, Claim, Refuse, ReadErr,
          Lists, ListOk, ListMissing, Observes, ListErr, Apply, ApplyOk, ApplyErr, ApplyLost,
          Return, SnapGrows, shared
  <2> QED
    BY <2>1, <2>2
<1>2. CASE Environment
  BY <1>2 DEF Environment, PassTimeout, Rebuild, LateApply, LateDrop, Meddle, VaultWrite, Rename,
              SnapGrows, shared
<1>3. CASE UNCHANGED vars
  BY <1>3 DEF vars, shared, SnapGrows
<1> QED
  BY <1>1, <1>2, <1>3 DEF Next

(* A target at work keeps a new pass from starting. *)
LEMMA NoNewPass ==
    ASSUME TypeOK, NEW t \in Targets, Step(t) \/ Environment
    PROVE  ~NewPass
<1>1. NewPass => pc[t] = "done" /\ pc'[t] = "waiting"
  BY DEF NewPass
<1>2. CASE Step(t)
  <2>1. pc'[t] # "waiting"
    BY <1>2 DEF Step, Acquire, ResolveKnown, ResolveOk, ResolveErr, MustLookUp, Claim, Refuse,
         ReadOk, ReadErr, Reading, Lists, ListOk, ListMissing, Observes, ListErr, GiveUp,
         Apply, ApplyOk, ApplyErr, ApplyLost, IsNext, Return, TypeOK
  <2> QED
    BY <1>1, <2>1
<1>3. CASE Environment
  <2>1. UNCHANGED pc
    BY <1>3 DEF Environment, PassTimeout, Rebuild, LateApply, LateDrop, Meddle, VaultWrite, Rename
  <2> QED
    BY <1>1, <2>1
<1> QED
  BY <1>2, <1>3

(* A step of one target is none of another. *)
LEMMA OthersUntouched ==
    ASSUME TypeOK, NEW t \in Targets, Step(t), NEW u \in Targets \ {t}
    PROVE  /\ pc'[u] = pc[u] /\ at'[u] = at[u] /\ id'[u] = id[u] /\ taken'[u] = taken[u]
           /\ plan'[u] = plan[u] /\ todo'[u] = todo[u] /\ err'[u] = err[u]
<1> USE DEF TypeOK, local
<1>1. CASE Acquire(t) \/ ResolveKnown(t) \/ ResolveOk(t) \/ ResolveErr(t)
  BY <1>1 DEF Acquire, ResolveKnown, ResolveOk, ResolveErr, MustLookUp, GiveUp
<1>2. CASE Claim(t) \/ Refuse(t) \/ ReadOk(t) \/ ReadErr(t)
  BY <1>2 DEF Claim, Refuse, ReadOk, ReadErr, GiveUp
<1>3. CASE Lists(t) \/ ListErr(t)
  BY <1>3 DEF Lists, ListOk, ListMissing, Observes, ListErr, GiveUp
<1>4. CASE Apply(t)
  BY <1>4 DEF Apply, ApplyOk, ApplyErr, ApplyLost, Failed
<1>5. CASE Return(t)
  BY <1>5 DEF Return
<1> QED
  BY <1>1, <1>2, <1>3, <1>4, <1>5 DEF Step

(* The environment touches no target. *)
LEMMA EnvironmentApart ==
    ASSUME Environment \/ UNCHANGED vars
    PROVE  UNCHANGED <<pc, local, sem, claimed, snap, dryRun>>
BY DEF Environment, PassTimeout, Rebuild, LateApply, LateDrop, Meddle, VaultWrite, Rename,
       vars, shared, call

LEMMA PlansStep ==
    ASSUME TypeOK, ClaimsHold, Plans, [Next]_vars
    PROVE  Plans'
<1>1. ASSUME NEW t \in Targets, Step(t)  PROVE Plans'
  <2>1. SnapGrows
    BY <1>1, NoNewPass, SnapsGrow
  <2>2. ASSUME NEW u \in Targets \ {t}  PROVE PlanAt(u)'
    BY <1>1, <2>1, <2>2, OthersUntouched, PlanUntouched DEF Plans
  <2>3. PlanAt(t)
    BY DEF Plans
  <2>4. PlanAt(t)'
    BY <1>1, <2>1, <2>3, PlanClaim, PlanRead, PlanLists, PlanApply, PlanOther DEF Step
  <2> QED
    BY <2>2, <2>4 DEF Plans
<1>2. CASE NewPass
  BY <1>2 DEF NewPass, Plans, PlanAt, NotBuilt, Planned
<1>3. CASE Environment \/ UNCHANGED vars
  BY <1>3, EnvironmentApart, PlanUntouched DEF Plans, SnapGrows, local
<1> QED
  BY <1>1, <1>2, <1>3 DEF Next

(* In every reachable state the build of each target has done what a        *)
(* function of its reads so far says, neither more nor less, however the    *)
(* builds of the targets interleave (desired.go:53-160).                    *)
THEOREM PlansFollow == Spec => []Plans
<1>1. Init => Plans
  BY DEF Init, Plans, PlanAt, NotBuilt, Planned
<1>2. TypeOK /\ ClaimsHold /\ Plans /\ [Next]_vars => Plans'
  BY PlansStep
<1> QED
  BY <1>1, <1>2, Typing, Claims, PTL DEF Spec

-----------------------------------------------------------------------------
(* What follows for a target whose plan is made. *)

(* It wants the variables of the slots that own an identity, and no others. *)
LEMMA WantsOwned ==
    ASSUME TypeOK, NEW t \in Targets, PlanAt(t), Planned(t)
    PROVE  /\ Wants(t) = {s \in Owners(t, ReadBy(t)) :
                             /\ ReadBy(t)[s[1]] # Absent
                             /\ Acceptable(t, s, ValueOf(t, s, ReadBy(t)))}
           /\ \A s \in Wants(t) : plan[t][s].var = VariableAt(t, s, ReadBy(t))
<1> DEFINE read == ReadBy(t)
<1>1. read \in [Entries(t) -> Read]
  BY ReadByType
<1>2. \A s \in Slots(t) : Settled(plan[t][s], Result(t, s, read))
  BY DEF PlanAt, WellBuilt
<1> HIDE DEF read
<1>3. ASSUME NEW s \in Slots(t)
      PROVE  /\ s \in Wants(t) <=> Result(t, s, read).op = "want"
             /\ s \in Wants(t) => plan[t][s].var = Result(t, s, read).var
  <2>1. Result(t, s, read).op \in {"want", "skip", "none"}
    BY ResultOps
  <2> QED
    BY <1>2, <2>1 DEF Settled, Wants
<1>4. Wants(t) \subseteq Slots(t) /\ Owners(t, read) \subseteq Slots(t)
  BY DEF Wants, Owners, Asking
<1>5. Wants(t) = {s \in Owners(t, read) :
                     read[s[1]] # Absent /\ Acceptable(t, s, ValueOf(t, s, read))}
  BY <1>1, <1>3, <1>4, ResultWants
<1>6. \A s \in Wants(t) : plan[t][s].var = VariableAt(t, s, read)
  BY <1>1, <1>3, <1>4, ResultWants
<1> QED
  BY <1>5, <1>6 DEF read

(* And it wants each of them once. *)
LEMMA WantsApart ==
    ASSUME TypeOK, NEW t \in Targets, PlanAt(t), Planned(t),
           NEW r \in Wants(t), NEW s \in Wants(t), plan[t][r].var.id = plan[t][s].var.id
    PROVE  r = s
<1>1. r \in Owners(t, ReadBy(t)) /\ s \in Owners(t, ReadBy(t))
  BY WantsOwned
<1>2. \A w : VariableAt(t, w, ReadBy(t)).id = IdentityFor(t, w[1], w[2])
  BY DEF VariableAt
<1>3. \A w \in Wants(t) : plan[t][w].var.id = IdentityFor(t, w[1], w[2])
  BY <1>2, WantsOwned
<1> QED
  BY <1>1, <1>3, OwnersApart

(* Every target plans exactly the variables of the order-free reference,    *)
(* each in one slot, for any configuration that validation accepts and any  *)
(* content of the secrets: no explicit key is shadowed, of the derived keys *)
(* that collide one survives, and all values are of the pass's one snapshot *)
(* (desired.go:53-160, reconciler.go:36-38).                                *)
THEOREM ReferenceMet == Spec => []BuildMeetsReference
<1>1. ASSUME TypeOK, Plans  PROVE BuildMeetsReference
  <2> SUFFICES ASSUME NEW t \in Targets, Planned(t)
               PROVE  /\ {plan[t][s].var : s \in Wants(t)} = DesiredOf(t, ReadBy(t))
                      /\ \A r, s \in Wants(t) :
                            plan[t][r].var.id = plan[t][s].var.id => r = s
    BY DEF BuildMeetsReference
  <2>1. PlanAt(t)
    BY <1>1 DEF Plans
  <2>2. {plan[t][s].var : s \in Wants(t)} = {VariableAt(t, s, ReadBy(t)) : s \in Wants(t)}
    BY <1>1, <2>1, WantsOwned
  <2>3. DesiredOf(t, ReadBy(t)) = {VariableAt(t, s, ReadBy(t)) : s \in Wants(t)}
    BY <1>1, <2>1, WantsOwned DEF DesiredOf, VariableAt
  <2> QED
    BY <1>1, <2>1, <2>2, <2>3, WantsApart
<1> QED
  BY <1>1, Typing, PlansFollow, PTL

(* What a slot comes to is decided by what its entry read. *)
LEMMA ResultDue ==
    ASSUME NEW t \in Targets, NEW read \in [Entries(t) -> Read], NEW i \in Entries(t),
           NEW f \in 0..NumFields
    PROVE  LET due == IF Specs[t][i].explicit \/ read[i] = Absent THEN {0}
                      ELSE {g \in Fields : read[i][g] # Absent}
               outcome == Result(t, <<i, f>>, read)
           IN  /\ outcome.op # "none" <=> f \in due
               /\ outcome.op = "skip" => outcome.err \/ (outcome.reason = "masked" /\ SkipWarn)
<1> DEFINE outcome == Result(t, <<i, f>>, read)
           content == read[i]
           due == IF Specs[t][i].explicit \/ content = Absent THEN {0}
                  ELSE {g \in Fields : content[g] # Absent}
           held == TakenBefore(t, i, read)
           Excused(a) == a.op = "skip" => a.err \/ (a.reason = "masked" /\ SkipWarn)
<1>1. 0 \notin Fields /\ (f # 0 => f \in Fields)
  BY ConfigAssumption DEF Fields
<1>2. /\ \A value : Add(t, i, f, value).op # "none" /\ Excused(Add(t, i, f, value))
      /\ \A reason : Skip(reason, TRUE).op # "none" /\ Excused(Skip(reason, TRUE))
      /\ NoAction.op = "none" /\ Excused(NoAction)
  BY ValueAssumption DEF Add, Skip, Want, NoAction
<1>3. content = Absent \/ Specs[t][i].explicit => (f \in due <=> f = 0)
  OBVIOUS
<1>4. content # Absent /\ ~Specs[t][i].explicit => (f \in due <=> f # 0 /\ content[f] # Absent)
  BY <1>1
<1>5. outcome = IF content # Absent THEN Outcome(t, i, f, content, held)
                ELSE IF f = 0 THEN Skip("vault", TRUE) ELSE NoAction
  BY DEF Result
<1> HIDE DEF outcome, content, due, held, Excused
<1>6. (outcome.op # "none" <=> f \in due) /\ Excused(outcome)
  <2>1. CASE content = Absent
    BY <1>2, <1>3, <1>5, <2>1
  <2>2. CASE content # Absent /\ Specs[t][i].explicit
    <3>1. outcome = IF f = 0 THEN ExplicitOutcome(t, i, content) ELSE NoAction
      BY <1>5, <2>2 DEF Outcome
    <3>2. CASE f = 0
      <4>1. ExplicitOutcome(t, i, content).op # "none" /\ Excused(ExplicitOutcome(t, i, content))
        BY <1>2, <3>2 DEF ExplicitOutcome
      <4> QED
        BY <1>3, <2>2, <3>1, <3>2, <4>1
    <3>3. CASE f # 0
      BY <1>2, <1>3, <2>2, <3>1, <3>3
    <3> QED
      BY <3>2, <3>3
  <2>3. CASE content # Absent /\ ~Specs[t][i].explicit
    <3>1. outcome = IF f = 0 THEN NoAction ELSE FieldOutcome(t, i, f, content, held)
      BY <1>5, <2>3 DEF Outcome
    <3>2. CASE f = 0
      BY <1>2, <1>4, <2>3, <3>1, <3>2
    <3>3. CASE f # 0
      BY <1>2, <1>4, <2>3, <3>1, <3>3 DEF FieldOutcome
    <3> QED
      BY <3>2, <3>3
  <2> QED
    BY <2>1, <2>2, <2>3
<1> QED
  BY <1>6 DEF outcome, content, due, Excused

(* Nothing a target was configured with disappears from its report: every   *)
(* entry and every field has its outcome, and what is not written is a      *)
(* failure unless skip-warn excuses it (desired.go:66-91, 103-118).         *)
THEOREM EverythingReported == Spec => []NothingDropped
<1>1. ASSUME TypeOK, Plans  PROVE NothingDropped
  <2> SUFFICES ASSUME NEW t \in Targets, Planned(t), NEW i \in Entries(t)
               PROVE  LET content == ReadBy(t)[i]
                          due == IF Specs[t][i].explicit \/ content = Absent THEN {0}
                                 ELSE {f \in Fields : content[f] # Absent}
                      IN  /\ \A f \in 0..NumFields : plan[t][<<i, f>>].op # "none" <=> f \in due
                          /\ \A f \in due :
                                LET a == plan[t][<<i, f>>]
                                IN  a.op = "skip" => a.err \/ (a.reason = "masked" /\ SkipWarn)
    BY DEF NothingDropped
  <2> DEFINE read == ReadBy(t)
             due == IF Specs[t][i].explicit \/ read[i] = Absent THEN {0}
                    ELSE {f \in Fields : read[i][f] # Absent}
  <2>1. read \in [Entries(t) -> Read]
    BY <1>1, ReadByType
  <2>2. \A s \in Slots(t) : Settled(plan[t][s], Result(t, s, read))
    BY <1>1 DEF Plans, PlanAt, WellBuilt
  <2> HIDE DEF read
  <2>3. \A f \in due : f \in 0..NumFields
    BY FieldSlot
  <2>4. ASSUME NEW f \in 0..NumFields
        PROVE  LET a == plan[t][<<i, f>>]
               IN  /\ a.op # "none" <=> f \in due
                   /\ a.op = "skip" => a.err \/ (a.reason = "masked" /\ SkipWarn)
    <3> DEFINE outcome == Result(t, <<i, f>>, read)
    <3>1. Settled(plan[t][<<i, f>>], outcome)
      BY <2>2, SlotOf
    <3>2. outcome.op # "none" <=> f \in due
      BY <2>1, ResultDue
    <3>3. outcome.op = "skip" => outcome.err \/ (outcome.reason = "masked" /\ SkipWarn)
      BY <2>1, ResultDue
    <3> HIDE DEF outcome, due
    <3> QED
      BY <3>1, <3>2, <3>3 DEF Settled
  <2> QED
    BY <2>3, <2>4 DEF read
<1> QED
  BY <1>1, Typing, PlansFollow, PTL

-----------------------------------------------------------------------------
(* What the steps do to GitLab. *)

(* A request changes one variable. *)
LEMMA WrittenAt ==
    ASSUME TypeOK, NEW r \in Request, NEW o \in Objects, NEW i \in Identities
    PROVE  Written(r)[o][i] = IF o = r.object /\ i = r.var.id THEN r.var.body ELSE store[o][i]
<1>1. /\ store \in [Objects -> [Identities -> Bodies \union {Absent}]]
      /\ r.object \in Objects /\ r.var.id \in Identities
  BY DEF TypeOK, Request, Variables
<1> QED
  BY <1>1 DEF Written

(* Slot r of target u is written in this step. *)
Applies(u, r) ==
    /\ ApplyOk(u, r)
    /\ store'[Object(u)][plan[u][r].var.id] = plan[u][r].var.body

(* What a write changes: the variable of its slot, on the target's object. *)
LEMMA WriteOfSlot ==
    ASSUME TypeOK, NEW u \in Targets, NEW r \in Slots(u), ApplyOk(u, r),
           NEW o \in Objects, NEW i \in Identities, store'[o][i] # store[o][i]
    PROVE  /\ r \in todo[u]
           /\ o = Object(u) /\ i = plan[u][r].var.id
           /\ store'[o][i] = plan[u][r].var.body
<1>1. r \in todo[u]
  BY DEF ApplyOk, IsNext
<1>2. RequestOf(u, r) \in Request
  BY <1>1, RequestType
<1>3. store' = Written(RequestOf(u, r))
  BY DEF ApplyOk
<1>4. /\ RequestOf(u, r).object = Object(u)
      /\ RequestOf(u, r).var = plan[u][r].var
  BY DEF RequestOf
<1> QED
  BY <1>1, <1>2, <1>3, <1>4, WrittenAt

(* Nothing of a target reaches GitLab but the requests of its loop. *)
LEMMA WritesInLoop ==
    ASSUME NEW t \in Targets, Step(t), ~Apply(t)
    PROVE  UNCHANGED <<store, late>>
BY DEF Step, Acquire, ResolveKnown, ResolveOk, ResolveErr, Claim, Refuse, ReadOk, ReadErr,
       Lists, ListOk, ListMissing, Observes, ListErr, Return, remote

(* A variable changes in GitLab by the write of a target, or by the hands   *)
(* of others, who leave a mark that lasts until the pass is over.           *)
LEMMA StoreStep ==
    ASSUME TypeOK, [Next]_vars, NEW o \in Objects, NEW i \in Identities,
           store'[o][i] # store[o][i]
    PROVE  \/ i \in touched'[o]
           \/ \E u \in Targets : \E r \in todo[u] :
                 Applies(u, r) /\ Object(u) = o /\ plan[u][r].var.id = i
<1>1. ASSUME NEW u \in Targets, NEW r \in Slots(u), ApplyOk(u, r)
      PROVE  \E v \in Targets : \E s \in todo[v] :
                 Applies(v, s) /\ Object(v) = o /\ plan[v][s].var.id = i
  BY <1>1, WriteOfSlot DEF Applies
<1>2. ASSUME NEW t \in Targets, Step(t), ~Apply(t)  PROVE UNCHANGED store
  BY <1>2, WritesInLoop
<1>3. ASSUME NEW t \in Targets, NEW s \in Slots(t), ApplyErr(t, s) \/ ApplyLost(t, s)
      PROVE  UNCHANGED store
  BY <1>3 DEF ApplyErr, ApplyLost, remote
<1>4. CASE NewPass \/ UNCHANGED vars
  BY <1>4 DEF NewPass, vars, remote
<1>5. CASE Environment
  <2>1. ASSUME NEW r \in late, LateApply(r)  PROVE i \in touched'[o]
    <3>1. r \in Request
      BY DEF TypeOK
    <3>2. store' = Written(r) /\ Touch(r.object, r.var.id)
      BY <2>1 DEF LateApply
    <3>3. o = r.object /\ i = r.var.id
      BY <3>1, <3>2, WrittenAt
    <3> QED
      BY <3>2, <3>3 DEF Touch, TypeOK
  <2>2. ASSUME NEW e \in Edits, Meddle(e[1], e[2], e[3])  PROVE i \in touched'[o]
    <3>1. o = e[1] /\ i = e[2]
      BY <2>2 DEF Meddle, TypeOK
    <3> QED
      BY <2>2, <3>1 DEF Meddle, Touch, TypeOK
  <2>3. (PassTimeout \/ Rebuild \/ (\E r \in late : LateDrop(r))
         \/ (\E r \in Rotations : VaultWrite(r[1], r[2]))
         \/ (\E m \in Moves : Rename(m[1], m[2]))) => UNCHANGED store
    BY DEF PassTimeout, Rebuild, LateDrop, VaultWrite, Rename, remote
  <2> QED
    BY <1>5, <2>1, <2>2, <2>3 DEF Environment
<1> QED
  BY <1>1, <1>2, <1>3, <1>4, <1>5 DEF Next, Apply

(* The marks of others stay until the next pass. *)
LEMMA TouchedGrows ==
    ASSUME TypeOK, [Next]_vars, ~NewPass, NEW o \in Objects
    PROVE  touched[o] \subseteq touched'[o] /\ slipped[o] \subseteq slipped'[o]
<1>1. ASSUME NEW t \in Targets, Step(t)
      PROVE  touched[o] \subseteq touched'[o] /\ slipped[o] \subseteq slipped'[o]
  <2>1. CASE Lists(t)
    <3>1. UNCHANGED touched
      BY <2>1 DEF Lists, ListOk, ListMissing, Observes
    <3>2. \/ UNCHANGED slipped
          \/ \E i \in Identities :
                slipped' = [slipped EXCEPT ![Object(t)] = slipped[Object(t)] \union {i}]
      BY <2>1 DEF Lists, ListOk, ListMissing
    <3>3. slipped \in [Objects -> SUBSET Identities]
      BY DEF TypeOK
    <3> QED
      BY <3>1, <3>2, <3>3
  <2>2. CASE ~Lists(t)
    <3>1. UNCHANGED history
      BY <1>1, <2>2 DEF Step, Acquire, ResolveKnown, ResolveOk, ResolveErr, Claim, Refuse, ReadOk,
            ReadErr, ListErr, Apply, ApplyOk, ApplyErr, ApplyLost, Return, remote
    <3> QED
      BY <3>1 DEF history
  <2> QED
    BY <2>1, <2>2
<1>2. CASE Environment
  <2>1. ASSUME NEW p \in Objects, NEW i, Touch(p, i)  PROVE touched[o] \subseteq touched'[o]
    BY <2>1 DEF Touch, TypeOK
  <2>2. ASSUME NEW r \in late, LateApply(r)
        PROVE  touched[o] \subseteq touched'[o] /\ UNCHANGED slipped
    <3>1. r.object \in Objects
      BY DEF TypeOK, Request
    <3>2. Touch(r.object, r.var.id) \/ UNCHANGED touched
      BY <2>2 DEF LateApply
    <3>3. UNCHANGED slipped
      BY <2>2 DEF LateApply
    <3> QED
      BY <2>1, <3>1, <3>2, <3>3
  <2>3. ASSUME NEW e \in Edits, Meddle(e[1], e[2], e[3])
        PROVE  touched[o] \subseteq touched'[o] /\ UNCHANGED slipped
    <3>1. e[1] \in Objects
      BY EnvironmentAssumption
    <3> QED
      BY <2>1, <2>3, <3>1 DEF Meddle
  <2>4. (PassTimeout \/ Rebuild \/ (\E r \in late : LateDrop(r))
         \/ (\E r \in Rotations : VaultWrite(r[1], r[2]))
         \/ (\E m \in Moves : Rename(m[1], m[2]))) => UNCHANGED history
    BY DEF PassTimeout, Rebuild, LateDrop, VaultWrite, Rename, remote
  <2> QED
    BY <1>2, <2>2, <2>3, <2>4 DEF Environment, history
<1>3. CASE UNCHANGED vars
  BY <1>3 DEF vars, remote, history
<1> QED
  BY <1>1, <1>2, <1>3 DEF Next

(* A target that has its plan is past the claim and wants typed variables.  *)
LEMMA WantsTyped ==
    ASSUME TypeOK, ClaimsHold, NEW t \in Targets, Planned(t)
    PROVE  /\ PastClaim(t) /\ Object(t) \in Objects
           /\ \A s \in Wants(t) : /\ s \in Slots(t)
                                  /\ plan[t][s] \in Action
                                  /\ plan[t][s].var.id \in Identities
                                  /\ plan[t][s].var.body \in Bodies
<1>1. PastClaim(t)
  BY DEF Planned, PastClaim
<1>2. Object(t) \in Objects
  BY ConfigAssumption DEF TypeOK, Object, Objects
<1>3. ASSUME NEW s \in Wants(t)
      PROVE  s \in Slots(t) /\ plan[t][s] \in Action /\ plan[t][s].var \in Variables
  <2>1. s \in Slots(t) /\ plan[t][s].op \in {"create", "update", "noop"}
    BY DEF Wants
  <2>2. plan[t][s] \in Action
    BY <2>1 DEF TypeOK
  <2> QED
    BY <2>1, <2>2 DEF Action
<1> QED
  BY <1>1, <1>2, <1>3 DEF Variables

(* Nobody but others writes what a target wants, save the target itself     *)
(* when the turn of that very slot comes: other targets have other objects, *)
(* and the target's other slots have other identities.                      *)
LEMMA PlaceKept ==
    ASSUME TypeOK, ClaimsHold, Plans, PendingOnlyApplying, [Next]_vars,
           NEW t \in Targets, Planned(t), NEW s \in Wants(t),
           ~ApplyOk(t, s)
    PROVE  LET o == Object(t)
               i == plan[t][s].var.id
           IN  i \in touched'[o] \/ store'[o][i] = store[o][i]
<1> DEFINE o == Object(t)
           i == plan[t][s].var.id
<1>1. PastClaim(t) /\ o \in Objects /\ i \in Identities
  BY WantsTyped
<1> SUFFICES ASSUME i \notin touched'[o], store'[o][i] # store[o][i]
             PROVE  FALSE
  OBVIOUS
<1>2. PICK u \in Targets : \E r \in todo[u] :
          Applies(u, r) /\ Object(u) = o /\ plan[u][r].var.id = i
  BY <1>1, StoreStep
<1>3. PICK r \in todo[u] : ApplyOk(u, r) /\ Object(u) = o /\ plan[u][r].var.id = i
  BY <1>2 DEF Applies
<1>4. PastClaim(u)
  BY <1>3 DEF PendingOnlyApplying, PastClaim
<1>5. u = t
  BY <1>1, <1>3, <1>4 DEF ClaimsHold, OwnerOnRecord
<1>6. r \in Wants(t)
  BY <1>3, <1>5, RequestType DEF Wants
<1>7. r = s
  BY <1>3, <1>5, <1>6, WantsApart DEF Plans
<1> QED
  BY <1>3, <1>5, <1>7

-----------------------------------------------------------------------------
(* The writes carry out the plan. *)

(* A dry run has nothing to apply. *)
DryRunsIdle == dryRun => \A t \in Targets : todo[t] = {}

(* What a target wants is still to be written, or has failed, or is in      *)
(* place, or others changed it.                                             *)
Settles(t, s) ==
    LET a == plan[t][s]
    IN  \/ s \in todo[t]
        \/ a.err
        \/ InPlace(Object(t), a.var)
        \/ a.var.id \in touched[Object(t)]
Underway == ~dryRun => \A t \in Targets : Planned(t) => \A s \in Wants(t) : Settles(t, s)

(* The part of PlanStillFits that is about one slot. *)
Fits(t, s) ==
    LET a == plan[t][s]
        have == store[Object(t)][a.var.id]
    IN  \/ a.var.id \in touched[Object(t)] \union slipped[Object(t)]
        \/ have # a.var.body /\ (a.op = "create" <=> have = Absent)

Carried == DryRunsIdle /\ Underway /\ PlanStillFits

(* A target that keeps its plan, its object and what is left of it to do. *)
LEMMA CarriedApart ==
    ASSUME TypeOK, ClaimsHold, Plans, PendingOnlyApplying, Carried, [Next]_vars, ~NewPass,
           NEW t \in Targets, Planned(t),
           id'[t] = id[t], plan'[t] = plan[t], todo'[t] = todo[t],
           \A s \in Slots(t) : ~ApplyOk(t, s)
    PROVE  /\ \A s \in todo[t] : Fits(t, s)'
           /\ ~dryRun => \A s \in Wants(t) : Settles(t, s)'
<1>1. Object(t)' = Object(t)
  BY DEF Object
<1>2. /\ Object(t) \in Objects
      /\ \A s \in Wants(t) : plan[t][s].var.id \in Identities /\ s \in Slots(t)
  BY WantsTyped
<1>3. touched[Object(t)] \subseteq touched'[Object(t)] /\ slipped[Object(t)] \subseteq slipped'[Object(t)]
  BY <1>2, TouchedGrows
<1>4. \A s \in Wants(t) : \/ plan[t][s].var.id \in touched'[Object(t)]
                          \/ store'[Object(t)][plan[t][s].var.id]
                                = store[Object(t)][plan[t][s].var.id]
  BY <1>2, PlaceKept
<1>5. ASSUME NEW s \in todo[t]  PROVE Fits(t, s)'
  <2>1. s \in Wants(t)
    BY RequestType DEF Wants
  <2>2. Fits(t, s)
    BY DEF Carried, PlanStillFits, Fits
  <2> QED
    BY <1>1, <1>3, <1>4, <2>1, <2>2 DEF Fits
<1>6. ASSUME ~dryRun, NEW s \in Wants(t)  PROVE Settles(t, s)'
  <2>1. Settles(t, s)
    BY <1>6 DEF Carried, Underway
  <2> QED
    BY <1>1, <1>3, <1>4, <2>1 DEF Settles, InPlace
<1> QED
  BY <1>5, <1>6

(* A write takes its slot from those that are left. *)
LEMMA ApplyShrinks ==
    ASSUME TypeOK, NEW t \in Targets, NEW s, ApplyOk(t, s)
    PROVE  s \in todo[t] /\ todo'[t] = todo[t] \ {s} /\ plan' = plan /\ id' = id
BY DEF ApplyOk, IsNext, TypeOK

(* Right after the listing what is planned fits, and what is not planned is *)
(* in place.                                                                *)
LEMMA CarriedLists ==
    ASSUME TypeOK, NEW t \in Targets, PlanAt(t), Lists(t)
    PROVE  /\ \A s \in todo'[t] : Fits(t, s)'
           /\ ~dryRun => \A s \in Wants(t)' : Settles(t, s)'
<1> DEFINE o == Object(t)
<1>1. PICK observed : /\ Observes(t, observed)
                      /\ \A i \in Identities : \/ observed[i] = store[o][i]
                                               \/ observed[i] = Absent /\ i \in slipped'[o]
  <2>1. o \in Objects /\ store[o] \in [Identities -> Bodies \union {Absent}]
        /\ slipped \in [Objects -> SUBSET Identities]
    BY ConfigAssumption DEF TypeOK, Object, Objects
  <2>2. CASE ListOk(t)
    BY <2>2 DEF ListOk
  <2>3. ASSUME NEW i \in Identities, ListMissing(t, i)
        PROVE  \E observed : /\ Observes(t, observed)
                             /\ \A j \in Identities :
                                   \/ observed[j] = store[o][j]
                                   \/ observed[j] = Absent /\ j \in slipped'[o]
    <3> DEFINE observed == [store[o] EXCEPT ![i] = Absent]
    <3>1. Observes(t, observed) /\ slipped' = [slipped EXCEPT ![o] = slipped[o] \union {i}]
      BY <2>3 DEF ListMissing
    <3>2. \A j \in Identities : observed[j] = store[o][j] \/ (observed[j] = Absent /\ j = i)
      BY <2>1
    <3>3. i \in slipped'[o]
      BY <2>1, <3>1
    <3> HIDE DEF observed
    <3> QED
      BY <3>1, <3>2, <3>3
  <2> QED
    BY <2>2, <2>3 DEF Lists
<1>2. /\ Listing(t) /\ UNCHANGED <<store, id, dryRun>>
      /\ plan'[t] = Diff(plan[t], observed)
      /\ todo'[t] = IF dryRun THEN {} ELSE Pending(plan'[t])
  BY <1>1 DEF Observes, TypeOK, call
<1>3. Object(t)' = o
  BY <1>2 DEF Object
<1>4. plan[t] \in [Slots(t) -> Action] /\ DOMAIN plan'[t] = Slots(t)
      /\ \A s \in Slots(t) : plan'[t][s] = Compared(plan[t][s], observed)
  BY <1>2 DEF TypeOK, Diff
<1>5. \A s \in Slots(t) : plan[t][s].op \in {"want", "skip", "none"}
  <2>1. HalfBuilt(t) /\ \A i \in Entries(t) : i < at[t]
    BY <1>2, ConfigAssumption DEF PlanAt, Listing, HalfBuilt, Entries
  <2>2. \A s \in Slots(t) : plan[t][s] = Result(t, s, ReadBy(t))
    BY <2>1, SlotParts DEF HalfBuilt
  <2> QED
    BY <2>2, ResultOps
<1>6. ASSUME NEW s \in Slots(t), plan'[t][s].op \in {"create", "update", "noop"}
      PROVE  LET a == plan'[t][s]
                 have == store'[o][a.var.id]
             IN  \/ a.op \in {"create", "update"} /\ a.var.id \in slipped'[o]
                 \/ a.op \in {"create", "update"} /\ have # a.var.body
                    /\ (a.op = "create" <=> have = Absent)
                 \/ a.op = "noop" /\ have = a.var.body
  <2> DEFINE var == plan[t][s].var
  <2>1. plan[t][s].op = "want"
    BY <1>4, <1>5, <1>6 DEF Compared
  <2>2. var.id \in Identities /\ var.body \in Bodies
    BY <1>4, <2>1 DEF Action, Variables
  <2>3. /\ plan'[t][s].var = var
        /\ plan'[t][s].op = IF observed[var.id] = Absent THEN "create"
                            ELSE IF observed[var.id] = var.body THEN "noop" ELSE "update"
    <3>1. plan[t][s] \in Action
      BY <1>4
    <3> QED
      BY <1>4, <2>1, <3>1 DEF Compared, Action
  <2>4. var.body # Absent
    BY <2>2, ValueAssumption
  <2>5. observed[var.id] = store'[o][var.id] \/ (observed[var.id] = Absent /\ var.id \in slipped'[o])
    BY <1>1, <1>2, <2>2
  <2> HIDE DEF var
  <2> QED
    BY <2>3, <2>4, <2>5
<1>7. ASSUME NEW s \in todo'[t]  PROVE Fits(t, s)'
  <2>1. s \in Slots(t) /\ plan'[t][s].op \in {"create", "update"}
    BY <1>2, <1>4, <1>7 DEF Pending
  <2> QED
    BY <1>3, <1>6, <2>1 DEF Fits
<1>8. ASSUME ~dryRun, NEW s \in Wants(t)'  PROVE Settles(t, s)'
  <2>1. s \in Slots(t) /\ plan'[t][s].op \in {"create", "update", "noop"}
    BY <1>8 DEF Wants
  <2>2. plan'[t][s].op \in {"create", "update"} => s \in todo'[t]
    BY <1>2, <1>4, <1>8, <2>1 DEF Pending
  <2> QED
    BY <1>3, <1>6, <2>1, <2>2 DEF Settles, InPlace
<1> QED
  BY <1>7, <1>8

(* A write puts its variable in place or is marked, and the other slots     *)
(* are left as they are.                                                    *)
LEMMA CarriedApply ==
    ASSUME TypeOK, ClaimsHold, Plans, PendingOnlyApplying, Carried, [Next]_vars, ~NewPass,
           NEW t \in Targets, Apply(t)
    PROVE  /\ \A s \in todo'[t] : Fits(t, s)'
           /\ ~dryRun => \A s \in Wants(t)' : Settles(t, s)'
<1>1. PICK r \in Slots(t) : ApplyOk(t, r) \/ ApplyErr(t, r) \/ ApplyLost(t, r)
  BY DEF Apply
<1>2. /\ r \in todo[t] /\ pc[t] = "applying" /\ Planned(t)
      /\ todo'[t] = todo[t] \ {r} /\ id' = id
  BY <1>1 DEF ApplyOk, ApplyErr, ApplyLost, IsNext, Planned, Failed, TypeOK
<1>3. Object(t)' = Object(t) /\ Object(t) \in Objects
  BY <1>2, WantsTyped DEF Object
<1>4. touched[Object(t)] \subseteq touched'[Object(t)] /\ slipped[Object(t)] \subseteq slipped'[Object(t)]
  BY <1>3, TouchedGrows
<1>5. ASSUME NEW s \in Slots(t)
      PROVE  /\ plan'[t][s].op = plan[t][s].op /\ plan'[t][s].var = plan[t][s].var
             /\ plan[t][s].err => plan'[t][s].err
  <2>1. CASE ApplyOk(t, r)
    BY <2>1, ApplyShrinks
  <2>2. CASE ApplyErr(t, r) \/ ApplyLost(t, r)
    BY <1>2, <2>2, FailedEffect DEF ApplyErr, ApplyLost
  <2> QED
    BY <1>1, <2>1, <2>2
<1>6. Wants(t)' = Wants(t)
  BY <1>5 DEF Wants
<1>7. ASSUME NEW s \in Wants(t), s # r
      PROVE  \/ plan[t][s].var.id \in touched'[Object(t)]
             \/ store'[Object(t)][plan[t][s].var.id] = store[Object(t)][plan[t][s].var.id]
  <2>1. ~ApplyOk(t, s)
    BY <1>2, <1>7, ApplyShrinks
  <2> QED
    BY <1>2, <2>1, PlaceKept
<1>8. ASSUME NEW s \in todo'[t]  PROVE Fits(t, s)'
  <2>1. s \in todo[t] /\ s # r
    BY <1>2
  <2>2. s \in Wants(t) /\ s \in Slots(t)
    BY <2>1, RequestType DEF Wants
  <2>3. Fits(t, s)
    BY <2>1 DEF Carried, PlanStillFits, Fits
  <2> QED
    BY <1>3, <1>4, <1>5, <1>7, <2>1, <2>2, <2>3 DEF Fits
<1>9. ASSUME ~dryRun, NEW s \in Wants(t)'  PROVE Settles(t, s)'
  <2>1. s \in Wants(t) /\ s \in Slots(t)
    BY <1>6, <1>9 DEF Wants
  <2>2. CASE s = r
    <3>1. CASE ApplyOk(t, r)
      <4>1. RequestOf(t, r) \in Request
        BY <1>2, RequestType
      <4>2. store' = Written(RequestOf(t, r)) /\ RequestOf(t, r).object = Object(t)
            /\ RequestOf(t, r).var = plan[t][r].var
        BY <3>1 DEF ApplyOk, RequestOf
      <4>3. plan[t][r].var.id \in Identities
        BY <4>1, <4>2 DEF Request, Variables
      <4>4. store'[Object(t)][plan[t][r].var.id] = plan[t][r].var.body
        BY <1>3, <4>1, <4>2, <4>3, WrittenAt
      <4> QED
        BY <1>3, <1>5, <2>1, <2>2, <4>4 DEF Settles, InPlace
    <3>2. CASE ApplyErr(t, r) \/ ApplyLost(t, r)
      <4>1. plan'[t][r].err
        BY <1>2, <3>2, FailedEffect DEF ApplyErr, ApplyLost
      <4> QED
        BY <2>2, <4>1 DEF Settles
    <3> QED
      BY <1>1, <3>1, <3>2
  <2>3. CASE s # r
    <3>1. Settles(t, s)
      BY <1>2, <1>9, <2>1 DEF Carried, Underway
    <3> QED
      BY <1>2, <1>3, <1>4, <1>5, <1>7, <2>1, <2>3, <3>1 DEF Settles, InPlace
  <2> QED
    BY <2>2, <2>3
<1> QED
  BY <1>8, <1>9

(* Nothing turns a dry run into another, and nothing is planned to be       *)
(* written in one.                                                          *)
LEMMA DryRunsStep ==
    ASSUME TypeOK, DryRunsIdle, [Next]_vars
    PROVE  DryRunsIdle' /\ UNCHANGED dryRun
<1> USE DEF DryRunsIdle
<1>1. ASSUME NEW t \in Targets, Step(t)  PROVE DryRunsIdle' /\ UNCHANGED dryRun
  <2>1. UNCHANGED dryRun
    BY <1>1 DEF Step, Acquire, ResolveKnown, ResolveOk, ResolveErr, Claim, Refuse, ReadOk, ReadErr,
          Lists, ListOk, ListMissing, Observes, ListErr, Apply, ApplyOk, ApplyErr, ApplyLost,
          Return, call
  <2>2. dryRun => todo'[t] = {}
    <3>1. CASE Lists(t)
      BY <3>1 DEF Lists, ListOk, ListMissing, Observes, TypeOK
    <3>2. CASE Apply(t)
      BY <3>2 DEF Apply, ApplyOk, ApplyErr, ApplyLost, IsNext
    <3>3. CASE ~Lists(t) /\ ~Apply(t)
      <4>1. UNCHANGED todo
        BY <1>1, <3>3 DEF Step, Acquire, ResolveKnown, ResolveOk, ResolveErr, Claim, Refuse, ReadOk,
              ReadErr, ListErr, Return, local
      <4> QED
        BY <4>1
    <3> QED
      BY <3>1, <3>2, <3>3
  <2> QED
    BY <1>1, <2>1, <2>2, OthersUntouched
<1>2. CASE NewPass
  BY <1>2 DEF NewPass
<1>3. CASE Environment \/ UNCHANGED vars
  BY <1>3, EnvironmentApart DEF local
<1> QED
  BY <1>1, <1>2, <1>3 DEF Next

CarriedAt(t) ==
    /\ \A s \in todo[t] : Fits(t, s)
    /\ ~dryRun /\ Planned(t) => \A s \in Wants(t) : Settles(t, s)

(* A target of which the step changes nothing. *)
LEMMA CarriedUntouched ==
    ASSUME TypeOK, ClaimsHold, Plans, PendingOnlyApplying, Carried, [Next]_vars, ~NewPass,
           NEW t \in Targets,
           Planned(t)' = Planned(t), id'[t] = id[t], plan'[t] = plan[t], todo'[t] = todo[t]
    PROVE  CarriedAt(t)'
<1>1. dryRun' = dryRun
  BY DryRunsStep DEF Carried
<1>2. \A s \in Slots(t) : ~ApplyOk(t, s)
  BY ApplyShrinks
<1>3. Wants(t)' = Wants(t)
  BY DEF Wants
<1>4. ~Planned(t) => todo[t] = {}
  BY DEF PendingOnlyApplying, Planned
<1> QED
  BY <1>1, <1>2, <1>3, <1>4, CarriedApart DEF CarriedAt

LEMMA CarriedStep ==
    ASSUME TypeOK, ClaimsHold, Plans, PendingOnlyApplying, Carried, [Next]_vars
    PROVE  Carried'
<1>1. DryRunsIdle' /\ UNCHANGED dryRun
  BY DryRunsStep DEF Carried
<1>2. ASSUME \A t \in Targets : CarriedAt(t)'  PROVE Carried'
  <2>1. PlanStillFits'
    BY <1>2 DEF PlanStillFits, CarriedAt, Fits
  <2>2. Underway'
    BY <1>2 DEF Underway, CarriedAt
  <2> QED
    BY <1>1, <2>1, <2>2 DEF Carried
<1>3. ASSUME NEW t \in Targets, Step(t)  PROVE \A u \in Targets : CarriedAt(u)'
  <2>1. ~NewPass
    BY <1>3, NoNewPass
  <2>2. ASSUME NEW u \in Targets \ {t}  PROVE CarriedAt(u)'
    <3>1. /\ pc'[u] = pc[u] /\ err'[u] = err[u] /\ id'[u] = id[u]
          /\ plan'[u] = plan[u] /\ todo'[u] = todo[u]
      BY <1>3, OthersUntouched
    <3>2. Planned(u)' = Planned(u)
      BY <3>1 DEF Planned
    <3> QED
      BY <2>1, <3>1, <3>2, CarriedUntouched
  <2>3. ASSUME Lists(t)  PROVE CarriedAt(t)'
    <3>1. PlanAt(t)
      BY DEF Plans
    <3> QED
      BY <1>1, <2>3, <3>1, CarriedLists DEF CarriedAt
  <2>4. ASSUME Apply(t)  PROVE CarriedAt(t)'
    BY <1>1, <2>1, <2>4, CarriedApply DEF CarriedAt
  <2>5. ASSUME Return(t)  PROVE CarriedAt(t)'
    <3>1. /\ pc'[t] = "done" /\ UNCHANGED <<id, plan, todo, err>>
          /\ pc[t] = "returning" \/ pc[t] = "applying"
      BY <2>5 DEF Return, TypeOK, local
    <3>2. Planned(t)' = Planned(t)
      BY <3>1 DEF Planned, ClaimsHold, NoErrorUnderWay, Plans, PlanAt
    <3> QED
      BY <2>1, <3>1, <3>2, CarriedUntouched
  <2>6. ASSUME ~Lists(t) /\ ~Apply(t) /\ ~Return(t)  PROVE CarriedAt(t)'
    <3>1. pc'[t] \notin {"applying", "done"}
      BY <1>3, <2>6 DEF Step, Acquire, ResolveKnown, ResolveOk, ResolveErr, MustLookUp, Claim, Refuse,
           ReadOk, ReadErr, Reading, ListErr, GiveUp, TypeOK
    <3>2. todo'[t] = {}
      BY <3>1, PendingStep DEF PendingOnlyApplying
    <3> QED
      BY <3>1, <3>2 DEF CarriedAt, Planned
  <2>7. CarriedAt(t)'
    BY <2>3, <2>4, <2>5, <2>6
  <2> QED
    BY <2>2, <2>7
<1>4. CASE NewPass
  <2>1. \A t \in Targets : pc'[t] = "waiting" /\ todo'[t] = {}
    BY <1>4 DEF NewPass
  <2>2. \A t \in Targets : CarriedAt(t)'
    BY <2>1 DEF CarriedAt, Planned
  <2> QED
    BY <1>2, <2>2
<1>5. CASE (Environment \/ UNCHANGED vars) /\ ~NewPass
  <2>1. UNCHANGED <<pc, id, plan, todo, err>>
    BY <1>5, EnvironmentApart DEF local
  <2>2. \A t \in Targets : Planned(t)' = Planned(t)
    BY <2>1 DEF Planned
  <2> QED
    BY <1>2, <1>5, <2>1, <2>2, CarriedUntouched
<1> QED
  BY <1>2, <1>3, <1>4, <1>5 DEF Next

(* The writes of a pass carry out its plans in every reachable state: what  *)
(* is left to do fits, what is done is in place or reported, and a dry run  *)
(* has nothing to do.                                                       *)
THEOREM PlansCarriedOut == Spec => []Carried
<1>1. Init => Carried
  <2>1. ASSUME Init  PROVE \A t \in Targets : todo[t] = {} /\ ~Planned(t)
    BY <2>1 DEF Init, Planned
  <2> QED
    BY <2>1 DEF Carried, DryRunsIdle, Underway, PlanStillFits
<1>2. TypeOK /\ ClaimsHold /\ Plans /\ PendingOnlyApplying /\ Carried /\ [Next]_vars => Carried'
  BY CarriedStep
<1> QED
  BY <1>1, <1>2, Typing, Claims, PlansFollow, PTL DEF Spec

(* An action that was planned from the listing still fits when its turn     *)
(* comes, unless someone else touched the variable or the listing had       *)
(* missed it: no other target and none of the target's own writes come in   *)
(* between (reconciler.go:133-153, diff.go).                                *)
THEOREM PlansStayFit == Spec => []PlanStillFits
BY PlansCarriedOut, PTL DEF Carried

(* When a target is done, each of its variables is in place, or its action  *)
(* reports a failure, or others changed it: no failure of one write is lost *)
(* and none takes another write down (reconciler.go:104-131).               *)
THEOREM AppliedOrFailed == Spec => []AppliedOrReported
<1>1. ASSUME PendingOnlyApplying, Carried  PROVE AppliedOrReported
  <2> SUFFICES ASSUME NEW t \in Targets, pc[t] = "done", err[t] = "none", ~dryRun,
                      NEW s \in Wants(t)
               PROVE  \/ plan[t][s].err
                      \/ InPlace(Object(t), plan[t][s].var)
                      \/ plan[t][s].var.id \in touched[Object(t)]
    BY DEF AppliedOrReported
  <2>1. Settles(t, s)
    BY <1>1 DEF Carried, Underway, Planned
  <2>2. s \notin todo[t]
    BY <1>1 DEF PendingOnlyApplying
  <2> QED
    BY <2>1, <2>2 DEF Settles
<1> QED
  BY <1>1, Typing, PlansCarriedOut, PTL

(* Without an error among its outcomes a target has read all its secrets. *)
LEMMA NothingUnread ==
    ASSUME TypeOK, NEW t \in Targets, PlanAt(t), Planned(t),
           \A s \in Slots(t) : ~plan[t][s].err
    PROVE  ReadBy(t) = [i \in Entries(t) |-> snap[Specs[t][i].secret]]
<1>1. ASSUME NEW i \in Entries(t)  PROVE plan[t][<<i, 0>>].reason # "vault"
  <2> DEFINE s == <<i, 0>>
             outcome == Result(t, s, ReadBy(t))
  <2>1. s \in Slots(t)
    BY FieldSlot, SlotOf
  <2>2. Settled(plan[t][s], outcome) /\ plan[t][s] \in Action /\ ~plan[t][s].err
    BY <2>1 DEF PlanAt, WellBuilt, TypeOK
  <2>3. outcome.reason = "vault" => outcome.err
    <3>1. s[1] = i /\ s[2] = 0
      OBVIOUS
    <3>2. CASE ReadBy(t)[i] = Absent
      BY <3>1, <3>2 DEF Result, Skip
    <3>3. CASE ReadBy(t)[i] # Absent
      <4>1. outcome = Outcome(t, i, 0, ReadBy(t)[i], TakenBefore(t, i, ReadBy(t)))
        BY <3>1, <3>3 DEF Result
      <4> QED
        BY <4>1, OutcomeReason
    <3> QED
      BY <3>2, <3>3
  <2>4. plan[t][s].op \in {"create", "update", "noop"} => plan[t][s].reason # "vault"
    BY <2>2 DEF Action
  <2> HIDE DEF outcome
  <2> QED
    BY <2>2, <2>3, <2>4 DEF Settled
<1> QED
  BY <1>1 DEF ReadBy

(* A pass without errors in its report leaves the whole configuration in    *)
(* force, on every target and with the secrets of the pass, save what       *)
(* others changed meanwhile: exit code 0 can be believed                    *)
(* (report.go HasErrors, reconciler.go:104-131).                            *)
THEOREM CleanReportBelieved == Spec => []CleanPassInForce
<1>1. ASSUME TypeOK, Plans, PendingOnlyApplying, Carried  PROVE CleanPassInForce
  <2> SUFFICES ASSUME \A t \in Targets : pc[t] = "done", ~HasErrors, ~dryRun,
                      NEW t \in Targets,
                      NEW var \in DesiredOf(t, [i \in Entries(t) |-> snap[Specs[t][i].secret]])
               PROVE  InPlace(Object(t), var) \/ var.id \in touched[Object(t)]
    BY DEF CleanPassInForce
  <2>1. Planned(t) /\ PlanAt(t) /\ \A s \in Slots(t) : ~plan[t][s].err
    BY <1>1 DEF HasErrors, Planned, Plans
  <2>2. ReadBy(t) = [i \in Entries(t) |-> snap[Specs[t][i].secret]]
    BY <1>1, <2>1, NothingUnread
  <2>3. DesiredOf(t, ReadBy(t)) = {VariableAt(t, s, ReadBy(t)) : s \in Wants(t)}
    BY <1>1, <2>1, WantsOwned DEF DesiredOf, VariableAt
  <2>4. PICK s \in Wants(t) : var = VariableAt(t, s, ReadBy(t))
    BY <2>2, <2>3
  <2>5. var = plan[t][s].var
    BY <1>1, <2>1, <2>4, WantsOwned
  <2>6. Settles(t, s)
    BY <1>1, <2>1 DEF Carried, Underway
  <2>7. s \notin todo[t] /\ ~plan[t][s].err
    BY <1>1, <2>1 DEF PendingOnlyApplying, Wants
  <2> QED
    BY <2>5, <2>6, <2>7 DEF Settles
<1> QED
  BY <1>1, Typing, PlansFollow, PlansCarriedOut, PTL

(* What a target still has to write is desired, on an object that is its    *)
(* own, and there is nothing of it in a dry run.                            *)
LEMMA PendingMayBeWritten ==
    ASSUME TypeOK, ClaimsHold, Plans, PendingOnlyApplying, Carried,
           NEW t \in Targets, NEW s \in todo[t]
    PROVE  MayWrite(t, Object(t), plan[t][s].var)
<1>1. ~dryRun
  BY DEF Carried, DryRunsIdle
<1>2. Planned(t) /\ PastClaim(t) /\ PlanAt(t)
  BY DEF PendingOnlyApplying, Planned, PastClaim, Plans
<1>3. claimed[Object(t)] = t
  BY <1>2 DEF ClaimsHold, OwnerOnRecord
<1>4. s \in Wants(t)
  BY RequestType DEF Wants
<1>5. plan[t][s].var = VariableAt(t, s, ReadBy(t))
  BY <1>2, <1>4, WantsOwned
<1>6. DesiredOf(t, ReadBy(t)) = {VariableAt(t, r, ReadBy(t)) : r \in Wants(t)}
  BY <1>2, WantsOwned DEF DesiredOf, VariableAt
<1> QED
  BY <1>1, <1>3, <1>4, <1>5, <1>6 DEF MayWrite

(* No step of the operator writes anything but what its configuration and   *)
(* the secrets of the pass say, on an object its target has claimed and     *)
(* never in a dry run, whatever others did to the variable before; nor does *)
(* it leave a request behind that would.  So it deletes nothing and leaves  *)
(* what it does not manage alone (reconciler.go:104-131, diff.go).          *)
THEOREM OnlyDesiredWritten == Spec => WritesOnlyDesired
<1> DEFINE Allowed(t) ==
        /\ \A o \in Objects : \A i \in Identities : store'[o][i] # store[o][i] =>
              MayWrite(t, o, [id |-> i, body |-> store'[o][i]])
        /\ \A r \in late' \ late : MayWrite(t, r.object, r.var)
<1>1. ASSUME TypeOK, ClaimsHold, Plans, PendingOnlyApplying, Carried,
             NEW t \in Targets, Step(t)
      PROVE  Allowed(t)
  <2>1. ASSUME NEW s \in Slots(t), ApplyOk(t, s)  PROVE Allowed(t)
    <3>1. late' = late
      BY <2>1 DEF ApplyOk
    <3>2. ASSUME NEW o \in Objects, NEW i \in Identities, store'[o][i] # store[o][i]
          PROVE  MayWrite(t, o, [id |-> i, body |-> store'[o][i]])
      <4>1. /\ s \in todo[t]
            /\ o = Object(t) /\ i = plan[t][s].var.id
            /\ store'[o][i] = plan[t][s].var.body
        BY <1>1, <2>1, <3>2, WriteOfSlot
      <4>2. plan[t][s].var \in Variables
        BY <1>1, <4>1, RequestType DEF Action
      <4>3. plan[t][s].var = [id |-> i, body |-> store'[o][i]]
        BY <4>1, <4>2 DEF Variables
      <4> QED
        BY <1>1, <4>1, <4>3, PendingMayBeWritten
    <3> QED
      BY <3>1, <3>2
  <2>2. ASSUME NEW s \in Slots(t), ApplyLost(t, s)  PROVE Allowed(t)
    <3>1. store' = store /\ late' = late \union {RequestOf(t, s)} /\ s \in todo[t]
      BY <2>2 DEF ApplyLost, IsNext
    <3>2. MayWrite(t, RequestOf(t, s).object, RequestOf(t, s).var)
      BY <1>1, <3>1, PendingMayBeWritten DEF RequestOf
    <3> QED
      BY <3>1, <3>2
  <2>3. ASSUME NEW s \in Slots(t), ApplyErr(t, s)  PROVE Allowed(t)
    BY <2>3 DEF ApplyErr, remote
  <2>4. ASSUME ~Apply(t)  PROVE Allowed(t)
    BY <1>1, <2>4, WritesInLoop
  <2> QED
    BY <2>1, <2>2, <2>3, <2>4 DEF Apply
<1>2. TypeOK /\ ClaimsHold /\ Plans /\ PendingOnlyApplying /\ Carried
      => [\A t \in Targets : Step(t) => Allowed(t)]_<<store, late>>
  BY <1>1
<1> QED
  BY <1>2, Typing, Claims, PlansFollow, PlansCarriedOut, PTL DEF Spec, WritesOnlyDesired
=============================================================================
