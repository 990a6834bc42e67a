-------------------------- MODULE SourceUseProofs --------------------------
(***************************************************************************)
(* The reconciler, its targets as readers, is a client of the abstract     *)
(* secret source and of nothing more.  With SourceImplemented, which says  *)
(* that the cache implements the same source, this is the composition of   *)
(* the two: what the reconciler's theorems assume of a read is what the    *)
(* cache returns.                                                          *)
(***************************************************************************)
EXTENDS ReconcilerProofs

(* A target that has not claimed its object yet has read nothing, and none  *)
(* has read further than its last entry.                                    *)
Starting ==
    \A t \in Targets :
        /\ pc[t] \in {"waiting", "resolving", "claiming"} => at[t] = 1
        /\ at[t] > 1 => at[t] - 1 \in Entries(t)

(* What a target of this pass has read is in the snapshot. *)
ReadsKept ==
    \A t \in Targets : pc[t] = "building" =>
        \A i \in Entries(t) :
            i < at[t] /\ plan[t][<<i, 0>>].reason # "vault" => snap[Specs[t][i].secret] # Absent

(* The mapped state, by name. *)
MappedAsked == [t \in Targets |-> AskedBy(t)]
MappedGot == [t \in Targets |-> GotBy(t)]

(* A read that succeeds never looks like one that failed. *)
LEMMA OutcomeReason ==
    ASSUME NEW t, NEW i, NEW f, NEW content, NEW held
    PROVE  Outcome(t, i, f, content, held).reason # "vault"
BY DEF Outcome, ExplicitOutcome, FieldOutcome, Add, NoAction, Skip, Want

(* The slot of a failed read, of this entry and of the others, after a read. *)
LEMMA ReasonsKept ==
    ASSUME TypeOK, NEW t \in Targets, NEW i \in Entries(t), i # at[t],
           ReadOk(t) \/ ReadErr(t)
    PROVE  plan'[t][<<i, 0>>] = plan[t][<<i, 0>>]
<1>1. <<i, 0>> \in Slots(t) /\ <<i, 0>> # <<at[t], 0>>
  BY ConfigAssumption DEF Slots
<1>2. CASE ReadOk(t)
  BY <1>1, <1>2 DEF ReadOk, Built, TypeOK
<1>3. CASE ReadErr(t)
  BY <1>1, <1>3 DEF ReadErr, Unread, TypeOK
<1> QED
  BY <1>2, <1>3

(* The next read of a target that reads: its entry and its secret. *)
LEMMA ReadingAt ==
    ASSUME NEW t \in Targets, Reading(t)
    PROVE  /\ at[t] \in Entries(t)
           /\ at[t] \in Nat
           /\ <<at[t], 0>> \in Slots(t)
           /\ SecretAt(t) \in Secrets
           /\ SecretAt(t) # Absent
<1>1. at[t] \in Entries(t) /\ Specs[t][at[t]] \in ResolvedVariable
  BY ConfigAssumption DEF Reading, Entries
<1>2. SecretAt(t) \in Secrets
  BY <1>1 DEF SecretAt, ResolvedVariable
<1> QED
  BY <1>1, <1>2, ConfigAssumption, ValueAssumption DEF Slots, Entries

LEMMA SecretOfEntry ==
    ASSUME NEW t \in Targets, NEW i \in Entries(t)
    PROVE  Specs[t][i].secret \in Secrets
<1>1. Specs[t] \in Seq(ResolvedVariable) /\ i \in 1..Len(Specs[t])
  BY ConfigAssumption DEF Entries
<1>2. Specs[t][i] \in ResolvedVariable
  BY <1>1
<1> QED
  BY <1>2 DEF ResolvedVariable

(* What a successful read does to the snapshot and to the reader. *)
LEMMA ReadOkEffect ==
    ASSUME TypeOK, NEW t \in Targets, ReadOk(t)
    PROVE  LET s == SecretAt(t)
           IN  /\ Answer(s) \in Contents
               /\ Answer(s) # Absent
               /\ snap' = [snap EXCEPT ![s] = Answer(s)]
               /\ plan'[t][<<at[t], 0>>].reason # "vault"
               /\ at' = [at EXCEPT ![t] = at[t] + 1]
               /\ \A u \in Targets \ {t} : plan'[u] = plan[u]
               /\ pc' = pc
               /\ pc[t] = "building"
<1>1. SecretAt(t) \in Secrets /\ <<at[t], 0>> \in Slots(t)
  BY ReadingAt DEF ReadOk
<1>2. Answer(SecretAt(t)) \in Contents
  BY <1>1 DEF ReadOk, Answer, TypeOK, Read
<1>3. plan'[t] = Built(t, plan[t], at[t], Answer(SecretAt(t)), taken[t])
  BY DEF ReadOk, TypeOK
<1>4. plan'[t][<<at[t], 0>>] = Outcome(t, at[t], 0, Answer(SecretAt(t)), taken[t])
  BY <1>1, <1>3 DEF Built
<1>5. plan'[t][<<at[t], 0>>].reason # "vault"
  BY <1>4, OutcomeReason
<1>6. /\ snap' = [snap EXCEPT ![SecretAt(t)] = Answer(SecretAt(t))]
      /\ at' = [at EXCEPT ![t] = at[t] + 1]
      /\ \A u \in Targets \ {t} : plan'[u] = plan[u]
      /\ pc' = pc
      /\ pc[t] = "building"
  BY DEF ReadOk, Reading, TypeOK
<1> QED
  BY <1>2, <1>5, <1>6, ValueAssumption

(* What a failed read does. *)
LEMMA ReadErrEffect ==
    ASSUME TypeOK, NEW t \in Targets, ReadErr(t)
    PROVE  /\ snap[SecretAt(t)] = Absent
           /\ UNCHANGED <<snap, pc, vault>>
           /\ plan'[t][<<at[t], 0>>].reason = "vault"
           /\ at' = [at EXCEPT ![t] = at[t] + 1]
           /\ \A u \in Targets \ {t} : plan'[u] = plan[u]
           /\ pc[t] = "building"
<1>1. <<at[t], 0>> \in Slots(t)
  BY ReadingAt DEF ReadErr
<1>2. plan'[t] = Unread(t, plan[t], at[t])
  BY DEF ReadErr, TypeOK
<1>3. plan[t] \in [Slots(t) -> Action]
  BY DEF TypeOK
<1>4. plan'[t][<<at[t], 0>>] = Skip("vault", TRUE)
  BY <1>1, <1>2, <1>3 DEF Unread
<1>5. plan'[t][<<at[t], 0>>].reason = "vault"
  BY <1>4 DEF Skip
<1> QED
  BY <1>5 DEF ReadErr, Reading, TypeOK, shared, remote

-----------------------------------------------------------------------------
(* A step that leaves alone what a target at its reads depends on keeps it. *)
LEMMA ReadsUntouched ==
    ASSUME ReadsKept,
           \A t \in Targets : pc'[t] = "building" =>
              /\ pc[t] = "building"
              /\ at'[t] = at[t]
              /\ plan'[t] = plan[t],
           UNCHANGED snap
    PROVE  ReadsKept'
BY DEF ReadsKept

(* A read adds its secret to the snapshot or marks its slot, and takes      *)
(* nothing out of the snapshot.                                             *)
LEMMA ReadsKeptRead ==
    ASSUME TypeOK, ReadsKept, NEW t \in Targets, ReadOk(t) \/ ReadErr(t)
    PROVE  ReadsKept'
<1> SUFFICES ASSUME NEW u \in Targets, pc'[u] = "building",
                    NEW i \in Entries(u), i < at'[u], plan'[u][<<i, 0>>].reason # "vault"
             PROVE  snap'[Specs[u][i].secret] # Absent
  BY DEF ReadsKept
<1>1. /\ \A v \in Secrets : snap[v] # Absent => snap'[v] # Absent
      /\ at' = [at EXCEPT ![t] = at[t] + 1]
      /\ \A v \in Targets \ {t} : plan'[v] = plan[v]
      /\ pc' = pc /\ pc[t] = "building"
      /\ plan'[t][<<at[t], 0>>].reason # "vault" => snap'[SecretAt(t)] # Absent
  <2>1. CASE ReadOk(t)
    <3>1. SecretAt(t) \in Secrets
      BY <2>1, ReadingAt DEF ReadOk
    <3> QED
      BY <2>1, <3>1, ReadOkEffect DEF TypeOK
  <2>2. CASE ReadErr(t)
    BY <2>2, ReadErrEffect
  <2> QED
    BY <2>1, <2>2
<1>2. Specs[u][i].secret \in Secrets /\ at \in [Targets -> Nat] /\ i \in Nat
  <2>1. Specs[u] \in Seq(ResolvedVariable) /\ i \in 1..Len(Specs[u])
    BY ConfigAssumption DEF Entries
  <2>2. Specs[u][i] \in ResolvedVariable
    BY <2>1
  <2> QED
    BY <2>1, <2>2 DEF ResolvedVariable, TypeOK
<1>3. CASE u # t
  BY <1>1, <1>2, <1>3 DEF ReadsKept
<1>4. CASE u = t /\ i = at[t]
  BY <1>1, <1>4 DEF SecretAt
<1>5. CASE u = t /\ i # at[t]
  <2>1. i < at[t] /\ plan'[t][<<i, 0>>] = plan[t][<<i, 0>>]
    BY <1>1, <1>2, <1>5, ReasonsKept
  <2> QED
    BY <1>1, <1>2, <1>5, <2>1 DEF ReadsKept
<1> QED
  BY <1>3, <1>4, <1>5

(* The reads of a pass stay in its snapshot, and a pass begins without any. *)
LEMMA ReadsStep ==
    ASSUME TypeOK, Starting, ReadsKept, [Next]_vars
    PROVE  Starting' /\ ReadsKept'
<1> USE DEF local, shared, call, remote
<1>1. ASSUME NEW t \in Targets, Step(t)  PROVE Starting' /\ ReadsKept'
  <2>1. CASE Acquire(t) \/ ResolveKnown(t) \/ ResolveOk(t) \/ ResolveErr(t) \/ Refuse(t)
    <3>1. /\ pc[t] \in {"waiting", "resolving", "claiming"} /\ pc'[t] # "building"
          /\ \A u \in Targets \ {t} : pc'[u] = pc[u]
          /\ UNCHANGED <<at, plan, snap>>
      BY <2>1 DEF Acquire, ResolveKnown, ResolveOk, ResolveErr, MustLookUp, Refuse, GiveUp, TypeOK
    <3> QED
      BY <3>1, ReadsUntouched DEF Starting
  <2>2. CASE Claim(t)
    <3>1. /\ pc[t] = "claiming" /\ pc' = [pc EXCEPT ![t] = "building"]
          /\ UNCHANGED <<at, plan, snap>>
      BY <2>2 DEF Claim
    <3>2. at[t] = 1 /\ \A i \in Entries(t) : ~(i < at[t])
      BY <3>1, ConfigAssumption DEF Starting, Entries
    <3> QED
      BY <3>1, <3>2 DEF Starting, ReadsKept, TypeOK
  <2>3. CASE ReadOk(t) \/ ReadErr(t)
    <3>1. pc' = pc /\ pc[t] = "building" /\ \A u \in Targets \ {t} : at'[u] = at[u]
      BY <2>3 DEF ReadOk, ReadErr, Reading, TypeOK
    <3>2. at[t] \in Nat /\ at[t] \in Entries(t) /\ at'[t] = at[t] + 1
      BY <2>3, ReadingAt DEF ReadOk, ReadErr, TypeOK
    <3>3. at'[t] - 1 \in Entries(t)
      BY <3>2
    <3> QED
      BY <2>3, <3>1, <3>3, ReadsKeptRead DEF Starting
  <2>4. CASE Lists(t) \/ ListErr(t) \/ Apply(t) \/ Return(t)
    <3>1. /\ pc'[t] \in {"applying", "returning", "done"}
          /\ \A u \in Targets \ {t} : pc'[u] = pc[u] /\ plan'[u] = plan[u]
          /\ UNCHANGED <<at, snap>>
      BY <2>4 DEF Lists, ListOk, ListMissing, Observes, ListErr, GiveUp, Return, TypeOK,
                  Apply, ApplyOk, ApplyErr, ApplyLost, Failed, IsNext
    <3> QED
      BY <3>1, ReadsUntouched DEF Starting
  <2> QED
    BY <1>1, <2>1, <2>2, <2>3, <2>4 DEF Step
<1>2. CASE NewPass
  BY <1>2 DEF NewPass, Starting, ReadsKept
<1>3. CASE Environment \/ UNCHANGED vars
  <2>1. UNCHANGED <<pc, at, plan, snap>>
    BY <1>3 DEF Environment, PassTimeout, Rebuild, LateApply, LateDrop, Meddle, VaultWrite,
                Rename, vars
  <2> QED
    BY <2>1, ReadsUntouched DEF Starting
<1> QED
  BY <1>1, <1>2, <1>3 DEF Next

-----------------------------------------------------------------------------
(* The mapped readers change only with what a target at its reads depends   *)
(* on.                                                                      *)
LEMMA MappedAt ==
    ASSUME NEW t \in Targets, at'[t] = at[t], plan'[t] = plan[t],
           pc'[t] = "building" <=> pc[t] = "building",
           UNCHANGED snap
    PROVE  AskedBy(t)' = AskedBy(t) /\ GotBy(t)' = GotBy(t)
BY DEF AskedBy, GotBy, Reading, SecretAt, ReadBy

LEMMA MappedIdle ==
    ASSUME NEW t \in Targets, pc[t] # "building"
    PROVE  AskedBy(t) = Absent /\ GotBy(t) = Absent
BY DEF AskedBy, GotBy, Reading

LEMMA UnmappedUntouched ==
    ASSUME UNCHANGED <<vault, snap, MappedAsked, MappedGot>>
    PROVE  UNCHANGED Source!vars
BY DEF Source!vars, MappedAsked, MappedGot

(* A successful read is an Answer of the source, a failed one a Fail, and   *)
(* the next read is asked for at once.                                      *)
LEMMA ReadOkRefines ==
    ASSUME TypeOK, Starting, ReadsKept, NEW t \in Targets, ReadOk(t)
    PROVE  Source!Answer(t, MappedAsked'[t])
<1> DEFINE s == SecretAt(t)
           content == Answer(s)
<1>1. s \in Secrets /\ s # Absent /\ at[t] \in Entries(t) /\ at[t] \in Nat
  BY ReadingAt DEF ReadOk
<1>2. /\ content # Absent
      /\ content = IF snap[s] # Absent THEN snap[s] ELSE vault[s]
      /\ snap' = [snap EXCEPT ![s] = content]
      /\ UNCHANGED vault
  BY ReadOkEffect DEF Answer, ReadOk, remote
<1>3. AskedBy(t) = s
  BY DEF ReadOk, AskedBy
<1>4. /\ at' = [at EXCEPT ![t] = at[t] + 1] /\ pc' = pc /\ pc[t] = "building"
      /\ plan'[t][<<at[t], 0>>].reason # "vault"
      /\ \A u \in Targets \ {t} : plan'[u] = plan[u] /\ at'[u] = at[u]
  BY ReadOkEffect DEF TypeOK
<1>5. GotBy(t)' = content
  <2>1. at'[t] = at[t] + 1 /\ at'[t] > 1 /\ at'[t] - 1 = at[t]
    <3>1. at \in [Targets -> Nat]
      BY DEF TypeOK
    <3>2. at'[t] = at[t] + 1
      BY <1>4, <3>1
    <3>3. at[t] \in Nat /\ at[t] >= 1
      BY <1>1, ConfigAssumption DEF Entries
    <3> QED
      BY <3>2, <3>3
  <2>2. ReadBy(t)'[at[t]] = snap'[s]
    BY <1>1, <1>4 DEF ReadBy, SecretAt
  <2>3. snap'[s] = content
    BY <1>1, <1>2 DEF TypeOK
  <2> QED
    BY <1>4, <2>1, <2>2, <2>3 DEF GotBy
<1>6. ASSUME NEW u \in Targets \ {t}
      PROVE  AskedBy(u)' = AskedBy(u) /\ GotBy(u)' = GotBy(u)
  <2>1. AskedBy(u)' = AskedBy(u)
    BY <1>4 DEF AskedBy, Reading, SecretAt
  <2>2. CASE ~(pc[u] = "building" /\ at[u] > 1)
    <3>1. ~(pc'[u] = "building" /\ at'[u] > 1)
      BY <1>4, <2>2
    <3> QED
      BY <2>1, <2>2, <3>1 DEF GotBy, ReadBy
  <2>3. CASE pc[u] = "building" /\ at[u] > 1
    <3> DEFINE i == at[u] - 1
    <3>1. i \in Entries(u) /\ i < at[u]
      BY <2>3 DEF Starting, TypeOK
    <3>2. Specs[u][i].secret \in Secrets
      BY <3>1, SecretOfEntry
    <3>3. plan[u][<<i, 0>>].reason # "vault" => snap'[Specs[u][i].secret] = snap[Specs[u][i].secret]
      <4> HIDE DEF i
      <4> QED
        BY <1>1, <1>2, <2>3, <3>1, <3>2 DEF ReadsKept, TypeOK
    <3>4. /\ GotBy(u) = IF plan[u][<<i, 0>>].reason = "vault" THEN Absent
                        ELSE snap[Specs[u][i].secret]
          /\ GotBy(u)' = IF plan'[u][<<i, 0>>].reason = "vault" THEN Absent
                         ELSE snap'[Specs[u][i].secret]
      BY <1>4, <2>3, <3>1 DEF GotBy, ReadBy
    <3>5. plan'[u] = plan[u]
      BY <1>4
    <3> HIDE DEF i
    <3> QED
      BY <2>1, <3>3, <3>4, <3>5
  <2> QED
    BY <2>1, <2>2, <2>3
<1>7. MappedAsked' = [MappedAsked EXCEPT ![t] = MappedAsked'[t]]
  BY <1>6 DEF MappedAsked
<1>8. MappedGot' = [MappedGot EXCEPT ![t] = content]
  BY <1>5, <1>6 DEF MappedGot
<1> QED
  BY <1>2, <1>3, <1>1, <1>7, <1>8 DEF Source!Answer, Source!Asks, MappedAsked, MappedGot

(* A failed read is a Fail of the source. *)
LEMMA ReadErrRefines ==
    ASSUME TypeOK, NEW t \in Targets, ReadErr(t)
    PROVE  Source!Fail(t, MappedAsked'[t])
<1>1. SecretAt(t) \in Secrets /\ SecretAt(t) # Absent /\ at[t] \in Entries(t) /\ at[t] \in Nat
  BY ReadingAt DEF ReadErr
<1>2. AskedBy(t) = SecretAt(t)
  BY DEF ReadErr, AskedBy
<1>3. /\ snap[SecretAt(t)] = Absent /\ UNCHANGED <<snap, pc, vault>>
      /\ plan'[t][<<at[t], 0>>].reason = "vault"
      /\ at' = [at EXCEPT ![t] = at[t] + 1] /\ pc[t] = "building"
      /\ \A u \in Targets \ {t} : plan'[u] = plan[u] /\ at'[u] = at[u]
  <2>1. at \in [Targets -> Nat]
    BY DEF TypeOK
  <2> QED
    BY <2>1, ReadErrEffect
<1>4. GotBy(t)' = Absent
  <2>1. at'[t] = at[t] + 1 /\ at'[t] > 1 /\ at'[t] - 1 = at[t]
    <3>1. at \in [Targets -> Nat]
      BY DEF TypeOK
    <3>2. at'[t] = at[t] + 1
      BY <1>3, <3>1
    <3>3. at[t] \in Nat /\ at[t] >= 1
      BY <1>1 DEF Entries
    <3> QED
      BY <3>2, <3>3
  <2>2. ReadBy(t)'[at[t]] = Absent
    BY <1>1, <1>3 DEF ReadBy
  <2> QED
    BY <1>3, <2>1, <2>2 DEF GotBy
<1>5. ASSUME NEW u \in Targets \ {t}
      PROVE  AskedBy(u)' = AskedBy(u) /\ GotBy(u)' = GotBy(u)
  BY <1>3, MappedAt
<1>6. MappedAsked' = [MappedAsked EXCEPT ![t] = MappedAsked'[t]]
  BY <1>5 DEF MappedAsked
<1>7. MappedGot' = [MappedGot EXCEPT ![t] = Absent]
  BY <1>4, <1>5 DEF MappedGot
<1> QED
  BY <1>1, <1>2, <1>3, <1>6, <1>7 DEF Source!Fail, Source!Asks, MappedAsked, MappedGot

(* With its claim a target asks for its first secret, if it has entries. *)
LEMMA ClaimRefines ==
    ASSUME TypeOK, Starting, NEW t \in Targets, Claim(t)
    PROVE  \/ SecretAt(t) \in Secrets /\ Source!Ask(t, SecretAt(t))
           \/ UNCHANGED Source!vars
<1>1. /\ pc[t] = "claiming" /\ pc' = [pc EXCEPT ![t] = "building"] /\ at[t] = 1
      /\ UNCHANGED <<at, plan, snap, vault>>
  BY DEF Claim, Starting, remote
<1>2. ASSUME NEW u \in Targets \ {t}
      PROVE  AskedBy(u)' = AskedBy(u) /\ GotBy(u)' = GotBy(u)
  BY <1>1, MappedAt DEF TypeOK
<1>3. AskedBy(t) = Absent /\ GotBy(t) = Absent /\ GotBy(t)' = Absent
  BY <1>1 DEF AskedBy, GotBy, Reading, TypeOK
<1>4. MappedGot' = MappedGot
  BY <1>2, <1>3 DEF MappedGot
<1>5. MappedAsked' = [MappedAsked EXCEPT ![t] = AskedBy(t)']
  BY <1>2 DEF MappedAsked
<1>6. CASE 1 \in Entries(t)
  <2>1. SecretAt(t) \in Secrets
    BY <1>1, <1>6, SecretOfEntry DEF SecretAt
  <2>2. AskedBy(t)' = SecretAt(t)
    BY <1>1, <1>6 DEF AskedBy, Reading, SecretAt, TypeOK
  <2> QED
    BY <1>1, <1>3, <1>4, <1>5, <2>1, <2>2 DEF Source!Ask, MappedAsked, MappedGot
<1>7. CASE 1 \notin Entries(t)
  <2>1. AskedBy(t)' = Absent
    BY <1>1, <1>7 DEF AskedBy, Reading
  <2>2. MappedAsked' = MappedAsked
    BY <1>2, <1>3, <2>1 DEF MappedAsked
  <2> QED
    BY <1>1, <1>4, <2>2, UnmappedUntouched
<1> QED
  BY <1>6, <1>7

(* Once its listing is answered a target has no use for its last read. *)
LEMMA ListingRefines ==
    ASSUME TypeOK, NEW t \in Targets, Lists(t) \/ ListErr(t)
    PROVE  Source!Forget(t)
<1>1. /\ Listing(t) /\ pc'[t] \in {"applying", "returning"}
      /\ \A u \in Targets \ {t} : pc'[u] = pc[u] /\ plan'[u] = plan[u]
      /\ UNCHANGED <<at, snap, vault>>
  BY DEF Lists, ListOk, ListMissing, Observes, ListErr, GiveUp, TypeOK, shared, remote
<1>2. ASSUME NEW u \in Targets \ {t}
      PROVE  AskedBy(u)' = AskedBy(u) /\ GotBy(u)' = GotBy(u)
  BY <1>1, MappedAt
<1>3. AskedBy(t) = Absent /\ AskedBy(t)' = Absent /\ GotBy(t)' = Absent
  BY <1>1 DEF AskedBy, GotBy, Reading, Listing
<1>4. MappedAsked' = MappedAsked
  BY <1>2, <1>3 DEF MappedAsked
<1>5. MappedGot' = [MappedGot EXCEPT ![t] = Absent]
  BY <1>2, <1>3 DEF MappedGot
<1> QED
  BY <1>1, <1>3, <1>4, <1>5 DEF Source!Forget, MappedAsked, MappedGot

(* The other steps of a target do not concern the source. *)
LEMMA OtherStepRefines ==
    ASSUME TypeOK, NEW t \in Targets,
           \/ Acquire(t) \/ ResolveKnown(t) \/ ResolveOk(t) \/ ResolveErr(t)
           \/ Refuse(t) \/ Apply(t) \/ Return(t)
    PROVE  UNCHANGED Source!vars
<1> USE DEF local, shared, remote
<1>1. /\ pc[t] # "building" /\ pc'[t] # "building"
      /\ \A u \in Targets \ {t} : pc'[u] = pc[u] /\ plan'[u] = plan[u]
      /\ UNCHANGED <<at, snap, vault>>
  BY DEF Acquire, ResolveKnown, ResolveOk, ResolveErr, MustLookUp, Refuse, GiveUp, Return,
         Apply, ApplyOk, ApplyErr, ApplyLost, Failed, IsNext, TypeOK
<1>2. ASSUME NEW u \in Targets  PROVE AskedBy(u)' = AskedBy(u) /\ GotBy(u)' = GotBy(u)
  <2>1. CASE u = t
    BY <1>1, <2>1 DEF AskedBy, GotBy, Reading
  <2>2. CASE u # t
    BY <1>1, <2>2, MappedAt
  <2> QED
    BY <2>1, <2>2
<1>3. MappedAsked' = MappedAsked /\ MappedGot' = MappedGot
  BY <1>2 DEF MappedAsked, MappedGot
<1> QED
  BY <1>1, <1>3, UnmappedUntouched

(* Between two passes nobody waits for a read. *)
LEMMA NewPassRefines ==
    ASSUME TypeOK, NewPass
    PROVE  Source!BeginPass
<1>1. /\ \A u \in Targets : pc[u] = "done" /\ pc'[u] = "waiting"
      /\ snap' = [s \in Secrets |-> Absent]
      /\ UNCHANGED vault
  BY DEF NewPass
<1>2. \A u \in Targets : /\ AskedBy(u) = Absent /\ GotBy(u) = Absent
                        /\ AskedBy(u)' = Absent /\ GotBy(u)' = Absent
  BY <1>1 DEF AskedBy, GotBy, Reading
<1> QED
  BY <1>1, <1>2 DEF Source!BeginPass

(* A rotation reaches the source, the other disturbances do not. *)
LEMMA EnvironmentRefines ==
    ASSUME TypeOK, Environment
    PROVE  \/ \E s \in Secrets, content \in Read : Source!VaultWrite(s, content)
           \/ UNCHANGED Source!vars
<1> USE DEF local, shared, remote
<1>1. UNCHANGED <<pc, at, plan, snap>>
  BY DEF Environment, PassTimeout, Rebuild, LateApply, LateDrop, Meddle, VaultWrite, Rename
<1>2. MappedAsked' = MappedAsked /\ MappedGot' = MappedGot
  BY <1>1, MappedAt DEF MappedAsked, MappedGot
<1>3. CASE \E r \in Rotations : VaultWrite(r[1], r[2])
  <2>1. PICK r \in Rotations : VaultWrite(r[1], r[2])
    BY <1>3
  <2>2. r[1] \in Secrets /\ r[2] \in Read
    BY EnvironmentAssumption
  <2>3. Source!VaultWrite(r[1], r[2])
    BY <1>1, <1>2, <2>1 DEF VaultWrite, Source!VaultWrite, MappedAsked, MappedGot
  <2> QED
    BY <2>2, <2>3
<1>4. CASE ~\E r \in Rotations : VaultWrite(r[1], r[2])
  <2>1. UNCHANGED vault
    BY <1>4 DEF Environment, PassTimeout, Rebuild, LateApply, LateDrop, Meddle, Rename
  <2> QED
    BY <1>1, <1>2, <2>1, UnmappedUntouched
<1> QED
  BY <1>3, <1>4

(* A target waits for a secret or for nothing. *)
LEMMA AskedType ==
    ASSUME NEW t \in Targets
    PROVE  MappedAsked'[t] \in Secrets \union {Absent}
BY SecretOfEntry DEF MappedAsked, AskedBy, Reading, SecretAt

(* Every step of the reconciler is one of the source or a stutter. *)
LEMMA UseStep ==
    ASSUME TypeOK, TypeOK', Starting, ReadsKept, [Next]_vars
    PROVE  [Source!Next]_(Source!vars)
<1>1. ASSUME NEW t \in Targets, Step(t)  PROVE [Source!Next]_(Source!vars)
  <2>0. MappedAsked'[t] \in Secrets \union {Absent}
    BY AskedType
  <2>1. CASE ReadOk(t)
    BY <2>0, <2>1, ReadOkRefines DEF Source!Next
  <2>2. CASE ReadErr(t)
    BY <2>0, <2>2, ReadErrRefines DEF Source!Next
  <2>3. CASE Claim(t)
    BY <2>3, ClaimRefines DEF Source!Next
  <2>4. CASE Lists(t) \/ ListErr(t)
    BY <2>4, ListingRefines DEF Source!Next
  <2>5. CASE \/ Acquire(t) \/ ResolveKnown(t) \/ ResolveOk(t) \/ ResolveErr(t)
             \/ Refuse(t) \/ Apply(t) \/ Return(t)
    BY <2>5, OtherStepRefines
  <2> QED
    BY <1>1, <2>1, <2>2, <2>3, <2>4, <2>5 DEF Step
<1>2. CASE NewPass
  BY <1>2, NewPassRefines DEF Source!Next
<1>3. CASE Environment
  BY <1>3, EnvironmentRefines DEF Source!Next, Read
<1>4. CASE UNCHANGED vars
  <2>1. UNCHANGED <<pc, at, plan, snap, vault>>
    BY <1>4 DEF vars, local, shared, remote
  <2>2. MappedAsked' = MappedAsked /\ MappedGot' = MappedGot
    BY <2>1, MappedAt DEF MappedAsked, MappedGot
  <2> QED
    BY <2>1, <2>2, UnmappedUntouched
<1> QED
  BY <1>1, <1>2, <1>3, <1>4 DEF Next

(* The mapped initial states are the source's. *)
LEMMA UseInit ==
    ASSUME Init
    PROVE  Source!Init /\ Starting /\ ReadsKept
<1>1. \A t \in Targets : pc[t] = "waiting" /\ at[t] = 1
  BY DEF Init
<1>2. \A t \in Targets : AskedBy(t) = Absent /\ GotBy(t) = Absent
  BY <1>1 DEF AskedBy, GotBy, Reading
<1>3. vault \in [Secrets -> Contents \union {Absent}] /\ snap = [s \in Secrets |-> Absent]
  BY EnvironmentAssumption DEF Init, Read
<1> QED
  BY <1>1, <1>2, <1>3 DEF Source!Init, Starting, ReadsKept

(* The reconciler uses the caching source as SecretSource promises it: its  *)
(* targets, each waiting for one read at a time, are readers of one pass    *)
(* after the other, and every snapshot they work with is the source's       *)
(* (reconciler.go:36-38, desired.go:103).                                   *)
THEOREM SourceUsed == Spec => UsesSource
<1>1. Init => Source!Init /\ Starting /\ ReadsKept
  BY UseInit
<1>2. TypeOK /\ Starting /\ ReadsKept /\ [Next]_vars => Starting' /\ ReadsKept'
  BY ReadsStep
<1>3. TypeOK /\ TypeOK' /\ Starting /\ ReadsKept /\ [Next]_vars => [Source!Next]_(Source!vars)
  BY UseStep
<1> QED
  BY <1>1, <1>2, <1>3, Typing, PTL DEF Spec, UsesSource, Source!Spec
=============================================================================
