-------------------------- MODULE SecretCacheProofs --------------------------
(***************************************************************************)
(* What the caching source promises to the targets of a pass, for any      *)
(* number of readers, secrets, passes and writes.                          *)
(***************************************************************************)
EXTENDS SecretCache, TLAPS

(* A reader that is not idle reads a secret. *)
AskedWhileBusy == \A r \in Readers : pc[r] # "idle" => asked[r] \in Secrets

(* What is in Vault is a content, or nothing. *)
LEMMA CurrentType ==
    ASSUME TypeOK, NEW s \in Secrets
    PROVE  /\ Version(s) \in Nat
           /\ Current(s) \in Contents \union {Absent}
           /\ Readable(s) \in Contents \union {Absent}
           /\ Exists(s) => Current(s) \in Contents /\ Current(s) = written[s][Version(s)]
BY DEF TypeOK, Version, Exists, Current, Readable

(* An entry marked as verified in a pass is an entry. *)
LEMMA MarkType ==
    ASSUME NEW e \in Entry, NEW p \in Nat
    PROVE  [e EXCEPT !.pass = p] \in Entry
BY DEF Entry

(* The end of a read frees the lock and keeps the types. *)
LEMMA FinishType ==
    ASSUME TypeOK, AskedWhileBusy, NEW r \in Readers, pc[r] # "idle",
           NEW content \in Contents \union {Absent}, Finish(r, content)
    PROVE  /\ result' \in [Readers -> Contents \union {Absent}]
           /\ holder' \in [Secrets -> Readers \union {Absent}]
           /\ asked' \in [Readers -> Secrets \union {Absent}]
           /\ pc' \in [Readers -> {"idle", "waiting", "checking", "fetching"}]
           /\ AskedWhileBusy'
BY DEF TypeOK, AskedWhileBusy, Finish

(* A read that succeeds, on an entry that keeps its type. *)
LEMMA SucceedType ==
    ASSUME TypeOK, AskedWhileBusy, NEW r \in Readers, pc[r] # "idle",
           NEW content \in Contents, Succeed(r, content),
           entry' \in [Secrets -> Entry], calls' \in [Secrets -> Nat],
           UNCHANGED <<kv, pass, reads, fails, current, readable>>
    PROVE  TypeOK' /\ AskedWhileBusy'
<1>1. answers' \in [Secrets -> SUBSET Contents]
  BY DEF TypeOK, AskedWhileBusy, Succeed
<1> QED
  BY <1>1, FinishType DEF Succeed, TypeOK, kv

(* A read that fails. *)
LEMMA ErrType ==
    ASSUME TypeOK, AskedWhileBusy, NEW r \in Readers, pc[r] # "idle", Err(r),
           calls' \in [Secrets -> Nat],
           UNCHANGED <<kv, pass, entry, reads, current, readable, answers>>
    PROVE  TypeOK' /\ AskedWhileBusy'
<1>1. fails' \in [Secrets -> Nat]
  BY DEF TypeOK, AskedWhileBusy, Err
<1> QED
  BY <1>1, FinishType DEF Err, TypeOK, kv

(* Every step keeps the types. *)
LEMMA TypeStep ==
    ASSUME TypeOK, AskedWhileBusy, [Next]_vars
    PROVE  TypeOK' /\ AskedWhileBusy'
<1>1. CASE BeginPass
  <2>1. /\ current' \in [Secrets -> SUBSET (Contents \union {Absent})]
        /\ readable' \in [Secrets -> SUBSET (Contents \union {Absent})]
    BY <1>1, CurrentType DEF BeginPass
  <2>2. pass' \in 0..MaxPass
    BY <1>1, CacheAssumption DEF BeginPass, TypeOK
  <2> QED
    BY <1>1, <2>1, <2>2, CacheAssumption DEF BeginPass, TypeOK, AskedWhileBusy, kv
<1>2. ASSUME NEW r \in Readers, NEW s \in Secrets, Call(r, s)
      PROVE  TypeOK' /\ AskedWhileBusy'
  BY <1>2, CacheAssumption DEF Call, TypeOK, AskedWhileBusy, kv, history
<1>3. ASSUME NEW r \in Readers, Reader(r)
      PROVE  TypeOK' /\ AskedWhileBusy'
  <2>1. CASE Lock(r)
    BY <2>1 DEF Lock, TypeOK, AskedWhileBusy, kv, history
  <2>2. ASSUME Checks(r)  PROVE calls' \in [Secrets -> Nat] /\ pc[r] # "idle" /\ asked[r] \in Secrets
    BY <2>2 DEF Checks, TypeOK, AskedWhileBusy
  <2>3. CASE MemoHit(r)
    <3>1. pc[r] # "idle" /\ entry[asked[r]].data \in Contents
      BY <2>3 DEF MemoHit, Memoized, TypeOK, AskedWhileBusy, Entry
    <3> QED
      BY <2>3, <3>1, SucceedType DEF MemoHit, TypeOK, kv
  <2>4. CASE VersionErr(r)
    BY <2>2, <2>4, ErrType DEF VersionErr, kv
  <2>5. CASE VersionSame(r)
    <3>1. entry[asked[r]].data \in Contents
      BY <2>2, <2>5 DEF VersionSame, SameVersion, TypeOK, Entry
    <3>2. entry' \in [Secrets -> Entry]
      <4>1. asked[r] \in Secrets
        BY <2>2, <2>5 DEF VersionSame
      <4>2. pass \in Nat
        BY CacheAssumption DEF TypeOK
      <4>3. [entry[asked[r]] EXCEPT !.pass = pass] \in Entry
        BY <4>1, <4>2, MarkType DEF TypeOK
      <4>4. entry' = [entry EXCEPT ![asked[r]].pass = pass]
        BY <2>5 DEF VersionSame
      <4> QED
        BY <4>1, <4>3, <4>4 DEF TypeOK
    <3> QED
      BY <2>2, <2>5, <3>1, <3>2, SucceedType DEF VersionSame, kv
  <2>6. CASE VersionDiffers(r)
    BY <2>2, <2>6 DEF VersionDiffers, TypeOK, AskedWhileBusy, kv
  <2>7. CASE DataOk(r)
    <3>1. pc[r] # "idle" /\ asked[r] \in Secrets
      BY <2>7 DEF DataOk, AskedWhileBusy
    <3>2. Version(asked[r]) \in Nat /\ Current(asked[r]) \in Contents
      BY <2>7, <3>1, CurrentType DEF DataOk
    <3>3. entry' \in [Secrets -> Entry]
      <4>1. [version |-> Version(asked[r]), data |-> Current(asked[r]), pass |-> pass] \in Entry
        BY <3>2, CacheAssumption DEF TypeOK, Entry
      <4> QED
        BY <2>7, <4>1 DEF DataOk, TypeOK
    <3> QED
      BY <2>7, <3>1, <3>2, <3>3, SucceedType DEF DataOk, TypeOK, kv
  <2>8. CASE DataErr(r)
    BY <2>8, ErrType DEF DataErr, TypeOK, kv
  <2> QED
    BY <1>3, <2>1, <2>3, <2>4, <2>5, <2>6, <2>7, <2>8 DEF Reader
<1>4. ASSUME NEW s \in Secrets, Vault(s)
      PROVE  TypeOK' /\ AskedWhileBusy'
  <2>1. writes' \in [Secrets -> 0..MaxWrites]
    BY <1>4, CacheAssumption DEF Vault, Put, Toggle, DeleteMetadata, Writes, TypeOK
  <2>2. ASSUME NEW content \in Contents, Put(s, content)  PROVE TypeOK' /\ AskedWhileBusy'
    BY <2>1, <2>2 DEF Put, KvUnchanged, TypeOK, AskedWhileBusy
  <2>3. CASE Toggle(s)
    BY <2>1, <2>3, CurrentType DEF Toggle, KvUnchanged, TypeOK, AskedWhileBusy
  <2>4. CASE DeleteMetadata(s)
    BY <2>1, <2>4 DEF DeleteMetadata, KvUnchanged, TypeOK, AskedWhileBusy
  <2> QED
    BY <1>4, <2>2, <2>3, <2>4 DEF Vault
<1>5. CASE UNCHANGED vars
  BY <1>5 DEF vars, kv, history, TypeOK, AskedWhileBusy
<1> QED
  BY <1>1, <1>2, <1>3, <1>4, <1>5 DEF Next

(* Types, for any number of readers, secrets and passes. *)
THEOREM CacheTyping == Spec => [](TypeOK /\ AskedWhileBusy)
<1>1. Init => TypeOK /\ AskedWhileBusy
  <2> SUFFICES ASSUME Init  PROVE TypeOK /\ AskedWhileBusy
    OBVIOUS
  <2>1. written \in [Secrets -> Seq(Contents)]
    <3>1. \A c \in Contents : <<c>> \in Seq(Contents)
      OBVIOUS
    <3>2. {<<c>> : c \in Contents} \subseteq Seq(Contents)
      BY <3>1, Zenon
    <3>3. {<<>>} \subseteq Seq(Contents)
      OBVIOUS
    <3> QED
      BY <3>2, <3>3 DEF Init
  <2>2. \A s \in Secrets : /\ Current(s) \in Contents \union {Absent}
                           /\ Readable(s) \in Contents \union {Absent}
    BY <2>1 DEF Current, Readable, Exists, Version
  <2>3. /\ current \in [Secrets -> SUBSET (Contents \union {Absent})]
        /\ readable \in [Secrets -> SUBSET (Contents \union {Absent})]
    BY <2>2 DEF Init
  <2>4. entry \in [Secrets -> Entry]
    BY DEF Init, Entry, NoEntry
  <2> QED
    BY <2>1, <2>3, <2>4, CacheAssumption DEF Init, TypeOK, AskedWhileBusy
<1>2. TypeOK /\ AskedWhileBusy /\ [Next]_vars => (TypeOK /\ AskedWhileBusy)'
  BY TypeStep
<1> QED
  BY <1>1, <1>2, PTL DEF Spec

-----------------------------------------------------------------------------
(* The lock of an entry is held by the reader between its two calls and by  *)
(* nobody else.                                                             *)

(* A read that ends leaves the locks in order. *)
LEMMA FinishLock ==
    ASSUME TypeOK, AskedWhileBusy, LockHeldWhileInside,
           NEW r \in Readers, Inside(r), NEW content, Finish(r, content)
    PROVE  LockHeldWhileInside'
BY CacheAssumption DEF TypeOK, AskedWhileBusy, LockHeldWhileInside, Inside, Finish

LEMMA LockStep ==
    ASSUME TypeOK, AskedWhileBusy, LockHeldWhileInside, [Next]_vars
    PROVE  LockHeldWhileInside'
<1>1. CASE BeginPass
  BY <1>1 DEF BeginPass, LockHeldWhileInside, Inside
<1>2. ASSUME NEW r \in Readers, NEW s \in Secrets, Call(r, s)
      PROVE  LockHeldWhileInside'
  BY <1>2 DEF Call, TypeOK, LockHeldWhileInside, Inside
<1>3. ASSUME NEW r \in Readers, Reader(r)
      PROVE  LockHeldWhileInside'
  <2>1. CASE Lock(r)
    BY <2>1, CacheAssumption DEF Lock, TypeOK, AskedWhileBusy, LockHeldWhileInside, Inside
  <2>2. CASE VersionDiffers(r)
    BY <2>2 DEF VersionDiffers, Checks, TypeOK, LockHeldWhileInside, Inside
  <2>3. CASE MemoHit(r)
    BY <2>3, FinishLock DEF MemoHit, Succeed, Inside
  <2>4. CASE VersionErr(r)
    BY <2>4, FinishLock DEF VersionErr, Checks, Err, Inside
  <2>5. CASE VersionSame(r)
    BY <2>5, FinishLock DEF VersionSame, Checks, Succeed, Inside
  <2>6. CASE DataOk(r)
    BY <2>6, FinishLock DEF DataOk, Succeed, Inside
  <2>7. CASE DataErr(r)
    BY <2>7, FinishLock DEF DataErr, Err, Inside
  <2> QED
    BY <1>3, <2>1, <2>2, <2>3, <2>4, <2>5, <2>6, <2>7 DEF Reader
<1>4. ASSUME NEW s \in Secrets, Vault(s)
      PROVE  LockHeldWhileInside'
  BY <1>4 DEF Vault, Put, Toggle, DeleteMetadata, KvUnchanged, LockHeldWhileInside, Inside
<1>5. CASE UNCHANGED vars
  BY <1>5 DEF vars, LockHeldWhileInside, Inside
<1> QED
  BY <1>1, <1>2, <1>3, <1>4, <1>5 DEF Next

(* Readers of one secret take turns at its refresh, and no path out of Read *)
(* keeps the lock (cache.go:66-67).                                         *)
THEOREM LockDiscipline == Spec => []LockHeldWhileInside
<1>1. Init => LockHeldWhileInside
  BY CacheAssumption DEF Init, LockHeldWhileInside, Inside
<1>2. TypeOK /\ AskedWhileBusy /\ LockHeldWhileInside /\ [Next]_vars => LockHeldWhileInside'
  BY LockStep
<1> QED
  BY <1>1, <1>2, CacheTyping, PTL DEF Spec

-----------------------------------------------------------------------------
(* One content per pass.  What a pass has answered is what the entry holds, *)
(* verified in this pass: so a later answer is the same.  This survives the *)
(* data call only because the lock keeps everybody else out meanwhile: a    *)
(* reader between its two calls finds nothing verified when it comes back.  *)
FetchingUnverified ==
    \A r \in Readers : pc[r] = "fetching" => ~Memoized(asked[r])
AnsweredFromEntry ==
    pass # 0 => \A s \in Secrets : \A c \in answers[s] : Memoized(s) /\ c = entry[s].data
OneAnswer == FetchingUnverified /\ AnsweredFromEntry

(* A read that succeeds with what its entry now holds. *)
LEMMA AnswerStep ==
    ASSUME TypeOK, AskedWhileBusy, LockHeldWhileInside, OneAnswer,
           NEW r \in Readers, Inside(r), NEW content \in Contents, Succeed(r, content),
           entry' \in [Secrets -> Entry],
           \A s \in Secrets \ {asked[r]} : entry'[s] = entry[s],
           entry'[asked[r]].data = content,
           pass # 0 => entry'[asked[r]].pass = pass,
           \/ ~Memoized(asked[r])
           \/ entry[asked[r]].data = content,
           pass' = pass
    PROVE  OneAnswer'
<1>1. asked[r] \in Secrets
  BY DEF Inside, AskedWhileBusy
<1>2. \A q \in Readers \ {r} : pc[q] = "fetching" => asked[q] \in Secrets \ {asked[r]}
  BY <1>1 DEF LockHeldWhileInside, Inside, AskedWhileBusy, TypeOK
<1>3. FetchingUnverified'
  BY <1>1, <1>2 DEF OneAnswer, FetchingUnverified, Succeed, Finish, Memoized, TypeOK
<1>4. AnsweredFromEntry'
  <2>1. content # Absent
    BY CacheAssumption
  <2> QED
    BY <1>1, <2>1 DEF OneAnswer, AnsweredFromEntry, Succeed, Memoized, TypeOK
<1> QED
  BY <1>3, <1>4 DEF OneAnswer

LEMMA OneAnswerStep ==
    ASSUME TypeOK, TypeOK', AskedWhileBusy, LockHeldWhileInside, OneAnswer, [Next]_vars
    PROVE  OneAnswer'
<1> USE DEF OneAnswer
<1>1. CASE BeginPass
  BY <1>1 DEF BeginPass, FetchingUnverified, AnsweredFromEntry
<1>2. ASSUME NEW r \in Readers, NEW s \in Secrets, Call(r, s)
      PROVE  OneAnswer'
  BY <1>2 DEF Call, history, FetchingUnverified, AnsweredFromEntry, Memoized, TypeOK
<1>3. ASSUME NEW r \in Readers, Reader(r)
      PROVE  OneAnswer'
  <2>1. CASE Lock(r)
    BY <2>1 DEF Lock, history, FetchingUnverified, AnsweredFromEntry, Memoized, TypeOK
  <2>2. CASE VersionDiffers(r)
    BY <2>2 DEF VersionDiffers, Checks, FetchingUnverified, AnsweredFromEntry, Memoized, TypeOK
  <2>3. CASE VersionErr(r)
    BY <2>3 DEF VersionErr, Err, Finish, FetchingUnverified, AnsweredFromEntry, Memoized, TypeOK
  <2>4. CASE DataErr(r)
    BY <2>4 DEF DataErr, Err, Finish, FetchingUnverified, AnsweredFromEntry, Memoized, TypeOK
  <2>5. CASE MemoHit(r)
    <3>1. asked[r] \in Secrets /\ Inside(r)
      BY <2>5 DEF MemoHit, AskedWhileBusy, Inside
    <3>2. entry[asked[r]].data \in Contents
      BY <2>5, <3>1 DEF MemoHit, Memoized, TypeOK, Entry
    <3> QED
      BY <2>5, <3>1, <3>2, AnswerStep DEF MemoHit, Memoized, TypeOK
  <2>6. CASE VersionSame(r)
    <3>1. asked[r] \in Secrets /\ Inside(r)
      BY <2>6 DEF VersionSame, Checks, AskedWhileBusy, Inside
    <3>2. entry[asked[r]].data \in Contents
      BY <2>6, <3>1 DEF VersionSame, SameVersion, TypeOK, Entry
    <3>3. entry' = [entry EXCEPT ![asked[r]].pass = pass] /\ pass' = pass
      BY <2>6 DEF VersionSame
    <3>4. entry'[asked[r]].data = entry[asked[r]].data /\ entry'[asked[r]].pass = pass
      BY <3>1, <3>3 DEF TypeOK, Entry
    <3>5. \A s \in Secrets \ {asked[r]} : entry'[s] = entry[s]
      BY <3>1, <3>3 DEF TypeOK
    <3> QED
      BY <2>6, <3>1, <3>2, <3>3, <3>4, <3>5, AnswerStep DEF VersionSame, TypeOK
  <2>7. CASE DataOk(r)
    <3>1. asked[r] \in Secrets /\ Inside(r)
      BY <2>7 DEF DataOk, AskedWhileBusy, Inside
    <3>2. Current(asked[r]) \in Contents
      BY <2>7, <3>1, CurrentType DEF DataOk
    <3>3. ~Memoized(asked[r])
      BY <2>7 DEF DataOk, FetchingUnverified
    <3> QED
      BY <2>7, <3>1, <3>2, <3>3, AnswerStep DEF DataOk, TypeOK
  <2> QED
    BY <1>3, <2>1, <2>2, <2>3, <2>4, <2>5, <2>6, <2>7 DEF Reader
<1>4. ASSUME NEW s \in Secrets, Vault(s)
      PROVE  OneAnswer'
  BY <1>4 DEF Vault, Put, Toggle, DeleteMetadata, KvUnchanged,
              FetchingUnverified, AnsweredFromEntry, Memoized
<1>5. CASE UNCHANGED vars
  BY <1>5 DEF vars, history, FetchingUnverified, AnsweredFromEntry, Memoized
<1> QED
  BY <1>1, <1>2, <1>3, <1>4, <1>5 DEF Next

(* All targets of a pass see one content of a secret, however often it is   *)
(* rotated, deleted and written again meanwhile.                            *)
THEOREM OneContent == Spec => []OneContentPerPass
<1>1. Init => OneAnswer
  BY DEF Init, OneAnswer, FetchingUnverified, AnsweredFromEntry
<1>2. /\ TypeOK /\ AskedWhileBusy /\ LockHeldWhileInside /\ OneAnswer
      /\ TypeOK'
      /\ [Next]_vars
      => OneAnswer'
  BY OneAnswerStep
<1>3. OneAnswer => OneContentPerPass
  BY DEF OneAnswer, AnsweredFromEntry, OneContentPerPass
<1> QED
  BY <1>1, <1>2, <1>3, CacheTyping, LockDiscipline, PTL DEF Spec

-----------------------------------------------------------------------------
(* Economy.  Every metadata call of a pass is accounted for: by a read that *)
(* failed, or by the one that verified the entry or is about to.            *)
Fetching(s) == \E r \in Readers : pc[r] = "fetching" /\ asked[r] = s
CallsAccounted ==
    pass # 0 => \A s \in Secrets :
        calls[s] <= fails[s] + (IF Memoized(s) \/ Fetching(s) THEN 1 ELSE 0)

(* A reader that holds an entry's lock shuts the data calls of others out.  *)
LEMMA AloneInside ==
    ASSUME AskedWhileBusy, LockHeldWhileInside, NEW r \in Readers, Inside(r)
    PROVE  /\ asked[r] \in Secrets
           /\ \A q \in Readers \ {r} : pc[q] = "fetching" => asked[q] # asked[r]
<1>1. asked[r] \in Secrets
  BY DEF AskedWhileBusy, Inside
<1> QED
  BY <1>1 DEF LockHeldWhileInside, Inside

LEMMA CallsStep ==
    ASSUME TypeOK, TypeOK', AskedWhileBusy, LockHeldWhileInside, FetchingUnverified,
           CallsAccounted, [Next]_vars
    PROVE  CallsAccounted'
<1>1. CASE BeginPass
  BY <1>1 DEF BeginPass, CallsAccounted
<1>2. ASSUME NEW r \in Readers, NEW s \in Secrets, Call(r, s)
      PROVE  CallsAccounted'
  BY <1>2 DEF Call, history, CallsAccounted, Fetching, Memoized, TypeOK
<1>3. ASSUME NEW r \in Readers, Reader(r)
      PROVE  CallsAccounted'
  <2>1. CASE Lock(r)
    BY <2>1 DEF Lock, history, CallsAccounted, Fetching, Memoized, TypeOK
  <2> SUFFICES ASSUME Inside(r), ~Lock(r), NEW s \in Secrets, s = asked[r]
               PROVE  CallsAccounted'
    BY <1>3, <2>1, AloneInside
    DEF Reader, MemoHit, VersionErr, VersionSame, VersionDiffers, Checks, DataOk, DataErr, Inside
  <2>2. s \in Secrets /\ \A q \in Readers \ {r} : pc[q] = "fetching" => asked[q] # s
    BY AloneInside
  <2>3. calls[s] \in Nat /\ fails[s] \in Nat
    BY <2>2 DEF TypeOK
  <2>4. \A u \in Secrets \ {s} : Fetching(u)' <=> Fetching(u)
    <3>1. /\ \A q \in Readers \ {r} : pc'[q] = pc[q] /\ asked'[q] = asked[q]
          /\ pc'[r] = "fetching" => asked'[r] = s
      BY <1>3
      DEF Reader, MemoHit, VersionErr, VersionSame, VersionDiffers, Checks, DataOk, DataErr,
          Succeed, Err, Finish, TypeOK
    <3> QED
      BY <3>1 DEF Fetching
  <2>5. \A u \in Secrets \ {s} :
           calls'[u] = calls[u] /\ fails'[u] = fails[u] /\ (Memoized(u)' <=> Memoized(u))
    BY <1>3, <2>2
    DEF Reader, Lock, MemoHit, VersionErr, VersionSame, VersionDiffers, Checks, DataOk, DataErr,
        Succeed, Err, Finish, Memoized, TypeOK
  <2>15. pass' = pass
    BY <1>3 DEF Reader, MemoHit, VersionErr, VersionSame, VersionDiffers, DataOk, DataErr
  <2>6. SUFFICES ASSUME pass # 0
        PROVE  calls'[s] <= fails'[s] + (IF Memoized(s)' \/ Fetching(s)' THEN 1 ELSE 0)
    BY <2>4, <2>5, <2>15 DEF CallsAccounted
  <2>7. calls[s] <= fails[s] + (IF Memoized(s) \/ Fetching(s) THEN 1 ELSE 0)
    BY <2>2, <2>6 DEF CallsAccounted
  <2>8. CASE MemoHit(r)
    <3>1. Memoized(s) /\ Memoized(s)' /\ calls' = calls /\ fails' = fails
      BY <2>8 DEF MemoHit, Memoized
    <3> QED
      BY <2>3, <2>7, <3>1
  <2>9. ASSUME Checks(r)
        PROVE  calls[s] <= fails[s] /\ calls'[s] = calls[s] + 1
    <3>1. ~Memoized(s) /\ ~Fetching(s)
      BY <2>2, <2>9 DEF Checks, Fetching
    <3> QED
      BY <2>2, <2>3, <2>7, <2>9, <3>1 DEF Checks, TypeOK
  <2>10. CASE VersionErr(r)
    BY <2>2, <2>3, <2>9, <2>10 DEF VersionErr, Err, TypeOK
  <2>11. CASE VersionSame(r)
    <3>1. Memoized(s)'
      <4>1. entry' = [entry EXCEPT ![s].pass = pass] /\ entry[s].data # Absent
        BY <2>11 DEF VersionSame, SameVersion
      <4>2. entry'[s].pass = pass /\ entry'[s].data = entry[s].data
        BY <2>2, <4>1 DEF TypeOK, Entry
      <4> QED
        BY <2>6, <2>15, <4>1, <4>2 DEF Memoized
    <3> QED
      BY <2>2, <2>3, <2>9, <2>11, <3>1 DEF VersionSame
  <2>12. CASE VersionDiffers(r)
    <3>1. Fetching(s)'
      BY <2>12 DEF VersionDiffers, Fetching, TypeOK
    <3> QED
      BY <2>2, <2>3, <2>9, <2>12, <3>1 DEF VersionDiffers
  <2>13. CASE DataOk(r)
    <3>1. Current(s) \in Contents /\ Current(s) # Absent
      BY <2>2, <2>13, CurrentType, CacheAssumption DEF DataOk
    <3>2. Memoized(s)'
      <4>1. entry' = [entry EXCEPT ![s] =
               [version |-> Version(s), data |-> Current(s), pass |-> pass]]
        BY <2>13 DEF DataOk
      <4>2. entry'[s].pass = pass /\ entry'[s].data = Current(s)
        BY <2>2, <4>1 DEF TypeOK
      <4> QED
        BY <2>6, <2>15, <3>1, <4>2 DEF Memoized
    <3> QED
      BY <2>2, <2>3, <2>7, <2>13, <3>2 DEF DataOk
  <2>14. CASE DataErr(r)
    BY <2>2, <2>3, <2>7, <2>14 DEF DataErr, Err, TypeOK
  <2> QED
    BY <1>3, <2>8, <2>10, <2>11, <2>12, <2>13, <2>14 DEF Reader
<1>4. ASSUME NEW s \in Secrets, Vault(s)
      PROVE  CallsAccounted'
  BY <1>4 DEF Vault, Put, Toggle, DeleteMetadata, KvUnchanged, CallsAccounted, Fetching, Memoized
<1>5. CASE UNCHANGED vars
  BY <1>5 DEF vars, history, CallsAccounted, Fetching, Memoized
<1> QED
  BY <1>1, <1>2, <1>3, <1>4, <1>5 DEF Next

(* A secret costs one metadata call per pass and one for each read of it    *)
(* that failed, however many readers ask (cache.go:34-36, 69-78).           *)
THEOREM SharedCalls == Spec => []SharedMetadataRead
<1>1. Init => CallsAccounted /\ OneAnswer
  BY DEF Init, CallsAccounted, OneAnswer, FetchingUnverified, AnsweredFromEntry
<1>2. /\ TypeOK /\ TypeOK' /\ AskedWhileBusy /\ LockHeldWhileInside /\ OneAnswer
      /\ CallsAccounted /\ [Next]_vars
      => OneAnswer' /\ CallsAccounted'
  BY OneAnswerStep, CallsStep DEF OneAnswer
<1>3. TypeOK /\ CallsAccounted => SharedMetadataRead
  BY DEF TypeOK, CallsAccounted, SharedMetadataRead
<1> QED
  BY <1>1, <1>2, <1>3, CacheTyping, LockDiscipline, PTL DEF Spec

-----------------------------------------------------------------------------
(* Freshness.  A version number stands for a content as long as no secret   *)
(* is written again after its metadata was deleted: then what is verified   *)
(* in a pass was the current version's in it, no mark is of a pass to come, *)
(* and of a secret that never existed there is nothing in the cache.        *)
CurrentNoted == \A s \in Secrets : Exists(s) => Current(s) \in current[s]
VerifiedCurrent == \A s \in Secrets : Memoized(s) => entry[s].data \in current[s]
MarksPast == \A s \in Secrets : entry[s].pass <= pass
NothingBefore == \A s \in Secrets : NeverExisted(s) => entry[s].data = Absent
Fresh ==
    /\ EntryMatchesVersion
    /\ CurrentNoted
    /\ VerifiedCurrent
    /\ MarksPast
    /\ NothingBefore
    /\ NeverReplaced

(* An entry of the current version holds the current content. *)
LEMMA SameIsCurrent ==
    ASSUME TypeOK, EntryMatchesVersion, NEW s \in Secrets, Exists(s), SameVersion(s)
    PROVE  entry[s].data = Current(s)
BY DEF EntryMatchesVersion, SameVersion, Current, Exists

(* A read that succeeds with the content of the current version, which is   *)
(* then in the entry.                                                       *)
LEMMA FreshAnswer ==
    ASSUME TypeOK, Fresh, NEW r \in Readers, NEW s \in Secrets, s = asked[r], Exists(s),
           Succeed(r, Current(s)),
           entry' \in [Secrets -> Entry],
           \A u \in Secrets \ {s} : entry'[u] = entry[u],
           entry'[s] = [version |-> Version(s), data |-> Current(s), pass |-> pass],
           UNCHANGED <<kv, pass, current>>
    PROVE  Fresh'
<1>1. Version(s) \in DOMAIN written[s] /\ Current(s) = written[s][Version(s)]
  BY DEF TypeOK, Exists, Version, Current
<1>2. EntryMatchesVersion'
  <2>1. \A u \in Secrets : written'[u] = written[u] /\ Exists(u)' = Exists(u)
    BY DEF Exists, Version, kv
  <2>2. entry'[s].version = Version(s) /\ entry'[s].data = Current(s)
    OBVIOUS
  <2> QED
    BY <1>1, <2>1, <2>2 DEF Fresh, EntryMatchesVersion
<1>3. CurrentNoted'
  BY DEF Fresh, CurrentNoted, Current, Exists, Version, kv
<1>4. VerifiedCurrent'
  BY DEF Fresh, CurrentNoted, VerifiedCurrent, Memoized
<1>5. MarksPast'
  <2>1. entry'[s].pass = pass /\ pass \in Nat /\ pass' = pass
    BY CacheAssumption DEF TypeOK
  <2>2. \A u \in Secrets \ {s} : entry'[u].pass = entry[u].pass
    OBVIOUS
  <2> QED
    BY <2>1, <2>2 DEF Fresh, MarksPast
<1>6. NeverReplaced'
  BY DEF Fresh, CurrentNoted, NeverReplaced, Succeed, TypeOK
<1>7. NothingBefore'
  BY DEF Fresh, NothingBefore, NeverExisted, Exists, Version, kv
<1> QED
  BY <1>2, <1>3, <1>4, <1>5, <1>6, <1>7 DEF Fresh

(* A step that leaves what was written, the entries, the pass and the       *)
(* answers alone.                                                           *)
LEMMA FreshUntouched ==
    ASSUME Fresh, UNCHANGED <<written, pass, entry, current, answers>>,
           \A s \in Secrets : NeverExisted(s)' => NeverExisted(s)
    PROVE  Fresh'
BY DEF Fresh, EntryMatchesVersion, CurrentNoted, VerifiedCurrent, MarksPast, NothingBefore,
       NeverReplaced, Current, Exists, Version, Memoized

(* A secret that existed, or was changed, never counts as new again. *)
LEMMA NeverAgain ==
    ASSUME TypeOK, NEW s \in Secrets, Vault(s), NEW u \in Secrets, NeverExisted(u)'
    PROVE  NeverExisted(u)
<1>1. writes' = [writes EXCEPT ![s] = @ + 1] /\ writes \in [Secrets -> Nat]
  BY DEF Vault, Put, Toggle, DeleteMetadata, Writes, TypeOK
<1>2. u # s
  BY <1>1 DEF NeverExisted
<1>3. written'[u] = written[u] /\ writes'[u] = writes[u]
  BY <1>1, <1>2 DEF Vault, Put, Toggle, DeleteMetadata, TypeOK
<1> QED
  BY <1>3 DEF NeverExisted, Exists, Version

LEMMA FreshStep ==
    ASSUME MayRecreate = FALSE, TypeOK, TypeOK', AskedWhileBusy, Fresh, [Next]_vars
    PROVE  Fresh'
<1>1. CASE BeginPass
  <2>1. pass' = pass + 1 /\ pass \in Nat /\ \A s \in Secrets : entry[s].pass \in Nat
    BY <1>1, CacheAssumption DEF BeginPass, TypeOK, Entry
  <2>2. \A s \in Secrets : ~Memoized(s)'
    BY <1>1, <2>1 DEF BeginPass, Fresh, MarksPast, Memoized
  <2>3. CurrentNoted'
    BY <1>1 DEF BeginPass, CurrentNoted, Current, Exists, Version, kv
  <2>4. MarksPast'
    BY <1>1, <2>1 DEF BeginPass, Fresh, MarksPast
  <2> QED
    BY <1>1, <2>2, <2>3, <2>4
    DEF BeginPass, Fresh, EntryMatchesVersion, VerifiedCurrent, NothingBefore, NeverReplaced,
        NeverExisted, Exists, Version, kv
<1>2. ASSUME NEW r \in Readers, NEW s \in Secrets, Call(r, s)
      PROVE  Fresh'
  BY <1>2, FreshUntouched DEF Call, kv, history, NeverExisted, Exists, Version
<1>3. ASSUME NEW r \in Readers, Reader(r)
      PROVE  Fresh'
  <2>1. CASE Lock(r)
    BY <2>1, FreshUntouched DEF Lock, kv, history, NeverExisted, Exists, Version
  <2>2. CASE VersionDiffers(r)
    BY <2>2, FreshUntouched DEF VersionDiffers, kv, NeverExisted, Exists, Version
  <2>3. CASE VersionErr(r) \/ DataErr(r)
    BY <2>3, FreshUntouched DEF VersionErr, DataErr, kv, NeverExisted, Exists, Version
  <2>4. CASE MemoHit(r)
    <3>1. asked[r] \in Secrets /\ entry[asked[r]].data \in current[asked[r]]
      BY <2>4 DEF MemoHit, AskedWhileBusy, Fresh, VerifiedCurrent
    <3>2. NeverReplaced'
      BY <2>4, <3>1 DEF MemoHit, Succeed, Fresh, NeverReplaced, TypeOK
    <3> QED
      BY <2>4, <3>2 DEF MemoHit, Fresh, EntryMatchesVersion, CurrentNoted, VerifiedCurrent,
                        MarksPast, NothingBefore, NeverExisted, Current, Exists, Version,
                        Memoized, kv
  <2>5. CASE VersionSame(r)
    <3>1. asked[r] \in Secrets
      BY <2>5 DEF VersionSame, Checks, AskedWhileBusy
    <3>2. entry[asked[r]].data = Current(asked[r]) /\ entry[asked[r]].version = Version(asked[r])
      BY <2>5, <3>1, SameIsCurrent DEF VersionSame, SameVersion, Fresh
    <3>3. entry' = [entry EXCEPT ![asked[r]].pass = pass]
      BY <2>5 DEF VersionSame
    <3>4. entry'[asked[r]] =
             [version |-> Version(asked[r]), data |-> Current(asked[r]), pass |-> pass]
      <4>1. entry[asked[r]] \in Entry
        BY <3>1 DEF TypeOK
      <4>2. entry'[asked[r]] = [entry[asked[r]] EXCEPT !.pass = pass]
        BY <3>1, <3>3 DEF TypeOK
      <4> QED
        BY <3>2, <4>1, <4>2 DEF Entry
    <3>5. \A u \in Secrets \ {asked[r]} : entry'[u] = entry[u]
      BY <3>1, <3>3 DEF TypeOK
    <3>6. Exists(asked[r]) /\ Succeed(r, Current(asked[r])) /\ UNCHANGED <<kv, pass, current>>
      BY <2>5, <3>2 DEF VersionSame
    <3>7. entry' \in [Secrets -> Entry]
      BY DEF TypeOK
    <3> QED
      BY <3>1, <3>4, <3>5, <3>6, <3>7, FreshAnswer
  <2>6. CASE DataOk(r)
    <3>1. asked[r] \in Secrets
      BY <2>6 DEF DataOk, AskedWhileBusy
    <3>2. entry' = [entry EXCEPT ![asked[r]] =
             [version |-> Version(asked[r]), data |-> Current(asked[r]), pass |-> pass]]
      BY <2>6 DEF DataOk
    <3>3. /\ entry'[asked[r]] =
              [version |-> Version(asked[r]), data |-> Current(asked[r]), pass |-> pass]
          /\ \A u \in Secrets \ {asked[r]} : entry'[u] = entry[u]
      BY <3>1, <3>2 DEF TypeOK
    <3>4. entry' \in [Secrets -> Entry]
      BY DEF TypeOK
    <3>5. Exists(asked[r]) /\ Succeed(r, Current(asked[r])) /\ UNCHANGED <<kv, pass, current>>
      BY <2>6 DEF DataOk
    <3> QED
      BY <3>1, <3>3, <3>4, <3>5, FreshAnswer
  <2> QED
    BY <1>3, <2>1, <2>2, <2>3, <2>4, <2>5, <2>6 DEF Reader
<1>4. ASSUME NEW s \in Secrets, Vault(s)
      PROVE  Fresh'
  <2>1. ASSUME NEW content \in Contents, Put(s, content)  PROVE Fresh'
    <3>1. /\ \A u \in Secrets : written'[u] = IF u = s THEN Append(written[s], content)
                                             ELSE written[u]
          /\ \A u \in Secrets : current'[u] = IF u = s THEN current[s] \union {content}
                                             ELSE current[u]
      BY <2>1 DEF Put, TypeOK
    <3>2. EntryMatchesVersion'
      <4>1. \A u \in Secrets \ {s} : Exists(u)' = Exists(u)
        BY <3>1 DEF Exists, Version
      <4>2. entry' = entry /\ (Exists(s) \/ entry[s].data = Absent)
        BY <1>4, <2>1 DEF Put, KvUnchanged, Fresh, NothingBefore
      <4>3. \A u \in Secrets \ {s} : written'[u] = written[u]
        BY <3>1
      <4>4. written[s] \in Seq(Contents) /\ written'[s] = Append(written[s], content)
        BY <1>4, <3>1 DEF TypeOK
      <4>5. \A v \in DOMAIN written[s] : v \in DOMAIN written'[s] /\ written'[s][v] = written[s][v]
        BY <4>4
      <4> QED
        BY <4>1, <4>2, <4>3, <4>5 DEF Fresh, EntryMatchesVersion
    <3>3. CurrentNoted'
      <4>1. written \in [Secrets -> Seq(Contents)]
        BY DEF TypeOK
      <4>2. Current(s)' = content
        <5>1. written'[s] = Append(written[s], content) /\ written[s] \in Seq(Contents)
          BY <1>4, <3>1, <4>1
        <5>2. /\ Len(written'[s]) = Len(written[s]) + 1 /\ Len(written[s]) \in Nat
              /\ written'[s][Len(written[s]) + 1] = content
          BY <2>1, <5>1
        <5> QED
          BY <5>2 DEF Current, Exists, Version
      <4>3. \A u \in Secrets \ {s} : Current(u)' = Current(u)
        BY <3>1 DEF Current, Exists, Version
      <4>4. \A u \in Secrets \ {s} : Exists(u)' = Exists(u) /\ current'[u] = current[u]
        BY <3>1 DEF Exists, Version
      <4>5. content \in current'[s]
        BY <1>4, <3>1
      <4> QED
        BY <4>2, <4>3, <4>4, <4>5 DEF Fresh, CurrentNoted
    <3>4. VerifiedCurrent' /\ MarksPast' /\ NeverReplaced'
      BY <2>1, <3>1
      DEF Put, KvUnchanged, Fresh, VerifiedCurrent, MarksPast, NeverReplaced, Memoized
    <3>5. NothingBefore'
      BY <1>4, <2>1, NeverAgain DEF Put, KvUnchanged, Fresh, NothingBefore
    <3> QED
      BY <3>2, <3>3, <3>4, <3>5 DEF Fresh
  <2>2. CASE Toggle(s)
    BY <1>4, <2>2, FreshUntouched, NeverAgain DEF Toggle, KvUnchanged
  <2>3. CASE DeleteMetadata(s)
    <3>1. /\ written' = [written EXCEPT ![s] = <<>>]
          /\ UNCHANGED <<pass, entry, current, answers>>
      BY <2>3 DEF DeleteMetadata, KvUnchanged
    <3>2. ~Exists(s)' /\ \A u \in Secrets \ {s} : written'[u] = written[u]
      BY <3>1 DEF Exists, Version, TypeOK
    <3>3. EntryMatchesVersion' /\ CurrentNoted'
      BY <3>1, <3>2 DEF Fresh, EntryMatchesVersion, CurrentNoted, Current, Exists, Version
    <3>4. VerifiedCurrent' /\ MarksPast' /\ NeverReplaced'
      BY <3>1 DEF Fresh, VerifiedCurrent, MarksPast, NeverReplaced, Memoized
    <3>5. NothingBefore'
      BY <1>4, <3>1, NeverAgain DEF Fresh, NothingBefore
    <3> QED
      BY <3>3, <3>4, <3>5 DEF Fresh
  <2> QED
    BY <1>4, <2>1, <2>2, <2>3 DEF Vault
<1>5. CASE UNCHANGED vars
  BY <1>5, FreshUntouched DEF vars, kv, history, NeverExisted, Exists, Version
<1> QED
  BY <1>1, <1>2, <1>3, <1>4, <1>5 DEF Next

LEMMA FreshAlways ==
    ASSUME MayRecreate = FALSE
    PROVE  Spec => []Fresh
<1>1. Init => Fresh
  BY CacheAssumption
  DEF Init, Fresh, EntryMatchesVersion, CurrentNoted, VerifiedCurrent, MarksPast,
      NothingBefore, NeverReplaced, Memoized, NoEntry
<1>2. TypeOK /\ TypeOK' /\ AskedWhileBusy /\ Fresh /\ [Next]_vars => Fresh'
  BY FreshStep
<1> QED
  BY <1>1, <1>2, CacheTyping, PTL DEF Spec

(* The data of an entry is what was written under its version, whatever is  *)
(* written between the two calls (cache.go:84-88), as long as no secret is  *)
(* written again after its metadata was deleted.                            *)
THEOREM EntriesMatch ==
    ASSUME MayRecreate = FALSE
    PROVE  Spec => []EntryMatchesVersion
<1>1. Fresh => EntryMatchesVersion
  BY DEF Fresh
<1> QED
  BY <1>1, FreshAlways, PTL

(* And then no read returns what was replaced before the pass began.  It    *)
(* may return what was soft-deleted before (cache.go:79-81): that it would  *)
(* not is FreshWithinPass, which is false.                                  *)
THEOREM NothingReplacedRead ==
    ASSUME MayRecreate = FALSE
    PROVE  Spec => []NeverReplaced
<1>1. Fresh => NeverReplaced
  BY DEF Fresh
<1> QED
  BY <1>1, FreshAlways, PTL

-----------------------------------------------------------------------------
(* The refinement.  Reads of the source begin with Call and take effect     *)
(* where they end; the lock and the metadata call before a data call are    *)
(* stuttering steps.                                                        *)
IdleAsksNothing == \A r \in Readers : pc[r] = "idle" => asked[r] = Absent

LEMMA IdleStep ==
    ASSUME TypeOK, IdleAsksNothing, [Next]_vars
    PROVE  IdleAsksNothing'
<1> USE DEF IdleAsksNothing, TypeOK
<1>1. CASE BeginPass
  BY <1>1 DEF BeginPass
<1>2. ASSUME NEW r \in Readers, NEW s \in Secrets, Call(r, s)
      PROVE  IdleAsksNothing'
  BY <1>2 DEF Call
<1>3. ASSUME NEW r \in Readers, Reader(r)
      PROVE  IdleAsksNothing'
  BY <1>3 DEF Reader, Lock, MemoHit, VersionErr, VersionSame, VersionDiffers, DataOk, DataErr,
              Succeed, Err, Finish
<1>4. ASSUME NEW s \in Secrets, Vault(s)
      PROVE  IdleAsksNothing'
  BY <1>4 DEF Vault, Put, Toggle, DeleteMetadata, KvUnchanged
<1>5. CASE UNCHANGED vars
  BY <1>5 DEF vars
<1> QED
  BY <1>1, <1>2, <1>3, <1>4, <1>5 DEF Next

(* The mapped state, by name. *)
MappedVault == [s \in Secrets |-> Current(s)]
MappedSnap == [s \in Secrets |-> IF Memoized(s) THEN entry[s].data ELSE Absent]

(* A read that succeeds is an Answer of the source. *)
LEMMA AnswerRefines ==
    ASSUME TypeOK, AskedWhileBusy, NEW r \in Readers, pc[r] # "idle",
           NEW content \in Contents, Succeed(r, content),
           IF Memoized(asked[r]) THEN content = entry[asked[r]].data
                                 ELSE content = Current(asked[r]),
           MappedSnap' = IF pass # 0 THEN [MappedSnap EXCEPT ![asked[r]] = content]
                                     ELSE MappedSnap,
           UNCHANGED <<written, pass>>
    PROVE  Source!Answer(r, Absent)
<1>1. asked[r] \in Secrets /\ asked[r] # Absent /\ content # Absent
  BY CacheAssumption DEF AskedWhileBusy
<1>2. MappedVault' = MappedVault
  BY DEF MappedVault, Current, Exists, Version
<1>3. content = IF MappedSnap[asked[r]] # Absent THEN MappedSnap[asked[r]]
                                                 ELSE MappedVault[asked[r]]
  BY <1>1 DEF MappedSnap, MappedVault, Memoized
<1> QED
  BY <1>1, <1>2, <1>3 DEF Source!Answer, Source!Asks, MappedSnap, MappedVault, Succeed, Finish

(* A read that fails is a Fail of the source. *)
LEMMA ErrRefines ==
    ASSUME TypeOK, AskedWhileBusy, NEW r \in Readers, pc[r] # "idle", Err(r),
           ~Memoized(asked[r]), UNCHANGED <<written, pass, entry>>
    PROVE  Source!Fail(r, Absent)
<1>1. asked[r] \in Secrets /\ asked[r] # Absent
  BY CacheAssumption DEF AskedWhileBusy
<1>2. MappedVault' = MappedVault /\ MappedSnap' = MappedSnap
  BY DEF MappedVault, MappedSnap, Memoized, Current, Exists, Version
<1> QED
  BY <1>1, <1>2 DEF Source!Fail, Source!Asks, MappedVault, MappedSnap, Err, Finish

LEMMA RefinesUntouched ==
    ASSUME UNCHANGED <<written, pass, entry, asked, result>>
    PROVE  UNCHANGED Source!vars
BY DEF Source!vars, Memoized, Current, Exists, Version

(* Once the entry of a secret is verified, it is in the snapshot.           *)
LEMMA SnapStep ==
    ASSUME TypeOK, NEW s \in Secrets, NEW content \in Contents,
           \A u \in Secrets \ {s} : entry'[u] = entry[u],
           entry'[s].data = content, entry'[s].pass = pass,
           UNCHANGED pass
    PROVE  MappedSnap' = IF pass # 0 THEN [MappedSnap EXCEPT ![s] = content] ELSE MappedSnap
<1>1. content # Absent
  BY CacheAssumption
<1>2. CASE pass = 0
  BY <1>2 DEF MappedSnap, Memoized
<1>3. CASE pass # 0
  <2>1. \A u \in Secrets : MappedSnap'[u] = IF u = s THEN content ELSE MappedSnap[u]
    BY <1>1, <1>3 DEF MappedSnap, Memoized
  <2> QED
    BY <1>3, <2>1 DEF MappedSnap
<1> QED
  BY <1>2, <1>3

LEMMA RefinesStep ==
    ASSUME MayRecreate = FALSE, TypeOK, TypeOK', AskedWhileBusy, IdleAsksNothing,
           FetchingUnverified, Fresh, [Next]_vars
    PROVE  [Source!Next]_Source!vars
<1>1. CASE BeginPass
  <2>1. \A s \in Secrets : ~Memoized(s)'
    BY <1>1, CacheAssumption DEF BeginPass, Fresh, MarksPast, Memoized, TypeOK, Entry
  <2>2. MappedVault' = MappedVault
    BY <1>1 DEF BeginPass, MappedVault, Current, Exists, Version, kv
  <2>3. pass' # 0
    BY <1>1, CacheAssumption DEF BeginPass, TypeOK
  <2> QED
    BY <1>1, <2>1, <2>2, <2>3
    DEF BeginPass, IdleAsksNothing, MappedVault, Source!BeginPass, Source!Next
<1>2. ASSUME NEW r \in Readers, NEW s \in Secrets, Call(r, s)
      PROVE  [Source!Next]_Source!vars
  <2>1. MappedVault' = MappedVault /\ MappedSnap' = MappedSnap
    BY <1>2 DEF Call, kv, MappedVault, MappedSnap, Current, Exists, Version, Memoized
  <2>2. Source!Ask(r, s)
    BY <1>2, <2>1 DEF Call, IdleAsksNothing, Source!Ask, MappedVault, MappedSnap
  <2> QED
    BY <2>2 DEF Source!Next
<1>3. ASSUME NEW r \in Readers, Reader(r)
      PROVE  [Source!Next]_Source!vars
  <2>1. CASE Lock(r) \/ VersionDiffers(r)
    BY <2>1, RefinesUntouched DEF Lock, VersionDiffers, kv
  <2>2. CASE VersionErr(r)
    BY <2>2, ErrRefines DEF VersionErr, Checks, kv, Source!Next
  <2>3. CASE DataErr(r)
    BY <2>3, ErrRefines DEF DataErr, FetchingUnverified, kv, Source!Next
  <2>4. CASE MemoHit(r)
    <3>1. asked[r] \in Secrets /\ pc[r] # "idle" /\ Memoized(asked[r])
      BY <2>4 DEF MemoHit, AskedWhileBusy
    <3>2. entry[asked[r]].data \in Contents
      BY <3>1 DEF Memoized, TypeOK, Entry
    <3>3. MappedSnap' = MappedSnap
      BY <2>4 DEF MemoHit, MappedSnap, Memoized
    <3>4. [MappedSnap EXCEPT ![asked[r]] = entry[asked[r]].data] = MappedSnap
      BY <3>1 DEF MappedSnap
    <3>5. Source!Answer(r, Absent)
      BY <2>4, <3>1, <3>2, <3>3, <3>4, AnswerRefines DEF MemoHit, kv
    <3> QED
      BY <3>5 DEF Source!Next
  <2>5. CASE VersionSame(r)
    <3>1. asked[r] \in Secrets /\ pc[r] # "idle" /\ ~Memoized(asked[r])
      BY <2>5 DEF VersionSame, Checks, AskedWhileBusy
    <3>2. entry[asked[r]].data = Current(asked[r])
      BY <2>5, <3>1, SameIsCurrent DEF VersionSame, Fresh
    <3>3. entry[asked[r]].data \in Contents
      BY <2>5, <3>1 DEF VersionSame, SameVersion, TypeOK, Entry
    <3>4. entry' = [entry EXCEPT ![asked[r]].pass = pass]
      BY <2>5 DEF VersionSame
    <3>5. /\ entry'[asked[r]].data = entry[asked[r]].data
          /\ entry'[asked[r]].pass = pass
          /\ \A u \in Secrets \ {asked[r]} : entry'[u] = entry[u]
      BY <3>1, <3>4 DEF TypeOK, Entry
    <3>6. Succeed(r, entry[asked[r]].data) /\ UNCHANGED <<written, pass>>
      BY <2>5 DEF VersionSame, kv
    <3>7. MappedSnap' = IF pass # 0 THEN [MappedSnap EXCEPT ![asked[r]] = entry[asked[r]].data]
                                    ELSE MappedSnap
      BY <3>1, <3>3, <3>5, <3>6, SnapStep
    <3>8. Source!Answer(r, Absent)
      BY <3>1, <3>2, <3>3, <3>6, <3>7, AnswerRefines
    <3> QED
      BY <3>8 DEF Source!Next
  <2>6. CASE DataOk(r)
    <3>1. asked[r] \in Secrets /\ pc[r] # "idle" /\ ~Memoized(asked[r])
      BY <2>6 DEF DataOk, FetchingUnverified, AskedWhileBusy
    <3>2. Current(asked[r]) \in Contents
      BY <2>6, <3>1, CurrentType DEF DataOk
    <3>3. entry' = [entry EXCEPT ![asked[r]] =
             [version |-> Version(asked[r]), data |-> Current(asked[r]), pass |-> pass]]
      BY <2>6 DEF DataOk
    <3>4. /\ entry'[asked[r]].data = Current(asked[r])
          /\ entry'[asked[r]].pass = pass
          /\ \A u \in Secrets \ {asked[r]} : entry'[u] = entry[u]
      BY <3>1, <3>3 DEF TypeOK
    <3>5. Succeed(r, Current(asked[r])) /\ UNCHANGED <<written, pass>>
      BY <2>6 DEF DataOk, kv
    <3>6. MappedSnap' = IF pass # 0 THEN [MappedSnap EXCEPT ![asked[r]] = Current(asked[r])]
                                    ELSE MappedSnap
      BY <3>1, <3>2, <3>4, <3>5, SnapStep
    <3>7. Source!Answer(r, Absent)
      BY <3>1, <3>2, <3>5, <3>6, AnswerRefines
    <3> QED
      BY <3>7 DEF Source!Next
  <2> QED
    BY <1>3, <2>1, <2>2, <2>3, <2>4, <2>5, <2>6 DEF Reader
<1>4. ASSUME NEW s \in Secrets, Vault(s)
      PROVE  [Source!Next]_Source!vars
  <2>1. ASSUME NEW content \in Contents, Put(s, content)
        PROVE  Source!VaultWrite(s, content)
    <3>1. \A u \in Secrets : Current(u)' = IF u = s THEN content ELSE Current(u)
      <4>1. /\ written'[s] = Append(written[s], content)
            /\ \A u \in Secrets \ {s} : written'[u] = written[u]
            /\ written[s] \in Seq(Contents)
        BY <2>1 DEF Put, TypeOK
      <4>2. Current(s)' = content
        BY <4>1 DEF Current, Exists, Version
      <4> QED
        BY <4>1, <4>2 DEF Current, Exists, Version
    <3>2. MappedVault' = [MappedVault EXCEPT ![s] = content]
      BY <3>1 DEF MappedVault
    <3>3. MappedSnap' = MappedSnap
      BY <2>1 DEF Put, KvUnchanged, MappedSnap, Memoized
    <3> QED
      BY <2>1, <3>2, <3>3
      DEF Put, KvUnchanged, Source!VaultWrite, MappedVault, MappedSnap
  <2>2. CASE Toggle(s)
    BY <2>2, RefinesUntouched DEF Toggle, KvUnchanged
  <2>3. ASSUME DeleteMetadata(s)  PROVE Source!VaultWrite(s, Absent)
    <3>1. \A u \in Secrets : Current(u)' = IF u = s THEN Absent ELSE Current(u)
      BY <2>3 DEF DeleteMetadata, TypeOK, Current, Exists, Version
    <3>2. MappedVault' = [MappedVault EXCEPT ![s] = Absent]
      BY <3>1 DEF MappedVault
    <3>3. MappedSnap' = MappedSnap
      BY <2>3 DEF DeleteMetadata, KvUnchanged, MappedSnap, Memoized
    <3> QED
      BY <2>3, <3>2, <3>3
      DEF DeleteMetadata, KvUnchanged, Source!VaultWrite, MappedVault, MappedSnap
  <2> QED
    BY <1>4, <2>1, <2>2, <2>3 DEF Vault, Source!Next
<1>5. CASE UNCHANGED vars
  BY <1>5, RefinesUntouched DEF vars, kv
<1> QED
  BY <1>1, <1>2, <1>3, <1>4, <1>5 DEF Next

(* As long as no secret is written again after its metadata was deleted,    *)
(* the cache is the abstract source: the reconciler's model of a pass, one  *)
(* snapshot per secret, is what its targets get from CachedSource.          *)
THEOREM SourceImplemented ==
    ASSUME MayRecreate = FALSE
    PROVE  Spec => ImplementsSource
<1>1. Init => Source!Init
  <2> SUFFICES ASSUME Init  PROVE Source!Init
    OBVIOUS
  <2>1. \A s \in Secrets : Current(s) \in Contents \union {Absent} /\ ~Memoized(s)
    BY DEF Init, Current, Exists, Version, Memoized
  <2>2. MappedVault \in [Secrets -> Contents \union {Absent}]
    BY <2>1 DEF MappedVault
  <2> QED
    BY <2>1, <2>2 DEF Init, Source!Init, MappedVault
<1>2. Init => IdleAsksNothing /\ OneAnswer
  BY DEF Init, IdleAsksNothing, OneAnswer, FetchingUnverified, AnsweredFromEntry
<1>3. TypeOK /\ IdleAsksNothing /\ [Next]_vars => IdleAsksNothing'
  BY IdleStep
<1>4. /\ TypeOK /\ AskedWhileBusy /\ LockHeldWhileInside /\ OneAnswer
      /\ TypeOK'
      /\ [Next]_vars
      => OneAnswer'
  BY OneAnswerStep
<1>5. /\ TypeOK /\ TypeOK' /\ AskedWhileBusy /\ IdleAsksNothing /\ OneAnswer /\ Fresh
      /\ [Next]_vars
      => [Source!Next]_Source!vars
  BY RefinesStep DEF OneAnswer
<1> QED
  BY <1>1, <1>2, <1>3, <1>4, <1>5, CacheTyping, LockDiscipline, FreshAlways, PTL
  DEF Spec, ImplementsSource, Source!Spec
=============================================================================
