---------------------------- MODULE ListingProofs ----------------------------
(***************************************************************************)
(* A listing page by page while others change the object: what it misses,  *)
(* at most one variable for each deletion, whatever is inserted, edited    *)
(* and deleted between the pages, and however many pages there are.        *)
(***************************************************************************)
EXTENDS Listing, FiniteSetTheorems, SequenceTheorems, TLAPS

(* The places GitLab has been asked for so far, and the variables that have *)
(* been there all along, are in one of these places now, and were not       *)
(* listed: they have been shifted past the page that is asked for next.     *)
Asked == (page - 1) * PerPage
Steady == {i \in Identities : Absent \notin ever[i]}
Shifted ==
    {i \in Steady : i \notin IdsIn(all) /\ \E k \in DOMAIN stored : k <= Asked /\ stored[k].id = i}

(* A deletion shifts at most one more.  What was listed was there, and ever *)
(* is up to date; what is missed is bounded only if it is finitely much.    *)
Followed ==
    /\ \A i \in Identities : Observed(stored, i) \in ever[i]
    /\ \A k \in DOMAIN all : all[k].body \in ever[all[k].id]
    /\ phase = "listing" => Cardinality(Shifted) <= deleted
    /\ phase = "done" => IsFiniteSet(Missed)

-----------------------------------------------------------------------------
(* A set of places that is not empty has a last one. *)
LEMMA LastPlace ==
    ASSUME NEW n \in Nat, NEW S, S \subseteq 1..n, S # {}
    PROVE  Max(S) \in S /\ \A k \in S : Max(S) >= k
<1> DEFINE T == {n - k : k \in S}
           R == OpToRel(<, Nat)
<1>1. T \subseteq Nat /\ T # {}
  <2>1. \A k \in S : n - k \in Nat
    OBVIOUS
  <2> QED
    BY <2>1
<1>0. R = {pair \in Nat \X Nat : pair[1] < pair[2]}
  BY DEF OpToRel
<1>2. PICK m \in T : \A t \in T : ~ (<<t, m>> \in R)
  <2>1. IsWellFoundedOn(R, Nat)
    BY NatLessThanWellFounded
  <2> HIDE DEF T, R
  <2> QED
    BY <1>1, <2>1, WFMin
<1>3. \A t \in T : m <= t
  <2> HIDE DEF T, R
  <2>1. \A t \in T : ~ (t < m)
    BY <1>0, <1>1, <1>2
  <2> QED
    BY <1>1, <2>1
<1>4. PICK last \in S : m = n - last
  OBVIOUS
<1>5. \A k \in S : last >= k
  <2> TAKE k \in S
  <2>1. n - last <= n - k
    BY <1>3, <1>4
  <2> QED
    BY <2>1
<1> QED
  BY <1>5 DEF Max

(* What an index of a list holds is the body of an entry of the identity,   *)
(* if there is one.                                                         *)
LEMMA ObservedEntry ==
    ASSUME NEW s \in Seq(Entry), NEW i
    PROVE  /\ i \notin IdsIn(s) => Observed(s, i) = Absent
           /\ i \in IdsIn(s) => \E k \in DOMAIN s : s[k].id = i /\ Observed(s, i) = s[k].body
<1> DEFINE places == {k \in DOMAIN s : s[k].id = i}
<1>1. places \subseteq 1..Len(s) /\ Len(s) \in Nat
  OBVIOUS
<1>2. Observed(s, i) = IF places = {} THEN Absent ELSE s[Max(places)].body
  BY DEF Observed
<1>3. i \in IdsIn(s) <=> places # {}
  BY DEF IdsIn
<1>4. ASSUME places # {}
      PROVE  \E k \in DOMAIN s : s[k].id = i /\ Observed(s, i) = s[k].body
  <2>1. Max(places) \in places
    BY <1>1, <1>4, LastPlace
  <2> QED
    BY <1>2, <1>4, <2>1
<1> QED
  BY <1>2, <1>3, <1>4

(* An identity is absent from the index exactly if the list has no entry of *)
(* it.                                                                      *)
LEMMA ObservedAbsent ==
    ASSUME NEW s \in Seq(Entry), NEW i
    PROVE  /\ Observed(s, i) \in Bodies \union {Absent}
           /\ Observed(s, i) = Absent <=> i \notin IdsIn(s)
<1>1. CASE i \notin IdsIn(s)
  BY <1>1, ObservedEntry
<1>2. CASE i \in IdsIn(s)
  <2>1. PICK k \in DOMAIN s : Observed(s, i) = s[k].body
    BY <1>2, ObservedEntry
  <2>2. s[k] \in Entry
    OBVIOUS
  <2>3. s[k].body \in Bodies
    BY <2>2 DEF Entry
  <2> QED
    BY <1>2, <2>1, <2>3, ListingAssumption
<1> QED
  BY <1>1, <1>2

(* The identities of a list are finitely many. *)
LEMMA IdsFinite ==
    ASSUME NEW s \in Seq(Entry)
    PROVE  IsFiniteSet(IdsIn(s))
<1> DEFINE f == [k \in DOMAIN s |-> s[k].id]
<1>1. f \in Surjection(DOMAIN s, IdsIn(s))
  BY DEF Surjection, IdsIn
<1>2. IsFiniteSet(DOMAIN s)
  <2>1. DOMAIN s = 1..Len(s) /\ Len(s) \in Int
    OBVIOUS
  <2>2. IsFiniteSet(1..Len(s))
    BY <2>1, FS_Interval
  <2> QED
    BY <2>1, <2>2
<1> QED
  BY <1>1, <1>2, FS_Surjection

(* No two entries of a list have one identity. *)
Distinct(s) == \A j, k \in DOMAIN s : s[j].id = s[k].id => j = k
LEMMA InjectiveDistinct ==
    ASSUME NEW s
    PROVE  IsInjective([k \in DOMAIN s |-> s[k].id]) <=> Distinct(s)
BY DEF IsInjective, Distinct

(* What comes after a new entry moves up by one place, *)
LEMMA Inserted ==
    ASSUME NEW s \in Seq(Entry), NEW k \in 1..(Len(s) + 1), NEW e \in Entry
    PROVE  LET t == InsertAt(s, k, e)
           IN  /\ t \in Seq(Entry) /\ Len(t) = Len(s) + 1
               /\ \A j \in DOMAIN t :
                     t[j] = IF j < k THEN s[j] ELSE IF j = k THEN e ELSE s[j - 1]
<1> DEFINE front == SubSeq(s, 1, k - 1)
           back == SubSeq(s, k, Len(s))
           t == InsertAt(s, k, e)
<1>1. /\ front \in Seq(Entry) /\ Len(front) = k - 1
      /\ \A j \in 1..(k - 1) : front[j] = s[j]
  OBVIOUS
<1>2. /\ back \in Seq(Entry) /\ Len(back) = Len(s) - k + 1
      /\ \A j \in 1..(Len(s) - k + 1) : back[j] = s[k + j - 1]
  OBVIOUS
<1>3. t = (front \o <<e>>) \o back
  BY DEF InsertAt
<1> DEFINE start == front \o <<e>>
<1> HIDE DEF front, back
<1>6. /\ start \in Seq(Entry) /\ Len(start) = k
      /\ \A j \in 1..k : start[j] = IF j < k THEN s[j] ELSE e
  BY <1>1
<1> HIDE DEF start, t
<1>7. t = start \o back
  BY <1>3 DEF start
<1>4. /\ t \in Seq(Entry) /\ Len(t) = Len(s) + 1 /\ t = start \o back
  BY <1>2, <1>6, <1>7
<1>5. \A j \in DOMAIN t : t[j] = IF j < k THEN s[j] ELSE IF j = k THEN e ELSE s[j - 1]
  <2> TAKE j \in DOMAIN t
  <2>1. j \in 1..(Len(s) + 1)
    BY <1>4
  <2>2. CASE j <= k
    <3>1. t[j] = start[j]
      BY <1>2, <1>4, <1>6, <2>1, <2>2
    <3> QED
      BY <1>6, <2>1, <2>2, <3>1
  <2>3. CASE j > k
    <3>1. t[j] = back[j - k]
      BY <1>2, <1>4, <1>6, <2>1, <2>3
    <3> QED
      BY <1>2, <2>1, <2>3, <3>1
  <2> QED
    BY <2>1, <2>2, <2>3
<1> QED
  BY <1>4, <1>5 DEF t

(* and what comes after one that is removed, down. *)
LEMMA Removed ==
    ASSUME NEW s \in Seq(Entry), NEW k \in DOMAIN s
    PROVE  LET t == RemoveAt(s, k)
           IN  /\ t \in Seq(Entry) /\ Len(t) = Len(s) - 1
               /\ \A j \in DOMAIN t : t[j] = IF j < k THEN s[j] ELSE s[j + 1]
<1> DEFINE front == SubSeq(s, 1, k - 1)
           back == SubSeq(s, k + 1, Len(s))
           t == RemoveAt(s, k)
<1>1. /\ front \in Seq(Entry) /\ Len(front) = k - 1
      /\ \A j \in 1..(k - 1) : front[j] = s[j]
  OBVIOUS
<1>2. /\ back \in Seq(Entry) /\ Len(back) = Len(s) - k
      /\ \A j \in 1..(Len(s) - k) : back[j] = s[k + j]
  OBVIOUS
<1>3. t = front \o back
  BY DEF RemoveAt
<1> HIDE DEF front, back, t
<1>4. /\ t \in Seq(Entry) /\ Len(t) = Len(s) - 1
  BY <1>1, <1>2, <1>3
<1>5. \A j \in DOMAIN t : t[j] = IF j < k THEN s[j] ELSE s[j + 1]
  <2> TAKE j \in DOMAIN t
  <2>1. j \in 1..(Len(s) - 1)
    BY <1>4
  <2>2. CASE j < k
    <3>1. t[j] = front[j]
      BY <1>1, <1>2, <1>3, <2>1, <2>2
    <3> QED
      BY <1>1, <2>1, <2>2, <3>1
  <2>3. CASE j >= k
    <3>1. t[j] = back[j - (k - 1)]
      BY <1>1, <1>2, <1>3, <2>1, <2>3
    <3> QED
      BY <1>2, <2>1, <2>3, <3>1
  <2> QED
    BY <2>1, <2>2, <2>3
<1> QED
  BY <1>4, <1>5 DEF t

(* A page holds what is in its places. *)
LEMMA PageEntries ==
    ASSUME NEW s \in Seq(Entry), NEW n \in Nat \ {0}
    PROVE  LET first == (n - 1) * PerPage
               p == PageOf(s, n)
           IN  /\ first \in Nat /\ n * PerPage = first + PerPage
               /\ p \in Seq(Entry)
               /\ \A j \in DOMAIN p : \E k \in DOMAIN s : p[j] = s[k]
               /\ \A k \in DOMAIN s : first < k /\ k <= first + PerPage =>
                     \E j \in DOMAIN p : p[j] = s[k]
<1> DEFINE first == (n - 1) * PerPage
           last == Min({n * PerPage, Len(s)})
           p == PageOf(s, n)
<1>1. PerPage \in Nat /\ first \in Nat /\ n * PerPage = first + PerPage
  BY ListingAssumption
<1>2. p = SubSeq(s, first + 1, last)
  BY DEF PageOf
<1> HIDE DEF first
<1>3. /\ last \in Nat /\ last <= Len(s) /\ last <= first + PerPage
      /\ last = Len(s) \/ last = first + PerPage
  BY <1>1 DEF Min
<1> HIDE DEF last, p
<1>4. /\ p \in Seq(Entry) /\ Len(p) = IF first + 1 <= last THEN last - first ELSE 0
      /\ \A j \in 1..Len(p) : p[j] = s[first + j]
  BY <1>1, <1>2, <1>3
<1>5. \A j \in DOMAIN p : \E k \in DOMAIN s : p[j] = s[k]
  BY <1>1, <1>3, <1>4
<1>6. ASSUME NEW k \in DOMAIN s, first < k, k <= first + PerPage
      PROVE  \E j \in DOMAIN p : p[j] = s[k]
  <2>1. k <= last
    BY <1>1, <1>3, <1>6
  <2>2. k - first \in DOMAIN p /\ p[k - first] = s[k]
    BY <1>1, <1>3, <1>4, <1>6, <2>1
  <2> QED
    BY <2>2
<1> QED
  BY <1>1, <1>4, <1>5, <1>6 DEF first, p

-----------------------------------------------------------------------------
(* Whoever changes the object leaves it with one variable per identity, and *)
(* an identity somebody else's change does not name as it was.              *)
LEMMA ChangedType ==
    ASSUME TypeOK, NEW now \in Seq(Entry), Distinct(now), Change(now), deleted' \in 0..upsets'
    PROVE  TypeOK'
<1>1. /\ stored' = now /\ UNCHANGED <<phase, page, all>>
      /\ ever' = [i \in Identities |-> ever[i] \union {Observed(now, i)}]
  BY DEF Change
<1>2. ever' \in [Identities -> SUBSET (Bodies \union {Absent})]
  <2>1. \A i \in Identities : Observed(now, i) \in Bodies \union {Absent}
    BY ObservedAbsent
  <2>2. ever \in [Identities -> SUBSET (Bodies \union {Absent})]
    BY DEF TypeOK
  <2> QED
    BY <1>1, <2>1, <2>2
<1>3. upsets' \in 0..MaxUpsets
  BY ListingAssumption DEF Change, Upset, TypeOK
<1>4. IsInjective([k \in DOMAIN stored' |-> stored'[k].id])
  <2>1. IsInjective([k \in DOMAIN now |-> now[k].id])
    BY InjectiveDistinct
  <2> QED
    BY <1>1, <2>1
<1> QED
  BY <1>1, <1>2, <1>3, <1>4 DEF TypeOK

(* What the three changes make of a list of distinct variables. *)
LEMMA InsertType ==
    ASSUME TypeOK, NEW k \in 1..(Len(stored) + 1), NEW entry \in Entry,
           entry.id \notin IdsIn(stored)
    PROVE  InsertAt(stored, k, entry) \in Seq(Entry) /\ Distinct(InsertAt(stored, k, entry))
<1> DEFINE t == InsertAt(stored, k, entry)
<1>1. stored \in Seq(Entry) /\ Distinct(stored)
  BY InjectiveDistinct DEF TypeOK
<1>2. /\ t \in Seq(Entry) /\ Len(t) = Len(stored) + 1
      /\ \A j \in DOMAIN t :
            t[j] = IF j < k THEN stored[j] ELSE IF j = k THEN entry ELSE stored[j - 1]
  BY <1>1, Inserted
<1>3. \A j \in DOMAIN stored : stored[j].id # entry.id
  BY DEF IdsIn
<1> HIDE DEF t
<1>4. ASSUME NEW i \in DOMAIN t, NEW j \in DOMAIN t, i < j
      PROVE  t[i].id # t[j].id
  <2>1. i \in 1..(Len(stored) + 1) /\ j \in 1..(Len(stored) + 1) /\ Len(stored) \in Nat
    BY <1>1, <1>2
  <2>2. CASE i < k
    <3>1. t[i] = stored[i] /\ i \in DOMAIN stored
      BY <1>1, <1>2, <2>1, <2>2
    <3>2. CASE j < k
      BY <1>1, <1>2, <1>4, <2>1, <3>1, <3>2 DEF Distinct
    <3>3. CASE j = k
      BY <1>2, <1>3, <3>1, <3>3
    <3>4. CASE j > k
      <4>1. t[j] = stored[j - 1] /\ j - 1 \in DOMAIN stored /\ i # j - 1
        BY <1>1, <1>2, <2>1, <2>2, <3>4
      <4> QED
        BY <1>1, <3>1, <4>1 DEF Distinct
    <3> QED
      BY <2>1, <3>2, <3>3, <3>4
  <2>3. CASE i = k
    <3>1. t[i] = entry /\ t[j] = stored[j - 1] /\ j - 1 \in DOMAIN stored
      BY <1>1, <1>2, <1>4, <2>1, <2>3
    <3> QED
      BY <1>3, <3>1
  <2>4. CASE i > k
    <3>1. /\ t[i] = stored[i - 1] /\ i - 1 \in DOMAIN stored
          /\ t[j] = stored[j - 1] /\ j - 1 \in DOMAIN stored /\ i - 1 # j - 1
      BY <1>1, <1>2, <1>4, <2>1, <2>4
    <3> QED
      BY <1>1, <3>1 DEF Distinct
  <2> QED
    BY <2>1, <2>2, <2>3, <2>4
<1>5. \A i, j \in DOMAIN t : i < j \/ j < i \/ i = j
  BY <1>2
<1>6. Distinct(t)
  BY <1>4, <1>5 DEF Distinct
<1> QED
  BY <1>2, <1>6 DEF t

LEMMA RemoveType ==
    ASSUME TypeOK, NEW k \in DOMAIN stored
    PROVE  RemoveAt(stored, k) \in Seq(Entry) /\ Distinct(RemoveAt(stored, k))
<1> DEFINE t == RemoveAt(stored, k)
<1>1. stored \in Seq(Entry) /\ Distinct(stored)
  BY InjectiveDistinct DEF TypeOK
<1>2. /\ t \in Seq(Entry) /\ Len(t) = Len(stored) - 1
      /\ \A j \in DOMAIN t : t[j] = IF j < k THEN stored[j] ELSE stored[j + 1]
  BY <1>1, Removed
<1> HIDE DEF t
<1> DEFINE from(j) == IF j < k THEN j ELSE j + 1
<1>3. \A j \in DOMAIN t : t[j] = stored[from(j)] /\ from(j) \in DOMAIN stored
  BY <1>1, <1>2
<1>4. \A i, j \in DOMAIN t : from(i) = from(j) => i = j
  BY <1>2
<1> HIDE DEF from
<1>5. Distinct(t)
  BY <1>1, <1>3, <1>4 DEF Distinct
<1> QED
  BY <1>2, <1>5 DEF t

LEMMA EditType ==
    ASSUME TypeOK, NEW k \in DOMAIN stored, NEW body \in Bodies
    PROVE  LET t == [stored EXCEPT ![k].body = body]
           IN  /\ t \in Seq(Entry) /\ Distinct(t) /\ DOMAIN t = DOMAIN stored
               /\ \A j \in DOMAIN t : t[j].id = stored[j].id
<1> DEFINE e == [stored[k] EXCEPT !.body = body]
           t == [stored EXCEPT ![k].body = body]
<1>1. stored \in Seq(Entry) /\ Distinct(stored)
  BY InjectiveDistinct DEF TypeOK
<1>2. stored[k] \in Entry
  BY <1>1
<1>3. e \in Entry /\ e.id = stored[k].id
  BY <1>2 DEF Entry
<1>4. t = [stored EXCEPT ![k] = e]
  OBVIOUS
<1> HIDE DEF e, t
<1>5. t \in Seq(Entry) /\ DOMAIN t = DOMAIN stored
  BY <1>1, <1>3, <1>4, ExceptSeq
<1>6. \A j \in DOMAIN t : t[j].id = stored[j].id
  BY <1>1, <1>3, <1>4
<1>7. Distinct(t)
  BY <1>1, <1>5, <1>6 DEF Distinct
<1> QED
  BY <1>5, <1>6, <1>7 DEF t

(* Every step keeps the types. *)
LEMMA TypeStep ==
    ASSUME TypeOK, [Next]_vars
    PROVE  TypeOK'
<1>1. CASE Begin
  <2>1. Now \in [Identities -> SUBSET (Bodies \union {Absent})]
    BY ObservedAbsent DEF TypeOK, Now
  <2> QED
    BY <1>1, <2>1, EmptySeq DEF Begin, TypeOK
<1>2. CASE FetchOk
  <2>1. PageOf(stored, page) \in Seq(Entry)
    BY PageEntries DEF TypeOK
  <2>2. all' \in Seq(Entry)
    BY <1>2, <2>1, ConcatProperties DEF FetchOk, TypeOK
  <2> QED
    BY <1>2, <2>2 DEF FetchOk, TypeOK
<1>3. CASE FetchErr
  <2>1. upsets' \in 0..MaxUpsets /\ deleted' \in 0..upsets'
    BY <1>3, ListingAssumption DEF FetchErr, Upset, TypeOK
  <2> QED
    BY <1>3, <2>1, EmptySeq DEF FetchErr, TypeOK
<1>4. ASSUME UNCHANGED deleted, Upset  PROVE deleted' \in 0..upsets'
  BY <1>4, ListingAssumption DEF Upset, TypeOK
<1>5. ASSUME NEW k \in 1..(Len(stored) + 1), NEW entry \in Entry, Insert(k, entry)
      PROVE  TypeOK'
  BY <1>4, <1>5, ChangedType, InsertType DEF Insert, Change
<1>6. ASSUME NEW k \in DOMAIN stored, Delete(k)
      PROVE  TypeOK'
  <2>1. deleted' \in 0..upsets'
    BY <1>6, ListingAssumption DEF Delete, Change, Upset, TypeOK
  <2> QED
    BY <1>6, <2>1, ChangedType, RemoveType DEF Delete
<1>7. ASSUME NEW k \in DOMAIN stored, NEW body \in Bodies, Edit(k, body)
      PROVE  TypeOK'
  BY <1>4, <1>7, ChangedType, EditType DEF Edit, Change
<1>8. CASE UNCHANGED vars
  BY <1>8 DEF vars, TypeOK
<1> QED
  BY <1>1, <1>2, <1>3, <1>5, <1>6, <1>7, <1>8 DEF Next

(* A listing holds variables, and the object one per identity, whoever      *)
(* changes it.                                                              *)
THEOREM ListingTyping == Spec => []TypeOK
<1>1. Init => TypeOK
  <2> SUFFICES ASSUME Init  PROVE TypeOK
    OBVIOUS
  <2>1. stored \in Seq(Entry) /\ IsInjective([k \in DOMAIN stored |-> stored[k].id])
    BY ListingAssumption DEF Init
  <2>2. Now \in [Identities -> SUBSET (Bodies \union {Absent})]
    BY <2>1, ObservedAbsent DEF Now
  <2>3. upsets \in 0..MaxUpsets /\ deleted \in 0..upsets
    BY ListingAssumption DEF Init
  <2> QED
    BY <2>1, <2>2, <2>3, EmptySeq DEF Init, TypeOK
<1>2. TypeOK /\ [Next]_vars => TypeOK'
  BY TypeStep
<1> QED
  BY <1>1, <1>2, PTL DEF Spec

-----------------------------------------------------------------------------
(* What is shifted or missed can be counted. *)
LEMMA ShiftedFinite ==
    ASSUME TypeOK
    PROVE  IsFiniteSet(Shifted)
<1>1. Shifted \subseteq IdsIn(stored)
  BY DEF Shifted, IdsIn
<1>2. IsFiniteSet(IdsIn(stored))
  BY IdsFinite DEF TypeOK
<1> QED
  BY <1>1, <1>2, FS_Subset

(* A change that shifts at most one variable, and none unless it is counted *)
(* as a deletion, keeps what was followed.                                  *)
LEMMA ChangeFollowed ==
    ASSUME TypeOK, TypeOK', Followed, ListFaithful,
           NEW now, Change(now), deleted' \in {deleted, deleted + 1},
           NEW extra,
           Shifted' \subseteq Shifted \union (IF deleted' = deleted THEN {} ELSE {extra})
    PROVE  (Followed /\ ListFaithful)'
<1>1. /\ stored' = now /\ UNCHANGED <<phase, page, all>>
      /\ ever' = [i \in Identities |-> ever[i] \union {Observed(now, i)}]
  BY DEF Change
<1>2. \A i \in Identities : ever[i] \subseteq ever'[i] /\ Observed(now, i) \in ever'[i]
  BY <1>1
<1>3. \A i \in Identities : Observed(stored', i) \in ever'[i]
  BY <1>1, <1>2
<1>4. \A k \in DOMAIN all : all[k].body \in ever'[all[k].id]
  <2>1. \A k \in DOMAIN all : all[k] \in Entry
    BY DEF TypeOK
  <2>2. \A k \in DOMAIN all : all[k].id \in Identities
    BY <2>1 DEF Entry
  <2> QED
    BY <1>2, <2>2 DEF Followed
<1>5. /\ deleted \in Nat /\ deleted' \in Nat /\ deleted <= deleted'
  BY ListingAssumption DEF TypeOK
<1>6. ASSUME phase = "listing"  PROVE Cardinality(Shifted') <= deleted'
  <2>1. IsFiniteSet(Shifted) /\ Cardinality(Shifted) <= deleted /\ Cardinality(Shifted) \in Nat
    BY <1>6, ShiftedFinite, FS_CardinalityType DEF Followed
  <2>2. CASE deleted' = deleted
    <3>1. Shifted' \subseteq Shifted
      BY <2>2
    <3>2. Cardinality(Shifted') <= Cardinality(Shifted) /\ Cardinality(Shifted') \in Nat
      BY <2>1, <3>1, FS_Subset, FS_CardinalityType
    <3> QED
      BY <1>5, <2>1, <2>2, <3>2
  <2>3. CASE deleted' = deleted + 1
    <3> DEFINE more == Shifted \union {extra}
    <3>1. Shifted' \subseteq more
      OBVIOUS
    <3>2. /\ IsFiniteSet(more) /\ Cardinality(more) \in Nat
          /\ Cardinality(more) <= Cardinality(Shifted) + 1
      <4>1. /\ IsFiniteSet(more)
            /\ Cardinality(more) =
                  IF extra \in Shifted THEN Cardinality(Shifted) ELSE Cardinality(Shifted) + 1
        BY <2>1, FS_AddElement
      <4> HIDE DEF more
      <4>2. Cardinality(more) \in Nat
        BY <4>1, FS_CardinalityType
      <4> QED
        BY <2>1, <4>1, <4>2
    <3> HIDE DEF more
    <3>3. Cardinality(Shifted') <= Cardinality(more) /\ Cardinality(Shifted') \in Nat
      BY <3>1, <3>2, FS_Subset, FS_CardinalityType
    <3> QED
      BY <1>5, <2>1, <2>3, <3>2, <3>3
  <2> QED
    BY <2>2, <2>3
<1>7. Missed' \subseteq Missed
  BY <1>1, <1>2 DEF Missed
<1>8. ASSUME phase = "done"
      PROVE  /\ IsFiniteSet(Missed') /\ Cardinality(Missed') <= deleted'
             /\ \A i \in Missed' : Observed(all, i) = Absent
  <2>1. /\ IsFiniteSet(Missed) /\ Cardinality(Missed) <= deleted
        /\ \A i \in Missed : Observed(all, i) = Absent
    BY <1>8 DEF Followed, ListFaithful
  <2>2. /\ IsFiniteSet(Missed') /\ Cardinality(Missed') <= Cardinality(Missed)
        /\ Cardinality(Missed') \in Nat /\ Cardinality(Missed) \in Nat
    BY <1>7, <2>1, FS_Subset, FS_CardinalityType
  <2>3. Cardinality(Missed') <= deleted'
    BY <1>5, <2>1, <2>2
  <2> QED
    BY <1>7, <2>1, <2>2, <2>3
<1>9. Followed'
  BY <1>1, <1>3, <1>4, <1>6, <1>8 DEF Followed
<1>10. ListFaithful'
  BY <1>1, <1>8 DEF ListFaithful
<1> QED
  BY <1>9, <1>10

(* What has been absent during a listing cannot be shifted. *)
LEMMA SteadyPresent ==
    ASSUME TypeOK, Followed, NEW i \in Steady
    PROVE  i \in IdsIn(stored)
<1>1. Observed(stored, i) # Absent
  BY DEF Steady, Followed
<1> QED
  BY <1>1, ObservedAbsent DEF TypeOK

(* A new variable shifts the others further away from what was asked for,   *)
(* or into it, but none past it; it has not been there all along.           *)
LEMMA InsertShifts ==
    ASSUME TypeOK, Followed,
           NEW k \in 1..(Len(stored) + 1), NEW entry \in Entry, Insert(k, entry)
    PROVE  Shifted' \subseteq Shifted
<1> DEFINE t == InsertAt(stored, k, entry)
<1>1. /\ stored' = t /\ UNCHANGED <<page, all>>
      /\ \A i \in Identities : ever[i] \subseteq ever'[i]
      /\ entry.id \notin IdsIn(stored)
  BY DEF Insert, Change
<1>2. /\ stored \in Seq(Entry) /\ Len(t) = Len(stored) + 1 /\ t \in Seq(Entry)
      /\ \A j \in DOMAIN t :
            t[j] = IF j < k THEN stored[j] ELSE IF j = k THEN entry ELSE stored[j - 1]
  BY Inserted DEF TypeOK
<1> HIDE DEF t
<1>3. Steady' \subseteq Steady
  BY <1>1 DEF Steady
<1>4. Asked' = Asked /\ Asked \in Nat
  BY <1>1, PageEntries DEF Asked, TypeOK
<1>5. ASSUME NEW i \in Shifted'  PROVE i \in Shifted
  <2>1. i \in Steady /\ i \notin IdsIn(all) /\ \E j \in DOMAIN t : j <= Asked /\ t[j].id = i
    BY <1>1, <1>3, <1>4 DEF Shifted
  <2>2. PICK j \in DOMAIN t : j <= Asked /\ t[j].id = i
    BY <2>1
  <2>3. i # entry.id
    BY <1>1, <2>1, SteadyPresent
  <2>4. CASE j < k
    <3>1. j \in DOMAIN stored /\ stored[j].id = i
      BY <1>2, <2>2, <2>4
    <3> QED
      BY <2>1, <2>2, <3>1 DEF Shifted
  <2>5. CASE j > k
    <3>1. j - 1 \in DOMAIN stored /\ stored[j - 1].id = i /\ j - 1 <= Asked
      BY <1>2, <1>4, <2>2, <2>5
    <3> QED
      BY <2>1, <3>1 DEF Shifted
  <2>6. j # k
    BY <1>2, <2>2, <2>3
  <2> QED
    BY <1>2, <2>4, <2>5, <2>6
<1> QED
  BY <1>5

(* A deletion shifts no more than the variable that was to be listed next.  *)
LEMMA DeleteShifts ==
    ASSUME TypeOK, Followed, NEW k \in DOMAIN stored, Delete(k)
    PROVE  Shifted' \subseteq Shifted \union {stored[Asked + 1].id}
<1> DEFINE t == RemoveAt(stored, k)
<1>1. /\ stored' = t /\ UNCHANGED <<page, all>>
      /\ \A i \in Identities : ever[i] \subseteq ever'[i]
  BY DEF Delete, Change
<1>2. /\ stored \in Seq(Entry) /\ Len(t) = Len(stored) - 1 /\ t \in Seq(Entry)
      /\ \A j \in DOMAIN t : t[j] = IF j < k THEN stored[j] ELSE stored[j + 1]
  BY Removed DEF TypeOK
<1> HIDE DEF t
<1>3. Steady' \subseteq Steady
  BY <1>1 DEF Steady
<1>4. Asked' = Asked /\ Asked \in Nat
  BY <1>1, PageEntries DEF Asked, TypeOK
<1>5. ASSUME NEW i \in Shifted', i # stored[Asked + 1].id  PROVE i \in Shifted
  <2>1. i \in Steady /\ i \notin IdsIn(all) /\ \E j \in DOMAIN t : j <= Asked /\ t[j].id = i
    BY <1>1, <1>3, <1>4 DEF Shifted
  <2>2. PICK j \in DOMAIN t : j <= Asked /\ t[j].id = i
    BY <2>1
  <2>3. CASE j < k
    <3>1. j \in DOMAIN stored /\ stored[j].id = i
      BY <1>2, <2>2, <2>3
    <3> QED
      BY <2>1, <2>2, <3>1 DEF Shifted
  <2>4. CASE j >= k
    <3>1. j + 1 \in DOMAIN stored /\ stored[j + 1].id = i
      BY <1>2, <2>2, <2>4
    <3>2. j # Asked
      BY <1>5, <3>1
    <3>3. j + 1 <= Asked
      BY <1>2, <1>4, <2>2, <3>2
    <3> QED
      BY <2>1, <3>1, <3>3 DEF Shifted
  <2> QED
    BY <1>2, <2>3, <2>4
<1> QED
  BY <1>5

(* An edit shifts nothing. *)
LEMMA EditShifts ==
    ASSUME TypeOK, NEW k \in DOMAIN stored, NEW body \in Bodies, Edit(k, body)
    PROVE  Shifted' \subseteq Shifted
<1>1. /\ DOMAIN stored' = DOMAIN stored /\ UNCHANGED <<page, all>>
      /\ \A j \in DOMAIN stored : stored'[j].id = stored[j].id
      /\ \A i \in Identities : ever[i] \subseteq ever'[i]
  BY EditType DEF Edit, Change
<1>2. Steady' \subseteq Steady /\ Asked' = Asked
  BY <1>1 DEF Steady, Asked
<1> QED
  BY <1>1, <1>2 DEF Shifted

(* A page lists what is in its places, and what is shifted was before.      *)
LEMMA FetchFollowed ==
    ASSUME TypeOK, Followed, FetchOk
    PROVE  (Followed /\ ListFaithful)'
<1> DEFINE p == PageOf(stored, page)
<1>1. phase = "listing" /\ all' = all \o p /\ UNCHANGED <<stored, ever, deleted, upsets>>
  BY DEF FetchOk
<1>2. /\ stored \in Seq(Entry) /\ all \in Seq(Entry) /\ page \in Nat \ {0}
      /\ PerPage \in Nat
  BY ListingAssumption DEF TypeOK
<1>3. /\ Asked \in Nat /\ page * PerPage = Asked + PerPage
      /\ p \in Seq(Entry)
      /\ \A j \in DOMAIN p : \E k \in DOMAIN stored : p[j] = stored[k]
      /\ \A k \in DOMAIN stored : Asked < k /\ k <= Asked + PerPage =>
            \E j \in DOMAIN p : p[j] = stored[k]
  BY <1>2, PageEntries DEF Asked
<1> HIDE DEF p
<1>4. /\ all' \in Seq(Entry)
      /\ \A k \in DOMAIN all' : \/ k \in DOMAIN all /\ all'[k] = all[k]
                                \/ \E j \in DOMAIN p : all'[k] = p[j]
      /\ \A k \in DOMAIN all : k \in DOMAIN all' /\ all'[k] = all[k]
      /\ \A j \in DOMAIN p : \E k \in DOMAIN all' : all'[k] = p[j]
  <2>1. /\ all \o p \in Seq(Entry)
        /\ Len(all \o p) = Len(all) + Len(p)
        /\ \A k \in 1..(Len(all) + Len(p)) :
              (all \o p)[k] = IF k <= Len(all) THEN all[k] ELSE p[k - Len(all)]
    BY <1>2, <1>3, ConcatProperties
  <2>2. ASSUME NEW k \in DOMAIN (all \o p)
        PROVE  \/ k \in DOMAIN all /\ (all \o p)[k] = all[k]
               \/ \E j \in DOMAIN p : (all \o p)[k] = p[j]
    <3>1. k \in 1..(Len(all) + Len(p)) /\ Len(all) \in Nat /\ Len(p) \in Nat
      BY <1>2, <1>3, <2>1
    <3>2. CASE k <= Len(all)
      BY <1>2, <2>1, <3>1, <3>2
    <3>3. CASE k > Len(all)
      <4>1. k - Len(all) \in DOMAIN p /\ (all \o p)[k] = p[k - Len(all)]
        BY <1>3, <2>1, <3>1, <3>3
      <4> QED
        BY <4>1
    <3> QED
      BY <3>1, <3>2, <3>3
  <2>3. \A k \in DOMAIN all : k \in DOMAIN (all \o p) /\ (all \o p)[k] = all[k]
    BY <1>2, <1>3, <2>1
  <2>4. ASSUME NEW j \in DOMAIN p
        PROVE  \E k \in DOMAIN (all \o p) : (all \o p)[k] = p[j]
    <3>1. Len(all) + j \in DOMAIN (all \o p) /\ (all \o p)[Len(all) + j] = p[j]
      BY <1>2, <1>3, <2>1
    <3> QED
      BY <3>1
  <2> QED
    BY <1>1, <2>1, <2>2, <2>3, <2>4
<1>5. \A k \in DOMAIN stored : stored[k].body \in ever[stored[k].id]
  <2> TAKE k \in DOMAIN stored
  <2>1. stored[k].id \in IdsIn(stored) /\ stored[k] \in Entry
    BY <1>2 DEF IdsIn
  <2>2. stored[k].id \in Identities
    BY <2>1 DEF Entry
  <2>3. PICK l \in DOMAIN stored :
           stored[l].id = stored[k].id /\ Observed(stored, stored[k].id) = stored[l].body
    BY <1>2, <2>1, ObservedEntry
  <2>4. l = k
    BY <2>3, InjectiveDistinct DEF TypeOK, Distinct
  <2> QED
    BY <2>2, <2>3, <2>4 DEF Followed
<1>6. \A k \in DOMAIN all' : all'[k].body \in ever[all'[k].id]
  BY <1>3, <1>4, <1>5 DEF Followed
<1>7. /\ \A i : i \in IdsIn(all) => i \in IdsIn(all')
      /\ \A j \in DOMAIN p : p[j].id \in IdsIn(all')
  BY <1>4 DEF IdsIn
<1>8. ASSUME NEW i \in Steady, i \notin IdsIn(all'),
             NEW k \in DOMAIN stored, k <= Asked + PerPage, stored[k].id = i
      PROVE  i \in Shifted
  <2>1. k <= Asked
    BY <1>2, <1>3, <1>7, <1>8
  <2> QED
    BY <1>7, <1>8, <2>1 DEF Shifted
<1>9. IsFiniteSet(Shifted) /\ Cardinality(Shifted) <= deleted /\ Cardinality(Shifted) \in Nat
      /\ deleted \in Nat
  BY <1>1, ShiftedFinite, FS_CardinalityType, ListingAssumption DEF Followed, TypeOK
<1>10. ASSUME NEW S, S \subseteq Shifted
       PROVE  IsFiniteSet(S) /\ Cardinality(S) <= deleted
  <2>1. IsFiniteSet(S) /\ Cardinality(S) <= Cardinality(Shifted) /\ Cardinality(S) \in Nat
    BY <1>9, <1>10, FS_Subset, FS_CardinalityType
  <2> QED
    BY <1>9, <2>1
<1>11. CASE Len(stored) > page * PerPage
  <2>1. page' = page + 1 /\ phase' = phase
    BY <1>11 DEF FetchOk
  <2>2. Asked' = Asked + PerPage
    BY <1>2, <1>3, <2>1 DEF Asked
  <2>3. Steady' = Steady
    BY <1>1 DEF Steady
  <2>4. \A i \in Shifted' : /\ i \in Steady /\ i \notin IdsIn(all')
                            /\ \E k \in DOMAIN stored : k <= Asked + PerPage /\ stored[k].id = i
    BY <1>1, <2>2, <2>3 DEF Shifted
  <2>5. Shifted' \subseteq Shifted
    BY <1>8, <2>4
  <2>6. Cardinality(Shifted') <= deleted
    BY <1>10, <2>5
  <2>7. Followed'
    BY <1>1, <1>6, <2>1, <2>6 DEF Followed
  <2> QED
    BY <1>1, <2>1, <2>7 DEF ListFaithful
<1>12. CASE ~(Len(stored) > page * PerPage)
  <2>1. phase' = "done"
    BY <1>12 DEF FetchOk
  <2>2. ASSUME NEW i \in Missed'
        PROVE  Observed(all', i) = Absent /\ i \in Shifted
    <3>1. i \in Identities /\ Observed(all', i) \notin ever[i]
      BY <1>1 DEF Missed
    <3>2. i \notin IdsIn(all')
      <4>1. ASSUME i \in IdsIn(all')  PROVE FALSE
        <5>1. PICK k \in DOMAIN all' : all'[k].id = i /\ Observed(all', i) = all'[k].body
          BY <1>4, <4>1, ObservedEntry
        <5> QED
          BY <1>6, <3>1, <5>1
      <4> QED
        BY <4>1
    <3>3. Observed(all', i) = Absent
      BY <1>4, <3>2, ObservedEntry
    <3>4. i \in Steady
      BY <3>1, <3>3 DEF Steady
    <3>5. PICK k \in DOMAIN stored : stored[k].id = i
      BY <3>4, SteadyPresent DEF IdsIn
    <3>6. k <= Asked + PerPage
      BY <1>2, <1>3, <1>12, <3>5
    <3> QED
      BY <1>8, <3>2, <3>3, <3>4, <3>5, <3>6
  <2>3. IsFiniteSet(Missed') /\ Cardinality(Missed') <= deleted
    BY <1>10, <2>2
  <2>4. Followed'
    BY <1>1, <1>6, <2>1, <2>3 DEF Followed
  <2>5. ListFaithful'
    BY <1>1, <2>2, <2>3 DEF ListFaithful
  <2> QED
    BY <2>4, <2>5
<1> QED
  BY <1>11, <1>12

(* Every step keeps what was followed, and a listing that is done faithful. *)
LEMMA FollowedStep ==
    ASSUME TypeOK, Followed, ListFaithful, [Next]_vars
    PROVE  (Followed /\ ListFaithful)'
<1>1. TypeOK'
  BY TypeStep
<1>2. CASE Begin
  <2>1. /\ page' = 1 /\ all' = <<>> /\ ever' = Now /\ deleted' = 0 /\ stored' = stored
        /\ phase' = "listing"
    BY <1>2 DEF Begin
  <2>2. Asked' = 0
    BY <2>1, ListingAssumption DEF Asked
  <2>3. \A k \in DOMAIN stored : k > 0
    BY DEF TypeOK
  <2>4. Shifted' = {}
    BY <2>1, <2>2, <2>3 DEF Shifted
  <2>5. Cardinality(Shifted') <= deleted'
    BY <2>1, <2>4, FS_EmptySet
  <2>6. \A i \in Identities : Observed(stored, i) \in Now[i]
    BY DEF Now
  <2> QED
    BY <2>1, <2>5, <2>6 DEF Followed, ListFaithful
<1>3. CASE FetchOk
  BY <1>3, FetchFollowed
<1>4. CASE FetchErr
  <2>1. all' = <<>> /\ phase' = "failed" /\ UNCHANGED <<stored, ever>>
    BY <1>4 DEF FetchErr
  <2> QED
    BY <2>1 DEF Followed, ListFaithful
<1>5. ASSUME NEW k \in 1..(Len(stored) + 1), NEW entry \in Entry, Insert(k, entry)
      PROVE  (Followed /\ ListFaithful)'
  <2>1. Change(InsertAt(stored, k, entry)) /\ deleted' = deleted
    BY <1>5 DEF Insert
  <2>2. Shifted' \subseteq Shifted
    BY <1>5, InsertShifts
  <2> QED
    BY <1>1, <2>1, <2>2, ChangeFollowed
<1>6. ASSUME NEW k \in DOMAIN stored, Delete(k)
      PROVE  (Followed /\ ListFaithful)'
  <2>1. Change(RemoveAt(stored, k)) /\ deleted' = deleted + 1
    BY <1>6 DEF Delete
  <2>2. Shifted' \subseteq Shifted \union {stored[Asked + 1].id}
    BY <1>6, DeleteShifts
  <2>3. deleted' # deleted
    BY <2>1, ListingAssumption DEF TypeOK
  <2> QED
    BY <1>1, <2>1, <2>2, <2>3, ChangeFollowed
<1>7. ASSUME NEW k \in DOMAIN stored, NEW body \in Bodies, Edit(k, body)
      PROVE  (Followed /\ ListFaithful)'
  <2>1. Change([stored EXCEPT ![k].body = body]) /\ deleted' = deleted
    BY <1>7 DEF Edit
  <2>2. Shifted' \subseteq Shifted
    BY <1>7, EditShifts
  <2> QED
    BY <1>1, <2>1, <2>2, ChangeFollowed
<1>8. CASE UNCHANGED vars
  <2>1. UNCHANGED <<stored, phase, page, all, ever, deleted>>
    BY <1>8 DEF vars
  <2> QED
    BY <2>1 DEF Followed, ListFaithful, Shifted, Steady, Missed, Asked
<1> QED
  BY <1>2, <1>3, <1>4, <1>5, <1>6, <1>7, <1>8 DEF Next

(* However long the list, whatever the size of a page and whoever changes   *)
(* the object between two pages: a listing that succeeds shows every        *)
(* variable as it was at some moment of the listing, and misses no more     *)
(* variables than were deleted during it (levels.go:20-40).                 *)
THEOREM Faithful == Spec => []ListFaithful
<1>1. Init => Followed /\ ListFaithful
  <2> SUFFICES ASSUME Init  PROVE Followed /\ ListFaithful
    OBVIOUS
  <2>1. /\ stored \in Seq(Entry) /\ phase = "listing" /\ page = 1 /\ all = <<>>
        /\ ever = Now /\ deleted = 0
    BY ListingAssumption DEF Init
  <2>2. Asked = 0
    BY <2>1, ListingAssumption DEF Asked
  <2>3. \A k \in DOMAIN stored : ~(k <= 0)
    BY <2>1
  <2>4. Shifted = {}
    BY <2>2, <2>3 DEF Shifted
  <2>5. Cardinality(Shifted) <= deleted
    BY <2>1, <2>4, FS_EmptySet
  <2>6. \A i \in Identities : Observed(stored, i) \in ever[i]
    BY <2>1 DEF Now
  <2> QED
    BY <2>1, <2>5, <2>6 DEF Followed, ListFaithful
<1>2. TypeOK /\ Followed /\ ListFaithful /\ [Next]_vars => (Followed /\ ListFaithful)'
  BY FollowedStep
<1> QED
  BY <1>1, <1>2, ListingTyping, PTL DEF Spec
=============================================================================
