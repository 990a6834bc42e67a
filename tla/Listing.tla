------------------------------ MODULE Listing ------------------------------
(***************************************************************************)
(* internal/gitlab/levels.go: a listing of one object's variables, page by *)
(* page and by offset, while others change them; and the index diffTarget  *)
(* makes of the result (diff.go).                                          *)
(*                                                                         *)
(* The three levels list alike.  GitLab's order is external: a variable    *)
(* keeps its place while it exists, and a new one may come in anywhere.    *)
(* Each pass of the reconciler begins a listing of its own.                *)
(***************************************************************************)
EXTENDS Naturals, FiniteSets, SequencesExt

CONSTANTS
    Identities,   \* key and scope
    Bodies,       \* everything else a variable has
    Absent,       \* no such variable
    PerPage,      \* perPage
    InitStored,   \* what the object may have at first
    MaxUpsets     \* bound: changes by others and requests that fail

Entry == [id : Identities, body : Bodies]

ASSUME ListingAssumption ==
    /\ PerPage \in Nat \ {0}
    /\ InitStored \subseteq Seq(Entry)
    /\ \A s \in InitStored : IsInjective([k \in DOMAIN s |-> s[k].id])
    /\ Absent \notin Bodies
    /\ MaxUpsets \in Nat

VARIABLES
    stored,    \* GitLab: the object's variables, in its order
    phase,     \* "listing", "done", or "failed"
    page,      \* opt.Page
    all,       \* the variables of the pages so far
    ever,      \* history: the bodies each identity has had during the listing
    deleted,   \* history: variables deleted during the listing
    upsets     \* changes and failures so far

vars == <<stored, phase, page, all, ever, deleted, upsets>>

IdsIn(s) == {s[k].id : k \in DOMAIN s}

(* What an index of s by identity holds: a later entry replaces an earlier. *)
Observed(s, i) ==
    LET places == {k \in DOMAIN s : s[k].id = i}
    IN  IF places = {} THEN Absent ELSE s[Max(places)].body

Now == [i \in Identities |-> {Observed(stored, i)}]

Init ==
    /\ stored \in InitStored
    /\ phase = "listing"
    /\ page = 1
    /\ all = <<>>
    /\ ever = Now
    /\ deleted = 0
    /\ upsets = 0

(* Mutant: the page number is left at zero. *)
BeginAtZero ==
    /\ phase # "listing"
    /\ phase' = "listing"
    /\ page' = 0
    /\ all' = <<>>
    /\ ever' = Now
    /\ deleted' = 0
    /\ UNCHANGED <<stored, upsets>>

(* List is called: the first page is asked for. *)
Begin ==
    /\ phase # "listing"
    /\ phase' = "listing"
    /\ page' = 1
    /\ all' = <<>>
    /\ ever' = Now
    /\ deleted' = 0
    /\ UNCHANGED <<stored, upsets>>

-----------------------------------------------------------------------------
(* GitLab's answer for a page: what is in its place when it is asked. *)
PageOf(s, n) == SubSeq(s, (n - 1) * PerPage + 1, Min({n * PerPage, Len(s)}))

(* Mutant: the page that NextPage names is not asked for. *)
FetchFirstOnly ==
    /\ phase = "listing"
    /\ all' = all \o PageOf(stored, page)
    /\ phase' = "done"
    /\ UNCHANGED <<stored, page, ever, deleted, upsets>>

(* A page arrives; resp.NextPage is 0 when nothing follows it. *)
FetchOk ==
    /\ phase = "listing"
    /\ all' = all \o PageOf(stored, page)
    /\ IF Len(stored) > page * PerPage
       THEN page' = page + 1 /\ UNCHANGED phase
       ELSE phase' = "done" /\ UNCHANGED page
    /\ UNCHANGED <<stored, ever, deleted, upsets>>

Upset == upsets < MaxUpsets /\ upsets' = upsets + 1

(* Mutant: the pages so far are returned when one cannot be had. *)
FetchErrPartial ==
    /\ phase = "listing"
    /\ Upset
    /\ phase' = "done"
    /\ UNCHANGED <<stored, page, all, ever, deleted>>

(* One page fails: the whole listing does. *)
FetchErr ==
    /\ phase = "listing"
    /\ Upset
    /\ phase' = "failed"
    /\ all' = <<>>
    /\ UNCHANGED <<stored, page, ever, deleted>>

-----------------------------------------------------------------------------
(* Others change the object: between two pages, or between two listings. *)
Change(now) ==
    /\ Upset
    /\ stored' = now
    /\ ever' = [i \in Identities |-> ever[i] \union {Observed(now, i)}]
    /\ UNCHANGED <<phase, page, all>>

Insert(k, entry) ==
    /\ entry.id \notin IdsIn(stored)
    /\ Change(InsertAt(stored, k, entry))
    /\ UNCHANGED deleted

Edit(k, body) ==
    /\ stored[k].body # body
    /\ Change([stored EXCEPT ![k].body = body])
    /\ UNCHANGED deleted

Delete(k) == Change(RemoveAt(stored, k)) /\ deleted' = deleted + 1

Next ==
    \/ Begin
    \/ FetchOk \/ FetchErr
    \/ \E k \in 1..(Len(stored) + 1), entry \in Entry : Insert(k, entry)
    \/ \E k \in DOMAIN stored : Delete(k) \/ \E body \in Bodies : Edit(k, body)

(* Passes go on, and a page that is asked for is answered or refused. *)
Spec == Init /\ [][Next]_vars /\ WF_vars(Begin) /\ WF_vars(FetchOk)

-----------------------------------------------------------------------------
(* Typing; GitLab holds one variable per identity. *)
TypeOK ==
    /\ stored \in Seq(Entry)
    /\ IsInjective([k \in DOMAIN stored |-> stored[k].id])
    /\ phase \in {"listing", "done", "failed"}
    /\ page \in Nat \ {0}
    /\ all \in Seq(Entry)
    /\ ever \in [Identities -> SUBSET (Bodies \union {Absent})]
    /\ deleted \in 0..upsets
    /\ upsets \in 0..MaxUpsets

(* A listing that succeeds shows each identity as it was at some moment of  *)
(* the listing, however variables are added and edited between two pages,   *)
(* but for one thing: each deletion may shift one variable past the page    *)
(* that is asked for next, so that it is missed (levels.go:20-40).  Nothing *)
(* is shown that was never there.                                           *)
Missed == {i \in Identities : Observed(all, i) \notin ever[i]}
ListFaithful ==
    phase = "done" =>
        /\ \A i \in Missed : Observed(all, i) = Absent
        /\ Cardinality(Missed) <= deleted

(* What a listing missed, a later one finds: once nobody disturbs them,     *)
(* listings go on being completed and every one is exact.                   *)
Exact == \A i \in Identities : Observed(all, i) = Observed(stored, i)
ListingHeals == []<>(phase = "done") /\ <>[](phase = "done" => Exact)
=============================================================================
