----------------------------- MODULE Reconciler -----------------------------
(***************************************************************************)
(* internal/sync/reconciler.go: passes that bring GitLab's CI/CD variables *)
(* in line with the configuration and with Vault.                          *)
(*                                                                         *)
(* One process per target is started in each pass; at most Concurrency of  *)
(* them hold a slot of the semaphore at a time.  The pass ends when all    *)
(* have returned (wg.Wait) and the next one begins.  Vault, reached        *)
(* through the caching source, and GitLab are the environment: they may    *)
(* fail a request, lose its answer, and change under the operator's hands. *)
(* Those disturbances share one budget, MaxUpsets, so that they stop.      *)
(***************************************************************************)
EXTENDS Desired

CONSTANTS
    Concurrency,  \* sync.concurrency
    DryRuns,      \* TRUE: passes that only plan (the diff command)
    ObjectIds,    \* numeric IDs of groups and projects
    NoTarget,     \* nobody
    InitNames,    \* InitNames[t]: the object target t's reference names
    InitVaults,   \* what Vault may hold at first, a content per secret
    InitStore,    \* InitStore[o]: the variables of object o
    Edits,        \* bound: the <<object, identity, body>>s edited by hand
    Rotations,    \* bound: the <<secret, content>>s written to Vault
    Moves,        \* bound: the <<target, numeric ID>>s a reference moves to
    MaxUpsets     \* bound: how many disturbances may happen

Ids == ObjectIds \union {0}          \* 0: the ID field of an instance target
Objects == Kinds \X Ids
Read == Contents \union {Absent}

ASSUME EnvironmentAssumption ==
    /\ Concurrency \in Nat \ {0}
    /\ MaxUpsets \in Nat
    /\ DryRuns \subseteq BOOLEAN
    /\ IsFiniteSet(Targets)
    /\ NoTarget \notin Targets
    /\ Absent \notin Ids
    /\ InitNames \in [Targets -> ObjectIds \union {Absent}]
    /\ \A v \in InitVaults : v \in [Secrets -> Read]
    /\ InitStore \in [Objects -> [Identities -> Bodies \union {Absent}]]
    /\ Edits \subseteq Objects \X Identities \X (Bodies \union {Absent})
    /\ Rotations \subseteq Secrets \X Read
    /\ Moves \subseteq Targets \X (ObjectIds \union {Absent})

VARIABLES
    pc,        \* where each target's goroutine is
    at,        \* the entry buildDesired has come to
    id,        \* t.Ref.ID, filled in by ResolveTarget
    taken,     \* buildDesired's taken
    plan,      \* the actions and skips so far, by slot
    todo,      \* the actions still to be applied
    err,       \* TargetResult.Err
    sem,       \* tokens in the semaphore channel
    claimed,   \* claimSet.by
    resolved,  \* gitlab.Client.resolved: lives as long as the client
    snap,      \* what the caching source has answered in this pass
    dryRun,    \* Run's second argument
    expired,   \* the pass's context is past its deadline
    vault,     \* Vault: the content of each secret
    store,     \* GitLab: the variables of each object
    names,     \* GitLab: the object each target's reference names
    late,      \* requests given up on that GitLab may still carry out
    touched,   \* history: identities changed by others during this pass
    slipped,   \* history: identities a listing of this pass has missed
    upsets     \* disturbances so far

local  == <<at, id, taken, plan, todo, err>>
shared == <<claimed, resolved, snap>>
call   == <<dryRun, expired>>
history == <<touched, slipped>>
remote == <<vault, store, names, late, history>>
vars == <<pc, local, sem, shared, call, remote, upsets>>

Object(t) == <<Kind[t], id[t]>>

PCs == {"waiting", "resolving", "claiming", "building", "applying", "returning", "done"}
TargetErrors == {"none", "resolve", "duplicate", "list"}
Request == [object : Objects, op : {"create", "update"}, var : Variables]

-----------------------------------------------------------------------------
(* One pass starts: BeginPass, a new claim set, a goroutine per target. *)

Init ==
    /\ pc = [t \in Targets |-> "waiting"]
    /\ at = [t \in Targets |-> 1]
    /\ id = [t \in Targets |-> 0]
    /\ taken = [t \in Targets |-> {}]
    /\ plan = [t \in Targets |-> NoPlan(t)]
    /\ todo = [t \in Targets |-> {}]
    /\ err = [t \in Targets |-> "none"]
    /\ sem = 0
    /\ claimed = [o \in Objects |-> NoTarget]
    /\ resolved = [t \in Targets |-> Absent]
    /\ snap = [s \in Secrets |-> Absent]
    /\ dryRun \in DryRuns
    /\ expired = FALSE
    /\ vault \in InitVaults
    /\ store = InitStore
    /\ names = InitNames
    /\ late = {}
    /\ touched = [o \in Objects |-> {}]
    /\ slipped = [o \in Objects |-> {}]
    /\ upsets = 0

(* Mutant: BeginPass is not called. *)
NewPassStale ==
    /\ \A t \in Targets : pc[t] = "done"
    /\ pc' = [t \in Targets |-> "waiting"]
    /\ at' = [t \in Targets |-> 1]
    /\ id' = [t \in Targets |-> 0]
    /\ taken' = [t \in Targets |-> {}]
    /\ plan' = [t \in Targets |-> NoPlan(t)]
    /\ todo' = [t \in Targets |-> {}]
    /\ err' = [t \in Targets |-> "none"]
    /\ claimed' = [o \in Objects |-> NoTarget]
    /\ expired' = FALSE
    /\ touched' = [o \in Objects |-> {}]
    /\ slipped' = [o \in Objects |-> {}]
    /\ UNCHANGED <<sem, snap, resolved, dryRun, vault, store, names, late, upsets>>

(* The pass has returned its report and the next one starts.  The target's  *)
(* ID is set on a copy of the configuration entry, so it is 0 again.        *)
NewPass ==
    /\ \A t \in Targets : pc[t] = "done"
    /\ pc' = [t \in Targets |-> "waiting"]
    /\ at' = [t \in Targets |-> 1]
    /\ id' = [t \in Targets |-> 0]
    /\ taken' = [t \in Targets |-> {}]
    /\ plan' = [t \in Targets |-> NoPlan(t)]
    /\ todo' = [t \in Targets |-> {}]
    /\ err' = [t \in Targets |-> "none"]
    /\ claimed' = [o \in Objects |-> NoTarget]
    /\ snap' = [s \in Secrets |-> Absent]
    /\ expired' = FALSE
    /\ touched' = [o \in Objects |-> {}]
    /\ slipped' = [o \in Objects |-> {}]
    /\ UNCHANGED <<sem, resolved, dryRun, vault, store, names, late, upsets>>

-----------------------------------------------------------------------------
(* A request fails: because of cause, or as a disturbance. *)
Upset == upsets < MaxUpsets /\ upsets' = upsets + 1
Fails(cause) == IF cause THEN UNCHANGED upsets ELSE Upset

(* Mutant: a target that gives up keeps its slot. *)
GiveUpKeepingSlot(t, reason) ==
    /\ err' = [err EXCEPT ![t] = reason]
    /\ pc' = [pc EXCEPT ![t] = "done"]

(* Mutant: the error is logged and not returned. *)
GiveUpSilently(t, reason) ==
    /\ pc' = [pc EXCEPT ![t] = "returning"]
    /\ UNCHANGED err

(* The target gives up with a TargetResult.Err. *)
GiveUp(t, reason) ==
    /\ err' = [err EXCEPT ![t] = reason]
    /\ pc' = [pc EXCEPT ![t] = "returning"]

(* Mutant: the semaphore does not block. *)
AcquireAlways(t) ==
    /\ pc[t] = "waiting"
    /\ sem' = sem + 1
    /\ pc' = [pc EXCEPT ![t] = "resolving"]
    /\ UNCHANGED <<local, shared, call, remote, upsets>>

(* sem <- struct{}{}: blocks while the channel is full. *)
Acquire(t) ==
    /\ pc[t] = "waiting"
    /\ sem < Concurrency
    /\ sem' = sem + 1
    /\ pc' = [pc EXCEPT ![t] = "resolving"]
    /\ UNCHANGED <<local, shared, call, remote, upsets>>

(* ResolveTarget without a request: an instance target, or a memoized ID. *)
ResolveKnown(t) ==
    /\ pc[t] = "resolving"
    /\ Kind[t] = "instance" \/ resolved[t] # Absent
    /\ id' = [id EXCEPT ![t] = IF Kind[t] = "instance" THEN 0 ELSE resolved[t]]
    /\ pc' = [pc EXCEPT ![t] = "claiming"]
    /\ UNCHANGED <<at, taken, plan, todo, err, sem, shared, call, remote, upsets>>

MustLookUp(t) ==
    pc[t] = "resolving" /\ Kind[t] # "instance" /\ resolved[t] = Absent

ResolveOk(t) ==
    /\ MustLookUp(t)
    /\ ~expired
    /\ names[t] # Absent
    /\ resolved' = [resolved EXCEPT ![t] = names[t]]
    /\ id' = [id EXCEPT ![t] = names[t]]
    /\ pc' = [pc EXCEPT ![t] = "claiming"]
    /\ UNCHANGED <<at, taken, plan, todo, err, sem, claimed, snap, call, remote, upsets>>

ResolveErr(t) ==
    /\ MustLookUp(t)
    /\ Fails(expired \/ names[t] = Absent)
    /\ GiveUp(t, "resolve")
    /\ UNCHANGED <<at, id, taken, plan, todo, sem, shared, call, remote>>

(* Mutant: the claim is not checked. *)
ClaimUnchecked(t) ==
    /\ pc[t] = "claiming"
    /\ claimed' = [claimed EXCEPT ![Object(t)] = t]
    /\ taken' = [taken EXCEPT ![t] = Reserved(t)]
    /\ pc' = [pc EXCEPT ![t] = "building"]
    /\ UNCHANGED <<at, id, plan, todo, err, sem, resolved, snap, call, remote, upsets>>

(* claimSet.claim, under its mutex: the first target to come has the object. *)
Claim(t) ==
    /\ pc[t] = "claiming"
    /\ claimed[Object(t)] = NoTarget
    /\ claimed' = [claimed EXCEPT ![Object(t)] = t]
    /\ taken' = [taken EXCEPT ![t] = Reserved(t)]
    /\ pc' = [pc EXCEPT ![t] = "building"]
    /\ UNCHANGED <<at, id, plan, todo, err, sem, resolved, snap, call, remote, upsets>>

(* Mutant: objects are told apart by their ID alone. *)
RefuseById(t) ==
    /\ pc[t] = "claiming"
    /\ \E kind \in Kinds : claimed[<<kind, id[t]>>] # NoTarget
    /\ GiveUp(t, "duplicate")
    /\ UNCHANGED <<at, id, taken, plan, todo, sem, shared, call, remote, upsets>>

Refuse(t) ==
    /\ pc[t] = "claiming"
    /\ claimed[Object(t)] # NoTarget
    /\ GiveUp(t, "duplicate")
    /\ UNCHANGED <<at, id, taken, plan, todo, sem, shared, call, remote, upsets>>

-----------------------------------------------------------------------------
(* buildDesired: one read of the caching source per entry.  The source      *)
(* checks a secret once per pass and answers from that check afterwards,    *)
(* even when the context has expired since.                                 *)

Reading(t) == pc[t] = "building" /\ at[t] \in Entries(t)
SecretAt(t) == Specs[t][at[t]].secret

(* Mutant: a read prefers what Vault holds now. *)
AnswerLive(s) == IF vault[s] # Absent THEN vault[s] ELSE snap[s]

(* What a successful read of secret s returns now. *)
Answer(s) == IF snap[s] # Absent THEN snap[s] ELSE vault[s]

ReadOk(t) ==
    LET s == SecretAt(t)
    IN  /\ Reading(t)
        /\ snap[s] = Absent => ~expired /\ vault[s] # Absent
        /\ snap' = [snap EXCEPT ![s] = Answer(s)]
        /\ plan' = [plan EXCEPT ![t] = Built(t, plan[t], at[t], Answer(s), taken[t])]
        /\ taken' = [taken EXCEPT ![t] = @ \union TakenBy(t, at[t], Answer(s))]
        /\ at' = [at EXCEPT ![t] = @ + 1]
        /\ UNCHANGED <<pc, id, todo, err, sem, claimed, resolved, call, remote, upsets>>

ReadErr(t) ==
    /\ Reading(t)
    /\ snap[SecretAt(t)] = Absent
    /\ Fails(expired \/ vault[SecretAt(t)] = Absent)
    /\ plan' = [plan EXCEPT ![t] = Unread(t, plan[t], at[t])]
    /\ at' = [at EXCEPT ![t] = @ + 1]
    /\ UNCHANGED <<pc, id, taken, todo, err, sem, shared, call, remote>>

-----------------------------------------------------------------------------
(* List, diffTarget and the loop that applies the plan. *)

Listing(t) == pc[t] = "building" /\ at[t] \notin Entries(t)

Pending(p) == {s \in DOMAIN p : p[s].op \in {"create", "update"}}

(* Mutant: a dry run applies its plan. *)
ObservesApplying(t, observed) ==
    LET compared == Diff(plan[t], observed)
    IN  /\ Listing(t)
        /\ ~expired
        /\ plan' = [plan EXCEPT ![t] = compared]
        /\ todo' = [todo EXCEPT ![t] = Pending(compared)]
        /\ pc' = [pc EXCEPT ![t] = "applying"]
        /\ UNCHANGED <<at, id, taken, err, sem, shared, call, vault, store, names, late, touched>>

(* A listing returns and the target's variables are compared with it. *)
Observes(t, observed) ==
    LET compared == Diff(plan[t], observed)
    IN  /\ Listing(t)
        /\ ~expired
        /\ plan' = [plan EXCEPT ![t] = compared]
        /\ todo' = [todo EXCEPT ![t] = IF dryRun THEN {} ELSE Pending(compared)]
        /\ pc' = [pc EXCEPT ![t] = "applying"]
        /\ UNCHANGED <<at, id, taken, err, sem, shared, call, vault, store, names, late, touched>>

ListOk(t) == Observes(t, store[Object(t)]) /\ UNCHANGED <<slipped, upsets>>

(* Variables the operator does not manage are deleted between two pages of  *)
(* the listing, and a managed one slips through: ListFaithful in Listing.   *)
ListMissing(t, i) ==
    /\ store[Object(t)][i] # Absent
    /\ Observes(t, [store[Object(t)] EXCEPT ![i] = Absent])
    /\ slipped' = [slipped EXCEPT ![Object(t)] = @ \union {i}]
    /\ Upset

Lists(t) == ListOk(t) \/ \E i \in Identities : ListMissing(t, i)

(* The target returns without actions: the skips are lost with the plan. *)
ListErr(t) ==
    /\ Listing(t)
    /\ Fails(expired)
    /\ GiveUp(t, "list")
    /\ plan' = [plan EXCEPT ![t] = NoPlan(t)]
    /\ UNCHANGED <<at, id, taken, todo, sem, shared, call, remote>>

(* GitLab refuses to create what exists and to update what does not. *)
Accepts(r) ==
    IF r.op = "create" THEN store[r.object][r.var.id] = Absent
                       ELSE store[r.object][r.var.id] # Absent

Written(r) == [store EXCEPT ![r.object][r.var.id] = r.var.body]

(* s is the next action of the loop. *)
IsNext(t, s) ==
    /\ pc[t] = "applying"
    /\ s \in todo[t]
    /\ \A r \in todo[t] \ {s} : Before(s, r)

RequestOf(t, s) == [object |-> Object(t), op |-> plan[t][s].op, var |-> plan[t][s].var]

ApplyOk(t, s) ==
    /\ IsNext(t, s)
    /\ ~expired
    /\ Accepts(RequestOf(t, s))
    /\ store' = Written(RequestOf(t, s))
    /\ todo' = [todo EXCEPT ![t] = @ \ {s}]
    /\ UNCHANGED <<pc, at, id, taken, plan, err, sem, shared, call,
                   vault, names, late, history, upsets>>

(* Mutant: the error is logged and forgotten. *)
FailedSilently(t, s) ==
    /\ todo' = [todo EXCEPT ![t] = @ \ {s}]
    /\ UNCHANGED plan

(* The error is kept in the action and the loop continues. *)
Failed(t, s) ==
    /\ plan' = [plan EXCEPT ![t][s].err = TRUE, ![t][s].reason = "apply"]
    /\ todo' = [todo EXCEPT ![t] = @ \ {s}]

ApplyErr(t, s) ==
    /\ IsNext(t, s)
    /\ Fails(expired \/ ~Accepts(RequestOf(t, s)))
    /\ Failed(t, s)
    /\ UNCHANGED <<pc, at, id, taken, err, sem, shared, call, remote>>

(* The request is sent and given up on before its answer is read. *)
ApplyLost(t, s) ==
    /\ IsNext(t, s)
    /\ ~expired
    /\ Upset
    /\ Failed(t, s)
    /\ late' = late \union {RequestOf(t, s)}
    /\ UNCHANGED <<pc, at, id, taken, err, sem, shared, call,
                   vault, store, names, history>>

(* The goroutine ends and its deferred receive frees the slot. *)
Return(t) ==
    /\ pc[t] = "returning" \/ (pc[t] = "applying" /\ todo[t] = {})
    /\ sem' = sem - 1
    /\ pc' = [pc EXCEPT ![t] = "done"]
    /\ UNCHANGED <<local, shared, call, remote, upsets>>

-----------------------------------------------------------------------------
(* The environment. *)

(* The deadline of runPass passes, or the process is told to stop. *)
PassTimeout ==
    /\ ~expired
    /\ Upset
    /\ expired' = TRUE
    /\ UNCHANGED <<dryRun, pc, local, sem, shared, remote>>

Touch(o, i) == touched' = [touched EXCEPT ![o] = @ \union {i}]

(* GitLab gets to a request nobody waits for any more. *)
LateApply(r) ==
    /\ r \in late
    /\ late' = late \ {r}
    /\ IF Accepts(r) THEN store' = Written(r) /\ Touch(r.object, r.var.id)
                     ELSE UNCHANGED <<store, touched>>
    /\ UNCHANGED <<pc, local, sem, shared, call, vault, names, slipped, upsets>>

LateDrop(r) ==
    /\ r \in late
    /\ late' = late \ {r}
    /\ UNCHANGED <<pc, local, sem, shared, call, vault, store, names, history, upsets>>

(* Someone edits, adds or deletes a variable by hand. *)
Meddle(o, i, body) ==
    /\ Upset
    /\ store[o][i] # body
    /\ store' = [store EXCEPT ![o][i] = body]
    /\ Touch(o, i)
    /\ UNCHANGED <<pc, local, sem, shared, call, vault, names, late, slipped>>

(* A secret is rotated, deleted or restored. *)
VaultWrite(s, content) ==
    /\ Upset
    /\ vault[s] # content
    /\ vault' = [vault EXCEPT ![s] = content]
    /\ UNCHANGED <<pc, local, sem, shared, call, store, names, late, history>>

(* A group or project is moved, removed or created. *)
Rename(t, o) ==
    /\ Upset
    /\ Kind[t] # "instance"
    /\ names[t] # o
    /\ names' = [names EXCEPT ![t] = o]
    /\ UNCHANGED <<pc, local, sem, shared, call, vault, store, late, history>>

(* SIGHUP between two passes: the new reconciler has a new GitLab client,   *)
(* which has resolved nothing yet.                                          *)
Rebuild ==
    /\ Upset
    /\ \A t \in Targets : pc[t] = "done"
    /\ resolved' = [t \in Targets |-> Absent]
    /\ UNCHANGED <<pc, local, sem, claimed, snap, call, remote>>

-----------------------------------------------------------------------------
Apply(t) == \E s \in Slots(t) : ApplyOk(t, s) \/ ApplyErr(t, s) \/ ApplyLost(t, s)

(* A step of the goroutine of target t. *)
Step(t) ==
    \/ Acquire(t)
    \/ ResolveKnown(t) \/ ResolveOk(t) \/ ResolveErr(t)
    \/ Claim(t) \/ Refuse(t)
    \/ ReadOk(t) \/ ReadErr(t)
    \/ Lists(t) \/ ListErr(t)
    \/ Apply(t)
    \/ Return(t)

Environment ==
    \/ PassTimeout
    \/ Rebuild
    \/ \E r \in late : LateApply(r) \/ LateDrop(r)
    \/ \E e \in Edits : Meddle(e[1], e[2], e[3])
    \/ \E r \in Rotations : VaultWrite(r[1], r[2])
    \/ \E m \in Moves : Rename(m[1], m[2])

Next == (\E t \in Targets : Step(t)) \/ NewPass \/ Environment

Spec == Init /\ [][Next]_vars

(* Every request ends, at the latest with the client's own timeout, the     *)
(* scheduler runs every goroutine that can run, and the daemon starts pass  *)
(* after pass.                                                              *)
FairSpec == Spec /\ WF_vars(NewPass) /\ \A t \in Targets : WF_vars(Step(t))

-----------------------------------------------------------------------------
(* Typing. *)
TypeOK ==
    /\ pc \in [Targets -> PCs]
    /\ at \in [Targets -> Nat]
    /\ id \in [Targets -> Ids]
    /\ taken \in [Targets -> SUBSET Identities]
    /\ DOMAIN plan = Targets
    /\ \A t \in Targets : plan[t] \in [Slots(t) -> Action]
    /\ DOMAIN todo = Targets
    /\ \A t \in Targets : todo[t] \subseteq Pending(plan[t])
    /\ err \in [Targets -> TargetErrors]
    /\ sem \in 0..Concurrency
    /\ claimed \in [Objects -> Targets \union {NoTarget}]
    /\ resolved \in [Targets -> ObjectIds \union {Absent}]
    /\ snap \in [Secrets -> Read]
    /\ dryRun \in BOOLEAN
    /\ expired \in BOOLEAN
    /\ vault \in [Secrets -> Read]
    /\ store \in [Objects -> [Identities -> Bodies \union {Absent}]]
    /\ names \in [Targets -> ObjectIds \union {Absent}]
    /\ late \subseteq Request
    /\ touched \in [Objects -> SUBSET Identities]
    /\ slipped \in [Objects -> SUBSET Identities]
    /\ upsets \in 0..MaxUpsets

(* The semaphore holds a token for exactly the targets at work, so that no  *)
(* more than sync.concurrency of them are, and every path out of syncTarget *)
(* gives its token back: a pass that is over leaves none behind.            *)
AtWork(t) == pc[t] \notin {"waiting", "done"}
SemaphoreAccounted == sem = Cardinality({t \in Targets : AtWork(t)})

(* No two targets ever reconcile the same GitLab object in one pass, even   *)
(* when one is named by path and the other by numeric ID, whatever order    *)
(* they resolve in and whatever is renamed meanwhile (reconciler.go:80-88). *)
PastClaim(t) ==
    \/ pc[t] \in {"building", "applying"}
    \/ pc[t] \in {"returning", "done"} /\ err[t] \in {"none", "list"}
OneWriterPerObject ==
    \A t, u \in Targets : PastClaim(t) /\ PastClaim(u) /\ Object(t) = Object(u) => t = u

(* A target is refused only because another one, which was not refused      *)
(* itself, has its object: aliases never refuse each other in a circle that *)
(* leaves the object without anyone.                                        *)
RefusalHasOwner ==
    \A t \in Targets : err[t] = "duplicate" =>
        \E u \in Targets \ {t} : claimed[Object(t)] = u /\ PastClaim(u) /\ Object(u) = Object(t)

(* What each entry of target t read in this pass. *)
ReadBy(t) == [i \in Entries(t) |-> IF plan[t][<<i, 0>>].reason = "vault" THEN Absent
                                   ELSE snap[Specs[t][i].secret]]

Planned(t) == pc[t] = "applying" \/ (pc[t] = "done" /\ err[t] = "none")
Wants(t) == {s \in Slots(t) : plan[t][s].op \in {"create", "update", "noop"}}

(* The variables a target plans are those of the order-free reference, one  *)
(* slot for each: explicit keys are never shadowed by from_secret, of two   *)
(* derived keys that collide exactly one survives, and every value comes    *)
(* from the one snapshot of its secret that the pass has taken, the same    *)
(* for all targets.                                                         *)
BuildMeetsReference ==
    \A t \in Targets : Planned(t) =>
        /\ {plan[t][s].var : s \in Wants(t)} = DesiredOf(t, ReadBy(t))
        /\ \A r, s \in Wants(t) : plan[t][r].var.id = plan[t][s].var.id => r = s

(* Failures are isolated: whatever else goes wrong, each entry of a target  *)
(* that was not given up on has its outcome, one for each field that        *)
(* from_secret found, and an outcome that is not a variable counts as a     *)
(* failure unless it is a masked violation under skip-warn.                 *)
NothingDropped ==
    \A t \in Targets : Planned(t) => \A i \in Entries(t) :
        LET content == ReadBy(t)[i]
            due == IF Specs[t][i].explicit \/ content = Absent THEN {0}
                   ELSE {f \in Fields : content[f] # Absent}
        IN  /\ \A f \in 0..NumFields : plan[t][<<i, f>>].op # "none" <=> f \in due
            /\ \A f \in due : LET a == plan[t][<<i, f>>]
                               IN  a.op = "skip" => a.err \/ (a.reason = "masked" /\ SkipWarn)

(* When a target is done without a target error, each of its variables is   *)
(* in GitLab as planned, or its action reports a failure, or someone else   *)
(* changed it during the pass.  So a report without errors means that the   *)
(* configuration is in force, and what failed for one variable never took   *)
(* another one down.                                                        *)
InPlace(o, var) == store[o][var.id] = var.body
AppliedOrReported ==
    \A t \in Targets : pc[t] = "done" /\ err[t] = "none" /\ ~dryRun =>
        \A s \in Wants(t) :
            LET a == plan[t][s]
            IN  a.err \/ InPlace(Object(t), a.var) \/ a.var.id \in touched[Object(t)]

(* A pass whose report has no errors, the condition for exit code 0, leaves *)
(* every variable of every target in force, a masked violation under        *)
(* skip-warn excepted: nothing was refused, dropped or half applied on the  *)
(* way.                                                                     *)
HasErrors ==
    \E t \in Targets : err[t] # "none" \/ \E s \in Slots(t) : plan[t][s].err
CleanPassInForce ==
    (\A t \in Targets : pc[t] = "done") /\ ~HasErrors /\ ~dryRun =>
        \A t \in Targets :
            \A var \in DesiredOf(t, [i \in Entries(t) |-> snap[Specs[t][i].secret]]) :
                InPlace(Object(t), var) \/ var.id \in touched[Object(t)]

(* An action planned from the List still fits when its turn comes, unless   *)
(* someone else touched the variable or the List had missed it: a create    *)
(* finds nothing, an update finds a variable that differs.  Neither the     *)
(* target's own earlier writes nor another target get in its way.           *)
PlanStillFits ==
    \A t \in Targets : \A s \in todo[t] :
        LET a == plan[t][s]
            have == store[Object(t)][a.var.id]
        IN  \/ a.var.id \in touched[Object(t)] \union slipped[Object(t)]
            \/ have # a.var.body /\ (a.op = "create" <=> have = Absent)

(* A target may write a variable only outside dry runs, only on the object  *)
(* it has claimed, and only as its configuration and this pass's secrets    *)
(* say.  This holds of every write, whatever others did to the variable in  *)
(* the meantime, and of every request that is given up on and may still be  *)
(* carried out: so the operator deletes nothing and leaves variables it     *)
(* does not manage alone.  (The object is the one the reference named when  *)
(* it was resolved, which the client remembers until a reload.)             *)
MayWrite(t, o, var) ==
    /\ ~dryRun
    /\ claimed[o] = t
    /\ Object(t) = o
    /\ var \in DesiredOf(t, ReadBy(t))
WritesOnlyDesired ==
    [][\A t \in Targets : Step(t) =>
         /\ \A o \in Objects : \A i \in Identities : store'[o][i] # store[o][i] =>
                MayWrite(t, o, [id |-> i, body |-> store'[o][i]])
         /\ \A r \in late' \ late : MayWrite(t, r.object, r.var)]_<<store, late>>

(* A target as a reader of the caching source: the secret it waits for, and *)
(* what its last read returned.                                             *)
AskedBy(t) == IF Reading(t) THEN SecretAt(t) ELSE Absent
GotBy(t) == IF pc[t] = "building" /\ at[t] > 1 THEN ReadBy(t)[at[t] - 1] ELSE Absent
Source == INSTANCE SecretSource WITH
    Readers <- Targets,
    inPass  <- TRUE,
    asked   <- [t \in Targets |-> AskedBy(t)],
    got     <- [t \in Targets |-> GotBy(t)]

(* The targets of a pass use the source as it promises to be used, and rely *)
(* on nothing it does not promise: the snapshots the reconciler works with  *)
(* are the source's, a new pass begins only when nobody waits for a read,   *)
(* and a rotation in the middle of a pass reaches no target that asks for a *)
(* secret another one has read (reconciler.go:36-38, desired.go:103).       *)
UsesSource == Source!Spec

(* Every pass ends, whatever fails: no target waits for a slot forever.     *)
PassTerminates == []<>(\A t \in Targets : pc[t] = "done")

(* Once Vault, GitLab and the network leave the operator alone, GitLab      *)
(* comes to hold what the configuration asks for and keeps it, for every    *)
(* target whose reference could be resolved.                                *)
TargetId(t) == IF Kind[t] = "instance" THEN 0 ELSE resolved[t]
Converged ==
    \A t \in Targets :
        IF TargetId(t) = Absent THEN names[t] = Absent
        ELSE \A var \in DesiredOf(t, [i \in Entries(t) |-> vault[Specs[t][i].secret]]) :
                InPlace(<<Kind[t], TargetId(t)>>, var)
EventuallyConverged == <>[]Converged
=============================================================================
