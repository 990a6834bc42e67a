# vault-gitlab-operator in TLA+

The operator copies secrets from Vault (KV v2) into GitLab CI/CD variables.  It
runs passes: every `sync.interval` it reads the secrets a YAML configuration
names, computes the variables each GitLab instance, group and project should
have, lists what is there and creates or updates the difference.  It deletes
nothing.

This directory models the parts of it that decide something, checks them with
TLC on small instances, and proves the most important safety properties for
every instance with TLAPS.  `PROJECT.json` lists components, runs, the lines
each definition translates, mutants, hazards, findings and theorems.

## 1. The system

| Part | State | Operations | Interacts with |
|---|---|---|---|
| Reconciler (`internal/sync/reconciler.go`, `report.go`, `action.go`) | per pass: a semaphore, a claim set under a mutex, one goroutine and one `TargetResult` per target | `Run`, `syncTarget`, `claim`, `apply` | secret source, GitLab client; called by the daemon loop and the `once` and `diff` commands |
| Desired state and diff (`desired.go`, `diff.go`, `masked.go`) | locals of one call: `taken`, the variables, the skips | `buildDesired`, `diffTarget`, `maskableViolation` | reads the secret source once per entry |
| Secret cache (`internal/vault/cache.go`) | pass number; per secret an entry (version, data, verified pass) with its own mutex | `BeginPass`, `Read`, `Version`, `Forget` | Vault client; shared by all targets of a pass |
| Vault client (`internal/vault/client.go`) | the token | `Version`, `Read` | Vault |
| Token keeping (`internal/vault/auth.go`) | the login secret, the backoff | `Login`, `KeepAlive`, `watchToken` | a goroutine per built reconciler, cancelled when a reload replaces it |
| GitLab client (`internal/gitlab`) | memo of resolved references, as old as the client; during a `List`, the page and the variables so far | `ResolveTarget`, `List`, `Create`, `Update` | GitLab, every request bounded by a timeout of its own |
| Daemon loop (`internal/daemon`, `daemon_cmd.go`) | `lastProgress`, `ready`, the signal channel, the timer, the active reconciler and the `cancel` of its KeepAlive | pass, wait, reload, stop; `/healthz`, `/readyz` | signals, the configuration file, the reconciler, token keeping |
| Configuration (`internal/config`) | during `Parse`, the target being expanded; none after it | `applyDefaults`, `validate`, `expand` | everything above reads the result |
| Metrics, logging, command line, chart | no state that decides anything | | |

What is hard about it, and what makes each part correct:

* **Reconciler.**  Two entries may name one project, by path and by ID, which
  is known only after both were resolved, on two goroutines.  Correct: one
  writer per object, a refusal only in favour of a target that goes on, the
  semaphore given back on every path, failures of one variable or one target
  kept apart from the rest *and* reported, nothing written that was not asked
  for, and convergence once disturbances end - although requests are given up
  on and carried out later, passes run into their deadline, and people edit.
* **Desired state.**  `from_secret` derives keys from fields, so explicit and
  derived entries compete for an identity.  Correct: the outcome does not
  depend on the order of entries where the code promises that (an explicit
  key always wins), exactly one of several derived ones survives, and
  everything that does not become a variable is accounted for.
* **Secret cache.**  Two calls, version and data, with writes in between;
  readers that meet at a lock; a memo that must not outlive its pass.
  Correct: nothing that was replaced before the pass, the same content for all
  targets of the pass, no more calls than needed, no lock left behind.
* **Token keeping.**  Outages, leases of several kinds, a backoff, and a
  cancellation that may come at any moment.
* **Daemon.**  Signals during passes and reloads, reloads that fail, passes
  that never return, a health check computed from the first configuration, a
  KeepAlive goroutine for each client built.  Correct: no signal lost, a known
  bound on the staleness clock, a hang noticed, the client in use kept alive
  and no goroutine left behind.
* **GitLab listings.**  Pages are read by offset while others change what is
  listed.  Correct: what is shown was there, what is missed is missed because
  something was deleted, and the next listing heals it.
* **Configuration.**  Defaults, validation and expansion each check a part:
  bundles are validated for no particular target, scopes are checked again
  after the defaults, bundles overlap, inline variables override theirs in
  place.  Correct: what is accepted meets everything the other parts assume.

## 2. Modules

| Module | Models | How it relates to the others |
|---|---|---|
| `Desired` | `desired.go`, `diff.go`: operators, one entry at a time, and the order-free reference `DesiredOf` | extended by `Reconciler` |
| `Reconciler` | `reconciler.go` with the GitLab and Vault it meets | implements `SecretSource` from the side of its readers (`UsesSource`); `ListMissing` is what `Listing` leaves possible |
| `SecretSource` | the abstract promise of the caching source | where `Reconciler` and `SecretCache` meet |
| `SecretCache` | `cache.go` and the two calls of `client.go` | implements `SecretSource` (`ImplementsSource`) |
| `Listing` | `levels.go`: a listing page by page, and the index `diff.go` makes of it | `ListFaithful` bounds what `ListMissing` may do |
| `Daemon` | `daemon.go`, `daemon_cmd.go` | a pass is one phase with a length; a KeepAlive is alive or not |
| `TokenKeeper` | `auth.go` | one KeepAlive from the inside; `Cancel` is the reload or the SIGTERM of `Daemon` |
| `ConfigExpand` | `expandTarget` of `expand.go` | extended by `ConfigLoad` |
| `ConfigLoad` | `load.go`, `validate.go`, `expand`: from a parsed file to targets or an error | `AcceptedMeetsAssumptions` and `UniqueIdentities` discharge what `ConfigAssumption` of `Desired` and `DaemonAssumption` of `Daemon` take for granted |
| `ReconcilerProofs`, `SourceUseProofs`, `PassProofs` | theorems about `Reconciler` | each extends the one before it; `PassProofs` is about what is planned and written |
| `SecretCacheProofs`, `ListingProofs`, `DaemonProofs`, `TokenKeeperProofs`, `ConfigProofs` | theorems about the module of that name, the last about `ConfigLoad` with `ConfigExpand` | |
| `MC...` | instances for TLC | |

Definitions keep the names of the code where TLA+ allows it.  A definition
preceded by a comment "Mutant:" is a plausible mistake in the definition below
it; no specification uses it.  `PROJECT.json` says which property notices it.

**Reconciler.**  `pc[t]` follows the goroutine of target `t` through
`syncTarget`: waiting for the semaphore, resolving, claiming, building,
applying, returning, done.  `Acquire`/`Return` are the send to and the deferred
receive from the semaphore channel; `ResolveKnown`, `ResolveOk`, `ResolveErr`
are `ResolveTarget` with and without its memo; `Claim` and `Refuse` are the two
outcomes of `claimSet.claim`; `ReadOk` and `ReadErr` handle one entry of
`buildDesired`, so that passes interleave between any two reads; `ListOk`
includes `diffTarget`, a pure function; `ApplyOk`, `ApplyErr` and `ApplyLost`
are one request of the loop, in the order of the report.  A plan is a function
from slots to actions: slot `<<i, f>>` is field `f` of entry `i`, slot
`<<i, 0>>` the entry itself.  What the environment may do: change or delete
variables and secrets, move references, let the deadline pass, fail a request,
lose its answer, carry a lost request out later, have the configuration
reloaded between passes.  Values are kept as far as the code tells them apart:
maskable or not, oversized or not.  Type, protected, raw and description are
one attribute; `masked` is kept apart because the masking rules depend on it.
`UsesSource` maps each target to a reader of `SecretSource`: it asks for the
secret of the entry it has come to, its last result is what that entry read.

**Listing.**  `stored` is GitLab's list in its own order, in which a variable
keeps its place while it exists; `PageOf` cuts a page out of it when the page
is asked for.  `FetchOk` appends a page and follows `NextPage`; `FetchErr` fails
the whole listing.  `Observed` is the map `diffTarget` builds, in which a later
entry replaces an earlier one.  GitLab holds one variable per identity
(`ListingAssumption`), and whoever changes the object keeps it so.  The three
levels list alike and are modelled
once.  In `Reconciler` a listing is one step that shows the store as it is, or,
as a disturbance, the store without one variable (`ListMissing`): by
`ListFaithful` a listing misses at most as many variables as were deleted
meanwhile and shows nothing that was not there.  A listing may also show one
variable as it was before an edit and another as it was after one; since the
edits concern different variables, `Reconciler` reaches the same listing and
the same store by taking the one edit after the step and the other before it.

**SecretCache.**  A reader is a target: `Call`, `Lock`, then the version call
(`VersionSame`, `VersionDiffers`, `VersionErr`) and, if the version moved, the
data call (`DataOk`, `DataErr`), or `MemoHit` without any call.  Vault keeps
what was written under each version; `Put`, `Toggle` (soft delete, undelete)
and `DeleteMetadata` happen between any two calls.  `MayRecreate` allows a
secret to be written again after its metadata was deleted.  Two histories keep
what a pass may answer apart: `current`, the contents of the version that was
the current one, deleted or not, and `readable`, what a live read could have
returned.  A soft delete takes a content out of the second and not out of the
first, because it does not move the version number.  In the refinement of
`SecretSource` a secret is there until its metadata is gone: whether a
soft-deleted one can still be read depends on whether the cache has it, and a
read that finds it deleted is one that fails.  In `Reconciler`, accordingly, the
soft delete of a secret that the cache holds is no change of `vault`, and that
of one it does not hold is the disturbance that makes it `Absent`.

**Daemon.**  Discrete time.  What the code does without waiting takes none, so
the clock stands still while a case of the `select` is ready.  `hung` marks a
pass that never returns.  The channel of SIGHUP holds one signal; `tried` and
`asked` remember which version of the file was read and signalled.  A reload
reads the file (`ReadFile`), then logs in for as long as `ReloadTime`; the
clients built are numbered by `builds`, `keepers` are those whose KeepAlive
still lives and `ended` those whose `cancel` was called.  A file may set the
auth method token (`StaticAuth`): logging in then calls nobody, so that it
works even after SIGTERM, and its KeepAlive returns at once.

**TokenKeeper.**  Discrete time again: `ttl` and `maxLeft` are Vault's view of
the token, `wait` the running `time.After`.  The renewals of Vault's
`LifetimeWatcher` are external: it renews with a third of the lease left and
gives up at its grace period, a sixth.  The watch may therefore end with a sixth
of a lease to go, and what is said of the token's life holds if a login takes
less than that (`QuickLogins`).

**ConfigLoad, ConfigExpand.**  `Init` holds a file that YAML has decoded; then
`ApplyDefaults`, `Validate` or `Reject`, and for each target in the order of
the code one step of `add` per specification (`AddNext`) and `TargetDone`.  A
rejected file has at least one error; which errors are reported, and warnings,
are not modelled.  Mounts and paths are sequences of segments, so that
`SecretKey` joins them as the code does.  The `*_env` and `*_file` keys of a
secret are the set of those that are present.  What a setting may be is kept as
far as the checks tell it apart; variable type, protected, masked, raw and
description are one attribute, of which some values are mistyped.
`keyed[id]` is a place in `ordered`, counted from 1, with 0 for a missing map
entry.  `originBundle` keeps whether an entry came from a bundle; the code
keeps the bundle's name and "" for none, so a bundle named "" would count as
inline there, and bundle names are taken to be non-empty.

## 3. Runs

| Run | Question | Shows |
|---|---|---|
| `aliases` | one project named twice beside a group of the same numeric ID, two slots, passes without end, real and dry, any two disturbances, a listing that misses a variable among them | one writer per object; a refusal has an owner; the semaphore is exact; the plan still fits when applied; failures are reported; nothing undesired is written; the targets use the secret source as it promises to be used |
| `build` | the instance and a project whose explicit and derived entries compete, over the contents of two secrets with two fields, values over the instance limit or not maskable, skip-warn | the build meets the order-free reference and drops nothing; a report without errors means the configuration is in force |
| `converges` | a group and a project behind one slot, a derived key that two secrets compete for, three disturbances, under fairness | every pass ends; GitLab converges and stays so |
| `cache` | three readers, two passes, rotations, soft deletes and deletions of the metadata, under fairness | reads of a pass agree and return nothing replaced before it, entries match their version, calls are accounted for, the lock is held by exactly the reader inside, every read returns, and `SecretCache` implements `SecretSource` |
| `cache_metadata`, `cache_stale`, `cache_deleted` | findings 1, 2 and 4 below | a violation |
| `listing` | up to three pages, three variables added, edited or deleted or requests failed anywhere | a listing shows what was there, misses at most one variable per deletion, and the next quiet one is exact |
| `daemon` | signals at any moment, reloads that fail, succeed or change the auth method, hanging passes | the staleness clock stays within its bound; the client in use is kept alive and replaced ones are not; no signal is lost; hangs are noticed; passes go on; SIGTERM stops the loop |
| `daemon_stale` | finding 3 | a violation |
| `token` | three kinds of lease, two outages of any length | the token lives while Vault answers, is back soon after an outage, and the keeper stops when told |
| `config` | a good file with each setting changed to each value that matters, every malformed specification at each place, several targets, and all expansions of up to three bundles and two inline variables at each level | `add`, one by one, agrees with what is said of whole lists; a file that is accepted meets what the daemon, the reconciler and the build assume |

Every property of a passing run has a mutant that breaks it.

### Bounds and why they suffice

* `MaxUpsets` (1 to 3): the disturbances in a behaviour.  They share one
  budget so that TLC explores them anywhere and in any combination - the two
  of `aliases` are enough for "rename, then lose a request" or "two lost
  requests", the three of `converges` for "delete a secret, write it again,
  lose a request" and those of `listing` for two deletions and an insertion
  between two pages.  Passes are not bounded: the state space closes by itself.
  Failures that follow from the state (an expired context, a missing secret)
  are not counted.
* `Edits`, `Rotations`, `Moves`: which changes the disturbances may make; each
  set contains a deletion and a change where the level has them.
* `NumFields`, `Values`: two fields are needed for a collision within a secret,
  two secrets for one between secrets.  Three values suffice to tell a good
  value, another one and a bad one apart.
* `InitVaults` of `build`: every content of the first secret, which feeds three
  entries; of the second, seven: each way in which its two fields may be
  missing, good, or bad beside a good one.
* `MaxWrites`, `MaxPass` (2 each): two passes are needed to see a memo outlive
  its pass, two operations on the secret to have one in a pass and one between
  passes, or a write and a deletion.  Three readers (`cache`) to have one that
  waits while another calls and a third that comes late; each reads once in a
  pass (`MaxReads` 1), since a reader that reads again is in the state of
  another that reads for the first time.  The runs of the findings make do
  with two readers that read twice.
* `PerPage` (2), five variables at most: three pages, the last one short, are
  needed for a shift across a page that has been read and one that has not.
* `Files` of `Daemon` (three contents, one broken, one with the auth method
  token), `MaxHups` (3), `ReloadTime`, `MaxAge`: an edit between a signal and
  its reload, one more signal than the channel holds while a reload runs, a
  timeout that changes.  `MaxAge` (22) is where the clocks stop counting, above
  everything they are compared with.
* `Files` of `ConfigLoad` (`MCFiles`): one setting, or one pair that the code
  reads together, is changed at a time, because `validate` checks sections
  independently of each other.  For the expansion, all sequences of up to three
  bundles and two inline entries: three bundles give a duplicate of a
  duplicate, two inline entries an override and a duplicate of the override.
* `MaxOutages` (2), `LoginTime` (1), leases of 12 and a max TTL of 18 ticks: a
  second outage is needed to see a backoff left over from the first.

`CHECK_DEADLOCK FALSE` is set where behaviours end: readers that have used
their reads, a stopped daemon or keeper with no signals left, an expansion that
is done.

### Fairness

* `Reconciler`: weak fairness of each target's goroutine and of the start of
  the next pass.  Every request of the GitLab and Vault clients ends by
  itself, at the latest with the client's own timeout (`client.go:18-23`), so
  each step eventually happens, successful or not.  Weak fairness suffices for
  the semaphore: a slot that is free stays free until somebody takes it, and a
  pass has finitely many targets.  The environment has no fairness; convergence
  holds because its disturbances are finite (they share `MaxUpsets`), which is
  the claim: GitLab converges *once* the disturbances end.
* `SecretCache`: weak fairness per reader, for the same reason.
* `Listing`: weak fairness of the next listing, which the next pass begins, and
  of a page that is asked for.  Changes and failures are finite.
* `Daemon`: weak fairness of the loop and of time.  A pass that hangs is
  excepted by `hung`, which takes away the loop's own steps.  A KeepAlive whose
  context is done returns, which `TokenKeeper` shows (`KeeperStops`).  None for
  signals.
  `select` chooses at random; weak fairness of the loop as a whole does not
  assume that it ever prefers SIGTERM, so `StopsOnTerm` rests on SIGHUPs
  being finitely many.
* `TokenKeeper`: weak fairness of the goroutine and of time, none of Vault.

## 4. Findings

1. **Not one metadata read per pass** (`cache_metadata`).  `README.md:24-25`
   says each secret costs one metadata read per pass; a `Version` call that
   fails leaves no mark (`cache.go:75-78`), so each further reference to the
   secret repeats it.  What holds is `SharedMetadataRead`.
2. **A secret that was deleted and written again may be served stale**
   (`cache_stale`).  The cache compares version numbers only
   (`cache.go:79`).  Once the metadata is gone, numbers start at 1 again, and
   equal numbers no longer mean equal content.  What is violated is
   `NeverReplaced`, which holds as long as no secret is written again.
3. **`/healthz` may fail although nothing is wedged** (`daemon_stale`).  A
   reload that fails restarts the wait without a pass (`daemon.go:105-118`);
   the reason given in `daemon_cmd.go:64-66` does not count it.  What holds is
   `AgeBounded`, proved for every configuration: one more wait and one more
   login for each reload that failed.  (That a reload may raise the timeout
   while `StaleAfter` stays what it was is a second reason, which this run's
   files leave out.)
4. **A soft-deleted secret goes on being served** (`cache_deleted`).  A soft
   delete leaves `current_version` where it is, so the cache finds its entry
   up to date (`cache.go:79-81`) and returns the deleted version's data, pass
   after pass; a read that reaches Vault reports the same secret as not found
   (`client.go:91-95`, and `TestReadDeletedVersion` asserts it).  Whether a
   deleted secret is an error or a value thus depends on whether the process
   has read it before.  `FreshWithinPass` says that it would not; what holds
   is `NeverReplaced`.

## 5. Proofs

Assumptions are those named in the modules (`ConfigAssumption`,
`ValueAssumption`, `EnvironmentAssumption`, `CacheAssumption`,
`ListingAssumption`, `ExpandAssumption`, `LoadAssumption`, `DaemonAssumption`,
`ClockAssumption`, `KeeperAssumption`);
TLC evaluates them in the runs of those modules.  The constants are otherwise
arbitrary: any number of targets, secrets, entries, files and disturbances.

* `Typing` (`ReconcilerProofs`).  `TypeOK` and `SemaphoreAccounted` with
  `PendingOnlyApplying` (a target that applies nothing has nothing left to
  apply).  The last is needed because `todo` must stay within the plan when
  the plan is replaced, and the cardinality of the targets at work because
  `sem' = sem - 1` must not leave `Nat`.  `Typed` and
  `BoundedConcurrency` follow.
* `Claims`, then `NoTwoWriters` (`OneWriterPerObject`) and `RefusalsJustified`
  (`RefusalHasOwner`).  Neither property survives a step by itself: a claim
  in the set could belong to a target that has moved on.  `ClaimsHold` ties
  the set to the targets in both directions - whoever is past the claim is on
  record, whoever is on record is past the claim for that very object - and
  adds that a refusal is never the target's own and that nobody under way has
  an error.
* `ReferenceMet` (`BuildMeetsReference`) and `EverythingReported`
  (`NothingDropped`) (`PassProofs`).  Both speak of a finished plan and say
  nothing of a build under way.  `Plans` does: a build that has come to entry
  `at[t]` has given each slot before it the `Result` that a function of its
  reads yields, no other slot anything, and `taken` is what that function says
  of the entries so far; a plan that was compared with GitLab is such a result,
  settled; nothing is planned before the claim, and a target that gives up
  has an error.  It is kept because what the source has answered stays its
  answer in the pass (`SnapGrows`), so that a read by another target cannot
  change what the reads of this one amount to.  That the results are the
  reference is then a matter of operators: an identity is taken when its turn
  comes exactly if a slot with precedence asks for it, so a slot holds a
  variable exactly if it owns its identity.
* `PlansStayFit` (`PlanStillFits`), `AppliedOrFailed` (`AppliedOrReported`),
  `CleanReportBelieved` (`CleanPassInForce`) and `OnlyDesiredWritten`
  (`WritesOnlyDesired`, of which nothing is excepted: it speaks of the steps of
  targets, so what others did before does not matter, and of requests that are
  given up on as well as of writes), on `Carried`: a planned action that waits for its turn
  fits the store, a variable that does not wait is in place or its action
  carries an error, and a dry run has nothing waiting - each unless others
  touched the variable or the listing missed it.  It needs `Claims` (another
  target has another object) and `Plans` with the uniqueness of owners
  (another slot has another identity): between a target's listing and its
  writes nobody but the environment changes what it wants, and the environment
  leaves a mark.
* `CacheTyping` and `LockDiscipline` (`SecretCacheProofs`), then `OneContent`
  (`OneContentPerPass`).  The property says nothing of the entry, so it is not
  inductive: `AnsweredFromEntry` adds that whatever was answered in this pass
  is what the verified entry holds, and `FetchingUnverified` that a reader
  between its two calls finds the entry unverified - true only because the
  lock keeps the others out meanwhile.  No assumption about deletions or
  rewriting, and neither `LockDiscipline` nor `SharedCalls` needs one.
* `SharedCalls` (`SharedMetadataRead`).  `CallsAccounted` charges every
  metadata call to a read that failed or to the one verification; `AloneInside`,
  again the lock, keeps a second reader from being about to verify.
* `EntriesMatch`, `NothingReplacedRead` (`NeverReplaced`) and
  `SourceImplemented` assume `MayRecreate = FALSE`: a secret whose metadata was
  deleted is not written again.  Finding 2 shows that they are false without
  it.  `Fresh` is their invariant: a version number stands for a content, what
  is current is noted as such, what is verified in the pass was current in it,
  there is nothing in the cache of a secret that never existed, and no mark is
  of a pass to come (so that `BeginPass` forgets all of them).  For the refinement, the lock and the
  metadata call that precedes a data call are stuttering steps, and a read
  takes effect where it ends.
* `SourceUsed` (`SourceUseProofs`): `Reconciler` implements `SecretSource`.  The
  mapping shows a reader its result only while it builds; `ReadsKept` is what
  makes it right, an entry that was read and did not fail has the pass's
  snapshot of its secret, and `Starting` that a target asks for nothing before
  its first entry.  A successful read is an `Answer`, a failed one a `Fail`,
  the claim is the first `Ask`, the listing a `Forget`, everything else a
  stutter.  Together with `SourceImplemented` this is the composition: the cache
  implements the source, the reconciler uses nothing else of it, so what is
  shown of `Reconciler` holds of it on top of `SecretCache`.
* `ExpandTyping` and `ExpansionUnique` (`ConfigProofs`), from the parsed file to
  the end of `expand`.  Typing needs `Sourced`: a bundle that a target lists is
  declared, which only validation makes sure, and the defaults are filled in
  before an entry is resolved.  Uniqueness is not inductive: an append is
  harmless only because `keyed` says that the identity is new.  `KeyedIndexes`
  states that `keyed` is an exact index of the explicit entries.
  `ExpansionUnique` is what `ConfigAssumption` takes for granted; at the
  instance, where the build drops the scope, `ScopeAllowed` lets only the
  default scope through, so identities stay apart there too.
* `ExpansionMeets` (`ExpandMeetsReference`).  The reference compares whole lists;
  the invariant `Tracked` is the reference restricted to the occurrences that
  have been read, with what `keyed` and `fromSecretSeen` stand for: the first
  occurrence of each name that is allowed, at its rank, led by itself or by the
  inline variable that overrides it.  Such a restriction is right only because
  everything of a name that is allowed has a first that was taken
  (`Represented`), so that "an entry of this identity exists" and "something
  of this name came before" are the same question.
* `AcceptedMeets` (`AcceptedMeetsAssumptions`).  The checks are made before the
  expansion and what they establish is needed after it.  `Checked` keeps that
  the configuration in use is the one that was validated, with its defaults;
  `Paired` which target an expansion belongs to, so that two targets that
  differ in the file differ in the result; `Ready` that each entry taken so far
  is complete.  That no two secrets share a cache key while no mount lies in
  another is a lemma about sequences (`SplitsApart`): of two ways to split one
  sequence, the shorter first part begins the longer.
* `DaemonTyping`, `StalenessBounded` (`AgeBounded`) and `TokenKept`
  (`ActiveIsKept`) (`DaemonProofs`).  `Counted` charges each failed reload and
  each build to a signal of its own and says that only a file that loads is
  logged in with.  `Measured` bounds the staleness clock by where the loop is,
  together with the clock of the running wait, login or pass; the bound grows
  by a wait and a login with each reload that fails.  `Kept` adds to
  `ActiveIsKept` that only replaced clients are cancelled, without which a
  KeepAlive that ends might be the active one's.
* `KeeperTyping`, `NeverExpires` (`NeverExpiresWhileUp`) and `Recovers`
  (`RecoversSoon`) (`TokenKeeperProofs`), on `Clocks`, bounds between clocks that
  run at the same time: what is left of the token exceeds what is left of the
  wait by a third of the lease, a login that no outage delayed began before
  the token was late (`LoginsInTime`), and a backoff is never more than a tick
  longer than logins have been failing (`Backoffs`).
* `ListingTyping` and `Faithful` (`ListFaithful`) (`ListingProofs`).  A deletion
  does its harm long before the listing ends: it shifts a variable onto a page
  that was read already.  `Followed` counts these (`Shifted`: there all along,
  in a place that was asked for, not listed) and bounds them by the deletions
  so far; an insertion moves variables the other way, an edit moves none, and
  the next page lists all that are in its places.

Every safety property that a passing run checks, and every action property, is
a theorem.  Only model-checked is liveness under fairness, which the prover
does not do: `PassTerminates`, `EventuallyConverged`, `ReadsReturn`,
`ListingHeals`, `WedgeDetected`, `KeepsTicking`, `StopsOnTerm`, `HupServed`,
`ReplacedKeepersEnd` and `KeeperStops`.  (The properties of the runs that expect
a violation are false, and what holds instead is proved.)

## 6. Not modelled

* Decoding YAML, and resolving secrets from environment variables and files:
  functions from text to values; a failure of either is a file that does not
  load (`Broken` in `Daemon`).
* Reloads that change what `Reconciler` is configured with: `Rebuild` stands for
  a SIGHUP that reads the same configuration again.
* Whether a reference still names the object it was resolved to: the client
  remembers the ID until a reload (`client.go:91-92`), and the properties speak
  of the object that was resolved.
* Warnings of the configuration: they change nothing.  (A group scope that
  comes from `defaults.environment_scope` gets none, `validate.go:214-221` and
  `expand.go:62-67`, although `README.md:123-124` announces one for scopes on
  group variables.)
* `CachedSource.Forget`: nothing outside the tests calls it.
* The login methods approle and kubernetes apart from each other: they differ
  in their inputs, not in what a success or a failure does.
* Key sanitising and the length and masking rules as functions on text: the
  instances choose which keys coincide and which values are accepted.
* The rate limiter of the GitLab client, and the retries of its library.  The
  timeout of `client.go:18-23` bounds each request by itself; the retries on
  top of it are bounded by the context of the pass, which the library looks at
  before each.  In the model a call of the client is one step with one outcome:
  an attempt that GitLab carries out although it was given up on is `ApplyLost`
  and `LateApply`.
* Metrics, logging, redaction, report rendering, flags, the container and the
  chart.

## 7. Plan

Done, in this order: `Desired`, `Reconciler` (the core), `SecretSource` and
`SecretCache`, `Daemon`, `ConfigExpand`, `TokenKeeper`; then `Listing` and
`ListMissing`, `Reconciler` as a client of `SecretSource`, the KeepAlives of
`Daemon`, `ConfigLoad`; and the proofs above.

Next:

1. The safety half of convergence for every configuration: a pass that meets
   no disturbance and no unreadable secret ends without an error and leaves
   its configuration in force, of which `EventuallyConverged` is the
   consequence under fairness.
2. The step from `Listing` to `Reconciler` as a refinement: a listing of pages
   implements one step that shows the store or misses a variable.
3. The step from `ConfigLoad` to `Desired` as a theorem: entries that are
   `EntryReady` and have identities of their own meet `ConfigAssumption`.
