----------------------------- MODULE SecretCache -----------------------------
(***************************************************************************)
(* internal/vault/cache.go: CachedSource, the version-keyed cache between  *)
(* the targets of a pass and Vault's KV v2 engine.                         *)
(*                                                                         *)
(* A read takes the lock of its secret's entry, answers from memory if the *)
(* version was verified in this pass, and otherwise asks Vault for the     *)
(* current version (metadata) and, if that is not the cached one, for the  *)
(* data.  Vault may change between the two calls, and each may fail.       *)
(*                                                                         *)
(* A secret in Vault is the sequence of the contents written to it, so its *)
(* current version is the length of that sequence.  A soft delete makes    *)
(* the current version unreadable without changing its number, and a new   *)
(* write makes the secret readable again; deleting the metadata forgets    *)
(* the history, and should the secret be written again, versions start     *)
(* from 1.                                                                 *)
(***************************************************************************)
EXTENDS Naturals, Sequences, FiniteSets

CONSTANTS
    Readers,      \* the targets that read, one goroutine each
    Secrets,      \* VaultRef.SecretKey()s
    Contents,     \* field maps
    Absent,       \* no content, no secret, no reader
    MayRecreate,  \* a secret whose metadata was deleted may be written again
    MaxWrites,    \* bound: writes to a secret
    MaxReads,     \* bound: reads by one reader in one pass
    MaxPass       \* bound: passes

ASSUME CacheAssumption ==
    /\ Absent \notin Contents \union Secrets \union Readers
    /\ MayRecreate \in BOOLEAN
    /\ MaxWrites \in Nat
    /\ MaxReads \in Nat
    /\ MaxPass \in Nat

VARIABLES
    written,  \* Vault: the contents written to each secret, oldest first
    live,     \* Vault: the current version of each secret is not deleted
    writes,   \* operations so far on each secret, for the bound
    pass,     \* CachedSource.pass
    entry,    \* CachedSource.entries
    holder,   \* the reader that holds entry.mu
    pc,       \* where each reader is
    asked,    \* the secret it reads
    result,   \* what its last read returned, Absent for an error
    reads,    \* its reads in this pass, for the bound
    calls,    \* history: metadata calls per secret in this pass
    fails,    \* history: reads of a secret in this pass that Vault failed
    current,  \* history: the contents of the current version in this pass, deleted or not
    readable, \* history: the contents a live read could have returned in this pass
    answers   \* history: the contents returned in this pass

kv == <<written, live, writes>>
history == <<calls, fails, current, readable, answers>>
vars == <<kv, pass, entry, holder, pc, asked, result, reads, history>>

Entry == [version : Nat, data : Contents \union {Absent}, pass : Nat]
NoEntry == [version |-> 0, data |-> Absent, pass |-> 0]

Version(s) == Len(written[s])
Exists(s) == Version(s) # 0
Current(s) == IF Exists(s) THEN written[s][Version(s)] ELSE Absent
Readable(s) == IF live[s] THEN Current(s) ELSE Absent

-----------------------------------------------------------------------------
Init ==
    /\ written \in [Secrets -> {<<>>} \union {<<c>> : c \in Contents}]
    /\ live = [s \in Secrets |-> TRUE]
    /\ writes = [s \in Secrets |-> 0]
    /\ pass = 0
    /\ entry = [s \in Secrets |-> NoEntry]
    /\ holder = [s \in Secrets |-> Absent]
    /\ pc = [r \in Readers |-> "idle"]
    /\ asked = [r \in Readers |-> Absent]
    /\ result = [r \in Readers |-> Absent]
    /\ reads = [r \in Readers |-> 0]
    /\ calls = [s \in Secrets |-> 0]
    /\ fails = [s \in Secrets |-> 0]
    /\ current = [s \in Secrets |-> {Current(s)}]
    /\ readable = [s \in Secrets |-> {Readable(s)}]
    /\ answers = [s \in Secrets |-> {}]

(* Run begins a pass after the previous one's goroutines have all ended.    *)
BeginPass ==
    /\ pass < MaxPass
    /\ \A r \in Readers : pc[r] = "idle"
    /\ pass' = pass + 1
    /\ reads' = [r \in Readers |-> 0]
    /\ calls' = [s \in Secrets |-> 0]
    /\ fails' = [s \in Secrets |-> 0]
    /\ current' = [s \in Secrets |-> {Current(s)}]
    /\ readable' = [s \in Secrets |-> {Readable(s)}]
    /\ answers' = [s \in Secrets |-> {}]
    /\ UNCHANGED <<kv, entry, holder, pc, asked, result>>

(* Read: look the entry up, load the pass number, wait for the lock. *)
Call(r, s) ==
    /\ pc[r] = "idle"
    /\ reads[r] < MaxReads
    /\ reads' = [reads EXCEPT ![r] = @ + 1]
    /\ asked' = [asked EXCEPT ![r] = s]
    /\ pc' = [pc EXCEPT ![r] = "waiting"]
    /\ UNCHANGED <<kv, pass, entry, holder, result, history>>

Lock(r) ==
    /\ pc[r] = "waiting"
    /\ holder[asked[r]] = Absent
    /\ holder' = [holder EXCEPT ![asked[r]] = r]
    /\ pc' = [pc EXCEPT ![r] = "checking"]
    /\ UNCHANGED <<kv, pass, entry, asked, result, reads, history>>

(* The read ends and the deferred Unlock runs. *)
Finish(r, content) ==
    /\ result' = [result EXCEPT ![r] = content]
    /\ holder' = [holder EXCEPT ![asked[r]] = Absent]
    /\ asked' = [asked EXCEPT ![r] = Absent]
    /\ pc' = [pc EXCEPT ![r] = "idle"]

Succeed(r, content) ==
    /\ Finish(r, content)
    /\ answers' = [answers EXCEPT ![asked[r]] = @ \union {content}]

(* Mutant: a read that fails does not release the lock. *)
ErrHoldingLock(r) ==
    /\ result' = [result EXCEPT ![r] = Absent]
    /\ asked' = [asked EXCEPT ![r] = Absent]
    /\ pc' = [pc EXCEPT ![r] = "idle"]
    /\ fails' = [fails EXCEPT ![asked[r]] = @ + 1]
    /\ UNCHANGED holder

Err(r) ==
    /\ Finish(r, Absent)
    /\ fails' = [fails EXCEPT ![asked[r]] = @ + 1]

(* Mutant: a version once verified is verified for good. *)
MemoizedForever(s) == entry[s].data # Absent /\ pass # 0

(* Mutant: versions are verified at every read. *)
MemoizedNever(s) == FALSE

(* The version was verified in this pass. *)
Memoized(s) == entry[s].data # Absent /\ pass # 0 /\ entry[s].pass = pass

MemoHit(r) ==
    /\ pc[r] = "checking"
    /\ Memoized(asked[r])
    /\ Succeed(r, entry[asked[r]].data)
    /\ UNCHANGED <<kv, pass, entry, reads, calls, fails, current, readable>>

(* src.Version: the metadata call. *)
Checks(r) ==
    /\ pc[r] = "checking"
    /\ ~Memoized(asked[r])
    /\ calls' = [calls EXCEPT ![asked[r]] = @ + 1]

VersionErr(r) ==
    /\ Checks(r)
    /\ Err(r)
    /\ UNCHANGED <<kv, pass, entry, reads, current, readable, answers>>

SameVersion(s) == entry[s].data # Absent /\ entry[s].version = Version(s)

(* Mutant: an unchanged version is not remembered as verified. *)
VersionSameUnmarked(r) ==
    /\ Checks(r)
    /\ Exists(asked[r])
    /\ SameVersion(asked[r])
    /\ Succeed(r, entry[asked[r]].data)
    /\ UNCHANGED <<kv, pass, entry, reads, fails, current, readable>>

VersionSame(r) ==
    LET s == asked[r]
    IN  /\ Checks(r)
        /\ Exists(s)
        /\ SameVersion(s)
        /\ entry' = [entry EXCEPT ![s].pass = pass]
        /\ Succeed(r, entry[s].data)
        /\ UNCHANGED <<kv, pass, reads, fails, current, readable>>

(* Mutant: the entry gets the new version before its data is fetched. *)
VersionDiffersEarly(r) ==
    /\ Checks(r)
    /\ Exists(asked[r])
    /\ ~SameVersion(asked[r])
    /\ pc' = [pc EXCEPT ![r] = "fetching"]
    /\ entry' = [entry EXCEPT ![asked[r]].version = Version(asked[r])]
    /\ UNCHANGED <<kv, pass, holder, asked, result, reads, fails, current, readable, answers>>

VersionDiffers(r) ==
    /\ Checks(r)
    /\ Exists(asked[r])
    /\ ~SameVersion(asked[r])
    /\ pc' = [pc EXCEPT ![r] = "fetching"]
    /\ UNCHANGED <<kv, pass, entry, holder, asked, result, reads, fails, current, readable, answers>>

(* Mutant: a response without data is taken for a secret. *)
DataOkUnchecked(r) ==
    LET s == asked[r]
    IN  /\ pc[r] = "fetching"
        /\ entry' = [entry EXCEPT ![s] =
                        [version |-> Version(s), data |-> Current(s), pass |-> pass]]
        /\ Succeed(r, IF live[s] THEN Current(s) ELSE Absent)
        /\ UNCHANGED <<kv, pass, reads, calls, fails, current, readable>>

(* src.Read: the data call.  The entry gets the version the data came with. *)
DataOk(r) ==
    LET s == asked[r]
    IN  /\ pc[r] = "fetching"
        /\ Exists(s)
        /\ live[s]
        /\ entry' = [entry EXCEPT ![s] =
                        [version |-> Version(s), data |-> Current(s), pass |-> pass]]
        /\ Succeed(r, Current(s))
        /\ UNCHANGED <<kv, pass, reads, calls, fails, current, readable>>

(* Mutant: when the data call fails the cached data is served. *)
DataErrStale(r) ==
    /\ pc[r] = "fetching"
    /\ entry[asked[r]].data # Absent
    /\ Succeed(r, entry[asked[r]].data)
    /\ UNCHANGED <<kv, pass, entry, reads, calls, fails, current, readable>>

DataErr(r) ==
    /\ pc[r] = "fetching"
    /\ Err(r)
    /\ UNCHANGED <<kv, pass, entry, reads, calls, current, readable, answers>>

-----------------------------------------------------------------------------
(* Vault. *)

Writes(s) == writes[s] < MaxWrites /\ writes' = [writes EXCEPT ![s] = @ + 1]

KvUnchanged == UNCHANGED <<pass, entry, holder, pc, asked, result, reads, calls, fails, answers>>

NeverExisted(s) == ~Exists(s) /\ writes[s] = 0

Put(s, content) ==
    /\ Exists(s) \/ NeverExisted(s) \/ MayRecreate
    /\ Writes(s)
    /\ written' = [written EXCEPT ![s] = Append(@, content)]
    /\ live' = [live EXCEPT ![s] = TRUE]
    /\ current' = [current EXCEPT ![s] = @ \union {content}]
    /\ readable' = [readable EXCEPT ![s] = @ \union {content}]
    /\ KvUnchanged

(* Soft delete or undelete of the current version, whose number stays. *)
Toggle(s) ==
    /\ Writes(s)
    /\ Exists(s)
    /\ live' = [live EXCEPT ![s] = ~@]
    /\ readable' = [readable EXCEPT ![s] = IF live[s] THEN @ ELSE @ \union {Current(s)}]
    /\ UNCHANGED <<written, current>>
    /\ KvUnchanged

DeleteMetadata(s) ==
    /\ Writes(s)
    /\ Exists(s)
    /\ written' = [written EXCEPT ![s] = <<>>]
    /\ UNCHANGED <<live, current, readable>>
    /\ KvUnchanged

-----------------------------------------------------------------------------
Reader(r) ==
    \/ Lock(r)
    \/ MemoHit(r)
    \/ VersionErr(r) \/ VersionSame(r) \/ VersionDiffers(r)
    \/ DataOk(r) \/ DataErr(r)

Vault(s) == (\E content \in Contents : Put(s, content)) \/ Toggle(s) \/ DeleteMetadata(s)

Next ==
    \/ BeginPass
    \/ \E r \in Readers : (\E s \in Secrets : Call(r, s)) \/ Reader(r)
    \/ \E s \in Secrets : Vault(s)

Spec == Init /\ [][Next]_vars

(* Every call to Vault ends, at the latest with the client's timeout, and   *)
(* a goroutine that can take the lock or has it runs.                       *)
FairSpec == Spec /\ \A r \in Readers : WF_vars(Reader(r))

-----------------------------------------------------------------------------
(* Typing. *)
TypeOK ==
    /\ written \in [Secrets -> Seq(Contents)]
    /\ live \in [Secrets -> BOOLEAN]
    /\ writes \in [Secrets -> 0..MaxWrites]
    /\ pass \in 0..MaxPass
    /\ entry \in [Secrets -> Entry]
    /\ holder \in [Secrets -> Readers \union {Absent}]
    /\ pc \in [Readers -> {"idle", "waiting", "checking", "fetching"}]
    /\ asked \in [Readers -> Secrets \union {Absent}]
    /\ result \in [Readers -> Contents \union {Absent}]
    /\ reads \in [Readers -> 0..MaxReads]
    /\ calls \in [Secrets -> Nat]
    /\ fails \in [Secrets -> Nat]
    /\ current \in [Secrets -> SUBSET (Contents \union {Absent})]
    /\ readable \in [Secrets -> SUBSET (Contents \union {Absent})]
    /\ answers \in [Secrets -> SUBSET Contents]

(* Readers of one secret share its refresh: at most one of them is between  *)
(* taking the entry's lock and releasing it, the lock is never left behind  *)
(* by a read that has ended, and never held for another secret.             *)
Inside(r) == pc[r] \in {"checking", "fetching"}
LockHeldWhileInside ==
    \A r \in Readers : \A s \in Secrets : holder[s] = r <=> Inside(r) /\ asked[r] = s

(* The data in an entry is what was written to Vault under the version the  *)
(* entry remembers, although the version check and the data call are two    *)
(* calls and a write may come between them (cache.go:84-88).  Of a secret   *)
(* whose metadata is gone the entry remembers what nothing can confirm.     *)
EntryMatchesVersion ==
    \A s \in Secrets : Exists(s) /\ entry[s].data # Absent =>
        entry[s].version \in DOMAIN written[s] /\ entry[s].data = written[s][entry[s].version]

(* A read never returns a content that was replaced before the pass began   *)
(* (cache.go:69-70: the window the cache promises freshness for).  It may   *)
(* return one that was soft-deleted before the pass began and that nothing  *)
(* has replaced: the version number, all that is compared, is the same.     *)
NeverReplaced == \A s \in Secrets : answers[s] \subseteq current[s]

(* client.go:22-23: "Read returns the full data of the current version",    *)
(* and it is not found if "current version is deleted" (client.go:91-95).   *)
(* So a read behind the cache would return only what a live read could      *)
(* have returned at some moment of the pass.                                *)
FreshWithinPass == \A s \in Secrets : answers[s] \subseteq readable[s]

(* All targets of a pass see one content of a secret, even if it is         *)
(* rotated in the middle of the pass.                                       *)
OneContentPerPass ==
    pass # 0 => \A s \in Secrets : \A c, d \in answers[s] : c = d

(* A secret costs one metadata call per pass, however many targets read     *)
(* it, plus one for each read that Vault failed.                            *)
SharedMetadataRead ==
    pass # 0 => \A s \in Secrets : calls[s] <= fails[s] + 1

(* README.md:24-25: "Each distinct secret costs one metadata read per pass  *)
(* no matter how many variables or targets reference it".                   *)
OneMetadataReadPerPass == pass # 0 => \A s \in Secrets : calls[s] <= 1

(* A read that waits for an entry's lock gets it and ends.                  *)
ReadsReturn == \A r \in Readers : pc[r] = "waiting" ~> pc[r] = "idle"

(* The cache implements the abstract source: its snapshot of a secret is    *)
(* the entry once verified in this pass.  To the source, what Vault holds   *)
(* is the content written last, soft-deleted or not, until the metadata is  *)
(* gone: whether a soft-deleted secret can still be read depends on whether *)
(* the cache has it, and a read that finds it deleted is one that fails.    *)
Source == INSTANCE SecretSource WITH
    vault  <- [s \in Secrets |-> Current(s)],
    inPass <- pass # 0,
    snap   <- [s \in Secrets |-> IF Memoized(s) THEN entry[s].data ELSE Absent],
    got    <- result
ImplementsSource == Source!Spec
=============================================================================
