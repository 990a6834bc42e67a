----------------------------- MODULE TokenKeeper -----------------------------
(***************************************************************************)
(* internal/vault/auth.go: Login and the KeepAlive goroutine that keeps    *)
(* the Vault client's token alive until the reconciler it serves is        *)
(* replaced or the daemon stops.                                           *)
(*                                                                         *)
(* Time advances in ticks.  Vault may be unreachable for a while; api's    *)
(* LifetimeWatcher, which renews a renewable token, is external: it renews *)
(* when a third of the lease is left, goes on trying while Vault does not  *)
(* answer, and gives up when no more than its grace period is left.        *)
(***************************************************************************)
EXTENDS Naturals

CONSTANTS
    Leases,       \* the leases a login may return: [renewable, duration]
    MaxTTL,       \* Vault renews a token no further than this
    NoLeaseWait,  \* the wait for a lease without duration (a minute)
    MaxBackoff,   \* the longest wait between two logins (a minute)
    LoginTime,    \* bound: the longest a login takes (the client's timeout)
    MaxOutages    \* bound: how often Vault becomes unreachable

ASSUME KeeperAssumption ==
    /\ Leases \subseteq [renewable : BOOLEAN, duration : Nat]
    /\ Leases # {}
    /\ MaxTTL \in Nat
    /\ \A l \in Leases : l.duration <= MaxTTL /\ (l.renewable => l.duration > 0)
    /\ NoLeaseWait \in Nat \ {0}
    /\ MaxBackoff \in Nat \ {0}
    /\ LoginTime \in Nat
    /\ MaxOutages \in Nat

VARIABLES
    pc,         \* where KeepAlive is
    lease,      \* Client.loginSecret
    wait,       \* ticks until the running time.After fires
    spent,      \* ticks spent in the running login
    backoff,
    cancelled,  \* ctx is done: a reload has replaced the client, or SIGTERM
    ttl,        \* Vault: ticks until the token expires
    maxLeft,    \* Vault: ticks until the token's max TTL
    up,         \* Vault answers
    sinceUp,    \* history: ticks since Vault became reachable
    failing,    \* history: ticks since a login first failed, 0 if none has
    outages,    \* history: outages so far
    outage      \* history: Vault was unreachable since the last login

vaultSide == <<ttl, maxLeft>>
history == <<sinceUp, failing, outages, outage>>
vars == <<pc, lease, wait, spent, backoff, cancelled, vaultSide, up, history>>

MinOf(m, n) == IF m < n THEN m ELSE n

(* The clocks count no further than what the properties tell apart. *)
MaxClock == MaxBackoff + 2 * LoginTime + 1

(* A third of the lease is left, and a sixth of it. *)
RenewAt == lease.duration \div 3
Grace == lease.duration \div 6

-----------------------------------------------------------------------------
(* buildReconciler has logged in before KeepAlive starts. *)
Init ==
    /\ pc = "deciding"
    /\ lease \in Leases
    /\ wait = 0
    /\ spent = 0
    /\ backoff = 1
    /\ cancelled = FALSE
    /\ ttl = lease.duration
    /\ maxLeft = MaxTTL
    /\ up = TRUE
    /\ sinceUp = MaxClock
    /\ failing = 0
    /\ outages = 0
    /\ outage = FALSE

(* A token that cannot be renewed is replaced after two thirds of its life. *)
Watch ==
    /\ pc = "deciding"
    /\ ~cancelled
    /\ lease.renewable
    /\ pc' = "watching"
    /\ UNCHANGED <<lease, wait, spent, backoff, cancelled, vaultSide, up, history>>

(* Mutant: the whole life of the token is waited out. *)
WaitOutWhole ==
    /\ pc = "deciding"
    /\ ~cancelled
    /\ ~lease.renewable
    /\ pc' = "waiting"
    /\ wait' = IF lease.duration > 0 THEN lease.duration ELSE NoLeaseWait
    /\ UNCHANGED <<lease, spent, backoff, cancelled, vaultSide, up, history>>

WaitOut ==
    /\ pc = "deciding"
    /\ ~cancelled
    /\ ~lease.renewable
    /\ pc' = "waiting"
    /\ wait' = IF lease.duration > 0 THEN (2 * lease.duration) \div 3 ELSE NoLeaseWait
    /\ UNCHANGED <<lease, spent, backoff, cancelled, vaultSide, up, history>>

(* watchToken returns an error: no renewal will help any more. *)
WatcherDone ==
    /\ pc = "watching"
    /\ ~cancelled
    /\ ttl <= Grace
    /\ pc' = "login"
    /\ UNCHANGED <<lease, wait, spent, backoff, cancelled, vaultSide, up, history>>

WaitEnds ==
    /\ pc = "waiting"
    /\ ~cancelled
    /\ wait = 0
    /\ pc' = "login"
    /\ UNCHANGED <<lease, wait, spent, backoff, cancelled, vaultSide, up, history>>

(* Mutant: the backoff of an earlier outage is kept. *)
LoginOkKeepingBackoff ==
    /\ pc = "login"
    /\ up
    /\ lease' \in Leases
    /\ ttl' = lease'.duration
    /\ maxLeft' = MaxTTL
    /\ spent' = 0
    /\ failing' = 0
    /\ outage' = FALSE
    /\ pc' = "deciding"
    /\ UNCHANGED <<wait, backoff, cancelled, up, sinceUp, outages>>

LoginOk ==
    /\ pc = "login"
    /\ up
    /\ lease' \in Leases
    /\ ttl' = lease'.duration
    /\ maxLeft' = MaxTTL
    /\ spent' = 0
    /\ backoff' = 1
    /\ failing' = 0
    /\ outage' = FALSE
    /\ pc' = "deciding"
    /\ UNCHANGED <<wait, cancelled, up, sinceUp, outages>>

(* A login fails while Vault is unreachable, or if it was when it began,  *)
(* and when ctx ends.                                                     *)
LoginErr ==
    /\ pc = "login"
    /\ cancelled \/ ~up \/ sinceUp < spent
    /\ pc' = "backing"
    /\ wait' = backoff
    /\ spent' = 0
    /\ UNCHANGED <<lease, backoff, cancelled, vaultSide, up, history>>

(* Mutant: the backoff is not capped. *)
RetryUncapped ==
    /\ pc = "backing"
    /\ ~cancelled
    /\ wait = 0
    /\ backoff' = 2 * backoff
    /\ pc' = "login"
    /\ UNCHANGED <<lease, wait, spent, cancelled, vaultSide, up, history>>

Retry ==
    /\ pc = "backing"
    /\ ~cancelled
    /\ wait = 0
    /\ backoff' = MinOf(2 * backoff, MaxBackoff)
    /\ pc' = "login"
    /\ UNCHANGED <<lease, wait, spent, cancelled, vaultSide, up, history>>

(* Mutant: the wait before the next login does not notice the end of ctx. *)
StopUnlessBacking ==
    /\ cancelled
    /\ pc \in {"deciding", "waiting", "watching"}
    /\ pc' = "stopped"
    /\ UNCHANGED <<lease, wait, spent, backoff, cancelled, vaultSide, up, history>>

(* Every wait is a select with ctx.Done, and the loops check ctx.Err. *)
Stop ==
    /\ cancelled
    /\ pc \in {"deciding", "waiting", "watching", "backing"}
    /\ pc' = "stopped"
    /\ UNCHANGED <<lease, wait, spent, backoff, cancelled, vaultSide, up, history>>

-----------------------------------------------------------------------------
(* The watcher's renewal, as long as it lengthens the token's life. *)
Renewed == MinOf(lease.duration, maxLeft)
Due == pc = "watching" /\ up /\ ttl <= RenewAt /\ ttl < Renewed

Renew ==
    /\ Due
    /\ ttl > Grace
    /\ ttl' = Renewed
    /\ UNCHANGED <<pc, lease, wait, spent, backoff, cancelled, maxLeft, up, history>>

(* Time passes while nothing is due. *)
Quiet ==
    CASE pc = "watching" -> ttl > Grace /\ ~Due
      [] pc \in {"waiting", "backing"} -> wait > 0
      [] pc = "login" -> spent < LoginTime
      [] pc = "deciding" -> FALSE
      [] pc = "stopped" -> FALSE

Less(n) == IF n > 0 THEN n - 1 ELSE 0
More(n) == MinOf(n + 1, MaxClock)

Tick ==
    /\ Quiet
    /\ ttl' = Less(ttl)
    /\ maxLeft' = Less(maxLeft)
    /\ wait' = Less(wait)
    /\ spent' = IF pc = "login" THEN spent + 1 ELSE spent
    /\ sinceUp' = IF up THEN More(sinceUp) ELSE 0
    /\ failing' = IF pc = "backing" \/ failing > 0 THEN More(failing) ELSE 0
    /\ UNCHANGED <<pc, lease, backoff, cancelled, up, outages, outage>>

GoDown ==
    /\ up
    /\ outages < MaxOutages
    /\ up' = FALSE
    /\ sinceUp' = 0
    /\ outages' = outages + 1
    /\ outage' = TRUE
    /\ UNCHANGED <<pc, lease, wait, spent, backoff, cancelled, vaultSide, failing>>

ComeUp ==
    /\ ~up
    /\ up' = TRUE
    /\ UNCHANGED <<pc, lease, wait, spent, backoff, cancelled, vaultSide, history>>

Cancel ==
    /\ ~cancelled
    /\ cancelled' = TRUE
    /\ UNCHANGED <<pc, lease, wait, spent, backoff, vaultSide, up, history>>

Keeper ==
    \/ Watch \/ WaitOut
    \/ WatcherDone \/ WaitEnds
    \/ LoginOk \/ LoginErr
    \/ Retry
    \/ Stop

Next == Keeper \/ Renew \/ Tick \/ GoDown \/ ComeUp \/ Cancel

Spec == Init /\ [][Next]_vars

(* The goroutine runs when it can and time passes. *)
FairSpec == Spec /\ WF_vars(Keeper) /\ WF_vars(Tick)

-----------------------------------------------------------------------------
TypeOK ==
    /\ pc \in {"deciding", "waiting", "watching", "login", "backing", "stopped"}
    /\ lease \in Leases
    /\ wait \in Nat
    /\ spent \in 0..LoginTime
    /\ backoff \in 1..MaxBackoff
    /\ cancelled \in BOOLEAN
    /\ ttl \in 0..MaxTTL
    /\ maxLeft \in 0..MaxTTL
    /\ up \in BOOLEAN
    /\ sinceUp \in 0..MaxClock
    /\ failing \in 0..MaxClock
    /\ outages \in 0..MaxOutages
    /\ outage \in BOOLEAN

Valid == lease.duration = 0 \/ ttl > 0

(* Logins end before the last sixth of any lease is over. *)
QuickLogins == \A l \in Leases : l.duration = 0 \/ LoginTime < l.duration \div 6

(* While Vault answers, the token never expires: renewal, the wait of two   *)
(* thirds of a lease and the early end of the watcher leave time enough for *)
(* the next login, if logins are quick.                                     *)
NeverExpiresWhileUp == ~outage /\ ~cancelled /\ QuickLogins => Valid

(* After an outage the keeper is back soon: it waits no longer than logins  *)
(* have been failing, never more than MaxBackoff, and once Vault answers    *)
(* again a valid token is at most one failing login, one wait and one       *)
(* login away, if logins are quick.                                         *)
RecoversSoon ==
    ~cancelled =>
        /\ pc = "backing" => wait <= failing + 1
        /\ QuickLogins /\ up /\ sinceUp > MaxBackoff + 2 * LoginTime => Valid

(* A keeper whose client was replaced by a reload does not outlive it, not  *)
(* even while Vault is unreachable.                                         *)
KeeperStops == cancelled ~> pc = "stopped"
=============================================================================
