------------------------------- MODULE Daemon -------------------------------
(***************************************************************************)
(* internal/daemon/daemon.go and the daemon command that wires it: one     *)
(* goroutine that runs a pass, waits for the timer, SIGHUP or SIGTERM, and *)
(* runs the next; the buffered channel signals arrive through; the         *)
(* staleness clock /healthz reads; and the KeepAlive goroutine of each     *)
(* reconciler built so far, which TokenKeeper models from the inside.      *)
(*                                                                         *)
(* Time advances in ticks.  What the loop does without waiting takes no    *)
(* time: the clock does not advance while the select has a ready case.     *)
(* The configuration file goes through the contents Files[1], Files[2],    *)
(* ..., each the sync.timeout it sets, or Broken if it does not load; some *)
(* set the auth method token, with which logging in calls nobody and there *)
(* is no token to keep.                                                    *)
(***************************************************************************)
EXTENDS Naturals, Sequences

CONSTANTS
    Interval,    \* sync.interval of the initial configuration
    Jitter,      \* sync.jitter of the initial configuration
    Files,       \* bound: the contents of the configuration file, in order
    Broken,      \* a file that does not load
    StaticAuth,  \* the n for which Files[n] sets the auth method token
    ReloadTime,  \* bound: the longest a reload takes (its Vault login)
    MaxHups,     \* bound: how many SIGHUPs are sent
    MaxAge,      \* bound: the clocks count no further
    MayHang      \* a pass may block in a call that ignores its context

ASSUME DaemonAssumption ==
    /\ Interval \in Nat \ {0}
    /\ Jitter \in Nat
    /\ Broken \notin Nat
    /\ Files \in Seq(Nat \union {Broken})
    /\ Files # <<>>
    /\ Files[1] \in Nat
    /\ StaticAuth \subseteq DOMAIN Files
    /\ ReloadTime \in Nat
    /\ MaxHups \in Nat
    /\ MayHang \in BOOLEAN

(* StaleAfter, computed once from the initial configuration. *)
StaleAfter == 2 * (Interval + Jitter) + Files[1]

ASSUME ClockAssumption ==
    /\ MaxAge \in Nat
    /\ MaxAge > StaleAfter
    /\ MaxAge > ReloadTime
    /\ \A n \in DOMAIN Files : Files[n] \in Nat => MaxAge > Files[n]

VARIABLES
    phase,    \* where the loop is
    spent,    \* ticks spent in the running pass or reload
    timer,    \* ticks until the timer fires, while the loop selects
    hung,     \* the running pass will never return
    age,      \* ticks since lastProgress
    ready,    \* Daemon.ready
    hup,      \* a SIGHUP is in the channel, which holds one
    term,     \* SIGTERM or SIGINT has cancelled the context
    file,     \* the configuration file is Files[file]
    active,   \* the running reconciler was built from Files[active]
    builds,   \* reconcilers built: current is the last one
    keepers,  \* the builds whose KeepAlive goroutine lives
    ended,    \* the builds whose cancel has been called
    tried,    \* history: the file last read by a reload, or at the start
    asked,    \* history: the file when SIGHUP was last sent
    hups,     \* history: SIGHUPs sent
    failed    \* history: reloads that failed since lastProgress

config == <<file, active>>
runtime == <<builds, keepers, ended>>
history == <<tried, asked, hups, failed>>
vars == <<phase, spent, timer, hung, age, ready, hup, term, config, runtime, history>>

(* Mutant: the staleness clock starts with the first completed pass. *)
HealthyUntilReady == ~ready \/ age <= StaleAfter

Healthy == age <= StaleAfter
Timeout == Files[active]

(* The KeepAlive of build n, from Files[f]: it returns at once if there is  *)
(* nothing to keep.                                                         *)
KeptBy(n, f) == IF f \in StaticAuth THEN {} ELSE {n}

-----------------------------------------------------------------------------
(* The process has loaded the file and run is called at once: the staleness *)
(* clock starts before the first pass, and SIGHUP is caught from here on.   *)
Init ==
    /\ phase = "running"
    /\ spent = 0
    /\ timer = 0
    /\ hung = FALSE
    /\ age = 0
    /\ ready = FALSE
    /\ hup = FALSE
    /\ term = FALSE
    /\ file = 1
    /\ active = 1
    /\ builds = 1
    /\ keepers = KeptBy(1, 1)
    /\ ended = {}
    /\ tried = 1
    /\ asked = 1
    /\ hups = 0
    /\ failed = 0

(* The top of the loop: a new timer, with a new delay. *)
Select ==
    /\ phase' = "select"
    /\ spent' = 0
    /\ timer' \in Interval..(Interval + Jitter)

(* Mutant: a pass that ends is not marked as progress. *)
PassEndsUnmarked ==
    /\ phase = "running"
    /\ ~hung
    /\ Select
    /\ ready' = TRUE
    /\ failed' = 0
    /\ UNCHANGED <<hung, age, hup, term, config, runtime, tried, asked, hups>>

(* run returns from RunOnce, however the pass went. *)
PassEnds ==
    /\ phase = "running"
    /\ ~hung
    /\ Select
    /\ ready' = TRUE
    /\ age' = 0
    /\ failed' = 0
    /\ UNCHANGED <<hung, hup, term, config, runtime, tried, asked, hups>>

Hang ==
    /\ MayHang
    /\ phase = "running"
    /\ ~hung
    /\ hung' = TRUE
    /\ UNCHANGED <<phase, spent, timer, age, ready, hup, term, config, runtime, history>>

Run ==
    /\ phase' = "running"
    /\ spent' = 0
    /\ timer' = 0

(* Mutant: a reload that fails leaves the timer stopped. *)
TimerFiresOnce ==
    /\ phase = "select"
    /\ timer = 0
    /\ failed = 0
    /\ Run
    /\ UNCHANGED <<hung, age, ready, hup, term, config, runtime, history>>

TimerFires ==
    /\ phase = "select"
    /\ timer = 0
    /\ Run
    /\ UNCHANGED <<hung, age, ready, hup, term, config, runtime, history>>

(* Mutant: the signal stays in the channel. *)
HupTakenAgain ==
    /\ phase = "select"
    /\ hup
    /\ phase' = "reading"
    /\ timer' = 0
    /\ UNCHANGED <<spent, hung, age, ready, hup, term, config, runtime, history>>

HupTaken ==
    /\ phase = "select"
    /\ hup
    /\ hup' = FALSE
    /\ phase' = "reading"
    /\ timer' = 0
    /\ UNCHANGED <<spent, hung, age, ready, term, config, runtime, history>>

(* A failed reload: the loop continues with a new timer and without a pass. *)
ReloadFails ==
    /\ failed' = failed + 1
    /\ Select

(* build reads the file; what does not load fails at once. *)
ReadFile ==
    /\ phase = "reading"
    /\ tried' = file
    /\ IF Files[file] = Broken
       THEN ReloadFails
       ELSE phase' = "login" /\ UNCHANGED <<spent, timer, failed>>
    /\ UNCHANGED <<hung, age, ready, hup, term, config, runtime, asked, hups>>

(* A login succeeds only before SIGTERM, unless it calls nobody. *)
LogsIn == phase = "login" /\ (term => tried \in StaticAuth)

(* Mutant: the new reconciler's KeepAlive is cancelled, not the old one's. *)
LoginOkCancelsNew ==
    /\ LogsIn
    /\ active' = tried
    /\ builds' = builds + 1
    /\ keepers' = keepers \union KeptBy(builds', tried)
    /\ ended' = ended \union {builds'}
    /\ Run
    /\ UNCHANGED <<hung, age, ready, hup, term, file, history>>

(* Mutant: the old KeepAlive is forgotten. *)
LoginOkLeaking ==
    /\ LogsIn
    /\ active' = tried
    /\ builds' = builds + 1
    /\ keepers' = keepers \union KeptBy(builds', tried)
    /\ Run
    /\ UNCHANGED <<hung, age, ready, hup, term, file, ended, history>>

(* The new Vault client logs in, its KeepAlive starts, the new reconciler   *)
(* replaces the active one, whose KeepAlive is cancelled, and a pass        *)
(* follows at once.                                                         *)
LoginOk ==
    /\ LogsIn
    /\ active' = tried
    /\ builds' = builds + 1
    /\ keepers' = keepers \union KeptBy(builds', tried)
    /\ ended' = ended \union {builds}
    /\ Run
    /\ UNCHANGED <<hung, age, ready, hup, term, file, history>>

(* Mutant: the login is retried without regard to the context. *)
LoginFailsUnlessStopping ==
    /\ phase = "login"
    /\ ~term
    /\ ReloadFails
    /\ UNCHANGED <<hung, age, ready, hup, term, config, runtime, tried, asked, hups>>

LoginFails ==
    /\ phase = "login"
    /\ ReloadFails
    /\ UNCHANGED <<hung, age, ready, hup, term, config, runtime, tried, asked, hups>>

Stop ==
    /\ phase = "select"
    /\ term
    /\ phase' = "stopped"
    /\ UNCHANGED <<spent, timer, hung, age, ready, hup, term, config, runtime, history>>

-----------------------------------------------------------------------------
(* A pass is over sync.timeout after it began (runPass), unless it hangs or *)
(* the timeout is 0; a reload is over after ReloadTime.                     *)
MayLast ==
    CASE phase = "running"   -> hung \/ Timeout = 0 \/ spent < Timeout
      [] phase = "login"     -> spent < ReloadTime
      [] phase = "reading"   -> FALSE
      [] phase = "select"    -> timer > 0 /\ ~hup /\ ~term
      [] phase = "stopped"   -> FALSE

Tick ==
    /\ MayLast
    /\ age' = IF age < MaxAge THEN age + 1 ELSE age
    /\ timer' = IF phase = "select" THEN timer - 1 ELSE timer
    /\ spent' = IF phase # "select" /\ spent < MaxAge THEN spent + 1 ELSE spent
    /\ UNCHANGED <<phase, hung, ready, hup, term, config, runtime, history>>

EditFile ==
    /\ file < Len(Files)
    /\ file' = file + 1
    /\ UNCHANGED <<phase, spent, timer, hung, age, ready, hup, term, active, runtime, history>>

(* Mutant: the channel has no buffer. *)
SendHupUnbuffered ==
    /\ hups < MaxHups
    /\ hups' = hups + 1
    /\ hup' = (hup \/ phase = "select")
    /\ asked' = file
    /\ UNCHANGED <<phase, spent, timer, hung, age, ready, term, config, runtime, tried, failed>>

(* SIGHUP is dropped if the channel is full. *)
SendHup ==
    /\ hups < MaxHups
    /\ hups' = hups + 1
    /\ hup' = TRUE
    /\ asked' = file
    /\ UNCHANGED <<phase, spent, timer, hung, age, ready, term, config, runtime, tried, failed>>

(* A KeepAlive whose context is done returns (KeeperStops in TokenKeeper). *)
KeeperEnds(n) ==
    /\ n \in keepers
    /\ n \in ended \/ term
    /\ keepers' = keepers \ {n}
    /\ UNCHANGED <<phase, spent, timer, hung, age, ready, hup, term, config, builds, ended, history>>

SendTerm ==
    /\ ~term
    /\ term' = TRUE
    /\ UNCHANGED <<phase, spent, timer, hung, age, ready, hup, config, runtime, history>>

Loop == PassEnds \/ TimerFires \/ HupTaken \/ ReadFile \/ LoginOk \/ LoginFails \/ Stop

KeepersEnd == \E n \in keepers : KeeperEnds(n)

Next == Loop \/ KeepersEnd \/ Hang \/ Tick \/ EditFile \/ SendHup \/ SendTerm

Spec == Init /\ [][Next]_vars

(* The loop runs, time passes, a pass that does not hang returns, and so    *)
(* does every KeepAlive that is told to.                                    *)
FairSpec == Spec /\ WF_vars(Loop) /\ WF_vars(Tick) /\ WF_vars(KeepersEnd)

-----------------------------------------------------------------------------
TypeOK ==
    /\ phase \in {"running", "select", "reading", "login", "stopped"}
    /\ spent \in 0..MaxAge
    /\ timer \in 0..(Interval + Jitter)
    /\ hung \in BOOLEAN
    /\ age \in 0..MaxAge
    /\ ready \in BOOLEAN
    /\ hup \in BOOLEAN
    /\ term \in BOOLEAN
    /\ file \in DOMAIN Files
    /\ active \in DOMAIN Files
    /\ builds \in 1..(MaxHups + 1)
    /\ keepers \subseteq 1..builds
    /\ ended \subseteq 1..builds
    /\ tried \in 1..file
    /\ asked \in 1..file
    /\ hups \in 0..MaxHups
    /\ failed \in 0..hups

(* How long the loop can go without a completed pass while nothing hangs:   *)
(* one wait and one reload for each reload that failed and one more of      *)
(* both, and then the pass.                                                 *)
Cycle == Interval + Jitter + ReloadTime
AgeBounded ==
    ~hung /\ Timeout # 0 =>
        age <= (failed + 1) * Cycle + (IF phase = "running" THEN Timeout ELSE 0)

(* daemon_cmd.go:64-66: "A pass is bounded by sync.timeout and one starts   *)
(* every interval+jitter, so two full cycles plus a timeout without a       *)
(* completed pass means the loop is wedged."                                *)
UnhealthyMeansWedged == ~Healthy => hung

(* A pass that never returns, the first one included, makes /healthz fail.  *)
WedgeDetected == hung ~> ~Healthy

(* Pass follows pass until the daemon is stopped, through reloads that fail *)
(* or succeed.                                                              *)
KeepsTicking == []<>(phase = "running" \/ phase = "stopped")

(* SIGTERM stops the loop once the running pass has returned, even if       *)
(* SIGHUPs wait in the channel and the select prefers them.                 *)
StopsOnTerm == term ~> (phase = "stopped" \/ hung)

(* Until the daemon is told to stop, the token of the client in use is      *)
(* kept, through reloads that fail, succeed or change the auth method.      *)
ActiveIsKept == term \/ active \in StaticAuth \/ builds \in keepers

(* The KeepAlive of a client a reload has replaced returns: reloads leave   *)
(* no goroutine behind that goes on logging in (daemon_cmd.go:39-40).       *)
ReplacedKeepersEnd == \A n \in 1..MaxHups : (n \in keepers /\ n < builds) ~> n \notin keepers

(* A SIGHUP is never lost: the file as it was when the signal came is read, *)
(* although signals that come while the loop is busy are merged into one,   *)
(* unless the daemon stops or hangs first.                                  *)
HupServed ==
    \A n \in DOMAIN Files : asked = n ~> (tried >= n \/ phase = "stopped" \/ hung)
=============================================================================
