-------------------------- MODULE TokenKeeperProofs --------------------------
(***************************************************************************)
(* The keeper's clocks: what is left of the token, of a wait and of a      *)
(* login, how long Vault has answered and how long logins have failed, and *)
(* the bounds between them from which NeverExpiresWhileUp and RecoversSoon *)
(* follow for every set of leases and every timing.                        *)
(***************************************************************************)
EXTENDS TokenKeeper, TLAPS

(* Where the keeper is, and what it has left there.                         *)
Places ==
    /\ pc # "login" => spent = 0
    /\ pc \in {"deciding", "waiting", "watching"} => backoff = 1
    /\ pc = "stopped" => cancelled
    /\ ~up => sinceUp = 0
    /\ ~outage => up /\ spent <= sinceUp
    /\ ~outage /\ ~cancelled => pc # "backing"

(* The token outlives the wait and the watch, by what a login may take.     *)
Margins ==
    /\ pc = "deciding" => ttl = lease.duration
    /\ pc = "waiting" /\ lease.duration > 0 =>
          ttl = wait + lease.duration - (2 * lease.duration) \div 3
    /\ pc = "watching" => lease.duration > 0 /\ ttl >= Grace

(* A login that began before the token was late, or one after a failure.    *)
InTime == lease.duration = 0 \/ ttl + spent > LoginTime
LoginsInTime ==
    QuickLogins /\ ~cancelled /\ pc = "login" =>
        /\ ~outage => InTime
        /\ InTime \/ sinceUp <= spent + LoginTime + MaxBackoff

(* The backoff has grown no further than logins have been failing.          *)
Backoffs ==
    /\ pc = "login" => backoff <= failing + 1
    /\ pc = "backing" =>
          /\ wait <= backoff
          /\ wait <= failing + 1
          /\ MinOf(2 * backoff, MaxBackoff) <= failing + wait + 1
          /\ cancelled \/ sinceUp + wait <= LoginTime + MaxBackoff

Clocks == Places /\ Margins /\ LoginsInTime /\ Backoffs

(* Thirds and sixths, rounded down. *)
LEMMA Parts ==
    ASSUME NEW d \in Nat
    PROVE  /\ d \div 3 \in Nat /\ d \div 6 \in Nat /\ (2 * d) \div 3 \in Nat
           /\ d \div 6 <= d /\ (2 * d) \div 3 <= d
           /\ d > 0 => (2 * d) \div 3 < d
           /\ d \div 6 <= d - (2 * d) \div 3
OBVIOUS

(* The bound of the clocks, and the lease. *)
LEMMA Bounds ==
    ASSUME TypeOK
    PROVE  /\ LoginTime \in Nat /\ MaxBackoff \in Nat \ {0} /\ MaxTTL \in Nat
           /\ NoLeaseWait \in Nat \ {0} /\ MaxOutages \in Nat
           /\ MaxClock \in Nat /\ MaxClock = MaxBackoff + 2 * LoginTime + 1
           /\ lease.renewable \in BOOLEAN /\ lease.duration \in Nat
           /\ lease.duration <= MaxTTL /\ (lease.renewable => lease.duration > 0)
           /\ Grace \in Nat /\ Grace <= lease.duration
           /\ Grace <= lease.duration - (2 * lease.duration) \div 3
           /\ QuickLogins => lease.duration = 0 \/ LoginTime < Grace
<1>1. /\ lease \in Leases /\ LoginTime \in Nat /\ MaxBackoff \in Nat \ {0} /\ MaxTTL \in Nat
      /\ NoLeaseWait \in Nat \ {0} /\ MaxOutages \in Nat
  BY KeeperAssumption DEF TypeOK
<1>2. /\ lease.renewable \in BOOLEAN /\ lease.duration \in Nat
      /\ lease.duration <= MaxTTL /\ (lease.renewable => lease.duration > 0)
  BY <1>1, KeeperAssumption
<1>3. QuickLogins => lease.duration = 0 \/ LoginTime < Grace
  BY <1>1 DEF QuickLogins, Grace
<1>4. /\ Grace \in Nat /\ Grace <= lease.duration
      /\ Grace <= lease.duration - (2 * lease.duration) \div 3
  BY <1>2, Parts DEF Grace
<1>5. MaxClock = MaxBackoff + 2 * LoginTime + 1
  BY DEF MaxClock
<1> QED
  BY <1>1, <1>2, <1>3, <1>4, <1>5

(* Every step keeps the types. *)
LEMMA TypeStep ==
    ASSUME TypeOK, [Next]_vars
    PROVE  TypeOK'
<1> USE DEF TypeOK
<1>1. CASE Watch \/ WatcherDone \/ WaitEnds \/ Stop
  BY <1>1 DEF Watch, WatcherDone, WaitEnds, Stop, vaultSide, history
<1>2. CASE WaitOut
  <2>1. wait' \in Nat
    BY <1>2, Bounds, Parts DEF WaitOut
  <2> QED
    BY <1>2, <2>1 DEF WaitOut, vaultSide, history
<1>3. CASE LoginOk
  <2>1. lease' \in Leases /\ ttl' = lease'.duration /\ ttl' \in 0..MaxTTL
    BY <1>3, KeeperAssumption DEF LoginOk
  <2>2. /\ maxLeft' = MaxTTL /\ spent' = 0 /\ backoff' = 1 /\ failing' = 0
        /\ outage' = FALSE /\ pc' = "deciding"
        /\ UNCHANGED <<wait, cancelled, up, sinceUp, outages>>
    BY <1>3 DEF LoginOk
  <2>3. /\ maxLeft' \in 0..MaxTTL /\ spent' \in 0..LoginTime
        /\ backoff' \in 1..MaxBackoff /\ failing' \in 0..MaxClock
    BY <2>2, Bounds
  <2> QED
    BY <2>1, <2>2, <2>3
<1>4. CASE LoginErr
  BY <1>4, Bounds DEF LoginErr, vaultSide, history
<1>5. CASE Retry
  BY <1>5, Bounds DEF Retry, MinOf, vaultSide, history
<1>6. CASE Renew
  <2>1. ttl' \in 0..MaxTTL
    BY <1>6, Bounds DEF Renew, Renewed, MinOf
  <2> QED
    BY <1>6, <2>1 DEF Renew, history
<1>7. CASE Tick
  <2>1. spent' \in 0..LoginTime
    <3>1. pc = "login" => spent < LoginTime
      BY <1>7 DEF Tick, Quiet
    <3>2. spent' = IF pc = "login" THEN spent + 1 ELSE spent
      BY <1>7 DEF Tick
    <3> QED
      BY <3>1, <3>2, Bounds
  <2>2. ttl' \in 0..MaxTTL /\ maxLeft' \in 0..MaxTTL /\ wait' \in Nat
    BY <1>7, Bounds DEF Tick, Less
  <2>3. sinceUp' \in 0..MaxClock /\ failing' \in 0..MaxClock
    BY <1>7, Bounds DEF Tick, More, MinOf
  <2> QED
    BY <1>7, <2>1, <2>2, <2>3 DEF Tick
<1>8. CASE GoDown
  <2>1. sinceUp' \in 0..MaxClock /\ outages' \in 0..MaxOutages
    <3>1. sinceUp' = 0 /\ outages' = outages + 1 /\ outages < MaxOutages
      BY <1>8 DEF GoDown
    <3> QED
      BY <3>1, Bounds
  <2> QED
    BY <1>8, <2>1 DEF GoDown, vaultSide
<1>10. CASE ComeUp \/ Cancel
  BY <1>10 DEF ComeUp, Cancel, vaultSide, history
<1>9. CASE UNCHANGED vars
  BY <1>9 DEF vars, vaultSide, history
<1> QED
  BY <1>1, <1>2, <1>3, <1>4, <1>5, <1>6, <1>7, <1>8, <1>9, <1>10 DEF Next, Keeper

(* No clock leaves its range, and the backoff stays between one tick and    *)
(* MaxBackoff, for every set of leases (auth.go:91-157).                    *)
THEOREM KeeperTyping == Spec => []TypeOK
<1>1. Init => TypeOK
  <2> SUFFICES ASSUME Init  PROVE TypeOK
    OBVIOUS
  <2>1. ttl \in 0..MaxTTL
    BY KeeperAssumption DEF Init
  <2>2. MaxTTL \in 0..MaxTTL /\ MaxClock \in 0..MaxClock /\ 0 \in 0..MaxClock
        /\ 0 \in 0..LoginTime /\ 1 \in 1..MaxBackoff /\ 0 \in 0..MaxOutages
    BY KeeperAssumption DEF MaxClock
  <2> QED
    BY <2>1, <2>2 DEF Init, TypeOK
<1>2. TypeOK /\ [Next]_vars => TypeOK'
  BY TypeStep
<1> QED
  BY <1>1, <1>2, PTL DEF Spec

-----------------------------------------------------------------------------
(* Every step keeps the places right: a login in progress is the only one  *)
(* that has spent time, and without an outage none can fail.                *)
LEMMA PlacesStep ==
    ASSUME TypeOK, Places, [Next]_vars
    PROVE  Places'
<1> USE DEF Places
<1>0. /\ spent \in 0..LoginTime /\ sinceUp \in 0..MaxClock /\ LoginTime \in Nat
      /\ MaxClock \in Nat /\ MaxClock >= LoginTime
  BY Bounds DEF TypeOK
<1>1. CASE Watch \/ WaitOut \/ WatcherDone \/ WaitEnds \/ Retry \/ Stop
  BY <1>1 DEF Watch, WaitOut, WatcherDone, WaitEnds, Retry, Stop, vaultSide, history
<1>2. CASE LoginOk
  BY <1>0, <1>2 DEF LoginOk
<1>3. CASE LoginErr
  BY <1>0, <1>3 DEF LoginErr, vaultSide, history
<1>4. CASE Renew
  BY <1>4 DEF Renew, history
<1>5. CASE Tick
  <2>1. /\ spent' = IF pc = "login" THEN spent + 1 ELSE spent
        /\ sinceUp' = IF up THEN More(sinceUp) ELSE 0
        /\ UNCHANGED <<pc, backoff, cancelled, up, outage>>
    BY <1>5 DEF Tick
  <2>2. spent' \in 0..LoginTime
    BY TypeStep DEF TypeOK
  <2>3. up /\ spent <= sinceUp => spent' <= More(sinceUp)
    BY <1>0, <2>1, <2>2 DEF More, MinOf
  <2> QED
    BY <2>1, <2>3
<1>6. CASE GoDown \/ ComeUp \/ Cancel
  BY <1>6 DEF GoDown, ComeUp, Cancel, vaultSide, history
<1>7. CASE UNCHANGED vars
  BY <1>7 DEF vars, history
<1> QED
  BY <1>1, <1>2, <1>3, <1>4, <1>5, <1>6, <1>7 DEF Next, Keeper

(* The wait of a token that cannot be renewed and the token's life run down *)
(* together, and the watcher ends before its grace period does.             *)
LEMMA MarginsStep ==
    ASSUME TypeOK, Margins, [Next]_vars
    PROVE  Margins'
<1> USE DEF Margins
<1>0. /\ ttl \in Nat /\ wait \in Nat /\ maxLeft \in Nat
      /\ lease.duration \in Nat /\ Grace \in Nat /\ Grace <= lease.duration
  BY Bounds DEF TypeOK
<1>1. CASE Watch
  <2>1. /\ pc = "deciding" /\ pc' = "watching" /\ lease.renewable
        /\ UNCHANGED <<lease, ttl>>
    BY <1>1 DEF Watch, vaultSide
  <2>2. lease.duration > 0
    BY <2>1, Bounds
  <2> QED
    BY <1>0, <2>1, <2>2 DEF Grace
<1>2. CASE WaitOut
  <2>1. /\ pc = "deciding" /\ pc' = "waiting"
        /\ wait' = IF lease.duration > 0 THEN (2 * lease.duration) \div 3 ELSE NoLeaseWait
        /\ UNCHANGED <<lease, ttl>>
    BY <1>2 DEF WaitOut, vaultSide
  <2>2. (2 * lease.duration) \div 3 \in Nat
    BY <1>0, Parts
  <2> QED
    BY <1>0, <2>1, <2>2
<1>3. CASE WatcherDone \/ WaitEnds \/ LoginErr \/ Retry \/ Stop
  BY <1>3 DEF WatcherDone, WaitEnds, LoginErr, Retry, Stop
<1>4. CASE LoginOk
  BY <1>4 DEF LoginOk
<1>5. CASE Renew
  <2>1. /\ pc = "watching" /\ ttl' = Renewed /\ ttl < Renewed /\ UNCHANGED <<pc, lease>>
    BY <1>5 DEF Renew, Due
  <2>2. Renewed \in Nat
    BY <1>0 DEF Renewed, MinOf
  <2> QED
    BY <1>0, <2>1, <2>2 DEF Grace
<1>6. CASE Tick
  <2>1. ttl' = Less(ttl) /\ wait' = Less(wait) /\ UNCHANGED <<pc, lease>> /\ Quiet
    BY <1>6 DEF Tick
  <2>2. pc # "deciding"
    BY <2>1 DEF Quiet
  <2>3. pc = "watching" => ttl > Grace
    BY <2>1 DEF Quiet
  <2>4. pc = "waiting" => wait > 0
    BY <2>1 DEF Quiet
  <2>5. pc = "watching" => ttl' >= Grace
    BY <1>0, <2>1, <2>3 DEF Less
  <2>6. /\ (2 * lease.duration) \div 3 \in Nat
        /\ (2 * lease.duration) \div 3 <= lease.duration
    BY <1>0, Parts
  <2>7. pc = "waiting" /\ lease.duration > 0 =>
           ttl' = wait' + lease.duration - (2 * lease.duration) \div 3
    BY <1>0, <2>1, <2>4, <2>6 DEF Less
  <2> QED
    BY <2>1, <2>2, <2>5, <2>7 DEF Grace
<1>7. CASE GoDown \/ ComeUp \/ Cancel
  BY <1>7 DEF GoDown, ComeUp, Cancel, vaultSide, Grace
<1>8. CASE UNCHANGED vars
  BY <1>8 DEF vars, vaultSide, Grace
<1> QED
  BY <1>1, <1>2, <1>3, <1>4, <1>5, <1>6, <1>7, <1>8 DEF Next, Keeper

(* A wait between two logins ends within MaxBackoff of Vault's return plus  *)
(* the login that failed, and grows no faster than the time since the first *)
(* failure.                                                                 *)
LEMMA BackoffsStep ==
    ASSUME TypeOK, Places, LoginsInTime, Backoffs, [Next]_vars
    PROVE  Backoffs'
<1> USE DEF Backoffs
<1>0. /\ wait \in Nat /\ backoff \in 1..MaxBackoff /\ backoff \in Nat
      /\ failing \in 0..MaxClock /\ failing \in Nat
      /\ sinceUp \in 0..MaxClock /\ sinceUp \in Nat /\ spent \in 0..LoginTime
      /\ LoginTime \in Nat /\ MaxBackoff \in Nat \ {0}
      /\ MaxClock = MaxBackoff + 2 * LoginTime + 1
  BY Bounds DEF TypeOK
<1>1. CASE Watch \/ WaitOut \/ Stop \/ LoginOk
  BY <1>1 DEF Watch, WaitOut, Stop, LoginOk
<1>2. CASE WatcherDone \/ WaitEnds
  <2>1. pc \in {"watching", "waiting"} /\ pc' = "login" /\ UNCHANGED <<backoff, failing>>
    BY <1>2 DEF WatcherDone, WaitEnds, history
  <2>2. backoff = 1
    BY <2>1 DEF Places
  <2> QED
    BY <1>0, <2>1, <2>2
<1>3. CASE LoginErr
  <2>1. /\ pc = "login" /\ pc' = "backing" /\ wait' = backoff
        /\ UNCHANGED <<backoff, failing, cancelled, sinceUp>>
        /\ cancelled \/ ~up \/ sinceUp < spent
    BY <1>3 DEF LoginErr, history
  <2>2. cancelled \/ sinceUp <= LoginTime
    BY <1>0, <2>1 DEF Places
  <2>3. backoff <= failing + 1
    BY <2>1
  <2>4. MinOf(2 * backoff, MaxBackoff) <= failing + backoff + 1
    BY <1>0, <2>3 DEF MinOf
  <2>5. cancelled \/ sinceUp + backoff <= LoginTime + MaxBackoff
    BY <1>0, <2>2
  <2> QED
    BY <1>0, <2>1, <2>3, <2>4, <2>5
<1>4. CASE Retry
  <2>1. /\ pc = "backing" /\ pc' = "login" /\ wait = 0 /\ failing' = failing
        /\ backoff' = MinOf(2 * backoff, MaxBackoff)
    BY <1>4 DEF Retry, history
  <2> QED
    BY <1>0, <2>1 DEF MinOf
<1>5. CASE Renew
  BY <1>5 DEF Renew, Due
<1>6. CASE Tick
  <2>1. /\ wait' = Less(wait) /\ Quiet
        /\ sinceUp' = IF up THEN More(sinceUp) ELSE 0
        /\ failing' = IF pc = "backing" \/ failing > 0 THEN More(failing) ELSE 0
        /\ UNCHANGED <<pc, backoff, cancelled>>
    BY <1>6 DEF Tick
  <2>2. failing' \in {failing, failing + 1} /\ sinceUp' \in {0, sinceUp, sinceUp + 1}
    BY <1>0, <2>1 DEF More, MinOf
  <2>3. CASE pc = "backing"
    <3>0. wait > 0
      BY <2>1, <2>3 DEF Quiet
    <3>1. wait > 0 /\ wait' = wait - 1
      BY <1>0, <2>1, <3>0 DEF Less
    <3>2. failing' = failing + 1 \/ failing' = MaxClock
      <4>1. failing' = More(failing)
        BY <2>1, <2>3
      <4> QED
        BY <1>0, <4>1 DEF More, MinOf
    <3>3. MinOf(2 * backoff, MaxBackoff) <= failing' + wait' + 1
      BY <1>0, <2>3, <3>1, <3>2 DEF MinOf
    <3>4. cancelled \/ sinceUp' + wait' <= LoginTime + MaxBackoff
      <4>1. cancelled \/ sinceUp + wait <= LoginTime + MaxBackoff
        BY <2>3
      <4>2. sinceUp + wait <= LoginTime + MaxBackoff
            => sinceUp' + wait' <= LoginTime + MaxBackoff
        <5>1. CASE sinceUp' = sinceUp + 1
          BY <1>0, <3>1, <5>1
        <5>2. CASE sinceUp' = sinceUp
          BY <1>0, <3>1, <5>2
        <5>3. CASE sinceUp' = 0
          BY <1>0, <3>1, <5>3
        <5> QED
          BY <2>2, <5>1, <5>2, <5>3
      <4> QED
        BY <4>1, <4>2
    <3>5. wait' <= backoff /\ wait' <= failing' + 1
      <4>1. wait <= backoff /\ wait <= failing + 1
        BY <2>3
      <4>2. CASE failing' = failing + 1
        BY <1>0, <3>1, <4>1, <4>2
      <4>3. CASE failing' = failing
        BY <1>0, <3>1, <4>1, <4>3
      <4> QED
        BY <2>2, <4>2, <4>3
    <3> QED
      BY <2>1, <2>3, <3>3, <3>4, <3>5
  <2>4. CASE pc # "backing"
    BY <1>0, <2>1, <2>2, <2>4
  <2> QED
    BY <2>3, <2>4
<1>7. CASE GoDown
  <2>1. sinceUp' = 0 /\ UNCHANGED <<pc, wait, backoff, failing, cancelled>>
    BY <1>7 DEF GoDown
  <2> QED
    BY <1>0, <2>1
<1>8. CASE ComeUp \/ Cancel
  BY <1>8 DEF ComeUp, Cancel, history
<1>9. CASE UNCHANGED vars
  BY <1>9 DEF vars, history
<1> QED
  BY <1>1, <1>2, <1>3, <1>4, <1>5, <1>6, <1>7, <1>8, <1>9 DEF Next, Keeper

(* A login begins while enough of the token is left for it, or after a      *)
(* failure, and then Vault has answered no longer than that login and the   *)
(* wait before this one took.                                               *)
LEMMA LoginsStep ==
    ASSUME TypeOK, Places, Margins, LoginsInTime, Backoffs, [Next]_vars
    PROVE  LoginsInTime'
<1>0. /\ wait \in Nat /\ ttl \in Nat /\ sinceUp \in Nat /\ spent \in 0..LoginTime
      /\ LoginTime \in Nat /\ MaxBackoff \in Nat
      /\ lease.duration \in Nat /\ Grace \in Nat
      /\ Grace <= lease.duration - (2 * lease.duration) \div 3
      /\ QuickLogins => lease.duration = 0 \/ LoginTime < Grace
      /\ (2 * lease.duration) \div 3 \in Nat
  BY Bounds, Parts DEF TypeOK
<1>1. CASE pc' # "login"
  BY <1>1 DEF LoginsInTime
<1>2. CASE WatcherDone \/ WaitEnds
  <2>1. /\ UNCHANGED <<lease, ttl, spent>>
        /\ pc \in {"watching", "waiting"} /\ (pc = "waiting" => wait = 0)
    BY <1>2 DEF WatcherDone, WaitEnds, vaultSide
  <2>2. spent = 0
    BY <2>1 DEF Places
  <2>3. QuickLogins => InTime
    <3>1. lease.duration = 0 \/ ttl >= Grace
      BY <1>0, <2>1 DEF Margins
    <3> QED
      BY <1>0, <2>2, <3>1 DEF InTime
  <2> QED
    BY <2>1, <2>3 DEF LoginsInTime, InTime
<1>3. CASE Retry
  <2>1. /\ pc = "backing" /\ wait = 0 /\ ~cancelled
        /\ UNCHANGED <<spent, sinceUp, cancelled, outage>>
    BY <1>3 DEF Retry, history
  <2>2. outage
    BY <2>1 DEF Places
  <2>3. sinceUp <= LoginTime + MaxBackoff
    BY <1>0, <2>1 DEF Backoffs
  <2>4. sinceUp <= spent + LoginTime + MaxBackoff
    BY <1>0, <2>3
  <2> QED
    BY <2>1, <2>2, <2>4 DEF LoginsInTime
<1>4. CASE Tick
  <2>1. /\ ttl' = Less(ttl) /\ UNCHANGED <<pc, lease, cancelled, outage>>
        /\ spent' = IF pc = "login" THEN spent + 1 ELSE spent
        /\ sinceUp' = IF up THEN More(sinceUp) ELSE 0
        /\ Quiet
    BY <1>4 DEF Tick
  <2>2. CASE pc = "login"
    <3>1. spent' = spent + 1 /\ spent < LoginTime
      BY <2>1, <2>2 DEF Quiet
    <3>2. InTime => InTime'
      <4>1. lease.duration > 0 /\ ttl + spent > LoginTime => ttl' + spent' > LoginTime
        BY <1>0, <2>1, <3>1 DEF Less
      <4> QED
        BY <1>0, <2>1, <4>1 DEF InTime
    <3>3. sinceUp' <= sinceUp + 1 /\ sinceUp' \in Nat
      BY <1>0, <2>1, Bounds DEF More, MinOf
    <3>4. sinceUp <= spent + LoginTime + MaxBackoff => sinceUp' <= spent' + LoginTime + MaxBackoff
      BY <1>0, <3>1, <3>3
    <3> QED
      BY <2>1, <2>2, <3>2, <3>4 DEF LoginsInTime
  <2> QED
    BY <1>1, <2>1, <2>2
<1>5. CASE GoDown
  <2>1. /\ sinceUp' = 0 /\ outage' = TRUE
        /\ UNCHANGED <<pc, spent>>
    BY <1>5 DEF GoDown
  <2>2. sinceUp' <= spent' + LoginTime + MaxBackoff
    BY <1>0, <2>1
  <2> QED
    BY <2>1, <2>2 DEF LoginsInTime
<1>6. CASE Renew
  BY <1>1, <1>6 DEF Renew, Due
<1>7. CASE ComeUp \/ Cancel \/ UNCHANGED vars
  <2>1. /\ UNCHANGED <<pc, lease, spent, ttl, sinceUp, outage>>
        /\ cancelled => cancelled'
    BY <1>7 DEF ComeUp, Cancel, vars, vaultSide, history
  <2> QED
    BY <2>1 DEF LoginsInTime, InTime
<1>8. CASE Watch \/ WaitOut \/ LoginOk \/ LoginErr \/ Stop
  BY <1>1, <1>8 DEF Watch, WaitOut, LoginOk, LoginErr, Stop
<1> QED
  BY <1>2, <1>3, <1>4, <1>5, <1>6, <1>7, <1>8 DEF Next, Keeper

(* The bounds hold from the first login on. *)
LEMMA ClocksAlways == Spec => [](TypeOK /\ Clocks)
<1>1. Init => Clocks
  <2> SUFFICES ASSUME Init  PROVE Clocks
    OBVIOUS
  <2>1. /\ pc = "deciding" /\ ttl = lease.duration /\ spent = 0 /\ backoff = 1
        /\ up = TRUE /\ outage = FALSE /\ sinceUp = MaxClock
    BY DEF Init
  <2>2. MaxClock \in Nat
    BY KeeperAssumption DEF MaxClock
  <2> QED
    BY <2>1, <2>2 DEF Clocks, Places, Margins, LoginsInTime, Backoffs
<1>2. TypeOK /\ Clocks /\ [Next]_vars => Clocks'
  BY PlacesStep, MarginsStep, LoginsStep, BackoffsStep DEF Clocks
<1> QED
  BY <1>1, <1>2, KeeperTyping, PTL DEF Spec

(* A token is valid wherever the keeper is, unless a login is late.         *)
LEMMA ValidUnlessLate ==
    ASSUME TypeOK, Clocks, QuickLogins, ~cancelled,
           pc = "login" => InTime, pc # "backing"
    PROVE  Valid
<1>0. /\ wait \in Nat /\ ttl \in Nat /\ spent \in 0..LoginTime /\ LoginTime \in Nat
      /\ lease.duration \in Nat /\ Grace \in Nat
      /\ Grace <= lease.duration - (2 * lease.duration) \div 3
      /\ QuickLogins => lease.duration = 0 \/ LoginTime < Grace
      /\ (2 * lease.duration) \div 3 \in Nat
  BY Bounds, Parts DEF TypeOK
<1>1. pc \in {"deciding", "waiting", "watching", "login"}
  BY DEF TypeOK, Clocks, Places
<1>2. lease.duration = 0 \/ ttl > 0
  <2>1. CASE pc = "deciding"
    BY <1>0, <2>1 DEF Clocks, Margins
  <2>2. CASE pc = "waiting"
    BY <1>0, <2>2 DEF Clocks, Margins
  <2>3. CASE pc = "watching"
    BY <1>0, <2>3 DEF Clocks, Margins
  <2>4. CASE pc = "login"
    BY <1>0, <2>4 DEF InTime
  <2> QED
    BY <1>1, <2>1, <2>2, <2>3, <2>4
<1> QED
  BY <1>2 DEF Valid

(* Whatever the leases and the timing: while Vault answers the token never  *)
(* expires, if logins are quick (auth.go:91-135).                           *)
THEOREM NeverExpires == Spec => []NeverExpiresWhileUp
<1>1. TypeOK /\ Clocks => NeverExpiresWhileUp
  <2> SUFFICES ASSUME TypeOK, Clocks, ~outage, ~cancelled, QuickLogins
               PROVE  Valid
    BY DEF NeverExpiresWhileUp
  <2>1. pc # "backing"
    BY DEF Clocks, Places
  <2>2. pc = "login" => InTime
    BY DEF Clocks, LoginsInTime
  <2> QED
    BY <2>1, <2>2, ValidUnlessLate
<1> QED
  BY <1>1, ClocksAlways, PTL

(* Whatever the leases and the timing: no wait between two logins is longer *)
(* than logins have been failing, and MaxBackoff and two logins after Vault *)
(* is back there is a valid token (auth.go:114-134).                        *)
THEOREM Recovers == Spec => []RecoversSoon
<1>1. TypeOK /\ Clocks => RecoversSoon
  <2> SUFFICES ASSUME TypeOK, Clocks, ~cancelled  PROVE RecoversSoon
    BY DEF RecoversSoon
  <2>1. pc = "backing" => wait <= failing + 1
    BY DEF Clocks, Backoffs
  <2>2. ASSUME QuickLogins, sinceUp > MaxBackoff + 2 * LoginTime
        PROVE  Valid
    <3>0. /\ sinceUp \in Nat /\ wait \in Nat /\ spent \in 0..LoginTime
          /\ LoginTime \in Nat /\ MaxBackoff \in Nat
      BY Bounds DEF TypeOK
    <3>1. pc # "backing"
      <4>1. pc = "backing" => sinceUp + wait <= LoginTime + MaxBackoff
        BY DEF Clocks, Backoffs
      <4> QED
        BY <2>2, <3>0, <4>1
    <3>2. pc = "login" => InTime
      <4>1. pc = "login" => InTime \/ sinceUp <= spent + LoginTime + MaxBackoff
        BY <2>2 DEF Clocks, LoginsInTime
      <4> QED
        BY <2>2, <3>0, <4>1
    <3> QED
      BY <2>2, <3>1, <3>2, ValidUnlessLate
  <2> QED
    BY <2>1, <2>2 DEF RecoversSoon
<1> QED
  BY <1>1, ClocksAlways, PTL
=============================================================================
