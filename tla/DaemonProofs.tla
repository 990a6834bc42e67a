---------------------------- MODULE DaemonProofs ----------------------------
(***************************************************************************)
(* The loop for every interval, jitter, file history and number of         *)
(* SIGHUPs: types, how far the staleness clock can run while nothing       *)
(* hangs, and that the client in use always has its KeepAlive.             *)
(***************************************************************************)
EXTENDS Daemon, TLAPS

(* SIGHUPs that have not led to the end of a reload yet: the one in the     *)
(* channel and the one being served.                                        *)
Reloading == IF phase \in {"reading", "login"} THEN 1 ELSE 0
Waiting == IF hup THEN 1 ELSE 0

(* Every reload takes a SIGHUP of its own, and only a file that loads is    *)
(* logged in with.                                                          *)
Counted ==
    /\ failed + Reloading + Waiting <= hups
    /\ builds + Reloading + Waiting <= hups + 1
    /\ Files[active] \in Nat
    /\ phase = "login" => Files[tried] \in Nat

(* The parameters are numbers where the clocks need them to be. *)
LEMMA Numbers ==
    /\ Interval \in Nat /\ Jitter \in Nat /\ ReloadTime \in Nat /\ MaxAge \in Nat
    /\ MaxHups \in Nat /\ StaleAfter \in Nat
    /\ Cycle \in Nat
    /\ DOMAIN Files = 1..Len(Files) /\ Len(Files) \in Nat
    /\ \A n \in DOMAIN Files : Files[n] \in Nat \union {Broken}
BY DaemonAssumption, ClockAssumption DEF StaleAfter, Cycle

(* A new wait begins with a timer in its range. *)
LEMMA SelectType ==
    ASSUME Select
    PROVE  /\ phase' = "select" /\ spent' = 0 /\ spent' \in 0..MaxAge
           /\ timer' \in 0..(Interval + Jitter)
BY Numbers DEF Select

(* Every step keeps the types and the counts: a reload that begins takes   *)
(* the SIGHUP out of the channel.                                           *)
LEMMA TypeStep ==
    ASSUME TypeOK, Counted, [Next]_vars
    PROVE  TypeOK' /\ Counted'
<1> USE Numbers DEF TypeOK, Counted, Reloading, Waiting, config, runtime, history
<1>1. CASE PassEnds
  BY <1>1, SelectType DEF PassEnds
<1>2. CASE TimerFires
  BY <1>2 DEF TimerFires, Run
<1>3. CASE HupTaken
  <2>1. /\ phase = "select" /\ hup /\ phase' = "reading" /\ ~hup' /\ hup' \in BOOLEAN /\ timer' = 0
        /\ UNCHANGED <<spent, hung, age, ready, term, config, runtime, history>>
    BY <1>3 DEF HupTaken
  <2>2. Reloading = 0 /\ Waiting = 1 /\ Reloading' = 1 /\ Waiting' = 0
    BY <2>1
  <2>3. Counted'
    BY <2>1, <2>2
  <2> QED
    BY <2>1, <2>3
<1>4. CASE ReadFile
  <2>1. CASE Files[file] = Broken
    BY <1>4, <2>1, SelectType DEF ReadFile, ReloadFails
  <2>2. CASE Files[file] # Broken
    BY <1>4, <2>2 DEF ReadFile
  <2> QED
    BY <2>1, <2>2
<1>5. CASE LoginOk
  <2>1. /\ phase = "login" /\ phase' = "running" /\ spent' = 0 /\ timer' = 0
        /\ active' = tried /\ builds' = builds + 1 /\ ended' = ended \union {builds}
        /\ keepers' \subseteq keepers \union {builds + 1}
        /\ UNCHANGED <<hung, age, ready, hup, term, file, tried, asked, hups, failed>>
    BY <1>5 DEF LoginOk, LogsIn, Run, KeptBy
  <2>2. builds' \in 1..(MaxHups + 1) /\ builds' + Reloading' + Waiting' <= hups' + 1
    BY <2>1
  <2>3. keepers' \subseteq 1..builds' /\ ended' \subseteq 1..builds'
    BY <2>1
  <2>4. active' \in DOMAIN Files /\ Files[active'] \in Nat
    BY <2>1
  <2> QED
    BY <2>1, <2>2, <2>3, <2>4
<1>6. CASE LoginFails
  BY <1>6, SelectType DEF LoginFails, ReloadFails
<1>7. CASE Stop
  BY <1>7 DEF Stop
<1>8. CASE KeepersEnd
  BY <1>8 DEF KeepersEnd, KeeperEnds
<1>9. CASE Hang
  BY <1>9 DEF Hang
<1>10. CASE Tick
  <2>1. age' \in 0..MaxAge /\ spent' \in 0..MaxAge
    BY <1>10 DEF Tick
  <2>2. timer' \in 0..(Interval + Jitter)
    <3>1. CASE phase = "select"
      <4>1. timer > 0 /\ timer' = timer - 1
        BY <1>10, <3>1 DEF Tick, MayLast
      <4> QED
        BY <4>1
    <3>2. CASE phase # "select"
      BY <1>10, <3>2 DEF Tick
    <3> QED
      BY <3>1, <3>2
  <2> QED
    BY <1>10, <2>1, <2>2 DEF Tick
<1>11. CASE EditFile
  BY <1>11 DEF EditFile
<1>12. CASE SendHup
  BY <1>12 DEF SendHup
<1>13. CASE SendTerm
  BY <1>13 DEF SendTerm
<1>14. CASE UNCHANGED vars
  BY <1>14 DEF vars
<1> QED
  BY <1>1, <1>2, <1>3, <1>4, <1>5, <1>6, <1>7, <1>8, <1>9, <1>10, <1>11, <1>12, <1>13, <1>14
     DEF Next, Loop

(* Types, for every interval, file history and number of SIGHUPs. *)
THEOREM DaemonTyping == Spec => [](TypeOK /\ Counted)
<1>1. Init => TypeOK /\ Counted
  <2> SUFFICES ASSUME Init  PROVE TypeOK /\ Counted
    OBVIOUS
  <2>1. 1 \in DOMAIN Files /\ Files[1] \in Nat
    BY DaemonAssumption
  <2>2. keepers \subseteq 1..builds /\ ended \subseteq 1..builds /\ builds = 1
    BY DEF Init, KeptBy
  <2>3. hung \in BOOLEAN /\ ready \in BOOLEAN /\ hup \in BOOLEAN /\ term \in BOOLEAN
    BY DEF Init
  <2>4. TypeOK
    BY <2>1, <2>2, <2>3, Numbers DEF Init, TypeOK
  <2>5. Counted
    BY <2>1, <2>2 DEF Init, Counted, Reloading, Waiting
  <2> QED
    BY <2>4, <2>5
<1>2. TypeOK /\ Counted /\ [Next]_vars => (TypeOK /\ Counted)'
  BY TypeStep
<1> QED
  BY <1>1, <1>2, PTL DEF Spec

-----------------------------------------------------------------------------
(* How far the clock has run, by where the loop is: every reload that       *)
(* failed has added one wait and one login, and time spent in the running   *)
(* wait, login or pass is counted by its own clock.                         *)
Wait == Interval + Jitter
Past == failed * Cycle
Measured ==
    /\ hung => phase = "running"
    /\ phase \in {"select", "reading"} => spent = 0
    /\ phase \in {"select", "stopped"} => age + timer <= Past + Wait
    /\ phase = "reading" => age <= Past + Wait
    /\ phase = "login" => spent <= ReloadTime /\ age <= Past + Wait + spent
    /\ phase = "running" /\ ~hung /\ Timeout # 0 =>
          spent <= Timeout /\ age <= Past + Cycle + spent

(* What one more failed reload adds. *)
LEMMA OneMore ==
    ASSUME NEW n \in Nat
    PROVE  /\ n * Cycle \in Nat
           /\ (n + 1) * Cycle = n * Cycle + Wait + ReloadTime
           /\ 0 * Cycle = 0
<1>1. Cycle \in Nat
  BY Numbers
<1>2. n * Cycle \in Nat /\ (n + 1) * Cycle = n * Cycle + Cycle /\ 0 * Cycle = 0
  BY <1>1
<1>3. Cycle = Wait + ReloadTime /\ Wait \in Nat
  BY Numbers DEF Cycle, Wait
<1> QED
  BY <1>2, <1>3, Numbers

(* The quantities the measure adds up. *)
LEMMA Quantities ==
    ASSUME TypeOK, Counted
    PROVE  /\ age \in Nat /\ spent \in Nat /\ timer \in 0..Wait /\ failed \in Nat
           /\ ReloadTime \in Nat /\ Wait \in Nat /\ Cycle = Wait + ReloadTime
           /\ Past \in Nat /\ Timeout \in Nat
<1>1. failed \in Nat
  BY Numbers DEF TypeOK
<1>2. Past \in Nat
  BY <1>1, OneMore DEF Past
<1> QED
  BY <1>1, <1>2, Numbers DEF TypeOK, Counted, Wait, Cycle, Timeout

(* Only a reload that fails and a pass that ends change what is past. *)
LEMMA PastStays ==
    ASSUME UNCHANGED <<failed, active>>
    PROVE  Past' = Past /\ Timeout' = Timeout
BY DEF Past, Timeout

(* Every step keeps the measure. *)
LEMMA MeasuredStep ==
    ASSUME TypeOK, Counted, Measured, [Next]_vars
    PROVE  Measured'
<1> USE Quantities
<1>1. CASE PassEnds
  <2>1. /\ phase' = "select" /\ spent' = 0 /\ timer' \in 0..Wait /\ age' = 0 /\ failed' = 0
        /\ ~hung'
    BY <1>1, SelectType DEF PassEnds, Wait
  <2>2. Past' = 0
    BY <2>1, OneMore DEF Past
  <2> QED
    BY <2>1, <2>2 DEF Measured
<1>2. ASSUME UNCHANGED <<failed, active, age, spent, timer, phase, hung>>  PROVE Measured'
  BY <1>2, PastStays DEF Measured
<1>3. CASE TimerFires
  <2>1. /\ phase = "select" /\ phase' = "running" /\ spent' = 0
        /\ UNCHANGED <<hung, age, failed, active>>
    BY <1>3 DEF TimerFires, Run, config, history
  <2> QED
    BY <2>1, PastStays DEF Measured
<1>4. CASE HupTaken
  <2>1. /\ phase = "select" /\ phase' = "reading" /\ UNCHANGED <<hung, age, failed, active, spent>>
    BY <1>4 DEF HupTaken, config, history
  <2> QED
    BY <2>1, PastStays DEF Measured
<1>5. ASSUME phase \in {"reading", "login"}, ReloadFails, UNCHANGED <<hung, age, active>>
      PROVE  Measured'
  <2>1. phase' = "select" /\ spent' = 0 /\ timer' \in 0..Wait /\ failed' = failed + 1
    BY <1>5, SelectType DEF ReloadFails, Wait
  <2>2. Past' = Past + Wait + ReloadTime
    BY <2>1, OneMore DEF Past
  <2>3. age <= Past + Wait + ReloadTime
    BY <1>5 DEF Measured
  <2> QED
    BY <1>5, <2>1, <2>2, <2>3 DEF Measured
<1>6. CASE ReadFile
  <2>1. CASE Files[file] = Broken
    BY <1>5, <1>6, <2>1 DEF ReadFile, config
  <2>2. CASE Files[file] # Broken
    <3>1. /\ phase = "reading" /\ phase' = "login"
          /\ UNCHANGED <<hung, age, spent, failed, active>>
      BY <1>6, <2>2 DEF ReadFile, config
    <3> QED
      BY <3>1, PastStays DEF Measured
  <2> QED
    BY <2>1, <2>2
<1>7. CASE LoginOk
  <2>1. /\ phase = "login" /\ phase' = "running" /\ spent' = 0
        /\ UNCHANGED <<hung, age, failed>> /\ active' = tried
    BY <1>7 DEF LoginOk, LogsIn, Run, history
  <2>2. Timeout' \in Nat /\ Past' = Past
    BY <2>1 DEF Counted, Timeout, Past
  <2> QED
    BY <2>1, <2>2 DEF Measured
<1>8. CASE LoginFails
  BY <1>5, <1>8 DEF LoginFails, config
<1>9. CASE Stop
  <2>1. /\ phase = "select" /\ phase' = "stopped"
        /\ UNCHANGED <<hung, age, spent, timer, failed, active>>
    BY <1>9 DEF Stop, config, history
  <2> QED
    BY <2>1, PastStays DEF Measured
<1>10. CASE Tick
  <2>1. UNCHANGED <<phase, hung, failed, active>> /\ Past' = Past /\ Timeout' = Timeout
    BY <1>10, PastStays DEF Tick, config, history
  <2>2. age' <= age + 1 /\ age' \in Nat
    BY <1>10, Numbers DEF Tick
  <2>3. CASE phase = "running"
    <3>1. ASSUME ~hung, Timeout # 0
          PROVE  spent' = spent + 1 /\ spent < Timeout
      <4>1. spent < Timeout
        BY <1>10, <2>3, <3>1 DEF Tick, MayLast
      <4>2. Timeout < MaxAge
        BY ClockAssumption DEF Timeout, TypeOK
      <4> QED
        BY <1>10, <2>3, <4>1, <4>2, Numbers DEF Tick
    <3> QED
      BY <2>1, <2>2, <2>3, <3>1 DEF Measured
  <2>4. CASE phase = "login"
    <3>1. spent < ReloadTime
      BY <1>10, <2>4 DEF Tick, MayLast
    <3>2. spent' = spent + 1
      BY <1>10, <2>4, <3>1, ClockAssumption, Numbers DEF Tick
    <3> QED
      BY <2>1, <2>2, <2>4, <3>1, <3>2 DEF Measured
  <2>5. CASE phase = "select"
    <3>1. timer' = timer - 1 /\ spent' = spent
      BY <1>10, <2>5 DEF Tick
    <3> QED
      BY <2>1, <2>2, <2>5, <3>1 DEF Measured
  <2> QED
    BY <1>10, <2>3, <2>4, <2>5 DEF Tick, MayLast, TypeOK
<1>11. CASE Hang
  <2>1. phase = "running" /\ hung' /\ UNCHANGED <<phase, spent, timer, age>>
    BY <1>11 DEF Hang
  <2> QED
    BY <2>1 DEF Measured
<1>12. CASE KeepersEnd \/ EditFile \/ SendHup \/ SendTerm \/ UNCHANGED vars
  <2>1. UNCHANGED <<failed, active, age, spent, timer, phase, hung>>
    BY <1>12 DEF KeepersEnd, KeeperEnds, EditFile, SendHup, SendTerm, vars, config, history
  <2> QED
    BY <1>2, <2>1
<1> QED
  BY <1>1, <1>3, <1>4, <1>6, <1>7, <1>8, <1>9, <1>10, <1>11, <1>12 DEF Next, Loop

(* While nothing hangs, the staleness clock stays below one wait and one    *)
(* reload for each reload that failed and one more of both, and the pass    *)
(* (daemon.go:105-118): the bound StaleAfter would have to take.            *)
THEOREM StalenessBounded == Spec => []AgeBounded
<1>1. Init => Measured
  <2> SUFFICES ASSUME Init  PROVE Measured
    OBVIOUS
  <2>1. phase = "running" /\ age = 0 /\ spent = 0 /\ failed = 0 /\ active = 1
    BY DEF Init
  <2>2. Files[1] \in Nat
    BY DaemonAssumption
  <2>3. Past = 0 /\ Cycle \in Nat
    BY <2>1, OneMore, Numbers DEF Past
  <2> QED
    BY <2>1, <2>2, <2>3 DEF Measured, Timeout
<1>2. TypeOK /\ Counted /\ Measured /\ [Next]_vars => Measured'
  BY MeasuredStep
<1>3. TypeOK /\ Counted /\ Measured => AgeBounded
  <2> SUFFICES ASSUME TypeOK, Counted, Measured, ~hung, Timeout # 0
               PROVE  age <= (failed + 1) * Cycle + (IF phase = "running" THEN Timeout ELSE 0)
    BY DEF AgeBounded
  <2>1. (failed + 1) * Cycle = Past + Wait + ReloadTime
    BY Quantities, OneMore DEF Past
  <2>2. phase \in {"running", "select", "reading", "login", "stopped"}
    BY DEF TypeOK
  <2> QED
    BY <2>1, <2>2, Quantities DEF Measured
<1> QED
  BY <1>1, <1>2, <1>3, DaemonTyping, PTL DEF Spec

-----------------------------------------------------------------------------
(* The KeepAlive of the client in use lives and has not been cancelled:     *)
(* what ActiveIsKept needs to survive KeepAlives that end.                  *)
Kept ==
    /\ ended \subseteq 1..(builds - 1)
    /\ term \/ active \in StaticAuth \/ builds \in keepers

(* Only a reload builds a client, and a KeepAlive that ends is not the last *)
(* one built unless the daemon stops.                                       *)
LEMMA KeptStep ==
    ASSUME TypeOK, Kept, [Next]_vars
    PROVE  Kept'
<1>1. CASE LoginOk
  <2>1. /\ active' = tried /\ builds' = builds + 1 /\ ended' = ended \union {builds}
        /\ keepers' = keepers \union KeptBy(builds + 1, tried) /\ term' = term
    BY <1>1 DEF LoginOk
  <2>2. builds \in Nat \ {0}
    BY Numbers DEF TypeOK
  <2>3. ended' \subseteq 1..(builds' - 1)
    BY <2>1, <2>2 DEF Kept
  <2>4. active' \in StaticAuth \/ builds' \in keepers'
    BY <2>1 DEF KeptBy
  <2> QED
    BY <2>3, <2>4 DEF Kept
<1>2. CASE KeepersEnd
  <2>1. PICK n \in keepers : KeeperEnds(n)
    BY <1>2 DEF KeepersEnd
  <2>2. builds \in Nat \ {0}
    BY Numbers DEF TypeOK
  <2>3. n = builds => term
    BY <2>1, <2>2 DEF KeeperEnds, Kept
  <2>4. keepers' = keepers \ {n} /\ UNCHANGED <<builds, ended, term, active>>
    BY <2>1 DEF KeeperEnds, config
  <2> QED
    BY <2>3, <2>4 DEF Kept
<1>3. CASE ~LoginOk /\ ~KeepersEnd
  <2>1. UNCHANGED <<builds, keepers, ended, active>> /\ (term => term')
    BY <1>3 DEF Next, Loop, PassEnds, TimerFires, HupTaken, ReadFile, LoginFails, Stop, Hang,
                Tick, EditFile, SendHup, SendTerm, vars, config, runtime
  <2> QED
    BY <2>1 DEF Kept
<1> QED
  BY <1>1, <1>2, <1>3

(* The client in use keeps its token through every sequence of reloads.     *)
THEOREM TokenKept == Spec => []ActiveIsKept
<1>1. Init => Kept
  BY DEF Init, Kept, KeptBy
<1>2. TypeOK /\ Kept /\ [Next]_vars => Kept'
  BY KeptStep
<1>3. Kept => ActiveIsKept
  BY DEF Kept, ActiveIsKept
<1> QED
  BY <1>1, <1>2, <1>3, DaemonTyping, PTL DEF Spec
=============================================================================
