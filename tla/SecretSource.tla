---------------------------- MODULE SecretSource ----------------------------
(***************************************************************************)
(* What the caching secret source promises to the targets of a pass        *)
(* (vault.SecretSource behind vault.CachedSource): the first read of a     *)
(* secret that succeeds in a pass takes a snapshot of it, and until the    *)
(* pass is over every read of that secret returns the snapshot.  A read    *)
(* may fail as long as there is no snapshot.                               *)
(***************************************************************************)
CONSTANTS Readers, Secrets, Contents, Absent

VARIABLES
    vault,   \* the content of each secret, Absent if there is none
    inPass,  \* a pass has been declared with BeginPass
    snap,    \* the snapshots of this pass
    asked,   \* the secret each reader waits for, Absent if it waits for none
    got      \* the result of each reader's last read, Absent if it failed

vars == <<vault, inPass, snap, asked, got>>

Init ==
    /\ vault \in [Secrets -> Contents \union {Absent}]
    /\ inPass \in BOOLEAN
    /\ snap = [s \in Secrets |-> Absent]
    /\ asked = [r \in Readers |-> Absent]
    /\ got = [r \in Readers |-> Absent]

BeginPass ==
    /\ \A r \in Readers : asked[r] = Absent
    /\ inPass' = TRUE
    /\ snap' = [s \in Secrets |-> Absent]
    /\ UNCHANGED <<vault, asked, got>>

Ask(r, s) ==
    /\ asked[r] = Absent
    /\ asked' = [asked EXCEPT ![r] = s]
    /\ UNCHANGED <<vault, inPass, snap, got>>

(* What a reader waits for once it has its result: it may ask again at once. *)
Asks(r, next) == asked' = [asked EXCEPT ![r] = next]

(* The snapshot if there is one, the secret itself otherwise. *)
Answer(r, next) ==
    LET s == asked[r]
        content == IF snap[s] # Absent THEN snap[s] ELSE vault[s]
    IN  /\ s # Absent
        /\ content # Absent
        /\ got' = [got EXCEPT ![r] = content]
        /\ snap' = IF inPass THEN [snap EXCEPT ![s] = content] ELSE snap
        /\ Asks(r, next)
        /\ UNCHANGED <<vault, inPass>>

Fail(r, next) ==
    /\ asked[r] # Absent
    /\ snap[asked[r]] = Absent
    /\ got' = [got EXCEPT ![r] = Absent]
    /\ Asks(r, next)
    /\ UNCHANGED <<vault, inPass, snap>>

(* A reader that waits for nothing has used its result. *)
Forget(r) ==
    /\ asked[r] = Absent
    /\ got' = [got EXCEPT ![r] = Absent]
    /\ UNCHANGED <<vault, inPass, snap, asked>>

VaultWrite(s, content) ==
    /\ vault' = [vault EXCEPT ![s] = content]
    /\ UNCHANGED <<inPass, snap, asked, got>>

Next ==
    \/ BeginPass
    \/ \E r \in Readers :
          \/ \E s \in Secrets : Ask(r, s)
          \/ \E next \in Secrets \union {Absent} : Answer(r, next) \/ Fail(r, next)
          \/ Forget(r)
    \/ \E s \in Secrets, content \in Contents \union {Absent} : VaultWrite(s, content)

Spec == Init /\ [][Next]_vars
=============================================================================
