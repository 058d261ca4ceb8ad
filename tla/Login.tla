------------------------------- MODULE Login -------------------------------
(***************************************************************************)
(* The login identity of one user, its sessions, and the tombstone that    *)
(* keeps the identity of a deleted account from being registered again     *)
(* (auth.service.ts, auth-identity-tombstone.service.ts).                  *)
(*                                                                         *)
(* A login looks the identity up before it locks anybody, so the identity  *)
(* may be erased between its steps; what it does under the user's lock is  *)
(* one step.  How a person proves to own the identity is left out, and so  *)
(* are the keys of the tombstones and the exchange of a session's token    *)
(* for its successor, which is refused like a login.                       *)
(***************************************************************************)
EXTENDS Account

CONSTANTS
    Logins,         \* bound: login requests at a time
    MaxSessions,    \* bound: sessions the user has at a time
    SessionBatch    \* sessions that the start of a deletion revokes

ASSUME LoginAssumption == MaxSessions \in Nat \ {0} /\ SessionBatch \in Nat \ {0}

VARIABLES
    identity,   \* whose the AuthIdentity is: the user's, nobody's, a new account's
    tombstone,  \* AuthIdentityTombstone and its expiry
    sessions,   \* how many of the user's RefreshTokens are live
    login       \* what each request has found

loginVars == <<identity, tombstone, sessions, login>>

LoginTypeOK ==
    /\ identity \in {"own", "erased", "new"}
    /\ tombstone \in {"none", "standing", "sealed", "expired"}
    /\ sessions \in 0..MaxSessions
    /\ login \in [Logins -> {"idle", "own", "erased", "new", "cleared"}]

LoginInit ==
    /\ identity = "own"
    /\ tombstone = "none"
    /\ sessions = 0
    /\ login = [l \in Logins |-> "idle"]

-----------------------------------------------------------------------------
(* Logging in. *)

\* Mutant of UserBlocked: the account's status decides.
UserBlockedByStatus == account = "banned"

UserBlocked == request.status \in Restricting

IdentityBlocked ==
    /\ tombstone # "none"
    /\ \/ request.status = "processing"
       \/ request.status = "completed" /\ tombstone # "expired"

LookUp(l) ==
    /\ login[l] = "idle"
    /\ login' = [login EXCEPT ![l] = identity]
    /\ UNCHANGED <<identity, tombstone, sessions>>

\* Under the lock of the user it found, and for its own identity only; a
\* request that finds something else starts again or is refused.
EnterOwn(l) ==
    /\ login[l] = "own"
    /\ login' = [login EXCEPT ![l] = "idle"]
    /\ sessions' = IF identity = "own" /\ ~UserBlocked /\ sessions < MaxSessions
                   THEN sessions + 1 ELSE sessions
    /\ UNCHANGED <<identity, tombstone>>

\* The new account's sessions are not the user's.
EnterNew(l) ==
    /\ login[l] = "new"
    /\ login' = [login EXCEPT ![l] = "idle"]
    /\ UNCHANGED <<identity, tombstone, sessions>>

CheckTombstone(l) ==
    /\ login[l] = "erased"
    /\ login' = [login EXCEPT ![l] = IF IdentityBlocked THEN "idle" ELSE "cleared"]
    /\ UNCHANGED <<identity, tombstone, sessions>>

\* The identity is unique: the second of two requests starts again.
OpenAccount(l) ==
    /\ login[l] = "cleared"
    /\ login' = [login EXCEPT ![l] = "idle"]
    /\ identity' = IF identity = "erased" THEN "new" ELSE identity
    /\ UNCHANGED <<tombstone, sessions>>

\* A logout, or a session that is not used until it expires.
EndSession ==
    /\ sessions > 0
    /\ sessions' = sessions - 1
    /\ UNCHANGED <<identity, tombstone, login>>

LoginSteps ==
    \/ EndSession
    \/ \E l \in Logins : LookUp(l) \/ EnterOwn(l) \/ EnterNew(l) \/ CheckTombstone(l) \/ OpenAccount(l)

-----------------------------------------------------------------------------
(* What the deletion does. *)

\* A deletion starts only while the identity is there.
InstallTombstone ==
    /\ identity = "own"
    /\ tombstone' = "standing"
    /\ sessions' = IF sessions > SessionBatch THEN sessions - SessionBatch ELSE 0
    /\ UNCHANGED <<identity, login>>

SealTombstone ==
    /\ identity = "own" /\ tombstone = "standing"
    /\ tombstone' = "sealed"
    /\ UNCHANGED <<identity, sessions, login>>

\* Years later.
TombstoneExpires ==
    /\ tombstone = "sealed" /\ request.status = "completed"
    /\ tombstone' = "expired"
    /\ UNCHANGED <<identity, sessions, login>>

-----------------------------------------------------------------------------
\* The person cannot come back to the deleted account, and to no new one under
\* the same identity until the tombstone has expired: whatever a login had
\* found before, no account is opened for the identity of a deletion that is
\* not completed and past that time, and of a deletion whose sessions have
\* been erased none appears again (resolveConsumerIdentityAndIssueSession,
\* findBlockingStateTx, findUserBlockingStateTx).
NoWayBack ==
    /\ identity = "new" => request.status = "completed" /\ tombstone = "expired"
    /\ identity # "own" => sessions = 0

=============================================================================
