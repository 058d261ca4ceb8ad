--------------------------- MODULE ErasureProofs ---------------------------
(***************************************************************************)
(* Proofs about Erasure, for any number of administrators, messages,       *)
(* grants, logins, records and files: what the deletion of an account must *)
(* never undo, send twice, or erase too early.                             *)
(***************************************************************************)
EXTENDS Erasure, TLAPS

-----------------------------------------------------------------------------
(* The inductive invariants, one for each part of the state. *)

\* An overturned appeal opens the account again: none may be under way once the
\* deletion is processed.
OverturnedBefore == request.status \in Restricting => sanction # "overturning"

\* The execution is queued with the approval of a second administrator, and
\* only a queued execution erases.
ExecutionApproved ==
    execution.status # "idle" => /\ request.status \in Restricting
                                 /\ request.approver \notin {None, request.starter}

ErasesWhenQueued ==
    execution.phase # "deliveries" \/ (\E g \in Grants : grant[g] = "erased") =>
        execution.status # "idle"

AccountInv ==
    /\ AccountTypeOK /\ DeletionTypeOK
    /\ ClosedForGood /\ OverturnedBefore /\ ExecutionApproved /\ ErasesWhenQueued

\* An identity is erased after the sessions, and behind a tombstone.
ErasedBehindTombstone ==
    identity # "own" => request.status \in Restricting /\ tombstone # "none"

SessionsErasedFirst ==
    execution.phase \in {"identity", "snapshot", "final"} => sessions = 0

\* What a login has found is never ahead of the identity; only after the
\* tombstone has expired does it clear the way to a new account.
LoginsBehind ==
    \A l \in Logins :
        /\ login[l] \in {"erased", "new", "cleared"} => identity # "own"
        /\ login[l] = "cleared" => request.status = "completed" /\ tombstone = "expired"

LoginInv == LoginTypeOK /\ NoWayBack /\ ErasedBehindTombstone /\ SessionsErasedFirst /\ LoginsBehind

\* A message that is due, or not yet written, has no worker and was never sent.
Due == {d \in Deliveries : delivery[d] = None \/ Is(d, "pending")}
         \cup {h \in Slots : attempt[h] = None \/ At(h, "reserved")}

DueUnsent == \A x \in Due : worker[x].step = "idle" /\ crossed[x] = 0

\* A worker whose call has not crossed to WeChat has a message and a grant that
\* nobody has used.
Unsent == {"claimed", "calling", "retryable", "rejected", "skipped"}

UncrossedBefore ==
    \A x \in Messages :
        /\ worker[x].step \in Unsent => /\ crossed[x] = 0
                                        /\ worker[x].grant # None => crossed[worker[x].grant] = 0
        /\ worker[x].step \in {"calling"} \cup Outcomes => worker[x].grant # None
        /\ worker[x].step = "claimed" /\ x \in Slots => worker[x].grant # None

\* A grant is used by one worker, and by none while it is free.
GrantsHeldOnce ==
    /\ \A g \in Grants : grant[g] \in {"free", None} =>
            /\ crossed[g] = 0
            /\ \A x \in Messages : worker[x].grant # g
    /\ \A x, y \in Messages : worker[x].grant = worker[y].grant /\ worker[x].grant # None => x = y

DeliveryInv == DeliveryTypeOK /\ MessageOnce /\ DueUnsent /\ UncrossedBefore /\ GrantsHeldOnce

\* Content is left until the last batch of it is erased.
ContentLeft ==
    \A r \in Records : Exists(r) /\ record[r].phase \in {"media", "content"} => record[r].content > 0

\* Whoever may have asked the storage to delete a file did so under a record
\* that says so, and a record under a hold never said so.
ClaimedUnder(m) == media[m].bound # None /\ Exists(media[m].bound) /\ record[media[m].bound].claimed

AskedUnderRecord ==
    \A m \in Media : media[m] # None /\ (media[m].call # "none" \/ media[m].leased \/ m \in stray) =>
        ClaimedUnder(m)

HeldUnclaimed == \A r \in Records : Barrier(r) => Exists(r) /\ ~record[r].claimed

\* The storage no longer has what it said is gone.
GoneIsGone ==
    \A m \in Media : media[m] # None /\ (media[m].call = "gone" \/ media[m].deleted) => m \notin stored

RetentionInv ==
    /\ RetentionTypeOK /\ ContentLeft
    /\ AskedUnderRecord /\ HeldUnclaimed /\ NothingErasedUnderHold
    /\ GoneIsGone /\ FilesGoWithRows

\* The record of the account is written with the completion, once.
WrittenOnce == record[Own] # None => request.status = "completed"

IInv == AccountInv /\ LoginInv /\ DeliveryInv /\ RetentionInv /\ WrittenOnce /\ agenda \in Agendas

-----------------------------------------------------------------------------
(* The account and the execution of its deletion *)

LEMMA NextPhases == \A phase \in Phases \ {"final"} : NextPhase[phase] \in Phases \ {"deliveries"}
BY DEF Phases, NextPhase

LEMMA AccountStarts == ASSUME ErasureInit PROVE AccountInv
<1>1. AccountTypeOK
    BY DEF ErasureInit, AccountInit, AccountTypeOK, NoRequest
<1>2. DeletionTypeOK
    BY DeletionAssumption DEF ErasureInit, DeletionInit, DeletionTypeOK, Phases
<1>3. ClosedForGood /\ OverturnedBefore
    BY DEF ErasureInit, AccountInit, NoRequest, ClosedForGood, OverturnedBefore, Restricting
<1>4. ExecutionApproved /\ ErasesWhenQueued
    BY DeliveryAssumption
    DEF ErasureInit, DeletionInit, DeliveryInit, ExecutionApproved, ErasesWhenQueued, GrantRows
<1> QED BY <1>1, <1>2, <1>3, <1>4 DEF AccountInv

\* Orders and sanctions change neither the request nor the execution.
LEMMA OrdersKeepAccount ==
    ASSUME AccountInv, OrderSteps \/ SanctionSteps
    PROVE  AccountInv'
<1>1. UNCHANGED <<request, execution, grant>>
    BY DEF OrderSteps, SanctionSteps, OpenQuarrel, CloseQuarrel, PlaceOrder, EndOrder, Notified,
        Notify, SanctionUser, LiftSanction, AppealSanction, UpholdSanction, ReadDeletion,
        OverturnSanction, deliveryVars, duties, rest
<1>2. AccountTypeOK'
  <2>1. CASE OrderSteps
    <3>1. CASE OpenQuarrel \/ CloseQuarrel
      <4>1. /\ quarrel' \in BOOLEAN /\ lateRecord' \in BOOLEAN
            /\ UNCHANGED <<companion, account, published, order, sanction, notes>>
        BY <3>1 DEF OpenQuarrel, CloseQuarrel, AccountInv, AccountTypeOK
      <4> QED BY <4>1, <1>1 DEF AccountInv, AccountTypeOK
    <3>2. CASE \E role \in Roles : PlaceOrder(role) \/ EndOrder(role)
      <4>1. /\ order' \in [Roles -> {"none", "live", "ended"}]
            /\ UNCHANGED <<companion, account, published, quarrel, sanction, notes, lateRecord>>
        BY <3>2 DEF PlaceOrder, EndOrder, AccountInv, AccountTypeOK
      <4> QED BY <4>1, <1>1 DEF AccountInv, AccountTypeOK
    <3> QED BY <2>1, <3>1, <3>2 DEF OrderSteps
  <2>2. CASE SanctionSteps
    <3>1. /\ account' \in {"active", "restricted", "banned"}
          /\ sanction' \in {"none", "inForce", "upheld"} \cup AppealOpen
          /\ notes' \in BOOLEAN /\ lateRecord' \in BOOLEAN
          /\ UNCHANGED <<companion, published, order, quarrel>>
      BY <2>2, <1>1 DEF SanctionSteps, SanctionUser, LiftSanction, AppealSanction, UpholdSanction,
          ReadDeletion, OverturnSanction, AccountInv, AccountTypeOK, AppealOpen
    <3> QED BY <1>1, <3>1 DEF AccountInv, AccountTypeOK
  <2> QED BY <2>1, <2>2
<1>3. ClosedForGood' /\ OverturnedBefore'
  <2>1. CASE OrderSteps
    <3>1. UNCHANGED <<account, published, sanction>>
      BY <2>1 DEF OrderSteps, OpenQuarrel, CloseQuarrel, PlaceOrder, EndOrder
    <3>2. \A role \in Roles : order'[role] = "live" => order[role] = "live" \/ account = "active"
      BY <2>1 DEF OrderSteps, OpenQuarrel, CloseQuarrel, PlaceOrder, EndOrder, AcceptsOrders,
          AccountInv, AccountTypeOK
    <3> QED BY <1>1, <3>1, <3>2 DEF AccountInv, ClosedForGood, OverturnedBefore, Restricting
  <2>2. CASE SanctionSteps
    BY <2>2, <1>1 DEF SanctionSteps, SanctionUser, LiftSanction, AppealSanction, UpholdSanction,
        ReadDeletion, OverturnSanction, Changeable, AccountInv, ClosedForGood, OverturnedBefore,
        Restricting
  <2> QED BY <2>1, <2>2
<1>4. DeletionTypeOK' /\ ExecutionApproved' /\ ErasesWhenQueued'
    BY <1>1 DEF AccountInv, DeletionTypeOK, ExecutionApproved, ErasesWhenQueued
<1> QED BY <1>2, <1>3, <1>4 DEF AccountInv

LEMMA RequestsKeepAccount ==
    ASSUME AccountInv, RequestSteps
    PROVE  AccountInv'
<1>1. UNCHANGED <<execution, grant>>
    BY DEF RequestSteps, deliveryVars, rest
<1>2. AccountTypeOK' /\ ClosedForGood' /\ OverturnedBefore'
  <2> USE DEF AccountInv, AccountTypeOK, ClosedForGood, OverturnedBefore, Restricting
  <2>1. CASE PublishProfile
    BY <2>1 DEF PublishProfile
  <2>2. CASE RequestDeletion
    <3>1. request' \in [status : {"none", "pending"} \cup Restricting,
                        starter : Admins \cup {None}, approver : Admins \cup {None}]
      BY <2>2 DEF RequestDeletion
    <3> QED BY <2>2, <3>1 DEF RequestDeletion
  <2>3. CASE CancelDeletion
    BY <2>3 DEF CancelDeletion, NoRequest
  <2>4. ASSUME NEW s \in Admins, StartDeletion(s)
        PROVE  AccountTypeOK' /\ ClosedForGood' /\ OverturnedBefore'
    <3>1. /\ request' \in [status : {"none", "pending"} \cup Restricting,
                           starter : Admins \cup {None}, approver : Admins \cup {None}]
          /\ request'.status = "processing"
      BY <2>4 DEF StartDeletion
    <3>2. account' \in {"restricted", "banned"} /\ sanction \notin AppealOpen
      BY <2>4 DEF StartDeletion, Obligations
    <3> QED BY <2>4, <3>1, <3>2 DEF StartDeletion, AppealOpen
  <2> QED BY <2>1, <2>2, <2>3, <2>4 DEF RequestSteps
<1>4. ExecutionApproved'
    BY <1>1 DEF RequestSteps, PublishProfile, RequestDeletion, CancelDeletion, StartDeletion,
        Cancellable, AccountInv, AccountTypeOK, Restricting, ExecutionApproved
<1>5. DeletionTypeOK' /\ ErasesWhenQueued'
    BY <1>1 DEF AccountInv, DeletionTypeOK, ErasesWhenQueued
<1> QED BY <1>2, <1>4, <1>5 DEF AccountInv

LEMMA ApprovalKeepsAccount ==
    ASSUME AccountInv, Approve
    PROVE  AccountInv'
<1>1. UNCHANGED <<account, published, order, sanction, grant>>
    BY DEF Approve, ApproveDeletion, deliveryVars
<1>2. /\ request'.status = request.status /\ request.status = "processing"
      /\ request'.approver \notin {None, request'.starter}
      /\ AccountTypeOK'
    BY AccountAssumption DEF Approve, ApproveDeletion, AccountInv, AccountTypeOK
<1>3. /\ execution'.status = "queued" /\ execution'.phase = execution.phase
      /\ DeletionTypeOK'
    BY DEF Approve, QueueExecution, AccountInv, DeletionTypeOK
<1> QED BY <1>1, <1>2, <1>3
    DEF AccountInv, ClosedForGood, OverturnedBefore, ExecutionApproved, ErasesWhenQueued, Restricting

\* Only the phase of the grants erases a grant.
LEMMA GrantsErasedByPhase ==
    ASSUME DeliveryTypeOK, NotificationSteps \/ ReminderSteps, NEW g \in Grants, grant'[g] = "erased"
    PROVE  grant[g] = "erased"
BY DEF NotificationSteps, ReminderSteps, RecordGrant, ClaimDelivery, LeaseExpires, ReserveGrant,
    Lost, Call, Crash, ReleaseGrantAndRetry, FinishDelivery, SaveFavourite, DisarmReminder,
    RemoveFavourite, ArmReminder, ReserveReminder, AcquireFinalSendAuthorization,
    ClaimProviderAttempt, RecoverExpiredSendLease, FinalizeProviderOutcome, DeliveryTypeOK

LEMMA ExecutionKeepsAccount ==
    ASSUME AccountInv, Execute
    PROVE  AccountInv'
<1>1. UNCHANGED <<companion, account, published, order, quarrel, sanction, request, lateRecord>>
    BY DEF Execute, ExecutionSteps, FailureSteps, ClaimExecution, EraseDeliveries,
        EraseNotifications, EraseGrants, EraseFavourites, EraseSessions, EraseIdentity,
        SnapshotRetained, RecordFailure, RetryDeletionExecution, accountVars
<1>2. execution.status # "idle" /\ execution'.status # "idle"
    BY DEF Execute, ExecutionSteps, FailureSteps, ClaimExecution, EraseDeliveries,
        EraseNotifications, EraseGrants, EraseFavourites, EraseSessions, EraseIdentity,
        SnapshotRetained, RecordFailure, RetryDeletionExecution, Advance, Executing,
        AccountInv, DeletionTypeOK
<1>3. DeletionTypeOK'
  <2>1. \A phase \in Phases \ {"final"} : Advance(phase) => DeletionTypeOK'
    BY NextPhases DEF Advance, AccountInv, DeletionTypeOK
  <2>2. CASE EraseSessions
    BY <2>2, NextPhases DEF EraseSessions, AccountInv, DeletionTypeOK, Phases
  <2>3. CASE ClaimExecution \/ RetryDeletionExecution
    BY <2>3 DEF ClaimExecution, RetryDeletionExecution, AccountInv, DeletionTypeOK
  <2>4. CASE RecordFailure
    <3> DEFINE fails == IF execution.fails < MaxFails THEN execution.fails + 1 ELSE execution.fails
               status == IF execution.fails + 1 >= MaxFails THEN "failed" ELSE "queued"
    <3>1. execution' = [execution EXCEPT !.fails = fails, !.status = status]
      BY <2>4 DEF RecordFailure
    <3>2. fails \in 0..MaxFails /\ status \in {"queued", "failed"}
      BY DeletionAssumption DEF AccountInv, DeletionTypeOK
    <3> QED BY <3>1, <3>2 DEF AccountInv, DeletionTypeOK
  <2>5. {"deliveries", "notifications", "grants", "favourites", "identity", "snapshot"}
            \subseteq Phases \ {"final"}
    BY DEF Phases
  <2> QED BY <2>1, <2>2, <2>3, <2>4, <2>5
      DEF Execute, ExecutionSteps, FailureSteps, EraseDeliveries, EraseNotifications, EraseGrants,
          EraseFavourites, EraseIdentity, SnapshotRetained
<1>4. AccountTypeOK'
  <2>1. notes' \in BOOLEAN
    BY DEF Execute, ExecutionSteps, FailureSteps, ClaimExecution, EraseDeliveries,
        EraseNotifications, EraseGrants, EraseFavourites, EraseSessions, EraseIdentity,
        SnapshotRetained, RecordFailure, RetryDeletionExecution, accountVars, AccountInv,
        AccountTypeOK
  <2> QED BY <1>1, <2>1 DEF AccountInv, AccountTypeOK
<1>5. ClosedForGood' /\ OverturnedBefore' /\ ExecutionApproved' /\ ErasesWhenQueued'
    BY <1>1, <1>2
    DEF AccountInv, ClosedForGood, OverturnedBefore, ExecutionApproved, ErasesWhenQueued
<1> QED BY <1>3, <1>4, <1>5 DEF AccountInv

LEMMA CompletionKeepsAccount ==
    ASSUME AccountInv, Complete
    PROVE  AccountInv'
<1> USE DEF Complete, FinalizeDeletionExecution, Executing
<1>1. AccountTypeOK'
    BY DEF AccountInv, AccountTypeOK, Restricting
<1>2. DeletionTypeOK'
    BY DEF AccountInv, DeletionTypeOK
<1>3. ClosedForGood' /\ OverturnedBefore'
    BY DEF AccountInv, AccountTypeOK, ClosedForGood, OverturnedBefore, Restricting, Obligations
<1>4. ExecutionApproved' /\ ErasesWhenQueued'
    BY DEF AccountInv, AccountTypeOK, DeletionTypeOK, ExecutionApproved, ErasesWhenQueued,
        Restricting
<1> QED BY <1>1, <1>2, <1>3, <1>4 DEF AccountInv

LEMMA AccountKept ==
    ASSUME AccountInv, DeliveryTypeOK, [Next]_vars
    PROVE  AccountInv'
<1>1. CASE MessageSteps
  <2>1. UNCHANGED <<accountVars, execution>>
    BY <1>1 DEF MessageSteps, duties, rest
  <2>2. \A g \in Grants : grant'[g] = "erased" => grant[g] = "erased"
    BY <1>1, GrantsErasedByPhase DEF MessageSteps
  <2>3. AccountTypeOK' /\ DeletionTypeOK' /\ ClosedForGood' /\ OverturnedBefore'
          /\ ExecutionApproved'
    BY <2>1 DEF AccountInv, accountVars, AccountTypeOK, DeletionTypeOK, ClosedForGood,
        OverturnedBefore, ExecutionApproved
  <2>4. ErasesWhenQueued'
    BY <2>1, <2>2 DEF AccountInv, ErasesWhenQueued
  <2> QED BY <2>3, <2>4 DEF AccountInv
<1>2. CASE EnterSteps \/ Retain \/ UNCHANGED vars
  <2>1. UNCHANGED <<accountVars, execution, grant>>
    BY <1>2 DEF EnterSteps, Retain, vars, rest, deliveryVars
  <2> QED BY <2>1 DEF AccountInv, accountVars, AccountTypeOK, DeletionTypeOK, ClosedForGood,
        OverturnedBefore, ExecutionApproved, ErasesWhenQueued
<1> QED BY <1>1, <1>2, OrdersKeepAccount, RequestsKeepAccount, ApprovalKeepsAccount,
        ExecutionKeepsAccount, CompletionKeepsAccount DEF Next

-----------------------------------------------------------------------------
(* The identity, its tombstone and the logins *)

LEMMA LoginStarts == ASSUME ErasureInit PROVE LoginInv
<1>1. LoginTypeOK
    BY LoginAssumption DEF ErasureInit, LoginInit, LoginTypeOK
<1> QED BY <1>1 DEF ErasureInit, LoginInit, DeletionInit, LoginInv, NoWayBack,
        ErasedBehindTombstone, SessionsErasedFirst, LoginsBehind

\* What is said of the logins rests on the request, the phase and the login tables.
LEMMA LoginsUnchanged ==
    ASSUME LoginInv, UNCHANGED <<request, execution, loginVars>>
    PROVE  LoginInv'
BY DEF LoginInv, LoginTypeOK, NoWayBack, ErasedBehindTombstone, SessionsErasedFirst, LoginsBehind,
    loginVars

\* While the identity is the user's, only the logins under way and the sessions
\* are at stake.
LEMMA OwnIdentity ==
    ASSUME LoginInv, identity = "own", UNCHANGED <<identity, login>>,
           execution'.phase = execution.phase, sessions' \in 0..sessions,
           tombstone' \in {"none", "standing", "sealed", "expired"}
    PROVE  LoginInv'
<1>1. LoginTypeOK'
    BY LoginAssumption DEF LoginInv, LoginTypeOK
<1>2. NoWayBack' /\ ErasedBehindTombstone' /\ LoginsBehind'
    BY DEF LoginInv, NoWayBack, ErasedBehindTombstone, LoginsBehind
<1>3. SessionsErasedFirst'
    BY LoginAssumption DEF LoginInv, LoginTypeOK, SessionsErasedFirst
<1> QED BY <1>1, <1>2, <1>3 DEF LoginInv

LEMMA RequestsKeepLogins ==
    ASSUME AccountInv, LoginInv, RequestSteps \/ Approve
    PROVE  LoginInv'
<1>0. LoginTypeOK /\ sessions \in Nat /\ MaxSessions \in Nat /\ SessionBatch \in Nat
    BY LoginAssumption DEF LoginInv, LoginTypeOK
<1>1. CASE \E s \in Admins : StartDeletion(s) /\ InstallTombstone /\ UNCHANGED rest
  <2>1. sessions' \in 0..sessions
    BY <1>0, <1>1 DEF InstallTombstone
  <2> QED BY <1>1, <2>1, OwnIdentity DEF InstallTombstone, rest
<1>2. CASE Approve
  <2>1. execution'.phase = execution.phase
    BY <1>2 DEF Approve, QueueExecution, AccountInv, DeletionTypeOK
  <2>2. sessions' \in 0..sessions
    BY <1>0, <1>2 DEF Approve, SealTombstone
  <2> QED BY <1>2, <2>1, <2>2, OwnIdentity DEF Approve, SealTombstone
<1>3. CASE PublishProfile /\ UNCHANGED loginVars /\ UNCHANGED rest
    BY <1>3, LoginsUnchanged DEF PublishProfile, rest
<1>4. CASE (RequestDeletion \/ CancelDeletion) /\ UNCHANGED loginVars /\ UNCHANGED rest
  <2>1. request.status \notin Restricting
    BY <1>4 DEF RequestDeletion, CancelDeletion, Cancellable, Restricting
  <2>2. identity = "own"
    BY <2>1 DEF LoginInv, ErasedBehindTombstone
  <2>3. sessions' \in 0..sessions
    BY <1>0, <1>4 DEF loginVars
  <2> QED BY <1>0, <1>4, <2>2, <2>3, OwnIdentity DEF loginVars, rest, LoginTypeOK
<1> QED BY <1>1, <1>2, <1>3, <1>4 DEF RequestSteps

\* A login finds what is there, and acts under the lock or is refused.
LEMMA LoginsKeepLogins ==
    ASSUME AccountInv, LoginInv, EnterSteps
    PROVE  LoginInv'
<1>0. /\ LoginTypeOK /\ sessions \in Nat /\ MaxSessions \in Nat
      /\ UNCHANGED <<request, execution>>
    BY LoginAssumption DEF LoginInv, LoginTypeOK, EnterSteps, accountVars, rest
<1>1. CASE EndSession
    BY <1>0, <1>1 DEF EndSession, LoginInv, LoginTypeOK, NoWayBack, ErasedBehindTombstone,
        SessionsErasedFirst, LoginsBehind
<1>2. CASE TombstoneExpires
    BY <1>0, <1>2 DEF TombstoneExpires, LoginInv, LoginTypeOK, NoWayBack, ErasedBehindTombstone,
        SessionsErasedFirst, LoginsBehind
<1>3. ASSUME NEW l \in Logins, LookUp(l)
      PROVE  LoginInv'
    BY <1>0, <1>3 DEF LookUp, LoginInv, LoginTypeOK, NoWayBack, ErasedBehindTombstone,
        SessionsErasedFirst, LoginsBehind
<1>4. ASSUME NEW l \in Logins, EnterOwn(l)
      PROVE  LoginInv'
  <2>1. LoginTypeOK' /\ LoginsBehind'
    BY <1>0, <1>4 DEF EnterOwn, LoginInv, LoginTypeOK, LoginsBehind
  <2>2. sessions' # sessions => identity = "own" /\ request.status \notin Restricting
    BY <1>4 DEF EnterOwn, UserBlocked
  <2>3. execution.phase \in {"identity", "snapshot", "final"} => request.status \in Restricting
    BY DEF AccountInv, ErasesWhenQueued, ExecutionApproved
  <2>4. SessionsErasedFirst'
    BY <1>0, <2>2, <2>3 DEF LoginInv, SessionsErasedFirst
  <2>5. NoWayBack' /\ ErasedBehindTombstone'
    BY <1>0, <1>4, <2>2 DEF EnterOwn, LoginInv, NoWayBack, ErasedBehindTombstone
  <2> QED BY <2>1, <2>4, <2>5 DEF LoginInv
<1>5. ASSUME NEW l \in Logins, EnterNew(l)
      PROVE  LoginInv'
    BY <1>0, <1>5 DEF EnterNew, LoginInv, LoginTypeOK, NoWayBack, ErasedBehindTombstone,
        SessionsErasedFirst, LoginsBehind
<1>6. ASSUME NEW l \in Logins, CheckTombstone(l)
      PROVE  LoginInv'
  <2>1. identity # "own" /\ request.status \in Restricting /\ tombstone # "none"
    BY <1>6 DEF CheckTombstone, LoginInv, LoginsBehind, ErasedBehindTombstone
  <2>2. ~IdentityBlocked => request.status = "completed" /\ tombstone = "expired"
    BY <2>1 DEF IdentityBlocked, Restricting
  <2>3. LoginTypeOK' /\ LoginsBehind'
    BY <1>0, <1>6, <2>1, <2>2 DEF CheckTombstone, LoginInv, LoginTypeOK, LoginsBehind
  <2> QED BY <1>0, <1>6, <2>3 DEF CheckTombstone, LoginInv, NoWayBack, ErasedBehindTombstone,
        SessionsErasedFirst
<1>7. ASSUME NEW l \in Logins, OpenAccount(l)
      PROVE  LoginInv'
  <2>1. identity # "own" /\ request.status = "completed" /\ tombstone = "expired"
    BY <1>7 DEF OpenAccount, LoginInv, LoginsBehind
  <2>2. LoginTypeOK' /\ LoginsBehind'
    BY <1>0, <1>7, <2>1 DEF OpenAccount, LoginInv, LoginTypeOK, LoginsBehind
  <2> QED BY <1>0, <1>7, <2>1, <2>2 DEF OpenAccount, LoginInv, NoWayBack, ErasedBehindTombstone,
        SessionsErasedFirst, Restricting
<1> QED BY <1>1, <1>2, <1>3, <1>4, <1>5, <1>6, <1>7 DEF EnterSteps, LoginSteps

LEMMA ExecutionKeepsLogins ==
    ASSUME AccountInv, LoginInv, Execute
    PROVE  LoginInv'
<1>0. /\ LoginTypeOK /\ sessions \in Nat /\ MaxSessions \in Nat
      /\ DeletionTypeOK
    BY LoginAssumption DEF LoginInv, LoginTypeOK, AccountInv
<1>1. UNCHANGED request
    BY DEF Execute, ExecutionSteps, FailureSteps, ClaimExecution, EraseDeliveries,
        EraseNotifications, EraseGrants, EraseFavourites, EraseSessions, EraseIdentity,
        SnapshotRetained, RecordFailure, RetryDeletionExecution, accountVars
<1>2. CASE EraseSessions
  <2>1. /\ UNCHANGED <<identity, tombstone, login>> /\ sessions' \in 0..sessions
        /\ execution'.phase = IF sessions' = 0 THEN "identity" ELSE "sessions"
    BY <1>0, <1>2 DEF EraseSessions, Executing, NextPhase, DeletionTypeOK
  <2> QED BY <1>0, <1>1, <2>1 DEF LoginInv, LoginTypeOK, NoWayBack, ErasedBehindTombstone,
        SessionsErasedFirst, LoginsBehind
<1>3. CASE EraseIdentity
  <2>1. /\ UNCHANGED <<tombstone, sessions, login>> /\ identity' = "erased"
        /\ tombstone # "none" /\ request.status = "processing" /\ execution.phase = "identity"
    BY <1>3 DEF EraseIdentity, Advance, Executing
  <2> QED BY <1>0, <1>1, <2>1 DEF LoginInv, LoginTypeOK, NoWayBack, ErasedBehindTombstone,
        SessionsErasedFirst, LoginsBehind, Restricting
<1>4. CASE ~EraseSessions /\ ~EraseIdentity
  <2>1. UNCHANGED loginVars
    BY <1>4 DEF Execute, ExecutionSteps, FailureSteps, ClaimExecution, EraseDeliveries,
        EraseNotifications, EraseGrants, EraseFavourites, SnapshotRetained, RecordFailure,
        RetryDeletionExecution
  <2>2. execution'.phase \in {"identity", "snapshot", "final"} =>
            execution.phase \in {"identity", "snapshot", "final"}
    BY <1>0, <1>4 DEF Execute, ExecutionSteps, FailureSteps, ClaimExecution, EraseDeliveries,
        EraseNotifications, EraseGrants, EraseFavourites, SnapshotRetained, RecordFailure,
        RetryDeletionExecution, Advance, Executing, NextPhase, DeletionTypeOK
  <2> QED BY <1>1, <2>1, <2>2 DEF LoginInv, LoginTypeOK, NoWayBack, ErasedBehindTombstone,
        SessionsErasedFirst, LoginsBehind, loginVars
<1> QED BY <1>2, <1>3, <1>4

LEMMA LoginKept ==
    ASSUME AccountInv, LoginInv, [Next]_vars
    PROVE  LoginInv'
<1>1. CASE OrderSteps \/ SanctionSteps \/ MessageSteps \/ Retain \/ UNCHANGED vars
  <2>1. UNCHANGED <<request, execution, loginVars>>
    BY <1>1 DEF OrderSteps, SanctionSteps, MessageSteps, Retain, OpenQuarrel, CloseQuarrel,
        PlaceOrder, EndOrder, SanctionUser, LiftSanction, AppealSanction, UpholdSanction,
        ReadDeletion, OverturnSanction, accountVars, duties, rest, vars
  <2> QED BY <2>1, LoginsUnchanged
<1>2. CASE Complete
  <2>1. /\ UNCHANGED loginVars /\ execution'.phase = execution.phase
        /\ request.status = "processing" /\ request'.status = "completed"
    BY <1>2 DEF Complete, FinalizeDeletionExecution, Executing, AccountInv, AccountTypeOK,
        DeletionTypeOK
  <2> QED BY <2>1 DEF LoginInv, LoginTypeOK, NoWayBack, ErasedBehindTombstone,
        SessionsErasedFirst, LoginsBehind, loginVars, Restricting
<1> QED BY <1>1, <1>2, RequestsKeepLogins, LoginsKeepLogins, ExecutionKeepsLogins DEF Next

-----------------------------------------------------------------------------
(* The messages *)

WorkerRows == [step : {"idle", "claimed", "calling"} \cup Outcomes, grant : Grants \cup {None}]

\* The rows of the messages, and those of the work on them.
RowTypes ==
    /\ delivery \in [Deliveries -> DeliveryRows \cup {None}]
    /\ favourite \in {"absent", "disarmed"} \cup ReminderGrants
    /\ attempt \in [Slots -> AttemptRows \cup {None}]

WorkTypes ==
    /\ grant \in [Grants -> GrantRows \cup {None}]
    /\ worker \in [Messages -> WorkerRows]
    /\ crossed \in [Messages \cup Grants -> 0..2]

WorkInv == WorkTypes /\ MessageOnce /\ UncrossedBefore /\ GrantsHeldOnce

LEMMA DeliveryParts ==
    /\ DeliveryTypeOK <=> RowTypes /\ WorkTypes
    /\ DeliveryTypeOK' <=> RowTypes' /\ WorkTypes'
    /\ DeliveryInv <=> RowTypes /\ WorkInv /\ DueUnsent
    /\ DeliveryInv' <=> RowTypes' /\ WorkInv' /\ DueUnsent'
<1>1. DeliveryTypeOK <=> RowTypes /\ WorkTypes
    BY DEF DeliveryTypeOK, RowTypes, WorkTypes, WorkerRows
<1>2. DeliveryTypeOK' <=> RowTypes' /\ WorkTypes'
    BY DEF DeliveryTypeOK, RowTypes, WorkTypes, WorkerRows
<1> QED BY <1>1, <1>2 DEF DeliveryInv, WorkInv

LEMMA Names ==
    /\ Deliveries \subseteq Messages /\ Slots \subseteq Messages /\ Due \subseteq Messages
    /\ EventGrants \subseteq Grants /\ ReminderGrants \subseteq Grants
    /\ Messages \cap Grants = {} /\ Deliveries \cap Slots = {} /\ None \notin Grants
    /\ None \notin {"free", "consumed", "erased"}
BY DeliveryAssumption DEF Messages, Grants, Due, GrantRows

\* The step of a worker says what it holds.
LEMMA Work ==
    ASSUME WorkTypes, NEW x \in Messages
    PROVE  /\ worker[x] \in WorkerRows
           /\ worker[x].grant \in Grants \cup {None}
           /\ worker[x].step \in {"idle", "claimed", "calling"} \cup Outcomes
           /\ crossed[x] \in 0..2
           /\ \A g \in Grants : crossed[g] \in 0..2
BY Names DEF WorkTypes, WorkerRows

LEMMA DeliveryStarts == ASSUME ErasureInit PROVE DeliveryInv
<1> USE DEF ErasureInit, DeliveryInit
<1>1. RowTypes
    BY DEF RowTypes
<1>2. WorkTypes
    BY DEF WorkTypes, WorkerRows, Idle
<1>3. MessageOnce /\ DueUnsent
    BY Names DEF MessageOnce, DueUnsent, Idle
<1>4. UncrossedBefore /\ GrantsHeldOnce
    BY Names DEF UncrossedBefore, GrantsHeldOnce, Idle, Unsent, Outcomes
<1> QED BY <1>1, <1>2, <1>3, <1>4, DeliveryParts DEF WorkInv

\* Steps of the rows alone, after which no more messages are due.
LEMMA RowsMove ==
    ASSUME DeliveryInv, RowTypes', UNCHANGED <<grant, worker, crossed>>, Due' \subseteq Due
    PROVE  DeliveryInv'
<1>1. WorkInv'
    BY DEF DeliveryInv, WorkInv, WorkTypes, DeliveryTypeOK, WorkerRows, MessageOnce,
        UncrossedBefore, GrantsHeldOnce
<1>2. DueUnsent'
    BY DEF DeliveryInv, DueUnsent
<1> QED BY <1>1, <1>2, DeliveryParts

\* A worker leaves its message, which may be due again if it was never sent.
LEMMA WorkerLeaves ==
    ASSUME DeliveryInv, RowTypes', NEW x \in Messages, worker' = [worker EXCEPT ![x] = Idle],
           UNCHANGED <<grant, crossed>>,
           Due' \subseteq Due \cup {x}, x \in Due' => crossed[x] = 0
    PROVE  DeliveryInv'
<1>0. WorkInv /\ DueUnsent
    BY DeliveryParts
<1>1. \A y \in Messages : worker'[y] = IF y = x THEN Idle ELSE worker[y]
    BY <1>0 DEF WorkInv, WorkTypes
<1>2. WorkTypes'
    BY <1>0 DEF WorkInv, WorkTypes, WorkerRows, Idle
<1>3. MessageOnce' /\ UncrossedBefore'
    BY <1>0, <1>1 DEF WorkInv, MessageOnce, UncrossedBefore, Idle, Unsent, Outcomes
<1>4. GrantsHeldOnce'
    BY <1>0, <1>1, Names DEF WorkInv, GrantsHeldOnce, Idle
<1>5. DueUnsent'
    BY <1>0, <1>1, Names DEF DueUnsent, Idle
<1> QED BY <1>2, <1>3, <1>4, <1>5, DeliveryParts DEF WorkInv

\* A worker takes a free grant for a message that was never sent.
LEMMA GrantTaken ==
    ASSUME DeliveryInv, RowTypes', NEW x \in Messages, NEW g \in Grants,
           NEW s \in {"claimed", "calling"},
           grant[g] = "free", grant' = [grant EXCEPT ![g] = "consumed"],
           crossed[x] = 0, UNCHANGED crossed,
           worker' = [worker EXCEPT ![x] = [step |-> s, grant |-> g]],
           Due' \subseteq Due \ {x}
    PROVE  DeliveryInv'
<1>0. WorkInv /\ DueUnsent
    BY DeliveryParts
<1>1. \A y \in Messages : worker'[y] = IF y = x THEN [step |-> s, grant |-> g] ELSE worker[y]
    BY <1>0 DEF WorkInv, WorkTypes
<1>2. \A f \in Grants : grant'[f] = IF f = g THEN "consumed" ELSE grant[f]
    BY <1>0 DEF WorkInv, WorkTypes
<1>3. WorkTypes'
    BY <1>0 DEF WorkInv, WorkTypes, WorkerRows, GrantRows
<1>4. crossed[g] = 0 /\ \A y \in Messages : worker[y].grant # g
    BY <1>0 DEF WorkInv, GrantsHeldOnce
<1>5. MessageOnce' /\ UncrossedBefore'
    BY <1>0, <1>1, <1>4, Names DEF WorkInv, MessageOnce, UncrossedBefore
<1>6. GrantsHeldOnce'
    BY <1>0, <1>1, <1>2, <1>4, Names DEF WorkInv, GrantsHeldOnce
<1>7. DueUnsent'
    BY <1>0, <1>1, Names DEF DueUnsent
<1> QED BY <1>3, <1>5, <1>6, <1>7, DeliveryParts DEF WorkInv

\* A grant comes into being or is erased; nobody has taken it meanwhile.
LEMMA GrantsChange ==
    ASSUME DeliveryInv, RowTypes', UNCHANGED <<worker, crossed>>,
           grant' \in [Grants -> GrantRows \cup {None}],
           \A g \in Grants : grant'[g] \in {"free", None} => grant[g] \in {"free", None},
           Due' \subseteq Due
    PROVE  DeliveryInv'
<1>0. WorkInv /\ DueUnsent
    BY DeliveryParts
<1>1. WorkTypes'
    BY <1>0 DEF WorkInv, WorkTypes
<1>2. MessageOnce' /\ UncrossedBefore' /\ GrantsHeldOnce'
    BY <1>0 DEF WorkInv, MessageOnce, UncrossedBefore, GrantsHeldOnce
<1>3. DueUnsent'
    BY <1>0 DEF DueUnsent
<1> QED BY <1>1, <1>2, <1>3, DeliveryParts DEF WorkInv

\* A call crosses to WeChat once: its message and its grant were never used.
LEMMA CallCrosses ==
    ASSUME DeliveryInv, NEW x \in Messages, Call(x)
    PROVE  DeliveryInv'
<1>0. WorkInv /\ DueUnsent /\ RowTypes
    BY DeliveryParts
<1> DEFINE g == worker[x].grant
<1>1. /\ worker[x].step = "calling" /\ crossed[x] = 0
      /\ g \in Grants /\ crossed[g] = 0 /\ x \notin Due
    BY <1>0, Work DEF Call, WorkInv, UncrossedBefore, Unsent, DueUnsent
<1>2. PICK outcome \in Outcomes :
        /\ worker' = [worker EXCEPT ![x].step = outcome]
        /\ crossed' = IF outcome \in {"sent", "unknown"}
                      THEN [crossed EXCEPT ![x] = @ + 1, ![g] = @ + 1] ELSE crossed
    BY DEF Call
<1>3. /\ \A y \in Messages \ {x} : worker'[y] = worker[y]
      /\ worker'[x].step = outcome /\ worker'[x].grant = g
      /\ worker' \in [Messages -> WorkerRows]
    BY <1>0, <1>2 DEF WorkInv, WorkTypes, WorkerRows
<1>4. /\ \A z \in (Messages \cup Grants) \ {x, g} : crossed'[z] = crossed[z]
      /\ crossed'[x] \in {0, 1} /\ crossed'[g] \in {0, 1}
      /\ outcome \notin {"sent", "unknown"} => crossed'[x] = 0 /\ crossed'[g] = 0
      /\ crossed' \in [Messages \cup Grants -> 0..2]
    BY <1>0, <1>1, <1>2, Names DEF WorkInv, WorkTypes
<1>5. UNCHANGED <<delivery, grant, favourite, attempt>>
    BY DEF Call
<1>6. WorkTypes'
    BY <1>0, <1>3, <1>4, <1>5 DEF WorkInv, WorkTypes
<1>7. MessageOnce'
    BY <1>0, <1>4 DEF WorkInv, MessageOnce
<1>8. \A y \in Messages \ {x} : worker[y].grant # g
    BY <1>0, <1>1, Names DEF WorkInv, GrantsHeldOnce
<1>9. UncrossedBefore'
  <2> SUFFICES ASSUME NEW y \in Messages
               PROVE  /\ worker'[y].step \in Unsent =>
                            /\ crossed'[y] = 0
                            /\ worker'[y].grant # None => crossed'[worker'[y].grant] = 0
                      /\ worker'[y].step \in {"calling"} \cup Outcomes => worker'[y].grant # None
                      /\ worker'[y].step = "claimed" /\ y \in Slots => worker'[y].grant # None
      BY DEF UncrossedBefore
  <2>1. CASE y = x
    BY <1>1, <1>3, <1>4, <2>1, Names DEF Unsent, Outcomes
  <2>2. CASE y # x
    <3>1. worker'[y] = worker[y] /\ worker[y].grant # g /\ worker[y].grant \in Grants \cup {None}
      BY <1>0, <1>3, <1>8, <2>2, Work DEF WorkInv
    <3>2. worker[y].grant # None => crossed'[worker[y].grant] = crossed[worker[y].grant]
      BY <1>1, <1>4, <3>1, Names
    <3>3. crossed'[y] = crossed[y]
      BY <1>1, <1>4, <2>2, Names
    <3> QED BY <1>0, <3>1, <3>2, <3>3 DEF WorkInv, UncrossedBefore
  <2> QED BY <2>1, <2>2
<1>10. GrantsHeldOnce'
  <2>1. grant[g] \notin {"free", None}
    BY <1>0, <1>1 DEF WorkInv, GrantsHeldOnce
  <2>2. \A y \in Messages : worker'[y].grant = worker[y].grant
    BY <1>3
  <2>3. \A f \in Grants \ {g} : crossed'[f] = crossed[f]
    BY <1>4, Names
  <2> QED BY <1>0, <1>5, <2>1, <2>2, <2>3 DEF WorkInv, GrantsHeldOnce
<1>11. DueUnsent'
  <2>1. Due' = Due
    BY <1>5 DEF Due, Is, At
  <2> QED BY <1>0, <1>1, <1>3, <1>4, <2>1, Names DEF DueUnsent
<1>12. RowTypes'
    BY <1>0, <1>5 DEF RowTypes
<1> QED BY <1>6, <1>7, <1>9, <1>10, <1>11, <1>12, DeliveryParts DEF WorkInv

\* Moving one row, or erasing rows, keeps their types and says what is due.
LEMMA DeliveryMoves ==
    ASSUME RowTypes, NEW d \in Deliveries, delivery[d] # None,
           NEW s \in {"pending", "processing", "sent", "failed", "skipped", "erased"},
           delivery' = [delivery EXCEPT ![d].status = s], UNCHANGED <<favourite, attempt>>
    PROVE  /\ RowTypes'
           /\ Due' \subseteq Due \cup {d}
           /\ s # "pending" => Due' \subseteq Due \ {d}
<1>1. delivery[d] \in DeliveryRows
    BY DEF RowTypes
<1>2. /\ [delivery[d] EXCEPT !.status = s] \in DeliveryRows
      /\ [delivery[d] EXCEPT !.status = s].status = s
    BY <1>1 DEF DeliveryRows
<1>3. delivery'[d] \in DeliveryRows /\ delivery'[d].status = s /\ delivery'[d] # None
    BY <1>2, DeliveryAssumption DEF RowTypes
<1>4. \A e \in Deliveries \ {d} : delivery'[e] = delivery[e]
    BY DEF RowTypes
<1>5. RowTypes'
    BY <1>2 DEF RowTypes
<1> QED BY <1>3, <1>4, <1>5, Names DEF Due, Is, At

LEMMA AttemptMoves ==
    ASSUME RowTypes, NEW h \in Slots, attempt[h] # None,
           NEW s \in Attempts \ {"reserved"},
           attempt' = [attempt EXCEPT ![h].status = s], UNCHANGED <<favourite, delivery>>
    PROVE  /\ RowTypes'
           /\ Due' \subseteq Due \ {h}
<1>1. attempt[h] \in AttemptRows
    BY DEF RowTypes
<1>2. /\ [attempt[h] EXCEPT !.status = s] \in AttemptRows
      /\ [attempt[h] EXCEPT !.status = s].status = s
    BY <1>1 DEF AttemptRows
<1>3. attempt'[h] \in AttemptRows /\ attempt'[h].status = s /\ attempt'[h] # None
    BY <1>2, DeliveryAssumption DEF RowTypes
<1>4. \A e \in Slots \ {h} : attempt'[e] = attempt[e]
    BY DEF RowTypes
<1>5. RowTypes'
    BY <1>2 DEF RowTypes
<1> QED BY <1>3, <1>4, <1>5, Names DEF Due, Is, At

LEMMA AttemptsErased ==
    ASSUME RowTypes, attempt' = Erased(Slots), UNCHANGED delivery,
           favourite' \in {"absent", "disarmed"} \cup ReminderGrants
    PROVE  RowTypes' /\ Due' \subseteq Due
<1>1. \A h \in Slots : attempt[h] # None =>
        /\ [attempt[h] EXCEPT !.status = "erased"] \in AttemptRows
        /\ [attempt[h] EXCEPT !.status = "erased"].status = "erased"
    BY DEF RowTypes, AttemptRows, Attempts
<1>2. \A h \in Slots : attempt'[h] =
        IF attempt[h] # None THEN [attempt[h] EXCEPT !.status = "erased"] ELSE None
    BY DEF Erased
<1>3. attempt' \in [Slots -> AttemptRows \cup {None}]
    BY <1>1 DEF Erased
<1>4. RowTypes'
    BY <1>3 DEF RowTypes
<1>5. \A h \in Slots : attempt'[h] = None => attempt[h] = None
    BY <1>1, <1>2, DeliveryAssumption
<1> QED BY <1>1, <1>2, <1>4, <1>5 DEF Due, Is, At

LEMMA DeliveriesErased ==
    ASSUME RowTypes, UNCHANGED <<favourite, attempt>>,
           delivery' = [d \in Deliveries |-> IF delivery[d] = None THEN None
                                             ELSE [delivery[d] EXCEPT !.status = "erased"]]
    PROVE  RowTypes' /\ Due' \subseteq Due
<1>1. \A d \in Deliveries : delivery[d] # None =>
        /\ [delivery[d] EXCEPT !.status = "erased"] \in DeliveryRows
        /\ [delivery[d] EXCEPT !.status = "erased"].status = "erased"
    BY DEF RowTypes, DeliveryRows
<1>2. delivery' \in [Deliveries -> DeliveryRows \cup {None}]
    BY <1>1
<1>3. RowTypes'
    BY <1>2 DEF RowTypes
<1>4. \A d \in Deliveries : delivery'[d] = None => delivery[d] = None
    BY <1>1, DeliveryAssumption
<1> QED BY <1>1, <1>3, <1>4 DEF Due, Is, At

LEMMA NotificationsKeepDelivery ==
    ASSUME DeliveryInv, NEW d \in Deliveries,
           \/ ClaimDelivery(d) \/ LeaseExpires(d) \/ ReserveGrant(d) \/ ReleaseGrantAndRetry(d)
           \/ FinishDelivery(d) \/ Notify(d)
    PROVE  DeliveryInv'
<1>0. WorkInv /\ WorkTypes /\ DueUnsent /\ RowTypes /\ d \in Messages
    BY DeliveryParts, Names DEF WorkInv
<1>1. CASE Notify(d)
  <2>1. RowTypes'
    BY <1>0, <1>1, DeliveryAssumption DEF Notify, RowTypes, DeliveryRows
  <2>2. Due' \subseteq Due
    BY <1>0, <1>1, Names DEF Notify, RowTypes, Due, Is, At
  <2> QED BY <1>1, <2>1, <2>2, RowsMove DEF Notify
<1>2. CASE LeaseExpires(d)
  <2>1. RowTypes' /\ Due' \subseteq Due
    BY <1>0, <1>2, DeliveryMoves DEF LeaseExpires, Is, Recovered
  <2> QED BY <1>2, <2>1, RowsMove DEF LeaseExpires
<1>3. CASE ClaimDelivery(d)
  <2>1. RowTypes' /\ Due' \subseteq Due \ {d}
    BY <1>0, <1>3, DeliveryMoves DEF ClaimDelivery, Is
  <2>2. d \in Due /\ worker[d].step = "idle" /\ crossed[d] = 0
    BY <1>0, <1>3 DEF ClaimDelivery, Due, DueUnsent
  <2>3. /\ \A y \in Messages : worker'[y] = IF y = d THEN [step |-> "claimed", grant |-> None]
                                                     ELSE worker[y]
        /\ UNCHANGED <<grant, crossed>>
    BY <1>0, <1>3 DEF ClaimDelivery, WorkTypes
  <2>4. WorkTypes'
    BY <1>0, <1>3 DEF ClaimDelivery, WorkTypes, WorkerRows
  <2>5. MessageOnce' /\ UncrossedBefore'
    BY <1>0, <2>2, <2>3, Names DEF WorkInv, MessageOnce, UncrossedBefore, Outcomes
  <2>6. GrantsHeldOnce'
    BY <1>0, <2>3, Names DEF WorkInv, GrantsHeldOnce
  <2>7. DueUnsent'
    BY <1>0, <2>1, <2>3, Names DEF DueUnsent
  <2> QED BY <2>1, <2>4, <2>5, <2>6, <2>7, DeliveryParts DEF WorkInv
<1>4. CASE /\ worker[d].step \in {"claimed"} \cup Outcomes
           /\ ~Is(d, "processing")
           /\ Lost(d)
  <2>1. RowTypes' /\ Due' = Due
    BY <1>0, <1>4 DEF Lost, RowTypes, Due, Is, At
  <2>2. d \in Due => crossed[d] = 0
    BY <1>0 DEF DueUnsent
  <2> QED BY <1>0, <1>4, <2>1, <2>2, WorkerLeaves DEF Lost
<1>5. CASE ReserveGrant(d) /\ Is(d, "processing")
  <2>1. worker[d].step = "claimed" /\ crossed[d] = 0
    BY <1>0, <1>5 DEF ReserveGrant, WorkInv, UncrossedBefore, Unsent
  <2>2. ASSUME NEW s \in {"skipped", "pending"}, delivery' = [delivery EXCEPT ![d].status = s],
               worker' = [worker EXCEPT ![d] = Idle], UNCHANGED <<grant, favourite, attempt, crossed>>
        PROVE  DeliveryInv'
    <3>1. RowTypes' /\ Due' \subseteq Due \cup {d}
      BY <1>0, <1>5, <2>2, DeliveryMoves DEF Is
    <3> QED BY <1>0, <2>1, <2>2, <3>1, WorkerLeaves
  <2>3. ASSUME NEW g \in EventGrants, grant[g] = "free",
               grant' = [grant EXCEPT ![g] = "consumed"],
               worker' = [worker EXCEPT ![d] = [step |-> "calling", grant |-> g]],
               UNCHANGED <<delivery, favourite, attempt, crossed>>
        PROVE  DeliveryInv'
    <3>1. RowTypes' /\ Due' = Due
      BY <1>0, <2>3 DEF RowTypes, Due, Is, At
    <3>2. d \notin Due
      BY <1>0, <2>1 DEF DueUnsent
    <3>3. g \in Grants /\ Due' \subseteq Due \ {d} /\ UNCHANGED crossed
      BY <2>3, <3>1, <3>2, Names
    <3> QED BY <1>0, <2>1, <2>3, <3>1, <3>3, GrantTaken
  <2> QED BY <1>5, <2>2, <2>3 DEF ReserveGrant
<1>6. CASE FinishDelivery(d) /\ Is(d, "processing")
  <2> DEFINE s == IF worker[d].step \in {"sent", "skipped"} THEN worker[d].step ELSE "failed"
  <2>1. s \in {"sent", "skipped", "failed"} /\ s # "pending"
    OBVIOUS
  <2>2. delivery' = [delivery EXCEPT ![d].status = s] /\ delivery[d] # None
    BY <1>6 DEF FinishDelivery, Is
  <2> HIDE DEF s
  <2>3. RowTypes' /\ Due' \subseteq Due \ {d}
    BY <1>0, <1>6, <2>1, <2>2, DeliveryMoves DEF FinishDelivery
  <2> QED BY <1>0, <1>6, <2>3, WorkerLeaves DEF FinishDelivery
<1>7. CASE ReleaseGrantAndRetry(d)
  <2> DEFINE g == worker[d].grant
  <2>1. /\ worker[d].step = "retryable" /\ crossed[d] = 0
        /\ g \in Grants /\ crossed[g] = 0
    BY <1>0, <1>7, Work DEF ReleaseGrantAndRetry, Retried, WorkInv, UncrossedBefore, Unsent, Outcomes
  <2>2. \A y \in Messages \ {d} : worker[y].grant # g
    BY <1>0, <2>1, Names DEF WorkInv, GrantsHeldOnce
  <2>3. RowTypes'
    <3>1. delivery[d] \in DeliveryRows /\ delivery[d].tries < MaxTries
      BY <1>0, <1>7 DEF ReleaseGrantAndRetry, Retried, Is, RowTypes
    <3>2. [status |-> "pending", tries |-> delivery[d].tries + 1] \in DeliveryRows
      BY <3>1, DeliveryAssumption DEF DeliveryRows
    <3> QED BY <1>0, <1>7, <3>2 DEF ReleaseGrantAndRetry, RowTypes
  <2>4. Due' \subseteq Due \cup {d}
    BY <1>0, <1>7 DEF ReleaseGrantAndRetry, RowTypes, Due, Is, At
  <2>5. /\ \A y \in Messages : worker'[y] = IF y = d THEN Idle ELSE worker[y]
        /\ \A f \in Grants \ {g} : grant'[f] = grant[f]
        /\ UNCHANGED crossed
    BY <1>0, <1>7 DEF ReleaseGrantAndRetry, WorkTypes
  <2>6. WorkTypes'
    BY <1>0, <1>7 DEF ReleaseGrantAndRetry, WorkTypes, WorkerRows, GrantRows, Idle
  <2>7. MessageOnce' /\ UncrossedBefore'
    BY <1>0, <2>5 DEF WorkInv, MessageOnce, UncrossedBefore, Idle, Unsent, Outcomes
  <2>8. GrantsHeldOnce'
    BY <1>0, <2>1, <2>2, <2>5, Names DEF WorkInv, GrantsHeldOnce, Idle
  <2>9. DueUnsent'
    BY <1>0, <2>1, <2>4, <2>5, Names DEF DueUnsent, Idle
  <2> QED BY <2>3, <2>6, <2>7, <2>8, <2>9, DeliveryParts DEF WorkInv
<1> QED BY <1>1, <1>2, <1>3, <1>4, <1>5, <1>6, <1>7 DEF ReserveGrant, FinishDelivery

LEMMA RemindersKeepDelivery ==
    ASSUME DeliveryInv, NEW h \in Slots,
           \/ ReserveReminder(h) \/ AcquireFinalSendAuthorization(h) \/ ClaimProviderAttempt(h)
           \/ RecoverExpiredSendLease(h) \/ FinalizeProviderOutcome(h)
    PROVE  DeliveryInv'
<1>0. WorkInv /\ WorkTypes /\ DueUnsent /\ RowTypes /\ h \in Messages
    BY DeliveryParts, Names DEF WorkInv
<1>1. attempt[h] # None => attempt[h].grant \in ReminderGrants /\ attempt[h].grant \in Grants
    BY <1>0, Names DEF RowTypes, AttemptRows
<1>2. CASE ReserveReminder(h)
  <2>1. RowTypes'
    BY <1>0, <1>2 DEF ReserveReminder, RowTypes, AttemptRows, Attempts
  <2>2. Due' \subseteq Due
    BY <1>0, <1>2 DEF ReserveReminder, RowTypes, Due, Is, At
  <2> QED BY <1>2, <2>1, <2>2, RowsMove DEF ReserveReminder
<1>3. CASE /\ AcquireFinalSendAuthorization(h)
           /\ Armed(attempt[h].grant)
           /\ attempt' = [attempt EXCEPT ![h].status = "readyToSend"]
           /\ grant' = [grant EXCEPT ![attempt[h].grant] = "consumed"]
           /\ worker' = [worker EXCEPT ![h] = [step |-> "claimed", grant |-> attempt[h].grant]]
  <2>1. attempt[h] # None /\ h \in Due /\ UNCHANGED <<delivery, favourite, crossed>>
    BY <1>3 DEF AcquireFinalSendAuthorization, At, Due
  <2>2. RowTypes' /\ Due' \subseteq Due \ {h}
    BY <1>0, <1>3, <2>1, AttemptMoves DEF Attempts
  <2>3. crossed[h] = 0 /\ grant[attempt[h].grant] = "free" /\ attempt[h].grant \in Grants
    BY <1>0, <1>1, <1>3, <2>1 DEF DueUnsent, Armed
  <2> QED BY <1>0, <1>3, <2>1, <2>2, <2>3, GrantTaken
<1>4. CASE /\ AcquireFinalSendAuthorization(h)
           /\ attempt' = [attempt EXCEPT ![h].status = "skipped"]
           /\ UNCHANGED <<grant, worker>>
  <2>1. attempt[h] # None /\ UNCHANGED <<delivery, favourite, crossed>>
    BY <1>4 DEF AcquireFinalSendAuthorization, At
  <2>2. RowTypes' /\ Due' \subseteq Due
    BY <1>0, <1>4, <2>1, AttemptMoves DEF Attempts
  <2> QED BY <1>4, <2>1, <2>2, RowsMove
<1>5. CASE RecoverExpiredSendLease(h)
  <2>1. RowTypes' /\ Due' \subseteq Due
    BY <1>0, <1>5, AttemptMoves DEF RecoverExpiredSendLease, At, Attempts
  <2> QED BY <1>5, <2>1, RowsMove DEF RecoverExpiredSendLease
<1>6. CASE FinalizeProviderOutcome(h)
  <2>1. FinalStatus(worker[h].step) \in Attempts \ {"reserved"}
    BY <1>6 DEF FinalizeProviderOutcome, FinalStatus, Outcomes, Attempts
  <2>2. RowTypes' /\ Due' \subseteq Due
    <3>1. CASE At(h, "sending")
      BY <1>0, <1>6, <2>1, <3>1, AttemptMoves DEF FinalizeProviderOutcome, At
    <3>2. CASE ~At(h, "sending")
      BY <1>0, <1>6, <3>2 DEF FinalizeProviderOutcome, RowTypes, Due, Is, At
    <3> QED BY <3>1, <3>2
  <2>3. h \in Due' => crossed[h] = 0
    BY <1>0, <2>2 DEF DueUnsent
  <2> QED BY <1>0, <1>6, <2>2, <2>3, WorkerLeaves DEF FinalizeProviderOutcome
<1>7. CASE ClaimProviderAttempt(h) /\ worker' = [worker EXCEPT ![h] = Idle]
  <2>1. RowTypes' /\ Due' \subseteq Due
    <3>1. ASSUME NEW s \in {"sending", "failedBeforeSend", "skipped"}, attempt[h] # None,
                 attempt' = [attempt EXCEPT ![h].status = s]
          PROVE  RowTypes' /\ Due' \subseteq Due
      BY <1>0, <1>7, <3>1, AttemptMoves DEF ClaimProviderAttempt, Attempts
    <3>2. CASE attempt' = attempt
      BY <1>0, <1>7, <3>2 DEF ClaimProviderAttempt, RowTypes, Due, Is, At
    <3> QED BY <1>7, <3>1, <3>2 DEF ClaimProviderAttempt, ClaimableAttempt, At
  <2>2. h \in Due' => crossed[h] = 0
    BY <1>0, <2>1 DEF DueUnsent
  <2> QED BY <1>0, <1>7, <2>1, <2>2, WorkerLeaves DEF ClaimProviderAttempt
<1>8. CASE /\ ClaimProviderAttempt(h) /\ ClaimableAttempt(h)
           /\ attempt' = [attempt EXCEPT ![h].status = "sending"]
           /\ worker' = [worker EXCEPT ![h].step = "calling"]
  <2>1. worker[h].step = "claimed" /\ UNCHANGED <<delivery, grant, favourite, crossed>>
    BY <1>8 DEF ClaimProviderAttempt
  <2>2. RowTypes' /\ Due' \subseteq Due
    BY <1>0, <1>8, <2>1, AttemptMoves DEF ClaimableAttempt, At, Attempts
  <2>3. h \notin Due
    BY <1>0, <2>1 DEF DueUnsent
  <2>4. /\ \A y \in Messages \ {h} : worker'[y] = worker[y]
        /\ worker'[h].step = "calling" /\ worker'[h].grant = worker[h].grant
        /\ worker' \in [Messages -> WorkerRows]
    BY <1>0, <1>8 DEF WorkTypes, WorkerRows
  <2>5. WorkTypes' /\ MessageOnce'
    BY <1>0, <2>1, <2>4 DEF WorkInv, WorkTypes, MessageOnce
  <2>6. UncrossedBefore'
    BY <1>0, <2>1, <2>4 DEF WorkInv, UncrossedBefore, Unsent, Outcomes
  <2>7. GrantsHeldOnce'
    <3>1. \A y \in Messages : worker'[y].grant = worker[y].grant
      BY <2>4
    <3> QED BY <1>0, <2>1, <3>1 DEF WorkInv, GrantsHeldOnce
  <2>8. DueUnsent'
    BY <1>0, <2>1, <2>2, <2>3, <2>4, Names DEF DueUnsent
  <2> QED BY <2>2, <2>5, <2>6, <2>7, <2>8, DeliveryParts DEF WorkInv
<1> QED BY <1>2, <1>3, <1>4, <1>5, <1>6, <1>7, <1>8
    DEF AcquireFinalSendAuthorization, ClaimProviderAttempt

LEMMA UserKeepsDelivery ==
    ASSUME DeliveryInv,
           \/ SaveFavourite \/ DisarmReminder \/ RemoveFavourite
           \/ \E g \in ReminderGrants : ArmReminder(g)
           \/ \E g \in Grants : RecordGrant(g)
    PROVE  DeliveryInv'
<1>0. WorkTypes /\ RowTypes
    BY DeliveryParts DEF WorkInv
<1>1. CASE SaveFavourite \/ DisarmReminder \/ \E g \in ReminderGrants : ArmReminder(g)
  <2>1. RowTypes' /\ UNCHANGED <<delivery, grant, attempt, worker, crossed>>
    BY <1>0, <1>1 DEF SaveFavourite, DisarmReminder, ArmReminder, RowTypes
  <2>2. Due' = Due
    BY <2>1 DEF Due, Is, At
  <2> QED BY <2>1, <2>2, RowsMove
<1>2. CASE RemoveFavourite
  <2>1. RowTypes' /\ Due' \subseteq Due
    BY <1>0, <1>2, AttemptsErased DEF RemoveFavourite
  <2> QED BY <1>2, <2>1, RowsMove DEF RemoveFavourite
<1>3. CASE \E g \in Grants : RecordGrant(g)
  <2>1. /\ grant' \in [Grants -> GrantRows \cup {None}]
        /\ \A f \in Grants : grant'[f] \in {"free", None} => grant[f] \in {"free", None}
    BY <1>0, <1>3 DEF RecordGrant, WorkTypes, GrantRows
  <2>2. RowTypes' /\ Due' = Due
    BY <1>0, <1>3 DEF RecordGrant, RowTypes, Due, Is, At
  <2> QED BY <1>3, <2>1, <2>2, GrantsChange DEF RecordGrant
<1> QED BY <1>1, <1>2, <1>3

LEMMA CrashKeepsDelivery ==
    ASSUME DeliveryInv, NEW x \in Messages, Crash(x)
    PROVE  DeliveryInv'
<1>1. RowTypes' /\ Due' = Due
    BY DeliveryParts DEF Crash, RowTypes, Due, Is, At
<1>2. x \in Due => crossed[x] = 0
    BY DeliveryParts DEF DueUnsent
<1> QED BY <1>1, <1>2, WorkerLeaves DEF Crash

LEMMA ExecutionKeepsDelivery ==
    ASSUME DeliveryInv, Execute
    PROVE  DeliveryInv'
<1>0. WorkTypes /\ RowTypes
    BY DeliveryParts DEF WorkInv
<1>1. CASE EraseDeliveries \/ EraseNotifications
  <2>1. RowTypes' /\ Due' \subseteq Due /\ UNCHANGED <<grant, worker, crossed>>
    BY <1>0, <1>1, DeliveriesErased DEF EraseDeliveries, EraseNotifications
  <2> QED BY <2>1, RowsMove
<1>2. CASE EraseFavourites
  <2>1. RowTypes' /\ Due' \subseteq Due
    BY <1>0, <1>2, AttemptsErased DEF EraseFavourites
  <2> QED BY <1>2, <2>1, RowsMove DEF EraseFavourites
<1>3. CASE EraseGrants
  <2>1. /\ grant' \in [Grants -> GrantRows \cup {None}]
        /\ \A g \in Grants : grant'[g] \in {"free", None} => grant[g] \in {"free", None}
    BY <1>0, <1>3, DeliveryAssumption DEF EraseGrants, GrantRows
  <2>2. RowTypes' /\ Due' \subseteq Due
    BY <1>0, <1>3, AttemptsErased DEF EraseGrants, RowTypes
  <2> QED BY <1>3, <2>1, <2>2, GrantsChange DEF EraseGrants
<1>4. CASE UNCHANGED deliveryVars
  <2>1. RowTypes' /\ Due' = Due
    BY <1>0, <1>4 DEF deliveryVars, RowTypes, Due, Is, At
  <2> QED BY <1>4, <2>1, RowsMove DEF deliveryVars
<1> QED BY <1>1, <1>2, <1>3, <1>4
    DEF Execute, ExecutionSteps, FailureSteps, ClaimExecution, EraseSessions, EraseIdentity,
        SnapshotRetained, RecordFailure, RetryDeletionExecution

LEMMA DeliveryKept ==
    ASSUME DeliveryInv, [Next]_vars
    PROVE  DeliveryInv'
<1>1. CASE UNCHANGED deliveryVars
  <2>1. RowTypes' /\ Due' = Due
    BY <1>1, DeliveryParts DEF deliveryVars, RowTypes, Due, Is, At
  <2> QED BY <1>1, <2>1, RowsMove DEF deliveryVars
<1>2. CASE OrderSteps
    BY <1>1, <1>2, NotificationsKeepDelivery DEF OrderSteps, Notified
<1>3. CASE NotificationSteps
    BY <1>3, UserKeepsDelivery, NotificationsKeepDelivery, CallCrosses, CrashKeepsDelivery, Names
    DEF NotificationSteps
<1>4. CASE ReminderSteps
    BY <1>4, UserKeepsDelivery, RemindersKeepDelivery, CallCrosses, CrashKeepsDelivery, Names
    DEF ReminderSteps
<1>5. CASE SanctionSteps \/ RequestSteps \/ Approve \/ EnterSteps \/ Complete \/ Retain
             \/ UNCHANGED vars
    BY <1>1, <1>5 DEF SanctionSteps, RequestSteps, Approve, EnterSteps, Complete,
        FinalizeDeletionExecution, Retain, vars
<1> QED BY <1>2, <1>3, <1>4, <1>5, ExecutionKeepsDelivery DEF Next, MessageSteps

-----------------------------------------------------------------------------
(* The retention records, the files and the holds *)

PhaseNames == {"media", "content", "verify", "done"}

LEMMA RetentionStarts == ASSUME ErasureInit PROVE RetentionInv
<1> USE DEF ErasureInit, RetentionInit
<1>1. NewRecord \in RecordRows /\ NewRecord.content = Batches /\ Batches > 0
    BY RetentionAssumption DEF NewRecord, RecordRows
<1>2. NewMedia \in MediaRows
    BY DEF NewMedia, MediaRows
<1>3. kept \in [Records -> [content : 0..Batches, media : SUBSET Media]]
    BY RetentionAssumption
<1>4. RetentionTypeOK
    BY <1>1, <1>2, <1>3 DEF RetentionTypeOK
<1>5. ContentLeft
    BY <1>1 DEF ContentLeft, Exists
<1>6. HeldUnclaimed /\ NothingErasedUnderHold
    BY DEF HeldUnclaimed, NothingErasedUnderHold, Barrier
<1>7. AskedUnderRecord /\ GoneIsGone
    BY DEF AskedUnderRecord, GoneIsGone, NewMedia
<1>8. FilesGoWithRows
    BY <1>2, RetentionAssumption DEF FilesGoWithRows
<1> QED BY <1>4, <1>5, <1>6, <1>7, <1>8 DEF RetentionInv

\* A step on one record: it keeps its claim, and its content as long as it is
\* under a hold that was there before.
LEMMA RecordSteps ==
    ASSUME RetentionInv, NEW r \in Records, record[r] # None,
           NEW row \in RecordRows, record' = [record EXCEPT ![r] = row],
           row.claimed = record[r].claimed,
           row.phase \in {"media", "content"} => row.content > 0,
           Barrier(r)' => row.content = record[r].content,
           UNCHANGED <<placement, hold, release, kept, files>>
    PROVE  RetentionInv'
<1>1. RetentionTypeOK'
    BY DEF RetentionInv, RetentionTypeOK, files
<1>2. /\ \A q \in Records \ {r} : record'[q] = record[q]
      /\ record'[r] = row /\ row # None
    BY RetentionAssumption DEF RetentionInv, RetentionTypeOK
<1>3. ContentLeft'
    BY <1>2 DEF RetentionInv, ContentLeft, Exists
<1>4. AskedUnderRecord'
    BY <1>2, RetentionAssumption DEF RetentionInv, AskedUnderRecord, ClaimedUnder, Exists, files, RetentionTypeOK, MediaRows
<1>5. HeldUnclaimed' /\ NothingErasedUnderHold'
    BY <1>2 DEF RetentionInv, HeldUnclaimed, NothingErasedUnderHold, Barrier, Exists, Scope, files
<1>6. GoneIsGone' /\ FilesGoWithRows'
    BY DEF RetentionInv, GoneIsGone, FilesGoWithRows, files
<1> QED BY <1>1, <1>3, <1>4, <1>5, <1>6 DEF RetentionInv

Moved(row, phase) == [row EXCEPT !.leased = FALSE, !.phase = phase]

Reduced(row, content, phase) == [row EXCEPT !.leased = FALSE, !.content = content, !.phase = phase]

LEMMA RowMoves ==
    ASSUME NEW row \in RecordRows, NEW phase \in PhaseNames
    PROVE  /\ Moved(row, phase) \in RecordRows
           /\ Moved(row, phase).claimed = row.claimed
           /\ Moved(row, phase).content = row.content
           /\ Moved(row, phase).phase = phase
<1>1. Moved(row, phase) \in RecordRows
    BY DEF RecordRows, PhaseNames, Moved
<1>2. /\ Moved(row, phase).claimed = row.claimed
      /\ Moved(row, phase).content = row.content
      /\ Moved(row, phase).phase = phase
    BY DEF RecordRows, Moved
<1> QED BY <1>1, <1>2

LEMMA RowReduces ==
    ASSUME NEW row \in RecordRows, NEW phase \in PhaseNames, NEW content \in 0..Batches
    PROVE  /\ Reduced(row, content, phase) \in RecordRows
           /\ Reduced(row, content, phase).claimed = row.claimed
           /\ Reduced(row, content, phase).content = content
           /\ Reduced(row, content, phase).phase = phase
<1>1. Reduced(row, content, phase) \in RecordRows
    BY DEF RecordRows, PhaseNames, Reduced
<1>2. /\ Reduced(row, content, phase).claimed = row.claimed
      /\ Reduced(row, content, phase).content = content
      /\ Reduced(row, content, phase).phase = phase
    BY DEF RecordRows, Reduced
<1> QED BY <1>1, <1>2

\* Whatever the expiry of a record erases, it erases while no hold is there.
LEMMA ExpiryKeeps ==
    ASSUME RetentionInv, NEW r \in Records,
           \/ Elapse(r) \/ ClaimRecord(r) \/ LoseRecord(r) \/ WaitForStorage(r)
           \/ EraseContent(r) \/ VerifyExpired(r)
    PROVE  RetentionInv'
<1>1. /\ record[r] # None /\ record[r] \in RecordRows
      /\ UNCHANGED <<placement, hold, release, kept, files>>
    BY DEF Elapse, ClaimRecord, LoseRecord, WaitForStorage, EraseContent, VerifyExpired, Processing,
        Open, Exists, holds, RetentionInv, RetentionTypeOK
<1>2. \A due, leased \in BOOLEAN :
        /\ [record[r] EXCEPT !.due = due] \in RecordRows
        /\ [record[r] EXCEPT !.leased = leased] \in RecordRows
        /\ [record[r] EXCEPT !.leased = leased, !.phase = "done"] \in RecordRows
    BY <1>1 DEF RecordRows
<1>3. record[r].phase \in {"media", "content"} => record[r].content > 0
    BY <1>1 DEF RetentionInv, ContentLeft, Exists
<1>4. CASE Elapse(r)
  <2> DEFINE row == [record[r] EXCEPT !.due = TRUE]
  <2>1. /\ record' = [record EXCEPT ![r] = row] /\ row \in RecordRows
        /\ row.claimed = record[r].claimed /\ row.content = record[r].content
        /\ row.phase = record[r].phase
    BY <1>1, <1>2, <1>4 DEF Elapse, RecordRows
  <2> HIDE DEF row
  <2> QED BY <1>1, <1>3, <2>1, RecordSteps
<1>5. ASSUME NEW leased \in BOOLEAN, record' = [record EXCEPT ![r].leased = leased]
      PROVE  RetentionInv'
  <2> DEFINE row == [record[r] EXCEPT !.leased = leased]
  <2>1. /\ record' = [record EXCEPT ![r] = row] /\ row \in RecordRows
        /\ row.claimed = record[r].claimed /\ row.content = record[r].content
        /\ row.phase = record[r].phase
    BY <1>1, <1>2, <1>5 DEF RecordRows
  <2> HIDE DEF row
  <2> QED BY <1>1, <1>3, <2>1, RecordSteps
<1>6. CASE VerifyExpired(r)
  <2> DEFINE row == Moved(record[r], "done")
  <2>1. record' = [record EXCEPT ![r] = row]
    BY <1>6 DEF VerifyExpired, Moved
  <2>2. /\ row \in RecordRows /\ row.claimed = record[r].claimed
        /\ row.content = record[r].content /\ row.phase = "done"
    BY <1>1, RowMoves DEF PhaseNames
  <2> HIDE DEF row
  <2> QED BY <1>1, <2>1, <2>2, RecordSteps
<1>7. CASE EraseContent(r)
  <2> DEFINE phase == IF record[r].content = 1 THEN "verify" ELSE "content"
             row == Reduced(record[r], record[r].content - 1, phase)
  <2>1. /\ record' = [record EXCEPT ![r] = row] /\ ~Barrier(r) /\ record[r].phase = "content"
    BY <1>7 DEF EraseContent, Processing, Reduced
  <2>2. /\ record[r].content \in 1..Batches /\ Batches \in Nat
        /\ phase \in {"verify", "content"}
    BY <1>1, <1>3, <2>1, RetentionAssumption DEF RecordRows
  <2>3. /\ row \in RecordRows /\ row.claimed = record[r].claimed
        /\ row.content = record[r].content - 1 /\ row.phase = phase
    <3>1. record[r].content - 1 \in 0..Batches /\ phase \in PhaseNames
      BY <2>2 DEF PhaseNames
    <3> HIDE DEF phase
    <3> QED BY <1>1, <3>1, RowReduces
  <2>4. row.phase \in {"media", "content"} => row.content > 0
    BY <2>2, <2>3
  <2>5. ~Barrier(r)'
    BY <1>1, <2>1 DEF Barrier
  <2> HIDE DEF row
  <2> QED BY <1>1, <2>1, <2>3, <2>4, <2>5, RecordSteps
<1> QED BY <1>4, <1>5, <1>6, <1>7 DEF ClaimRecord, LoseRecord, WaitForStorage

\* A file that may be on its way out is covered by no hold.
LEMMA ClaimedUnheld ==
    ASSUME RetentionInv, NEW m \in Media, media[m] # None, ClaimedUnder(m), NEW r \in Records, Barrier(r)
    PROVE  m \notin Scope(r)
BY DEF RetentionInv, HeldUnclaimed, ClaimedUnder, Scope

\* A step on one file under a record that says it is on its way out.
LEMMA FileSteps ==
    ASSUME RetentionInv, NEW m \in Media, media[m] # None, ClaimedUnder(m),
           NEW row \in MediaRows, media' = [media EXCEPT ![m] = row],
           row.bound = media[m].bound,
           stored' \in {stored, stored \ {m}}, stray' \in {stray, stray \cup {m}},
           row.call = "gone" \/ row.deleted => m \notin stored',
           UNCHANGED <<record, holds>>
    PROVE  RetentionInv'
<1>1. /\ \A x \in Media \ {m} : media'[x] = media[x]
      /\ media'[m] = row /\ row # None
    BY RetentionAssumption DEF RetentionInv, RetentionTypeOK
<1>2. RetentionTypeOK' /\ ContentLeft'
    BY DEF RetentionInv, RetentionTypeOK, ContentLeft, Exists, holds
<1>3. AskedUnderRecord'
    BY <1>1 DEF RetentionInv, AskedUnderRecord, ClaimedUnder, Exists
<1>4. HeldUnclaimed'
    BY DEF RetentionInv, HeldUnclaimed, Barrier, Exists, holds
<1>5. NothingErasedUnderHold'
  <2> SUFFICES ASSUME NEW r \in Records, Barrier(r)
               PROVE  /\ record[r].content = kept[r].content
                      /\ kept[r].media \cap Scope(r)' \subseteq stored'
      BY DEF NothingErasedUnderHold, Barrier, holds
  <2>1. m \notin Scope(r)
    BY ClaimedUnheld
  <2>2. Scope(r)' = Scope(r)
    BY <1>1 DEF Scope
  <2> QED BY <2>1, <2>2 DEF RetentionInv, NothingErasedUnderHold
<1>6. GoneIsGone' /\ FilesGoWithRows'
    BY <1>1 DEF RetentionInv, GoneIsGone, FilesGoWithRows
<1> QED BY <1>2, <1>3, <1>4, <1>5, <1>6 DEF RetentionInv

LEMMA StorageKeeps ==
    ASSUME RetentionInv, NEW m \in Media,
           \/ StorageDeletes(m) \/ StorageFails(m) \/ RecordDeletion(m) \/ RecordUnknown(m)
           \/ MediaCrash(m)
    PROVE  RetentionInv'
<1>1. /\ media[m] # None /\ media[m] \in MediaRows /\ media[m].call # "none"
      /\ UNCHANGED <<record, holds>>
    BY DEF StorageDeletes, StorageFails, RecordDeletion, RecordUnknown, MediaCrash, Calling,
        RetentionInv, RetentionTypeOK
<1>2. ClaimedUnder(m)
    BY <1>1 DEF RetentionInv, AskedUnderRecord
<1>3. media[m].call = "gone" \/ media[m].deleted => m \notin stored
    BY <1>1 DEF RetentionInv, GoneIsGone
<1>4. ASSUME NEW call \in {"none", "gone", "failed"}, media' = [media EXCEPT ![m].call = call],
             stored' \in {stored, stored \ {m}}, stray' \in {stray, stray \cup {m}},
             call = "gone" => m \notin stored'
      PROVE  RetentionInv'
  <2> DEFINE row == [media[m] EXCEPT !.call = call]
  <2>1. row \in MediaRows
    BY <1>1 DEF MediaRows
  <2>2. row.bound = media[m].bound /\ row.deleted = media[m].deleted /\ row.call = call
    BY <1>1 DEF MediaRows
  <2>3. media' = [media EXCEPT ![m] = row]
    BY <1>4
  <2>4. row.call = "gone" \/ row.deleted => m \notin stored'
    BY <1>3, <1>4, <2>2
  <2> HIDE DEF row
  <2> QED BY <1>1, <1>2, <1>4, <2>1, <2>2, <2>3, <2>4, FileSteps
<1>5. CASE StorageDeletes(m)
    BY <1>4, <1>5 DEF StorageDeletes
<1>6. CASE StorageFails(m)
    BY <1>4, <1>6 DEF StorageFails
<1>7. CASE MediaCrash(m)
    BY <1>4, <1>7 DEF MediaCrash
<1>8. CASE RecordDeletion(m)
  <2> DEFINE row == [media[m] EXCEPT !.deleted = TRUE, !.unknown = FALSE, !.leased = FALSE, !.call = "none"]
  <2>1. row \in MediaRows
    BY <1>1 DEF MediaRows
  <2>2. row.bound = media[m].bound
    BY <1>1 DEF MediaRows
  <2>3. media' = [media EXCEPT ![m] = row] /\ stored' = stored /\ stray' = stray /\ m \notin stored
    BY <1>3, <1>8 DEF RecordDeletion
  <2> HIDE DEF row
  <2> QED BY <1>1, <1>2, <2>1, <2>2, <2>3, FileSteps
<1>9. CASE RecordUnknown(m)
  <2> DEFINE row == [media[m] EXCEPT !.unknown = TRUE, !.leased = FALSE, !.call = "none"]
  <2>1. row \in MediaRows
    BY <1>1 DEF MediaRows
  <2>2. row.bound = media[m].bound /\ row.deleted = media[m].deleted /\ row.call = "none"
    BY <1>1 DEF MediaRows
  <2>3. media' = [media EXCEPT ![m] = row] /\ stored' = stored /\ stray' = stray
    BY <1>9 DEF RecordUnknown
  <2>4. row.call = "gone" \/ row.deleted => m \notin stored'
    BY <1>3, <2>2, <2>3
  <2> HIDE DEF row
  <2> QED BY <1>1, <1>2, <2>1, <2>2, <2>3, <2>4, FileSteps
<1> QED BY <1>5, <1>6, <1>7, <1>8, <1>9

\* A call nobody waits for any more arrives: the file's row may be gone by then.
LEMMA LateDeleteKeeps ==
    ASSUME RetentionInv, NEW m \in Media, StorageDeletesLate(m)
    PROVE  RetentionInv'
<1> USE DEF StorageDeletesLate
<1>1. RetentionTypeOK' /\ ContentLeft'
    BY DEF RetentionInv, RetentionTypeOK, ContentLeft, Exists, holds
<1>2. AskedUnderRecord' /\ HeldUnclaimed'
    BY DEF RetentionInv, AskedUnderRecord, ClaimedUnder, HeldUnclaimed, Barrier, Exists, holds
<1>3. NothingErasedUnderHold'
  <2> SUFFICES ASSUME NEW r \in Records, Barrier(r)
               PROVE  /\ record[r].content = kept[r].content
                      /\ kept[r].media \cap Scope(r) \subseteq stored \ {m}
      BY DEF NothingErasedUnderHold, Barrier, Scope, holds
  <2>1. m \notin Scope(r)
    <3>1. media[m] # None => ClaimedUnder(m)
      BY DEF RetentionInv, AskedUnderRecord
    <3> QED BY <3>1, ClaimedUnheld DEF Scope
  <2> QED BY <2>1 DEF RetentionInv, NothingErasedUnderHold
<1>4. GoneIsGone' /\ FilesGoWithRows'
    BY DEF RetentionInv, GoneIsGone, FilesGoWithRows
<1> QED BY <1>1, <1>2, <1>3, <1>4 DEF RetentionInv

\* A file is claimed under a record that has no hold, and the record remembers it.
LEMMA ClaimKeeps ==
    ASSUME RetentionInv, NEW m \in Media, ClaimMedia(m)
    PROVE  RetentionInv'
<1> DEFINE q == DeletedUnder(m)
           row == [media[m] EXCEPT !.bound = q, !.leased = TRUE, !.call = "calling"]
<1>1. /\ media[m] # None /\ media[m] \in MediaRows /\ ~media[m].deleted
      /\ q \in Records /\ record[q] # None /\ record[q] \in RecordRows /\ ~Barrier(q)
    BY RetentionAssumption DEF ClaimMedia, ClaimableMedia, Open, Exists, RetentionInv,
        RetentionTypeOK, DeletedUnder, MediaRows
<1>2. /\ media' = [media EXCEPT ![m] = row]
      /\ record' = [record EXCEPT ![q].claimed = TRUE]
      /\ stray' \in {stray, stray \cup {m}} /\ UNCHANGED <<holds, stored>>
    BY DEF ClaimMedia
<1>3. row \in MediaRows
    BY <1>1 DEF MediaRows
<1>4. row.bound = q /\ ~row.deleted /\ row.call = "calling"
    BY <1>1 DEF MediaRows
<1>5. /\ [record[q] EXCEPT !.claimed = TRUE] \in RecordRows
      /\ [record[q] EXCEPT !.claimed = TRUE].claimed
      /\ [record[q] EXCEPT !.claimed = TRUE].content = record[q].content
      /\ [record[q] EXCEPT !.claimed = TRUE].phase = record[q].phase
    BY <1>1 DEF RecordRows
<1> HIDE DEF row
<1>6. /\ \A x \in Media \ {m} : media'[x] = media[x]
      /\ media'[m] = row /\ row # None
    BY <1>2, <1>3, RetentionAssumption DEF RetentionInv, RetentionTypeOK
<1>7. /\ \A r \in Records \ {q} : record'[r] = record[r]
      /\ record'[q] \in RecordRows /\ record'[q] # None /\ record'[q].claimed
      /\ record'[q].content = record[q].content /\ record'[q].phase = record[q].phase
    BY <1>1, <1>2, <1>5, RetentionAssumption DEF RetentionInv, RetentionTypeOK
<1> HIDE DEF q
<1>8. RetentionTypeOK'
    BY <1>1, <1>2, <1>3, <1>5 DEF RetentionInv, RetentionTypeOK, holds
<1>9. ContentLeft'
    BY <1>1, <1>7 DEF RetentionInv, ContentLeft, Exists
<1>10. AskedUnderRecord'
  <2> SUFFICES ASSUME NEW x \in Media, media'[x] # None,
                      media'[x].call # "none" \/ media'[x].leased \/ x \in stray'
               PROVE  ClaimedUnder(x)'
      BY DEF AskedUnderRecord
  <2>1. CASE x = m
    BY <1>1, <1>4, <1>6, <1>7, <2>1, RetentionAssumption DEF ClaimedUnder, Exists
  <2>2. CASE x # m
    <3>1. ClaimedUnder(x) /\ media'[x] = media[x] /\ media[x] \in MediaRows
      BY <1>2, <1>6, <2>2 DEF RetentionInv, AskedUnderRecord, RetentionTypeOK
    <3>2. media[x].bound \in Records
      BY <3>1 DEF ClaimedUnder, MediaRows
    <3> QED BY <1>7, <3>1, <3>2 DEF ClaimedUnder, Exists
  <2> QED BY <2>1, <2>2
<1>11. \A r \in Records : Barrier(r)' => Barrier(r) /\ r # q
    BY <1>1, <1>2 DEF Barrier, holds
<1>12. HeldUnclaimed'
    BY <1>7, <1>11 DEF RetentionInv, HeldUnclaimed, Exists
<1>13. NothingErasedUnderHold'
  <2> SUFFICES ASSUME NEW r \in Records, Barrier(r), r # q
               PROVE  /\ record'[r].content = kept'[r].content
                      /\ kept'[r].media \cap Scope(r)' \subseteq stored'
      BY <1>11 DEF NothingErasedUnderHold
  <2>1. Scope(r)' \subseteq Scope(r)
    <3>1. m \notin Scope(r)'
      BY <1>1, <1>4, <1>6, RetentionAssumption DEF Scope
    <3> QED BY <1>6, <3>1 DEF Scope
  <2> QED BY <1>2, <1>7, <2>1 DEF RetentionInv, NothingErasedUnderHold, holds
<1>14. GoneIsGone' /\ FilesGoWithRows'
    BY <1>2, <1>4, <1>6 DEF RetentionInv, GoneIsGone, FilesGoWithRows
<1> QED BY <1>8, <1>9, <1>10, <1>12, <1>13, <1>14 DEF RetentionInv

\* The lease of a record ends: nothing else of the records changes.
RecordsKeep ==
    /\ record' \in [Records -> RecordRows \cup {None}]
    /\ \A q \in Records :
        /\ Exists(q)' <=> Exists(q)
        /\ Exists(q) => /\ record'[q].claimed = record[q].claimed
                        /\ record'[q].content = record[q].content
                        /\ record'[q].phase = record[q].phase

LEMMA LeaseEnds ==
    ASSUME RetentionInv, NEW r \in Records, Exists(r),
           record' = [record EXCEPT ![r].leased = FALSE]
    PROVE  RecordsKeep
<1> DEFINE row == [record[r] EXCEPT !.leased = FALSE]
<1>1. record[r] \in RecordRows
    BY DEF Exists, RetentionInv, RetentionTypeOK
<1>2. /\ row \in RecordRows /\ row.claimed = record[r].claimed
      /\ row.content = record[r].content /\ row.phase = record[r].phase
    BY <1>1 DEF RecordRows
<1> HIDE DEF row
<1>3. record' = [record EXCEPT ![r] = row]
    BY DEF row
<1>4. record \in [Records -> RecordRows \cup {None}] /\ row # None
    BY <1>2, RetentionAssumption DEF RetentionInv, RetentionTypeOK
<1>5. record' \in [Records -> RecordRows \cup {None}]
    BY <1>2, <1>3, <1>4
<1>6. record'[r] = row /\ \A q \in Records \ {r} : record'[q] = record[q]
    BY <1>3, <1>4
<1> QED BY <1>2, <1>4, <1>5, <1>6 DEF RecordsKeep, Exists

\* The decisions on a hold, after which a barrier stands only where one stood.
LEMMA HoldSteps ==
    ASSUME RetentionInv, RecordsKeep, UNCHANGED <<kept, files>>,
           placement' \in [Records -> Admins \cup {None}], hold' \in [Records -> BOOLEAN],
           release' \in [Records -> Admins \cup {None}],
           \A q \in Records : Barrier(q)' => Barrier(q)
    PROVE  RetentionInv'
<1>1. RetentionTypeOK'
    BY DEF RetentionInv, RetentionTypeOK, RecordsKeep, files
<1>2. ContentLeft'
    BY DEF RetentionInv, ContentLeft, RecordsKeep
<1>3. AskedUnderRecord'
    BY DEF RetentionInv, RetentionTypeOK, MediaRows, AskedUnderRecord, ClaimedUnder, RecordsKeep, files
<1>4. HeldUnclaimed'
    BY DEF RetentionInv, HeldUnclaimed, RecordsKeep
<1>5. NothingErasedUnderHold'
  <2>1. \A q \in Records : Scope(q)' = Scope(q)
    BY DEF Scope, files
  <2> QED BY <2>1 DEF RetentionInv, NothingErasedUnderHold, HeldUnclaimed, RecordsKeep, files
<1>6. GoneIsGone' /\ FilesGoWithRows'
    BY DEF RetentionInv, GoneIsGone, FilesGoWithRows, files
<1> QED BY <1>1, <1>2, <1>3, <1>4, <1>5, <1>6 DEF RetentionInv

LEMMA DecisionsKeep ==
    ASSUME RetentionInv, NEW s \in Admins, NEW r \in Records,
           \/ ApprovePlacement(s, r) \/ RejectPlacement(s, r)
           \/ RequestRelease(s, r) \/ ApproveRelease(s, r) \/ RejectRelease(s, r)
    PROVE  RetentionInv'
<1>1. /\ placement' \in [Records -> Admins \cup {None}] /\ hold' \in [Records -> BOOLEAN]
      /\ release' \in [Records -> Admins \cup {None}] /\ UNCHANGED <<kept, files>>
    BY DEF ApprovePlacement, RejectPlacement, RequestRelease, ApproveRelease, RejectRelease,
        RetentionInv, RetentionTypeOK
<1>2. \A q \in Records : Barrier(q)' => Barrier(q)
    BY DEF ApprovePlacement, RejectPlacement, RequestRelease, ApproveRelease, RejectRelease,
        Barrier, RetentionInv, RetentionTypeOK
<1>3. RecordsKeep
  <2>1. CASE record' = record
    BY <2>1 DEF RecordsKeep, Exists, RetentionInv, RetentionTypeOK
  <2>2. CASE RejectPlacement(s, r) \/ ApproveRelease(s, r)
    <3>1. Exists(r)
      BY <2>2 DEF RejectPlacement, ApproveRelease, Barrier, RetentionInv, HeldUnclaimed
    <3> QED BY <2>2, <3>1, LeaseEnds DEF RejectPlacement, ApproveRelease
  <2> QED BY <2>1, <2>2 DEF ApprovePlacement, RequestRelease, RejectRelease
<1> QED BY <1>1, <1>2, <1>3, HoldSteps

\* A hold is requested: what it covers is noted while nothing is on its way out.
LEMMA RequestKeeps ==
    ASSUME RetentionInv, NEW s \in Admins, NEW r \in Records, RequestPlacement(s, r)
    PROVE  RetentionInv'
<1> DEFINE note == [content |-> record[r].content, media |-> Scope(r) \cap stored]
<1>1. /\ Exists(r) /\ ~record[r].claimed /\ record[r] \in RecordRows
      /\ UNCHANGED <<hold, release, files>>
      /\ placement' = [placement EXCEPT ![r] = s] /\ kept' = [kept EXCEPT ![r] = note]
    BY DEF RequestPlacement, Preservable, Open, Exists, RetentionInv, RetentionTypeOK
<1>2. RecordsKeep
    BY <1>1, LeaseEnds DEF RequestPlacement
<1>3. \A q \in Records : Scope(q)' = Scope(q)
    BY <1>1 DEF Scope, files
<1>4. note \in [content : 0..Batches, media : SUBSET Media]
    BY <1>1 DEF RecordRows, Scope
<1>5. RetentionTypeOK'
    BY <1>1, <1>2, <1>4 DEF RetentionInv, RetentionTypeOK, RecordsKeep, files
<1>6. ContentLeft'
    BY <1>2 DEF RetentionInv, ContentLeft, RecordsKeep
<1>7. AskedUnderRecord'
    BY <1>1, <1>2 DEF RetentionInv, RetentionTypeOK, MediaRows, AskedUnderRecord, ClaimedUnder,
        RecordsKeep, files
<1>8. \A q \in Records \ {r} : Barrier(q)' => Barrier(q)
    BY <1>1 DEF Barrier, RetentionInv, RetentionTypeOK
<1>9. HeldUnclaimed'
    BY <1>1, <1>2, <1>8 DEF RetentionInv, HeldUnclaimed, RecordsKeep
<1>10. NothingErasedUnderHold'
  <2> SUFFICES ASSUME NEW q \in Records, Barrier(q)'
               PROVE  /\ record'[q].content = kept'[q].content
                      /\ kept'[q].media \cap Scope(q)' \subseteq stored'
      BY DEF NothingErasedUnderHold
  <2>1. CASE q = r
    <3>1. kept'[r] = note
      BY <1>1 DEF RetentionInv, RetentionTypeOK
    <3> QED BY <1>1, <1>2, <2>1, <3>1 DEF RecordsKeep, files
  <2>2. CASE q # r
    <3>1. Barrier(q) /\ Exists(q) /\ kept'[q] = kept[q]
      BY <1>1, <1>8, <2>2 DEF RetentionInv, HeldUnclaimed, RetentionTypeOK
    <3> QED BY <1>1, <1>2, <1>3, <3>1 DEF RetentionInv, NothingErasedUnderHold, RecordsKeep, files
  <2> QED BY <2>1, <2>2
<1>11. GoneIsGone' /\ FilesGoWithRows'
    BY <1>1 DEF RetentionInv, GoneIsGone, FilesGoWithRows, files
<1> QED BY <1>5, <1>6, <1>7, <1>9, <1>10, <1>11 DEF RetentionInv

\* Files nobody deletes yet are bound to the record that expires.
LEMMA ScheduleKeeps ==
    ASSUME RetentionInv, NEW r \in Records, ScheduleMedia(r)
    PROVE  RetentionInv'
<1> DEFINE U == Unscheduled(r)
<1>1. /\ Exists(r) /\ ~Barrier(r) /\ UNCHANGED <<holds, stored, stray>>
      /\ media' = [m \in Media |-> IF m \in U THEN [media[m] EXCEPT !.bound = r] ELSE media[m]]
    BY DEF ScheduleMedia, Processing, Open
<1>2. RecordsKeep
    BY <1>1, LeaseEnds DEF ScheduleMedia
<1>3. \A m \in U : /\ m \in Media /\ media[m] # None /\ media[m] \in MediaRows
                   /\ media[m].bound = None /\ ~media[m].deleted
    BY DEF Unscheduled, PartyMedia, RetentionInv, RetentionTypeOK
<1>4. \A m \in U : [media[m] EXCEPT !.bound = r] \in MediaRows
    BY <1>3 DEF MediaRows
<1>5. \A m \in U : /\ [media[m] EXCEPT !.bound = r].call = media[m].call
                   /\ [media[m] EXCEPT !.bound = r].leased = media[m].leased
                   /\ [media[m] EXCEPT !.bound = r].deleted = media[m].deleted
                   /\ [media[m] EXCEPT !.bound = r].bound = r
    BY <1>3 DEF MediaRows
<1>6. \A m \in U : ~(media[m].call # "none" \/ media[m].leased \/ m \in stray)
    BY <1>3 DEF RetentionInv, AskedUnderRecord, ClaimedUnder
<1>7. /\ \A m \in Media : media'[m] = None <=> media[m] = None
      /\ \A m \in Media \ U : media'[m] = media[m]
      /\ \A m \in U : /\ media'[m].call = media[m].call /\ media'[m].leased = media[m].leased
                      /\ media'[m].deleted = media[m].deleted /\ media'[m].bound = r
    BY <1>1, <1>3, <1>4, <1>5, RetentionAssumption DEF Unscheduled, PartyMedia
<1>8. media' \in [Media -> MediaRows \cup {None}]
    BY <1>1, <1>4 DEF RetentionInv, RetentionTypeOK
<1> HIDE DEF U
<1>9. RetentionTypeOK'
    BY <1>1, <1>2, <1>8 DEF RetentionInv, RetentionTypeOK, RecordsKeep, holds
<1>10. ContentLeft'
    BY <1>2 DEF RetentionInv, ContentLeft, RecordsKeep
<1>11. AskedUnderRecord'
  <2> SUFFICES ASSUME NEW m \in Media, media'[m] # None,
                      media'[m].call # "none" \/ media'[m].leased \/ m \in stray'
               PROVE  ClaimedUnder(m)'
      BY DEF AskedUnderRecord
  <2>1. m \notin U /\ media'[m] = media[m]
    BY <1>1, <1>6, <1>7
  <2>2. ClaimedUnder(m) /\ media[m].bound \in Records
    BY <1>1, <2>1 DEF RetentionInv, AskedUnderRecord, ClaimedUnder, RetentionTypeOK, MediaRows
  <2> QED BY <1>2, <2>1, <2>2 DEF ClaimedUnder, RecordsKeep
<1>12. HeldUnclaimed'
    BY <1>1, <1>2 DEF RetentionInv, HeldUnclaimed, RecordsKeep, Barrier, holds
<1>13. NothingErasedUnderHold'
  <2> SUFFICES ASSUME NEW q \in Records, Barrier(q)
               PROVE  /\ record'[q].content = kept[q].content
                      /\ kept[q].media \cap Scope(q)' \subseteq stored
      BY <1>1 DEF NothingErasedUnderHold, Barrier, holds
  <2>1. Exists(q) /\ q # r
    BY <1>1 DEF RetentionInv, HeldUnclaimed
  <2>2. Scope(q)' \subseteq Scope(q)
    BY <1>7, <2>1, RetentionAssumption DEF Scope
  <2> QED BY <1>2, <2>1, <2>2 DEF RetentionInv, NothingErasedUnderHold, RecordsKeep
<1>14. GoneIsGone' /\ FilesGoWithRows'
  <2>1. \A m \in Media : media'[m] # None =>
          media[m] # None /\ media'[m].call = media[m].call /\ media'[m].deleted = media[m].deleted
    BY <1>7
  <2>2. stored' = stored /\ stored \subseteq Media
    BY <1>1 DEF RetentionInv, RetentionTypeOK
  <2> QED BY <1>7, <2>1, <2>2 DEF RetentionInv, GoneIsGone, FilesGoWithRows
<1> QED BY <1>9, <1>10, <1>11, <1>12, <1>13, <1>14 DEF RetentionInv

\* The rows of the files that are gone follow them.
LEMMA DropKeeps ==
    ASSUME RetentionInv, NEW r \in Records, DropMedia(r)
    PROVE  RetentionInv'
<1> DEFINE gone == {m \in PartyMedia(r) : media[m].bound = r}
           row == Moved(record[r], "content")
<1>1. /\ Exists(r) /\ ~Barrier(r) /\ record[r].phase = "media" /\ UNCHANGED <<holds, stored, stray>>
      /\ record[r] \in RecordRows /\ Waiting(r) = {}
      /\ record' = [record EXCEPT ![r] = row]
      /\ media' = [m \in Media |-> IF m \in gone THEN None ELSE media[m]]
    BY DEF DropMedia, Processing, Open, Moved, Exists, RetentionInv, RetentionTypeOK
<1>2. \A m \in gone : media[m] # None /\ media[m].deleted
    BY <1>1 DEF Waiting, PartyMedia
<1>3. /\ row \in RecordRows /\ row.claimed = record[r].claimed
      /\ row.content = record[r].content /\ row.phase = "content"
    BY <1>1, RowMoves DEF PhaseNames
<1> HIDE DEF gone, row
<1>4. /\ \A q \in Records \ {r} : record'[q] = record[q]
      /\ record'[r] = row /\ row # None
      /\ record' \in [Records -> RecordRows \cup {None}]
    BY <1>1, <1>3, RetentionAssumption DEF RetentionInv, RetentionTypeOK
<1>5. /\ \A m \in Media : media'[m] # None => m \notin gone /\ media[m] # None /\ media'[m] = media[m]
      /\ \A m \in Media \ gone : media'[m] = media[m]
      /\ media' \in [Media -> MediaRows \cup {None}]
    BY <1>1 DEF RetentionInv, RetentionTypeOK
<1>6. RetentionTypeOK'
    BY <1>1, <1>4, <1>5 DEF RetentionInv, RetentionTypeOK, holds
<1>7. ContentLeft'
    BY <1>1, <1>3, <1>4 DEF RetentionInv, ContentLeft, Exists
<1>8. AskedUnderRecord'
    BY <1>1, <1>3, <1>4, <1>5 DEF RetentionInv, RetentionTypeOK, MediaRows, AskedUnderRecord,
        ClaimedUnder, Exists
<1>9. HeldUnclaimed'
    BY <1>1, <1>3, <1>4 DEF RetentionInv, HeldUnclaimed, Barrier, Exists, holds
<1>10. NothingErasedUnderHold'
  <2>1. \A q \in Records : Scope(q)' \subseteq Scope(q)
    BY <1>5 DEF Scope
  <2> QED BY <1>1, <1>3, <1>4, <2>1 DEF RetentionInv, NothingErasedUnderHold, Barrier, holds
<1>11. GoneIsGone' /\ FilesGoWithRows'
    BY <1>1, <1>2, <1>5 DEF RetentionInv, GoneIsGone, FilesGoWithRows, RetentionTypeOK
<1> QED BY <1>6, <1>7, <1>8, <1>9, <1>10, <1>11 DEF RetentionInv

\* The record of the account is written with the completion, before any hold on it.
LEMMA CompletionKeepsRetention ==
    ASSUME RetentionInv, WrittenOnce, Complete
    PROVE  RetentionInv'
<1>1. /\ Own \in Records /\ ~Exists(Own) /\ record' = [record EXCEPT ![Own] = NewRecord]
      /\ UNCHANGED <<holds, files>>
    BY ErasureAssumption DEF Complete, FinalizeDeletionExecution, Executing, WrittenOnce, Exists
<1>2. NewRecord \in RecordRows /\ NewRecord.content > 0 /\ NewRecord # None
  <2>1. NewRecord \in RecordRows
    BY RetentionAssumption DEF NewRecord, RecordRows
  <2>2. NewRecord.content = Batches /\ Batches > 0
    BY RetentionAssumption DEF NewRecord
  <2> QED BY <2>1, <2>2, RetentionAssumption
<1>3. /\ \A q \in Records \ {Own} : record'[q] = record[q]
      /\ record'[Own] = NewRecord
      /\ record' \in [Records -> RecordRows \cup {None}]
    BY <1>1, <1>2 DEF RetentionInv, RetentionTypeOK
<1>4. RetentionTypeOK'
    BY <1>1, <1>3 DEF RetentionInv, RetentionTypeOK, holds, files
<1>5. ContentLeft'
    BY <1>2, <1>3 DEF RetentionInv, ContentLeft, Exists
<1>6. AskedUnderRecord'
    BY <1>1, <1>3 DEF RetentionInv, RetentionTypeOK, MediaRows, AskedUnderRecord, ClaimedUnder,
        Exists, files
<1>7. \A q \in Records : Barrier(q)' => Barrier(q) /\ q # Own
    BY <1>1 DEF RetentionInv, HeldUnclaimed, Barrier, holds
<1>8. HeldUnclaimed'
    BY <1>3, <1>7 DEF RetentionInv, HeldUnclaimed, Exists
<1>9. NothingErasedUnderHold'
  <2>1. \A q \in Records : Scope(q)' = Scope(q)
    BY <1>1 DEF Scope, files
  <2> QED BY <1>1, <1>3, <1>7, <2>1 DEF RetentionInv, NothingErasedUnderHold, holds, files
<1>10. GoneIsGone' /\ FilesGoWithRows'
    BY <1>1 DEF RetentionInv, GoneIsGone, FilesGoWithRows, files
<1> QED BY <1>4, <1>5, <1>6, <1>8, <1>9, <1>10 DEF RetentionInv

LEMMA RetentionKept ==
    ASSUME RetentionInv, WrittenOnce, [Next]_vars
    PROVE  RetentionInv'
<1>1. CASE RetentionSteps
    BY <1>1, ExpiryKeeps, ScheduleKeeps, DropKeeps, RequestKeeps, DecisionsKeep, ClaimKeeps,
        StorageKeeps, LateDeleteKeeps DEF RetentionSteps
<1>2. CASE UNCHANGED retentionVars
    BY <1>2 DEF retentionVars, RetentionInv, RetentionTypeOK, ContentLeft, AskedUnderRecord,
        ClaimedUnder, HeldUnclaimed, NothingErasedUnderHold, GoneIsGone, FilesGoWithRows, Exists,
        Barrier, Scope
<1>3. CASE OrderSteps \/ SanctionSteps \/ RequestSteps \/ Approve \/ MessageSteps \/ EnterSteps
             \/ Execute \/ UNCHANGED vars
    BY <1>2, <1>3 DEF OrderSteps, SanctionSteps, RequestSteps, Approve, MessageSteps, EnterSteps,
        Execute, duties, rest, vars
<1> QED BY <1>1, <1>3, CompletionKeepsRetention DEF Next, Retain

-----------------------------------------------------------------------------
(* The theorems *)

\* The steps of retention make no record.
LEMMA NoRecordAppears ==
    ASSUME RetentionInv, RetentionSteps, NEW q \in Records, record[q] = None
    PROVE  record'[q] = None
<1>1. CASE UNCHANGED record
  BY <1>1
<1>2. ASSUME NEW r \in Records,
             Elapse(r) \/ ClaimRecord(r) \/ LoseRecord(r) \/ ScheduleMedia(r) \/ WaitForStorage(r)
             \/ DropMedia(r) \/ EraseContent(r) \/ VerifyExpired(r)
      PROVE  record'[q] = None
  <2>1. Exists(r) /\ record \in [Records -> RecordRows \cup {None}]
    BY <1>2 DEF Elapse, ClaimRecord, LoseRecord, ScheduleMedia, WaitForStorage, DropMedia,
        EraseContent, VerifyExpired, Processing, Open, Exists, RetentionInv, RetentionTypeOK, RecordRows
  <2>2. \A p \in Records \ {r} : record'[p] = record[p]
    BY <1>2, <2>1 DEF Elapse, ClaimRecord, LoseRecord, ScheduleMedia, WaitForStorage, DropMedia,
        EraseContent, VerifyExpired
  <2> QED BY <2>1, <2>2 DEF Exists
<1>3. ASSUME NEW s \in Admins, NEW r \in Records,
             RequestPlacement(s, r) \/ RejectPlacement(s, r) \/ ApproveRelease(s, r)
      PROVE  record'[q] = None
  <2>1. Exists(r) /\ record \in [Records -> RecordRows \cup {None}]
    BY <1>3 DEF RequestPlacement, RejectPlacement, ApproveRelease, Open, Exists, RetentionInv,
        RetentionTypeOK, RecordRows, HeldUnclaimed, Barrier
  <2>2. \A p \in Records \ {r} : record'[p] = record[p]
    BY <1>3, <2>1 DEF RequestPlacement, RejectPlacement, ApproveRelease
  <2> QED BY <2>1, <2>2 DEF Exists
<1>4. ASSUME NEW m \in Media, ClaimMedia(m) PROVE record'[q] = None
  <2>1. Exists(DeletedUnder(m)) /\ record \in [Records -> RecordRows \cup {None}]
    BY <1>4 DEF ClaimMedia, ClaimableMedia, Open, RetentionInv, RetentionTypeOK, RecordRows
  <2>2. \A p \in Records \ {DeletedUnder(m)} : record'[p] = record[p]
    BY <1>4, <2>1 DEF ClaimMedia
  <2> QED BY <2>1, <2>2 DEF Exists
<1> QED BY <1>1, <1>2, <1>3, <1>4
    DEF RetentionSteps, ApprovePlacement, RequestRelease, RejectRelease, StorageDeletes,
        StorageDeletesLate, StorageFails, RecordDeletion, RecordUnknown, MediaCrash

\* The account's record appears with its completion only.
LEMMA WrittenOnceKept ==
    ASSUME AccountInv, RetentionInv, WrittenOnce, [Next]_vars
    PROVE  WrittenOnce'
<1>1. request.status = "completed" => request'.status = "completed"
  <2>1. CASE Execute \/ Complete
    BY <2>1 DEF Execute, ExecutionSteps, FailureSteps, ClaimExecution, EraseDeliveries,
        EraseNotifications, EraseGrants, EraseFavourites, EraseSessions, EraseIdentity,
        SnapshotRetained, RecordFailure, RetryDeletionExecution, accountVars, Complete,
        FinalizeDeletionExecution, AccountInv, AccountTypeOK
  <2>2. CASE ~(Execute \/ Complete)
    BY <2>2 DEF Next, OrderSteps, SanctionSteps, RequestSteps, Approve, MessageSteps, EnterSteps,
        Retain, OpenQuarrel, CloseQuarrel, PlaceOrder, EndOrder, SanctionUser, LiftSanction,
        AppealSanction, UpholdSanction, ReadDeletion, OverturnSanction, PublishProfile,
        RequestDeletion, CancelDeletion, Cancellable, StartDeletion, ApproveDeletion, accountVars,
        duties, rest, vars, AccountInv, AccountTypeOK
  <2> QED BY <2>1, <2>2
<1>2. CASE Complete
    BY <1>2 DEF Complete, FinalizeDeletionExecution, WrittenOnce, AccountInv, AccountTypeOK
<1>3. CASE ~Complete
  <2>1. record[Own] = None => record'[Own] = None
    <3>1. CASE RetentionSteps
      BY <3>1, NoRecordAppears, ErasureAssumption
    <3>2. CASE ~RetentionSteps
      BY <1>3, <3>2 DEF Next, OrderSteps, SanctionSteps, RequestSteps, Approve, MessageSteps,
          EnterSteps, Execute, Retain, retentionVars, duties, rest, vars
    <3> QED BY <3>1, <3>2
  <2> QED BY <1>1, <2>1 DEF WrittenOnce
<1> QED BY <1>2, <1>3

LEMMA Inductive == Spec => []IInv
<1>1. ErasureInit => IInv
  <2> SUFFICES ASSUME ErasureInit PROVE IInv
      OBVIOUS
  <2>1. WrittenOnce /\ agenda \in Agendas
    BY ErasureAssumption DEF ErasureInit, RetentionInit, WrittenOnce
  <2> QED BY <2>1, AccountStarts, LoginStarts, DeliveryStarts, RetentionStarts DEF IInv
<1>2. IInv /\ [Next]_vars => IInv'
  <2> SUFFICES ASSUME IInv, [Next]_vars PROVE IInv'
      OBVIOUS
  <2>1. agenda' \in Agendas
    BY DEF IInv, Next, OrderSteps, SanctionSteps, RequestSteps, Approve, MessageSteps, EnterSteps,
        Execute, Complete, Retain, duties, rest, vars
  <2> QED BY <2>1, AccountKept, LoginKept, DeliveryKept, RetentionKept, WrittenOnceKept
      DEF IInv, DeliveryInv
<1> QED BY <1>1, <1>2, PTL DEF Spec

\* Every table keeps to its type, whatever the deletion, the messages, the logins,
\* the expiry and the holds do in whatever order.
THEOREM TypeCorrect == Spec => []ErasureTypeOK
<1>1. IInv => ErasureTypeOK
    BY DEF IInv, AccountInv, LoginInv, DeliveryInv, RetentionInv, ErasureTypeOK
<1> QED BY <1>1, Inductive, PTL

\* A deleted account stays closed, although orders, sanctions, appeals and their
\* overturning, which takes two steps, touch the same columns.
THEOREM ClosedForGoodAlways == Spec => []ClosedForGood
<1>1. IInv => ClosedForGood
    BY DEF IInv, AccountInv
<1> QED BY <1>1, Inductive, PTL

\* Nothing is erased before a second administrator has approved, however requests
\* are withdrawn, made again, failed and retried.
THEOREM NothingErasedUnlessApprovedAlways == Spec => []NothingErasedUnlessApproved
<1>1. IInv => NothingErasedUnlessApproved
    BY DEF IInv, AccountInv, ExecutionApproved, ErasesWhenQueued, NothingErasedUnlessApproved
<1> QED BY <1>1, Inductive, PTL

\* Whatever a login found before, it leads back to no account while the tombstone
\* stands.
THEOREM NoWayBackAlways == Spec => []NoWayBack
<1>1. IInv => NoWayBack
    BY DEF IInv, LoginInv
<1> QED BY <1>1, Inductive, PTL

\* No message and no grant crosses to WeChat twice, although leases end, workers
\* call after they have lost them, grants are given back and rows are erased.
THEOREM MessageOnceAlways == Spec => []MessageOnce
<1>1. IInv => MessageOnce
    BY DEF IInv, DeliveryInv
<1> QED BY <1>1, Inductive, PTL

\* No file stays at the storage without a row, whatever became of the calls.
THEOREM FilesGoWithRowsAlways == Spec => []FilesGoWithRows
<1>1. IInv => FilesGoWithRows
    BY DEF IInv, RetentionInv
<1> QED BY <1>1, Inductive, PTL

\* Under a hold, or one that waits for its decision, nothing it covers is erased,
\* not even by a call made before that arrives late.
THEOREM NothingErasedUnderHoldAlways == Spec => []NothingErasedUnderHold
<1>1. IInv => NothingErasedUnderHold
    BY DEF IInv, RetentionInv
<1> QED BY <1>1, Inductive, PTL

-----------------------------------------------------------------------------
(* What no step takes back *)

\* Only a request that is processed has an approval, so that a request which is
\* withdrawn had none.
ApprovedWhileProcessed == request.approver # None => request.status \in Restricting

\* A step as the request, the account and its orders see it.
RequestGoesOn ==
    /\ request.status \in Restricting =>
           request'.status \in Restricting /\ request'.starter = request.starter
    /\ request.approver # None => request'.approver = request.approver
    /\ request'.approver # None => request'.status \in Restricting
    /\ request.status = "completed" => UNCHANGED <<request, account, order>>

LEMMA RequestsGoOn ==
    ASSUME AccountInv, ApprovedWhileProcessed, [Next]_vars
    PROVE  RequestGoesOn
<1> USE DEF RequestGoesOn, ApprovedWhileProcessed, Restricting
<1>1. CASE UNCHANGED <<request, account, order>>
    BY <1>1
<1>2. CASE OrderSteps
  <2>1. UNCHANGED <<request, account>>
    BY <1>2 DEF OrderSteps, OpenQuarrel, CloseQuarrel, PlaceOrder, EndOrder
  <2>2. request.status = "completed" => order' = order
    BY <1>2 DEF OrderSteps, OpenQuarrel, CloseQuarrel, PlaceOrder, EndOrder, AcceptsOrders,
        AccountInv, ClosedForGood
  <2> QED BY <2>1, <2>2
<1>3. CASE SanctionSteps
  <2>1. UNCHANGED <<request, order>>
    BY <1>3 DEF SanctionSteps, SanctionUser, LiftSanction, AppealSanction, UpholdSanction,
        ReadDeletion, OverturnSanction
  <2>2. request.status = "completed" => account' = account
    BY <1>3 DEF SanctionSteps, SanctionUser, LiftSanction, AppealSanction, UpholdSanction,
        ReadDeletion, OverturnSanction, Changeable, AccountInv, OverturnedBefore
  <2> QED BY <2>1, <2>2
<1>4. CASE RequestSteps
  <2>1. CASE PublishProfile
    BY <1>1, <2>1 DEF PublishProfile
  <2>2. CASE RequestDeletion \/ CancelDeletion
    <3>1. request.status \in {"none", "pending"} /\ request.approver = None
      BY <2>2 DEF RequestDeletion, CancelDeletion, Cancellable
    <3>2. request'.approver = None
      BY <2>2, <3>1 DEF RequestDeletion, CancelDeletion, NoRequest, AccountInv, AccountTypeOK
    <3> QED BY <3>1, <3>2
  <2>3. ASSUME NEW s \in Admins, StartDeletion(s) PROVE RequestGoesOn
    <3>1. request.status = "pending" /\ request'.status = "processing"
      BY <2>3 DEF StartDeletion, AccountInv, AccountTypeOK
    <3> QED BY <3>1
  <2> QED BY <1>4, <2>1, <2>2, <2>3 DEF RequestSteps
<1>5. CASE Approve
  <2>1. /\ request.status = "processing" /\ request.approver = None
        /\ request'.status = request.status /\ request'.starter = request.starter
    BY <1>5 DEF Approve, ApproveDeletion, AccountInv, AccountTypeOK
  <2> QED BY <2>1
<1>6. CASE Execute
  <2>1. UNCHANGED <<request, account, order>>
    BY <1>6 DEF Execute, ExecutionSteps, FailureSteps, ClaimExecution, EraseDeliveries,
        EraseNotifications, EraseGrants, EraseFavourites, EraseSessions, EraseIdentity,
        SnapshotRetained, RecordFailure, RetryDeletionExecution, accountVars
  <2> QED BY <1>1, <2>1
<1>7. CASE Complete
  <2>1. /\ request.status = "processing" /\ request'.status = "completed"
        /\ request'.starter = request.starter /\ request'.approver = request.approver
    BY <1>7 DEF Complete, FinalizeDeletionExecution, Executing, AccountInv, AccountTypeOK
  <2> QED BY <2>1
<1>8. CASE MessageSteps \/ EnterSteps \/ Retain \/ UNCHANGED vars
  <2>1. UNCHANGED <<request, account, order>>
    BY <1>8 DEF MessageSteps, EnterSteps, Retain, vars, accountVars
  <2> QED BY <1>1, <2>1
<1> QED BY <1>2, <1>3, <1>4, <1>5, <1>6, <1>7, <1>8 DEF Next

\* The phases come in order, and an execution that is completed rests.
LEMMA PhasesInOrder ==
    ASSUME AccountInv, [Next]_vars
    PROVE  /\ execution'.phase # execution.phase =>
                  execution.phase # "final" /\ execution'.phase = NextPhase[execution.phase]
           /\ request.status = "completed" => UNCHANGED execution
<1> DEFINE Goal == /\ execution'.phase # execution.phase =>
                          execution.phase # "final" /\ execution'.phase = NextPhase[execution.phase]
                   /\ request.status = "completed" => UNCHANGED execution
<1>1. CASE UNCHANGED execution
    BY <1>1
<1>2. execution \in [status : {"idle", "queued", "processing", "failed", "completed"}, phase : Phases,
                     fails : 0..MaxFails]
    BY DEF AccountInv, DeletionTypeOK
<1>3. CASE Approve \/ Complete
  <2>1. request.status = "processing" /\ execution'.phase = execution.phase
    BY <1>2, <1>3 DEF Approve, ApproveDeletion, QueueExecution, Complete, FinalizeDeletionExecution,
        Executing
  <2> QED BY <2>1
<1>4. CASE Execute
  <2>1. request.status = "processing"
    BY <1>4 DEF Execute, ExecutionSteps, FailureSteps, ClaimExecution, EraseDeliveries,
        EraseNotifications, EraseGrants, EraseFavourites, EraseSessions, EraseIdentity,
        SnapshotRetained, RecordFailure, RetryDeletionExecution, Advance, Executing
  <2>2. CASE ClaimExecution \/ FailureSteps
    <3>1. execution'.phase = execution.phase
      BY <1>2, <2>2 DEF ClaimExecution, FailureSteps, RecordFailure, RetryDeletionExecution
    <3> QED BY <2>1, <3>1
  <2>3. ASSUME NEW phase \in Phases \ {"final"}, Advance(phase) PROVE Goal
    <3>1. execution.phase = phase /\ execution'.phase = NextPhase[phase]
      BY <1>2, <2>3 DEF Advance, Executing
    <3> QED BY <2>1, <3>1
  <2>4. CASE EraseSessions
    <3>1. /\ execution.phase = "sessions"
          /\ execution'.phase \in {NextPhase["sessions"], execution.phase}
      BY <1>2, <2>4 DEF EraseSessions, Executing
    <3> QED BY <2>1, <3>1
  <2>5. {"deliveries", "notifications", "grants", "favourites", "identity", "snapshot"}
            \subseteq Phases \ {"final"}
    BY DEF Phases
  <2> QED BY <1>4, <2>2, <2>3, <2>4, <2>5
      DEF Execute, ExecutionSteps, EraseDeliveries, EraseNotifications, EraseGrants,
          EraseFavourites, EraseIdentity, SnapshotRetained
<1>5. CASE OrderSteps \/ SanctionSteps \/ RequestSteps \/ MessageSteps \/ EnterSteps \/ Retain
             \/ UNCHANGED vars
    BY <1>1, <1>5 DEF OrderSteps, SanctionSteps, RequestSteps, MessageSteps, EnterSteps, Retain,
        duties, rest, vars
<1> QED BY <1>3, <1>4, <1>5 DEF Next

LEMMA IdentityStaysErased ==
    ASSUME LoginInv, [Next]_vars, identity # "own"
    PROVE  identity' # "own"
<1>1. CASE UNCHANGED identity
    BY <1>1
<1>2. CASE EnterSteps
    BY <1>2 DEF EnterSteps, LoginSteps, TombstoneExpires, EndSession, LookUp, EnterOwn, EnterNew,
        CheckTombstone, OpenAccount
<1>3. CASE Execute
    BY <1>3 DEF Execute, ExecutionSteps, FailureSteps, ClaimExecution, EraseDeliveries,
        EraseNotifications, EraseGrants, EraseFavourites, EraseSessions, EraseIdentity,
        SnapshotRetained, RecordFailure, RetryDeletionExecution, loginVars
<1>4. CASE ~(EnterSteps \/ Execute)
    BY <1>1, <1>4 DEF Next, OrderSteps, SanctionSteps, RequestSteps, Approve, InstallTombstone,
        SealTombstone, MessageSteps, Complete, FinalizeDeletionExecution, Retain, duties, loginVars,
        vars
<1> QED BY <1>2, <1>3, <1>4

\* Withdrawals, retries, sanctions and late decisions on appeals leave a deletion
\* that is processed, and the account it has closed, as they are.
THEOREM DeletionIsForGoodAlways == Spec => DeletionIsForGood
<1>1. ErasureInit => ApprovedWhileProcessed
    BY DEF ErasureInit, AccountInit, NoRequest, ApprovedWhileProcessed
<1>2. IInv /\ ApprovedWhileProcessed /\ [Next]_vars => ApprovedWhileProcessed'
    BY RequestsGoOn DEF IInv, RequestGoesOn, ApprovedWhileProcessed
<1>3. Spec => []ApprovedWhileProcessed
    BY <1>1, <1>2, Inductive, PTL DEF Spec
<1> DEFINE Step == /\ request.status \in Restricting =>
                          request'.status \in Restricting /\ request'.starter = request.starter
                   /\ request.approver # None => request'.approver = request.approver
                   /\ request.status = "completed" => UNCHANGED <<request, account, execution, order>>
                   /\ execution'.phase # execution.phase =>
                          execution.phase # "final" /\ execution'.phase = NextPhase[execution.phase]
                   /\ identity # "own" => identity' # "own"
<1>4. IInv /\ ApprovedWhileProcessed /\ [Next]_vars => Step
  <2> SUFFICES ASSUME IInv, ApprovedWhileProcessed, [Next]_vars PROVE Step
      OBVIOUS
  <2>1. RequestGoesOn
    BY RequestsGoOn DEF IInv
  <2>2. /\ execution'.phase # execution.phase =>
               execution.phase # "final" /\ execution'.phase = NextPhase[execution.phase]
        /\ request.status = "completed" => UNCHANGED execution
    BY PhasesInOrder DEF IInv
  <2>3. identity # "own" => identity' # "own"
    BY IdentityStaysErased DEF IInv
  <2> QED BY <2>1, <2>2, <2>3 DEF RequestGoesOn
<1>5. IInv /\ ApprovedWhileProcessed /\ [Next]_vars => [Step]_vars
    BY <1>4
<1> QED BY <1>3, <1>5, Inductive, PTL DEF Spec, DeletionIsForGood

\* The work on messages writes to no row that was erased.
LEMMA MessagesKeepErased ==
    ASSUME RowTypes, NotificationSteps \/ ReminderSteps
    PROVE  /\ \A d \in Deliveries : Is(d, "erased") => Is(d, "erased")'
           /\ \A h \in Slots : At(h, "erased") => At(h, "erased")'
<1> DEFINE Goal == /\ \A d \in Deliveries : Is(d, "erased") => Is(d, "erased")'
                   /\ \A h \in Slots : At(h, "erased") => At(h, "erased")'
<1>1. CASE UNCHANGED <<delivery, attempt>>
    BY <1>1 DEF Is, At
<1>2. ASSUME NEW d \in Deliveries, ~Is(d, "erased"), UNCHANGED attempt,
             \A e \in Deliveries \ {d} : delivery'[e] = delivery[e]
      PROVE  Goal
    BY <1>2 DEF Is, At
<1>3. ASSUME NEW h \in Slots, ~At(h, "erased"), UNCHANGED delivery,
             \A i \in Slots \ {h} : attempt'[i] = attempt[i]
      PROVE  Goal
    BY <1>3 DEF Is, At
<1>4. ASSUME NEW d \in Deliveries,
             \/ ClaimDelivery(d) \/ LeaseExpires(d) \/ ReserveGrant(d)
             \/ ReleaseGrantAndRetry(d) \/ FinishDelivery(d)
      PROVE  Goal
  <2>1. UNCHANGED attempt /\ \A e \in Deliveries \ {d} : delivery'[e] = delivery[e]
    BY <1>4 DEF ClaimDelivery, LeaseExpires, ReserveGrant, ReleaseGrantAndRetry, FinishDelivery, Lost,
        RowTypes
  <2>2. UNCHANGED delivery \/ ~Is(d, "erased")
    BY <1>4 DEF ClaimDelivery, LeaseExpires, ReserveGrant, ReleaseGrantAndRetry, FinishDelivery, Lost, Is
  <2> QED BY <1>1, <1>2, <2>1, <2>2
<1>5. ASSUME NEW h \in Slots,
             \/ ReserveReminder(h) \/ AcquireFinalSendAuthorization(h) \/ ClaimProviderAttempt(h)
             \/ RecoverExpiredSendLease(h) \/ FinalizeProviderOutcome(h)
      PROVE  Goal
  <2>1. UNCHANGED delivery /\ \A i \in Slots \ {h} : attempt'[i] = attempt[i]
    BY <1>5 DEF ReserveReminder, AcquireFinalSendAuthorization, ClaimProviderAttempt,
        RecoverExpiredSendLease, FinalizeProviderOutcome, RowTypes
  <2>2. UNCHANGED attempt \/ ~At(h, "erased")
    BY <1>5 DEF ReserveReminder, AcquireFinalSendAuthorization, ClaimProviderAttempt, ClaimableAttempt,
        RecoverExpiredSendLease, FinalizeProviderOutcome, At
  <2> QED BY <1>1, <1>3, <2>1, <2>2
<1>6. CASE RemoveFavourite
  <2>1. UNCHANGED delivery /\ attempt' = Erased(Slots)
    BY <1>6 DEF RemoveFavourite
  <2>2. ASSUME NEW h \in Slots, At(h, "erased") PROVE At(h, "erased")'
    BY <2>1, <2>2, DeliveryAssumption DEF Erased, At, RowTypes, AttemptRows, Attempts
  <2> QED BY <2>1, <2>2 DEF Is
<1>7. CASE \/ SaveFavourite \/ DisarmReminder
           \/ \E g \in Grants : RecordGrant(g) \/ ArmReminder(g)
           \/ \E x \in Messages : Call(x) \/ Crash(x)
    BY <1>1, <1>7 DEF SaveFavourite, DisarmReminder, RecordGrant, ArmReminder, Call, Crash
<1> QED BY <1>4, <1>5, <1>6, <1>7, Names DEF NotificationSteps, ReminderSteps

\* A grant that was erased is not given back.
LEMMA GrantsKeepErased ==
    ASSUME DeliveryInv, NotificationSteps \/ ReminderSteps, NEW g \in Grants, grant[g] = "erased"
    PROVE  grant'[g] = "erased"
<1>1. grant \in [Grants -> GrantRows \cup {None}] /\ None # "erased"
    BY Names, DeliveryParts DEF DeliveryInv, DeliveryTypeOK
<1>2. CASE UNCHANGED grant
    BY <1>2
<1>3. CASE \E f \in Grants : RecordGrant(f)
    BY <1>1, <1>3 DEF RecordGrant
<1>4. CASE \E d \in Deliveries : ReserveGrant(d) \/ ReleaseGrantAndRetry(d)
    BY <1>1, <1>4 DEF ReserveGrant, Lost, ReleaseGrantAndRetry
<1>5. CASE \E h \in Slots : AcquireFinalSendAuthorization(h)
    BY <1>1, <1>5 DEF AcquireFinalSendAuthorization, Armed
<1> QED BY <1>2, <1>3, <1>4, <1>5, Names
    DEF NotificationSteps, ReminderSteps, ClaimDelivery, LeaseExpires, Call, Crash, FinishDelivery,
        Lost, SaveFavourite, DisarmReminder, RemoveFavourite, ArmReminder, ReserveReminder,
        ClaimProviderAttempt, RecoverExpiredSendLease, FinalizeProviderOutcome

\* The phases of the execution erase, and erase again what was erased.
LEMMA ExecutionKeepsErased ==
    ASSUME RowTypes, Execute
    PROVE  /\ \A d \in Deliveries : Is(d, "erased") => Is(d, "erased")'
           /\ \A g \in Grants : grant[g] = "erased" => grant'[g] = "erased"
           /\ \A h \in Slots : At(h, "erased") => At(h, "erased")'
<1>1. CASE EraseDeliveries \/ EraseNotifications
  <2>1. /\ UNCHANGED <<grant, attempt>>
        /\ delivery' = [d \in Deliveries |-> IF delivery[d] = None THEN None
                                             ELSE [delivery[d] EXCEPT !.status = "erased"]]
    BY <1>1 DEF EraseDeliveries, EraseNotifications
  <2>2. ASSUME NEW d \in Deliveries, Is(d, "erased") PROVE Is(d, "erased")'
    <3>1. delivery[d] \in DeliveryRows
      BY <2>2 DEF Is, RowTypes
    <3>2. [delivery[d] EXCEPT !.status = "erased"] \in DeliveryRows
      BY <3>1 DEF DeliveryRows
    <3> QED BY <2>1, <2>2, <3>1, <3>2, DeliveryAssumption DEF Is, DeliveryRows
  <2> QED BY <2>1, <2>2 DEF At
<1>2. CASE EraseGrants \/ EraseFavourites
  <2>1. /\ UNCHANGED delivery /\ attempt' = Erased(Slots)
        /\ \A g \in Grants : grant[g] = "erased" => grant'[g] = "erased"
    BY <1>2, Names DEF EraseGrants, EraseFavourites
  <2>2. ASSUME NEW h \in Slots, At(h, "erased") PROVE At(h, "erased")'
    BY <2>1, <2>2, DeliveryAssumption DEF Erased, At, RowTypes, AttemptRows, Attempts
  <2> QED BY <2>1, <2>2 DEF Is
<1>3. CASE UNCHANGED deliveryVars
    BY <1>3 DEF deliveryVars, Is, At
<1> QED BY <1>1, <1>2, <1>3
    DEF Execute, ExecutionSteps, FailureSteps, ClaimExecution, EraseSessions, EraseIdentity,
        SnapshotRetained, RecordFailure, RetryDeletionExecution

\* Whatever a worker had read or claimed before, it writes to no delivery, grant
\* or reminder that was erased meanwhile.
THEOREM ErasedStaysErasedAlways == Spec => ErasedStaysErased
<1> DEFINE Step == /\ \A d \in Deliveries : Is(d, "erased") => Is(d, "erased")'
                   /\ \A g \in Grants : grant[g] = "erased" => grant'[g] = "erased"
                   /\ \A h \in Slots : At(h, "erased") => At(h, "erased")'
<1>1. IInv /\ [Next]_vars => Step
  <2> SUFFICES ASSUME IInv, [Next]_vars PROVE Step
      OBVIOUS
  <2>1. DeliveryInv /\ RowTypes
    BY DeliveryParts DEF IInv
  <2>2. CASE UNCHANGED deliveryVars
    BY <2>2 DEF deliveryVars, Is, At
  <2>3. CASE OrderSteps
    <3>1. UNCHANGED deliveryVars \/ \E d \in Deliveries : Notify(d)
      BY <2>3 DEF OrderSteps, Notified
    <3>2. ASSUME NEW d \in Deliveries, Notify(d) PROVE Step
      BY <2>1, <3>2 DEF Notify, Is, At, RowTypes
    <3> QED BY <2>2, <3>1, <3>2
  <2>4. CASE MessageSteps
    BY <2>1, <2>4, MessagesKeepErased, GrantsKeepErased DEF MessageSteps
  <2>5. CASE Execute
    BY <2>1, <2>5, ExecutionKeepsErased
  <2>6. CASE SanctionSteps \/ RequestSteps \/ Approve \/ EnterSteps \/ Complete \/ Retain
             \/ UNCHANGED vars
    BY <2>2, <2>6 DEF SanctionSteps, RequestSteps, Approve, EnterSteps, Complete,
        FinalizeDeletionExecution, Retain, vars
  <2> QED BY <2>3, <2>4, <2>5, <2>6 DEF Next
<1>2. IInv /\ [Next]_vars => [Step]_vars
    BY <1>1
<1> QED BY <1>2, Inductive, PTL DEF Spec, ErasedStaysErased

\* A record in a step: content only goes, and the expiry ends without content,
\* files and holds.
RecordGoesOn(r) ==
    /\ Exists(r)' /\ record'[r].content \in 0..Batches
    /\ record'[r].content <= record[r].content
    /\ record[r].claimed => record'[r].claimed
    /\ record[r].phase = "done" => record'[r].phase = "done"
    /\ \/ record'[r].phase \in {record[r].phase, "content"}
       \/ record'[r].phase = "verify" /\ record'[r].content = 0
       \/ record[r].phase = "verify" /\ PartyMedia(r) = {} /\ ~Barrier(r)' /\ UNCHANGED media

\* A record that keeps its phase and content goes on.
LEMMA RecordRests ==
    ASSUME NEW r \in Records, record[r] \in RecordRows, Exists(r)',
           record'[r].content = record[r].content, record'[r].phase = record[r].phase,
           record[r].claimed => record'[r].claimed
    PROVE  RecordGoesOn(r)
<1>1. record[r].content \in 0..Batches /\ record[r].content <= record[r].content
    BY RetentionAssumption DEF RecordRows
<1> QED BY <1>1 DEF RecordGoesOn

LEMMA ExpiryGoesOn ==
    ASSUME RetentionInv, NEW q \in Records, NEW r \in Records, Exists(r),
           \/ Elapse(q) \/ ClaimRecord(q) \/ LoseRecord(q) \/ ScheduleMedia(q) \/ WaitForStorage(q)
           \/ DropMedia(q) \/ EraseContent(q) \/ VerifyExpired(q)
    PROVE  RecordGoesOn(r)
<1>0. /\ record \in [Records -> RecordRows \cup {None}] /\ record[r] \in RecordRows
      /\ None \notin RecordRows
    BY RetentionAssumption DEF RetentionInv, RetentionTypeOK, Exists
<1>1. CASE q # r
  <2>1. record'[r] = record[r]
    BY <1>0, <1>1 DEF Elapse, ClaimRecord, LoseRecord, ScheduleMedia, WaitForStorage, DropMedia,
        EraseContent, VerifyExpired
  <2> QED BY <1>0, <2>1, RecordRests DEF Exists
<1>2. CASE q = r /\ (Elapse(r) \/ ClaimRecord(r) \/ LoseRecord(r) \/ ScheduleMedia(r) \/ WaitForStorage(r))
  <2> DEFINE due == [record[r] EXCEPT !.due = TRUE]
             leased == [record[r] EXCEPT !.leased = TRUE]
             left == [record[r] EXCEPT !.leased = FALSE]
  <2>1. /\ due.content = record[r].content /\ due.phase = record[r].phase
        /\ due.claimed = record[r].claimed /\ due \in RecordRows
    BY <1>0 DEF RecordRows
  <2>2. \A row \in {leased, left} :
            /\ row.content = record[r].content /\ row.phase = record[r].phase
            /\ row.claimed = record[r].claimed /\ row \in RecordRows
    BY <1>0 DEF RecordRows
  <2>3. record'[r] \in {due, leased, left}
    BY <1>0, <1>2 DEF Elapse, ClaimRecord, LoseRecord, ScheduleMedia, WaitForStorage
  <2> HIDE DEF due, leased, left
  <2> QED BY <1>0, <2>1, <2>2, <2>3, RecordRests DEF Exists
<1>3. CASE q = r /\ DropMedia(r)
  <2> DEFINE row == Moved(record[r], "content")
  <2>1. record[r].phase = "media" /\ record'[r] = row
    BY <1>0, <1>3 DEF DropMedia, Processing, Moved
  <2>2. row \in RecordRows /\ row.claimed = record[r].claimed /\ row.content = record[r].content
        /\ row.phase = "content"
    BY <1>0, RowMoves DEF PhaseNames
  <2>3. row.content \in 0..Batches /\ row.content <= record[r].content
    BY <1>0, <2>2, RetentionAssumption DEF RecordRows
  <2> HIDE DEF row
  <2> QED BY <1>0, <2>1, <2>2, <2>3 DEF RecordGoesOn, Exists
<1>4. CASE q = r /\ EraseContent(r)
  <2>1. /\ record[r].phase = "content" /\ record[r].content > 0
        /\ record[r].content \in Nat /\ record[r].content <= Batches
    BY <1>0, <1>4, RetentionAssumption DEF EraseContent, Processing, RetentionInv, ContentLeft, RecordRows
  <2> DEFINE content == record[r].content - 1
             phase == IF record[r].content = 1 THEN "verify" ELSE "content"
             row == Reduced(record[r], content, phase)
  <2>2. content \in 0..Batches /\ content <= record[r].content /\ phase \in PhaseNames
        /\ (phase = "content" \/ (phase = "verify" /\ content = 0))
    BY <2>1, RetentionAssumption DEF PhaseNames
  <2>3. record'[r] = row
    BY <1>0, <1>4 DEF EraseContent, Reduced
  <2> HIDE DEF content, phase
  <2>4. row \in RecordRows /\ row.claimed = record[r].claimed /\ row.content = content
        /\ row.phase = phase
    BY <1>0, <2>2, RowReduces
  <2> HIDE DEF row
  <2> QED BY <1>0, <2>1, <2>2, <2>3, <2>4 DEF RecordGoesOn, Exists
<1>5. CASE q = r /\ VerifyExpired(r)
  <2> DEFINE row == Moved(record[r], "done")
  <2>1. /\ record[r].phase = "verify" /\ record'[r] = row
        /\ PartyMedia(r) = {} /\ ~Barrier(r) /\ UNCHANGED <<media, placement, hold>>
    BY <1>0, <1>5 DEF VerifyExpired, Processing, Moved, holds, files
  <2>2. row \in RecordRows /\ row.claimed = record[r].claimed /\ row.content = record[r].content
        /\ row.phase = "done"
    BY <1>0, RowMoves DEF PhaseNames
  <2>3. row.content \in 0..Batches /\ row.content <= record[r].content
    BY <1>0, <2>2, RetentionAssumption DEF RecordRows
  <2> HIDE DEF row
  <2> QED BY <1>0, <2>1, <2>2, <2>3 DEF RecordGoesOn, Exists, Barrier
<1> QED BY <1>1, <1>2, <1>3, <1>4, <1>5

LEMMA RecordsGoOn ==
    ASSUME RetentionInv, RetentionSteps, NEW r \in Records, Exists(r)
    PROVE  RecordGoesOn(r)
<1>0. /\ record \in [Records -> RecordRows \cup {None}] /\ record[r] \in RecordRows
      /\ None \notin RecordRows
    BY RetentionAssumption DEF RetentionInv, RetentionTypeOK, Exists
<1>1. CASE UNCHANGED record
    BY <1>0, <1>1, RecordRests DEF Exists
<1>2. ASSUME NEW s \in Admins, NEW q \in Records,
             RequestPlacement(s, q) \/ RejectPlacement(s, q) \/ ApproveRelease(s, q)
      PROVE  RecordGoesOn(r)
  <2>1. record' = [record EXCEPT ![q].leased = FALSE] /\ Exists(q)
    BY <1>2 DEF RequestPlacement, RejectPlacement, ApproveRelease, Open, RetentionInv, HeldUnclaimed,
        Barrier
  <2>2. RecordsKeep
    BY <2>1, LeaseEnds
  <2> QED BY <1>0, <2>2, RecordRests DEF RecordsKeep
<1>3. ASSUME NEW m \in Media, ClaimMedia(m) PROVE RecordGoesOn(r)
  <2> DEFINE q == DeletedUnder(m)
             row == [record[r] EXCEPT !.claimed = TRUE]
  <2>1. row \in RecordRows /\ row.content = record[r].content /\ row.phase = record[r].phase
        /\ row.claimed
    BY <1>0 DEF RecordRows
  <2>2. record'[r] \in {record[r], row}
    BY <1>0, <1>3 DEF ClaimMedia
  <2> HIDE DEF row
  <2> QED BY <1>0, <2>1, <2>2, RecordRests DEF Exists
<1> QED BY <1>1, <1>2, <1>3, ExpiryGoesOn
    DEF RetentionSteps, ApprovePlacement, RequestRelease, RejectRelease, StorageDeletes,
        StorageDeletesLate, StorageFails, RecordDeletion, RecordUnknown, MediaCrash

\* A file in a step: what is gone stays gone, and the record a file is deleted
\* under stays the one it is.
FilesGoOn ==
    /\ stored' \subseteq stored
    /\ \A m \in Media :
          /\ media[m] = None => media'[m] = None
          /\ media[m] # None /\ media'[m] # None /\ media[m].bound # None =>
                 media'[m].bound = media[m].bound

\* A step on the row of one file that keeps its record, or gives it one.
LEMMA RowGoesOn ==
    ASSUME RetentionInv, NEW x \in Media, media[x] # None, stored' \subseteq stored,
           NEW row, media' = [media EXCEPT ![x] = row],
           media[x].bound # None => row.bound = media[x].bound
    PROVE  FilesGoOn
<1>1. /\ \A m \in Media \ {x} : media'[m] = media[m]
      /\ media'[x] = row
    BY DEF RetentionInv, RetentionTypeOK
<1> QED BY <1>1 DEF FilesGoOn

LEMMA StorageGoesOn ==
    ASSUME RetentionInv, NEW x \in Media,
           \/ ClaimMedia(x) \/ StorageDeletes(x) \/ StorageFails(x)
           \/ RecordDeletion(x) \/ RecordUnknown(x) \/ MediaCrash(x)
    PROVE  FilesGoOn
<1>1. media[x] # None /\ media[x] \in MediaRows /\ stored' \subseteq stored
    BY DEF ClaimMedia, ClaimableMedia, StorageDeletes, StorageFails, RecordDeletion, RecordUnknown,
        MediaCrash, Calling, RetentionInv, RetentionTypeOK
<1>2. ASSUME NEW call \in {"none", "gone", "failed"}, media' = [media EXCEPT ![x].call = call]
      PROVE  FilesGoOn
  <2> DEFINE row == [media[x] EXCEPT !.call = call]
  <2>1. row.bound = media[x].bound
    BY <1>1 DEF MediaRows
  <2>2. media' = [media EXCEPT ![x] = row]
    BY <1>2
  <2> HIDE DEF row
  <2> QED BY <1>1, <2>1, <2>2, RowGoesOn
<1>3. CASE StorageDeletes(x) \/ StorageFails(x) \/ MediaCrash(x)
    BY <1>2, <1>3 DEF StorageDeletes, StorageFails, MediaCrash
<1>4. CASE ClaimMedia(x)
  <2> DEFINE row == [media[x] EXCEPT !.bound = DeletedUnder(x), !.leased = TRUE, !.call = "calling"]
  <2>1. row.bound = DeletedUnder(x)
    BY <1>1 DEF MediaRows
  <2>2. media' = [media EXCEPT ![x] = row]
    BY <1>4 DEF ClaimMedia
  <2>3. media[x].bound # None => row.bound = media[x].bound
    BY <2>1 DEF DeletedUnder
  <2> HIDE DEF row
  <2> QED BY <1>1, <2>2, <2>3, RowGoesOn
<1>5. CASE RecordDeletion(x)
  <2> DEFINE row == [media[x] EXCEPT !.deleted = TRUE, !.unknown = FALSE, !.leased = FALSE, !.call = "none"]
  <2>1. row.bound = media[x].bound
    BY <1>1 DEF MediaRows
  <2>2. media' = [media EXCEPT ![x] = row]
    BY <1>5 DEF RecordDeletion
  <2> HIDE DEF row
  <2> QED BY <1>1, <2>1, <2>2, RowGoesOn
<1>6. CASE RecordUnknown(x)
  <2> DEFINE row == [media[x] EXCEPT !.unknown = TRUE, !.leased = FALSE, !.call = "none"]
  <2>1. row.bound = media[x].bound
    BY <1>1 DEF MediaRows
  <2>2. media' = [media EXCEPT ![x] = row]
    BY <1>6 DEF RecordUnknown
  <2> HIDE DEF row
  <2> QED BY <1>1, <2>1, <2>2, RowGoesOn
<1> QED BY <1>3, <1>4, <1>5, <1>6

LEMMA FilesOnlyGo ==
    ASSUME RetentionInv, RetentionSteps
    PROVE  FilesGoOn
<1>1. CASE stored' \subseteq stored /\ UNCHANGED media
    BY <1>1 DEF FilesGoOn
<1>2. ASSUME NEW r \in Records, ScheduleMedia(r) PROVE FilesGoOn
  <2>1. /\ stored' = stored
        /\ \A m \in Media : \/ media'[m] = media[m]
                            \/ media[m] # None /\ media[m].bound = None
    BY <1>2 DEF ScheduleMedia, Unscheduled, PartyMedia
  <2> QED BY <2>1 DEF FilesGoOn
<1>3. ASSUME NEW r \in Records, DropMedia(r) PROVE FilesGoOn
  <2>1. stored' = stored /\ \A m \in Media : media'[m] \in {media[m], None}
    BY <1>3 DEF DropMedia
  <2> QED BY <2>1 DEF FilesGoOn
<1> QED BY <1>1, <1>2, <1>3, StorageGoesOn
    DEF RetentionSteps, Elapse, ClaimRecord, LoseRecord, WaitForStorage, EraseContent, VerifyExpired,
        RequestPlacement, ApprovePlacement, RejectPlacement, RequestRelease, ApproveRelease,
        RejectRelease, StorageDeletesLate, files

\* A hold is asked for only before the expiry is over.
LEMMA BarriersRise ==
    ASSUME RetentionInv, RetentionSteps, NEW r \in Records, Barrier(r)'
    PROVE  Barrier(r) \/ Open(r)
<1>1. CASE UNCHANGED holds
    BY <1>1 DEF Barrier, holds
<1>2. ASSUME NEW s \in Admins, NEW q \in Records, RequestPlacement(s, q)
      PROVE  Barrier(r) \/ Open(r)
    BY <1>2 DEF RequestPlacement, Barrier, RetentionInv, RetentionTypeOK
<1>3. ASSUME NEW s \in Admins, NEW q \in Records,
             \/ ApprovePlacement(s, q) \/ RejectPlacement(s, q)
             \/ RequestRelease(s, q) \/ ApproveRelease(s, q) \/ RejectRelease(s, q)
      PROVE  Barrier(r)
    BY <1>3 DEF ApprovePlacement, RejectPlacement, RequestRelease, ApproveRelease, RejectRelease,
        Barrier, RetentionInv, RetentionTypeOK
<1> QED BY <1>1, <1>2, <1>3
    DEF RetentionSteps, Elapse, ClaimRecord, LoseRecord, ScheduleMedia, WaitForStorage, DropMedia,
        EraseContent, VerifyExpired, ClaimMedia, StorageDeletes, StorageDeletesLate, StorageFails,
        RecordDeletion, RecordUnknown, MediaCrash

\* What the phases say: from the verification on there is no content, and at the
\* end no row of a file of the account's cases and no hold.
Emptied(r) ==
    /\ record[r].phase \in {"verify", "done"} => record[r].content = 0
    /\ record[r].phase = "done" =>
          ~Barrier(r) /\ \A m \in Media : r \in Parties[m] => media[m] = None

LEMMA StaysEmptied ==
    ASSUME RetentionInv, RetentionSteps, NEW r \in Records, Exists(r), Emptied(r)
    PROVE  Emptied(r)'
<1>1. RecordGoesOn(r) /\ FilesGoOn /\ record[r] \in RecordRows
    BY RecordsGoOn, FilesOnlyGo DEF Exists, RetentionInv, RetentionTypeOK
<1>2. record[r].content \in Nat
    BY <1>1, RetentionAssumption DEF RecordRows
<1>3. record[r].content = 0 => record'[r].content = 0
    BY <1>1, <1>2, RetentionAssumption DEF RecordGoesOn
<1>4. record'[r].phase \in {"verify", "done"} => record'[r].content = 0
    BY <1>1, <1>3 DEF RecordGoesOn, Emptied
<1>5. ASSUME record'[r].phase = "done"
      PROVE  ~Barrier(r)' /\ \A m \in Media : r \in Parties[m] => media'[m] = None
  <2>1. CASE record[r].phase = "done"
    BY <1>1, <2>1, BarriersRise DEF Emptied, FilesGoOn, Open
  <2>2. CASE record[r].phase # "done"
    <3>1. PartyMedia(r) = {} /\ ~Barrier(r)' /\ UNCHANGED media
      BY <1>1, <1>5, <2>2 DEF RecordGoesOn
    <3> QED BY <3>1 DEF PartyMedia
  <2> QED BY <2>1, <2>2
<1> QED BY <1>4, <1>5 DEF Emptied

EmptiedInv == \A r \in Records : Exists(r) => Emptied(r)

LEMMA EmptiedKept ==
    ASSUME IInv, EmptiedInv, [Next]_vars
    PROVE  EmptiedInv'
<1>1. CASE RetentionSteps
    BY <1>1, NoRecordAppears, StaysEmptied DEF EmptiedInv, IInv, Exists
<1>2. CASE Complete
  <2>1. /\ Own \in Records /\ record \in [Records -> RecordRows \cup {None}]
        /\ record' = [record EXCEPT ![Own] = NewRecord] /\ UNCHANGED <<holds, files>>
    BY <1>2, ErasureAssumption DEF Complete, IInv, RetentionInv, RetentionTypeOK
  <2>2. /\ record'[Own].phase = "media"
        /\ \A r \in Records \ {Own} : record'[r] = record[r]
    BY <2>1 DEF NewRecord
  <2> QED BY <2>1, <2>2 DEF EmptiedInv, Emptied, Exists, Barrier, holds, files
<1>3. CASE UNCHANGED retentionVars
    BY <1>3 DEF EmptiedInv, Emptied, Exists, Barrier, retentionVars
<1> QED BY <1>1, <1>2, <1>3
    DEF Next, OrderSteps, SanctionSteps, RequestSteps, Approve, MessageSteps, EnterSteps, Execute,
        Retain, duties, rest, vars

LEMMA EmptiedAlways == Spec => []EmptiedInv
<1>1. ErasureInit => EmptiedInv
  <2> SUFFICES ASSUME ErasureInit, NEW r \in Records, Exists(r) PROVE Emptied(r)
      BY DEF EmptiedInv
  <2>1. record[r] = NewRecord
    BY DEF ErasureInit, RetentionInit, Exists
  <2> QED BY <2>1 DEF Emptied, NewRecord
<1> QED BY <1>1, EmptiedKept, Inductive, PTL DEF Spec

\* The expiry of every record only goes forward, also where two accounts have a
\* file in common and calls to the storage fail or arrive late.
THEOREM ExpiryGoesOneWayAlways == Spec => ExpiryGoesOneWay
<1> DEFINE Step == /\ stored' \subseteq stored
                   /\ \A m \in Media :
                         /\ media[m] = None => media'[m] = None
                         /\ media[m] # None /\ media'[m] # None /\ media[m].bound # None =>
                                media'[m].bound = media[m].bound
                   /\ \A r \in Records : Exists(r) =>
                         /\ Exists(r)' /\ record'[r].content <= record[r].content
                         /\ record[r].claimed => record'[r].claimed
                         /\ record[r].phase = "done" => record'[r].phase = "done"
<1>1. IInv /\ [Next]_vars => Step
  <2> SUFFICES ASSUME IInv, [Next]_vars PROVE Step
      OBVIOUS
  <2>1. CASE RetentionSteps
    BY <2>1, RecordsGoOn, FilesOnlyGo DEF IInv, RecordGoesOn, FilesGoOn
  <2>2. \A r \in Records : Exists(r) => record[r].content <= record[r].content
    BY RetentionAssumption DEF IInv, RetentionInv, RetentionTypeOK, Exists, RecordRows
  <2>3. CASE Complete
    <3>1. /\ UNCHANGED files
          /\ \A r \in Records : Exists(r) => record'[r] = record[r]
      BY <2>3 DEF Complete, FinalizeDeletionExecution, Executing, IInv, WrittenOnce, RetentionInv,
          RetentionTypeOK, Exists
    <3> QED BY <2>2, <3>1 DEF Exists, files
  <2>4. CASE UNCHANGED retentionVars
    BY <2>2, <2>4 DEF retentionVars, Exists
  <2> QED BY <2>1, <2>3, <2>4
      DEF Next, OrderSteps, SanctionSteps, RequestSteps, Approve, MessageSteps, EnterSteps, Execute,
          Retain, duties, rest, vars
<1>2. IInv /\ [Next]_vars => [Step]_vars
    BY <1>1
<1> QED BY <1>2, Inductive, PTL DEF Spec, ExpiryGoesOneWay

\* An expiry that is over has left nothing of the account, also of the cases it
\* shared with others, and no hold comes to stand on it.
THEOREM ExpiredIsGoneAlways == Spec => []ExpiredIsGone
<1>1. IInv /\ EmptiedInv => ExpiredIsGone
    BY DEF IInv, RetentionInv, FilesGoWithRows, EmptiedInv, Emptied, ExpiredIsGone
<1> QED BY <1>1, Inductive, EmptiedAlways, PTL

=============================================================================
