------------------------------ MODULE Deletion ------------------------------
(***************************************************************************)
(* The execution of an approved deletion: a worker erases one kind of rows *)
(* after the other and at last verifies that nothing is left               *)
(* (account-deletion-execution.worker.ts, bounded-erasure.ts,              *)
(* users.service.ts).                                                      *)
(*                                                                         *)
(* Of the 44 phases those are modelled that erase the rows of Delivery and *)
(* Login and the two that check; a phase is one batch, that of the         *)
(* sessions any number.  A worker that has lost its lease finds no row     *)
(* with its token and changes nothing, so a claim is the status of the     *)
(* execution.                                                              *)
(***************************************************************************)
EXTENDS Delivery, Login

CONSTANT MaxFails   \* failures after which the execution waits for an administrator

ASSUME DeletionAssumption == MaxFails \in Nat \ {0}

VARIABLE execution  \* AccountDeletionRequest: executionStatus, executionPhase, executionFailureCount

Phases == {"deliveries", "notifications", "grants", "favourites",
           "sessions", "identity", "snapshot", "final"}

NextPhase ==
    [deliveries |-> "notifications", notifications |-> "grants", grants |-> "favourites",
     favourites |-> "sessions", sessions |-> "identity", identity |-> "snapshot", snapshot |-> "final"]

\* The failures are counted up to MaxFails, beyond which nothing changes.
DeletionTypeOK ==
    execution \in [status : {"idle", "queued", "processing", "failed", "completed"}, phase : Phases,
                   fails : 0..MaxFails]

DeletionInit == execution = [status |-> "idle", phase |-> "deliveries", fails |-> 0]

\* The execution is queued with the approval.
QueueExecution == execution' = [execution EXCEPT !.status = "queued"]

\* A lease that has expired is claimed again, which changes nothing here.
ClaimExecution ==
    /\ request.status = "processing" /\ request.approver # None
    /\ execution.status = "queued"
    /\ execution' = [execution EXCEPT !.status = "processing"]
    /\ UNCHANGED <<accountVars, deliveryVars, loginVars>>

Executing(phase) ==
    request.status = "processing" /\ execution.status = "processing" /\ execution.phase = phase

Advance(phase) ==
    /\ Executing(phase)
    /\ execution' = [execution EXCEPT !.status = "queued", !.phase = NextPhase[phase]]

EraseDeliveries ==
    /\ Advance("deliveries")
    /\ delivery' = [d \in Deliveries |-> IF delivery[d] = None THEN None
                                         ELSE [delivery[d] EXCEPT !.status = "erased"]]
    /\ UNCHANGED <<accountVars, grant, favourite, attempt, worker, crossed, loginVars>>

\* The deliveries that were added meanwhile go with their notifications.
EraseNotifications ==
    /\ Advance("notifications")
    /\ notes' = FALSE
    /\ delivery' = [d \in Deliveries |-> IF delivery[d] = None THEN None
                                         ELSE [delivery[d] EXCEPT !.status = "erased"]]
    /\ UNCHANGED <<companion, account, published, order, quarrel, sanction, request, lateRecord>>
    /\ UNCHANGED <<grant, favourite, attempt, worker, crossed, loginVars>>

\* The attempts that have a grant go with it.
EraseGrants ==
    /\ Advance("grants")
    /\ grant' = [g \in Grants |-> IF grant[g] = None THEN None ELSE "erased"]
    /\ attempt' = Erased(Slots)
    /\ UNCHANGED <<accountVars, delivery, favourite, worker, crossed, loginVars>>

EraseFavourites ==
    /\ Advance("favourites")
    /\ favourite' = "absent"
    /\ attempt' = Erased(Slots)
    /\ UNCHANGED <<accountVars, delivery, grant, worker, crossed, loginVars>>

EraseSessions ==
    /\ Executing("sessions")
    /\ sessions' \in 0..sessions
    /\ execution' = [execution EXCEPT !.status = "queued",
                                     !.phase = IF sessions' = 0 THEN NextPhase["sessions"] ELSE @]
    /\ UNCHANGED <<accountVars, deliveryVars, identity, tombstone, login>>

EraseIdentity ==
    /\ tombstone # "none"
    /\ Advance("identity")
    /\ identity' = "erased"
    /\ UNCHANGED <<accountVars, deliveryVars, tombstone, sessions, login>>

\* Counts what is kept; what was created after the approval makes the last phase fail.
SnapshotRetained ==
    /\ Advance("snapshot")
    /\ UNCHANGED <<accountVars, deliveryVars, loginVars>>

Clean ==
    /\ ~notes
    /\ \A d \in Deliveries : delivery[d] = None \/ Is(d, "erased")
    /\ \A g \in Grants : grant[g] \in {"erased", None}
    /\ favourite = "absent"
    /\ sessions = 0 /\ identity # "own"

FinalizeDeletionExecution ==
    /\ Executing("final")
    /\ request.starter # request.approver
    /\ ~lateRecord /\ ~Obligations /\ Clean /\ tombstone = "sealed"
    /\ account' = "banned"
    /\ request' = [request EXCEPT !.status = "completed"]
    /\ execution' = [execution EXCEPT !.status = "completed"]
    /\ UNCHANGED <<companion, published, order, quarrel, sanction, notes, lateRecord, deliveryVars, loginVars>>

\* A phase may fail at any time; what fails too often waits for an administrator.
RecordFailure ==
    /\ request.status = "processing" /\ execution.status = "processing"
    /\ execution' = [execution EXCEPT
         !.fails = IF @ < MaxFails THEN @ + 1 ELSE @,
         !.status = IF execution.fails + 1 >= MaxFails THEN "failed" ELSE "queued"]
    /\ UNCHANGED <<accountVars, deliveryVars, loginVars>>

\* The number of failures stays: the next one is final again.
RetryDeletionExecution ==
    /\ request.status = "processing" /\ execution.status = "failed"
    /\ execution' = [execution EXCEPT !.status = "queued"]
    /\ UNCHANGED <<accountVars, deliveryVars, loginVars>>

ExecutionSteps ==
    \/ ClaimExecution
    \/ EraseDeliveries \/ EraseNotifications \/ EraseGrants \/ EraseFavourites
    \/ EraseSessions \/ EraseIdentity \/ SnapshotRetained

FailureSteps == RecordFailure \/ RetryDeletionExecution

-----------------------------------------------------------------------------
\* An account is closed by its deletion and stays so: while the deletion is
\* processed the user can make no request and is offered to nobody, and once
\* it is completed no order of the account can be left and the account can
\* never be opened again (startDeletionRequest, resolve,
\* finalizeDeletionExecution).
ClosedForGood ==
    /\ request.status \in Restricting => account # "active" /\ ~published
    /\ request.status = "completed" => /\ account = "banned"
                                       /\ \A role \in Roles : order[role] # "live"

\* Nothing of the user is erased before two different administrators agreed,
\* and nothing is erased of a deletion that was withdrawn (cancelMyDeletionRequest,
\* completeDeletionRequest, processClaimedExecution).
NothingErasedUnlessApproved ==
    (execution.phase # "deliveries" \/ \E g \in Grants : grant[g] = "erased") =>
        /\ request.status \in Restricting
        /\ request.approver \notin {None, request.starter}

=============================================================================
