------------------------------ MODULE Erasure ------------------------------
(***************************************************************************)
(* The life of one account until it is deleted and what was kept of it has *)
(* expired: its orders and sanctions, the messages sent meanwhile, the     *)
(* execution of the deletion, and the retention record it leaves beside    *)
(* those of other accounts, whose cases share files with it.               *)
(***************************************************************************)
EXTENDS Deletion, Retention

CONSTANTS
    Own,        \* the retention record of the account
    Agendas     \* bound: what occurs in one behaviour: a companion profile, failures of
                \* the execution, and kinds of activity

VARIABLE agenda \* the member of Agendas this behaviour has

vars == <<accountVars, deliveryVars, loginVars, execution, retentionVars, agenda>>

Activities == {"profile", "failure", "order", "sanction", "message", "reminder", "login", "file"}

ASSUME ErasureAssumption == Own \in Records /\ Agendas \subseteq SUBSET Activities

ErasureTypeOK ==
    /\ AccountTypeOK /\ DeliveryTypeOK /\ LoginTypeOK /\ DeletionTypeOK /\ RetentionTypeOK
    /\ agenda \in Agendas

ErasureInit ==
    /\ AccountInit /\ DeliveryInit /\ LoginInit /\ DeletionInit
    /\ RetentionInit(Records \ {Own})
    /\ agenda \in Agendas
    /\ companion = ("profile" \in agenda)

rest == <<execution, retentionVars, agenda>>
duties == <<loginVars, rest>>

\* What happens to an order tells the user of it, the first time.
Notified ==
    \/ UNCHANGED deliveryVars
    \/ "message" \in agenda /\ \E d \in Deliveries : Notify(d)

OrderSteps ==
    /\ "order" \in agenda
    /\ OpenQuarrel \/ CloseQuarrel \/ \E role \in Roles : PlaceOrder(role) \/ EndOrder(role)
    /\ Notified
    /\ UNCHANGED duties

SanctionSteps ==
    /\ "sanction" \in agenda
    /\ SanctionUser \/ LiftSanction \/ AppealSanction \/ UpholdSanction \/ ReadDeletion \/ OverturnSanction
    /\ UNCHANGED <<deliveryVars, duties>>

RequestSteps ==
    /\ \/ /\ PublishProfile \/ RequestDeletion \/ CancelDeletion
          /\ UNCHANGED loginVars
       \/ /\ \E s \in Admins : StartDeletion(s)
          /\ InstallTombstone
    /\ UNCHANGED <<deliveryVars, rest>>

Approve ==
    /\ \E s \in Admins : ApproveDeletion(s)
    /\ QueueExecution
    /\ SealTombstone
    /\ UNCHANGED <<deliveryVars, retentionVars, agenda>>

MessageSteps ==
    /\ \/ "message" \in agenda /\ NotificationSteps
       \/ "reminder" \in agenda /\ ReminderSteps
    /\ UNCHANGED <<accountVars, duties>>

EnterSteps ==
    /\ "login" \in agenda
    /\ LoginSteps \/ TombstoneExpires
    /\ UNCHANGED <<accountVars, deliveryVars, rest>>

Execute ==
    /\ \/ ExecutionSteps
       \/ "failure" \in agenda /\ FailureSteps
    /\ UNCHANGED <<retentionVars, agenda>>

\* The retention record is written with the completion.
Complete ==
    /\ FinalizeDeletionExecution
    /\ record' = [record EXCEPT ![Own] = NewRecord]
    /\ UNCHANGED <<holds, files, agenda>>

Retain ==
    /\ "file" \in agenda
    /\ RetentionSteps
    /\ UNCHANGED <<accountVars, deliveryVars, loginVars, execution, agenda>>

Next ==
    \/ OrderSteps \/ SanctionSteps \/ RequestSteps \/ Approve
    \/ MessageSteps \/ EnterSteps \/ Execute \/ Complete \/ Retain

Spec == ErasureInit /\ [][Next]_vars

-----------------------------------------------------------------------------
(* What no step takes back. *)

\* A deletion that is being processed is not withdrawn, its approval is not
\* repeated or moved to somebody else, its phases come in order, and once it is
\* completed nothing changes the request, the account or its orders: neither an
\* administrator who retries, nor a sanction, nor an appeal decided late
\* (startDeletionRequest, completeDeletionRequest, processClaimedExecution).
DeletionIsForGood ==
    [][ /\ request.status \in Restricting =>
               request'.status \in Restricting /\ request'.starter = request.starter
        /\ request.approver # None => request'.approver = request.approver
        /\ request.status = "completed" => UNCHANGED <<request, account, execution, order>>
        /\ execution'.phase # execution.phase =>
               execution.phase # "final" /\ execution'.phase = NextPhase[execution.phase]
        /\ identity # "own" => identity' # "own" ]_vars

\* What was erased is not written again by a worker that read it before: neither
\* a delivery nor a reminder that was claimed, nor a grant that is given back
\* (NotificationDeliveryWorker, AvailabilityReminderAttemptDeliveryService).
ErasedStaysErased ==
    [][ /\ \A d \in Deliveries : Is(d, "erased") => Is(d, "erased")'
        /\ \A g \in Grants : grant[g] = "erased" => grant'[g] = "erased"
        /\ \A h \in Slots : At(h, "erased") => At(h, "erased")' ]_vars

\* A file that two accounts have in common is deleted under the first of their
\* records that claims it and never passes to the other's; what has left the
\* storage or the database does not come back, and neither does content
\* (drainSafetyMediaDependencies, processClaimedRetentionRecord).
ExpiryGoesOneWay ==
    [][ /\ stored' \subseteq stored
        /\ \A m \in Media :
              /\ media[m] = None => media'[m] = None
              /\ media[m] # None /\ media'[m] # None /\ media[m].bound # None =>
                     media'[m].bound = media[m].bound
        /\ \A r \in Records : Exists(r) =>
              /\ Exists(r)' /\ record'[r].content <= record[r].content
              /\ record[r].claimed => record'[r].claimed
              /\ record[r].phase = "done" => record'[r].phase = "done" ]_vars

\* A record whose expiry is over has nothing left: no content, no row and no
\* stored file of any case of the account, also of those that belong to another
\* account; and no hold stands on it (verifyExpired, requestPlacement).
ExpiredIsGone ==
    \A r \in Records : Exists(r) /\ record[r].phase = "done" =>
        /\ record[r].content = 0 /\ ~Barrier(r)
        /\ \A m \in Media : r \in Parties[m] => media[m] = None /\ m \notin stored

=============================================================================
