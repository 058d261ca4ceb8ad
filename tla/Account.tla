------------------------------ MODULE Account ------------------------------
(***************************************************************************)
(* One user's account while it is asked to be deleted: the orders, the     *)
(* sanctions and their appeals that must be over first, and the request    *)
(* that two administrators carry (users.service.ts, orders.service.ts,     *)
(* user-account-actions.service.ts).                                       *)
(*                                                                         *)
(* Each operation holds the lock of the user's row, so it is one step; the *)
(* overturning of an appeal does not, and is two.  What else refuses an    *)
(* order, a publication or a sanction is left out.                         *)
(***************************************************************************)
EXTENDS Naturals

CONSTANTS
    Admins,     \* administrators
    None        \* no value

ASSUME AccountAssumption == None \notin Admins

Roles == {"customer", "companion"}

VARIABLES
    companion,  \* whether the user has a companion profile
    account,    \* User.accountStatus
    published,  \* CompanionProfile.isPublished of the user's profile
    order,      \* the user's orders in each role
    quarrel,    \* a dispute or ticket of the other party of an order is open
    sanction,   \* the UserAccountAction in force, with its appeal
    request,    \* AccountDeletionRequest: status, who started and who approved it
    notes,      \* whether Notification rows without a delivery exist
    lateRecord  \* whether a retained record was created after the approval

accountVars == <<companion, account, published, order, quarrel, sanction, request, notes, lateRecord>>

Restricting == {"processing", "completed"}
AppealOpen == {"appealed", "overturning"}

AccountTypeOK ==
    /\ companion \in BOOLEAN
    /\ account \in {"active", "restricted", "banned"}
    /\ published \in BOOLEAN
    /\ order \in [Roles -> {"none", "live", "ended"}]
    /\ quarrel \in BOOLEAN
    /\ sanction \in {"none", "inForce", "upheld"} \cup AppealOpen
    /\ request \in [status : {"none", "pending"} \cup Restricting,
                    starter : Admins \cup {None}, approver : Admins \cup {None}]
    /\ notes \in BOOLEAN
    /\ lateRecord \in BOOLEAN

NoRequest == [status |-> "none", starter |-> None, approver |-> None]

AccountInit ==
    /\ companion \in BOOLEAN
    /\ account = "active"
    /\ published = companion
    /\ order = [role \in Roles |-> "none"]
    /\ quarrel = FALSE
    /\ sanction = "none"
    /\ request = NoRequest
    /\ notes = FALSE
    /\ lateRecord = FALSE

-----------------------------------------------------------------------------
(* Orders. *)

\* As a customer the account must be active and not about to be deleted; as a
\* companion its profile must be public.
AcceptsOrders(role) ==
    /\ account = "active"
    /\ role = "customer" => request.status \notin {"pending", "processing"}
    /\ role = "companion" => companion /\ published

PlaceOrder(role) ==
    /\ AcceptsOrders(role)
    /\ order[role] # "live"
    /\ order' = [order EXCEPT ![role] = "live"]
    /\ UNCHANGED <<companion, account, published, quarrel, sanction, request, notes, lateRecord>>

EndOrder(role) ==
    /\ order[role] = "live"
    /\ order' = [order EXCEPT ![role] = "ended"]
    /\ UNCHANGED <<companion, account, published, quarrel, sanction, request, notes, lateRecord>>

\* The other party of an order that ended complains about it.
OpenQuarrel ==
    /\ \E role \in Roles : order[role] = "ended"
    /\ ~quarrel
    /\ quarrel' = TRUE
    /\ lateRecord' = (lateRecord \/ request.approver # None)
    /\ UNCHANGED <<companion, account, published, order, sanction, request, notes>>

CloseQuarrel ==
    /\ quarrel
    /\ quarrel' = FALSE
    /\ UNCHANGED <<companion, account, published, order, sanction, request, notes, lateRecord>>

PublishProfile ==
    /\ companion /\ account = "active"
    /\ request.status = "none"
    /\ published' = TRUE
    /\ UNCHANGED <<companion, account, order, quarrel, sanction, request, notes, lateRecord>>

-----------------------------------------------------------------------------
(* Sanctions, which only users without a companion profile have. *)

Changeable == request.status \notin Restricting /\ sanction \notin AppealOpen

SanctionUser ==
    /\ ~companion /\ Changeable
    /\ ~quarrel /\ \A role \in Roles : order[role] # "live"
    /\ account' \in {"restricted", "banned"}
    /\ sanction' = "inForce"
    /\ notes' = TRUE
    /\ UNCHANGED <<companion, published, order, quarrel, request, lateRecord>>

LiftSanction ==
    /\ Changeable /\ sanction # "none"
    /\ account' = "active"
    /\ sanction' = "none"
    /\ notes' = TRUE
    /\ UNCHANGED <<companion, published, order, quarrel, request, lateRecord>>

\* An account being deleted may still appeal.
AppealSanction ==
    /\ sanction = "inForce"
    /\ sanction' = "appealed"
    /\ notes' = TRUE
    /\ lateRecord' = (lateRecord \/ request.approver # None)
    /\ UNCHANGED <<companion, account, published, order, quarrel, request>>

UpholdSanction ==
    /\ sanction = "appealed"
    /\ sanction' = "upheld"
    /\ notes' = TRUE
    /\ UNCHANGED <<companion, account, published, order, quarrel, request, lateRecord>>

\* The resolution reads the request without locking the user's row ...
ReadDeletion ==
    /\ sanction = "appealed"
    /\ request.status \notin Restricting
    /\ sanction' = "overturning"
    /\ UNCHANGED <<companion, account, published, order, quarrel, request, notes, lateRecord>>

\* ... and writes the account later.
OverturnSanction ==
    /\ sanction = "overturning"
    /\ sanction' = "none"
    /\ account' = "active"
    /\ notes' = TRUE
    /\ UNCHANGED <<companion, published, order, quarrel, request, lateRecord>>

-----------------------------------------------------------------------------
(* The request. *)

\* Mutant of Obligations: pending appeals are not counted.
CommercialObligations == quarrel \/ \E role \in Roles : order[role] = "live"

\* What the account must still be there for.
Obligations == quarrel \/ sanction \in AppealOpen \/ \E role \in Roles : order[role] = "live"

RequestDeletion ==
    /\ request.status = "none"
    /\ request' = [request EXCEPT !.status = "pending"]
    /\ published' = FALSE
    /\ UNCHANGED <<companion, account, order, quarrel, sanction, notes, lateRecord>>

\* Mutant of Cancellable: a request that is being processed can be withdrawn.
CancellableLate == request.status \in {"pending", "processing"}

Cancellable == request.status = "pending"

\* A cancelled request is as none; its profile stays withdrawn.
CancelDeletion ==
    /\ Cancellable
    /\ request' = NoRequest
    /\ notes' = TRUE
    /\ UNCHANGED <<companion, account, published, order, quarrel, sanction, lateRecord>>

StartDeletion(s) ==
    /\ request.status = "pending"
    /\ ~Obligations
    /\ request' = [request EXCEPT !.status = "processing", !.starter = s]
    /\ account' = IF account = "active" THEN "restricted" ELSE account
    /\ published' = FALSE
    /\ UNCHANGED <<companion, order, quarrel, sanction, notes, lateRecord>>

\* After the cooldown a second administrator approves; the execution is queued.
ApproveDeletion(s) ==
    /\ request.status = "processing" /\ request.approver = None
    /\ request.starter # s
    /\ ~Obligations
    /\ request' = [request EXCEPT !.approver = s]
    /\ UNCHANGED <<companion, account, published, order, quarrel, sanction, notes, lateRecord>>

=============================================================================
