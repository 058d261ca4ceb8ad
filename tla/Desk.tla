-------------------------------- MODULE Desk --------------------------------
(***************************************************************************)
(* The desks of the staff: attendance cases, WeChat complaints, the        *)
(* standing of a companion, the daily bill of WeChat, the cases of the     *)
(* review department, requests about data, and, in this module, support    *)
(* tickets, incident reports and the sanctions of a user's account.  All   *)
(* are worked on by people who can be suspended at any moment              *)
(* (support.service.ts, user-account-actions.service.ts,                   *)
(* companion-lifecycle.service.ts, staff-offboarding.service.ts).  What    *)
(* any of the finance staff may go on with (refunds, invoice requests,     *)
(* withdrawals) is left out of the hand-over.                              *)
(***************************************************************************)
EXTENDS Naturals, AttendanceCase, Complaint, Standing, Reconciliation, Review, Rights

CONSTANTS
    Tickets,        \* support tickets
    Incidents,      \* incident reports
    Agendas         \* bound: [work, crew, late, most], the kinds of work that arise
                    \* in one behaviour, the staff on duty, how many requests may
                    \* outlive the credential of their sender at a time, and how
                    \* many account actions there are

VARIABLES
    ticket,     \* SupportTicket: status, assignee
    incident,   \* CompanionIncidentReport: status, assignee
    sanction,   \* the UserAccountAction in force on one user, with its appeal
    agenda      \* the member of Agendas this behaviour has

desks == <<ticket, incident, sanction>>
vars == <<personnel, cases, complaintVars, standingVars, billVars, reviewVars, right, desks, agenda>>

Work == {"case", "complaint", "standing", "ticket", "incident", "sanction", "bill", "file", "right", "identity"}

Open == {"open", "inProgress"}

TicketRows == [status : Open \cup {"resolved"}, assignee : Staff \cup {None}]
SanctionRows ==
    [creator : Admins, appeal : {"none", "pending", "upheld"}, assignee : Staff \cup {None}]

ASSUME DeskAssumption ==
    /\ Agendas \subseteq [work : SUBSET Work, crew : SUBSET Staff, late : Nat, most : Nat]
    /\ None \notin TicketRows \cup SanctionRows

DeskTypeOK ==
    /\ PersonnelTypeOK /\ CaseTypeOK /\ ComplaintTypeOK /\ StandingTypeOK /\ BillTypeOK /\ ReviewTypeOK
    /\ RightsTypeOK
    /\ ticket \in [Tickets -> TicketRows \cup {None}]
    /\ incident \in [Incidents -> TicketRows \cup {None}]
    /\ sanction \in SanctionRows \cup {None}
    /\ agenda \in Agendas

DeskInit ==
    /\ CaseInit /\ ComplaintInit /\ StandingInit /\ RightsInit
    /\ ticket = [t \in Tickets |-> None]
    /\ incident = [i \in Incidents |-> None]
    /\ sanction = None
    /\ agenda \in Agendas
    /\ PersonnelInit(agenda.crew)
    /\ \E kind \in IF "bill" \in agenda.work THEN BillKinds ELSE {"trade"} : BillInit(kind)
    /\ ReviewInit(IF "file" \in agenda.work THEN Department ELSE {})

IsOpen(row) == row # None /\ row.status \in Open

-----------------------------------------------------------------------------
(* Support tickets and incident reports. *)

OpenTicket(t) ==
    /\ ticket[t] = None
    /\ ticket' = [ticket EXCEPT ![t] = [status |-> "open", assignee |-> None]]
    /\ UNCHANGED <<incident, sanction>>

ClaimTicket(s, t) ==
    /\ IsOpen(ticket[t]) /\ ticket[t].assignee = None
    /\ Assignable(s, None)
    /\ ticket' = [ticket EXCEPT ![t] = [status |-> "inProgress", assignee |-> s]]
    /\ UNCHANGED <<incident, sanction>>

AssignTicket(t, to) ==
    /\ IsOpen(ticket[t])
    /\ Assignable(to, ticket[t].assignee)
    /\ ticket' = [ticket EXCEPT ![t] = [status |-> "inProgress", assignee |-> to]]
    /\ UNCHANGED <<incident, sanction>>

ResolveTicket(s, t) ==
    /\ IsOpen(ticket[t]) /\ ticket[t].assignee = s
    /\ ticket' = [ticket EXCEPT ![t].status = "resolved"]
    /\ UNCHANGED <<incident, sanction>>

ReportIncident(i) ==
    /\ incident[i] = None
    /\ incident' = [incident EXCEPT ![i] = [status |-> "open", assignee |-> None]]
    /\ UNCHANGED <<ticket, sanction>>

ClaimIncident(s, i) ==
    /\ IsOpen(incident[i]) /\ incident[i].assignee = None
    /\ s \in active
    /\ incident' = [incident EXCEPT ![i] = [status |-> "inProgress", assignee |-> s]]
    /\ UNCHANGED <<ticket, sanction>>

AssignIncident(s, i, to) ==
    /\ IsOpen(incident[i])
    /\ {s, to} \subseteq active
    /\ incident' = [incident EXCEPT ![i] = [status |-> "inProgress", assignee |-> to]]
    /\ UNCHANGED <<ticket, sanction>>

ResolveIncident(s, i, status) ==
    /\ IsOpen(incident[i])
    /\ s \in active
    /\ s \in Admins \/ incident[i].assignee = s
    /\ incident' = [incident EXCEPT ![i].status = status]
    /\ UNCHANGED <<ticket, sanction>>

-----------------------------------------------------------------------------
(* Sanctions of a user's account. *)

AppealPending == sanction # None /\ sanction.appeal = "pending"

\* Business with the user that a sanction would cut off.
Obligations ==
    \/ \E c \in Cases : cases[c] # None /\ cases[c].status # "final"
    \/ dispute # None /\ dispute.status # "resolved"
    \/ \E t \in Tickets : IsOpen(ticket[t])

\* A user is restricted or banned, or the sanction in force is replaced.
Sanction(s) ==
    /\ ~AppealPending
    /\ ~Obligations
    /\ sanction' = [creator |-> s, appeal |-> "none", assignee |-> None]
    /\ UNCHANGED <<ticket, incident>>

LiftSanction ==
    /\ sanction # None /\ ~AppealPending
    /\ sanction' = None
    /\ UNCHANGED <<ticket, incident>>

AppealSanction ==
    /\ sanction # None /\ sanction.appeal = "none"
    /\ sanction' = [sanction EXCEPT !.appeal = "pending"]
    /\ UNCHANGED <<ticket, incident>>

ClaimSanctionAppeal(s) ==
    /\ AppealPending /\ sanction.creator # s
    /\ sanction.assignee \in {None, s}
    /\ Assignable(s, sanction.assignee)
    /\ sanction' = [sanction EXCEPT !.assignee = s]
    /\ UNCHANGED <<ticket, incident>>

AssignSanctionAppeal(s, to) ==
    /\ AppealPending /\ sanction.creator \notin {s, to}
    /\ Assignable(to, sanction.assignee)
    /\ sanction' = [sanction EXCEPT !.assignee = to]
    /\ UNCHANGED <<ticket, incident>>

ResolveSanctionAppeal(s, outcome) ==
    /\ AppealPending /\ sanction.creator # s
    /\ sanction.assignee = s
    /\ sanction' = IF outcome = "overturned" THEN None ELSE [sanction EXCEPT !.appeal = outcome]
    /\ UNCHANGED <<ticket, incident>>

-----------------------------------------------------------------------------
(* Suspending a colleague. *)

CaseHandedOver(s) ==
    {c \in Cases : CaseIn(c, {"review"}) /\ cases[c].assignee = s}
AppealHandedOver(s) ==
    {c \in Cases : CaseIn(c, {"appealed"}) /\ cases[c].appealAssignee = s}
ActionAppealHandedOver(s) ==
    {x \in Actions : actions[x] # None /\ actions[x].appeal = "pending" /\ actions[x].assignee = s}

\* Unresolved work that s is responsible for.
HasAssignments(s) ==
    \/ \E t \in Tickets : IsOpen(ticket[t]) /\ ticket[t].assignee = s
    \/ \E i \in Incidents : IsOpen(incident[i]) /\ incident[i].assignee = s
    \/ DisputeIn(ActiveDispute) /\ dispute.assignee = s
    \/ CaseHandedOver(s) \cup AppealHandedOver(s) \cup ActionAppealHandedOver(s) # {}
    \/ AppealPending /\ sanction.assignee = s
    \/ RightHandedOver(s) # {}

\* Mutant of Receiver: whoever takes over takes over everything.
ReceiverOfAll(r, barred) == r

\* Who takes over an appeal that barred must not review; nobody, if it is r.
Receiver(r, barred) == IF r = barred THEN None ELSE r

\* Everything s was responsible for passes to r.
Handoff(s, r) ==
    /\ ticket' = [t \in Tickets |-> IF IsOpen(ticket[t]) /\ ticket[t].assignee = s
                                    THEN [ticket[t] EXCEPT !.assignee = r] ELSE ticket[t]]
    /\ incident' = [i \in Incidents |-> IF IsOpen(incident[i]) /\ incident[i].assignee = s
                                        THEN [incident[i] EXCEPT !.assignee = r] ELSE incident[i]]
    /\ dispute' = IF DisputeIn(ActiveDispute) /\ dispute.assignee = s
                  THEN [dispute EXCEPT !.assignee = r] ELSE dispute
    /\ cases' = [c \in Cases |->
         CASE c \in CaseHandedOver(s)   -> [cases[c] EXCEPT !.assignee = r]
           [] c \in AppealHandedOver(s) ->
                [cases[c] EXCEPT !.appealAssignee = Receiver(r, cases[c].decider)]
           [] OTHER -> cases[c]]
    /\ sanction' = IF AppealPending /\ sanction.assignee = s
                   THEN [sanction EXCEPT !.assignee = Receiver(r, sanction.creator)] ELSE sanction
    /\ actions' = [x \in Actions |->
         IF x \in ActionAppealHandedOver(s)
         THEN [actions[x] EXCEPT !.assignee = Receiver(r, actions[x].creator)] ELSE actions[x]]
    /\ right' = [k \in Requests |-> IF k \in RightHandedOver(s) THEN [right[k] EXCEPT !.handler = r] ELSE right[k]]
    /\ UNCHANGED <<wx, reply, sending, finishing, fetched, profile, published, identity>>

\* The administrator a suspends s; r takes over what s has to do.
Suspend(a, s, r) ==
    /\ a \in active \cap Admins /\ s \in active \ {a}
    /\ IF HasAssignments(s) \/ r # None
       THEN r \in (active \cap Admins) \ {s} /\ Handoff(s, r)
       ELSE UNCHANGED <<cases, complaintVars, standingVars, right, desks>>
    /\ UNCHANGED <<billVars, reviewVars>>
    /\ active' = active \ {s}
    /\ late' \in {late, late \cup {s}} /\ Cardinality(late') <= agenda.late
    /\ UNCHANGED agenda

-----------------------------------------------------------------------------
(* Whatever arises by itself, from users, WeChat, workers and clocks. *)

CaseArises ==
    \E c \in Cases :
        \/ \E issue \in {"ordinary", "safetyBoundary"}, stated \in BOOLEAN : OpenCase(c, issue, stated)
        \/ \E w \in Deadlines : CloseWindow(c, w)
        \/ CompleteEvidence(c) \/ AnswerCase(c) \/ Appeal(c) \/ DefendAppeal(c)
        \/ StartRefund(c) \/ RefundNotStarted(c)

DeskArises ==
    \/ "ticket" \in agenda.work /\ \E t \in Tickets : OpenTicket(t)
    \/ "incident" \in agenda.work /\ \E i \in Incidents : ReportIncident(i)
    \/ AppealSanction

Arises ==
    /\ \/ "case" \in agenda.work /\ CaseArises /\ UNCHANGED <<complaintVars, standingVars, billVars, right, desks>>
       \/ "complaint" \in agenda.work /\ ComplaintSteps /\ UNCHANGED <<cases, standingVars, billVars, right, desks>>
       \/ "standing" \in agenda.work /\ StandingSteps /\ UNCHANGED <<cases, complaintVars, billVars, right, desks>>
       \/ "bill" \in agenda.work /\ BillArises /\ UNCHANGED <<cases, complaintVars, standingVars, right, desks>>
       \/ DeskArises /\ UNCHANGED <<cases, complaintVars, standingVars, billVars, right>>
       \/ "right" \in agenda.work /\ RightArises /\ UNCHANGED <<cases, complaintVars, standingVars, billVars, desks>>
    /\ UNCHANGED <<personnel, reviewVars, agenda>>

(* What one of the staff does, by role. *)

CaseByStaff(s) ==
    /\ s \in Admins \cup Support
    /\ \E c \in Cases :
          \/ ClaimCase(s, c) \/ ClaimAppeal(s, c)
          \/ \E d \in Decisions : Decide(s, c, d) \/ FinalizeAppealed(s, c, d)
          \/ FinalizeUnappealed(s, c) \/ FinalizeAgain(s, c)

DeskByStaff(s) ==
    \/ \E t \in Tickets :
         \/ s \in Support /\ ClaimTicket(s, t)
         \/ s \in Admins /\ \E to \in Admins \cup Support : AssignTicket(t, to)
         \/ ResolveTicket(s, t)
    \/ \E i \in Incidents :
         \/ s \in Supply /\ ClaimIncident(s, i)
         \/ s \in Admins /\ \E to \in Supply : AssignIncident(s, i, to)
         \/ \E status \in {"inProgress", "resolved"} : ResolveIncident(s, i, status)
    \/ /\ s \in Admins
       /\ \/ "sanction" \in agenda.work /\ Sanction(s)
          \/ LiftSanction \/ ClaimSanctionAppeal(s)
          \/ \E to \in Admins : AssignSanctionAppeal(s, to)
          \/ \E outcome \in {"upheld", "overturned"} : ResolveSanctionAppeal(s, outcome)

ByStaff(s) ==
    /\ Acting(s)
    /\ \/ CaseByStaff(s) /\ UNCHANGED <<complaintVars, standingVars, billVars, right, desks>>
       \/ ComplaintByStaff(s) /\ UNCHANGED <<cases, standingVars, billVars, right, desks>>
       \/ /\ \/ "standing" \in agenda.work /\ StandingByStaff(s)
             \/ "identity" \in agenda.work /\ IdentityByStaff(s)
          /\ Cardinality({x \in Actions : actions'[x] # None}) <= agenda.most
          /\ UNCHANGED <<cases, complaintVars, billVars, right, desks>>
       \/ "bill" \in agenda.work /\ BillByStaff(s) /\ UNCHANGED <<cases, complaintVars, standingVars, right, desks>>
       \/ DeskByStaff(s) /\ UNCHANGED <<cases, complaintVars, standingVars, billVars, right>>
       \/ RightByStaff(s) /\ UNCHANGED <<cases, complaintVars, standingVars, billVars, desks>>
    /\ Answered(s)
    /\ UNCHANGED <<reviewVars, agenda>>

\* The review department works beside the commercial staff.
InReview ==
    /\ "file" \in agenda.work
    /\ FilesArise \/ \E v \in Department : FilesByReviewer(v)
    /\ UNCHANGED <<personnel, cases, complaintVars, standingVars, billVars, right, desks, agenda>>

Next ==
    \/ Arises
    \/ InReview
    \/ \E s \in Staff : ByStaff(s)
    \/ \E a \in Admins, s \in Staff, r \in Admins \cup {None} : Suspend(a, s, r)

Spec == DeskInit /\ [][Next]_vars

-----------------------------------------------------------------------------
(* Properties. *)

Ordinary(c) == cases[c] # None /\ cases[c].issue = "ordinary"

\* Work that only the person responsible can finish is never left with
\* somebody who has been suspended, although requests of that person may still
\* arrive: open tickets and incidents, cases in review, requests about data, and
\* appeals of cases, sanctions and account actions.  A complaint is not among them (a resolved
\* one that the user reopens keeps its agent, but any administrator may answer
\* or reassign it), nor is a case on a safety boundary (see AppealsAreReviewed).
\* The same holds of the open cases of the review department.
StaffedWork ==
    /\ \A f \in DOMAIN files : files[f].status = "open" => files[f].assignee \in onDuty \cup {None}
    /\ \A s \in Staff \ active :
         /\ \A t \in Tickets : ~(IsOpen(ticket[t]) /\ ticket[t].assignee = s)
         /\ \A i \in Incidents : ~(IsOpen(incident[i]) /\ incident[i].assignee = s)
         /\ \A c \in CaseHandedOver(s) \cup AppealHandedOver(s) : ~Ordinary(c)
         /\ ~(AppealPending /\ sanction.assignee = s)
         /\ ActionAppealHandedOver(s) \cup RightHandedOver(s) = {}

\* Whoever is responsible for an appeal did not take the decision that is
\* appealed, however claims, assignments and hand-overs follow each other.
AppealIndependent ==
    /\ \A c \in Cases : Ordinary(c) /\ cases[c].appealAssignee # None =>
           cases[c].appealAssignee # cases[c].decider
    /\ AppealPending => sanction.assignee # sanction.creator
    /\ \A x \in Actions : actions[x] # None => actions[x].assignee # actions[x].creator

\* A reply that counts as sent says something WeChat has received, whatever
\* became of the call that sent it.
RepliesAreReal ==
    \A r \in Replies : reply[r] # None /\ reply[r].status = "submitted" => reply[r].text \in wx.log

\* A commercial profile stands because somebody else than its submitter verified
\* it, also after suspensions and their reviews; and a companion on offer has
\* such a profile, a verified owner and no restriction in force.
GoodStanding ==
    /\ profile.status = "verified" => profile.verifier \notin {None, profile.submitter}
    /\ published => profile.status = "verified" /\ identity.verified /\ \A x \in Actions : ~InForce(x)

\* Two people, the first of whom proposed it, have closed an issue.
ClosedByTwo(i) ==
    IssueIn(i, {"resolved", "acceptedException"}) /\ issues[i].resolver \notin {None, issues[i].assignee}

\* A bill that no longer blocks the release is explained, whatever order of
\* downloads, lost leases, retries, uploads and reviews led there: each of its
\* rows agreed with a settled record when it was processed, and each record of
\* its day was among its rows, or two people closed the difference; and only an
\* imported statement ends the question of a missing one by itself.
ClearMeansReconciled ==
    /\ IssueIn(<<"silence">>, {"recovered"}) => bill.imported # None
    /\ GateClear /\ bill.imported # None => \A x \in References :
         IF bill.imported[x] = "none"
         THEN processed[x] = "here" => ClosedByTwo(<<"local", x>>)
         ELSE \/ bill.imported[x] = "exact" /\ processed[x] \in {"here", "otherDay"}
              \/ ClosedByTwo(<<"row", x>>)
    /\ GateClear /\ bill.imported = None /\ (\E x \in References : processed[x] = "here") =>
         ClosedByTwo(<<"silence">>)

\* What an appeal has undone stays undone, whatever else happens to the case
\* and to other cases about the same message: its restriction is lifted (a
\* belated one is of a block whose case was closed before the restriction came),
\* and the message is withheld only while a case whose last decision went
\* against it has not been overturned (docs/chat-moderation-v2.md).
OverturnedIsUndone ==
    /\ \A f \in DOMAIN files : files[f].appeal = "overturned" => files[f].restriction # "inForce"
    /\ message = "withheld" /\ (\E f \in DOMAIN files : files[f].appeal = "overturned") =>
         \E f \in DOMAIN files : files[f].verdict = "against" /\ files[f].appeal # "overturned"

\* A case that was appealed becomes final only by a reviewer other than the one
\* who decided it (docs/COMMERCIAL_RELEASE.md:38).
AppealsAreReviewed ==
    \A c \in Cases : CaseIn(c, {"final"}) /\ cases[c].appellant # None =>
        cases[c].reviewer \notin {None, cases[c].decider}

-----------------------------------------------------------------------------
(* What no step takes back. *)

\* A full refund is requested for an ordinary case only when it is final and that
\* is its outcome, and it is requested once: nothing starts it again afterwards,
\* however often the case is finalised and whatever the request met with
\* (finalize, startRefundIfNeeded).
RefundFollows ==
    \A c \in Cases : Ordinary(c) =>
        /\ cases[c].refund => cases[c].status = "final" /\ cases[c].outcome = "fullRefund"
        /\ cases[c].starting => cases[c].status = "final" /\ ~cases[c].refund

\* Neither a late claim, nor an appeal, nor a hand-over changes the first decision
\* of an ordinary case or who took it; who appealed stays, and after the final
\* decision its outcome and its reviewer too (decide, appeal, finalize,
\* StaffOffboardingService).
DecisionsStand ==
    [][\A c \in Cases : Ordinary(c) =>
         /\ Ordinary(c)'
         /\ CaseIn(c, {"decided", "appealed", "final"}) =>
                /\ CaseIn(c, {"decided", "appealed", "final"})'
                /\ cases'[c].decision = cases[c].decision /\ cases'[c].decider = cases[c].decider
         /\ CaseIn(c, {"appealed"}) => CaseIn(c, {"appealed", "final"})'
         /\ cases[c].appellant # None => cases'[c].appellant = cases[c].appellant
         /\ CaseIn(c, {"final"}) =>
                /\ CaseIn(c, {"final"})'
                /\ cases'[c].outcome = cases[c].outcome /\ cases'[c].reviewer = cases[c].reviewer
         /\ cases[c].refund => cases'[c].refund ]_vars

AppealGoes(old, new) ==
    /\ old = "none" => new \in {"none", "pending"}
    /\ old = "pending" => new # "none"
    /\ old \in {"upheld", "overturned"} => new = old

\* An account action and a moderation case can be appealed once, and what was
\* decided of the appeal stays decided: a late request, a hand-over, a sweep of
\* the ended suspensions or a review of the profile changes neither the appeal nor
\* who took the action, who decided of it and that it was revoked
\* (appealAccountAction, resolveAppeal, ReviewCaseService.createAppeal).
AppealsOnce ==
    [][ /\ \A x \in Actions : actions[x] # None =>
              /\ actions'[x] # None /\ actions'[x].creator = actions[x].creator
              /\ AppealGoes(actions[x].appeal, actions'[x].appeal)
              /\ actions[x].resolver # None => actions'[x].resolver = actions[x].resolver
              /\ actions[x].revoked => actions'[x].revoked
        /\ \A f \in DOMAIN files :
              f \in DOMAIN files' /\ AppealGoes(files[f].appeal, files'[f].appeal) ]_vars

\* Closed work stays as it was closed: neither a hand-over nor a request that was
\* read before reopens a ticket, an incident or a request about data, or moves it
\* to somebody else (SupportService, StaffOffboardingService, DataRightsService).
ClosedRests ==
    [][ /\ \A t \in Tickets : ticket[t] # None /\ ~IsOpen(ticket[t]) => ticket'[t] = ticket[t]
        /\ \A i \in Incidents : incident[i] # None /\ ~IsOpen(incident[i]) => incident'[i] = incident[i]
        /\ \A k \in Requests : right[k] # None /\ right[k].status \notin ActiveRight =>
              right'[k] = right[k] ]_vars

\* A statement is imported once, by a worker with its lease or from an approved
\* upload, and a closed issue of the bill stays closed as it was, although
\* downloads, retries and uploads go on (importStatement, approveUpload,
\* approveResolution).
StatementsStand ==
    [][ /\ bill.imported # None => bill'.imported = bill.imported /\ bill'.status = "reconciled"
        /\ \A i \in DOMAIN issues :
              /\ i \in DOMAIN issues'
              /\ issues[i].status \in ClosedIssue =>
                    /\ issues'[i].status = issues[i].status
                    /\ issues'[i].resolver = issues[i].resolver
                    /\ issues'[i].assignee = issues[i].assignee ]_vars

=============================================================================
