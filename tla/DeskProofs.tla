----------------------------- MODULE DeskProofs -----------------------------
(***************************************************************************)
(* Proofs about Desk, for any staff, any work and any agendas.             *)
(*                                                                         *)
(* IInv has one part for each desk.  A part speaks only of the desk's own  *)
(* variables and of the staff on duty, so it is enough to show that the    *)
(* desk's own operations and a hand-over keep it, and that no other step   *)
(* touches it.  What no step takes back is proved in the same way, of one  *)
(* row before and after a step.                                            *)
(***************************************************************************)
EXTENDS Desk, TLAPS

\* Who may be found responsible for work that only the person responsible can
\* finish.
Present == active \cup {None}

(***************************************************************************)
(* The inductive invariant.                                                *)
(***************************************************************************)

\* What is true of an attendance case of the ordinary kind: nobody has it before
\* it is claimed, whoever has it or its appeal while that matters is on duty, and
\* nobody is responsible for an appeal that was not filed.  A case that is final
\* after an appeal was closed by somebody other than its decider.
OrdinaryRow(row) ==
    /\ row.status \in {"evidenceCollection", "counterpartyResponse"} => row.assignee = None
    /\ row.status = "review" => row.assignee \in Present
    /\ row.status = "appealed" => row.appealAssignee \in Present
    /\ row.appealAssignee # None =>
          row.status \in {"appealed", "final"} /\ row.appealAssignee # row.decider
    /\ row.appellant # None => row.status \in {"appealed", "final"}
    /\ row.appellant # None /\ row.status = "final" => row.reviewer \notin {None, row.decider}

CaseInv == CaseTypeOK /\ \A c \in Cases : Ordinary(c) => OrdinaryRow(cases[c])

\* A call to WeChat and a synchronisation have their rows, and what they have
\* learnt is so: an answered reply was received, and what was read of the history
\* is still in it.
ComplaintInv ==
    /\ ComplaintTypeOK
    /\ (\E r \in Replies : sending[r] # "none") \/ finishing # "none" \/ fetched # None =>
          dispute # None
    /\ fetched # None => fetched.detail.log \subseteq wx.log /\ fetched.detail.state # "none"
    /\ \A r \in Replies :
         /\ sending[r] # "none" => reply[r] # None
         /\ sending[r] = "answered" => reply[r].text \in wx.log
         /\ reply[r] # None /\ reply[r].status = "submitted" => reply[r].text \in wx.log

\* An account action: nobody has an appeal that was not filed, whoever has one is
\* on duty and did not take the action, only an overturned one is revoked, and only
\* a decided one has somebody who decided it.
ActionRow(row) ==
    /\ row.appeal = "none" => row.assignee = None
    /\ row.appeal = "pending" => row.assignee \in Present
    /\ row.assignee # row.creator
    /\ row.revoked => row.appeal = "overturned"
    /\ row.resolver # None => row.appeal \in {"upheld", "overturned"}

\* The eligibility that restores a profile was given by the same verification.
StandingInv ==
    /\ StandingTypeOK
    /\ profile.adult \/ profile.status = "verified" =>
          profile.verifier \notin {None, profile.submitter}
    /\ published => profile.status = "verified" /\ identity.verified /\ \A x \in Actions : ~InForce(x)
    /\ \A x \in Actions : actions[x] # None => ActionRow(actions[x])

\* What a row or a record of the bill leaves to be explained has its issue.
Explained(x) ==
    IF bill.imported[x] = "none"
    THEN processed[x] = "here" => <<"local", x>> \in DOMAIN issues
    ELSE \/ bill.imported[x] = "exact" /\ processed[x] \in {"here", "otherDay"}
         \/ <<"row", x>> \in DOMAIN issues

\* A closed issue has two people, unless it is the one about the missing statement
\* and the statement has come.
BillInv ==
    /\ BillTypeOK
    /\ bill.imported # None => \A x \in References : Explained(x)
    /\ bill.imported = None /\ (\E x \in References : processed[x] = "here") =>
          <<"silence">> \in DOMAIN issues
    /\ \A i \in DOMAIN issues :
         /\ issues[i].status \in {"resolved", "acceptedException"} =>
               issues[i].resolver \notin {None, issues[i].assignee}
         /\ issues[i].status = "recovered" => i = <<"silence">> /\ bill.imported # None

\* A moderation case whose decision was overturned is closed, and no appeal of it
\* is under way; an appeal that has been read but not filed is the first.
FileRow(f) ==
    /\ files[f].status = "open" => files[f].assignee \in onDuty \cup {None}
    /\ files[f].appeal = "overturned" => files[f].status # "open" /\ files[f].restriction # "inForce"
    /\ f \in DOMAIN appealing => files[f].appeal = "none"

Against(f) == files[f].verdict = "against" /\ files[f].appeal # "overturned"

FilesInv ==
    /\ ReviewTypeOK
    /\ \A f \in DOMAIN files : FileRow(f)
    /\ message = "none" => DOMAIN files = {}
    /\ message = "withheld" /\ (\E f \in DOMAIN files : files[f].appeal = "overturned") =>
         \E f \in DOMAIN files : Against(f)

RightsInv ==
    /\ RightsTypeOK
    /\ \A k \in Requests : RightIn(k, ActiveRight) => right[k].handler \in Present

\* Open tickets and incidents, and the sanction of a user, as for cases.
DesksInv ==
    /\ ticket \in [Tickets -> TicketRows \cup {None}]
    /\ incident \in [Incidents -> TicketRows \cup {None}]
    /\ sanction \in SanctionRows \cup {None}
    /\ \A t \in Tickets : IsOpen(ticket[t]) => ticket[t].assignee \in Present
    /\ \A i \in Incidents : IsOpen(incident[i]) => incident[i].assignee \in Present
    /\ sanction # None =>
         /\ sanction.appeal = "none" => sanction.assignee = None
         /\ sanction.appeal = "pending" =>
               sanction.assignee \in Present /\ sanction.assignee # sanction.creator

IInv ==
    /\ PersonnelTypeOK /\ agenda \in Agendas
    /\ CaseInv /\ ComplaintInv /\ StandingInv /\ BillInv /\ FilesInv /\ RightsInv /\ DesksInv

-----------------------------------------------------------------------------
(***************************************************************************)
(* Which steps touch which desk.                                           *)
(***************************************************************************)

Suspension == \E a \in Admins, s \in Staff, r \in Admins \cup {None} : Suspend(a, s, r)

LEMMA CaseSteps ==
    ASSUME [Next]_vars
    PROVE  \/ (CaseArises \/ \E s \in Staff : CaseByStaff(s)) /\ UNCHANGED active
           \/ UNCHANGED <<cases, active>>
           \/ Suspension
  BY DEF Next, vars, Arises, InReview, ByStaff, Suspension, Answered, personnel

LEMMA ComplaintFrame ==
    ASSUME [Next]_vars
    PROVE  \/ ComplaintSteps
           \/ \E s \in Staff : ComplaintByStaff(s)
           \/ UNCHANGED complaintVars
           \/ Suspension
  BY DEF Next, vars, Arises, InReview, ByStaff, Suspension

LEMMA StandingFrame ==
    ASSUME [Next]_vars
    PROVE  \/ (StandingSteps \/ \E s \in Staff : StandingByStaff(s) \/ IdentityByStaff(s)) /\ UNCHANGED active
           \/ UNCHANGED <<standingVars, active>>
           \/ Suspension
  BY DEF Next, vars, Arises, InReview, ByStaff, Suspension, Answered, personnel

LEMMA BillFrame ==
    ASSUME [Next]_vars
    PROVE  \/ BillArises
           \/ \E s \in Staff : BillByStaff(s)
           \/ UNCHANGED billVars
  BY DEF Next, vars, Arises, InReview, ByStaff, Suspend

LEMMA FilesFrame ==
    ASSUME [Next]_vars
    PROVE  \/ FilesArise
           \/ \E v \in Department : FilesByReviewer(v)
           \/ UNCHANGED reviewVars
  BY DEF Next, vars, Arises, InReview, ByStaff, Suspend

LEMMA RightFrame ==
    ASSUME [Next]_vars
    PROVE  \/ (RightArises \/ \E s \in Staff : RightByStaff(s)) /\ UNCHANGED active
           \/ UNCHANGED <<right, active>>
           \/ Suspension
  BY DEF Next, vars, Arises, InReview, ByStaff, Suspension, Answered, personnel

LEMMA DesksFrame ==
    ASSUME [Next]_vars
    PROVE  \/ (DeskArises \/ \E s \in Staff : DeskByStaff(s)) /\ UNCHANGED active
           \/ UNCHANGED <<desks, active>>
           \/ Suspension
  BY DEF Next, vars, Arises, InReview, ByStaff, Suspension, Answered, personnel

LEMMA PersonnelKept ==
    ASSUME PersonnelTypeOK, agenda \in Agendas, [Next]_vars
    PROVE  PersonnelTypeOK' /\ agenda' \in Agendas
<1>1. CASE Arises BY <1>1 DEF Arises, personnel, PersonnelTypeOK
<1>2. CASE InReview BY <1>2 DEF InReview, personnel, PersonnelTypeOK
<1>3. ASSUME NEW s \in Staff, ByStaff(s) PROVE PersonnelTypeOK' /\ agenda' \in Agendas
  BY <1>3 DEF ByStaff, Answered, PersonnelTypeOK
<1>4. ASSUME NEW a \in Admins, NEW s \in Staff, NEW r \in Admins \cup {None}, Suspend(a, s, r)
      PROVE  PersonnelTypeOK' /\ agenda' \in Agendas
  BY <1>4 DEF Suspend, PersonnelTypeOK
<1>5. CASE UNCHANGED vars BY <1>5 DEF vars, personnel, PersonnelTypeOK
<1>. QED BY <1>1, <1>2, <1>3, <1>4, <1>5 DEF Next

-----------------------------------------------------------------------------
(***************************************************************************)
(* Attendance cases.                                                       *)
(***************************************************************************)

\* A case is opened or changed into another of its kind.
LEMMA CaseChanges ==
    ASSUME CaseInv, UNCHANGED active, NEW c \in Cases, NEW row \in CaseRecords,
           row.issue = "ordinary" => OrdinaryRow(row),
           cases' = [cases EXCEPT ![c] = row]
    PROVE  CaseInv'
<1>1. cases' \in [Cases -> CaseRecords \cup {None}]
  BY DEF CaseInv, CaseTypeOK
<1>2. cases'[c] = row /\ \A d \in Cases \ {c} : cases'[d] = cases[d]
  BY DEF CaseInv, CaseTypeOK
<1>3. Present' = Present
  BY DEF Present
<1>4. ASSUME NEW d \in Cases, Ordinary(d)' PROVE OrdinaryRow(cases[d])'
  BY <1>2, <1>3, <1>4 DEF CaseInv, Ordinary, OrdinaryRow
<1>. QED BY <1>1, <1>4 DEF CaseInv, CaseTypeOK

LEMMA CaseArisesKeeps ==
    ASSUME CaseInv, UNCHANGED active, CaseArises
    PROVE  CaseInv'
<1>. USE DEF CaseIn, FirstRound, Deadlines
<1>1. PICK c \in Cases :
        \/ \E issue \in {"ordinary", "safetyBoundary"}, stated \in BOOLEAN : OpenCase(c, issue, stated)
        \/ \E w \in Deadlines : CloseWindow(c, w)
        \/ CompleteEvidence(c) \/ AnswerCase(c) \/ Appeal(c) \/ DefendAppeal(c)
        \/ StartRefund(c) \/ RefundNotStarted(c)
  BY DEF CaseArises
<1>2. cases[c] # None => cases[c] \in CaseRecords
  BY DEF CaseInv, CaseTypeOK
<1>3. cases[c] # None /\ cases[c].issue = "ordinary" => OrdinaryRow(cases[c])
  BY DEF CaseInv, Ordinary
<1>4. ASSUME NEW issue \in {"ordinary", "safetyBoundary"}, NEW stated \in BOOLEAN,
             OpenCase(c, issue, stated)
      PROVE  CaseInv'
  <2>. DEFINE row ==
         [issue |-> issue,
          status |-> IF stated THEN "counterpartyResponse" ELSE "evidenceCollection",
          open |-> FirstRound, assignee |-> None,
          decision |-> None, decider |-> None, appellant |-> None, defended |-> FALSE,
          appealAssignee |-> None, reviewer |-> None, outcome |-> None,
          starting |-> FALSE, refund |-> FALSE]
  <2>1. row \in CaseRecords
    BY DEF CaseRecords, CaseStatuses
  <2>2. OrdinaryRow(row)
    BY DEF OrdinaryRow
  <2>3. cases' = [cases EXCEPT ![c] = row]
    BY <1>4 DEF OpenCase
  <2>. QED BY <2>1, <2>2, <2>3, CaseChanges
<1>5. ASSUME NEW w \in Deadlines, CloseWindow(c, w) PROVE CaseInv'
  <2>. DEFINE row == [cases[c] EXCEPT !.open = @ \ {w}]
  <2>1. row \in CaseRecords
    BY <1>2, <1>5 DEF CloseWindow, CaseRecords
  <2>2. row.issue = "ordinary" => OrdinaryRow(row)
    BY <1>2, <1>3, <1>5 DEF CloseWindow, CaseRecords, OrdinaryRow
  <2>3. cases' = [cases EXCEPT ![c] = row]
    BY <1>5 DEF CloseWindow
  <2>. QED BY <2>1, <2>2, <2>3, CaseChanges
<1>6. CASE CompleteEvidence(c)
  <2>. DEFINE row == [cases[c] EXCEPT !.status = "counterpartyResponse", !.open = @ \cup {"response"}]
  <2>1. row \in CaseRecords
    BY <1>2, <1>6 DEF CompleteEvidence, CaseRecords, CaseStatuses
  <2>2. row.issue = "ordinary" => OrdinaryRow(row)
    BY <1>2, <1>3, <1>6 DEF CompleteEvidence, CaseRecords, OrdinaryRow
  <2>3. cases' = [cases EXCEPT ![c] = row]
    BY <1>6 DEF CompleteEvidence, CaseInv, CaseTypeOK
  <2>. QED BY <2>1, <2>2, <2>3, CaseChanges
<1>7. CASE AnswerCase(c)
  <2>. DEFINE row == [cases[c] EXCEPT !.status = "review", !.open = @ \ FirstRound]
  <2>1. row \in CaseRecords
    BY <1>2, <1>7 DEF AnswerCase, CaseRecords, CaseStatuses
  <2>2. row.issue = "ordinary" => OrdinaryRow(row)
    BY <1>2, <1>3, <1>7 DEF AnswerCase, CaseRecords, OrdinaryRow, Present
  <2>3. cases' = [cases EXCEPT ![c] = row]
    BY <1>7 DEF AnswerCase, CaseInv, CaseTypeOK
  <2>. QED BY <2>1, <2>2, <2>3, CaseChanges
<1>8. CASE Appeal(c)
  <2>. DEFINE party == IF cases[c].decision = "fullRefund" THEN "companion" ELSE "customer"
              row == [cases[c] EXCEPT !.status = "appealed", !.appellant = party,
                                      !.open = @ \cup {"appealResponse"}]
  <2>1. row \in CaseRecords
    <3>1. party \in Parties
      BY DEF Parties
    <3>. HIDE DEF party
    <3>. QED BY <3>1, <1>2, <1>8 DEF Appeal, CaseRecords, CaseStatuses
  <2>2. row.issue = "ordinary" => OrdinaryRow(row)
    BY <1>2, <1>3, <1>8 DEF Appeal, CaseRecords, OrdinaryRow, Present
  <2>3. cases' = [cases EXCEPT ![c] = row]
    BY <1>8 DEF Appeal, CaseInv, CaseTypeOK
  <2>. QED BY <2>1, <2>2, <2>3, CaseChanges
<1>9. CASE DefendAppeal(c)
  <2>. DEFINE row == [cases[c] EXCEPT !.defended = TRUE]
  <2>1. row \in CaseRecords
    BY <1>2, <1>9 DEF DefendAppeal, CaseRecords
  <2>2. row.issue = "ordinary" => OrdinaryRow(row)
    BY <1>2, <1>3, <1>9 DEF DefendAppeal, CaseRecords, OrdinaryRow
  <2>3. cases' = [cases EXCEPT ![c] = row]
    BY <1>9 DEF DefendAppeal
  <2>. QED BY <2>1, <2>2, <2>3, CaseChanges
<1>10. CASE StartRefund(c)
  <2>. DEFINE row == [cases[c] EXCEPT !.starting = FALSE, !.refund = TRUE]
  <2>1. row \in CaseRecords
    BY <1>2, <1>10 DEF StartRefund, CaseRecords
  <2>2. row.issue = "ordinary" => OrdinaryRow(row)
    BY <1>2, <1>3, <1>10 DEF StartRefund, CaseRecords, OrdinaryRow
  <2>3. cases' = [cases EXCEPT ![c] = row]
    BY <1>10 DEF StartRefund, CaseInv, CaseTypeOK
  <2>. QED BY <2>1, <2>2, <2>3, CaseChanges
<1>11. CASE RefundNotStarted(c)
  <2>. DEFINE row == [cases[c] EXCEPT !.starting = FALSE]
  <2>1. row \in CaseRecords
    BY <1>2, <1>11 DEF RefundNotStarted, CaseRecords
  <2>2. row.issue = "ordinary" => OrdinaryRow(row)
    BY <1>2, <1>3, <1>11 DEF RefundNotStarted, CaseRecords, OrdinaryRow
  <2>3. cases' = [cases EXCEPT ![c] = row]
    BY <1>11 DEF RefundNotStarted
  <2>. QED BY <2>1, <2>2, <2>3, CaseChanges
<1>. QED BY <1>1, <1>4, <1>5, <1>6, <1>7, <1>8, <1>9, <1>10, <1>11

LEMMA CaseByStaffKeeps ==
    ASSUME CaseInv, UNCHANGED active, NEW s \in Staff, CaseByStaff(s)
    PROVE  CaseInv'
<1>. USE PersonnelAssumption DEF CaseIn
<1>1. PICK c \in Cases :
        \/ ClaimCase(s, c) \/ ClaimAppeal(s, c)
        \/ \E d \in Decisions : Decide(s, c, d) \/ FinalizeAppealed(s, c, d)
        \/ FinalizeUnappealed(s, c) \/ FinalizeAgain(s, c)
  BY DEF CaseByStaff
<1>2. cases[c] # None => cases[c] \in CaseRecords
  BY DEF CaseInv, CaseTypeOK
<1>3. cases[c] # None /\ cases[c].issue = "ordinary" => OrdinaryRow(cases[c])
  BY DEF CaseInv, Ordinary
<1>4. CASE ClaimCase(s, c)
  <2>. DEFINE row == [cases[c] EXCEPT !.assignee = s, !.status = "review", !.open = @ \ FirstRound]
  <2>1. row \in CaseRecords
    BY <1>2, <1>4 DEF ClaimCase, CaseRecords, CaseStatuses
  <2>2. ASSUME row.issue = "ordinary" PROVE OrdinaryRow(row)
    <3>1. cases[c].issue = "ordinary" /\ OrdinaryRow(cases[c])
      BY <1>2, <1>3, <1>4, <2>2 DEF ClaimCase, CaseRecords
    <3>2. cases[c].status \in {"review", "evidenceCollection", "counterpartyResponse"}
      BY <3>1, <1>4 DEF ClaimCase, Ready
    <3>3. s \in active
      BY <3>1, <3>2, <1>4 DEF ClaimCase, Assignable, OrdinaryRow, Present
    <3>4. cases[c].appealAssignee = None /\ cases[c].appellant = None
      BY <3>1, <3>2 DEF OrdinaryRow
    <3>5. /\ row.status = "review" /\ row.assignee = s
          /\ row.appealAssignee = None /\ row.appellant = None
      BY <3>4, <1>2, <1>4 DEF ClaimCase, CaseRecords
    <3>. QED BY <3>3, <3>5 DEF OrdinaryRow, Present
  <2>3. cases' = [cases EXCEPT ![c] = row]
    BY <1>4 DEF ClaimCase, CaseInv, CaseTypeOK
  <2>. QED BY <2>1, <2>2, <2>3, CaseChanges
<1>5. CASE ClaimAppeal(s, c)
  <2>. DEFINE row == [cases[c] EXCEPT !.appealAssignee = s]
  <2>1. row \in CaseRecords
    BY <1>2, <1>5 DEF ClaimAppeal, CaseRecords
  <2>2. row.issue = "ordinary" => OrdinaryRow(row)
    BY <1>2, <1>3, <1>5 DEF ClaimAppeal, Assignable, CaseRecords, OrdinaryRow, Present
  <2>3. cases' = [cases EXCEPT ![c] = row]
    BY <1>5 DEF ClaimAppeal
  <2>. QED BY <2>1, <2>2, <2>3, CaseChanges
<1>6. ASSUME NEW d \in Decisions, Decide(s, c, d) PROVE CaseInv'
  <2>. DEFINE row == [cases[c] EXCEPT !.status = "decided", !.decision = d, !.decider = s,
                                      !.open = @ \cup {"appeal"}]
  <2>1. row \in CaseRecords
    BY <1>2, <1>6 DEF Decide, CaseRecords, CaseStatuses, Deadlines
  <2>2. row.issue = "ordinary" => OrdinaryRow(row)
    BY <1>2, <1>3, <1>6 DEF Decide, CaseRecords, OrdinaryRow
  <2>3. cases' = [cases EXCEPT ![c] = row]
    BY <1>6 DEF Decide, CaseInv, CaseTypeOK
  <2>. QED BY <2>1, <2>2, <2>3, CaseChanges
<1>7. ASSUME NEW d \in Decisions, FinalizeAppealed(s, c, d) PROVE CaseInv'
  <2>. DEFINE starts == d = "fullRefund" /\ ~cases[c].refund
              row == [cases[c] EXCEPT !.status = "final", !.outcome = d, !.reviewer = s,
                                      !.starting = starts]
  <2>1. row \in CaseRecords
    <3>1. starts \in BOOLEAN
      OBVIOUS
    <3>2. cases[c] \in CaseRecords /\ d \in Decisions \cup {None} /\ s \in Staff \cup {None}
      BY <1>2, <1>7 DEF FinalizeAppealed
    <3>. HIDE DEF starts
    <3>. QED BY <3>1, <3>2 DEF CaseRecords, CaseStatuses
  <2>2. row.issue = "ordinary" => OrdinaryRow(row)
    BY <1>2, <1>3, <1>7 DEF FinalizeAppealed, CaseRecords, OrdinaryRow
  <2>3. cases' = [cases EXCEPT ![c] = row]
    BY <1>7 DEF FinalizeAppealed, CaseInv, CaseTypeOK
  <2>. QED BY <2>1, <2>2, <2>3, CaseChanges
<1>8. CASE FinalizeUnappealed(s, c)
  <2>. DEFINE starts == cases[c].decision = "fullRefund" /\ ~cases[c].refund
              row == [cases[c] EXCEPT !.status = "final", !.outcome = cases[c].decision,
                                      !.starting = starts]
  <2>1. row \in CaseRecords
    <3>1. starts \in BOOLEAN
      OBVIOUS
    <3>. HIDE DEF starts
    <3>. QED BY <3>1, <1>2, <1>8 DEF FinalizeUnappealed, CaseRecords, CaseStatuses
  <2>2. row.issue = "ordinary" => OrdinaryRow(row)
    BY <1>2, <1>3, <1>8 DEF FinalizeUnappealed, CaseRecords, OrdinaryRow
  <2>3. cases' = [cases EXCEPT ![c] = row]
    BY <1>8 DEF FinalizeUnappealed, CaseInv, CaseTypeOK
  <2>. QED BY <2>1, <2>2, <2>3, CaseChanges
<1>9. CASE FinalizeAgain(s, c)
  <2>. DEFINE row == [cases[c] EXCEPT !.starting = TRUE]
  <2>1. row \in CaseRecords
    BY <1>2, <1>9 DEF FinalizeAgain, CaseRecords
  <2>2. row.issue = "ordinary" => OrdinaryRow(row)
    BY <1>2, <1>3, <1>9 DEF FinalizeAgain, CaseRecords, OrdinaryRow
  <2>3. cases' = [cases EXCEPT ![c] = row]
    BY <1>9 DEF FinalizeAgain
  <2>. QED BY <2>1, <2>2, <2>3, CaseChanges
<1>. QED BY <1>1, <1>4, <1>5, <1>6, <1>7, <1>8, <1>9

\* Suspending a colleague takes the work over, or there was none.
LEMMA CaseHandover ==
    ASSUME CaseInv, Suspension
    PROVE  CaseInv'
<1>. USE PersonnelAssumption DEF CaseIn
<1>1. PICK a \in Admins, s \in Staff, r \in Admins \cup {None} : Suspend(a, s, r)
  BY DEF Suspension
<1>2. active' = active \ {s} /\ None # s
  BY <1>1 DEF Suspend
<1>3. CASE HasAssignments(s) \/ r # None
  <2>1. r \in Present' /\ r \in Staff \ {None} /\ Handoff(s, r)
    BY <1>1, <1>2, <1>3 DEF Suspend, Present, Staff
  <2>2. ASSUME NEW c \in Cases
        PROVE  /\ cases'[c] \in CaseRecords \cup {None}
               /\ Ordinary(c)' => OrdinaryRow(cases[c])'
    <3>1. cases[c] \in CaseRecords \cup {None} /\ (Ordinary(c) => OrdinaryRow(cases[c]))
      BY DEF CaseInv, CaseTypeOK
    <3>2. CASE c \in CaseHandedOver(s)
      <4>1. c \notin AppealHandedOver(s)
        BY <3>2 DEF CaseHandedOver, AppealHandedOver
      <4>2. cases'[c] = [cases[c] EXCEPT !.assignee = r]
        BY <4>1, <3>2, <2>1 DEF Handoff
      <4>3. cases[c] \in CaseRecords /\ cases[c].status = "review"
        BY <3>1, <3>2 DEF CaseHandedOver
      <4>4. cases'[c] \in CaseRecords
        BY <4>2, <4>3, <2>1 DEF CaseRecords
      <4>5. ASSUME Ordinary(c)' PROVE OrdinaryRow(cases[c])'
        <5>1. /\ cases'[c].status = "review" /\ cases'[c].assignee = r
              /\ cases'[c].issue = cases[c].issue
              /\ cases'[c].appealAssignee = cases[c].appealAssignee
              /\ cases'[c].appellant = cases[c].appellant
          BY <4>2, <4>3 DEF CaseRecords
        <5>2. OrdinaryRow(cases[c])
          BY <3>1, <4>5, <5>1, <3>2 DEF Ordinary, CaseHandedOver
        <5>. QED BY <5>1, <5>2, <4>3, <2>1 DEF OrdinaryRow
      <4>. QED BY <4>4, <4>5
    <3>3. CASE c \in AppealHandedOver(s)
      <4>. DEFINE receiver == Receiver(r, cases[c].decider)
      <4>1. c \notin CaseHandedOver(s)
        BY <3>3 DEF CaseHandedOver, AppealHandedOver
      <4>2. cases'[c] = [cases[c] EXCEPT !.appealAssignee = receiver]
        BY <4>1, <3>3, <2>1 DEF Handoff
      <4>3. cases[c] \in CaseRecords /\ cases[c].status = "appealed"
        BY <3>1, <3>3 DEF AppealHandedOver
      <4>4. /\ receiver \in Present' /\ receiver \in Staff \cup {None}
            /\ receiver # None => receiver # cases[c].decider
        BY <2>1, <1>2 DEF Receiver, Present
      <4>. HIDE DEF receiver
      <4>5. cases'[c] \in CaseRecords
        BY <4>2, <4>3, <4>4 DEF CaseRecords
      <4>6. ASSUME Ordinary(c)' PROVE OrdinaryRow(cases[c])'
        <5>1. /\ cases'[c].status = "appealed" /\ cases'[c].appealAssignee = receiver
              /\ cases'[c].decider = cases[c].decider
          BY <4>2, <4>3 DEF CaseRecords
        <5>. QED BY <5>1, <4>4 DEF OrdinaryRow
      <4>. QED BY <4>5, <4>6
    <3>4. CASE c \notin CaseHandedOver(s) \cup AppealHandedOver(s)
      <4>1. cases'[c] = cases[c]
        BY <3>4, <2>1 DEF Handoff
      <4>2. ASSUME Ordinary(c)' PROVE OrdinaryRow(cases[c])'
        BY <4>1, <4>2, <3>1, <3>4, <1>2 DEF Ordinary, OrdinaryRow, CaseHandedOver, AppealHandedOver, Present
      <4>. QED BY <3>1, <4>1, <4>2
    <3>. QED BY <3>2, <3>3, <3>4
  <2>3. cases' = [c \in Cases |-> cases'[c]]
    BY <2>1 DEF Handoff
  <2>. QED BY <2>2, <2>3 DEF CaseInv, CaseTypeOK
<1>4. CASE ~(HasAssignments(s) \/ r # None)
  <2>1. UNCHANGED cases
    BY <1>1, <1>4 DEF Suspend
  <2>2. ASSUME NEW c \in Cases, Ordinary(c)' PROVE OrdinaryRow(cases[c])'
    <3>1. Ordinary(c) /\ OrdinaryRow(cases[c])
      BY <2>1, <2>2 DEF CaseInv, Ordinary
    <3>2. c \notin CaseHandedOver(s) \cup AppealHandedOver(s)
      BY <1>4 DEF HasAssignments
    <3>. QED BY <3>1, <3>2, <2>1, <1>2 DEF Ordinary, OrdinaryRow, CaseHandedOver, AppealHandedOver, Present
  <2>. QED BY <2>1, <2>2 DEF CaseInv, CaseTypeOK
<1>. QED BY <1>3, <1>4

LEMMA CaseInvKept ==
    ASSUME CaseInv, [Next]_vars
    PROVE  CaseInv'
<1>1. CASE UNCHANGED <<cases, active>>
  BY <1>1 DEF CaseInv, CaseTypeOK, Ordinary, OrdinaryRow, Present
<1>. QED BY <1>1, CaseSteps, CaseArisesKeeps, CaseByStaffKeeps, CaseHandover

-----------------------------------------------------------------------------
(***************************************************************************)
(* Complaints.                                                             *)
(***************************************************************************)

\* What the invariant says of one reply.
ReplyFacts(r) ==
    /\ reply[r] \in ReplyRows \cup {None} /\ sending[r] \in Calls
    /\ sending[r] # "none" => reply[r] # None
    /\ sending[r] = "answered" => reply[r].text \in wx.log
    /\ reply[r] # None /\ reply[r].status = "submitted" => reply[r].text \in wx.log

\* The invariant in the form the steps keep it: reply by reply.
LEMMA ComplaintByReply ==
    ComplaintInv <=>
      /\ wx \in WxRecords /\ dispute \in DisputeRecords \cup {None}
      /\ finishing \in Calls /\ fetched \in Readings \cup {None}
      /\ (\E r \in Replies : sending[r] # "none") \/ finishing # "none" \/ fetched # None =>
            dispute # None
      /\ fetched # None => fetched.detail.log \subseteq wx.log /\ fetched.detail.state # "none"
      /\ reply \in [Replies -> ReplyRows \cup {None}] /\ sending \in [Replies -> Calls]
      /\ \A r \in Replies : ReplyFacts(r)
  BY DEF ComplaintInv, ComplaintTypeOK, ReplyFacts

\* WeChat's record changes: nothing is taken from its history.
LEMMA WxGrows ==
    ASSUME ComplaintInv, wx' \in WxRecords, wx.log \subseteq wx'.log,
           UNCHANGED <<dispute, reply, fetched>>,
           sending' \in [Replies -> Calls], finishing' \in Calls,
           finishing' # "none" => finishing # "none",
           \A r \in Replies : /\ sending'[r] # "none" => sending[r] # "none"
                              /\ sending'[r] = "answered" => sending[r] = "answered" \/ reply[r].text \in wx'.log
    PROVE  ComplaintInv'
  BY DEF ComplaintInv, ComplaintTypeOK, WxRecords, Readings

\* Only the row of the complaint changes, and what is under way may end.
LEMMA DisputeChanges ==
    ASSUME ComplaintInv, dispute' \in DisputeRecords \cup {None}, dispute # None => dispute' # None,
           UNCHANGED <<wx, reply, sending>>, finishing' \in {finishing, "none"},
           fetched' \in {fetched, None}
    PROVE  ComplaintInv'
<1>1. finishing' \in Calls /\ fetched' \in Readings \cup {None}
  BY DEF ComplaintInv, ComplaintTypeOK, Calls
<1>. QED BY <1>1 DEF ComplaintInv, ComplaintTypeOK

LEMMA WechatSteps ==
    ASSUME ComplaintInv,
           \/ UserWrites \/ WechatCompletes \/ WechatRefusesCompletion
           \/ \E r \in Replies : WechatTakesReply(r) \/ WechatRefusesReply(r)
    PROVE  ComplaintInv'
<1>1. wx \in WxRecords /\ sending \in [Replies -> Calls] /\ finishing \in Calls
      /\ reply \in [Replies -> ReplyRows \cup {None}]
  BY DEF ComplaintInv, ComplaintTypeOK
<1>2. CASE UserWrites
  <2>. DEFINE state == IF wx.state \in {"none", "PROCESSED"} THEN "PENDING" ELSE wx.state
  <2>1. state \in ProviderStates
    BY <1>1 DEF WxRecords, ProviderStates
  <2>2. wx' = [wx EXCEPT !.unread = TRUE, !.state = state]
    BY <1>1, <1>2 DEF UserWrites, WxRecords
  <2>. HIDE DEF state
  <2>3. wx' \in WxRecords /\ wx'.log = wx.log
    BY <1>1, <2>1, <2>2 DEF WxRecords
  <2>. QED BY <1>1, <1>2, <2>3, WxGrows DEF UserWrites
<1>3. CASE WechatCompletes
  <2>1. wx' = [wx EXCEPT !.state = "PROCESSED"]
    BY <1>3 DEF WechatCompletes
  <2>2. wx' \in WxRecords /\ wx'.log = wx.log
    BY <2>1, <1>1 DEF WxRecords, ProviderStates
  <2>. QED BY <1>1, <1>3, <2>2, WxGrows DEF WechatCompletes, Calls
<1>4. CASE WechatRefusesCompletion
  BY <1>1, <1>4, WxGrows DEF WechatRefusesCompletion, Calls
<1>5. ASSUME NEW r \in Replies, WechatTakesReply(r) PROVE ComplaintInv'
  <2>. DEFINE state == IF wx.state = "PENDING" THEN "PROCESSING" ELSE wx.state
              log == wx.log \cup {reply[r].text}
  <2>1. reply[r] \in ReplyRows
    BY <1>5 DEF WechatTakesReply, ComplaintInv, ComplaintTypeOK
  <2>2. state \in ProviderStates /\ log \in SUBSET Texts
    BY <1>1, <2>1 DEF WxRecords, ProviderStates, ReplyRows
  <2>3. wx' = [wx EXCEPT !.log = log, !.unread = FALSE, !.state = state]
    BY <1>1, <1>5 DEF WechatTakesReply, WxRecords
  <2>4. wx.log \subseteq log /\ reply[r].text \in log
    OBVIOUS
  <2>. HIDE DEF state, log
  <2>5. wx' \in WxRecords /\ wx'.log = log
    BY <1>1, <2>2, <2>3 DEF WxRecords
  <2>6. PICK end \in {"answered", "failed"} : sending' = [sending EXCEPT ![r] = end]
    BY <1>5 DEF WechatTakesReply
  <2>7. sending' \in [Replies -> Calls] /\ sending[r] # "none"
    BY <1>1, <1>5, <2>6 DEF WechatTakesReply, Calls
  <2>8. ASSUME NEW q \in Replies
        PROVE  /\ sending'[q] # "none" => sending[q] # "none"
               /\ sending'[q] = "answered" => sending[q] = "answered" \/ reply[q].text \in wx'.log
    BY <1>1, <2>4, <2>5, <2>6, <2>7
  <2>. QED BY <1>1, <1>5, <2>4, <2>5, <2>7, <2>8, WxGrows DEF WechatTakesReply
<1>6. ASSUME NEW r \in Replies, WechatRefusesReply(r) PROVE ComplaintInv'
  <2>1. /\ sending' \in [Replies -> Calls] /\ sending'[r] = "failed" /\ sending[r] # "none"
        /\ \A q \in Replies \ {r} : sending'[q] = sending[q]
    BY <1>1, <1>6 DEF WechatRefusesReply, Calls
  <2>. QED BY <1>1, <1>6, <2>1, WxGrows DEF WechatRefusesReply
<1>. QED BY <1>2, <1>3, <1>4, <1>5, <1>6

LEMMA SynchronisationSteps ==
    ASSUME ComplaintInv, Notify \/ (\E full \in BOOLEAN : Fetch(full)) \/ Apply \/ FetchFails
    PROVE  ComplaintInv'
<1>. USE ComplaintAssumption
<1>1. /\ wx \in WxRecords /\ dispute \in DisputeRecords \cup {None}
      /\ fetched \in Readings \cup {None}
      /\ NewDispute \in DisputeRecords
  BY PersonnelAssumption
  DEF ComplaintInv, ComplaintTypeOK, NewDispute, DisputeRecords, ActiveDispute, ProviderStates
<1>2. CASE Notify
  BY <1>1, <1>2, DisputeChanges DEF Notify
<1>3. ASSUME NEW full \in BOOLEAN, Fetch(full) PROVE ComplaintInv'
  <2>1. fetched' \in Readings /\ fetched'.detail = wx /\ wx.state # "none"
    BY <1>1, <1>3 DEF Fetch, Readings
  <2>2. dispute' \in DisputeRecords
    BY <1>1, <1>3 DEF Fetch
  <2>. QED BY <2>1, <2>2, <1>3 DEF Fetch, ComplaintInv, ComplaintTypeOK
<1>4. CASE Apply
  <2>. DEFINE seen == fetched.detail
              status == StatusOf(seen.state)
              answered == dispute.answered \/ (fetched.full /\ seen.log # {})
              completion == IF seen.state = "PROCESSED" /\ dispute.completion = "outcomeUnknown"
                            THEN "submitted" ELSE dispute.completion
  <2>1. /\ fetched \in Readings /\ seen \in WxRecords
        /\ seen.state # "none" /\ seen.log \subseteq wx.log
        /\ dispute \in DisputeRecords
    BY <1>1, <1>4 DEF Apply, Readings, ComplaintInv
  <2>2. status \in ActiveDispute \cup {"resolved"}
    BY <2>1 DEF StatusOf, WxRecords, ProviderStates, ActiveDispute
  <2>3. answered \in BOOLEAN /\ completion \in Uncertain \cup {"submitted", None}
    BY <2>1 DEF DisputeRecords, Uncertain
  <2>4. dispute' = [dispute EXCEPT !.status = status, !.provider = seen.state,
                                   !.unread = seen.unread, !.answered = answered,
                                   !.completion = completion]
    BY <1>4, <2>1 DEF Apply, DisputeRecords
  <2>5. seen.state \in ProviderStates /\ seen.unread \in BOOLEAN
    BY <2>1 DEF WxRecords
  <2>6. dispute' \in DisputeRecords
    <3>. HIDE DEF seen, status, answered, completion
    <3>. QED BY <2>1, <2>2, <2>3, <2>4, <2>5 DEF DisputeRecords
  <2>. HIDE DEF seen, status, answered, completion
  <2>7. ASSUME NEW r \in Replies
        PROVE  /\ reply'[r] \in ReplyRows \cup {None}
               /\ reply'[r] = None <=> reply[r] = None
               /\ reply[r] # None => reply'[r].text = reply[r].text
               /\ reply'[r] # None /\ reply'[r].status = "submitted" => reply[r].text \in wx.log
    <3>1. reply[r] \in ReplyRows \cup {None}
      BY DEF ComplaintInv, ComplaintTypeOK
    <3>2. CASE r \in Reconciled
      <4>1. /\ reply[r] \in ReplyRows /\ reply[r].text \in wx.log
            /\ reply'[r] = [reply[r] EXCEPT !.status = "submitted"]
        BY <1>4, <2>1, <3>1, <3>2 DEF Reconciled, Apply, seen
      <4>. QED BY <4>1 DEF ReplyRows
    <3>3. CASE r \notin Reconciled
      BY <1>4, <3>1, <3>3 DEF Apply, ComplaintInv
    <3>. QED BY <3>2, <3>3
  <2>8. reply' \in [Replies -> ReplyRows \cup {None}]
    BY <1>4, <2>7 DEF Apply
  <2>9. /\ UNCHANGED <<wx, sending, finishing>> /\ fetched' = None
        /\ dispute' # None
    BY <1>4, <2>6 DEF Apply
  <2>. QED BY <2>6, <2>7, <2>8, <2>9 DEF ComplaintInv, ComplaintTypeOK
<1>5. CASE FetchFails
  <2>1. dispute \in DisputeRecords
    BY <1>1, <1>5 DEF FetchFails, ComplaintInv
  <2>2. dispute' \in DisputeRecords
    BY <2>1, <1>5 DEF FetchFails, DisputeRecords, ActiveDispute
  <2>. QED BY <1>5, <2>2, DisputeChanges DEF FetchFails
<1>. QED BY <1>2, <1>3, <1>4, <1>5

LEMMA AnswerSteps ==
    ASSUME ComplaintInv,
           \/ CompletionRecorded \/ CompletionUnknown \/ ComplaintCrash
           \/ \E r \in Replies : ReplyRecorded(r) \/ ReplyUnknown(r)
    PROVE  ComplaintInv'
<1>. USE ComplaintAssumption
<1>1. CASE CompletionRecorded
  <2>1. dispute \in DisputeRecords
    BY <1>1 DEF CompletionRecorded, ComplaintInv, ComplaintTypeOK
  <2>2. dispute' \in DisputeRecords
    BY <2>1, <1>1 DEF CompletionRecorded, DisputeRecords, ActiveDispute, ProviderStates
  <2>. QED BY <1>1, <2>2, DisputeChanges DEF CompletionRecorded
<1>2. CASE CompletionUnknown
  <2>1. dispute \in DisputeRecords
    BY <1>2 DEF CompletionUnknown, ComplaintInv, ComplaintTypeOK
  <2>2. dispute' \in DisputeRecords
    BY <2>1, <1>2 DEF CompletionUnknown, DisputeRecords, Uncertain
  <2>. QED BY <1>2, <2>2, DisputeChanges DEF CompletionUnknown
<1>3. CASE ComplaintCrash
  BY <1>3 DEF ComplaintCrash, ComplaintInv, ComplaintTypeOK, Calls
<1>4. ASSUME NEW r \in Replies, NEW status \in Uncertain \cup {"submitted"},
             sending[r] \in {"answered", "failed"},
             status = "submitted" => sending[r] = "answered",
             reply' = [reply EXCEPT ![r].status = status],
             sending' = [sending EXCEPT ![r] = "none"],
             dispute' \in DisputeRecords, UNCHANGED <<wx, finishing, fetched>>
      PROVE  ComplaintInv'
  <2>1. reply[r] \in ReplyRows
    BY <1>4 DEF ComplaintInv, ComplaintTypeOK
  <2>2. /\ reply'[r] = [reply[r] EXCEPT !.status = status]
        /\ \A q \in Replies \ {r} : reply'[q] = reply[q] /\ sending'[q] = sending[q]
        /\ sending'[r] = "none"
    BY <1>4 DEF ComplaintInv, ComplaintTypeOK
  <2>3. reply'[r] \in ReplyRows /\ reply'[r].status = status /\ reply'[r].text = reply[r].text
    BY <2>1, <2>2 DEF ReplyRows
  <2>4. /\ reply' \in [Replies -> ReplyRows \cup {None}]
        /\ sending' \in [Replies -> Calls]
    BY <1>4, <2>2, <2>3 DEF ComplaintInv, ComplaintTypeOK, Calls
  <2>5. dispute' # None
    BY <1>4
  <2>6. status = "submitted" => reply'[r].text \in wx'.log
    BY <1>4, <2>3 DEF ComplaintInv
  <2>7. ASSUME NEW q \in Replies PROVE ReplyFacts(q)'
    <3>1. CASE q = r
      BY <3>1, <2>2, <2>3, <2>4, <2>6 DEF ReplyFacts
    <3>2. CASE q # r
      BY <3>2, <2>2, <2>4, <1>4, ComplaintByReply DEF ReplyFacts
    <3>. QED BY <3>1, <3>2
  <2>. QED BY <1>4, <2>4, <2>5, <2>7 DEF ComplaintInv, ComplaintTypeOK, ReplyFacts
<1>5. ASSUME NEW r \in Replies, ReplyRecorded(r) PROVE ComplaintInv'
  <2>1. dispute \in DisputeRecords
    BY <1>5 DEF ReplyRecorded, ComplaintInv, ComplaintTypeOK
  <2>2. dispute' \in DisputeRecords
    BY <2>1, <1>5 DEF ReplyRecorded, DisputeRecords, ActiveDispute, ProviderStates
  <2>. QED BY <1>4, <1>5, <2>2 DEF ReplyRecorded
<1>6. ASSUME NEW r \in Replies, ReplyUnknown(r) PROVE ComplaintInv'
  <2>1. dispute \in DisputeRecords
    BY <1>6 DEF ReplyUnknown, ComplaintInv, ComplaintTypeOK
  <2>2. "outcomeUnknown" \in Uncertain \cup {"submitted"} /\ "outcomeUnknown" # "submitted"
    BY DEF Uncertain
  <2>3. /\ sending[r] \in {"answered", "failed"}
        /\ reply' = [reply EXCEPT ![r].status = "outcomeUnknown"]
        /\ sending' = [sending EXCEPT ![r] = "none"]
        /\ dispute' \in DisputeRecords /\ UNCHANGED <<wx, finishing, fetched>>
    BY <1>6, <2>1 DEF ReplyUnknown
  <2>. QED BY <2>2, <2>3, <1>4
<1>. QED BY <1>1, <1>2, <1>3, <1>5, <1>6

LEMMA ComplaintByStaffKeeps ==
    ASSUME ComplaintInv, NEW s \in Staff, ComplaintByStaff(s)
    PROVE  ComplaintInv'
<1>. USE ComplaintAssumption
<1>1. dispute \in DisputeRecords \cup {None}
  BY DEF ComplaintInv, ComplaintTypeOK
<1>2. ASSUME NEW t \in Staff, dispute # None, dispute' = [dispute EXCEPT !.assignee = t],
             UNCHANGED <<wx, reply, sending, finishing, fetched>>
      PROVE  ComplaintInv'
  <2>1. dispute' \in DisputeRecords
    BY <1>1, <1>2 DEF DisputeRecords
  <2>. QED BY <1>2, <2>1, DisputeChanges
<1>3. CASE ClaimComplaint(s)
  BY <1>2, <1>3 DEF ClaimComplaint, DisputeIn
<1>4. ASSUME NEW t \in Support, AssignComplaint(t) PROVE ComplaintInv'
  BY <1>2, <1>4 DEF AssignComplaint, DisputeIn, Staff
<1>5. ASSUME NEW r \in Replies, NEW x \in Texts, Reply(s, r, x) PROVE ComplaintInv'
  <2>. DEFINE row == [text |-> x, status |-> "submitting"]
  <2>1. row \in ReplyRows /\ row.status # "submitted"
    BY DEF ReplyRows, Uncertain
  <2>2. reply' = [reply EXCEPT ![r] = row] /\ sending' = [sending EXCEPT ![r] = "calling"]
    BY <1>5 DEF Reply
  <2>. HIDE DEF row
  <2>3. /\ reply'[r] = row /\ sending'[r] = "calling"
        /\ \A q \in Replies \ {r} : reply'[q] = reply[q] /\ sending'[q] = sending[q]
        /\ reply' \in [Replies -> ReplyRows \cup {None}]
        /\ sending' \in [Replies -> Calls]
    BY <2>1, <2>2 DEF ComplaintInv, ComplaintTypeOK, Calls
  <2>4. dispute # None /\ UNCHANGED <<wx, dispute, finishing, fetched>>
    BY <1>5 DEF Reply, DisputeIn
  <2>5. ASSUME NEW q \in Replies PROVE ReplyFacts(q)'
    <3>1. CASE q = r
      BY <3>1, <2>1, <2>3 DEF ReplyFacts, Calls
    <3>2. CASE q # r
      BY <3>2, <2>3, <2>4, ComplaintByReply DEF ReplyFacts
    <3>. QED BY <3>1, <3>2
  <2>. QED BY <2>3, <2>4, <2>5 DEF ComplaintInv, ComplaintTypeOK, ReplyFacts
<1>6. ASSUME NEW k \in Keys, Complete(s, k) PROVE ComplaintInv'
  <2>1. dispute \in DisputeRecords
    BY <1>1, <1>6 DEF Complete
  <2>2. dispute' \in DisputeRecords
    BY <2>1, <1>6 DEF Complete, DisputeRecords, Uncertain
  <2>3. finishing' = "calling" /\ UNCHANGED <<wx, reply, sending, fetched>>
    BY <1>6 DEF Complete
  <2>. QED BY <2>2, <2>3 DEF ComplaintInv, ComplaintTypeOK, Calls
<1>. QED BY <1>3, <1>4, <1>5, <1>6 DEF ComplaintByStaff

LEMMA ComplaintInvKept ==
    ASSUME ComplaintInv, [Next]_vars
    PROVE  ComplaintInv'
<1>1. CASE UNCHANGED complaintVars
  BY <1>1 DEF complaintVars, ComplaintInv, ComplaintTypeOK
<1>2. CASE ComplaintSteps
  BY <1>2, WechatSteps, SynchronisationSteps, AnswerSteps DEF ComplaintSteps
<1>3. CASE Suspension
  <2>1. PICK a \in Admins, s \in Staff, r \in Admins \cup {None} : Suspend(a, s, r)
    BY <1>3 DEF Suspension
  <2>2. CASE Handoff(s, r) /\ r \in Admins
    <3>1. dispute \in DisputeRecords \cup {None}
      BY DEF ComplaintInv, ComplaintTypeOK
    <3>2. CASE DisputeIn(ActiveDispute) /\ dispute.assignee = s
      <4>1. dispute' \in DisputeRecords
        BY <2>2, <3>1, <3>2 DEF Handoff, DisputeIn, DisputeRecords, Staff
      <4>. QED BY <2>2, <4>1, DisputeChanges, ComplaintAssumption DEF Handoff
    <3>3. CASE ~(DisputeIn(ActiveDispute) /\ dispute.assignee = s)
      BY <2>2, <3>1, <3>3, DisputeChanges DEF Handoff
    <3>. QED BY <3>2, <3>3
  <2>. QED BY <1>1, <2>1, <2>2 DEF Suspend
<1>. QED BY <1>1, <1>2, <1>3, ComplaintFrame, ComplaintByStaffKeeps

-----------------------------------------------------------------------------
(***************************************************************************)
(* The standing of the companion.                                          *)
(***************************************************************************)

\* What the invariant says of the profile and its publication.
ProfileInv ==
    /\ profile \in ProfileRows /\ published \in BOOLEAN
    /\ identity \in [verified : BOOLEAN, revoker : Curators \cup {None}]
    /\ profile.adult \/ profile.status = "verified" =>
          profile.verifier \notin {None, profile.submitter}

ActionsInv ==
    /\ actions \in [Actions -> ActionRecords \cup {None}]
    /\ \A x \in Actions : actions[x] # None => ActionRow(actions[x])

OnOffer == profile.status = "verified" /\ identity.verified /\ \A x \in Actions : ~InForce(x)

LEMMA StandingParts ==
    StandingInv <=> ProfileInv /\ ActionsInv /\ (published => OnOffer)
  BY DEF StandingInv, StandingTypeOK, ProfileInv, ActionsInv, OnOffer

LEMMA StandingPartsNext ==
    StandingInv' <=> ProfileInv' /\ ActionsInv' /\ (published' => OnOffer')
  BY DEF StandingInv, StandingTypeOK, ProfileInv, ActionsInv, OnOffer

LEMMA CuratorsAreStaff == Curators \subseteq Staff /\ None \notin Curators
  BY PersonnelAssumption DEF Curators, Staff

\* Only the profile, its publication or the identity of its owner changes.
LEMMA ProfileSteps ==
    ASSUME StandingInv, UNCHANGED active, NEW s \in Curators,
           \/ SubmitProfile(s) \/ VerifyProfile(s) \/ SuspendProfile(s)
           \/ Publish(s) \/ Unpublish(s) \/ IdentityByStaff(s)
    PROVE  StandingInv'
<1>. USE CuratorsAreStaff
<1>1. ProfileInv /\ ActionsInv /\ (published => OnOffer)
  BY StandingParts
<1>2. ActionsInv' /\ UNCHANGED actions
  BY <1>1 DEF ActionsInv, ActionRow, Present, SubmitProfile, VerifyProfile, SuspendProfile, Publish,
              Unpublish, IdentityByStaff, RequestRevocation, ReviewRevocation
<1>3. CASE SubmitProfile(s)
  BY <1>1, <1>2, <1>3, StandingPartsNext DEF SubmitProfile, ProfileInv, ProfileRows
<1>4. CASE VerifyProfile(s)
  <2>1. profile' \in ProfileRows /\ profile'.verifier = s /\ profile'.submitter = profile.submitter
    BY <1>1, <1>4 DEF VerifyProfile, ProfileInv, ProfileRows
  <2>2. ~published
    BY <1>1, <1>4 DEF VerifyProfile, OnOffer
  <2>. QED BY <1>1, <1>2, <1>4, <2>1, <2>2, StandingPartsNext DEF VerifyProfile, ProfileInv
<1>5. CASE SuspendProfile(s)
  <2>1. /\ profile' \in ProfileRows /\ profile'.status = "suspended" /\ profile'.adult = profile.adult
        /\ profile'.verifier = profile.verifier /\ profile'.submitter = profile.submitter
    BY <1>1, <1>5 DEF SuspendProfile, ProfileInv, ProfileRows
  <2>. QED BY <1>1, <1>2, <1>5, <2>1, StandingPartsNext DEF SuspendProfile, ProfileInv
<1>6. CASE Publish(s)
  <2>1. OnOffer'
    BY <1>2, <1>6 DEF Publish, Publishable, OnOffer, InForce
  <2>. QED BY <1>1, <1>2, <1>6, <2>1, StandingPartsNext DEF Publish, ProfileInv
<1>7. CASE Unpublish(s)
  BY <1>1, <1>2, <1>7, StandingPartsNext DEF Unpublish, ProfileInv
<1>8. CASE RequestRevocation(s)
  <2>1. /\ identity' \in [verified : BOOLEAN, revoker : Curators \cup {None}]
        /\ identity'.verified = identity.verified
    BY <1>1, <1>8 DEF RequestRevocation, ProfileInv
  <2>. QED BY <1>1, <1>2, <1>8, <2>1, StandingPartsNext DEF RequestRevocation, ProfileInv, OnOffer, InForce
<1>9. ASSUME NEW approved \in BOOLEAN, ReviewRevocation(s, approved) PROVE StandingInv'
  <2>1. ProfileInv'
    BY <1>1, <1>9 DEF ReviewRevocation, ProfileInv
  <2>2. published' => OnOffer'
    BY <1>1, <1>2, <1>9 DEF ReviewRevocation, ProfileInv, OnOffer, InForce
  <2>. QED BY <1>2, <2>1, <2>2, StandingPartsNext
<1>. QED BY <1>3, <1>4, <1>5, <1>6, <1>7, <1>8, <1>9 DEF IdentityByStaff

\* One action changes into another that is no more in force than it was.
LEMMA ActionChanges ==
    ASSUME StandingInv, UNCHANGED active, NEW x \in Actions, actions[x] # None,
           NEW row \in ActionRecords, ActionRow(row),
           ~row.revoked /\ ~row.ended => InForce(x),
           actions' = [actions EXCEPT ![x] = row],
           \/ UNCHANGED <<profile, published, identity>>
           \/ ProfileInv' /\ ~published'
    PROVE  StandingInv'
<1>1. ProfileInv /\ ActionsInv /\ (published => OnOffer)
  BY StandingParts
<1>2. /\ actions' \in [Actions -> ActionRecords \cup {None}]
      /\ actions'[x] = row /\ \A y \in Actions \ {x} : actions'[y] = actions[y]
  BY <1>1 DEF ActionsInv
<1>3. ActionsInv'
  BY <1>1, <1>2 DEF ActionsInv, ActionRow, Present
<1>4. ASSUME NEW y \in Actions, InForce(y)' PROVE InForce(y)
  BY <1>2, <1>4 DEF InForce
<1>5. CASE UNCHANGED <<profile, published, identity>>
  BY <1>1, <1>3, <1>4, <1>5, StandingPartsNext DEF ProfileInv, OnOffer
<1>6. CASE ProfileInv' /\ ~published'
  BY <1>3, <1>6, StandingPartsNext
<1>. QED BY <1>5, <1>6

\* An action changes by a step that leaves the profile alone.
LEMMA AppealSteps ==
    ASSUME StandingInv, UNCHANGED active, NEW x \in Actions,
           \/ EndAction(x) \/ AppealAction(x)
           \/ \E s \in Curators : \/ ClaimActionAppeal(s, x)
                                  \/ \E t \in Curators : AssignActionAppeal(s, x, t)
                                  \/ \E outcome \in {"upheld", "overturned"} : ResolveActionAppeal(s, x, outcome)
    PROVE  StandingInv'
<1>. USE CuratorsAreStaff
<1>1. actions[x] # None => actions[x] \in ActionRecords /\ ActionRow(actions[x])
  BY DEF StandingInv, StandingTypeOK
<1>2. CASE EndAction(x)
  <2>. DEFINE row == [actions[x] EXCEPT !.ended = TRUE]
  <2>1. actions[x] # None /\ row \in ActionRecords
    BY <1>1, <1>2 DEF EndAction, InForce, ActionRecords
  <2>2. ActionRow(row) /\ row.ended
    BY <1>1, <2>1 DEF ActionRecords, ActionRow
  <2>3. actions' = [actions EXCEPT ![x] = row]
    BY <1>2 DEF EndAction
  <2>. QED BY <1>2, <2>1, <2>2, <2>3, ActionChanges DEF EndAction
<1>3. CASE AppealAction(x)
  <2>. DEFINE row == [actions[x] EXCEPT !.appeal = "pending"]
  <2>1. actions[x] # None /\ row \in ActionRecords
    BY <1>1, <1>3 DEF AppealAction, InForce, ActionRecords
  <2>2. ActionRow(row)
    BY <1>1, <1>3, <2>1 DEF AppealAction, InForce, ActionRecords, ActionRow, Present
  <2>3. actions' = [actions EXCEPT ![x] = row] /\ InForce(x)
    BY <1>3 DEF AppealAction
  <2>. QED BY <1>3, <2>1, <2>2, <2>3, ActionChanges DEF AppealAction
<1>4. ASSUME NEW t \in Curators, t \in active, Reviewable(t, x),
             actions' = [actions EXCEPT ![x].assignee = t], UNCHANGED <<profile, published, identity>>
      PROVE  StandingInv'
  <2>. DEFINE row == [actions[x] EXCEPT !.assignee = t]
  <2>1. actions[x] # None /\ row \in ActionRecords
    BY <1>1, <1>4 DEF Reviewable, ActionRecords
  <2>2. ActionRow(row)
    BY <1>1, <1>4, <2>1 DEF Reviewable, ActionRecords, ActionRow, Present
  <2>3. row.revoked = actions[x].revoked /\ row.ended = actions[x].ended
    BY <1>1, <2>1 DEF ActionRecords
  <2>. QED BY <1>4, <2>1, <2>2, <2>3, ActionChanges DEF InForce
<1>5. ASSUME NEW s \in Curators, ClaimActionAppeal(s, x) PROVE StandingInv'
  BY <1>4, <1>5 DEF ClaimActionAppeal
<1>6. ASSUME NEW s \in Curators, NEW t \in Curators, AssignActionAppeal(s, x, t) PROVE StandingInv'
  BY <1>4, <1>6 DEF AssignActionAppeal
<1>7. ASSUME NEW s \in Curators, NEW outcome \in {"upheld", "overturned"},
             ResolveActionAppeal(s, x, outcome)
      PROVE  StandingInv'
  <2>. DEFINE appealReview == IF outcome = "overturned" THEN "required" ELSE "notRequired"
              revoked == outcome = "overturned"
              review == IF outcome = "overturned" /\ actions[x].review = "required"
                        THEN "completed" ELSE actions[x].review
              row == [actions[x] EXCEPT !.appeal = outcome, !.resolver = s,
                                        !.appealReview = appealReview, !.revoked = revoked,
                                        !.review = review]
  <2>1. /\ actions[x] \in ActionRecords /\ ActionRow(actions[x]) /\ ~actions[x].revoked
        /\ actions[x] # None
    BY <1>1, <1>7 DEF ResolveActionAppeal, Reviewable, ActionRow
  <2>2. appealReview \in Reactivation /\ revoked \in BOOLEAN /\ review \in Reactivation
    BY <2>1 DEF Reactivation, ActionRecords
  <2>3. actions' = [actions EXCEPT ![x] = row]
    BY <1>7, <2>1 DEF ResolveActionAppeal, StandingInv, StandingTypeOK
  <2>4. revoked => outcome = "overturned"
    OBVIOUS
  <2>. HIDE DEF appealReview, revoked, review
  <2>5. row \in ActionRecords
    BY <2>1, <2>2 DEF ActionRecords
  <2>6. /\ row.appeal = outcome /\ row.assignee = actions[x].assignee
        /\ row.creator = actions[x].creator /\ row.revoked = revoked /\ row.ended = actions[x].ended
    BY <2>1 DEF ActionRecords
  <2>7. ActionRow(row)
    BY <2>1, <2>4, <2>6 DEF ActionRow
  <2>8. ~row.revoked /\ ~row.ended => InForce(x)
    BY <2>1, <2>6 DEF InForce
  <2>. HIDE DEF row
  <2>. QED BY <1>7, <2>1, <2>3, <2>5, <2>7, <2>8, ActionChanges DEF ResolveActionAppeal
<1>. QED BY <1>2, <1>3, <1>5, <1>6, <1>7

LEMMA CreateActionKeeps ==
    ASSUME StandingInv, UNCHANGED active, NEW s \in Curators, NEW x \in Actions,
           NEW kind \in Kinds, NEW temporary \in BOOLEAN, CreateAction(s, x, kind, temporary)
    PROVE  StandingInv'
<1>. USE CuratorsAreStaff
<1>. DEFINE row == [kind |-> kind, temporary |-> temporary, ended |-> FALSE, revoked |-> FALSE,
                    creator |-> s, review |-> "notRequired", appeal |-> "none", assignee |-> None,
                    resolver |-> None, appealReview |-> "notRequired"]
<1>1. ProfileInv /\ ActionsInv
  BY StandingParts
<1>2. row \in ActionRecords
  BY DEF ActionRecords, Reactivation
<1>3. ActionRow(row)
  BY DEF ActionRow
<1>4. actions' = [actions EXCEPT ![x] = row] /\ ~published'
  BY DEF CreateAction
<1>. HIDE DEF row
<1>5. ActionsInv'
  <2>1. actions' \in [Actions -> ActionRecords \cup {None}]
        /\ actions'[x] = row /\ \A y \in Actions \ {x} : actions'[y] = actions[y]
    BY <1>1, <1>2, <1>4 DEF ActionsInv
  <2>. QED BY <1>1, <1>3, <2>1 DEF ActionsInv, ActionRow, Present
<1>6. ProfileInv'
  <2>1. CASE kind = "suspension"
    <3>1. profile' = [profile EXCEPT !.status = "suspended", !.cause = x]
      BY <2>1 DEF CreateAction
    <3>2. /\ profile' \in ProfileRows /\ profile'.status = "suspended" /\ profile'.adult = profile.adult
          /\ profile'.verifier = profile.verifier /\ profile'.submitter = profile.submitter
      BY <3>1, <1>1 DEF ProfileInv, ProfileRows
    <3>. QED BY <1>1, <3>2 DEF CreateAction, ProfileInv
  <2>2. CASE kind # "suspension"
    BY <1>1, <2>2 DEF CreateAction, ProfileInv
  <2>. QED BY <2>1, <2>2
<1>. QED BY <1>4, <1>5, <1>6, StandingPartsNext

\* The eligibility of the profile was checked before it stands again.
LEMMA RestoredKeeps ==
    ASSUME ProfileInv, NEW x \in Actions, profile.adult, Restored(x)
    PROVE  ProfileInv' /\ ~published'
<1>1. CASE profile.cause = x /\ profile.status = "suspended"
  <2>1. profile' = [profile EXCEPT !.status = "verified", !.cause = None]
    BY <1>1 DEF Restored
  <2>2. /\ profile' \in ProfileRows
        /\ profile'.verifier = profile.verifier /\ profile'.submitter = profile.submitter
    BY <2>1 DEF ProfileInv, ProfileRows
  <2>. QED BY <2>2 DEF Restored, ProfileInv
<1>2. CASE ~(profile.cause = x /\ profile.status = "suspended")
  BY <1>2 DEF Restored, ProfileInv
<1>. QED BY <1>1, <1>2

LEMMA ReviewSteps ==
    ASSUME StandingInv, UNCHANGED active, NEW s \in Curators, NEW x \in Actions,
           CompleteExpiredReview(s, x) \/ CompleteAppealReview(s, x)
    PROVE  StandingInv'
<1>1. ProfileInv /\ profile.adult /\ Restored(x) /\ actions[x] # None
  BY StandingParts DEF CompleteExpiredReview, ReviewPasses, CompleteAppealReview
<1>2. actions[x] \in ActionRecords /\ ActionRow(actions[x])
  BY <1>1 DEF StandingInv, StandingTypeOK
<1>3. ProfileInv' /\ ~published'
  BY <1>1, RestoredKeeps
<1>4. CASE CompleteExpiredReview(s, x)
  <2>. DEFINE row == [actions[x] EXCEPT !.review = "completed"]
  <2>1. row \in ActionRecords
    BY <1>2 DEF ActionRecords, Reactivation
  <2>2. ActionRow(row) /\ row.revoked = actions[x].revoked /\ row.ended = actions[x].ended
    BY <1>2 DEF ActionRecords, ActionRow
  <2>3. actions' = [actions EXCEPT ![x] = row]
    BY <1>4 DEF CompleteExpiredReview
  <2>. QED BY <1>1, <1>3, <2>1, <2>2, <2>3, ActionChanges DEF InForce
<1>5. CASE CompleteAppealReview(s, x)
  <2>. DEFINE row == [actions[x] EXCEPT !.appealReview = "completed"]
  <2>1. row \in ActionRecords
    BY <1>2 DEF ActionRecords, Reactivation
  <2>2. ActionRow(row) /\ row.revoked = actions[x].revoked /\ row.ended = actions[x].ended
    BY <1>2 DEF ActionRecords, ActionRow
  <2>3. actions' = [actions EXCEPT ![x] = row]
    BY <1>5 DEF CompleteAppealReview
  <2>. QED BY <1>1, <1>3, <2>1, <2>2, <2>3, ActionChanges DEF InForce
<1>. QED BY <1>4, <1>5

\* All actions change at once, by the sweep or a hand-over, and none comes into force.
LEMMA ActionsSwept ==
    ASSUME StandingInv, UNCHANGED <<profile, published, identity>>,
           actions' = [x \in Actions |-> actions'[x]],
           \A x \in Actions :
              \/ actions[x] = None /\ actions'[x] = None
              \/ /\ actions[x] # None
                 /\ actions'[x] \in ActionRecords /\ ActionRow(actions[x])'
                 /\ actions'[x].revoked = actions[x].revoked
                 /\ actions'[x].ended = actions[x].ended
    PROVE  StandingInv'
<1>1. ProfileInv /\ ActionsInv /\ (published => OnOffer)
  BY StandingParts
<1>2. ActionsInv'
  BY DEF ActionsInv
<1>3. ASSUME NEW y \in Actions, InForce(y)' PROVE InForce(y)
  BY <1>3, StandingAssumption DEF InForce
<1>. QED BY <1>1, <1>2, <1>3, StandingPartsNext DEF ProfileInv, OnOffer

LEMMA SweepKeeps ==
    ASSUME StandingInv, UNCHANGED active, RequireReviews
    PROVE  StandingInv'
<1>1. ASSUME NEW x \in Actions
      PROVE  \/ actions[x] = None /\ actions'[x] = None
             \/ /\ actions[x] # None
                /\ actions'[x] \in ActionRecords /\ ActionRow(actions[x])'
                /\ actions'[x].revoked = actions[x].revoked
                /\ actions'[x].ended = actions[x].ended
  <2>1. actions[x] # None => actions[x] \in ActionRecords /\ ActionRow(actions[x])
    BY DEF StandingInv, StandingTypeOK
  <2>2. CASE x \in DueForReview
    <3>1. actions'[x] = [actions[x] EXCEPT !.review = "required"] /\ actions[x] # None
      BY <2>2 DEF RequireReviews, DueForReview
    <3>2. actions'[x] \in ActionRecords
      BY <2>1, <3>1 DEF ActionRecords, Reactivation
    <3>3. /\ actions'[x].appeal = actions[x].appeal /\ actions'[x].assignee = actions[x].assignee
          /\ actions'[x].creator = actions[x].creator /\ actions'[x].resolver = actions[x].resolver
          /\ actions'[x].revoked = actions[x].revoked /\ actions'[x].ended = actions[x].ended
      BY <2>1, <3>1 DEF ActionRecords
    <3>. QED BY <2>1, <3>1, <3>2, <3>3 DEF ActionRow, Present
  <2>3. CASE x \notin DueForReview
    BY <2>1, <2>3 DEF RequireReviews, ActionRow, Present
  <2>. QED BY <2>2, <2>3
<1>2. actions' = [x \in Actions |-> actions'[x]] /\ UNCHANGED <<profile, published, identity>>
  BY DEF RequireReviews
<1>. QED BY <1>1, <1>2, ActionsSwept

LEMMA StandingHandover ==
    ASSUME StandingInv, Suspension
    PROVE  StandingInv'
<1>. USE PersonnelAssumption
<1>1. PICK a \in Admins, s \in Staff, r \in Admins \cup {None} : Suspend(a, s, r)
  BY DEF Suspension
<1>2. active' = active \ {s} /\ None # s
  BY <1>1 DEF Suspend
<1>3. CASE HasAssignments(s) \/ r # None
  <2>1. r \in Present' /\ r \in Staff \ {None} /\ Handoff(s, r)
    BY <1>1, <1>2, <1>3 DEF Suspend, Present, Staff
  <2>2. ASSUME NEW x \in Actions
        PROVE  \/ actions[x] = None /\ actions'[x] = None
               \/ /\ actions[x] # None
                  /\ actions'[x] \in ActionRecords /\ ActionRow(actions[x])'
                  /\ actions'[x].revoked = actions[x].revoked
                  /\ actions'[x].ended = actions[x].ended
    <3>1. actions[x] # None => actions[x] \in ActionRecords /\ ActionRow(actions[x])
      BY DEF StandingInv, StandingTypeOK
    <3>2. CASE x \in ActionAppealHandedOver(s)
      <4>. DEFINE receiver == Receiver(r, actions[x].creator)
      <4>1. actions'[x] = [actions[x] EXCEPT !.assignee = receiver]
        BY <2>1, <3>2 DEF Handoff
      <4>2. actions[x] # None /\ actions[x] \in ActionRecords /\ ActionRow(actions[x])
            /\ actions[x].appeal = "pending"
        BY <3>1, <3>2 DEF ActionAppealHandedOver
      <4>3. receiver \in Present' /\ receiver \in Staff \cup {None} /\ receiver # actions[x].creator
        BY <2>1, <4>2, CuratorsAreStaff DEF Receiver, Present, ActionRecords
      <4>. HIDE DEF receiver
      <4>4. actions'[x] \in ActionRecords
        BY <4>1, <4>2, <4>3 DEF ActionRecords
      <4>5. /\ actions'[x].appeal = "pending" /\ actions'[x].assignee = receiver
            /\ actions'[x].creator = actions[x].creator /\ actions'[x].resolver = actions[x].resolver
            /\ actions'[x].revoked = actions[x].revoked /\ actions'[x].ended = actions[x].ended
        BY <4>1, <4>2 DEF ActionRecords
      <4>. QED BY <4>2, <4>3, <4>4, <4>5 DEF ActionRow
    <3>3. CASE x \notin ActionAppealHandedOver(s)
      <4>1. actions'[x] = actions[x]
        BY <2>1, <3>3 DEF Handoff
      <4>. QED BY <1>2, <3>1, <3>3, <4>1 DEF ActionRow, Present, ActionAppealHandedOver
    <3>. QED BY <3>2, <3>3
  <2>3. actions' = [x \in Actions |-> actions'[x]] /\ UNCHANGED <<profile, published, identity>>
    BY <2>1 DEF Handoff
  <2>. QED BY <2>2, <2>3, ActionsSwept
<1>4. CASE ~(HasAssignments(s) \/ r # None)
  <2>1. UNCHANGED standingVars
    BY <1>1, <1>4 DEF Suspend
  <2>2. ASSUME NEW x \in Actions, actions[x] # None PROVE ActionRow(actions[x])'
    <3>1. ActionRow(actions[x])
      BY <2>2 DEF StandingInv
    <3>2. x \notin ActionAppealHandedOver(s)
      BY <1>4 DEF HasAssignments
    <3>. QED BY <1>2, <2>1, <2>2, <3>1, <3>2 DEF ActionRow, Present, ActionAppealHandedOver, standingVars
  <2>. QED BY <2>1, <2>2 DEF StandingInv, StandingTypeOK, standingVars, InForce
<1>. QED BY <1>3, <1>4

LEMMA StandingInvKept ==
    ASSUME StandingInv, [Next]_vars
    PROVE  StandingInv'
<1>1. CASE UNCHANGED <<standingVars, active>>
  BY <1>1 DEF standingVars, StandingInv, StandingTypeOK, InForce, ActionRow, Present
<1>2. CASE StandingSteps /\ UNCHANGED active
  BY <1>2, SweepKeeps, AppealSteps DEF StandingSteps
<1>3. ASSUME NEW s \in Staff, StandingByStaff(s), UNCHANGED active PROVE StandingInv'
  <2>1. s \in Curators
    BY <1>3 DEF StandingByStaff
  <2>2. CASE SubmitProfile(s) \/ VerifyProfile(s) \/ SuspendProfile(s) \/ Publish(s) \/ Unpublish(s)
    BY <1>3, <2>1, <2>2, ProfileSteps
  <2>3. ASSUME NEW x \in Actions,
               \/ ClaimActionAppeal(s, x)
               \/ \E t \in Curators : AssignActionAppeal(s, x, t)
               \/ \E outcome \in {"upheld", "overturned"} : ResolveActionAppeal(s, x, outcome)
        PROVE  StandingInv'
    BY <1>3, <2>1, <2>3, AppealSteps
  <2>4. ASSUME NEW x \in Actions, NEW kind \in Kinds, NEW temporary \in BOOLEAN,
               CreateAction(s, x, kind, temporary)
        PROVE  StandingInv'
    BY <1>3, <2>1, <2>4, CreateActionKeeps
  <2>5. ASSUME NEW x \in Actions, CompleteExpiredReview(s, x) \/ CompleteAppealReview(s, x)
        PROVE  StandingInv'
    BY <1>3, <2>1, <2>5, ReviewSteps
  <2>. QED BY <1>3, <2>2, <2>3, <2>4, <2>5 DEF StandingByStaff
<1>4. ASSUME NEW s \in Staff, IdentityByStaff(s), UNCHANGED active PROVE StandingInv'
  <2>1. s \in Curators
    BY <1>4 DEF IdentityByStaff
  <2>. QED BY <1>4, <2>1, ProfileSteps
<1>. QED BY <1>1, <1>2, <1>3, <1>4, StandingFrame, StandingHandover

-----------------------------------------------------------------------------
(***************************************************************************)
(* The daily bill.                                                         *)
(***************************************************************************)

\* Neither the issues nor what was imported and compared change.
LEMMA BillRests ==
    ASSUME BillInv, BillTypeOK', UNCHANGED <<issues, processed>>, bill'.imported = bill.imported
    PROVE  BillInv'
  BY DEF BillInv, Explained

\* One issue changes; if that closes it, by two people.
LEMMA IssueChanges ==
    ASSUME BillInv, NEW i \in DOMAIN issues, NEW row \in IssueRecords,
           row.status \in {"resolved", "acceptedException"} => row.resolver \notin {None, row.assignee},
           row.status # "recovered" \/ issues[i].status = "recovered",
           issues' = [issues EXCEPT ![i] = row],
           UNCHANGED <<bill, records, sorting, upload, downloads, processed>>
    PROVE  BillInv'
<1>1. DOMAIN issues' = DOMAIN issues
  OBVIOUS
<1>2. issues'[i] = row /\ \A j \in DOMAIN issues \ {i} : issues'[j] = issues[j]
  OBVIOUS
<1>3. BillTypeOK'
  BY <1>1, <1>2 DEF BillInv, BillTypeOK
<1>4. ASSUME NEW j \in DOMAIN issues'
      PROVE  /\ issues'[j].status \in {"resolved", "acceptedException"} =>
                   issues'[j].resolver \notin {None, issues'[j].assignee}
             /\ issues'[j].status = "recovered" => j = <<"silence">> /\ bill'.imported # None
  BY <1>1, <1>2 DEF BillInv
<1>. QED BY <1>1, <1>3, <1>4 DEF BillInv, Explained

LEMMA IssueSteps ==
    ASSUME BillInv, NEW s \in Staff, NEW i \in DOMAIN issues,
           \/ ClaimIssue(s, i) \/ RejectResolution(s, i) \/ ApproveResolution(s, i)
           \/ \E outcome \in {"resolved", "acceptedException"} : ProposeResolution(s, i, outcome)
    PROVE  BillInv'
<1>. USE PersonnelAssumption DEF IssueIn
<1>1. /\ issues[i] \in IssueRecords
      /\ issues[i].status \in {"resolved", "acceptedException"} =>
            issues[i].resolver \notin {None, issues[i].assignee}
  BY DEF BillInv, BillTypeOK
<1>2. CASE ClaimIssue(s, i)
  <2>. DEFINE row == [issues[i] EXCEPT !.status = "investigating", !.assignee = s]
  <2>1. row \in IssueRecords /\ row.status = "investigating"
    BY <1>1 DEF IssueRecords
  <2>2. /\ issues' = [issues EXCEPT ![i] = row]
        /\ UNCHANGED <<bill, records, sorting, upload, downloads, processed>>
    BY <1>2 DEF ClaimIssue
  <2>. HIDE DEF row
  <2>. QED BY <2>1, <2>2, IssueChanges
<1>3. CASE RejectResolution(s, i)
  <2>. DEFINE row == [issues[i] EXCEPT !.proposal = "none"]
  <2>1. /\ row \in IssueRecords /\ row.status = issues[i].status
        /\ row.resolver = issues[i].resolver /\ row.assignee = issues[i].assignee
    BY <1>1 DEF IssueRecords
  <2>2. /\ issues' = [issues EXCEPT ![i] = row]
        /\ UNCHANGED <<bill, records, sorting, upload, downloads, processed>>
    BY <1>3 DEF RejectResolution
  <2>. HIDE DEF row
  <2>. QED BY <1>1, <2>1, <2>2, IssueChanges
<1>4. CASE ApproveResolution(s, i)
  <2>. DEFINE row == [issues[i] EXCEPT !.status = issues[i].proposal, !.proposal = "none", !.resolver = s]
  <2>1. /\ row \in IssueRecords /\ row.status \in {"resolved", "acceptedException"}
        /\ row.resolver = s /\ row.assignee = issues[i].assignee
    BY <1>1, <1>4 DEF ApproveResolution, IssueRecords, ClosedIssue
  <2>2. row.resolver \notin {None, row.assignee}
    BY <2>1, <1>4 DEF ApproveResolution, MayApprove
  <2>3. /\ issues' = [issues EXCEPT ![i] = row]
        /\ UNCHANGED <<bill, records, sorting, upload, downloads, processed>>
    BY <1>1, <1>4 DEF ApproveResolution
  <2>. HIDE DEF row
  <2>. QED BY <2>1, <2>2, <2>3, IssueChanges
<1>5. ASSUME NEW outcome \in {"resolved", "acceptedException"}, ProposeResolution(s, i, outcome)
      PROVE  BillInv'
  <2>. DEFINE row == [issues[i] EXCEPT !.proposal = outcome]
  <2>1. row \in IssueRecords /\ row.status = "investigating"
    BY <1>1, <1>5 DEF ProposeResolution, IssueRecords
  <2>2. /\ issues' = [issues EXCEPT ![i] = row]
        /\ UNCHANGED <<bill, records, sorting, upload, downloads, processed>>
    BY <1>5 DEF ProposeResolution
  <2>. HIDE DEF row
  <2>. QED BY <2>1, <2>2, IssueChanges
<1>. QED BY <1>2, <1>3, <1>4, <1>5

\* A statement is imported once, and whatever it leaves open becomes an issue.
LEMMA ImportKeeps ==
    ASSUME BillInv, NEW rows \in Statements, bill.imported = None, Imported(rows),
           UNCHANGED <<records, sorting>>, upload' \in {upload, None}, downloads' \subseteq downloads
    PROVE  BillInv'
<1>. DEFINE found == Mismatches(rows)
            all == WithIssues(found)
            closing == [all[<<"silence">>] EXCEPT !.status = "recovered"]
<1>1. DOMAIN all = DOMAIN issues \cup found /\ found \subseteq Sources
  BY DEF WithIssues, Mismatches, Sources
<1>2. NewIssue \in IssueRecords /\ NewIssue.status = "open"
  BY DEF NewIssue, IssueRecords
<1>3. ASSUME NEW i \in DOMAIN all
      PROVE  /\ all[i] \in IssueRecords
             /\ all[i].status \in {"resolved", "acceptedException"} =>
                   all[i].resolver \notin {None, all[i].assignee}
             /\ all[i].status # "recovered"
             /\ i \in DOMAIN issues => all[i] = issues[i]
  <2>1. CASE i \in DOMAIN issues
    <3>1. all[i] = issues[i]
      BY <2>1, <1>1 DEF WithIssues
    <3>. QED BY <3>1, <2>1 DEF BillInv, BillTypeOK
  <2>2. CASE i \notin DOMAIN issues
    <3>1. all[i] = NewIssue
      BY <2>2, <1>1 DEF WithIssues
    <3>. QED BY <3>1, <2>2, <1>2
  <2>. QED BY <2>1, <2>2
<1>4. issues' = [i \in DOMAIN all |-> IF i = <<"silence">> /\ IssueIn(i, {"open", "investigating"})
                                     THEN [issues[i] EXCEPT !.status = "recovered"] ELSE all[i]]
  BY DEF Imported
<1>5. /\ bill' = [bill EXCEPT !.status = "reconciled", !.lease = None, !.imported = rows]
      /\ processed' = records
  BY DEF Imported
<1>6. bill' \in BillRows /\ bill'.imported = rows /\ rows # None
  BY <1>5, BillAssumption DEF BillInv, BillTypeOK, BillRows
<1>. HIDE DEF all, found
<1>7. ASSUME NEW i \in DOMAIN issues'
      PROVE  /\ issues'[i] \in IssueRecords
             /\ issues'[i].status \in {"resolved", "acceptedException"} =>
                   issues'[i].resolver \notin {None, issues'[i].assignee}
             /\ issues'[i].status = "recovered" => i = <<"silence">>
  <2>1. i \in DOMAIN all
    BY <1>4
  <2>2. CASE i = <<"silence">> /\ IssueIn(i, {"open", "investigating"})
    <3>1. issues'[i] = [issues[i] EXCEPT !.status = "recovered"]
      BY <1>4, <2>1, <2>2
    <3>2. issues[i] \in IssueRecords
      BY <2>2 DEF IssueIn, BillInv, BillTypeOK
    <3>3. issues'[i] \in IssueRecords /\ issues'[i].status = "recovered"
      BY <3>1, <3>2 DEF IssueRecords, ClosedIssue
    <3>. QED BY <2>2, <3>3
  <2>3. CASE ~(i = <<"silence">> /\ IssueIn(i, {"open", "investigating"}))
    <3>1. issues'[i] = all[i]
      BY <1>4, <2>1, <2>3
    <3>. QED BY <3>1, <2>1, <1>3
  <2>. QED BY <2>2, <2>3
<1>8. DOMAIN issues' = DOMAIN issues \cup found
  BY <1>1, <1>4
<1>9. BillTypeOK'
  <2>1. DOMAIN issues' \subseteq Sources /\ processed' \in [References -> LocalRecords]
    BY <1>1, <1>5, <1>8 DEF BillInv, BillTypeOK
  <2>. QED BY <1>6, <1>7, <2>1 DEF BillInv, BillTypeOK
<1>10. ASSUME NEW x \in References PROVE Explained(x)'
  <2>1. CASE rows[x] = "none"
    <3>1. records[x] = "here" => <<"local", x>> \in found
      BY <2>1 DEF found, Mismatches
    <3>. QED BY <2>1, <3>1, <1>5, <1>6, <1>8 DEF Explained
  <2>2. CASE rows[x] # "none"
    <3>1. ~Agrees(rows, x) => <<"row", x>> \in found
      BY <2>2 DEF found, Mismatches
    <3>. QED BY <2>2, <3>1, <1>5, <1>6, <1>8 DEF Explained, Agrees
  <2>. QED BY <2>1, <2>2
<1>. QED BY <1>6, <1>7, <1>9, <1>10 DEF BillInv

LEMMA NoStatementKeeps ==
    ASSUME BillInv, NEW w \in Workers, FinalizeNoStatement(w)
    PROVE  BillInv'
<1>. DEFINE found == IF \E x \in References : records[x] = "here" THEN {<<"silence">>} ELSE {}
<1>1. issues' = [i \in DOMAIN issues \cup found |-> IF i \in DOMAIN issues THEN issues[i] ELSE NewIssue]
  BY DEF FinalizeNoStatement, WithIssues
<1>2. found \subseteq Sources /\ DOMAIN issues' = DOMAIN issues \cup found
  BY <1>1 DEF Sources
<1>3. ASSUME NEW i \in DOMAIN issues'
      PROVE  /\ i \in DOMAIN issues => issues'[i] = issues[i]
             /\ i \notin DOMAIN issues => issues'[i] = NewIssue
  BY <1>1
<1>4. NewIssue \in IssueRecords /\ NewIssue.status = "open"
  BY DEF NewIssue, IssueRecords
<1>5. bill' \in BillRows /\ bill'.imported = None /\ bill.imported = None
  BY DEF FinalizeNoStatement, Leased, BillInv, BillTypeOK, BillRows
<1>6. BillTypeOK'
  BY <1>2, <1>3, <1>4, <1>5 DEF FinalizeNoStatement, BillInv, BillTypeOK
<1>7. (\E x \in References : processed'[x] = "here") => <<"silence">> \in DOMAIN issues'
  BY <1>2 DEF FinalizeNoStatement
<1>8. ASSUME NEW i \in DOMAIN issues'
      PROVE  /\ issues'[i].status \in {"resolved", "acceptedException"} =>
                   issues'[i].resolver \notin {None, issues'[i].assignee}
             /\ issues'[i].status # "recovered"
  BY <1>3, <1>4, <1>5 DEF BillInv
<1>. QED BY <1>5, <1>6, <1>7, <1>8 DEF BillInv

\* The steps that only move the bill, the local records or an upload.
LEMMA BillMoves ==
    ASSUME BillInv, NEW s \in Staff \cup {None},
           \/ \E x \in References :
                \/ Book(x) \/ SettleLocally(x)
                \/ s \in Staff /\ \E d \in Days : ProposeClassification(s, x, d)
                \/ \E approve \in BOOLEAN : ReviewClassification(s, x, approve)
           \/ ExpectBill \/ RetryBill \/ RejectUpload(s)
           \/ \E w \in Workers : ClaimBill(w) \/ AbandonDownload(w)
           \/ s \in Staff /\ \E rows \in Statements : ProposeUpload(s, rows)
    PROVE  BillInv'
<1>. USE BillAssumption
<1>1. /\ bill \in BillRows /\ records \in [References -> LocalRecords]
      /\ sorting \in [References -> Classifications \cup {None}]
      /\ upload \in Uploads \cup {None} /\ downloads \subseteq Workers
  BY DEF BillInv, BillTypeOK
<1>2. ASSUME bill' \in BillRows, bill'.imported = bill.imported,
             records' \in [References -> LocalRecords],
             sorting' \in [References -> Classifications \cup {None}],
             upload' \in Uploads \cup {None}, downloads' \subseteq Workers,
             UNCHANGED <<issues, processed>>
      PROVE  BillInv'
  <2>1. BillTypeOK'
    BY <1>2 DEF BillInv, BillTypeOK
  <2>. QED BY <1>2, <2>1, BillRests
<1>3. ASSUME NEW x \in References, Book(x) \/ SettleLocally(x) PROVE BillInv'
  <2>1. records' \in [References -> LocalRecords]
    BY <1>1, <1>3 DEF Book, SettleLocally, LocalRecords, Days
  <2>. QED BY <1>1, <1>2, <1>3, <2>1 DEF Book, SettleLocally
<1>4. ASSUME NEW x \in References, NEW d \in Days, s \in Staff, ProposeClassification(s, x, d) PROVE BillInv'
  <2>1. [by |-> s, as |-> d] \in Classifications
    BY <1>4 DEF Classifications
  <2>2. sorting' \in [References -> Classifications \cup {None}]
    BY <1>1, <1>4, <2>1 DEF ProposeClassification
  <2>. QED BY <1>1, <1>2, <1>4, <2>2 DEF ProposeClassification
<1>5. ASSUME NEW x \in References, NEW approve \in BOOLEAN, ReviewClassification(s, x, approve)
      PROVE  BillInv'
  <2>1. sorting[x].as \in LocalRecords
    BY <1>1, <1>5 DEF ReviewClassification, Classifications, LocalRecords
  <2>2. /\ records' \in [References -> LocalRecords]
        /\ sorting' \in [References -> Classifications \cup {None}]
    BY <1>1, <1>5, <2>1 DEF ReviewClassification
  <2>. QED BY <1>1, <1>2, <1>5, <2>2 DEF ReviewClassification
<1>6. CASE ExpectBill
  <2>1. bill' \in BillRows /\ bill'.imported = bill.imported
    BY <1>1, <1>6 DEF ExpectBill, BillRows
  <2>. QED BY <1>1, <1>2, <1>6, <2>1 DEF ExpectBill
<1>7. CASE RetryBill
  <2>1. bill' \in BillRows /\ bill'.imported = bill.imported
    BY <1>1, <1>7 DEF RetryBill, BillRows
  <2>. QED BY <1>1, <1>2, <1>7, <2>1 DEF RetryBill
<1>8. CASE RejectUpload(s)
  BY <1>1, <1>2, <1>8 DEF RejectUpload
<1>9. ASSUME NEW w \in Workers, ClaimBill(w) PROVE BillInv'
  <2>1. bill' \in BillRows /\ bill'.imported = bill.imported
    BY <1>1, <1>9 DEF ClaimBill, BillRows
  <2>. QED BY <1>1, <1>2, <1>9, <2>1 DEF ClaimBill
<1>10. ASSUME NEW w \in Workers, AbandonDownload(w) PROVE BillInv'
  <2>1. bill' \in BillRows /\ bill'.imported = bill.imported
    BY <1>1, <1>10 DEF AbandonDownload, BillRows
  <2>. QED BY <1>1, <1>2, <1>10, <2>1 DEF AbandonDownload
<1>11. ASSUME NEW rows \in Statements, s \in Staff, ProposeUpload(s, rows) PROVE BillInv'
  <2>1. [by |-> s, rows |-> rows] \in Uploads
    BY <1>11 DEF Uploads
  <2>. QED BY <1>1, <1>2, <1>11, <2>1 DEF ProposeUpload
<1>. QED BY <1>3, <1>4, <1>5, <1>6, <1>7, <1>8, <1>9, <1>10, <1>11

LEMMA BillInvKept ==
    ASSUME BillInv, [Next]_vars
    PROVE  BillInv'
<1>1. CASE UNCHANGED billVars
  BY <1>1 DEF billVars, BillInv, BillTypeOK, Explained
<1>2. ASSUME NEW w \in Workers, NEW rows \in Statements, ImportDownload(w, rows) PROVE BillInv'
  BY <1>2, ImportKeeps DEF ImportDownload, Leased
<1>3. ASSUME NEW s \in Staff, ApproveUpload(s) PROVE BillInv'
  <2>1. upload.rows \in Statements
    BY <1>3 DEF ApproveUpload, BillInv, BillTypeOK, Uploads
  <2>. QED BY <1>3, <2>1, ImportKeeps DEF ApproveUpload
<1>4. ASSUME NEW s \in Staff, BillByStaff(s) PROVE BillInv'
  <2>1. ASSUME NEW i \in DOMAIN issues,
               \/ ClaimIssue(s, i) \/ RejectResolution(s, i) \/ ApproveResolution(s, i)
               \/ \E outcome \in {"resolved", "acceptedException"} : ProposeResolution(s, i, outcome)
        PROVE  BillInv'
    BY <2>1, IssueSteps
  <2>2. ASSUME \/ \E x \in References :
                    \/ \E d \in Days : ProposeClassification(s, x, d)
                    \/ \E approve \in BOOLEAN : ReviewClassification(s, x, approve)
               \/ RetryBill \/ RejectUpload(s)
               \/ \E rows \in Statements : ProposeUpload(s, rows)
        PROVE  BillInv'
    BY <2>2, BillMoves
  <2>. QED BY <1>3, <1>4, <2>1, <2>2 DEF BillByStaff
<1>5. ASSUME BillArises PROVE BillInv'
  <2>1. ASSUME \/ \E x \in References : Book(x) \/ SettleLocally(x)
               \/ ExpectBill
               \/ \E w \in Workers : ClaimBill(w) \/ AbandonDownload(w)
        PROVE  BillInv'
    <3>1. None \in Staff \cup {None}
      OBVIOUS
    <3>. QED BY <2>1, <3>1, BillMoves
  <2>. QED BY <1>2, <1>5, <2>1, NoStatementKeeps DEF BillArises
<1>. QED BY <1>1, <1>4, <1>5, BillFrame

-----------------------------------------------------------------------------
(***************************************************************************)
(* The moderation cases of the review department.                          *)
(***************************************************************************)

\* A case is opened or changed.  A message is withheld because of it, or was
\* before and the case is no less a reason than it was.
LEMMA FileChanges ==
    ASSUME FilesInv, UNCHANGED onDuty, NEW f \in Files, NEW row \in FileRecords,
           DOMAIN files' = DOMAIN files \cup {f}, files'[f] = row,
           \A g \in DOMAIN files \ {f} : files'[g] = files[g],
           row.status = "open" => row.assignee \in onDuty \cup {None},
           row.appeal = "overturned" => row.status # "open" /\ row.restriction # "inForce",
           DOMAIN appealing' \subseteq DOMAIN appealing,
           \A g \in DOMAIN appealing' : appealing'[g] = appealing[g],
           f \in DOMAIN appealing' => row.appeal = "none",
           striking' \subseteq DOMAIN files \cup {f},
           message' \in {"published", "withheld"},
           message' = "withheld" =>
              \/ row.verdict = "against" /\ row.appeal # "overturned"
              \/ /\ message # "published"
                 /\ f \in DOMAIN files /\ Against(f) => row.verdict = "against" /\ row.appeal # "overturned"
                 /\ row.appeal = "overturned" => f \in DOMAIN files /\ files[f].appeal = "overturned"
    PROVE  FilesInv'
<1>1. ReviewTypeOK'
  BY DEF FilesInv, ReviewTypeOK
<1>2. ASSUME NEW g \in DOMAIN files' PROVE FileRow(g)'
  BY DEF FilesInv, FileRow
<1>3. ASSUME message' = "withheld", NEW g \in DOMAIN files', files'[g].appeal = "overturned"
      PROVE  \E h \in DOMAIN files' : Against(h)'
  <2>1. CASE row.verdict = "against" /\ row.appeal # "overturned"
    BY <2>1 DEF Against
  <2>2. CASE /\ message # "published"
             /\ f \in DOMAIN files /\ Against(f) => row.verdict = "against" /\ row.appeal # "overturned"
             /\ row.appeal = "overturned" => f \in DOMAIN files /\ files[f].appeal = "overturned"
    <3>1. g \in DOMAIN files /\ files[g].appeal = "overturned"
      BY <1>3, <2>2
    <3>2. message = "withheld"
      BY <2>2, <3>1 DEF FilesInv, ReviewTypeOK
    <3>3. PICK h \in DOMAIN files : Against(h)
      BY <3>1, <3>2 DEF FilesInv
    <3>. QED BY <2>2, <3>3 DEF Against
  <2>. QED BY <1>3, <2>1, <2>2
<1>. QED BY <1>1, <1>2, <1>3 DEF FilesInv

\* A case that exists is changed, the message and the appeals that were read are not,
\* and neither is what makes the case a reason to withhold the message.
LEMMA FileUpdates ==
    ASSUME FilesInv, NEW f \in DOMAIN files, NEW row \in FileRecords,
           files' = [files EXCEPT ![f] = row],
           row.status = "open" => row.assignee \in onDuty \cup {None},
           row.appeal = "overturned" => row.status # "open" /\ row.restriction # "inForce",
           row.appeal = files[f].appeal, row.verdict = files[f].verdict,
           striking' \subseteq striking, UNCHANGED <<onDuty, message, appealing>>
    PROVE  FilesInv'
<1>1. f \in Files /\ striking \subseteq DOMAIN files /\ DOMAIN files # {}
  BY DEF FilesInv, ReviewTypeOK
<1>2. message \in {"published", "withheld"}
  BY <1>1 DEF FilesInv, ReviewTypeOK
<1>3. DOMAIN files' = DOMAIN files \cup {f} /\ files'[f] = row
      /\ \A g \in DOMAIN files \ {f} : files'[g] = files[g]
  OBVIOUS
<1>4. f \in DOMAIN appealing' => row.appeal = "none"
  BY DEF FilesInv, FileRow
<1>. QED BY <1>1, <1>2, <1>3, <1>4, FileChanges DEF Against

LEMMA NewFiles ==
    ASSUME FilesInv, NEW f \in Files,
           \/ \E source \in {"blocked", "held"} : SendSuspicious(f, source)
           \/ Report(f)
    PROVE  FilesInv'
<1>1. ASSUME NEW source \in {"blocked", "held", "report"}
      PROVE  /\ NewFile(source) \in FileRecords /\ NewFile(source).status = "open"
             /\ NewFile(source).assignee = None /\ NewFile(source).appeal = "none"
  <2>1. NewFile(source).verdict \in {"none", "against", "for"}
    BY DEF NewFile
  <2>. QED BY <2>1 DEF NewFile, FileRecords
<1>2. DOMAIN appealing \subseteq DOMAIN files /\ striking \subseteq DOMAIN files
      /\ message \in {"none", "published", "withheld"}
  BY DEF FilesInv, ReviewTypeOK
<1>3. ASSUME NEW source \in {"blocked", "held"}, SendSuspicious(f, source) PROVE FilesInv'
  <2>. DEFINE row == NewFile(source)
  <2>1. /\ DOMAIN files' = DOMAIN files \cup {f} /\ files'[f] = row
        /\ \A g \in DOMAIN files \ {f} : files'[g] = files[g]
        /\ DOMAIN files = {} /\ message = "none" /\ message' = "withheld"
        /\ UNCHANGED <<onDuty, appealing>>
    BY <1>3 DEF SendSuspicious, With, FilesInv
  <2>2. striking' \subseteq DOMAIN files \cup {f}
    BY <1>2, <1>3 DEF SendSuspicious
  <2>. HIDE DEF row
  <2>3. /\ row \in FileRecords /\ row.status = "open" /\ row.assignee = None
        /\ row.appeal = "none"
    BY <1>1 DEF row
  <2>. QED BY <1>2, <2>1, <2>2, <2>3, FileChanges
<1>4. CASE Report(f)
  <2>. DEFINE row == NewFile("report")
  <2>1. /\ DOMAIN files' = DOMAIN files \cup {f} /\ files'[f] = row
        /\ \A g \in DOMAIN files \ {f} : files'[g] = files[g]
        /\ f \notin DOMAIN files /\ message # "none"
        /\ UNCHANGED <<onDuty, appealing, striking, message>>
    BY <1>4 DEF Report, With
  <2>. HIDE DEF row
  <2>2. /\ row \in FileRecords /\ row.status = "open" /\ row.assignee = None
        /\ row.appeal = "none"
    BY <1>1 DEF row
  <2>. QED BY <1>2, <2>1, <2>2, FileChanges
<1>. QED BY <1>3, <1>4

LEMMA RestrictionSteps ==
    ASSUME FilesInv, NEW f \in DOMAIN files, RestrictAutomatically(f) \/ EndRestriction(f)
    PROVE  FilesInv'
<1>1. files[f] \in FileRecords /\ FileRow(f)
  BY DEF FilesInv, ReviewTypeOK
<1>2. ASSUME NEW restriction \in {"none", "inForce", "belated"},
             restriction = "inForce" => files[f].status = "open",
             files' = [files EXCEPT ![f].restriction = restriction],
             striking' \subseteq striking, UNCHANGED <<onDuty, message, appealing>>
      PROVE  FilesInv'
  <2>. DEFINE row == [files[f] EXCEPT !.restriction = restriction]
  <2>1. /\ row \in FileRecords /\ row.status = files[f].status /\ row.assignee = files[f].assignee
        /\ row.appeal = files[f].appeal /\ row.verdict = files[f].verdict
        /\ row.restriction = restriction
    BY <1>1 DEF FileRecords
  <2>2. files' = [files EXCEPT ![f] = row]
    BY <1>2
  <2>. HIDE DEF row
  <2>. QED BY <1>1, <1>2, <2>1, <2>2, FileUpdates DEF FileRow
<1>3. CASE RestrictAutomatically(f)
  <2>1. CASE files' = [files EXCEPT ![f].restriction = IF files[f].status = "open" THEN "inForce" ELSE "belated"]
    <3>1. CASE files[f].status = "open"
      BY <1>2, <1>3, <2>1, <3>1 DEF RestrictAutomatically
    <3>2. CASE files[f].status # "open"
      BY <1>2, <1>3, <2>1, <3>2 DEF RestrictAutomatically
    <3>. QED BY <3>1, <3>2
  <2>2. CASE UNCHANGED files
    BY <1>3, <2>2 DEF RestrictAutomatically, FilesInv, ReviewTypeOK, FileRow, Against
  <2>. QED BY <1>3, <2>1, <2>2 DEF RestrictAutomatically
<1>4. CASE EndRestriction(f)
  BY <1>2, <1>4 DEF EndRestriction
<1>. QED BY <1>3, <1>4

LEMMA AppealingSteps ==
    ASSUME FilesInv, NEW f \in DOMAIN files, ReadForAppeal(f) \/ FileAppeal(f)
    PROVE  FilesInv'
<1>1. files[f] \in FileRecords /\ FileRow(f) /\ f \in Files
      /\ DOMAIN appealing \subseteq DOMAIN files /\ striking \subseteq DOMAIN files
      /\ message \in {"published", "withheld"}
  BY DEF FilesInv, ReviewTypeOK
<1>2. CASE ReadForAppeal(f)
  <2>1. /\ DOMAIN appealing' = DOMAIN appealing \cup {f} /\ files[f].appeal = "none"
        /\ \A g \in DOMAIN appealing' : appealing'[g] \in Department \cup {None}
        /\ UNCHANGED <<onDuty, files, message, striking>>
    BY <1>1, <1>2 DEF ReadForAppeal, With, FileRecords, FilesInv, ReviewTypeOK
  <2>. QED BY <2>1 DEF FilesInv, ReviewTypeOK, FileRow, Against
<1>3. CASE FileAppeal(f)
  <2>. DEFINE row == [files[f] EXCEPT !.appeal = "pending", !.original = appealing[f],
                                      !.adverse = None, !.status = "open", !.assignee = None]
  <2>1. /\ f \in DOMAIN appealing /\ files[f].appeal = "none"
        /\ appealing[f] \in Department \cup {None}
    BY <1>1, <1>3 DEF FileAppeal, FilesInv, ReviewTypeOK, FileRow
  <2>2. row \in FileRecords
    BY <1>1, <2>1 DEF FileRecords
  <2>3. row.status = "open" /\ row.assignee = None /\ row.appeal = "pending"
        /\ row.verdict = files[f].verdict
    BY <1>1 DEF FileRecords
  <2>4. files' = [files EXCEPT ![f] = row]
    BY <1>3 DEF FileAppeal
  <2>. HIDE DEF row
  <2>5. /\ DOMAIN files' = DOMAIN files \cup {f} /\ files'[f] = row
        /\ \A g \in DOMAIN files \ {f} : files'[g] = files[g]
    BY <2>4
  <2>6. /\ DOMAIN appealing' = DOMAIN appealing \ {f}
        /\ \A g \in DOMAIN appealing' : appealing'[g] = appealing[g]
        /\ UNCHANGED <<onDuty, message, striking>>
    BY <1>3 DEF FileAppeal
  <2>. QED BY <1>1, <2>2, <2>3, <2>5, <2>6, FileChanges DEF Against
<1>. QED BY <1>2, <1>3

\* A reviewer on duty takes or is given a case, or decides it without the message.
LEMMA ReviewerSteps ==
    ASSUME FilesInv, NEW v \in onDuty, NEW f \in DOMAIN files,
           \/ ClaimFile(v, f) \/ RestrictSender(v, f) \/ LiftRestriction(v, f)
           \/ \E to \in Department \cup {None} : AssignFile(f, to)
    PROVE  FilesInv'
<1>1. files[f] \in FileRecords /\ FileRow(f) /\ v \in Department
  BY DEF FilesInv, ReviewTypeOK
<1>2. ASSUME NEW to \in onDuty \cup {None}, files[f].status = "open",
             files' = [files EXCEPT ![f].assignee = to],
             UNCHANGED <<onDuty, message, appealing, striking>>
      PROVE  FilesInv'
  <2>. DEFINE row == [files[f] EXCEPT !.assignee = to]
  <2>1. to \in Department \cup {None}
    BY DEF FilesInv, ReviewTypeOK
  <2>2. /\ row \in FileRecords /\ row.status = "open" /\ row.assignee = to
        /\ row.appeal = files[f].appeal /\ row.verdict = files[f].verdict
    BY <1>1, <1>2, <2>1 DEF FileRecords
  <2>3. files' = [files EXCEPT ![f] = row]
    BY <1>2
  <2>. HIDE DEF row
  <2>. QED BY <1>1, <1>2, <2>2, <2>3, FileUpdates DEF FileRow
<1>3. CASE ClaimFile(v, f)
  BY <1>2, <1>3 DEF ClaimFile
<1>4. ASSUME NEW to \in Department \cup {None}, AssignFile(f, to) PROVE FilesInv'
  BY <1>2, <1>4 DEF AssignFile
<1>5. CASE RestrictSender(v, f)
  <2>. DEFINE adverse == Adverse(f, v)
              row == [files[f] EXCEPT !.status = "resolved", !.assignee = v, !.adverse = adverse,
                                      !.restriction = "inForce"]
  <2>1. adverse \in Department \cup {None}
    BY <1>1 DEF Adverse
  <2>2. files' = [files EXCEPT ![f] = row] /\ files[f].status = "open"
        /\ UNCHANGED <<onDuty, message, appealing, striking>>
    BY <1>5 DEF RestrictSender
  <2>. HIDE DEF adverse
  <2>3. /\ row \in FileRecords /\ row.status = "resolved"
        /\ row.appeal = files[f].appeal /\ row.verdict = files[f].verdict
    BY <1>1, <2>1 DEF FileRecords
  <2>. HIDE DEF row
  <2>. QED BY <1>1, <2>2, <2>3, FileUpdates DEF FileRow
<1>6. CASE LiftRestriction(v, f)
  <2>. DEFINE row == [files[f] EXCEPT !.status = "dismissed", !.assignee = v, !.restriction = "none"]
  <2>1. files' = [files EXCEPT ![f] = row]
        /\ UNCHANGED <<onDuty, message, appealing, striking>>
    BY <1>6 DEF LiftRestriction
  <2>2. /\ row \in FileRecords /\ row.status = "dismissed" /\ row.restriction = "none"
        /\ row.appeal = files[f].appeal /\ row.verdict = files[f].verdict
    BY <1>1 DEF FileRecords
  <2>. HIDE DEF row
  <2>. QED BY <2>1, <2>2, FileUpdates
<1>. QED BY <1>3, <1>4, <1>5, <1>6

\* A decision about the message, first or after an appeal.
LEMMA DecisionSteps ==
    ASSUME FilesInv, NEW v \in onDuty, NEW f \in DOMAIN files,
           \/ \E repeated \in BOOLEAN : Condemn(v, f, repeated)
           \/ Clear(v, f) \/ UpholdAppealed(v, f) \/ OverturnAppealed(v, f)
    PROVE  FilesInv'
<1>1. /\ files[f] \in FileRecords /\ FileRow(f) /\ v \in Department /\ f \in Files
      /\ striking \subseteq DOMAIN files /\ message \in {"published", "withheld"}
  BY DEF FilesInv, ReviewTypeOK
<1>2. ASSUME NEW row \in FileRecords, files' = [files EXCEPT ![f] = row],
             row.status = "open" => row.assignee \in onDuty \cup {None},
             row.appeal = "overturned" => row.status # "open" /\ row.restriction # "inForce",
             f \in DOMAIN appealing => row.appeal = "none",
             message' \in {"published", "withheld"},
             \/ message' = "published"
             \/ row.verdict = "against" /\ row.appeal # "overturned"
             \/ /\ message' = message /\ row.verdict = files[f].verdict /\ row.appeal # "overturned",
             UNCHANGED <<onDuty, appealing, striking>>
      PROVE  FilesInv'
  <2>1. /\ DOMAIN files' = DOMAIN files \cup {f} /\ files'[f] = row
        /\ \A g \in DOMAIN files \ {f} : files'[g] = files[g]
    BY <1>2
  <2>. QED BY <1>1, <1>2, <2>1, FileChanges DEF Against
<1>3. ASSUME NEW repeated \in BOOLEAN, Condemn(v, f, repeated) PROVE FilesInv'
  <2>. DEFINE adverse == Adverse(f, v)
              status == IF repeated THEN "open" ELSE "resolved"
              row == [files[f] EXCEPT !.status = status, !.assignee = v, !.adverse = adverse,
                                      !.verdict = "against"]
  <2>1. adverse \in Department \cup {None} /\ status \in {"open", "resolved"}
    BY <1>1 DEF Adverse
  <2>2. /\ files' = [files EXCEPT ![f] = row] /\ files[f].status = "open"
        /\ message' = "withheld" /\ UNCHANGED <<onDuty, appealing, striking>>
    BY <1>3 DEF Condemn
  <2>. HIDE DEF adverse, status
  <2>3. row \in FileRecords
    BY <1>1, <2>1 DEF FileRecords
  <2>4. row.appeal = files[f].appeal /\ row.verdict = "against" /\ row.assignee = v
    BY <1>1 DEF FileRecords
  <2>. HIDE DEF row
  <2>. QED BY <1>1, <1>2, <2>2, <2>3, <2>4 DEF FileRow
<1>4. CASE Clear(v, f)
  <2>. DEFINE row == [files[f] EXCEPT !.status = "dismissed", !.assignee = v, !.verdict = "for"]
  <2>1. /\ files' = [files EXCEPT ![f] = row] /\ files[f].status = "open"
        /\ message' = "published" /\ UNCHANGED <<onDuty, appealing, striking>>
    BY <1>4 DEF Clear
  <2>2. row \in FileRecords /\ row.appeal = files[f].appeal /\ row.status = "dismissed"
    BY <1>1 DEF FileRecords
  <2>. HIDE DEF row
  <2>. QED BY <1>1, <1>2, <2>1, <2>2 DEF FileRow
<1>5. CASE UpholdAppealed(v, f)
  <2>. DEFINE row == [files[f] EXCEPT !.status = "resolved", !.assignee = v, !.appeal = "upheld",
                                      !.original = None]
  <2>1. /\ files' = [files EXCEPT ![f] = row] /\ files[f].appeal = "pending"
        /\ UNCHANGED <<onDuty, message, appealing, striking>>
    BY <1>5 DEF UpholdAppealed
  <2>2. /\ row \in FileRecords /\ row.appeal = "upheld" /\ row.status = "resolved"
        /\ row.verdict = files[f].verdict
    BY <1>1 DEF FileRecords
  <2>. HIDE DEF row
  <2>. QED BY <1>1, <1>2, <2>1, <2>2 DEF FileRow
<1>6. CASE OverturnAppealed(v, f)
  <2>. DEFINE row == [files[f] EXCEPT !.status = "dismissed", !.assignee = v, !.appeal = "overturned",
                                      !.verdict = "for", !.original = None, !.restriction = "none"]
  <2>1. /\ files' = [files EXCEPT ![f] = row] /\ files[f].appeal = "pending"
        /\ message' = "published" /\ UNCHANGED <<onDuty, appealing, striking>>
    BY <1>6 DEF OverturnAppealed, Overturned
  <2>2. row \in FileRecords
    BY <1>1 DEF FileRecords
  <2>3. row.appeal = "overturned" /\ row.status = "dismissed" /\ row.restriction = "none"
    BY <1>1 DEF FileRecords
  <2>. HIDE DEF row
  <2>. QED BY <1>1, <1>2, <2>1, <2>2, <2>3 DEF FileRow
<1>. QED BY <1>3, <1>4, <1>5, <1>6

LEMMA SuspendReviewerKeeps ==
    ASSUME FilesInv, NEW l, NEW s \in Department, NEW r \in Department \cup {None}, SuspendReviewer(l, s, r)
    PROVE  FilesInv'
<1>. DEFINE handed == {f \in DOMAIN files : files[f].status = "open" /\ files[f].assignee = s}
<1>1. /\ DOMAIN files' = DOMAIN files
      /\ r \in onDuty' \cup {None} /\ onDuty' = onDuty \ {s}
      /\ UNCHANGED <<message, appealing, striking>>
  BY DEF SuspendReviewer
<1>2. ASSUME NEW f \in DOMAIN files
      PROVE  /\ files'[f] \in FileRecords /\ FileRow(f)'
             /\ files'[f].appeal = files[f].appeal /\ files'[f].verdict = files[f].verdict
  <2>1. files[f] \in FileRecords /\ FileRow(f)
    BY DEF FilesInv, ReviewTypeOK
  <2>2. CASE f \in handed
    <3>1. files'[f] = [files[f] EXCEPT !.assignee = r]
      BY <2>2 DEF SuspendReviewer
    <3>2. /\ files'[f] \in FileRecords /\ files'[f].status = files[f].status /\ files'[f].assignee = r
          /\ files'[f].appeal = files[f].appeal /\ files'[f].verdict = files[f].verdict
          /\ files'[f].restriction = files[f].restriction
      BY <2>1, <3>1 DEF FileRecords
    <3>. QED BY <1>1, <2>1, <3>2 DEF FileRow
  <2>3. CASE f \notin handed
    <3>1. files'[f] = files[f]
      BY <2>3 DEF SuspendReviewer
    <3>. QED BY <1>1, <2>1, <2>3, <3>1 DEF FileRow
  <2>. QED BY <2>2, <2>3
<1>. HIDE DEF handed
<1>3. ReviewTypeOK'
  BY <1>1, <1>2 DEF FilesInv, ReviewTypeOK
<1>. QED BY <1>1, <1>2, <1>3 DEF FilesInv, Against

LEMMA FilesInvKept ==
    ASSUME FilesInv, [Next]_vars
    PROVE  FilesInv'
<1>1. CASE UNCHANGED reviewVars
  BY <1>1 DEF reviewVars, FilesInv, ReviewTypeOK, FileRow, Against
<1>2. CASE Send
  BY <1>2 DEF Send, FilesInv, ReviewTypeOK, FileRow
<1>3. CASE FilesArise
  BY <1>2, <1>3, NewFiles, RestrictionSteps, AppealingSteps DEF FilesArise
<1>4. ASSUME NEW v \in Department, FilesByReviewer(v) PROVE FilesInv'
  <2>1. v \in onDuty
    BY <1>4 DEF FilesByReviewer
  <2>2. ASSUME NEW f \in DOMAIN files,
               \/ ClaimFile(v, f) \/ RestrictSender(v, f) \/ LiftRestriction(v, f)
               \/ \E to \in Department \cup {None} : AssignFile(f, to)
        PROVE  FilesInv'
    BY <2>1, <2>2, ReviewerSteps
  <2>3. ASSUME NEW f \in DOMAIN files,
               \/ \E repeated \in BOOLEAN : Condemn(v, f, repeated)
               \/ Clear(v, f) \/ UpholdAppealed(v, f) \/ OverturnAppealed(v, f)
        PROVE  FilesInv'
    BY <2>1, <2>3, DecisionSteps
  <2>4. ASSUME NEW s \in Department, NEW r \in Department \cup {None}, SuspendReviewer(v, s, r)
        PROVE  FilesInv'
    BY <2>4, SuspendReviewerKeeps
  <2>. QED BY <1>4, <2>2, <2>3, <2>4 DEF FilesByReviewer
<1>. QED BY <1>1, <1>3, <1>4, FilesFrame

-----------------------------------------------------------------------------
(***************************************************************************)
(* Requests about data.                                                    *)
(***************************************************************************)

\* One request changes: whoever handles it is on duty while it is active.
LEMMA RightChanges ==
    ASSUME RightsInv, UNCHANGED active, NEW k \in Requests, NEW row \in RightRows,
           row.status \in ActiveRight => row.handler \in Present,
           right' = [right EXCEPT ![k] = row]
    PROVE  RightsInv'
<1>1. /\ right' \in [Requests -> RightRows \cup {None}]
      /\ right'[k] = row /\ \A q \in Requests \ {k} : right'[q] = right[q]
  BY DEF RightsInv, RightsTypeOK
<1>. QED BY <1>1 DEF RightsInv, RightsTypeOK, RightIn, Present

LEMMA RightHandover ==
    ASSUME RightsInv, Suspension
    PROVE  RightsInv'
<1>. USE PersonnelAssumption
<1>1. PICK a \in Admins, s \in Staff, r \in Admins \cup {None} : Suspend(a, s, r)
  BY DEF Suspension
<1>2. active' = active \ {s} /\ None # s
  BY <1>1 DEF Suspend
<1>3. CASE HasAssignments(s) \/ r # None
  <2>1. r \in Present' /\ r \in Staff /\ Handoff(s, r)
    BY <1>1, <1>2, <1>3 DEF Suspend, Present, Staff
  <2>2. ASSUME NEW k \in Requests
        PROVE  /\ right'[k] \in RightRows \cup {None}
               /\ RightIn(k, ActiveRight)' => right'[k].handler \in Present'
    <3>1. /\ right[k] \in RightRows \cup {None}
          /\ RightIn(k, ActiveRight) => right[k].handler \in Present
      BY DEF RightsInv, RightsTypeOK
    <3>2. CASE k \in RightHandedOver(s)
      <4>1. right'[k] = [right[k] EXCEPT !.handler = r] /\ right[k] \in RightRows
        BY <2>1, <3>1, <3>2 DEF Handoff, RightHandedOver, RightIn
      <4>. QED BY <2>1, <4>1 DEF RightRows
    <3>3. CASE k \notin RightHandedOver(s)
      <4>1. right'[k] = right[k]
        BY <2>1, <3>3 DEF Handoff
      <4>. QED BY <1>2, <3>1, <3>3, <4>1 DEF RightIn, RightHandedOver, Present
    <3>. QED BY <3>2, <3>3
  <2>3. right' = [k \in Requests |-> right'[k]]
    BY <2>1 DEF Handoff
  <2>. QED BY <2>2, <2>3 DEF RightsInv, RightsTypeOK
<1>4. CASE ~(HasAssignments(s) \/ r # None)
  <2>1. UNCHANGED right /\ RightHandedOver(s) = {}
    BY <1>1, <1>4 DEF Suspend, HasAssignments
  <2>. QED BY <1>2, <2>1 DEF RightsInv, RightsTypeOK, RightIn, RightHandedOver, Present
<1>. QED BY <1>3, <1>4

LEMMA RightsInvKept ==
    ASSUME RightsInv, [Next]_vars
    PROVE  RightsInv'
<1>1. CASE UNCHANGED <<right, active>>
  BY <1>1 DEF RightsInv, RightsTypeOK, RightIn, Present
<1>2. ASSUME NEW k \in Requests, RequestRight(k) \/ AddFollowUp(k), UNCHANGED active
      PROVE  RightsInv'
  <2>. DEFINE row == [status |-> "submitted", handler |-> None]
  <2>1. row \in RightRows /\ row.handler \in Present
    BY DEF RightRows, ActiveRight, Present
  <2>2. right' = [right EXCEPT ![k] = row]
    BY <1>2 DEF RequestRight, AddFollowUp
  <2>. HIDE DEF row
  <2>. QED BY <1>2, <2>1, <2>2, RightChanges
<1>3. ASSUME NEW s \in Staff, NEW k \in Requests, Assignable(s, right[k].handler), UNCHANGED active,
             RightIn(k, ActiveRight), NEW status \in ActiveRight \cup {"completed", "rejected"},
             right' = [right EXCEPT ![k] = [status |-> status, handler |-> s]]
      PROVE  RightsInv'
  <2>. DEFINE row == [status |-> status, handler |-> s]
  <2>1. row \in RightRows /\ row.handler = s
    BY DEF RightRows
  <2>2. s \in Present
    BY <1>3 DEF Assignable, RightsInv, Present
  <2>. HIDE DEF row
  <2>3. right' = [right EXCEPT ![k] = row]
    BY <1>3 DEF row
  <2>. QED BY <1>3, <2>1, <2>2, <2>3, RightChanges
<1>4. ASSUME NEW s \in Staff, NEW k \in Requests, ClaimRight(s, k), UNCHANGED active PROVE RightsInv'
  <2>1. right[k] \in RightRows
    BY <1>4 DEF ClaimRight, RightIn, RightsInv, RightsTypeOK
  <2>2. [right[k] EXCEPT !.handler = s] = [status |-> right[k].status, handler |-> s]
        /\ right[k].status \in ActiveRight \cup {"completed", "rejected"}
    BY <2>1 DEF RightRows
  <2>3. right' = [right EXCEPT ![k] = [status |-> right[k].status, handler |-> s]]
    BY <1>4, <2>2 DEF ClaimRight
  <2>. QED BY <1>3, <1>4, <2>2, <2>3 DEF ClaimRight
<1>5. ASSUME NEW s \in Staff, NEW k \in Requests, TransitionRight(s, k), UNCHANGED active PROVE RightsInv'
  <2>1. PICK next \in DataRightsTransitions[right[k].status] :
           right' = [right EXCEPT ![k] = [status |-> next, handler |-> s]]
    BY <1>5 DEF TransitionRight
  <2>2. RightIn(k, ActiveRight) /\ Assignable(s, right[k].handler)
    BY <1>5 DEF TransitionRight
  <2>3. next \in ActiveRight \cup {"completed", "rejected"}
    BY <2>1, <2>2 DEF RightIn, ActiveRight, DataRightsTransitions
  <2>. QED BY <1>3, <1>5, <2>1, <2>2, <2>3
<1>. QED BY <1>1, <1>2, <1>4, <1>5, RightFrame, RightHandover DEF RightArises, RightByStaff

-----------------------------------------------------------------------------
(***************************************************************************)
(* Tickets, incidents and sanctions.                                       *)
(***************************************************************************)

\* An open ticket or incident is nobody's or is somebody's on duty.
HeldRow(row) == IsOpen(row) => row.assignee \in Present

TicketsHeld == ticket \in [Tickets -> TicketRows \cup {None}] /\ \A t \in Tickets : HeldRow(ticket[t])
IncidentsHeld ==
    incident \in [Incidents -> TicketRows \cup {None}] /\ \A i \in Incidents : HeldRow(incident[i])

SanctionHeld ==
    /\ sanction \in SanctionRows \cup {None}
    /\ sanction # None =>
         /\ sanction.appeal = "none" => sanction.assignee = None
         /\ sanction.appeal = "pending" =>
               sanction.assignee \in Present /\ sanction.assignee # sanction.creator

LEMMA DesksParts ==
    /\ DesksInv <=> TicketsHeld /\ IncidentsHeld /\ SanctionHeld
    /\ DesksInv' <=> TicketsHeld' /\ IncidentsHeld' /\ SanctionHeld'
  BY DEF DesksInv, TicketsHeld, IncidentsHeld, SanctionHeld, HeldRow

LEMMA TicketChanges ==
    ASSUME TicketsHeld, UNCHANGED active, NEW t \in Tickets, NEW row \in TicketRows, HeldRow(row),
           ticket' = [ticket EXCEPT ![t] = row]
    PROVE  TicketsHeld'
<1>1. /\ ticket' \in [Tickets -> TicketRows \cup {None}]
      /\ ticket'[t] = row /\ \A q \in Tickets \ {t} : ticket'[q] = ticket[q]
  BY DEF TicketsHeld
<1>. QED BY <1>1 DEF TicketsHeld, HeldRow, Present

LEMMA IncidentChanges ==
    ASSUME IncidentsHeld, UNCHANGED active, NEW i \in Incidents, NEW row \in TicketRows, HeldRow(row),
           incident' = [incident EXCEPT ![i] = row]
    PROVE  IncidentsHeld'
<1>1. /\ incident' \in [Incidents -> TicketRows \cup {None}]
      /\ incident'[i] = row /\ \A q \in Incidents \ {i} : incident'[q] = incident[q]
  BY DEF IncidentsHeld
<1>. QED BY <1>1 DEF IncidentsHeld, HeldRow, Present

LEMMA TicketSteps ==
    ASSUME DesksInv, UNCHANGED active, NEW t \in Tickets,
           \/ OpenTicket(t)
           \/ \E s \in Staff : \/ ClaimTicket(s, t) \/ AssignTicket(t, s) \/ ResolveTicket(s, t)
    PROVE  DesksInv'
<1>1. TicketsHeld /\ IncidentsHeld /\ SanctionHeld
  BY DesksParts
<1>2. ticket[t] # None => ticket[t] \in TicketRows /\ HeldRow(ticket[t])
  BY <1>1 DEF TicketsHeld
<1>3. UNCHANGED <<incident, sanction>>
  BY DEF OpenTicket, ClaimTicket, AssignTicket, ResolveTicket
<1>4. IncidentsHeld' /\ SanctionHeld'
  BY <1>1, <1>3 DEF IncidentsHeld, SanctionHeld, HeldRow, Present
<1>5. CASE OpenTicket(t)
  <2>. DEFINE row == [status |-> "open", assignee |-> None]
  <2>1. row \in TicketRows /\ HeldRow(row)
    BY DEF TicketRows, Open, HeldRow, Present
  <2>2. ticket' = [ticket EXCEPT ![t] = row]
    BY <1>5 DEF OpenTicket
  <2>. HIDE DEF row
  <2>. QED BY <1>1, <1>4, <2>1, <2>2, TicketChanges, DesksParts
<1>6. ASSUME NEW s \in Staff, ClaimTicket(s, t) \/ AssignTicket(t, s) PROVE DesksInv'
  <2>. DEFINE row == [status |-> "inProgress", assignee |-> s]
  <2>1. IsOpen(ticket[t]) /\ Assignable(s, ticket[t].assignee)
    BY <1>6 DEF ClaimTicket, AssignTicket
  <2>2. s \in Present
    BY <1>2, <2>1 DEF IsOpen, Assignable, HeldRow, Present
  <2>3. row \in TicketRows /\ HeldRow(row)
    BY <2>2 DEF TicketRows, Open, HeldRow
  <2>4. ticket' = [ticket EXCEPT ![t] = row]
    BY <1>6 DEF ClaimTicket, AssignTicket
  <2>. HIDE DEF row
  <2>. QED BY <1>1, <1>4, <2>3, <2>4, TicketChanges, DesksParts
<1>7. ASSUME NEW s \in Staff, ResolveTicket(s, t) PROVE DesksInv'
  <2>. DEFINE row == [ticket[t] EXCEPT !.status = "resolved"]
  <2>1. ticket[t] \in TicketRows
    BY <1>2, <1>7 DEF ResolveTicket, IsOpen
  <2>2. row \in TicketRows /\ HeldRow(row)
    BY <2>1 DEF TicketRows, HeldRow, IsOpen, Open
  <2>3. ticket' = [ticket EXCEPT ![t] = row]
    BY <1>7 DEF ResolveTicket
  <2>. HIDE DEF row
  <2>. QED BY <1>1, <1>4, <2>2, <2>3, TicketChanges, DesksParts
<1>. QED BY <1>5, <1>6, <1>7

LEMMA IncidentSteps ==
    ASSUME DesksInv, UNCHANGED active, NEW i \in Incidents,
           \/ ReportIncident(i)
           \/ \E s \in Staff : \/ ClaimIncident(s, i)
                               \/ \E to \in Staff : AssignIncident(s, i, to)
                               \/ \E status \in {"inProgress", "resolved"} : ResolveIncident(s, i, status)
    PROVE  DesksInv'
<1>1. TicketsHeld /\ IncidentsHeld /\ SanctionHeld
  BY DesksParts
<1>2. incident[i] # None => incident[i] \in TicketRows /\ HeldRow(incident[i])
  BY <1>1 DEF IncidentsHeld
<1>3. UNCHANGED <<ticket, sanction>>
  BY DEF ReportIncident, ClaimIncident, AssignIncident, ResolveIncident
<1>4. TicketsHeld' /\ SanctionHeld'
  BY <1>1, <1>3 DEF TicketsHeld, SanctionHeld, HeldRow, Present
<1>5. CASE ReportIncident(i)
  <2>. DEFINE row == [status |-> "open", assignee |-> None]
  <2>1. row \in TicketRows /\ HeldRow(row)
    BY DEF TicketRows, Open, HeldRow, Present
  <2>2. incident' = [incident EXCEPT ![i] = row]
    BY <1>5 DEF ReportIncident
  <2>. HIDE DEF row
  <2>. QED BY <1>1, <1>4, <2>1, <2>2, IncidentChanges, DesksParts
<1>6. ASSUME NEW to \in Staff, to \in active,
             incident' = [incident EXCEPT ![i] = [status |-> "inProgress", assignee |-> to]]
      PROVE  DesksInv'
  <2>. DEFINE row == [status |-> "inProgress", assignee |-> to]
  <2>1. row \in TicketRows /\ HeldRow(row)
    BY <1>6 DEF TicketRows, Open, HeldRow, Present
  <2>2. incident' = [incident EXCEPT ![i] = row]
    BY <1>6
  <2>. HIDE DEF row
  <2>. QED BY <1>1, <1>4, <2>1, <2>2, IncidentChanges, DesksParts
<1>7. ASSUME NEW s \in Staff, ClaimIncident(s, i) PROVE DesksInv'
  BY <1>6, <1>7 DEF ClaimIncident
<1>8. ASSUME NEW s \in Staff, NEW to \in Staff, AssignIncident(s, i, to) PROVE DesksInv'
  BY <1>6, <1>8 DEF AssignIncident
<1>9. ASSUME NEW s \in Staff, NEW status \in {"inProgress", "resolved"}, ResolveIncident(s, i, status)
      PROVE  DesksInv'
  <2>. DEFINE row == [incident[i] EXCEPT !.status = status]
  <2>1. incident[i] \in TicketRows /\ HeldRow(incident[i]) /\ IsOpen(incident[i])
    BY <1>2, <1>9 DEF ResolveIncident, IsOpen
  <2>2. row \in TicketRows /\ row.assignee = incident[i].assignee
    BY <2>1 DEF TicketRows, Open
  <2>3. HeldRow(row)
    BY <2>1, <2>2 DEF HeldRow
  <2>4. incident' = [incident EXCEPT ![i] = row]
    BY <1>9 DEF ResolveIncident
  <2>. HIDE DEF row
  <2>. QED BY <1>1, <1>4, <2>2, <2>3, <2>4, IncidentChanges, DesksParts
<1>. QED BY <1>5, <1>7, <1>8, <1>9

LEMMA SanctionSteps ==
    ASSUME DesksInv, UNCHANGED active,
           \/ AppealSanction \/ LiftSanction
           \/ \E s \in Admins : \/ Sanction(s) \/ ClaimSanctionAppeal(s)
                                \/ \E to \in Admins : AssignSanctionAppeal(s, to)
                                \/ \E outcome \in {"upheld", "overturned"} : ResolveSanctionAppeal(s, outcome)
    PROVE  DesksInv'
<1>. USE PersonnelAssumption DEF AppealPending
<1>1. TicketsHeld /\ IncidentsHeld /\ SanctionHeld
  BY DesksParts
<1>2. UNCHANGED <<ticket, incident>>
  BY DEF AppealSanction, LiftSanction, Sanction, ClaimSanctionAppeal, AssignSanctionAppeal,
         ResolveSanctionAppeal
<1>3. TicketsHeld' /\ IncidentsHeld'
  BY <1>1, <1>2 DEF TicketsHeld, IncidentsHeld, HeldRow, Present
<1>4. sanction # None => sanction \in SanctionRows
  BY <1>1 DEF SanctionHeld
<1>5. CASE AppealSanction
  <2>1. sanction' \in SanctionRows /\ sanction'.appeal = "pending"
        /\ sanction'.assignee = sanction.assignee /\ sanction'.creator = sanction.creator
        /\ sanction.creator \in Admins
    BY <1>4, <1>5 DEF AppealSanction, SanctionRows
  <2>2. sanction.assignee = None
    BY <1>1, <1>5 DEF AppealSanction, SanctionHeld
  <2>3. SanctionHeld'
    BY <2>1, <2>2 DEF SanctionHeld, Present, Staff
  <2>. QED BY <1>3, <2>3, DesksParts
<1>6. CASE LiftSanction
  <2>1. SanctionHeld'
    BY <1>6 DEF LiftSanction, SanctionHeld
  <2>. QED BY <1>3, <2>1, DesksParts
<1>7. ASSUME NEW s \in Admins, Sanction(s) PROVE DesksInv'
  <2>1. sanction' \in SanctionRows /\ sanction'.appeal = "none" /\ sanction'.assignee = None
    BY <1>7 DEF Sanction, SanctionRows
  <2>2. SanctionHeld'
    BY <2>1 DEF SanctionHeld
  <2>. QED BY <1>3, <2>2, DesksParts
<1>8. ASSUME NEW to \in Admins, AppealPending, sanction.creator # to, Assignable(to, sanction.assignee),
             sanction' = [sanction EXCEPT !.assignee = to]
      PROVE  DesksInv'
  <2>1. to \in Present
    BY <1>1, <1>8 DEF Assignable, SanctionHeld, Present
  <2>2. /\ sanction' \in SanctionRows /\ sanction'.appeal = "pending"
        /\ sanction'.assignee = to /\ sanction'.creator = sanction.creator
    BY <1>4, <1>8 DEF SanctionRows, Staff
  <2>3. SanctionHeld'
    BY <1>8, <2>1, <2>2 DEF SanctionHeld, Present
  <2>. QED BY <1>3, <2>3, DesksParts
<1>9. ASSUME NEW s \in Admins, ClaimSanctionAppeal(s) PROVE DesksInv'
  BY <1>8, <1>9 DEF ClaimSanctionAppeal
<1>10. ASSUME NEW s \in Admins, NEW to \in Admins, AssignSanctionAppeal(s, to) PROVE DesksInv'
  BY <1>8, <1>10 DEF AssignSanctionAppeal
<1>11. ASSUME NEW s \in Admins, NEW outcome \in {"upheld", "overturned"}, ResolveSanctionAppeal(s, outcome)
       PROVE  DesksInv'
  <2>1. CASE outcome = "overturned"
    <3>1. SanctionHeld'
      BY <1>11, <2>1 DEF ResolveSanctionAppeal, SanctionHeld
    <3>. QED BY <1>3, <3>1, DesksParts
  <2>2. CASE outcome = "upheld"
    <3>1. sanction' \in SanctionRows /\ sanction'.appeal = "upheld"
      BY <1>4, <1>11, <2>2 DEF ResolveSanctionAppeal, SanctionRows
    <3>2. SanctionHeld'
      BY <3>1 DEF SanctionHeld
    <3>. QED BY <1>3, <3>2, DesksParts
  <2>. QED BY <2>1, <2>2
<1>. QED BY <1>5, <1>6, <1>7, <1>9, <1>10, <1>11

LEMMA DesksHandover ==
    ASSUME DesksInv, Suspension
    PROVE  DesksInv'
<1>. USE PersonnelAssumption
<1>1. PICK a \in Admins, s \in Staff, r \in Admins \cup {None} : Suspend(a, s, r)
  BY DEF Suspension
<1>2. active' = active \ {s} /\ None # s
  BY <1>1 DEF Suspend
<1>3. TicketsHeld /\ IncidentsHeld /\ SanctionHeld
  BY DesksParts
<1>4. CASE HasAssignments(s) \/ r # None
  <2>1. r \in Present' /\ r \in Staff /\ r # None /\ Handoff(s, r)
    BY <1>1, <1>2, <1>4 DEF Suspend, Present, Staff
  <2>2. ASSUME NEW row \in TicketRows \cup {None}, HeldRow(row),
               NEW next, next = IF IsOpen(row) /\ row.assignee = s THEN [row EXCEPT !.assignee = r] ELSE row
        PROVE  next \in TicketRows \cup {None} /\ (IsOpen(next) => next.assignee \in Present')
    <3>1. CASE IsOpen(row) /\ row.assignee = s
      <4>1. next = [row EXCEPT !.assignee = r] /\ row \in TicketRows
        BY <2>2, <3>1 DEF IsOpen
      <4>. QED BY <2>1, <4>1 DEF TicketRows
    <3>2. CASE ~(IsOpen(row) /\ row.assignee = s)
      BY <1>2, <2>2, <3>2 DEF HeldRow, Present
    <3>. QED BY <3>1, <3>2
  <2>3. TicketsHeld'
    <3>1. ASSUME NEW t \in Tickets
          PROVE  ticket'[t] \in TicketRows \cup {None} /\ (IsOpen(ticket'[t]) => ticket'[t].assignee \in Present')
      <4>1. ticket[t] \in TicketRows \cup {None} /\ HeldRow(ticket[t])
        BY <1>3 DEF TicketsHeld
      <4>2. ticket'[t] = IF IsOpen(ticket[t]) /\ ticket[t].assignee = s
                         THEN [ticket[t] EXCEPT !.assignee = r] ELSE ticket[t]
        BY <2>1 DEF Handoff
      <4>. QED BY <4>1, <4>2, <2>2
    <3>2. ticket' = [t \in Tickets |-> ticket'[t]]
      BY <2>1 DEF Handoff
    <3>. QED BY <3>1, <3>2 DEF TicketsHeld, HeldRow
  <2>4. IncidentsHeld'
    <3>1. ASSUME NEW i \in Incidents
          PROVE  incident'[i] \in TicketRows \cup {None} /\ (IsOpen(incident'[i]) => incident'[i].assignee \in Present')
      <4>1. incident[i] \in TicketRows \cup {None} /\ HeldRow(incident[i])
        BY <1>3 DEF IncidentsHeld
      <4>2. incident'[i] = IF IsOpen(incident[i]) /\ incident[i].assignee = s
                           THEN [incident[i] EXCEPT !.assignee = r] ELSE incident[i]
        BY <2>1 DEF Handoff
      <4>. QED BY <4>1, <4>2, <2>2
    <3>2. incident' = [i \in Incidents |-> incident'[i]]
      BY <2>1 DEF Handoff
    <3>. QED BY <3>1, <3>2 DEF IncidentsHeld, HeldRow
  <2>5. SanctionHeld'
    <3>1. CASE AppealPending /\ sanction.assignee = s
      <4>. DEFINE receiver == Receiver(r, sanction.creator)
      <4>1. /\ sanction' = [sanction EXCEPT !.assignee = receiver]
            /\ sanction \in SanctionRows /\ sanction.appeal = "pending"
        BY <1>3, <2>1, <3>1 DEF Handoff, AppealPending, SanctionHeld
      <4>2. receiver \in Present' /\ receiver \in Staff \cup {None} /\ receiver # sanction.creator
        BY <2>1, <4>1 DEF Receiver, Present, SanctionRows, Staff
      <4>. HIDE DEF receiver
      <4>3. /\ sanction' \in SanctionRows /\ sanction'.appeal = "pending"
            /\ sanction'.assignee = receiver /\ sanction'.creator = sanction.creator
        BY <4>1, <4>2 DEF SanctionRows
      <4>. QED BY <4>2, <4>3 DEF SanctionHeld
    <3>2. CASE ~(AppealPending /\ sanction.assignee = s)
      <4>1. sanction' = sanction
        BY <2>1, <3>2 DEF Handoff
      <4>. QED BY <1>2, <1>3, <3>2, <4>1 DEF SanctionHeld, AppealPending, Present
    <3>. QED BY <3>1, <3>2
  <2>. QED BY <2>3, <2>4, <2>5, DesksParts
<1>5. CASE ~(HasAssignments(s) \/ r # None)
  <2>1. UNCHANGED desks
    BY <1>1, <1>5 DEF Suspend
  <2>2. /\ \A t \in Tickets : ~(IsOpen(ticket[t]) /\ ticket[t].assignee = s)
        /\ \A i \in Incidents : ~(IsOpen(incident[i]) /\ incident[i].assignee = s)
        /\ ~(AppealPending /\ sanction.assignee = s)
    BY <1>5 DEF HasAssignments
  <2>3. TicketsHeld' /\ IncidentsHeld' /\ SanctionHeld'
    BY <1>2, <1>3, <2>1, <2>2
    DEF desks, TicketsHeld, IncidentsHeld, SanctionHeld, HeldRow, Present, AppealPending
  <2>. QED BY <2>3, DesksParts
<1>. QED BY <1>4, <1>5

LEMMA DesksInvKept ==
    ASSUME DesksInv, [Next]_vars
    PROVE  DesksInv'
<1>1. CASE UNCHANGED <<desks, active>>
  BY <1>1 DEF desks, DesksInv, Present
<1>2. CASE DeskArises /\ UNCHANGED active
  BY <1>2, TicketSteps, IncidentSteps, SanctionSteps DEF DeskArises
<1>3. ASSUME NEW s \in Staff, DeskByStaff(s), UNCHANGED active PROVE DesksInv'
  <2>1. ASSUME NEW t \in Tickets, ClaimTicket(s, t) \/ ResolveTicket(s, t) PROVE DesksInv'
    BY <1>3, <2>1, TicketSteps
  <2>2. ASSUME NEW t \in Tickets, NEW to \in Admins \cup Support, AssignTicket(t, to) PROVE DesksInv'
    BY <1>3, <2>2, TicketSteps DEF Staff
  <2>3. ASSUME NEW i \in Incidents,
               \/ ClaimIncident(s, i)
               \/ \E to \in Admins \cup Supply : AssignIncident(s, i, to)
               \/ \E status \in {"inProgress", "resolved"} : ResolveIncident(s, i, status)
        PROVE  DesksInv'
    BY <1>3, <2>3, IncidentSteps DEF Staff
  <2>4. ASSUME s \in Admins,
               \/ Sanction(s) \/ LiftSanction \/ ClaimSanctionAppeal(s)
               \/ \E to \in Admins : AssignSanctionAppeal(s, to)
               \/ \E outcome \in {"upheld", "overturned"} : ResolveSanctionAppeal(s, outcome)
        PROVE  DesksInv'
    BY <1>3, <2>4, SanctionSteps
  <2>. QED BY <1>3, <2>1, <2>2, <2>3, <2>4 DEF DeskByStaff
<1>. QED BY <1>1, <1>2, <1>3, DesksFrame, DesksHandover

-----------------------------------------------------------------------------
(***************************************************************************)
(* The theorems.                                                           *)
(***************************************************************************)

LEMMA Initially == DeskInit => IInv
<1>. SUFFICES ASSUME DeskInit PROVE IInv
  OBVIOUS
<1>. USE PersonnelAssumption DEF DeskInit
<1>1. PersonnelTypeOK /\ agenda \in Agendas
  <2>1. agenda.crew \subseteq Staff
    BY DeskAssumption
  <2>. QED BY <2>1 DEF PersonnelInit, PersonnelTypeOK
<1>2. CaseInv
  BY DEF CaseInit, CaseInv, CaseTypeOK, Ordinary
<1>3. ComplaintInv
  <2>1. wx \in WxRecords
    BY DEF ComplaintInit, WxRecords, ProviderStates
  <2>. QED BY <2>1 DEF ComplaintInit, ComplaintInv, ComplaintTypeOK, Calls
<1>4. StandingInv
  <2>1. /\ profile \in ProfileRows /\ ~profile.adult /\ profile.status = "pendingReview"
        /\ published = FALSE /\ actions = [x \in Actions |-> None]
        /\ identity \in [verified : BOOLEAN, revoker : Curators \cup {None}]
    BY DEF StandingInit, ProfileRows
  <2>. QED BY <2>1 DEF StandingInv, StandingTypeOK
<1>5. BillInv
  <2>1. PICK kind \in BillKinds : BillInit(kind)
    BY DEF BillKinds
  <2>2. bill \in BillRows /\ bill.imported = None
    BY <2>1 DEF BillInit, BillRows
  <2>3. /\ records = [x \in References |-> "absent"] /\ processed = records
        /\ sorting = [x \in References |-> None] /\ upload = None /\ downloads = {}
        /\ DOMAIN issues = {}
    BY <2>1 DEF BillInit
  <2>. QED BY <2>2, <2>3 DEF BillInv, BillTypeOK, LocalRecords
<1>6. FilesInv
  BY DEF ReviewInit, FilesInv, ReviewTypeOK
<1>7. RightsInv
  BY DEF RightsInit, RightsInv, RightsTypeOK, RightIn
<1>8. DesksInv
  BY DEF DesksInv, IsOpen
<1>. QED BY <1>1, <1>2, <1>3, <1>4, <1>5, <1>6, <1>7, <1>8 DEF IInv

LEMMA Inductive == Spec => []IInv
<1>1. IInv /\ [Next]_vars => IInv'
  BY PersonnelKept, CaseInvKept, ComplaintInvKept, StandingInvKept, BillInvKept, FilesInvKept,
     RightsInvKept, DesksInvKept DEF IInv
<1>. QED BY Initially, <1>1, PTL DEF Spec

\* Every variable of the desks keeps its type, for any staff and any work.
THEOREM TypeCorrect == Spec => []DeskTypeOK
<1>1. IInv => DeskTypeOK
  BY DEF IInv, DeskTypeOK, CaseInv, ComplaintInv, StandingInv, BillInv, FilesInv, RightsInv, DesksInv
<1>. QED BY Inductive, <1>1, PTL

\* However suspensions, late requests, claims, assignments and hand-overs follow
\* each other, nobody who has been suspended is left with work that only the
\* person responsible can finish (staff-offboarding.service.ts).
THEOREM StaffedWorkAlways == Spec => []StaffedWork
<1>1. IInv => StaffedWork
  <2>. SUFFICES ASSUME IInv PROVE StaffedWork
    OBVIOUS
  <2>1. \A f \in DOMAIN files : files[f].status = "open" => files[f].assignee \in onDuty \cup {None}
    BY DEF IInv, FilesInv, FileRow
  <2>2. ASSUME NEW s \in Staff \ active
        PROVE  /\ \A t \in Tickets : ~(IsOpen(ticket[t]) /\ ticket[t].assignee = s)
               /\ \A i \in Incidents : ~(IsOpen(incident[i]) /\ incident[i].assignee = s)
               /\ \A c \in CaseHandedOver(s) \cup AppealHandedOver(s) : ~Ordinary(c)
               /\ ~(AppealPending /\ sanction.assignee = s)
               /\ ActionAppealHandedOver(s) \cup RightHandedOver(s) = {}
    <3>1. s \notin Present
      BY PersonnelAssumption DEF Present
    <3>2. /\ \A t \in Tickets : ~(IsOpen(ticket[t]) /\ ticket[t].assignee = s)
          /\ \A i \in Incidents : ~(IsOpen(incident[i]) /\ incident[i].assignee = s)
          /\ ~(AppealPending /\ sanction.assignee = s)
      BY <3>1 DEF IInv, DesksInv, AppealPending
    <3>3. \A c \in CaseHandedOver(s) \cup AppealHandedOver(s) : ~Ordinary(c)
      BY <3>1 DEF IInv, CaseInv, OrdinaryRow, CaseHandedOver, AppealHandedOver, CaseIn
    <3>4. ActionAppealHandedOver(s) = {}
      BY <3>1 DEF IInv, StandingInv, ActionRow, ActionAppealHandedOver
    <3>5. RightHandedOver(s) = {}
      BY <3>1 DEF IInv, RightsInv, RightHandedOver
    <3>. QED BY <3>2, <3>3, <3>4, <3>5
  <2>. QED BY <2>1, <2>2 DEF StaffedWork
<1>. QED BY Inductive, <1>1, PTL

\* Whoever is responsible for an appeal did not take the decision that is appealed
\* (attendance-disputes.service.ts, companion-lifecycle.service.ts,
\* user-account-actions.service.ts), also after a colleague was suspended.
THEOREM AppealIndependentAlways == Spec => []AppealIndependent
<1>1. IInv => AppealIndependent
  BY DEF IInv, AppealIndependent, CaseInv, OrdinaryRow, DesksInv, AppealPending, StandingInv, ActionRow
<1>. QED BY Inductive, <1>1, PTL

\* A case of the ordinary kind that was appealed is closed by somebody other than
\* the one who decided it; it is the cases on a safety boundary, which may be
\* claimed and decided again, that keep AppealsAreReviewed from holding of all.
THEOREM OrdinaryAppealsReviewed ==
    Spec => [](\A c \in Cases : Ordinary(c) /\ CaseIn(c, {"final"}) /\ cases[c].appellant # None =>
                  cases[c].reviewer \notin {None, cases[c].decider})
<1>1. IInv => \A c \in Cases : Ordinary(c) /\ CaseIn(c, {"final"}) /\ cases[c].appellant # None =>
                 cases[c].reviewer \notin {None, cases[c].decider}
  BY DEF IInv, CaseInv, OrdinaryRow, CaseIn
<1>. QED BY Inductive, <1>1, PTL

\* A reply that counts as sent says something WeChat has received, whatever was
\* lost, repeated or read late (payment-disputes.service.ts).
THEOREM RepliesAreRealAlways == Spec => []RepliesAreReal
<1>1. IInv => RepliesAreReal
  BY DEF IInv, RepliesAreReal, ComplaintInv
<1>. QED BY Inductive, <1>1, PTL

\* A profile stands because somebody else than its submitter verified it, and what
\* is on offer has such a profile, a verified owner and no restriction in force
\* (companion-lifecycle.service.ts, companions.service.ts).
THEOREM GoodStandingAlways == Spec => []GoodStanding
<1>1. IInv => GoodStanding
  BY DEF IInv, GoodStanding, StandingInv
<1>. QED BY Inductive, <1>1, PTL

\* A bill that no longer blocks the release is explained row by row and record by
\* record, or two people closed the difference
\* (wechat-daily-reconciliation.service.ts, wechat-reconciliation-gate.ts).
THEOREM ClearMeansReconciledAlways == Spec => []ClearMeansReconciled
<1>1. IInv => ClearMeansReconciled
  <2>. SUFFICES ASSUME IInv PROVE ClearMeansReconciled
    OBVIOUS
  <2>1. ASSUME GateClear, NEW i \in DOMAIN issues, i # <<"silence">> \/ bill.imported = None
        PROVE  ClosedByTwo(i)
    <3>1. issues[i].status \in {"resolved", "acceptedException"}
      BY <2>1 DEF GateClear, ClosedIssue, IInv, BillInv
    <3>. QED BY <3>1 DEF ClosedByTwo, IssueIn, IInv, BillInv
  <2>2. IssueIn(<<"silence">>, {"recovered"}) => bill.imported # None
    BY DEF IssueIn, IInv, BillInv
  <2>3. ASSUME GateClear, bill.imported # None, NEW x \in References
        PROVE  IF bill.imported[x] = "none"
               THEN processed[x] = "here" => ClosedByTwo(<<"local", x>>)
               ELSE \/ bill.imported[x] = "exact" /\ processed[x] \in {"here", "otherDay"}
                    \/ ClosedByTwo(<<"row", x>>)
    <3>1. Explained(x)
      BY <2>3 DEF IInv, BillInv
    <3>2. <<"local", x>> # <<"silence">> /\ <<"row", x>> # <<"silence">>
      OBVIOUS
    <3>. QED BY <2>1, <2>3, <3>1, <3>2 DEF Explained
  <2>4. ASSUME GateClear, bill.imported = None, \E x \in References : processed[x] = "here"
        PROVE  ClosedByTwo(<<"silence">>)
    BY <2>1, <2>4 DEF IInv, BillInv
  <2>. QED BY <2>2, <2>3, <2>4 DEF ClearMeansReconciled
<1>. QED BY Inductive, <1>1, PTL

\* What an appeal has undone stays undone: the restriction of its case is lifted,
\* and the message is withheld only while a case that is not overturned says so
\* (review-case.service.ts, chat-restriction.service.ts).
THEOREM OverturnedIsUndoneAlways == Spec => []OverturnedIsUndone
<1>1. IInv => OverturnedIsUndone
  BY DEF IInv, OverturnedIsUndone, FilesInv, FileRow, Against
<1>. QED BY Inductive, <1>1, PTL

-----------------------------------------------------------------------------
(***************************************************************************)
(* What no step takes back.                                                *)
(***************************************************************************)

Decided == {"decided", "appealed", "final"}

\* An ordinary case in a step.
CaseGoesOn(old, new) ==
    /\ old.status \in Decided =>
          new.status \in Decided /\ new.decision = old.decision /\ new.decider = old.decider
    /\ old.status = "appealed" => new.status \in {"appealed", "final"}
    /\ old.appellant # None => new.appellant = old.appellant
    /\ old.status = "final" =>
          new.status = "final" /\ new.outcome = old.outcome /\ new.reviewer = old.reviewer
    /\ old.refund => new.refund

RefundRow(row) ==
    /\ row.refund => row.status = "final" /\ row.outcome = "fullRefund"
    /\ row.starting => row.status = "final" /\ ~row.refund

\* What a step may make of a case.
CaseMayBecome(old, new) ==
    /\ new.issue = old.issue
    /\ old.issue = "ordinary" => CaseGoesOn(old, new) /\ (RefundRow(old) => RefundRow(new))

GoesOn(c) == cases'[c] # None /\ CaseMayBecome(cases[c], cases'[c])

LEMMA CaseRests ==
    ASSUME NEW d \in Cases, cases[d] # None, cases'[d] = cases[d]
    PROVE  GoesOn(d)
  BY DEF GoesOn, CaseMayBecome, CaseGoesOn

\* The fields of a case that matter here are as they were.
LEMMA CaseKept ==
    ASSUME NEW old, NEW new,
           /\ new.issue = old.issue /\ new.status = old.status
           /\ new.decision = old.decision /\ new.decider = old.decider
           /\ new.appellant = old.appellant /\ new.outcome = old.outcome
           /\ new.reviewer = old.reviewer
           /\ new.refund = old.refund /\ new.starting = old.starting
    PROVE  CaseMayBecome(old, new)
  BY DEF CaseMayBecome, CaseGoesOn, RefundRow

\* A case is changed into row, as the case goes on.
LEMMA CaseWrites ==
    ASSUME CaseTypeOK, NEW c \in Cases, NEW row \in CaseRecords, CaseMayBecome(cases[c], row),
           cases' = [cases EXCEPT ![c] = row],
           NEW d \in Cases, cases[d] # None
    PROVE  GoesOn(d)
<1>1. cases'[c] = row /\ \A x \in Cases \ {c} : cases'[x] = cases[x]
  BY DEF CaseTypeOK
<1>2. row # None
  BY CaseAssumption
<1>3. CASE d = c
  BY <1>1, <1>2, <1>3 DEF GoesOn
<1>. QED BY <1>1, <1>3, CaseRests

LEMMA CaseArisesGoesOn ==
    ASSUME CaseInv, CaseArises, NEW d \in Cases, cases[d] # None
    PROVE  GoesOn(d)
<1>. USE DEF CaseIn
<1>1. PICK c \in Cases :
        \/ \E issue \in {"ordinary", "safetyBoundary"}, stated \in BOOLEAN : OpenCase(c, issue, stated)
        \/ \E w \in Deadlines : CloseWindow(c, w)
        \/ CompleteEvidence(c) \/ AnswerCase(c) \/ Appeal(c) \/ DefendAppeal(c)
        \/ StartRefund(c) \/ RefundNotStarted(c)
  BY DEF CaseArises
<1>2. CaseTypeOK /\ (cases[c] # None => cases[c] \in CaseRecords)
  BY DEF CaseInv, CaseTypeOK
<1>3. CASE c # d
  <2>1. \E row : cases' = [cases EXCEPT ![c] = row]
    BY <1>1 DEF OpenCase, CloseWindow, CompleteEvidence, AnswerCase, Appeal, DefendAppeal,
        StartRefund, RefundNotStarted
  <2>2. cases'[d] = cases[d]
    BY <1>2, <1>3, <2>1 DEF CaseTypeOK
  <2>. QED BY <2>2, CaseRests
<1>4. ASSUME NEW w \in Deadlines, c = d, CloseWindow(c, w) PROVE GoesOn(d)
  <2>. DEFINE row == [cases[c] EXCEPT !.open = @ \ {w}]
  <2>1. cases[c] \in CaseRecords /\ cases' = [cases EXCEPT ![c] = row]
    BY <1>2, <1>4 DEF CloseWindow
  <2>2. CaseMayBecome(cases[c], row)
    <3>1. /\ row.issue = cases[c].issue /\ row.status = cases[c].status
          /\ row.decision = cases[c].decision /\ row.decider = cases[c].decider
          /\ row.appellant = cases[c].appellant /\ row.outcome = cases[c].outcome
          /\ row.reviewer = cases[c].reviewer
          /\ row.refund = cases[c].refund /\ row.starting = cases[c].starting
      BY <2>1 DEF CaseRecords
    <3>. HIDE DEF row
    <3>. QED BY <3>1, CaseKept
  <2>3. row \in CaseRecords
    BY <2>1 DEF CaseRecords, CaseStatuses, Deadlines, Parties, FirstRound
  <2>. HIDE DEF row
  <2>. QED BY <1>2, <2>1, <2>2, <2>3, CaseWrites
<1>5. ASSUME c = d, CompleteEvidence(c) PROVE GoesOn(d)
  <2>. DEFINE row == [cases[c] EXCEPT !.status = "counterpartyResponse", !.open = @ \cup {"response"}]
  <2>1. /\ cases[c] \in CaseRecords /\ cases' = [cases EXCEPT ![c] = row]
        /\ cases[c].issue = "ordinary" => cases[c].status = "evidenceCollection"
    BY <1>2, <1>5 DEF CompleteEvidence
  <2>2. CaseMayBecome(cases[c], row)
    <3>1. /\ row.issue = cases[c].issue
          /\ row.status = "counterpartyResponse"
          /\ row.decision = cases[c].decision
          /\ row.decider = cases[c].decider
          /\ row.appellant = cases[c].appellant
          /\ row.outcome = cases[c].outcome
          /\ row.reviewer = cases[c].reviewer
          /\ row.refund = cases[c].refund
          /\ row.starting = cases[c].starting
      BY <2>1 DEF CaseRecords
    <3>. HIDE DEF row
    <3>. QED BY <2>1, <3>1, CaseAssumption DEF CaseMayBecome, CaseGoesOn, RefundRow, Decided
  <2>3. row \in CaseRecords
    BY <2>1 DEF CaseRecords, CaseStatuses, Deadlines, Parties, FirstRound
  <2>. HIDE DEF row
  <2>. QED BY <1>2, <2>1, <2>2, <2>3, CaseWrites
<1>6. ASSUME c = d, AnswerCase(c) PROVE GoesOn(d)
  <2>. DEFINE row == [cases[c] EXCEPT !.status = "review", !.open = @ \ FirstRound]
  <2>1. /\ cases[c] \in CaseRecords /\ cases' = [cases EXCEPT ![c] = row]
        /\ cases[c].issue = "ordinary" => cases[c].status = "counterpartyResponse"
    BY <1>2, <1>6 DEF AnswerCase
  <2>2. CaseMayBecome(cases[c], row)
    <3>1. /\ row.issue = cases[c].issue
          /\ row.status = "review"
          /\ row.decision = cases[c].decision
          /\ row.decider = cases[c].decider
          /\ row.appellant = cases[c].appellant
          /\ row.outcome = cases[c].outcome
          /\ row.reviewer = cases[c].reviewer
          /\ row.refund = cases[c].refund
          /\ row.starting = cases[c].starting
      BY <2>1 DEF CaseRecords
    <3>. HIDE DEF row
    <3>. QED BY <2>1, <3>1, CaseAssumption DEF CaseMayBecome, CaseGoesOn, RefundRow, Decided
  <2>3. row \in CaseRecords
    BY <2>1 DEF CaseRecords, CaseStatuses, Deadlines, Parties, FirstRound
  <2>. HIDE DEF row
  <2>. QED BY <1>2, <2>1, <2>2, <2>3, CaseWrites
<1>7. ASSUME c = d, Appeal(c) PROVE GoesOn(d)
  <2>. DEFINE party == IF cases[c].decision = "fullRefund" THEN "companion" ELSE "customer"
  <2>. DEFINE row == [cases[c] EXCEPT !.status = "appealed", !.appellant = party, !.open = @ \cup {"appealResponse"}]
  <2>1. /\ cases[c] \in CaseRecords /\ cases' = [cases EXCEPT ![c] = row]
        /\ cases[c].issue = "ordinary" => cases[c].status = "decided" /\ cases[c].appellant = None
    BY <1>2, <1>7 DEF Appeal, CaseInv, OrdinaryRow, Ordinary
  <2>2. CaseMayBecome(cases[c], row)
    <3>1. /\ row.issue = cases[c].issue
          /\ row.status = "appealed"
          /\ row.decision = cases[c].decision
          /\ row.decider = cases[c].decider
          /\ row.appellant = party
          /\ row.outcome = cases[c].outcome
          /\ row.reviewer = cases[c].reviewer
          /\ row.refund = cases[c].refund
          /\ row.starting = cases[c].starting
      BY <2>1 DEF CaseRecords
    <3>. HIDE DEF row
    <3>. QED BY <2>1, <3>1, CaseAssumption DEF CaseMayBecome, CaseGoesOn, RefundRow, Decided
  <2>3. party \in Parties
    BY DEF Parties
  <2>. HIDE DEF party
  <2>4. row \in CaseRecords
    BY <2>1, <2>3 DEF CaseRecords, CaseStatuses, Deadlines, Parties, FirstRound
  <2>. HIDE DEF row
  <2>. QED BY <1>2, <2>1, <2>2, <2>4, CaseWrites
<1>8. ASSUME c = d, DefendAppeal(c) PROVE GoesOn(d)
  <2>. DEFINE row == [cases[c] EXCEPT !.defended = TRUE]
  <2>1. cases[c] \in CaseRecords /\ cases' = [cases EXCEPT ![c] = row]
    BY <1>2, <1>8 DEF DefendAppeal
  <2>2. CaseMayBecome(cases[c], row)
    <3>1. /\ row.issue = cases[c].issue /\ row.status = cases[c].status
          /\ row.decision = cases[c].decision /\ row.decider = cases[c].decider
          /\ row.appellant = cases[c].appellant /\ row.outcome = cases[c].outcome
          /\ row.reviewer = cases[c].reviewer
          /\ row.refund = cases[c].refund /\ row.starting = cases[c].starting
      BY <2>1 DEF CaseRecords
    <3>. HIDE DEF row
    <3>. QED BY <3>1, CaseKept
  <2>3. row \in CaseRecords
    BY <2>1 DEF CaseRecords, CaseStatuses, Deadlines, Parties, FirstRound
  <2>. HIDE DEF row
  <2>. QED BY <1>2, <2>1, <2>2, <2>3, CaseWrites
<1>9. ASSUME c = d, StartRefund(c) PROVE GoesOn(d)
  <2>. DEFINE row == [cases[c] EXCEPT !.starting = FALSE, !.refund = TRUE]
  <2>1. /\ cases[c] \in CaseRecords /\ cases' = [cases EXCEPT ![c] = row]
        /\ cases[c].issue = "ordinary" => cases[c].status = "final" /\ cases[c].outcome = "fullRefund"
    BY <1>2, <1>9 DEF StartRefund
  <2>2. CaseMayBecome(cases[c], row)
    <3>1. /\ row.issue = cases[c].issue
          /\ row.status = cases[c].status
          /\ row.decision = cases[c].decision
          /\ row.decider = cases[c].decider
          /\ row.appellant = cases[c].appellant
          /\ row.outcome = cases[c].outcome
          /\ row.reviewer = cases[c].reviewer
          /\ row.refund = TRUE
          /\ row.starting = FALSE
      BY <2>1 DEF CaseRecords
    <3>. HIDE DEF row
    <3>. QED BY <2>1, <3>1, CaseAssumption DEF CaseMayBecome, CaseGoesOn, RefundRow, Decided
  <2>3. row \in CaseRecords
    BY <2>1 DEF CaseRecords, CaseStatuses, Deadlines, Parties, FirstRound
  <2>. HIDE DEF row
  <2>. QED BY <1>2, <2>1, <2>2, <2>3, CaseWrites
<1>10. ASSUME c = d, RefundNotStarted(c) PROVE GoesOn(d)
  <2>. DEFINE row == [cases[c] EXCEPT !.starting = FALSE]
  <2>1. /\ cases[c] \in CaseRecords /\ cases' = [cases EXCEPT ![c] = row]
        /\ cases[c].issue = "ordinary" => cases[c].starting
    BY <1>2, <1>10 DEF RefundNotStarted
  <2>2. CaseMayBecome(cases[c], row)
    <3>1. /\ row.issue = cases[c].issue
          /\ row.status = cases[c].status
          /\ row.decision = cases[c].decision
          /\ row.decider = cases[c].decider
          /\ row.appellant = cases[c].appellant
          /\ row.outcome = cases[c].outcome
          /\ row.reviewer = cases[c].reviewer
          /\ row.refund = cases[c].refund
          /\ row.starting = FALSE
      BY <2>1 DEF CaseRecords
    <3>. HIDE DEF row
    <3>. QED BY <2>1, <3>1, CaseAssumption DEF CaseMayBecome, CaseGoesOn, RefundRow, Decided
  <2>3. row \in CaseRecords
    BY <2>1 DEF CaseRecords, CaseStatuses, Deadlines, Parties, FirstRound
  <2>. HIDE DEF row
  <2>. QED BY <1>2, <2>1, <2>2, <2>3, CaseWrites
<1>. QED BY <1>1, <1>3, <1>4, <1>5, <1>6, <1>7, <1>8, <1>9, <1>10
    DEF OpenCase, Ordinary

LEMMA CaseByStaffGoesOn ==
    ASSUME CaseInv, NEW s \in Staff, CaseByStaff(s), NEW d \in Cases, cases[d] # None
    PROVE  GoesOn(d)
<1>. USE DEF CaseIn
<1>1. PICK c \in Cases :
        \/ ClaimCase(s, c) \/ ClaimAppeal(s, c)
        \/ \E o \in Decisions : Decide(s, c, o) \/ FinalizeAppealed(s, c, o)
        \/ FinalizeUnappealed(s, c) \/ FinalizeAgain(s, c)
  BY DEF CaseByStaff
<1>2. CaseTypeOK /\ cases[c] \in CaseRecords
  BY <1>1 DEF CaseInv, CaseTypeOK, ClaimCase, ClaimAppeal, Decide, FinalizeAppealed,
      FinalizeUnappealed, FinalizeAgain
<1>3. CASE c # d
  <2>1. \E row : cases' = [cases EXCEPT ![c] = row]
    BY <1>1 DEF ClaimCase, ClaimAppeal, Decide, FinalizeAppealed, FinalizeUnappealed, FinalizeAgain
  <2>2. cases'[d] = cases[d]
    BY <1>2, <1>3, <2>1 DEF CaseTypeOK
  <2>. QED BY <2>2, CaseRests
<1>4. ASSUME c = d, ClaimCase(s, c) PROVE GoesOn(d)
  <2>. DEFINE row == [cases[c] EXCEPT !.assignee = s, !.status = "review", !.open = @ \ FirstRound]
  <2>1. /\ cases[c] \in CaseRecords /\ cases' = [cases EXCEPT ![c] = row]
        /\ cases[c].issue = "ordinary" => cases[c].status \in {"review", "evidenceCollection", "counterpartyResponse"}
    BY <1>2, <1>4 DEF ClaimCase, Ready, Ordinary, CaseTypeOK
  <2>2. CaseMayBecome(cases[c], row)
    <3>1. /\ row.issue = cases[c].issue
          /\ row.status = "review"
          /\ row.decision = cases[c].decision
          /\ row.decider = cases[c].decider
          /\ row.appellant = cases[c].appellant
          /\ row.outcome = cases[c].outcome
          /\ row.reviewer = cases[c].reviewer
          /\ row.refund = cases[c].refund
          /\ row.starting = cases[c].starting
      BY <2>1 DEF CaseRecords
    <3>. HIDE DEF row
    <3>. QED BY <2>1, <3>1, CaseAssumption DEF CaseMayBecome, CaseGoesOn, RefundRow, Decided
  <2>3. row \in CaseRecords
    BY <2>1 DEF CaseRecords, CaseStatuses, Deadlines, Parties, FirstRound
  <2>. HIDE DEF row
  <2>. QED BY <1>2, <2>1, <2>2, <2>3, CaseWrites
<1>5. ASSUME c = d, ClaimAppeal(s, c) PROVE GoesOn(d)
  <2>. DEFINE row == [cases[c] EXCEPT !.appealAssignee = s]
  <2>1. cases[c] \in CaseRecords /\ cases' = [cases EXCEPT ![c] = row]
    BY <1>2, <1>5 DEF ClaimAppeal
  <2>2. CaseMayBecome(cases[c], row)
    <3>1. /\ row.issue = cases[c].issue /\ row.status = cases[c].status
          /\ row.decision = cases[c].decision /\ row.decider = cases[c].decider
          /\ row.appellant = cases[c].appellant /\ row.outcome = cases[c].outcome
          /\ row.reviewer = cases[c].reviewer
          /\ row.refund = cases[c].refund /\ row.starting = cases[c].starting
      BY <2>1 DEF CaseRecords
    <3>. HIDE DEF row
    <3>. QED BY <3>1, CaseKept
  <2>3. row \in CaseRecords
    BY <2>1 DEF CaseRecords, CaseStatuses, Deadlines, Parties, FirstRound
  <2>. HIDE DEF row
  <2>. QED BY <1>2, <2>1, <2>2, <2>3, CaseWrites
<1>6. ASSUME NEW o \in Decisions, c = d, Decide(s, c, o) PROVE GoesOn(d)
  <2>. DEFINE row == [cases[c] EXCEPT !.status = "decided", !.decision = o, !.decider = s, !.open = @ \cup {"appeal"}]
  <2>1. /\ cases[c] \in CaseRecords /\ cases' = [cases EXCEPT ![c] = row]
        /\ cases[c].issue = "ordinary" => cases[c].status = "review"
    BY <1>2, <1>6 DEF Decide
  <2>2. CaseMayBecome(cases[c], row)
    <3>1. /\ row.issue = cases[c].issue
          /\ row.status = "decided"
          /\ row.decision = o
          /\ row.decider = s
          /\ row.appellant = cases[c].appellant
          /\ row.outcome = cases[c].outcome
          /\ row.reviewer = cases[c].reviewer
          /\ row.refund = cases[c].refund
          /\ row.starting = cases[c].starting
      BY <2>1 DEF CaseRecords
    <3>. HIDE DEF row
    <3>. QED BY <2>1, <3>1, CaseAssumption DEF CaseMayBecome, CaseGoesOn, RefundRow, Decided
  <2>3. row \in CaseRecords
    BY <2>1 DEF CaseRecords, CaseStatuses, Deadlines, Parties, FirstRound
  <2>. HIDE DEF row
  <2>. QED BY <1>2, <2>1, <2>2, <2>3, CaseWrites
<1>7. ASSUME NEW o \in Decisions, c = d, FinalizeAppealed(s, c, o) PROVE GoesOn(d)
  <2>. DEFINE starts == (o = "fullRefund" /\ ~cases[c].refund)
  <2>. DEFINE row == [cases[c] EXCEPT !.status = "final", !.outcome = o, !.reviewer = s, !.starting = starts]
  <2>1. /\ cases[c] \in CaseRecords /\ cases' = [cases EXCEPT ![c] = row]
        /\ cases[c].issue = "ordinary" => cases[c].status = "appealed"
    BY <1>2, <1>7 DEF FinalizeAppealed
  <2>2. CaseMayBecome(cases[c], row)
    <3>1. /\ row.issue = cases[c].issue
          /\ row.status = "final"
          /\ row.decision = cases[c].decision
          /\ row.decider = cases[c].decider
          /\ row.appellant = cases[c].appellant
          /\ row.outcome = o
          /\ row.reviewer = s
          /\ row.refund = cases[c].refund
          /\ row.starting = starts
      BY <2>1 DEF CaseRecords
    <3>. HIDE DEF row
    <3>. QED BY <2>1, <3>1, CaseAssumption DEF CaseMayBecome, CaseGoesOn, RefundRow, Decided
  <2>3. starts \in BOOLEAN
    OBVIOUS
  <2>. HIDE DEF starts
  <2>4. row \in CaseRecords
    BY <2>1, <2>3 DEF CaseRecords, CaseStatuses
  <2>. HIDE DEF row
  <2>. QED BY <1>2, <2>1, <2>2, <2>4, CaseWrites
<1>8. ASSUME c = d, FinalizeUnappealed(s, c) PROVE GoesOn(d)
  <2>. DEFINE starts == (cases[c].decision = "fullRefund" /\ ~cases[c].refund)
  <2>. DEFINE row == [cases[c] EXCEPT !.status = "final", !.outcome = cases[c].decision, !.starting = starts]
  <2>1. /\ cases[c] \in CaseRecords /\ cases' = [cases EXCEPT ![c] = row]
        /\ cases[c].issue = "ordinary" => cases[c].status = "decided"
    BY <1>2, <1>8 DEF FinalizeUnappealed
  <2>2. CaseMayBecome(cases[c], row)
    <3>1. /\ row.issue = cases[c].issue
          /\ row.status = "final"
          /\ row.decision = cases[c].decision
          /\ row.decider = cases[c].decider
          /\ row.appellant = cases[c].appellant
          /\ row.outcome = cases[c].decision
          /\ row.reviewer = cases[c].reviewer
          /\ row.refund = cases[c].refund
          /\ row.starting = starts
      BY <2>1 DEF CaseRecords
    <3>. HIDE DEF row
    <3>. QED BY <2>1, <3>1, CaseAssumption DEF CaseMayBecome, CaseGoesOn, RefundRow, Decided
  <2>3. starts \in BOOLEAN
    OBVIOUS
  <2>. HIDE DEF starts
  <2>4. row \in CaseRecords
    BY <2>1, <2>3 DEF CaseRecords, CaseStatuses
  <2>. HIDE DEF row
  <2>. QED BY <1>2, <2>1, <2>2, <2>4, CaseWrites
<1>9. ASSUME c = d, FinalizeAgain(s, c) PROVE GoesOn(d)
  <2>. DEFINE row == [cases[c] EXCEPT !.starting = TRUE]
  <2>1. /\ cases[c] \in CaseRecords /\ cases' = [cases EXCEPT ![c] = row]
        /\ cases[c].issue = "ordinary" => cases[c].status = "final" /\ ~cases[c].refund
    BY <1>2, <1>9 DEF FinalizeAgain
  <2>2. CaseMayBecome(cases[c], row)
    <3>1. /\ row.issue = cases[c].issue
          /\ row.status = cases[c].status
          /\ row.decision = cases[c].decision
          /\ row.decider = cases[c].decider
          /\ row.appellant = cases[c].appellant
          /\ row.outcome = cases[c].outcome
          /\ row.reviewer = cases[c].reviewer
          /\ row.refund = cases[c].refund
          /\ row.starting = TRUE
      BY <2>1 DEF CaseRecords
    <3>. HIDE DEF row
    <3>. QED BY <2>1, <3>1, CaseAssumption DEF CaseMayBecome, CaseGoesOn, RefundRow, Decided
  <2>3. row \in CaseRecords
    BY <2>1 DEF CaseRecords, CaseStatuses, Deadlines, Parties, FirstRound
  <2>. HIDE DEF row
  <2>. QED BY <1>2, <2>1, <2>2, <2>3, CaseWrites
<1>. QED BY <1>1, <1>3, <1>4, <1>5, <1>6, <1>7, <1>8, <1>9

LEMMA CaseHandoverGoesOn ==
    ASSUME CaseInv, Suspension, NEW d \in Cases, cases[d] # None
    PROVE  GoesOn(d)
<1>1. PICK s \in Staff, r \in Admins \cup {None} : Handoff(s, r) \/ UNCHANGED cases
  BY DEF Suspension, Suspend
<1>2. cases[d] \in CaseRecords
  BY DEF CaseInv, CaseTypeOK
<1>3. CASE UNCHANGED cases
  BY <1>3, CaseRests
<1>4. CASE Handoff(s, r)
  <2>. DEFINE receiver == Receiver(r, cases[d].decider)
              taken == [cases[d] EXCEPT !.assignee = r]
              heard == [cases[d] EXCEPT !.appealAssignee = receiver]
  <2>1. cases'[d] \in {taken, heard, cases[d]}
    BY <1>4 DEF Handoff
  <2>2. receiver \in Staff \cup {None} /\ r \in Staff \cup {None}
    BY DEF Receiver, Staff
  <2>3. taken \in CaseRecords /\ heard \in CaseRecords
    <3>. HIDE DEF receiver
    <3>. QED BY <1>2, <2>2 DEF CaseRecords
  <2>4. \A row \in {taken, heard} :
          /\ row.issue = cases[d].issue /\ row.status = cases[d].status
          /\ row.decision = cases[d].decision /\ row.decider = cases[d].decider
          /\ row.appellant = cases[d].appellant /\ row.outcome = cases[d].outcome
          /\ row.reviewer = cases[d].reviewer
          /\ row.refund = cases[d].refund /\ row.starting = cases[d].starting
    BY <1>2 DEF CaseRecords
  <2>. HIDE DEF taken, heard
  <2>5. \A row \in {taken, heard} : row # None /\ CaseMayBecome(cases[d], row)
    BY <2>3, <2>4, CaseKept, CaseAssumption
  <2>. QED BY <2>1, <2>5, CaseRests DEF GoesOn
<1>. QED BY <1>1, <1>3, <1>4

LEMMA CasesGoOn ==
    ASSUME CaseInv, [Next]_vars, NEW d \in Cases, cases[d] # None
    PROVE  GoesOn(d)
<1>1. CASE UNCHANGED cases
  BY <1>1, CaseRests
<1>. QED BY <1>1, CaseSteps, CaseArisesGoesOn, CaseByStaffGoesOn, CaseHandoverGoesOn

RefundInv == \A c \in Cases : Ordinary(c) => RefundRow(cases[c])

\* A case is opened without a refund.
LEMMA NewCases ==
    ASSUME CaseInv, [Next]_vars, NEW d \in Cases, cases[d] = None, Ordinary(d)'
    PROVE  RefundRow(cases[d])'
<1>1. CASE CaseArises
  <2>1. PICK c \in Cases :
          \/ \E issue \in {"ordinary", "safetyBoundary"}, stated \in BOOLEAN : OpenCase(c, issue, stated)
          \/ cases[c] # None /\ \E row : cases' = [cases EXCEPT ![c] = row]
    BY <1>1 DEF CaseArises, CloseWindow, CompleteEvidence, AnswerCase, Appeal, DefendAppeal,
        StartRefund, RefundNotStarted, CaseIn
  <2>2. c = d /\ \E issue \in {"ordinary", "safetyBoundary"}, stated \in BOOLEAN : OpenCase(c, issue, stated)
    BY <2>1 DEF CaseInv, CaseTypeOK, Ordinary, OpenCase
  <2>3. ~cases'[d].refund /\ ~cases'[d].starting
    BY <2>2 DEF CaseInv, CaseTypeOK, OpenCase
  <2>. QED BY <2>3 DEF RefundRow
<1>2. ASSUME NEW s \in Staff, CaseByStaff(s) PROVE FALSE
  <2>1. PICK c \in Cases :
          \/ ClaimCase(s, c) \/ ClaimAppeal(s, c)
          \/ \E o \in Decisions : Decide(s, c, o) \/ FinalizeAppealed(s, c, o)
          \/ FinalizeUnappealed(s, c) \/ FinalizeAgain(s, c)
    BY <1>2 DEF CaseByStaff
  <2>2. cases[c] # None /\ \E row : cases' = [cases EXCEPT ![c] = row]
    BY <2>1 DEF ClaimCase, ClaimAppeal, Decide, FinalizeAppealed, FinalizeUnappealed, FinalizeAgain, CaseIn
  <2>. QED BY <2>2 DEF CaseInv, CaseTypeOK, Ordinary
<1>3. CASE Suspension
  <2>1. PICK s \in Staff, r \in Admins \cup {None} : Handoff(s, r) \/ UNCHANGED cases
    BY <1>3 DEF Suspension, Suspend
  <2>2. cases'[d] = cases[d]
    BY <2>1 DEF Handoff, CaseHandedOver, AppealHandedOver, CaseIn
  <2>. QED BY <2>2 DEF Ordinary
<1>4. CASE UNCHANGED cases
  BY <1>4 DEF Ordinary
<1>. QED BY <1>1, <1>2, <1>3, <1>4, CaseSteps

LEMMA RefundInvAlways == Spec => []RefundInv
<1>1. DeskInit => RefundInv
  BY DEF DeskInit, CaseInit, RefundInv, Ordinary
<1>2. IInv /\ RefundInv /\ [Next]_vars => RefundInv'
  <2>. SUFFICES ASSUME IInv, RefundInv, [Next]_vars, NEW d \in Cases, Ordinary(d)'
                PROVE  RefundRow(cases[d])'
    BY DEF RefundInv
  <2>1. CASE cases[d] # None
    BY <2>1, CasesGoOn DEF IInv, RefundInv, GoesOn, CaseMayBecome, Ordinary
  <2>2. CASE cases[d] = None
    BY <2>2, NewCases DEF IInv
  <2>. QED BY <2>1, <2>2
<1>. QED BY <1>1, <1>2, Inductive, PTL DEF Spec

\* A full refund follows from the final decision of an ordinary case, once.
THEOREM RefundFollowsAlways == Spec => []RefundFollows
<1>1. RefundInv => RefundFollows
  BY DEF RefundInv, RefundRow, RefundFollows
<1>. QED BY <1>1, RefundInvAlways, PTL

\* Decisions of ordinary cases stand, whatever claims, appeals and hand-overs follow.
THEOREM DecisionsStandAlways == Spec => DecisionsStand
<1>. DEFINE Step == \A c \in Cases : Ordinary(c) =>
         /\ Ordinary(c)'
         /\ CaseIn(c, {"decided", "appealed", "final"}) =>
                /\ CaseIn(c, {"decided", "appealed", "final"})'
                /\ cases'[c].decision = cases[c].decision /\ cases'[c].decider = cases[c].decider
         /\ CaseIn(c, {"appealed"}) => CaseIn(c, {"appealed", "final"})'
         /\ cases[c].appellant # None => cases'[c].appellant = cases[c].appellant
         /\ CaseIn(c, {"final"}) =>
                /\ CaseIn(c, {"final"})'
                /\ cases'[c].outcome = cases[c].outcome /\ cases'[c].reviewer = cases[c].reviewer
         /\ cases[c].refund => cases'[c].refund
<1>1. IInv /\ [Next]_vars => Step
  <2>. SUFFICES ASSUME IInv, [Next]_vars, NEW c \in Cases, Ordinary(c)
                PROVE  /\ Ordinary(c)'
                       /\ CaseIn(c, Decided) =>
                              /\ CaseIn(c, Decided)'
                              /\ cases'[c].decision = cases[c].decision
                              /\ cases'[c].decider = cases[c].decider
                       /\ CaseIn(c, {"appealed"}) => CaseIn(c, {"appealed", "final"})'
                       /\ cases[c].appellant # None => cases'[c].appellant = cases[c].appellant
                       /\ CaseIn(c, {"final"}) =>
                              /\ CaseIn(c, {"final"})'
                              /\ cases'[c].outcome = cases[c].outcome
                              /\ cases'[c].reviewer = cases[c].reviewer
                       /\ cases[c].refund => cases'[c].refund
    BY DEF Decided
  <2>1. GoesOn(c)
    BY CasesGoOn DEF IInv, Ordinary
  <2>. QED BY <2>1 DEF GoesOn, CaseMayBecome, CaseGoesOn, Ordinary, CaseIn, Decided
<1>2. IInv /\ [Next]_vars => [Step]_vars
  BY <1>1
<1>. QED BY <1>2, Inductive, PTL DEF Spec, DecisionsStand

\* An account action in a step.
ActionGoesOn(old, new) ==
    /\ new # None /\ new.creator = old.creator
    /\ AppealGoes(old.appeal, new.appeal)
    /\ old.resolver # None => new.resolver = old.resolver
    /\ old.revoked => new.revoked

LEMMA ActionRests ==
    ASSUME NEW old, NEW new, new # None,
           new.creator = old.creator, new.appeal = old.appeal, new.resolver = old.resolver,
           old.revoked => new.revoked
    PROVE  ActionGoesOn(old, new)
  BY DEF ActionGoesOn, AppealGoes

\* One action is changed into row, as it goes on.
LEMMA ActionWrites ==
    ASSUME StandingInv, NEW y \in Actions, NEW row,
           actions[y] # None => ActionGoesOn(actions[y], row),
           actions' = [actions EXCEPT ![y] = row],
           NEW x \in Actions, actions[x] # None
    PROVE  ActionGoesOn(actions[x], actions'[x])
<1>1. actions'[y] = row /\ \A z \in Actions \ {y} : actions'[z] = actions[z]
  BY DEF StandingInv, StandingTypeOK
<1>. QED BY <1>1, ActionRests

LEMMA AppealStepsGoOn ==
    ASSUME StandingInv, NEW y \in Actions,
           \/ EndAction(y) \/ AppealAction(y)
           \/ \E s \in Curators : \/ ClaimActionAppeal(s, y)
                                  \/ \E t \in Curators : AssignActionAppeal(s, y, t)
                                  \/ \E outcome \in {"upheld", "overturned"} : ResolveActionAppeal(s, y, outcome)
                                  \/ CompleteExpiredReview(s, y) \/ CompleteAppealReview(s, y),
           NEW x \in Actions, actions[x] # None
    PROVE  ActionGoesOn(actions[x], actions'[x])
<1>. USE CuratorsAreStaff
<1>1. actions[y] \in ActionRecords /\ ActionRow(actions[y]) /\ actions[y] # None
  <2>1. actions[y] # None
    BY DEF EndAction, AppealAction, InForce, ClaimActionAppeal, AssignActionAppeal, ResolveActionAppeal,
        Reviewable, CompleteExpiredReview, CompleteAppealReview
  <2>. QED BY <2>1 DEF StandingInv, StandingTypeOK
<1>2. CASE EndAction(y)
  <2>. DEFINE row == [actions[y] EXCEPT !.ended = TRUE]
  <2>1. /\ row \in ActionRecords /\ row.creator = actions[y].creator /\ row.appeal = actions[y].appeal
        /\ row.resolver = actions[y].resolver /\ row.revoked = actions[y].revoked
    BY <1>1 DEF ActionRecords
  <2>2. actions' = [actions EXCEPT ![y] = row]
    BY <1>2 DEF EndAction
  <2>. HIDE DEF row
  <2>. QED BY <2>1, <2>2, ActionWrites, ActionRests, StandingAssumption
<1>3. CASE AppealAction(y)
  <2>. DEFINE row == [actions[y] EXCEPT !.appeal = "pending"]
  <2>1. /\ row \in ActionRecords /\ row.creator = actions[y].creator /\ row.appeal = "pending"
        /\ row.resolver = actions[y].resolver /\ row.revoked = actions[y].revoked
    BY <1>1 DEF ActionRecords
  <2>2. actions' = [actions EXCEPT ![y] = row] /\ actions[y].appeal = "none"
    BY <1>3 DEF AppealAction
  <2>. HIDE DEF row
  <2>3. ActionGoesOn(actions[y], row)
    BY <2>1, <2>2, StandingAssumption DEF ActionGoesOn, AppealGoes
  <2>. QED BY <2>2, <2>3, ActionWrites
<1>4. ASSUME NEW t \in Curators, actions' = [actions EXCEPT ![y].assignee = t]
      PROVE  ActionGoesOn(actions[x], actions'[x])
  <2>. DEFINE row == [actions[y] EXCEPT !.assignee = t]
  <2>1. /\ row \in ActionRecords /\ row.creator = actions[y].creator /\ row.appeal = actions[y].appeal
        /\ row.resolver = actions[y].resolver /\ row.revoked = actions[y].revoked
    BY <1>1 DEF ActionRecords
  <2>2. actions' = [actions EXCEPT ![y] = row]
    BY <1>4
  <2>. HIDE DEF row
  <2>. QED BY <2>1, <2>2, ActionWrites, ActionRests, StandingAssumption
<1>5. ASSUME NEW s \in Curators, NEW outcome \in {"upheld", "overturned"},
             ResolveActionAppeal(s, y, outcome)
      PROVE  ActionGoesOn(actions[x], actions'[x])
  <2>. DEFINE appealReview == IF outcome = "overturned" THEN "required" ELSE "notRequired"
              revoked == outcome = "overturned"
              review == IF outcome = "overturned" /\ actions[y].review = "required"
                        THEN "completed" ELSE actions[y].review
              row == [actions[y] EXCEPT !.appeal = outcome, !.resolver = s,
                                        !.appealReview = appealReview, !.revoked = revoked,
                                        !.review = review]
  <2>1. actions[y].appeal = "pending" /\ actions[y].resolver = None /\ ~actions[y].revoked
    BY <1>1, <1>5 DEF ResolveActionAppeal, Reviewable, ActionRow
  <2>2. appealReview \in Reactivation /\ revoked \in BOOLEAN /\ review \in Reactivation
    BY <1>1 DEF Reactivation, ActionRecords
  <2>3. actions' = [actions EXCEPT ![y] = row]
    BY <1>5 DEF ResolveActionAppeal, StandingInv, StandingTypeOK
  <2>. HIDE DEF appealReview, revoked, review
  <2>4. row \in ActionRecords
    BY <1>1, <2>2 DEF ActionRecords
  <2>5. row.creator = actions[y].creator /\ row.appeal = outcome
    BY <1>1 DEF ActionRecords
  <2>. HIDE DEF row
  <2>6. ActionGoesOn(actions[y], row)
    BY <2>1, <2>4, <2>5, StandingAssumption DEF ActionGoesOn, AppealGoes
  <2>. QED BY <2>3, <2>6, ActionWrites
<1>6. ASSUME NEW s \in Curators, CompleteExpiredReview(s, y)
      PROVE  ActionGoesOn(actions[x], actions'[x])
  <2>. DEFINE row == [actions[y] EXCEPT !.review = "completed"]
  <2>1. /\ row \in ActionRecords /\ row.creator = actions[y].creator /\ row.appeal = actions[y].appeal
        /\ row.resolver = actions[y].resolver /\ row.revoked = actions[y].revoked
    BY <1>1 DEF ActionRecords, Reactivation
  <2>2. actions' = [actions EXCEPT ![y] = row]
    BY <1>6 DEF CompleteExpiredReview
  <2>. HIDE DEF row
  <2>. QED BY <2>1, <2>2, ActionWrites, ActionRests, StandingAssumption
<1>7. ASSUME NEW s \in Curators, CompleteAppealReview(s, y)
      PROVE  ActionGoesOn(actions[x], actions'[x])
  <2>. DEFINE row == [actions[y] EXCEPT !.appealReview = "completed"]
  <2>1. /\ row \in ActionRecords /\ row.creator = actions[y].creator /\ row.appeal = actions[y].appeal
        /\ row.resolver = actions[y].resolver /\ row.revoked = actions[y].revoked
    BY <1>1 DEF ActionRecords, Reactivation
  <2>2. actions' = [actions EXCEPT ![y] = row]
    BY <1>7 DEF CompleteAppealReview
  <2>. HIDE DEF row
  <2>. QED BY <2>1, <2>2, ActionWrites, ActionRests, StandingAssumption
<1>. QED BY <1>2, <1>3, <1>4, <1>5, <1>6, <1>7 DEF ClaimActionAppeal, AssignActionAppeal

LEMMA SweptGoesOn ==
    ASSUME StandingInv, RequireReviews \/ Suspension, NEW x \in Actions, actions[x] # None
    PROVE  ActionGoesOn(actions[x], actions'[x])
<1>1. actions[x] \in ActionRecords
  BY DEF StandingInv, StandingTypeOK
<1>2. CASE actions'[x] = actions[x]
  BY <1>2, ActionRests
<1>3. CASE RequireReviews
  <2>. DEFINE row == [actions[x] EXCEPT !.review = "required"]
  <2>1. actions'[x] \in {actions[x], row}
    BY <1>3 DEF RequireReviews
  <2>2. /\ row \in ActionRecords /\ row.creator = actions[x].creator /\ row.appeal = actions[x].appeal
        /\ row.resolver = actions[x].resolver /\ row.revoked = actions[x].revoked
    BY <1>1 DEF ActionRecords, Reactivation
  <2>. HIDE DEF row
  <2>. QED BY <1>2, <2>1, <2>2, ActionRests, StandingAssumption
<1>4. CASE Suspension
  <2>1. PICK s \in Staff, r \in Admins \cup {None} : Handoff(s, r) \/ UNCHANGED actions
    BY <1>4 DEF Suspension, Suspend, standingVars
  <2>. DEFINE receiver == Receiver(r, actions[x].creator)
              row == [actions[x] EXCEPT !.assignee = receiver]
  <2>2. actions'[x] \in {actions[x], row}
    BY <2>1 DEF Handoff
  <2>3. receiver \in Staff \cup {None}
    BY DEF Receiver, Staff
  <2>. HIDE DEF receiver
  <2>4. /\ row \in ActionRecords /\ row.creator = actions[x].creator /\ row.appeal = actions[x].appeal
        /\ row.resolver = actions[x].resolver /\ row.revoked = actions[x].revoked
    BY <1>1, <2>3 DEF ActionRecords
  <2>. HIDE DEF row
  <2>. QED BY <1>2, <2>2, <2>4, ActionRests, StandingAssumption
<1>. QED BY <1>3, <1>4

LEMMA ActionsGoOn ==
    ASSUME StandingInv, [Next]_vars, NEW x \in Actions, actions[x] # None
    PROVE  ActionGoesOn(actions[x], actions'[x])
<1>1. CASE UNCHANGED actions
  BY <1>1, ActionRests
<1>2. CASE StandingSteps
  BY <1>2, AppealStepsGoOn, SweptGoesOn DEF StandingSteps
<1>3. ASSUME NEW s \in Curators, NEW y \in Actions, NEW kind \in Kinds, NEW temporary \in BOOLEAN,
             CreateAction(s, y, kind, temporary)
      PROVE  ActionGoesOn(actions[x], actions'[x])
  <2>1. x # y /\ \E row : actions' = [actions EXCEPT ![y] = row]
    BY <1>3 DEF CreateAction
  <2>2. actions'[x] = actions[x]
    BY <2>1 DEF StandingInv, StandingTypeOK
  <2>. QED BY <2>2, ActionRests
<1>4. ASSUME NEW s \in Staff, StandingByStaff(s) PROVE ActionGoesOn(actions[x], actions'[x])
  <2>1. s \in Curators
    BY <1>4 DEF StandingByStaff
  <2>2. CASE SubmitProfile(s) \/ VerifyProfile(s) \/ SuspendProfile(s) \/ Publish(s) \/ Unpublish(s)
    BY <1>1, <2>2 DEF SubmitProfile, VerifyProfile, SuspendProfile, Publish, Unpublish
  <2>3. ASSUME NEW y \in Actions,
               \/ ClaimActionAppeal(s, y)
               \/ \E t \in Curators : AssignActionAppeal(s, y, t)
               \/ \E outcome \in {"upheld", "overturned"} : ResolveActionAppeal(s, y, outcome)
               \/ CompleteExpiredReview(s, y) \/ CompleteAppealReview(s, y)
        PROVE  ActionGoesOn(actions[x], actions'[x])
    BY <2>1, <2>3, AppealStepsGoOn
  <2>. QED BY <1>3, <1>4, <2>1, <2>2, <2>3 DEF StandingByStaff
<1>5. ASSUME NEW s \in Staff, IdentityByStaff(s) PROVE UNCHANGED actions
  BY <1>5 DEF IdentityByStaff, RequestRevocation, ReviewRevocation
<1>. QED BY <1>1, <1>2, <1>4, <1>5, StandingFrame, SweptGoesOn DEF standingVars

\* One moderation case is changed into row, and its appeal goes on.
LEMMA FileWrites ==
    ASSUME FilesInv, NEW g \in DOMAIN files, NEW row \in FileRecords,
           AppealGoes(files[g].appeal, row.appeal),
           files' = [files EXCEPT ![g] = row],
           NEW f \in DOMAIN files
    PROVE  f \in DOMAIN files' /\ AppealGoes(files[f].appeal, files'[f].appeal)
<1>1. f \in DOMAIN files' /\ files'[f] \in {files[f], row} /\ files'[g] = row
      /\ (f # g => files'[f] = files[f])
  OBVIOUS
<1>2. AppealGoes(files[f].appeal, files[f].appeal)
  BY DEF AppealGoes
<1>. QED BY <1>1, <1>2

LEMMA FileStays ==
    ASSUME NEW f \in DOMAIN files, f \in DOMAIN files', files'[f].appeal = files[f].appeal
    PROVE  f \in DOMAIN files' /\ AppealGoes(files[f].appeal, files'[f].appeal)
  BY DEF AppealGoes

LEMMA FilesArising ==
    ASSUME FilesInv, FilesArise, NEW f \in DOMAIN files
    PROVE  f \in DOMAIN files' /\ AppealGoes(files[f].appeal, files'[f].appeal)
<1>1. CASE UNCHANGED files
  BY <1>1, FileStays
<1>2. ASSUME NEW g \in Files, Report(g) \/ \E source \in {"blocked", "held"} : SendSuspicious(g, source)
      PROVE  f \in DOMAIN files' /\ AppealGoes(files[f].appeal, files'[f].appeal)
  <2>1. g \notin DOMAIN files
    BY <1>2 DEF Report, SendSuspicious, FilesInv
  <2>2. \E row : files' = With(files, g, row)
    BY <1>2 DEF Report, SendSuspicious
  <2>3. f \in DOMAIN files' /\ files'[f] = files[f]
    BY <2>1, <2>2 DEF With
  <2>. QED BY <2>3, FileStays
<1>3. ASSUME NEW g \in DOMAIN files, NEW restriction \in {"none", "inForce", "belated"},
             files' = [files EXCEPT ![g].restriction = restriction]
      PROVE  f \in DOMAIN files' /\ AppealGoes(files[f].appeal, files'[f].appeal)
  <2>1. files[g] \in FileRecords
    BY DEF FilesInv, ReviewTypeOK
  <2>. DEFINE row == [files[g] EXCEPT !.restriction = restriction]
  <2>2. row \in FileRecords /\ row.appeal = files[g].appeal
    BY <2>1 DEF FileRecords
  <2>3. files' = [files EXCEPT ![g] = row]
    BY <1>3
  <2>. HIDE DEF row
  <2>4. AppealGoes(files[g].appeal, row.appeal)
    BY <2>2 DEF AppealGoes
  <2>. QED BY <2>2, <2>3, <2>4, FileWrites
<1>4. ASSUME NEW g \in DOMAIN files, RestrictAutomatically(g)
      PROVE  f \in DOMAIN files' /\ AppealGoes(files[f].appeal, files'[f].appeal)
  <2>. DEFINE restriction == IF files[g].status = "open" THEN "inForce" ELSE "belated"
  <2>1. restriction \in {"none", "inForce", "belated"}
    OBVIOUS
  <2>2. files' = [files EXCEPT ![g].restriction = restriction] \/ UNCHANGED files
    BY <1>4 DEF RestrictAutomatically
  <2>. HIDE DEF restriction
  <2>. QED BY <1>1, <1>3, <2>1, <2>2
<1>5. ASSUME NEW g \in DOMAIN files, EndRestriction(g)
      PROVE  f \in DOMAIN files' /\ AppealGoes(files[f].appeal, files'[f].appeal)
  BY <1>3, <1>5 DEF EndRestriction
<1>6. ASSUME NEW g \in DOMAIN files, FileAppeal(g)
      PROVE  f \in DOMAIN files' /\ AppealGoes(files[f].appeal, files'[f].appeal)
  <2>1. /\ files[g] \in FileRecords /\ files[g].appeal = "none"
        /\ appealing[g] \in Department \cup {None}
    BY <1>6 DEF FileAppeal, FilesInv, ReviewTypeOK, FileRow
  <2>. DEFINE row == [files[g] EXCEPT !.appeal = "pending", !.original = appealing[g],
                                      !.adverse = None, !.status = "open", !.assignee = None]
  <2>2. row \in FileRecords /\ row.appeal = "pending"
    BY <2>1 DEF FileRecords
  <2>3. files' = [files EXCEPT ![g] = row]
    BY <1>6 DEF FileAppeal
  <2>. HIDE DEF row
  <2>4. AppealGoes(files[g].appeal, row.appeal)
    BY <2>1, <2>2 DEF AppealGoes
  <2>. QED BY <2>2, <2>3, <2>4, FileWrites
<1>. QED BY <1>1, <1>2, <1>4, <1>5, <1>6 DEF FilesArise, Send, ReadForAppeal

\* A reviewer takes, is given or decides a case.
LEMMA FilesReviewed ==
    ASSUME FilesInv, NEW v \in onDuty, NEW g \in DOMAIN files,
           \/ ClaimFile(v, g) \/ Clear(v, g)
           \/ \E repeated \in BOOLEAN : Condemn(v, g, repeated)
           \/ UpholdAppealed(v, g) \/ OverturnAppealed(v, g)
           \/ RestrictSender(v, g) \/ LiftRestriction(v, g)
           \/ \E to \in Department \cup {None} : AssignFile(g, to),
           NEW f \in DOMAIN files
    PROVE  f \in DOMAIN files' /\ AppealGoes(files[f].appeal, files'[f].appeal)
<1>1. files[g] \in FileRecords /\ v \in Department
  BY DEF FilesInv, ReviewTypeOK
<1>2. ASSUME NEW row \in FileRecords, row.appeal = files[g].appeal,
             files' = [files EXCEPT ![g] = row]
      PROVE  f \in DOMAIN files' /\ AppealGoes(files[f].appeal, files'[f].appeal)
  <2>1. AppealGoes(files[g].appeal, row.appeal)
    BY <1>2 DEF AppealGoes
  <2>. QED BY <1>2, <2>1, FileWrites
<1>3. ASSUME NEW to \in Department \cup {None}, files' = [files EXCEPT ![g].assignee = to]
      PROVE  f \in DOMAIN files' /\ AppealGoes(files[f].appeal, files'[f].appeal)
  <2>. DEFINE row == [files[g] EXCEPT !.assignee = to]
  <2>1. row \in FileRecords /\ row.appeal = files[g].appeal
    BY <1>1 DEF FileRecords
  <2>2. files' = [files EXCEPT ![g] = row]
    BY <1>3
  <2>. HIDE DEF row
  <2>. QED BY <1>2, <2>1, <2>2
<1>4. CASE ClaimFile(v, g)
  BY <1>1, <1>3, <1>4 DEF ClaimFile
<1>5. ASSUME NEW to \in Department \cup {None}, AssignFile(g, to)
      PROVE  f \in DOMAIN files' /\ AppealGoes(files[f].appeal, files'[f].appeal)
  BY <1>3, <1>5 DEF AssignFile
<1>6. CASE Clear(v, g)
  <2>. DEFINE row == [files[g] EXCEPT !.status = "dismissed", !.assignee = v, !.verdict = "for"]
  <2>1. row \in FileRecords /\ row.appeal = files[g].appeal
    BY <1>1 DEF FileRecords
  <2>2. files' = [files EXCEPT ![g] = row]
    BY <1>6 DEF Clear
  <2>. HIDE DEF row
  <2>. QED BY <1>2, <2>1, <2>2
<1>7. ASSUME NEW repeated \in BOOLEAN, Condemn(v, g, repeated)
      PROVE  f \in DOMAIN files' /\ AppealGoes(files[f].appeal, files'[f].appeal)
  <2>. DEFINE adverse == Adverse(g, v)
              status == IF repeated THEN "open" ELSE "resolved"
              row == [files[g] EXCEPT !.status = status, !.assignee = v, !.adverse = adverse,
                                      !.verdict = "against"]
  <2>1. adverse \in Department \cup {None} /\ status \in {"open", "resolved"}
    BY <1>1 DEF Adverse
  <2>2. files' = [files EXCEPT ![g] = row]
    BY <1>7 DEF Condemn
  <2>. HIDE DEF adverse, status
  <2>3. row \in FileRecords /\ row.appeal = files[g].appeal
    BY <1>1, <2>1 DEF FileRecords
  <2>. HIDE DEF row
  <2>. QED BY <1>2, <2>2, <2>3
<1>8. CASE RestrictSender(v, g)
  <2>. DEFINE adverse == Adverse(g, v)
              row == [files[g] EXCEPT !.status = "resolved", !.assignee = v, !.adverse = adverse,
                                      !.restriction = "inForce"]
  <2>1. adverse \in Department \cup {None}
    BY <1>1 DEF Adverse
  <2>2. files' = [files EXCEPT ![g] = row]
    BY <1>8 DEF RestrictSender
  <2>. HIDE DEF adverse
  <2>3. row \in FileRecords /\ row.appeal = files[g].appeal
    BY <1>1, <2>1 DEF FileRecords
  <2>. HIDE DEF row
  <2>. QED BY <1>2, <2>2, <2>3
<1>9. CASE LiftRestriction(v, g)
  <2>. DEFINE row == [files[g] EXCEPT !.status = "dismissed", !.assignee = v, !.restriction = "none"]
  <2>1. row \in FileRecords /\ row.appeal = files[g].appeal
    BY <1>1 DEF FileRecords
  <2>2. files' = [files EXCEPT ![g] = row]
    BY <1>9 DEF LiftRestriction
  <2>. HIDE DEF row
  <2>. QED BY <1>2, <2>1, <2>2
<1>10. ASSUME NEW row \in FileRecords, files[g].appeal = "pending", row.appeal # "none",
              files' = [files EXCEPT ![g] = row]
       PROVE  f \in DOMAIN files' /\ AppealGoes(files[f].appeal, files'[f].appeal)
  <2>1. AppealGoes(files[g].appeal, row.appeal)
    BY <1>10 DEF AppealGoes
  <2>. QED BY <1>10, <2>1, FileWrites
<1>11. CASE UpholdAppealed(v, g)
  <2>. DEFINE row == [files[g] EXCEPT !.status = "resolved", !.assignee = v, !.appeal = "upheld",
                                      !.original = None]
  <2>1. row \in FileRecords /\ row.appeal = "upheld"
    BY <1>1 DEF FileRecords
  <2>2. files' = [files EXCEPT ![g] = row] /\ files[g].appeal = "pending"
    BY <1>11 DEF UpholdAppealed
  <2>. HIDE DEF row
  <2>. QED BY <1>10, <2>1, <2>2
<1>12. CASE OverturnAppealed(v, g)
  <2>. DEFINE row == [files[g] EXCEPT !.status = "dismissed", !.assignee = v, !.appeal = "overturned",
                                      !.verdict = "for", !.original = None, !.restriction = "none"]
  <2>1. row \in FileRecords /\ row.appeal = "overturned"
    BY <1>1 DEF FileRecords
  <2>2. files' = [files EXCEPT ![g] = row] /\ files[g].appeal = "pending"
    BY <1>12 DEF OverturnAppealed, Overturned
  <2>. HIDE DEF row
  <2>. QED BY <1>10, <2>1, <2>2
<1>. QED BY <1>4, <1>5, <1>6, <1>7, <1>8, <1>9, <1>11, <1>12

LEMMA FilesGoOn ==
    ASSUME FilesInv, [Next]_vars, NEW f \in DOMAIN files
    PROVE  f \in DOMAIN files' /\ AppealGoes(files[f].appeal, files'[f].appeal)
<1>1. CASE UNCHANGED reviewVars
  BY <1>1, FileStays DEF reviewVars
<1>2. ASSUME NEW v \in Department, FilesByReviewer(v)
      PROVE  f \in DOMAIN files' /\ AppealGoes(files[f].appeal, files'[f].appeal)
  <2>1. v \in onDuty
    BY <1>2 DEF FilesByReviewer
  <2>2. ASSUME NEW s \in Department, NEW r \in Department \cup {None}, SuspendReviewer(v, s, r)
        PROVE  f \in DOMAIN files' /\ AppealGoes(files[f].appeal, files'[f].appeal)
    <3>1. files[f] \in FileRecords
      BY DEF FilesInv, ReviewTypeOK
    <3>. DEFINE row == [files[f] EXCEPT !.assignee = r]
    <3>2. f \in DOMAIN files' /\ files'[f] \in {files[f], row}
      BY <2>2 DEF SuspendReviewer
    <3>3. row.appeal = files[f].appeal
      BY <3>1 DEF FileRecords
    <3>. HIDE DEF row
    <3>. QED BY <3>2, <3>3, FileStays
  <2>3. ASSUME NEW g \in DOMAIN files,
               \/ ClaimFile(v, g) \/ Clear(v, g)
               \/ \E repeated \in BOOLEAN : Condemn(v, g, repeated)
               \/ UpholdAppealed(v, g) \/ OverturnAppealed(v, g)
               \/ RestrictSender(v, g) \/ LiftRestriction(v, g)
               \/ \E to \in Department \cup {None} : AssignFile(g, to)
        PROVE  f \in DOMAIN files' /\ AppealGoes(files[f].appeal, files'[f].appeal)
    BY <2>1, <2>3, FilesReviewed
  <2>. QED BY <1>2, <2>2, <2>3 DEF FilesByReviewer
<1>. QED BY <1>1, <1>2, FilesArising, FilesFrame

\* An account action and a moderation case are appealed once, for any staff.
THEOREM AppealsOnceAlways == Spec => AppealsOnce
<1>. DEFINE Step ==
        /\ \A x \in Actions : actions[x] # None =>
              /\ actions'[x] # None /\ actions'[x].creator = actions[x].creator
              /\ AppealGoes(actions[x].appeal, actions'[x].appeal)
              /\ actions[x].resolver # None => actions'[x].resolver = actions[x].resolver
              /\ actions[x].revoked => actions'[x].revoked
        /\ \A f \in DOMAIN files :
              f \in DOMAIN files' /\ AppealGoes(files[f].appeal, files'[f].appeal)
<1>1. IInv /\ [Next]_vars => Step
  <2>. SUFFICES ASSUME IInv, [Next]_vars PROVE Step
    OBVIOUS
  <2>1. \A x \in Actions : actions[x] # None => ActionGoesOn(actions[x], actions'[x])
    BY ActionsGoOn DEF IInv
  <2>2. \A f \in DOMAIN files : f \in DOMAIN files' /\ AppealGoes(files[f].appeal, files'[f].appeal)
    BY FilesGoOn DEF IInv
  <2>. QED BY <2>1, <2>2 DEF ActionGoesOn
<1>2. IInv /\ [Next]_vars => [Step]_vars
  BY <1>1
<1>. QED BY <1>2, Inductive, PTL DEF Spec, AppealsOnce

\* A closed ticket rests.
LEMMA TicketsRest ==
    ASSUME DesksInv, [Next]_vars, NEW t \in Tickets, ticket[t] # None, ~IsOpen(ticket[t])
    PROVE  ticket'[t] = ticket[t]
<1>1. ASSUME NEW q \in Tickets, NEW row, q # t, ticket' = [ticket EXCEPT ![q] = row]
      PROVE  ticket'[t] = ticket[t]
  BY <1>1 DEF DesksInv
<1>2. ASSUME NEW q \in Tickets, OpenTicket(q) PROVE ticket'[t] = ticket[t]
  <2>1. q # t
    BY <1>2 DEF OpenTicket
  <2>. QED BY <1>1, <1>2, <2>1 DEF OpenTicket
<1>3. ASSUME NEW q \in Tickets, NEW s \in Staff, ClaimTicket(s, q) \/ AssignTicket(q, s)
      PROVE  ticket'[t] = ticket[t]
  <2>1. q # t
    BY <1>3 DEF ClaimTicket, AssignTicket
  <2>. QED BY <1>1, <1>3, <2>1 DEF ClaimTicket, AssignTicket
<1>4. ASSUME NEW q \in Tickets, NEW s \in Staff, ResolveTicket(s, q) PROVE ticket'[t] = ticket[t]
  <2>1. q # t
    BY <1>4 DEF ResolveTicket
  <2>2. ticket' = [ticket EXCEPT ![q] = [ticket[q] EXCEPT !.status = "resolved"]]
    BY <1>4 DEF ResolveTicket
  <2>. QED BY <1>1, <2>1, <2>2
<1>5. CASE UNCHANGED ticket
  BY <1>5
<1>6. CASE DeskArises
  <2>1. ASSUME NEW i \in Incidents, ReportIncident(i) PROVE UNCHANGED ticket
    BY <2>1 DEF ReportIncident
  <2>. QED BY <1>2, <1>5, <1>6, <2>1 DEF DeskArises, AppealSanction
<1>7. ASSUME NEW s \in Staff, DeskByStaff(s) PROVE ticket'[t] = ticket[t]
  <2>1. ASSUME NEW i \in Incidents,
               \/ ClaimIncident(s, i)
               \/ \E to \in Admins \cup Supply : AssignIncident(s, i, to)
               \/ \E status \in {"inProgress", "resolved"} : ResolveIncident(s, i, status)
        PROVE  UNCHANGED ticket
    BY <2>1 DEF ClaimIncident, AssignIncident, ResolveIncident
  <2>2. ASSUME \/ Sanction(s) \/ LiftSanction \/ ClaimSanctionAppeal(s)
               \/ \E to \in Admins : AssignSanctionAppeal(s, to)
               \/ \E outcome \in {"upheld", "overturned"} : ResolveSanctionAppeal(s, outcome)
        PROVE  UNCHANGED ticket
    BY <2>2 DEF Sanction, LiftSanction, ClaimSanctionAppeal, AssignSanctionAppeal, ResolveSanctionAppeal
  <2>3. Admins \cup Support \subseteq Staff
    BY DEF Staff
  <2>. QED BY <1>3, <1>4, <1>5, <1>7, <2>1, <2>2, <2>3 DEF DeskByStaff
<1>8. CASE Suspension
  <2>1. PICK s \in Staff, r \in Admins \cup {None} : Handoff(s, r) \/ UNCHANGED ticket
    BY <1>8 DEF Suspension, Suspend, desks
  <2>. QED BY <1>5, <2>1 DEF Handoff
<1>. QED BY <1>5, <1>6, <1>7, <1>8, DesksFrame DEF desks

\* A closed incident rests.
LEMMA IncidentsRest ==
    ASSUME DesksInv, [Next]_vars, NEW i \in Incidents, incident[i] # None, ~IsOpen(incident[i])
    PROVE  incident'[i] = incident[i]
<1>1. ASSUME NEW q \in Incidents, NEW row, q # i, incident' = [incident EXCEPT ![q] = row]
      PROVE  incident'[i] = incident[i]
  BY <1>1 DEF DesksInv
<1>2. ASSUME NEW q \in Incidents, ReportIncident(q) PROVE incident'[i] = incident[i]
  <2>1. q # i
    BY <1>2 DEF ReportIncident
  <2>. QED BY <1>1, <1>2, <2>1 DEF ReportIncident
<1>3. ASSUME NEW q \in Incidents, NEW s \in Staff, ClaimIncident(s, q) PROVE incident'[i] = incident[i]
  <2>1. q # i
    BY <1>3 DEF ClaimIncident
  <2>. QED BY <1>1, <1>3, <2>1 DEF ClaimIncident
<1>4. ASSUME NEW q \in Incidents, NEW s \in Staff, NEW to \in Staff, AssignIncident(s, q, to)
      PROVE  incident'[i] = incident[i]
  <2>1. q # i
    BY <1>4 DEF AssignIncident
  <2>. QED BY <1>1, <1>4, <2>1 DEF AssignIncident
<1>5. ASSUME NEW q \in Incidents, NEW s \in Staff, NEW status \in {"inProgress", "resolved"},
             ResolveIncident(s, q, status)
      PROVE  incident'[i] = incident[i]
  <2>1. q # i
    BY <1>5 DEF ResolveIncident
  <2>2. incident' = [incident EXCEPT ![q] = [incident[q] EXCEPT !.status = status]]
    BY <1>5 DEF ResolveIncident
  <2>. QED BY <1>1, <2>1, <2>2
<1>6. CASE UNCHANGED incident
  BY <1>6
<1>7. CASE DeskArises
  <2>1. ASSUME NEW t \in Tickets, OpenTicket(t) PROVE UNCHANGED incident
    BY <2>1 DEF OpenTicket
  <2>. QED BY <1>2, <1>6, <1>7, <2>1 DEF DeskArises, AppealSanction
<1>8. ASSUME NEW s \in Staff, DeskByStaff(s) PROVE incident'[i] = incident[i]
  <2>1. ASSUME NEW t \in Tickets,
               \/ ClaimTicket(s, t)
               \/ \E to \in Admins \cup Support : AssignTicket(t, to)
               \/ ResolveTicket(s, t)
        PROVE  UNCHANGED incident
    BY <2>1 DEF ClaimTicket, AssignTicket, ResolveTicket
  <2>2. ASSUME \/ Sanction(s) \/ LiftSanction \/ ClaimSanctionAppeal(s)
               \/ \E to \in Admins : AssignSanctionAppeal(s, to)
               \/ \E outcome \in {"upheld", "overturned"} : ResolveSanctionAppeal(s, outcome)
        PROVE  UNCHANGED incident
    BY <2>2 DEF Sanction, LiftSanction, ClaimSanctionAppeal, AssignSanctionAppeal, ResolveSanctionAppeal
  <2>3. Admins \cup Supply \subseteq Staff
    BY DEF Staff
  <2>. QED BY <1>3, <1>4, <1>5, <1>6, <1>8, <2>1, <2>2, <2>3 DEF DeskByStaff
<1>9. CASE Suspension
  <2>1. PICK s \in Staff, r \in Admins \cup {None} : Handoff(s, r) \/ UNCHANGED incident
    BY <1>9 DEF Suspension, Suspend, desks
  <2>. QED BY <1>6, <2>1 DEF Handoff
<1>. QED BY <1>6, <1>7, <1>8, <1>9, DesksFrame DEF desks

\* A closed request about data rests.
LEMMA RightsRest ==
    ASSUME RightsInv, [Next]_vars, NEW k \in Requests, right[k] # None, right[k].status \notin ActiveRight
    PROVE  right'[k] = right[k]
<1>1. ASSUME NEW q \in Requests, NEW row, q # k, right' = [right EXCEPT ![q] = row]
      PROVE  right'[k] = right[k]
  BY <1>1 DEF RightsInv, RightsTypeOK
<1>2. CASE UNCHANGED right
  BY <1>2
<1>3. ASSUME NEW q \in Requests, RequestRight(q) \/ AddFollowUp(q) PROVE right'[k] = right[k]
  <2>1. q # k
    BY <1>3 DEF RequestRight, AddFollowUp, RightIn, ActiveRight
  <2>. QED BY <1>1, <1>3, <2>1 DEF RequestRight, AddFollowUp
<1>4. ASSUME NEW s \in Staff, NEW q \in Requests, ClaimRight(s, q) PROVE right'[k] = right[k]
  <2>1. q # k /\ right' = [right EXCEPT ![q] = [right[q] EXCEPT !.handler = s]]
    BY <1>4 DEF ClaimRight, RightIn
  <2>. QED BY <1>1, <2>1
<1>5. ASSUME NEW s \in Staff, NEW q \in Requests, TransitionRight(s, q) PROVE right'[k] = right[k]
  <2>1. q # k /\ \E row : right' = [right EXCEPT ![q] = row]
    BY <1>5 DEF TransitionRight, RightIn
  <2>. QED BY <1>1, <2>1
<1>6. CASE Suspension
  <2>1. PICK s \in Staff, r \in Admins \cup {None} : Handoff(s, r) \/ UNCHANGED right
    BY <1>6 DEF Suspension, Suspend
  <2>2. k \notin RightHandedOver(s)
    BY DEF RightHandedOver, RightIn
  <2>. QED BY <1>2, <2>1, <2>2 DEF Handoff
<1>. QED BY <1>2, <1>3, <1>4, <1>5, <1>6, RightFrame DEF RightArises, RightByStaff

\* Closed tickets, incidents and requests about data rest, for any staff.
THEOREM ClosedRestsAlways == Spec => ClosedRests
<1>. DEFINE Step ==
        /\ \A t \in Tickets : ticket[t] # None /\ ~IsOpen(ticket[t]) => ticket'[t] = ticket[t]
        /\ \A i \in Incidents : incident[i] # None /\ ~IsOpen(incident[i]) => incident'[i] = incident[i]
        /\ \A k \in Requests : right[k] # None /\ right[k].status \notin ActiveRight =>
              right'[k] = right[k]
<1>1. IInv /\ [Next]_vars => Step
  BY TicketsRest, IncidentsRest, RightsRest DEF IInv
<1>2. IInv /\ [Next]_vars => [Step]_vars
  BY <1>1
<1>. QED BY <1>2, Inductive, PTL DEF Spec, ClosedRests

\* A bill with a statement is reconciled: no download, no retry and no day without
\* a statement comes after an import.
ImportedInv == BillInv /\ (bill.imported # None => bill.status = "reconciled")

\* An issue in a step.
IssueGoesOn(i) ==
    /\ i \in DOMAIN issues'
    /\ issues[i].status \in ClosedIssue =>
          /\ issues'[i].status = issues[i].status
          /\ issues'[i].resolver = issues[i].resolver
          /\ issues'[i].assignee = issues[i].assignee

\* A bill with which a statement was imported is reconciled.
LEMMA BillIsImported ==
    ASSUME BillInv, NEW rows \in Statements, Imported(rows)
    PROVE  bill'.imported # None => bill'.status = "reconciled"
  BY DEF Imported, BillInv, BillTypeOK, BillRows

LEMMA BillStands ==
    ASSUME ImportedInv, [Next]_vars
    PROVE  /\ bill'.imported # None => bill'.status = "reconciled"
           /\ bill.imported # None => bill'.imported = bill.imported /\ bill'.status = "reconciled"
<1>. USE DEF ImportedInv
<1>1. CASE UNCHANGED bill
  BY <1>1
<1>2. bill \in BillRows
  BY DEF BillInv, BillTypeOK
<1>3. ASSUME bill.imported = None, bill'.imported # None => bill'.status = "reconciled"
      PROVE  /\ bill'.imported # None => bill'.status = "reconciled"
             /\ bill.imported # None => bill'.imported = bill.imported /\ bill'.status = "reconciled"
  BY <1>3
<1>4. CASE ExpectBill
  <2>1. bill.imported = None /\ bill'.imported = None
    BY <1>2, <1>4 DEF ExpectBill, BillRows
  <2>. QED BY <1>3, <2>1
<1>5. CASE RetryBill
  <2>1. bill.imported = None /\ bill'.imported = None
    BY <1>2, <1>5 DEF RetryBill, BillRows
  <2>. QED BY <1>3, <2>1
<1>6. ASSUME NEW w \in Workers, ClaimBill(w)
      PROVE  bill.imported = None /\ bill'.imported = None
  BY <1>2, <1>6 DEF ClaimBill, BillRows
<1>7. ASSUME NEW w \in Workers, FinalizeNoStatement(w)
      PROVE  bill.imported = None /\ bill'.imported = None
  BY <1>2, <1>7 DEF FinalizeNoStatement, Leased, BillRows
<1>8. ASSUME NEW w \in Workers, AbandonDownload(w)
      PROVE  UNCHANGED bill \/ (bill.imported = None /\ bill'.imported = None)
  <2>1. CASE UNCHANGED bill
    BY <2>1
  <2>2. CASE bill' # bill
    <3>1. Leased(w) /\ bill' = [bill EXCEPT !.status = "failed", !.lease = None]
      BY <1>8, <2>2 DEF AbandonDownload
    <3>. QED BY <1>2, <3>1 DEF Leased, BillRows
  <2>. QED BY <2>1, <2>2
<1>9. ASSUME NEW w \in Workers, NEW rows \in Statements, ImportDownload(w, rows)
      PROVE  bill.imported = None /\ (bill'.imported # None => bill'.status = "reconciled")
  BY <1>9, BillIsImported DEF ImportDownload, Leased
<1>10. ASSUME NEW s \in Staff, ApproveUpload(s)
       PROVE  bill.imported = None /\ (bill'.imported # None => bill'.status = "reconciled")
  <2>1. upload.rows \in Statements
    BY <1>10 DEF ApproveUpload, BillInv, BillTypeOK, Uploads
  <2>. QED BY <1>10, <2>1, BillIsImported DEF ApproveUpload
<1>11. CASE BillArises
  <2>1. ASSUME NEW x \in References, Book(x) \/ SettleLocally(x) PROVE UNCHANGED bill
    BY <2>1 DEF Book, SettleLocally
  <2>. QED BY <1>1, <1>3, <1>4, <1>6, <1>7, <1>8, <1>9, <1>11, <2>1 DEF BillArises
<1>12. ASSUME NEW s \in Staff, BillByStaff(s)
       PROVE  /\ bill'.imported # None => bill'.status = "reconciled"
              /\ bill.imported # None => bill'.imported = bill.imported /\ bill'.status = "reconciled"
  <2>1. ASSUME NEW x \in References,
               \/ \E d \in Days : ProposeClassification(s, x, d)
               \/ \E approve \in BOOLEAN : ReviewClassification(s, x, approve)
        PROVE  UNCHANGED bill
    BY <2>1 DEF ProposeClassification, ReviewClassification
  <2>2. ASSUME RejectUpload(s) \/ \E rows \in Statements : ProposeUpload(s, rows) PROVE UNCHANGED bill
    BY <2>2 DEF RejectUpload, ProposeUpload
  <2>3. ASSUME NEW i \in DOMAIN issues,
               \/ ClaimIssue(s, i) \/ RejectResolution(s, i) \/ ApproveResolution(s, i)
               \/ \E outcome \in {"resolved", "acceptedException"} : ProposeResolution(s, i, outcome)
        PROVE  UNCHANGED bill
    BY <2>3 DEF ClaimIssue, RejectResolution, ApproveResolution, ProposeResolution
  <2>. QED BY <1>1, <1>3, <1>5, <1>10, <1>12, <2>1, <2>2, <2>3 DEF BillByStaff
<1>. QED BY <1>1, <1>11, <1>12, BillFrame DEF billVars

LEMMA IssuesGoOn ==
    ASSUME BillInv, [Next]_vars, NEW i \in DOMAIN issues
    PROVE  IssueGoesOn(i)
<1>1. CASE UNCHANGED issues
  BY <1>1 DEF IssueGoesOn
<1>2. ASSUME NEW j \in DOMAIN issues, NEW row, issues' = [issues EXCEPT ![j] = row],
             issues[j].status \in ClosedIssue =>
                /\ row.status = issues[j].status /\ row.resolver = issues[j].resolver
                /\ row.assignee = issues[j].assignee
      PROVE  IssueGoesOn(i)
  BY <1>2 DEF IssueGoesOn
<1>3. ASSUME NEW j \in DOMAIN issues PROVE issues[j] \in IssueRecords
  BY DEF BillInv, BillTypeOK
<1>4. {"open", "investigating"} \cap ClosedIssue = {}
  BY DEF ClosedIssue
<1>5. ASSUME NEW s \in Staff, NEW j \in DOMAIN issues, ClaimIssue(s, j) PROVE IssueGoesOn(i)
  <2>. DEFINE row == [issues[j] EXCEPT !.status = "investigating", !.assignee = s]
  <2>1. issues' = [issues EXCEPT ![j] = row] /\ issues[j].status \notin ClosedIssue
    BY <1>4, <1>5 DEF ClaimIssue, IssueIn
  <2>. QED BY <1>2, <2>1
<1>6. ASSUME NEW s \in Staff, NEW j \in DOMAIN issues, NEW outcome, ProposeResolution(s, j, outcome)
      PROVE  IssueGoesOn(i)
  <2>. DEFINE row == [issues[j] EXCEPT !.proposal = outcome]
  <2>1. issues' = [issues EXCEPT ![j] = row] /\ issues[j].status \notin ClosedIssue
    BY <1>4, <1>6 DEF ProposeResolution, IssueIn
  <2>. QED BY <1>2, <2>1
<1>7. ASSUME NEW s \in Staff, NEW j \in DOMAIN issues, RejectResolution(s, j) PROVE IssueGoesOn(i)
  <2>. DEFINE row == [issues[j] EXCEPT !.proposal = "none"]
  <2>1. issues' = [issues EXCEPT ![j] = row]
    BY <1>7 DEF RejectResolution
  <2>2. /\ row.status = issues[j].status /\ row.resolver = issues[j].resolver
        /\ row.assignee = issues[j].assignee
    BY <1>3 DEF IssueRecords
  <2>. HIDE DEF row
  <2>. QED BY <1>2, <2>1, <2>2
<1>8. ASSUME NEW s \in Staff, NEW j \in DOMAIN issues, ApproveResolution(s, j) PROVE IssueGoesOn(i)
  <2>. DEFINE row == [issues[j] EXCEPT !.status = issues[j].proposal, !.proposal = "none", !.resolver = s]
  <2>1. issues[j].status \notin ClosedIssue
    BY <1>4, <1>8 DEF ApproveResolution, IssueIn
  <2>2. issues' = [issues EXCEPT ![j] = row]
    BY <1>3, <1>8 DEF ApproveResolution
  <2>. QED BY <1>2, <2>1, <2>2
<1>9. ASSUME NEW found PROVE /\ i \in DOMAIN WithIssues(found) /\ WithIssues(found)[i] = issues[i]
  BY DEF WithIssues
<1>10. ASSUME NEW rows, Imported(rows) PROVE IssueGoesOn(i)
  <2>. DEFINE all == WithIssues(Mismatches(rows))
  <2>1. i \in DOMAIN all /\ all[i] = issues[i]
    BY <1>9
  <2>2. issues' = [j \in DOMAIN all |-> IF j = <<"silence">> /\ IssueIn(j, {"open", "investigating"})
                                        THEN [issues[j] EXCEPT !.status = "recovered"] ELSE all[j]]
    BY <1>10 DEF Imported
  <2>. HIDE DEF all
  <2>3. CASE i = <<"silence">> /\ IssueIn(i, {"open", "investigating"})
    BY <1>4, <2>1, <2>2, <2>3 DEF IssueIn, IssueGoesOn
  <2>4. CASE ~(i = <<"silence">> /\ IssueIn(i, {"open", "investigating"}))
    <3>1. i \in DOMAIN issues' /\ issues'[i] = issues[i]
      BY <2>1, <2>2, <2>4
    <3>. QED BY <3>1 DEF IssueGoesOn
  <2>. QED BY <2>3, <2>4
<1>11. ASSUME NEW w \in Workers, FinalizeNoStatement(w) PROVE IssueGoesOn(i)
  <2>1. PICK found : issues' = WithIssues(found)
    BY <1>11 DEF FinalizeNoStatement
  <2>. QED BY <1>9, <2>1 DEF IssueGoesOn
<1>12. CASE BillArises
  <2>1. ASSUME NEW x \in References, Book(x) \/ SettleLocally(x) PROVE UNCHANGED issues
    BY <2>1 DEF Book, SettleLocally
  <2>2. ASSUME NEW w \in Workers, ClaimBill(w) \/ AbandonDownload(w) PROVE UNCHANGED issues
    BY <2>2 DEF ClaimBill, AbandonDownload
  <2>3. ASSUME NEW w \in Workers, NEW rows \in Statements, ImportDownload(w, rows) PROVE IssueGoesOn(i)
    BY <1>10, <2>3 DEF ImportDownload
  <2>. QED BY <1>1, <1>11, <1>12, <2>1, <2>2, <2>3 DEF BillArises, ExpectBill
<1>13. ASSUME NEW s \in Staff, BillByStaff(s) PROVE IssueGoesOn(i)
  <2>1. ASSUME NEW x \in References,
               \/ \E d \in Days : ProposeClassification(s, x, d)
               \/ \E approve \in BOOLEAN : ReviewClassification(s, x, approve)
        PROVE  UNCHANGED issues
    BY <2>1 DEF ProposeClassification, ReviewClassification
  <2>2. ASSUME RetryBill \/ RejectUpload(s) \/ \E rows \in Statements : ProposeUpload(s, rows)
        PROVE  UNCHANGED issues
    BY <2>2 DEF RetryBill, RejectUpload, ProposeUpload
  <2>3. ASSUME ApproveUpload(s) PROVE IssueGoesOn(i)
    BY <1>10, <2>3 DEF ApproveUpload
  <2>. QED BY <1>1, <1>5, <1>6, <1>7, <1>8, <1>13, <2>1, <2>2, <2>3 DEF BillByStaff
<1>. QED BY <1>1, <1>12, <1>13, BillFrame DEF billVars

LEMMA ImportedAlways == Spec => []ImportedInv
<1>1. DeskInit => ImportedInv
  <2>1. ASSUME NEW kind, BillInit(kind) PROVE bill.imported = None
    BY <2>1 DEF BillInit
  <2>. QED BY <2>1, Initially DEF DeskInit, IInv, ImportedInv
<1>2. ImportedInv /\ [Next]_vars => ImportedInv'
  BY BillInvKept, BillStands DEF ImportedInv
<1>. QED BY <1>1, <1>2, PTL DEF Spec

\* A statement is imported once and closed issues stay closed, for any references.
THEOREM StatementsStandAlways == Spec => StatementsStand
<1>. DEFINE Step ==
        /\ bill.imported # None => bill'.imported = bill.imported /\ bill'.status = "reconciled"
        /\ \A i \in DOMAIN issues :
              /\ i \in DOMAIN issues'
              /\ issues[i].status \in ClosedIssue =>
                    /\ issues'[i].status = issues[i].status
                    /\ issues'[i].resolver = issues[i].resolver
                    /\ issues'[i].assignee = issues[i].assignee
<1>1. ImportedInv /\ [Next]_vars => Step
  BY BillStands, IssuesGoOn DEF ImportedInv, IssueGoesOn
<1>2. ImportedInv /\ [Next]_vars => [Step]_vars
  BY <1>1
<1>. QED BY <1>2, ImportedAlways, PTL DEF Spec, StatementsStand

=============================================================================
