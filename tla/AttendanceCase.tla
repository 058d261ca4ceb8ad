-------------------------- MODULE AttendanceCase ---------------------------
(***************************************************************************)
(* Attendance disputes: statements of two parties, a first decision, an    *)
(* appeal, a final decision and the refund that follows from it            *)
(* (attendance-disputes.service.ts).                                       *)
(*                                                                         *)
(* Deadlines are windows that are open until they close; how long they     *)
(* stay open does not matter.  The limit of ten statements a side and the  *)
(* evidence attached to them are left out: they only refuse statements.    *)
(***************************************************************************)
EXTENDS Personnel

CONSTANT Cases

VARIABLE cases      \* AttendanceDispute of each order

Parties == {"customer", "companion"}
Decisions == {"noRefund", "fullRefund"}
FirstRound == {"evidence", "response"}      \* they matter until a case is reviewed
Deadlines == FirstRound \cup {"appeal", "appealResponse"}
CaseStatuses ==
    {"evidenceCollection", "counterpartyResponse", "review", "decided", "appealed", "final"}

CaseRecords ==
    [issue : {"ordinary", "safetyBoundary"}, status : CaseStatuses,
     open : SUBSET Deadlines, assignee : Staff \cup {None},
     decision : Decisions \cup {None}, decider : Staff \cup {None},
     appellant : Parties \cup {None}, defended : BOOLEAN,
     appealAssignee : Staff \cup {None}, reviewer : Staff \cup {None},
     outcome : Decisions \cup {None}, starting : BOOLEAN, refund : BOOLEAN]

ASSUME CaseAssumption == None \notin CaseRecords /\ None \notin Parties

CaseTypeOK == cases \in [Cases -> CaseRecords \cup {None}]

CaseInit == cases = [c \in Cases |-> None]

CaseIn(c, statuses) == cases[c] # None /\ cases[c].status \in statuses

-----------------------------------------------------------------------------
(* The parties. *)

\* A party opens a case, with a first statement or without one.
OpenCase(c, issue, stated) ==
    /\ cases[c] = None
    /\ cases' = [cases EXCEPT ![c] =
         [issue |-> issue,
          status |-> IF stated THEN "counterpartyResponse" ELSE "evidenceCollection",
          open |-> FirstRound, assignee |-> None,
          decision |-> None, decider |-> None, appellant |-> None, defended |-> FALSE,
          appealAssignee |-> None, reviewer |-> None, outcome |-> None,
          starting |-> FALSE, refund |-> FALSE]]

\* A deadline passes; the one for evidence comes before the one for the answer.
CloseWindow(c, w) ==
    /\ cases[c] # None
    /\ w \in cases[c].open
    /\ w = "response" => "evidence" \notin cases[c].open
    /\ cases' = [cases EXCEPT ![c].open = @ \ {w}]

CompleteEvidence(c) ==
    /\ CaseIn(c, {"evidenceCollection"})
    /\ "evidence" \in cases[c].open
    /\ cases' = [cases EXCEPT ![c].status = "counterpartyResponse",
                              ![c].open = @ \cup {"response"}]

\* The other party answers the case.
AnswerCase(c) ==
    /\ CaseIn(c, {"counterpartyResponse"})
    /\ "response" \in cases[c].open
    /\ cases' = [cases EXCEPT ![c].status = "review", ![c].open = @ \ FirstRound]

\* Only the party the decision goes against may appeal.
Appeal(c) ==
    /\ CaseIn(c, {"decided"})
    /\ "appeal" \in cases[c].open
    /\ cases' = [cases EXCEPT
         ![c].status = "appealed",
         ![c].appellant = IF cases[c].decision = "fullRefund" THEN "companion" ELSE "customer",
         ![c].open = @ \cup {"appealResponse"}]

\* The other party answers the appeal.
DefendAppeal(c) ==
    /\ CaseIn(c, {"appealed"})
    /\ "appealResponse" \in cases[c].open
    /\ cases' = [cases EXCEPT ![c].defended = TRUE]

-----------------------------------------------------------------------------
(* The reviewers. *)

\* A case on a safety boundary need not wait for statements, whatever its status.
Ready(c) ==
    \/ cases[c].status = "review"
    \/ cases[c].issue = "safetyBoundary"
    \/ cases[c].status = "evidenceCollection" /\ "evidence" \notin cases[c].open
    \/ cases[c].status = "counterpartyResponse" /\ "response" \notin cases[c].open

ClaimCase(s, c) ==
    /\ cases[c] # None
    /\ cases[c].assignee \in {None, s}
    /\ Ready(c)
    /\ Assignable(s, cases[c].assignee)
    /\ cases' = [cases EXCEPT ![c].assignee = s, ![c].status = "review",
                              ![c].open = @ \ FirstRound]

Decide(s, c, d) ==
    /\ CaseIn(c, {"review"})
    /\ cases[c].assignee = s
    /\ cases' = [cases EXCEPT ![c].status = "decided", ![c].decision = d,
                              ![c].decider = s, ![c].open = @ \cup {"appeal"}]

\* The other party has answered the appeal or no longer may.
AppealHeard(c) == cases[c].defended \/ "appealResponse" \notin cases[c].open

ClaimAppeal(s, c) ==
    /\ CaseIn(c, {"appealed"})
    /\ cases[c].decider # s
    /\ AppealHeard(c)
    /\ cases[c].appealAssignee \in {None, s}
    /\ Assignable(s, cases[c].appealAssignee)
    /\ cases' = [cases EXCEPT ![c].appealAssignee = s]

FinalizeAppealed(s, c, d) ==
    /\ CaseIn(c, {"appealed"})
    /\ cases[c].appealAssignee = s /\ cases[c].decider # s
    /\ AppealHeard(c)
    /\ cases' = [cases EXCEPT ![c].status = "final", ![c].outcome = d, ![c].reviewer = s,
                              ![c].starting = (d = "fullRefund" /\ ~cases[c].refund)]

FinalizeUnappealed(s, c) ==
    /\ CaseIn(c, {"decided"})
    /\ "appeal" \notin cases[c].open
    /\ cases[c].decider = s
    /\ cases' = [cases EXCEPT ![c].status = "final", ![c].outcome = cases[c].decision,
                              ![c].starting = (cases[c].decision = "fullRefund" /\ ~cases[c].refund)]

\* The refund is started for whoever reviewed the appeal, or else decided.
FinalReviewer(c) ==
    IF cases[c].reviewer # None THEN cases[c].reviewer ELSE cases[c].decider

\* Finalising a final case again starts the refund that was left out.
FinalizeAgain(s, c) ==
    /\ CaseIn(c, {"final"})
    /\ cases[c].outcome = "fullRefund" /\ ~cases[c].refund
    /\ s = FinalReviewer(c)
    /\ ~cases[c].starting
    /\ cases' = [cases EXCEPT ![c].starting = TRUE]

\* The refund is requested in a transaction of its own, after the case is final.
StartRefund(c) ==
    /\ CaseIn(c, {"final"})
    /\ cases[c].starting /\ cases[c].outcome = "fullRefund"
    /\ cases' = [cases EXCEPT ![c].starting = FALSE, ![c].refund = TRUE]

\* The request stops before that: a crash, or the refund is refused.
RefundNotStarted(c) ==
    /\ cases[c] # None
    /\ cases[c].starting
    /\ cases' = [cases EXCEPT ![c].starting = FALSE]

=============================================================================
