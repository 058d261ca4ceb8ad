--------------------------- MODULE Reconciliation ---------------------------
(***************************************************************************)
(* One daily bill of WeChat: its download by the workers or upload by the  *)
(* finance staff, its comparison with the local records, and the issues    *)
(* people close (wechat-daily-reconciliation.service.ts, wechat-           *)
(* reconciliation-gate.ts and the triggers on issues and proposals).       *)
(*                                                                         *)
(* The bill of trades and the bills of the three fund accounts are the     *)
(* same comparison: a local record (a payment, a ledger entry) starts out  *)
(* pending (unsettled, unclassified) and later belongs to a day and an     *)
(* account.  What differs in a row (amount, identifiers, direction, kind   *)
(* of business) is one value.  Left out: rows of trades that did not       *)
(* succeed, the backoff of failed downloads, and the times of refunds,     *)
(* which an upload may complete.                                           *)
(***************************************************************************)
EXTENDS Personnel

CONSTANTS
    References, \* what the rows of the bill and the local records refer to
    Workers     \* processes that download bills

VARIABLES
    bill,       \* WeChatBillReconciliationRun: kind, status, lease, imported rows
    records,    \* the local record of each reference
    sorting,    \* CashLedgerClassificationProposal, pending
    upload,     \* WeChatBillImportProposal, pending
    downloads,  \* workers with the bill under way
    issues,     \* WeChatReconciliationIssue, with its pending proposal
    processed   \* history: the local records when the bill was last processed

billVars == <<bill, records, sorting, upload, downloads, issues, processed>>

Days == {"here", "otherDay", "otherAccount"}
LocalRecords == {"absent", "pending"} \cup Days
Statements == [References -> {"none", "exact", "differs"}]

BillKinds == {"trade", "fund"}

\* What an issue is about: a row of the bill, a local record the bill lacks, or
\* a day without a statement.
Sources == ({"row", "local"} \X References) \cup {<<"silence">>}
ClosedIssue == {"resolved", "acceptedException", "recovered"}

IssueRecords ==
    [status : {"open", "investigating"} \cup ClosedIssue, assignee : Staff \cup {None},
     proposal : {"resolved", "acceptedException", "none"}, resolver : Staff \cup {None}]

BillRows ==
    [kind : BillKinds,
     status : {"none", "pending", "processing", "failed", "noStatement", "reconciled"},
     lease : Workers \cup {None}, imported : Statements \cup {None}]

Classifications == [by : Staff, as : Days]
Uploads == [by : Staff, rows : Statements]

ASSUME BillAssumption == None \notin Statements \cup Classifications \cup Uploads

BillTypeOK ==
    /\ bill \in BillRows
    /\ records \in [References -> LocalRecords]
    /\ sorting \in [References -> Classifications \cup {None}]
    /\ upload \in Uploads \cup {None}
    /\ downloads \subseteq Workers
    /\ DOMAIN issues \subseteq Sources
    /\ \A i \in DOMAIN issues : issues[i] \in IssueRecords
    /\ processed \in [References -> LocalRecords]

BillInit(kind) ==
    /\ bill = [kind |-> kind, status |-> "none", lease |-> None, imported |-> None]
    /\ records = [x \in References |-> "absent"]
    /\ sorting = [x \in References |-> None]
    /\ upload = None
    /\ downloads = {}
    /\ issues = [i \in {} |-> None]
    /\ processed = records

-----------------------------------------------------------------------------
(* Local records. *)

\* A payment is begun, or an amount is booked in the ledger.
Book(x) ==
    /\ records[x] = "absent"
    /\ records' = [records EXCEPT ![x] = "pending"]
    /\ UNCHANGED <<bill, sorting, upload, downloads, issues, processed>>

\* A payment succeeds, at a time WeChat names.
SettleLocally(x) ==
    /\ bill.kind = "trade" /\ records[x] = "pending"
    /\ \E d \in {"here", "otherDay"} : records' = [records EXCEPT ![x] = d]
    /\ UNCHANGED <<bill, sorting, upload, downloads, issues, processed>>

ProposeClassification(s, x, as) ==
    /\ bill.kind = "fund" /\ records[x] = "pending"
    /\ sorting[x] = None
    /\ sorting' = [sorting EXCEPT ![x] = [by |-> s, as |-> as]]
    /\ UNCHANGED <<bill, records, upload, downloads, issues, processed>>

ReviewClassification(s, x, approve) ==
    /\ sorting[x] # None /\ sorting[x].by # s
    /\ records' = IF approve THEN [records EXCEPT ![x] = sorting[x].as] ELSE records
    /\ sorting' = [sorting EXCEPT ![x] = None]
    /\ UNCHANGED <<bill, upload, downloads, issues, processed>>

-----------------------------------------------------------------------------
(* The comparison of a statement with the local records. *)

\* Mutant of Agrees: a row agrees when there is a record of its reference.
AgreesByReference(rows, x) == rows[x] \in {"exact", "differs"} /\ records[x] \in {"here", "otherDay"}

\* A row agrees with its record whatever day that is expected on.
Agrees(rows, x) == rows[x] = "exact" /\ records[x] \in {"here", "otherDay"}

Mismatches(rows) ==
    {<<"row", x>> : x \in {y \in References : rows[y] # "none" /\ ~Agrees(rows, y)}} \cup
    {<<"local", x>> : x \in {y \in References : rows[y] = "none" /\ records[y] = "here"}}

NewIssue == [status |-> "open", assignee |-> None, proposal |-> "none", resolver |-> None]

\* Issues are created once, by their fingerprint.
WithIssues(found) ==
    [i \in DOMAIN issues \cup found |-> IF i \in DOMAIN issues THEN issues[i] ELSE NewIssue]

IssueIn(i, statuses) == i \in DOMAIN issues /\ issues[i].status \in statuses

\* The statement is stored and compared, and ends the search for it.
Imported(rows) ==
    /\ issues' = [i \in DOMAIN WithIssues(Mismatches(rows)) |->
                     IF i = <<"silence">> /\ IssueIn(i, {"open", "investigating"})
                     THEN [issues[i] EXCEPT !.status = "recovered"]
                     ELSE WithIssues(Mismatches(rows))[i]]
    /\ bill' = [bill EXCEPT !.status = "reconciled", !.lease = None, !.imported = rows]
    /\ processed' = records

-----------------------------------------------------------------------------
(* The workers. *)

\* The day's bills become due, or an administrator asks for them.
ExpectBill ==
    /\ bill.status = "none"
    /\ bill' = [bill EXCEPT !.status = "pending"]
    /\ UNCHANGED <<records, sorting, upload, downloads, issues, processed>>

\* A bill under way is taken over when its lease has expired.
ClaimBill(w) ==
    /\ w \notin downloads
    /\ bill.status \in {"pending", "failed", "processing"} /\ bill.imported = None
    /\ bill' = [bill EXCEPT !.status = "processing", !.lease = w]
    /\ downloads' = downloads \cup {w}
    /\ UNCHANGED <<records, sorting, upload, issues, processed>>

Leased(w) == w \in downloads /\ bill.lease = w /\ bill.imported = None

ImportDownload(w, rows) ==
    /\ Leased(w)
    /\ Imported(rows)
    /\ downloads' = downloads \ {w}
    /\ UNCHANGED <<records, sorting, upload>>

FinalizeNoStatement(w) ==
    /\ Leased(w)
    /\ issues' = WithIssues(IF \E x \in References : records[x] = "here" THEN {<<"silence">>} ELSE {})
    /\ bill' = [bill EXCEPT !.status = "noStatement", !.lease = None]
    /\ processed' = records
    /\ downloads' = downloads \ {w}
    /\ UNCHANGED <<records, sorting, upload>>

\* The download failed, or the lease was lost; a worker that stops only loses
\* its download.
AbandonDownload(w) ==
    /\ w \in downloads
    /\ bill' \in {bill, IF Leased(w) THEN [bill EXCEPT !.status = "failed", !.lease = None] ELSE bill}
    /\ downloads' = downloads \ {w}
    /\ UNCHANGED <<records, sorting, upload, issues, processed>>

RetryBill ==
    /\ bill.status \in {"failed", "noStatement"} /\ bill.imported = None
    /\ bill' = [bill EXCEPT !.status = "pending", !.lease = None]
    /\ UNCHANGED <<records, sorting, upload, downloads, issues, processed>>

-----------------------------------------------------------------------------
(* Statements uploaded by hand. *)

ProposeUpload(s, rows) ==
    /\ upload = None /\ bill.imported = None
    /\ upload' = [by |-> s, rows |-> rows]
    /\ UNCHANGED <<bill, records, sorting, downloads, issues, processed>>

RejectUpload(s) ==
    /\ upload # None /\ upload.by # s
    /\ upload' = None
    /\ UNCHANGED <<bill, records, sorting, downloads, issues, processed>>

\* The run may not exist yet.
ApproveUpload(s) ==
    /\ upload # None /\ upload.by # s
    /\ bill.imported = None
    /\ Imported(upload.rows)
    /\ upload' = None
    /\ UNCHANGED <<records, sorting, downloads>>

-----------------------------------------------------------------------------
(* Issues. *)

ClaimIssue(s, i) ==
    /\ IssueIn(i, {"open", "investigating"})
    /\ issues[i].assignee \in {None, s}
    /\ issues' = [issues EXCEPT ![i].status = "investigating", ![i].assignee = s]
    /\ UNCHANGED <<bill, records, sorting, upload, downloads, processed>>

ProposeResolution(s, i, outcome) ==
    /\ IssueIn(i, {"investigating"}) /\ issues[i].assignee = s
    /\ issues[i].proposal = "none"
    /\ issues' = [issues EXCEPT ![i].proposal = outcome]
    /\ UNCHANGED <<bill, records, sorting, upload, downloads, processed>>

RejectResolution(s, i) ==
    /\ issues[i].proposal # "none" /\ issues[i].assignee # s
    /\ issues' = [issues EXCEPT ![i].proposal = "none"]
    /\ UNCHANGED <<bill, records, sorting, upload, downloads, processed>>

\* The proposer is the assignee; exceptions are for administrators.
MayApprove(s, i) ==
    /\ issues[i].assignee # s
    /\ issues[i].proposal = "acceptedException" => s \in Admins

ApproveResolution(s, i) ==
    /\ IssueIn(i, {"investigating"}) /\ issues[i].proposal # "none"
    /\ MayApprove(s, i)
    /\ issues' = [issues EXCEPT ![i].status = issues[i].proposal, ![i].proposal = "none",
                                ![i].resolver = s]
    /\ UNCHANGED <<bill, records, sorting, upload, downloads, processed>>

-----------------------------------------------------------------------------

BillArises ==
    \/ \E x \in References : Book(x) \/ SettleLocally(x)
    \/ ExpectBill
    \/ \E w \in Workers : ClaimBill(w) \/ FinalizeNoStatement(w) \/ AbandonDownload(w)
                          \/ \E rows \in Statements : ImportDownload(w, rows)

BillByStaff(s) ==
    /\ s \in Finance \cup Admins
    /\ \/ \E x \in References :
             \/ \E d \in Days : ProposeClassification(s, x, d)
             \/ \E approve \in BOOLEAN : ReviewClassification(s, x, approve)
       \/ RetryBill \/ RejectUpload(s) \/ ApproveUpload(s)
       \/ \E rows \in Statements : ProposeUpload(s, rows)
       \/ \E i \in DOMAIN issues :
             \/ ClaimIssue(s, i) \/ RejectResolution(s, i) \/ ApproveResolution(s, i)
             \/ \E outcome \in {"resolved", "acceptedException"} : ProposeResolution(s, i, outcome)

-----------------------------------------------------------------------------

\* The gate of the release readiness.
GateClear ==
    /\ bill.status \in {"reconciled", "noStatement"}
    /\ \A i \in DOMAIN issues : issues[i].status \in ClosedIssue /\ issues[i].proposal = "none"
    /\ upload = None
    /\ bill.kind = "fund" => \A x \in References : records[x] # "pending"

=============================================================================
