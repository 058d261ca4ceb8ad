----------------------------- MODULE Complaint -----------------------------
(***************************************************************************)
(* A consumer complaint at WeChat and the dispute that mirrors it: its     *)
(* assignment, replies, completion and synchronisation                     *)
(* (payment-disputes.service.ts).  What a dispute does to earnings is in   *)
(* Settlement.                                                             *)
(*                                                                         *)
(* Every call to WeChat is three steps: the transaction before it, its     *)
(* effect there, and the transaction that records the answer.  The answer  *)
(* may be lost, and the process may stop at any of them.  That an operator *)
(* is refused while WeChat's own service is active or an order of the      *)
(* complaint is not linked is left out: it only refuses steps.  So are the *)
(* due times and leases of the poll, which decide when it runs.            *)
(***************************************************************************)
EXTENDS Personnel

CONSTANTS
    Replies,    \* replies, by their clientRequestId
    Texts,      \* what a reply may say
    Keys        \* clientRequestIds of completions

VARIABLES
    wx,         \* the complaint at WeChat: state, unread message, replies received
    dispute,    \* PaymentDispute
    reply,      \* PaymentDisputeReply rows
    sending,    \* the provider call of each reply
    finishing,  \* the provider call that completes the complaint
    fetched     \* what a synchronisation has read and not yet applied

complaintVars == <<wx, dispute, reply, sending, finishing, fetched>>

ProviderStates == {"none", "PENDING", "PROCESSING", "PROCESSED"}
WxRecords == [state : ProviderStates, unread : BOOLEAN, log : SUBSET Texts]
ActiveDispute == {"pendingSync", "open", "processing", "syncFailed"}
Calls == {"none", "calling", "answered", "failed"}
Uncertain == {"submitting", "outcomeUnknown"}

DisputeRecords ==
    [status : ActiveDispute \cup {"resolved"}, provider : ProviderStates,
     unread : BOOLEAN, answered : BOOLEAN, assignee : Staff \cup {None},
     key : Keys \cup {None}, completion : Uncertain \cup {"submitted", None}]

ReplyRows == [text : Texts, status : Uncertain \cup {"submitted"}]
Readings == [detail : WxRecords, full : BOOLEAN]

ASSUME ComplaintAssumption == None \notin DisputeRecords \cup ReplyRows \cup Readings

ComplaintTypeOK ==
    /\ wx \in WxRecords
    /\ dispute \in DisputeRecords \cup {None}
    /\ reply \in [Replies -> ReplyRows \cup {None}]
    /\ sending \in [Replies -> Calls]
    /\ finishing \in Calls
    /\ fetched \in Readings \cup {None}

ComplaintInit ==
    /\ wx = [state |-> "none", unread |-> FALSE, log |-> {}]
    /\ dispute = None
    /\ reply = [r \in Replies |-> None]
    /\ sending = [r \in Replies |-> "none"]
    /\ finishing = "none"
    /\ fetched = None

NewDispute ==
    [status |-> "pendingSync", provider |-> "none", unread |-> FALSE, answered |-> FALSE,
     assignee |-> None, key |-> None, completion |-> None]

DisputeIn(statuses) == dispute # None /\ dispute.status \in statuses

-----------------------------------------------------------------------------
(* WeChat and its user. *)

\* The user complains, writes again, or comes back after the complaint was completed.
UserWrites ==
    /\ wx' = [wx EXCEPT !.unread = TRUE,
                        !.state = IF @ \in {"none", "PROCESSED"} THEN "PENDING" ELSE @]
    /\ UNCHANGED <<dispute, reply, sending, finishing, fetched>>

WechatTakesReply(r) ==
    /\ sending[r] = "calling"
    /\ wx' = [wx EXCEPT !.log = @ \cup {reply[r].text}, !.unread = FALSE,
                        !.state = IF @ = "PENDING" THEN "PROCESSING" ELSE @]
    /\ \E end \in {"answered", "failed"} : sending' = [sending EXCEPT ![r] = end]
    /\ UNCHANGED <<dispute, reply, finishing, fetched>>

WechatRefusesReply(r) ==
    /\ sending[r] = "calling"
    /\ sending' = [sending EXCEPT ![r] = "failed"]
    /\ UNCHANGED <<wx, dispute, reply, finishing, fetched>>

WechatCompletes ==
    /\ finishing = "calling"
    /\ wx' = [wx EXCEPT !.state = "PROCESSED"]
    /\ finishing' \in {"answered", "failed"}
    /\ UNCHANGED <<dispute, reply, sending, fetched>>

WechatRefusesCompletion ==
    /\ finishing = "calling"
    /\ finishing' = "failed"
    /\ UNCHANGED <<wx, dispute, reply, sending, fetched>>

-----------------------------------------------------------------------------
(* Synchronisation. *)

\* WeChat's notification, which may be late, repeated or never come.
Notify ==
    /\ wx.state # "none"
    /\ dispute' = IF dispute = None THEN NewDispute ELSE dispute
    /\ UNCHANGED <<wx, reply, sending, finishing, fetched>>

\* A synchronisation reads the complaint and its history; a scan of recent
\* complaints reads it without the history, and adds a dispute not yet known.
Fetch(full) ==
    /\ wx.state # "none" /\ fetched = None
    /\ full => dispute # None
    /\ fetched' = [detail |-> wx, full |-> full]
    /\ dispute' = IF dispute = None THEN NewDispute ELSE dispute
    /\ UNCHANGED <<wx, reply, sending, finishing>>

StatusOf(state) ==
    CASE state = "PENDING"    -> "open"
      [] state = "PROCESSING" -> "processing"
      [] state = "PROCESSED"  -> "resolved"

\* Mutant of Reconciled: every uncertain reply is taken as sent.
ReconciledAll == {r \in Replies : reply[r] # None /\ reply[r].status \in Uncertain}

\* The uncertain replies whose text is in the history that was read.
Reconciled ==
    {r \in Replies : /\ fetched.full
                     /\ reply[r] # None /\ reply[r].status \in Uncertain
                     /\ reply[r].text \in fetched.detail.log}

\* What was read replaces what was known, however old it is by now.
Apply ==
    /\ fetched # None
    /\ LET seen == fetched.detail IN
       dispute' = [dispute EXCEPT
         !.status = StatusOf(seen.state), !.provider = seen.state, !.unread = seen.unread,
         !.answered = @ \/ (fetched.full /\ seen.log # {}),
         !.completion = IF seen.state = "PROCESSED" /\ @ = "outcomeUnknown" THEN "submitted" ELSE @]
    /\ reply' = [r \in Replies |-> IF r \in Reconciled THEN [reply[r] EXCEPT !.status = "submitted"]
                                                       ELSE reply[r]]
    /\ fetched' = None
    /\ UNCHANGED <<wx, sending, finishing>>

FetchFails ==
    /\ fetched # None /\ fetched.full
    /\ dispute' = [dispute EXCEPT !.status = "syncFailed"]
    /\ fetched' = None
    /\ UNCHANGED <<wx, reply, sending, finishing>>

-----------------------------------------------------------------------------
(* The staff. *)

ClaimComplaint(s) ==
    /\ DisputeIn(ActiveDispute)
    /\ dispute.assignee = None
    /\ Assignable(s, None)
    /\ dispute' = [dispute EXCEPT !.assignee = s]
    /\ UNCHANGED <<wx, reply, sending, finishing, fetched>>

AssignComplaint(t) ==
    /\ DisputeIn(ActiveDispute)
    /\ t \in Support
    /\ Assignable(t, dispute.assignee)
    /\ dispute' = [dispute EXCEPT !.assignee = t]
    /\ UNCHANGED <<wx, reply, sending, finishing, fetched>>

\* An administrator, or the support agent the complaint is assigned to.
Entitled(s) == s \in Admins \/ dispute.assignee = s

\* A reply is reserved, unless the outcome of another one is not known.
Reply(s, r, x) ==
    /\ DisputeIn({"open", "processing"})
    /\ Entitled(s)
    /\ reply[r] = None
    /\ \A q \in Replies : reply[q] # None => reply[q].status \notin Uncertain
    /\ reply' = [reply EXCEPT ![r] = [text |-> x, status |-> "submitting"]]
    /\ sending' = [sending EXCEPT ![r] = "calling"]
    /\ UNCHANGED <<wx, dispute, finishing, fetched>>

ReplyRecorded(r) ==
    /\ sending[r] = "answered"
    /\ reply' = [reply EXCEPT ![r].status = "submitted"]
    /\ dispute' = [dispute EXCEPT !.status = "processing", !.provider = "PROCESSING",
                                  !.unread = FALSE, !.answered = TRUE]
    /\ sending' = [sending EXCEPT ![r] = "none"]
    /\ UNCHANGED <<wx, finishing, fetched>>

\* The call, or the transaction after it, failed.
ReplyUnknown(r) ==
    /\ sending[r] \in {"answered", "failed"}
    /\ reply' = [reply EXCEPT ![r].status = "outcomeUnknown"]
    /\ sending' = [sending EXCEPT ![r] = "none"]
    /\ UNCHANGED <<wx, dispute, finishing, fetched>>

\* The first request of a key is checked; a repeated one is sent again unless
\* its outcome is unknown.
MayComplete(k) ==
    IF dispute.key = k THEN dispute.completion # "outcomeUnknown"
    ELSE /\ dispute.completion \notin Uncertain
         /\ dispute.provider = "PROCESSING" /\ dispute.answered /\ ~dispute.unread

Complete(s, k) ==
    /\ dispute # None
    /\ Entitled(s)
    /\ ~(dispute.status = "resolved" /\ dispute.completion = "submitted")
    /\ MayComplete(k)
    /\ finishing = "none"
    /\ dispute' = IF dispute.key = k THEN dispute
                  ELSE [dispute EXCEPT !.key = k, !.completion = "submitting"]
    /\ finishing' = "calling"
    /\ UNCHANGED <<wx, reply, sending, fetched>>

CompletionRecorded ==
    /\ finishing = "answered"
    /\ dispute' = [dispute EXCEPT !.status = "resolved", !.provider = "PROCESSED",
                                  !.completion = "submitted"]
    /\ finishing' = "none"
    /\ UNCHANGED <<wx, reply, sending, fetched>>

CompletionUnknown ==
    /\ finishing \in {"answered", "failed"}
    /\ dispute' = [dispute EXCEPT !.completion = "outcomeUnknown"]
    /\ finishing' = "none"
    /\ UNCHANGED <<wx, reply, sending, fetched>>

\* The process stops; what it was doing is not recorded.
ComplaintCrash ==
    /\ \/ fetched # None \/ finishing # "none"
       \/ \E r \in Replies : sending[r] # "none"
    /\ sending' = [r \in Replies |-> "none"]
    /\ finishing' = "none"
    /\ fetched' = None
    /\ UNCHANGED <<wx, dispute, reply>>

ComplaintSteps ==
    \/ UserWrites \/ WechatCompletes \/ WechatRefusesCompletion
    \/ Notify \/ (\E full \in BOOLEAN : Fetch(full)) \/ Apply \/ FetchFails
    \/ CompletionRecorded \/ CompletionUnknown \/ ComplaintCrash
    \/ \E r \in Replies : \/ WechatTakesReply(r) \/ WechatRefusesReply(r)
                          \/ ReplyRecorded(r) \/ ReplyUnknown(r)

ComplaintByStaff(s) ==
    \/ s \in Support /\ ClaimComplaint(s)
    \/ s \in Admins /\ \E t \in Support : AssignComplaint(t)
    \/ \E r \in Replies, x \in Texts : Reply(s, r, x)
    \/ \E k \in Keys : Complete(s, k)

=============================================================================
