-------------------------------- MODULE Chat --------------------------------
(***************************************************************************)
(* The messages with pictures or sound in one conversation: they are       *)
(* queued when they are sent and shown to the other when their analysis    *)
(* allows it (conversations.service.ts, media-asset.service.ts,            *)
(* media-moderation.worker.ts).  Messages of text alone, and what the      *)
(* review department does with a case, belong to Review.                   *)
(*                                                                         *)
(* A message is treated with all its attachments at once, by the process   *)
(* that has its token; a process that loses it may go on for a while.      *)
(***************************************************************************)
EXTENDS Naturals

CONSTANTS
    Posts,          \* messages with attachments
    Scanners,       \* processes that treat them
    MaxRetries

ASSUME ChatAssumption == MaxRetries \in Nat

VARIABLES
    post,       \* Message, with what its MediaAssets have in common
    blocked,    \* one of the two has blocked the other
    scan,       \* the message each process treats, and what it knows of it
    tellings,   \* how many notifications the other has of a message
    openings    \* how many moderation cases a message has opened

chatVars == <<post, blocked, scan, tellings, openings>>

NoPost == [status |-> "none"]
NoScan == [step |-> "idle"]

Verdicts == {"allow", "review", "block"}

ChatTypeOK ==
    /\ post \in [Posts -> [status : {"queued", "published", "pendingReview", "blocked"}, token : SUBSET Scanners,
                           stale : BOOLEAN, media : {"uploaded", "scanning", "approved", "blocked", "failed"},
                           tries : 0..MaxRetries + 1, waiting : BOOLEAN] \cup {NoPost}]
    /\ blocked \in BOOLEAN
    /\ scan \in [Scanners -> [step : {"read", "claimed", "unavailable", "release"} \cup Verdicts,
                              post : Posts, tries : 0..MaxRetries, critical : BOOLEAN] \cup {NoScan}]
    /\ tellings \in [Posts -> Nat] /\ openings \in [Posts -> Nat]

ChatInit ==
    /\ post = [m \in Posts |-> NoPost]
    /\ blocked = FALSE
    /\ scan = [w \in Scanners |-> NoScan]
    /\ tellings = [m \in Posts |-> 0]
    /\ openings = [m \in Posts |-> 0]

Queued(m) == post[m].status = "queued"

\* The text that comes with the attachments may be blocked at once.
SendMedia(m) ==
    /\ post[m] = NoPost /\ ~blocked
    /\ \E direct \in BOOLEAN :
         /\ post' = [post EXCEPT ![m] = [status |-> IF direct THEN "blocked" ELSE "queued", token |-> {},
                                         stale |-> FALSE, media |-> IF direct THEN "blocked" ELSE "scanning",
                                         tries |-> 0, waiting |-> FALSE]]
         /\ openings' = IF direct THEN [openings EXCEPT ![m] = @ + 1] ELSE openings
    /\ UNCHANGED <<blocked, scan, tellings>>

SetConversationBlocked ==
    /\ blocked' = ~blocked
    /\ UNCHANGED <<post, scan, tellings, openings>>

-----------------------------------------------------------------------------
(* processMessage: called after the send and by the worker. *)

ReadMessage(w, m) ==
    /\ scan[w] = NoScan
    /\ Queued(m) /\ ~post[m].waiting
    /\ scan' = [scan EXCEPT ![w] = [step |-> "read", post |-> m, tries |-> post[m].tries, critical |-> FALSE]]
    /\ UNCHANGED <<post, blocked, tellings, openings>>

\* Mutant of Claimable: a message whose process has stopped is never free again.
ClaimableFree(m) == Queued(m) /\ post[m].token = {}

Claimable(m) == Queued(m) /\ (post[m].token = {} \/ post[m].stale)

ClaimMessage(w) ==
    /\ scan[w].step = "read"
    /\ LET m == scan[w].post IN
       IF Claimable(m)
       THEN /\ post' = [post EXCEPT ![m].token = {w}, ![m].stale = FALSE]
            /\ scan' = [scan EXCEPT ![w].step = "claimed"]
       ELSE scan' = [scan EXCEPT ![w] = NoScan] /\ UNCHANGED post
    /\ UNCHANGED <<blocked, tellings, openings>>

AnalyseMedia(w) ==
    /\ scan[w].step = "claimed"
    /\ \/ scan' = [scan EXCEPT ![w].step = "unavailable"]
       \/ \E verdict \in Verdicts, critical \in BOOLEAN :
            scan' = [scan EXCEPT ![w].step = verdict, ![w].critical = critical]
    /\ UNCHANGED <<post, blocked, tellings, openings>>

\* Mutant of Holder: the message is updated by its id alone.
HolderById(w, m) == TRUE

Holder(w, m) == Queued(m) /\ post[m].token = {w}

StatusFor(verdict) ==
    CASE blocked \/ verdict = "block" -> "blocked"
      [] verdict = "allow" -> "published"
      [] OTHER -> "pendingReview"

\* A decision that is not to allow opens a case; what is published is notified.
Decide(w) ==
    /\ scan[w].step \in Verdicts
    /\ LET m == scan[w].post
           verdict == scan[w].step
       IN IF Holder(w, m)
          THEN /\ post' = [post EXCEPT ![m].status = StatusFor(verdict), ![m].token = {}, ![m].stale = FALSE,
                              ![m].media = IF verdict = "block" THEN "blocked" ELSE "approved",
                              ![m].tries = 0, ![m].waiting = FALSE]
               /\ openings' = IF verdict # "allow" THEN [openings EXCEPT ![m] = @ + 1] ELSE openings
               /\ tellings' = IF StatusFor(verdict) = "published" THEN [tellings EXCEPT ![m] = @ + 1] ELSE tellings
          ELSE UNCHANGED <<post, tellings, openings>>
    /\ scan' = [scan EXCEPT ![w] = NoScan]
    /\ UNCHANGED blocked

\* The transaction fails: a sign of danger to life is not given up to a later human review.
DecisionFails(w) ==
    /\ scan[w].step \in Verdicts
    /\ scan' = [scan EXCEPT ![w].step = IF scan[w].critical THEN "release" ELSE "unavailable"]
    /\ UNCHANGED <<post, blocked, tellings, openings>>

\* The attachments are written whoever has the token, with the count read at the start.
ScheduleMediaRetry(w) ==
    /\ scan[w].step = "unavailable" /\ scan[w].tries < MaxRetries
    /\ post' = [post EXCEPT ![scan[w].post].media = "uploaded", ![scan[w].post].tries = scan[w].tries + 1,
                            ![scan[w].post].waiting = TRUE]
    /\ scan' = [scan EXCEPT ![w].step = "release"]
    /\ UNCHANGED <<blocked, tellings, openings>>

Escalate(w) ==
    /\ scan[w].step = "unavailable" /\ scan[w].tries = MaxRetries
    /\ LET m == scan[w].post IN
       IF Holder(w, m)
       THEN /\ post' = [post EXCEPT ![m].status = "pendingReview", ![m].token = {}, ![m].stale = FALSE,
                                    ![m].media = "failed", ![m].tries = MaxRetries + 1, ![m].waiting = FALSE]
            /\ openings' = [openings EXCEPT ![m] = @ + 1]
       ELSE UNCHANGED <<post, openings>>
    /\ scan' = [scan EXCEPT ![w] = NoScan]
    /\ UNCHANGED <<blocked, tellings>>

ReleaseClaim(w) ==
    /\ scan[w].step = "release"
    /\ LET m == scan[w].post IN
       post' = IF Holder(w, m) THEN [post EXCEPT ![m].token = {}, ![m].stale = FALSE] ELSE post
    /\ scan' = [scan EXCEPT ![w] = NoScan]
    /\ UNCHANGED <<blocked, tellings, openings>>

\* A process that stops before it has claimed a message has done nothing.
StopScanner(w) ==
    /\ scan[w].step \notin {"idle", "read"}
    /\ scan' = [scan EXCEPT ![w] = NoScan]
    /\ UNCHANGED <<post, blocked, tellings, openings>>

TokenLapses(m) ==
    /\ Queued(m) /\ post[m].token # {} /\ ~post[m].stale
    /\ post' = [post EXCEPT ![m].stale = TRUE]
    /\ UNCHANGED <<blocked, scan, tellings, openings>>

BackoffEnds(m) ==
    /\ Queued(m) /\ post[m].waiting
    /\ post' = [post EXCEPT ![m].waiting = FALSE]
    /\ UNCHANGED <<blocked, scan, tellings, openings>>

ScanGoesOn(w) == ClaimMessage(w) \/ AnalyseMedia(w) \/ Decide(w) \/ ScheduleMediaRetry(w) \/ Escalate(w) \/ ReleaseClaim(w)

ScanSteps ==
    \/ \E w \in Scanners :
         \/ \E m \in Posts : ReadMessage(w, m)
         \/ ScanGoesOn(w) \/ DecisionFails(w) \/ StopScanner(w)
    \/ \E m \in Posts : TokenLapses(m) \/ BackoffEnds(m)

=============================================================================
