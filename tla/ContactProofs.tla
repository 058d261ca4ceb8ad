--------------------------- MODULE ContactProofs ---------------------------
(***************************************************************************)
(* Proofs about Contact, for any number of messages, processes and tries:  *)
(* a message with attachments is decided once, and a completed termination *)
(* of the voice room is that of a room that was dismissed, for good.       *)
(***************************************************************************)
EXTENDS Contact, TLAPS

PostStates == {"queued", "published", "pendingReview", "blocked"}
MediaStates == {"uploaded", "scanning", "approved", "blocked", "failed"}
Tries == 0..MaxRetries + 1

PostRows == [status : PostStates, token : SUBSET Scanners, stale : BOOLEAN, media : MediaStates,
             tries : Tries, waiting : BOOLEAN]

ScanRows == [step : {"read", "claimed", "unavailable", "release"} \cup Verdicts,
             post : Posts, tries : 0..MaxRetries, critical : BOOLEAN]

\* What is queued has been tried no more often than the limit, and neither the
\* other party nor the review department has heard of it.
UntoldWhileQueued ==
    \A m \in Posts : Queued(m) => post[m].tries <= MaxRetries /\ tellings[m] = 0 /\ openings[m] = 0

UntoldUnlessSent == \A m \in Posts : post[m] = NoPost => tellings[m] = 0 /\ openings[m] = 0

\* A process treats messages that have been sent.
ScansSent == \A w \in Scanners : scan[w] # NoScan => post[scan[w].post] # NoPost

ToldOnce == UntoldWhileQueued /\ UntoldUnlessSent /\ DecidedOnce

ChatInv == ChatTypeOK /\ ToldOnce /\ ScansSent

ChatTypes ==
    /\ post \in [Posts -> PostRows \cup {NoPost}]
    /\ blocked \in BOOLEAN
    /\ scan \in [Scanners -> ScanRows \cup {NoScan}]
    /\ tellings \in [Posts -> Nat] /\ openings \in [Posts -> Nat]

LEMMA PostTypes == (ChatTypeOK <=> ChatTypes) /\ (ChatTypeOK' <=> ChatTypes')
BY DEF ChatTypeOK, ChatTypes, PostRows, ScanRows, PostStates, MediaStates, Tries

LEMMA NoRows == NoPost \notin PostRows /\ NoPost.status = "none" /\ NoScan \notin ScanRows /\ NoScan.step = "idle"
<1>1. NoPost.status = "none" /\ NoScan.step = "idle"
    BY DEF NoPost, NoScan
<1>2. \A r \in PostRows : r.status # "none"
    BY DEF PostRows, PostStates
<1>3. \A r \in ScanRows : r.step # "idle"
    BY DEF ScanRows, Verdicts
<1> QED BY <1>1, <1>2, <1>3

LEMMA Starts == ASSUME ContactInit PROVE ChatInv
<1> USE DEF ContactInit, ChatInit
<1>1. ChatTypeOK
    BY PostTypes DEF ChatTypes
<1>2. ScansSent
    BY DEF ScansSent
<1>3. ToldOnce
    BY NoRows DEF ToldOnce, UntoldWhileQueued, UntoldUnlessSent, DecidedOnce, Queued
<1> QED BY <1>1, <1>2, <1>3 DEF ChatInv

\* A process that is at some step treats a message that has been sent.
LEMMA Scanned ==
    ASSUME ChatInv, NEW w \in Scanners, scan[w].step # "idle"
    PROVE  /\ scan[w] \in ScanRows /\ scan[w].post \in Posts
           /\ post[scan[w].post] \in PostRows
<1>1. scan[w] \in ScanRows
    BY PostTypes, NoRows DEF ChatInv, ChatTypes
<1>2. scan[w].post \in Posts
    BY <1>1 DEF ScanRows
<1>3. post[scan[w].post] # NoPost
    BY <1>1, NoRows DEF ChatInv, ScansSent
<1> QED BY <1>1, <1>2, <1>3, PostTypes DEF ChatInv, ChatTypes

LEMMA QueuedRow == ASSUME ChatInv, NEW m \in Posts, Queued(m) PROVE post[m] \in PostRows
BY PostTypes, NoRows DEF ChatInv, ChatTypes, Queued

\* The rows that a decision, an escalation and a retry make.
Closed(r, status, media, n) ==
    [r EXCEPT !.status = status, !.token = {}, !.stale = FALSE, !.media = media, !.tries = n, !.waiting = FALSE]

LEMMA ClosedRow ==
    ASSUME NEW r \in PostRows, NEW status \in PostStates,
           NEW media \in MediaStates, NEW n \in Tries
    PROVE  /\ Closed(r, status, media, n) \in PostRows
           /\ Closed(r, status, media, n).status = status
           /\ Closed(r, status, media, n).tries = n
<1>1. Closed(r, status, media, n) \in PostRows
    BY DEF PostRows, Closed
<1>2. Closed(r, status, media, n).status = status /\ Closed(r, status, media, n).tries = n
    BY DEF PostRows, Closed
<1> QED BY <1>1, <1>2

LEMMA RetriedRow ==
    ASSUME NEW r \in PostRows, NEW n \in Tries
    PROVE  LET row == [r EXCEPT !.media = "uploaded", !.tries = n, !.waiting = TRUE]
           IN row \in PostRows /\ row.status = r.status /\ row.tries = n
BY DEF PostRows, MediaStates

\* What the steps have in common: rows of messages stay rows, and only the
\* processes' own memory of what has been sent changes.
LEMMA SentStays ==
    ASSUME ChatInv, \A m \in Posts : post[m] # NoPost => post'[m] # NoPost,
           \A w \in Scanners : scan'[w] \in {scan[w], NoScan} \/ (scan'[w].post \in Posts /\ post[scan'[w].post] # NoPost)
    PROVE  ScansSent'
BY DEF ScansSent, ChatInv, ChatTypeOK

LEMMA MemoryKeeps ==
    ASSUME ChatInv, UNCHANGED <<post, tellings, openings>>, ChatTypeOK',
           \A w \in Scanners : scan'[w] \in {scan[w], NoScan} \/ (scan'[w].post \in Posts /\ post[scan'[w].post] # NoPost)
    PROVE  ChatInv'
<1>1. ScansSent'
    BY SentStays
<1>2. ToldOnce'
    BY DEF ChatInv, ToldOnce, UntoldWhileQueued, UntoldUnlessSent, DecidedOnce, Queued
<1> QED BY <1>1, <1>2 DEF ChatInv

\* Whatever a step makes of one message, the others are as they were.
LEMMA RowKeeps ==
    ASSUME ChatInv, NEW m \in Posts, NEW row \in PostRows,
           post' = [post EXCEPT ![m] = row],
           tellings' \in [Posts -> Nat], openings' \in [Posts -> Nat],
           \A n \in Posts \ {m} : tellings'[n] = tellings[n] /\ openings'[n] = openings[n],
           tellings'[m] + openings'[m] <= 1,
           row.status = "published" => tellings'[m] = 1,
           row.status = "queued" => row.tries <= MaxRetries /\ tellings'[m] = 0 /\ openings'[m] = 0,
           blocked' \in BOOLEAN, scan' \in [Scanners -> ScanRows \cup {NoScan}],
           \A w \in Scanners : scan'[w] \in {scan[w], NoScan} \/ (scan'[w].post \in Posts /\ post[scan'[w].post] # NoPost)
    PROVE  ChatInv'
<1>1. post \in [Posts -> PostRows \cup {NoPost}]
    BY PostTypes DEF ChatInv, ChatTypes
<1>2. post'[m] = row /\ \A n \in Posts \ {m} : post'[n] = post[n]
    BY <1>1
<1>3. ChatTypeOK'
    BY <1>1, PostTypes DEF ChatTypes
<1>4. ScansSent'
    BY <1>2, NoRows, SentStays
<1> USE DEF ChatInv, ToldOnce, UntoldWhileQueued, UntoldUnlessSent, DecidedOnce, Queued
<1>5. UntoldWhileQueued'
    BY <1>2
<1>6. UntoldUnlessSent'
    BY <1>2, NoRows
<1>7. DecidedOnce'
    BY <1>2
<1> QED BY <1>3, <1>4, <1>5, <1>6, <1>7

LEMMA SendKeeps == ASSUME ChatInv, NEW m \in Posts, SendMedia(m) PROVE ChatInv'
<1>1. PICK direct \in BOOLEAN :
        /\ post' = [post EXCEPT ![m] = [status |-> IF direct THEN "blocked" ELSE "queued", token |-> {},
                                        stale |-> FALSE, media |-> IF direct THEN "blocked" ELSE "scanning",
                                        tries |-> 0, waiting |-> FALSE]]
        /\ openings' = IF direct THEN [openings EXCEPT ![m] = @ + 1] ELSE openings
    BY DEF SendMedia
<1> DEFINE row == [status |-> IF direct THEN "blocked" ELSE "queued", token |-> {}, stale |-> FALSE,
                   media |-> IF direct THEN "blocked" ELSE "scanning", tries |-> 0, waiting |-> FALSE]
<1>2. row \in PostRows /\ row.tries <= MaxRetries /\ row.status = IF direct THEN "blocked" ELSE "queued"
    BY ChatAssumption DEF PostRows, PostStates, MediaStates, Tries
<1>3. post' = [post EXCEPT ![m] = row]
    BY <1>1
<1> HIDE DEF row
<1>4. tellings[m] = 0 /\ openings[m] = 0
    BY DEF SendMedia, ChatInv, ToldOnce, UntoldUnlessSent
<1>5. UNCHANGED <<blocked, scan, tellings>>
    BY DEF SendMedia
<1>6. /\ tellings \in [Posts -> Nat] /\ openings \in [Posts -> Nat]
      /\ blocked' \in BOOLEAN /\ scan' \in [Scanners -> ScanRows \cup {NoScan}]
    BY <1>5, PostTypes DEF ChatInv, ChatTypes
<1>7. tellings' \in [Posts -> Nat] /\ openings' \in [Posts -> Nat]
    BY <1>1, <1>5, <1>6
<1>8. \A n \in Posts \ {m} : tellings'[n] = tellings[n] /\ openings'[n] = openings[n]
    BY <1>1, <1>5, <1>6
<1>9. tellings'[m] = 0 /\ openings'[m] = IF direct THEN 1 ELSE 0
    BY <1>1, <1>4, <1>5, <1>6
<1>10. \A v \in Scanners : scan'[v] \in {scan[v], NoScan}
    BY <1>5
<1>11. /\ tellings'[m] + openings'[m] <= 1
       /\ row.status # "published"
       /\ row.status = "queued" => row.tries <= MaxRetries /\ tellings'[m] = 0 /\ openings'[m] = 0
    BY <1>2, <1>9
<1> QED BY <1>2, <1>3, <1>6, <1>7, <1>8, <1>10, <1>11, RowKeeps

LEMMA BlockKeeps == ASSUME ChatInv, SetConversationBlocked PROVE ChatInv'
BY PostTypes, MemoryKeeps DEF SetConversationBlocked, ChatInv, ChatTypes

LEMMA ReadKeeps == ASSUME ChatInv, NEW w \in Scanners, NEW m \in Posts, ReadMessage(w, m) PROVE ChatInv'
<1> DEFINE found == [step |-> "read", post |-> m, tries |-> post[m].tries, critical |-> FALSE]
<1>1. post[m].tries \in 0..MaxRetries
    BY QueuedRow DEF ReadMessage, PostRows, Tries, ChatInv, ToldOnce, UntoldWhileQueued
<1>2. found \in ScanRows
    BY <1>1 DEF ScanRows
<1>3. found.post = m
    OBVIOUS
<1>4. scan' = [scan EXCEPT ![w] = found] /\ UNCHANGED <<post, blocked, tellings, openings>>
    BY DEF ReadMessage
<1> HIDE DEF found
<1>5. ChatTypeOK'
    BY <1>2, <1>4, PostTypes DEF ChatInv, ChatTypes
<1>6. post[m] # NoPost
    BY NoRows DEF ReadMessage, Queued
<1>7. scan \in [Scanners -> ScanRows \cup {NoScan}]
    BY PostTypes DEF ChatInv, ChatTypes
<1> QED BY <1>3, <1>4, <1>5, <1>6, <1>7, MemoryKeeps

\* The process goes on with its message, or drops it.
LEMMA StepKeeps ==
    ASSUME ChatInv, NEW w \in Scanners, scan[w].step # "idle", NEW next,
           next = NoScan \/ (next \in ScanRows /\ next.post = scan[w].post),
           scan' = [scan EXCEPT ![w] = next]
    PROVE  /\ scan' \in [Scanners -> ScanRows \cup {NoScan}]
           /\ \A v \in Scanners : scan'[v] \in {scan[v], NoScan} \/ (scan'[v].post \in Posts /\ post[scan'[v].post] # NoPost)
<1>1. scan \in [Scanners -> ScanRows \cup {NoScan}]
    BY PostTypes DEF ChatInv, ChatTypes
<1>2. scan'[w] = next /\ \A v \in Scanners \ {w} : scan'[v] = scan[v]
    BY <1>1
<1> QED BY <1>1, <1>2, Scanned, NoRows

LEMMA MoveKeeps ==
    ASSUME ChatInv, NEW w \in Scanners, scan[w].step # "idle", NEW next,
           next = NoScan \/ (next \in ScanRows /\ next.post = scan[w].post),
           scan' = [scan EXCEPT ![w] = next], UNCHANGED <<post, blocked, tellings, openings>>
    PROVE  ChatInv'
<1>1. /\ scan' \in [Scanners -> ScanRows \cup {NoScan}]
      /\ \A v \in Scanners : scan'[v] \in {scan[v], NoScan} \/ (scan'[v].post \in Posts /\ post[scan'[v].post] # NoPost)
    BY StepKeeps
<1>2. ChatTypeOK'
    BY <1>1, PostTypes DEF ChatInv, ChatTypes
<1> QED BY <1>1, <1>2, MemoryKeeps

\* A change of a message that leaves its status, its count and what is known of it.
LEMMA TouchKeeps ==
    ASSUME ChatInv, NEW m \in Posts, NEW row \in PostRows, post[m] # NoPost,
           row.status = post[m].status, row.status = "queued" => row.tries <= MaxRetries,
           post' = [post EXCEPT ![m] = row], UNCHANGED <<tellings, openings>>,
           blocked' \in BOOLEAN, scan' \in [Scanners -> ScanRows \cup {NoScan}],
           \A w \in Scanners : scan'[w] \in {scan[w], NoScan} \/ (scan'[w].post \in Posts /\ post[scan'[w].post] # NoPost)
    PROVE  ChatInv'
<1>1. tellings \in [Posts -> Nat] /\ openings \in [Posts -> Nat]
    BY PostTypes DEF ChatInv, ChatTypes
<1>2. /\ tellings[m] + openings[m] <= 1
      /\ row.status = "published" => tellings[m] = 1
      /\ row.status = "queued" => tellings[m] = 0 /\ openings[m] = 0
    BY DEF ChatInv, ToldOnce, DecidedOnce, UntoldWhileQueued, Queued
<1> QED BY <1>1, <1>2, RowKeeps

LEMMA ClaimKeeps == ASSUME ChatInv, NEW w \in Scanners, ClaimMessage(w) PROVE ChatInv'
<1> DEFINE m == scan[w].post
           row == [post[m] EXCEPT !.token = {w}, !.stale = FALSE]
           next == [scan[w] EXCEPT !.step = "claimed"]
<1>1. scan[w].step # "idle" /\ UNCHANGED <<blocked, tellings, openings>>
    BY DEF ClaimMessage
<1>2. scan[w] \in ScanRows /\ m \in Posts /\ post[m] \in PostRows
    BY <1>1, Scanned
<1>3. row \in PostRows /\ row.status = post[m].status /\ row.tries = post[m].tries
    BY <1>2 DEF PostRows
<1>4. next \in ScanRows /\ next.post = m
    BY <1>2 DEF ScanRows
<1>5. CASE Claimable(m)
  <2>1. post' = [post EXCEPT ![m] = row] /\ scan' = [scan EXCEPT ![w] = next]
      BY <1>5 DEF ClaimMessage
  <2>2. row.status = "queued" => row.tries <= MaxRetries
      BY <1>2, <1>3 DEF ChatInv, ToldOnce, UntoldWhileQueued, Queued
  <2>3. blocked' \in BOOLEAN /\ post[m] # NoPost
      BY <1>1, <1>2, NoRows, PostTypes DEF ChatInv, ChatTypes
  <2> HIDE DEF row, next
  <2>4. /\ scan' \in [Scanners -> ScanRows \cup {NoScan}]
        /\ \A v \in Scanners : scan'[v] \in {scan[v], NoScan} \/ (scan'[v].post \in Posts /\ post[scan'[v].post] # NoPost)
      BY <1>1, <1>4, <2>1, StepKeeps
  <2> QED BY <1>1, <1>2, <1>3, <2>1, <2>2, <2>3, <2>4, TouchKeeps
<1>6. CASE ~Claimable(m)
    BY <1>1, <1>6, MoveKeeps DEF ClaimMessage
<1> QED BY <1>5, <1>6

LEMMA AnalyseKeeps == ASSUME ChatInv, NEW w \in Scanners, AnalyseMedia(w) PROVE ChatInv'
<1>1. scan[w].step # "idle" /\ UNCHANGED <<post, blocked, tellings, openings>>
    BY DEF AnalyseMedia
<1>2. scan[w] \in ScanRows
    BY <1>1, Scanned
<1>3. \E next \in ScanRows : next.post = scan[w].post /\ scan' = [scan EXCEPT ![w] = next]
  <2>1. CASE scan' = [scan EXCEPT ![w].step = "unavailable"]
      BY <1>2, <2>1 DEF ScanRows
  <2>2. ASSUME NEW verdict \in Verdicts, NEW critical \in BOOLEAN,
               scan' = [scan EXCEPT ![w].step = verdict, ![w].critical = critical]
        PROVE  \E next \in ScanRows : next.post = scan[w].post /\ scan' = [scan EXCEPT ![w] = next]
    <3> DEFINE next == [scan[w] EXCEPT !.step = verdict, !.critical = critical]
    <3>1. next \in ScanRows /\ next.post = scan[w].post
        BY <1>2 DEF ScanRows
    <3>2. scan' = [scan EXCEPT ![w] = next]
        BY <2>2
    <3> QED BY <3>1, <3>2
  <2> QED BY <2>1, <2>2 DEF AnalyseMedia
<1> QED BY <1>1, <1>3, MoveKeeps

LEMMA DecisionFailsKeeps == ASSUME ChatInv, NEW w \in Scanners, DecisionFails(w) PROVE ChatInv'
<1> DEFINE next == [scan[w] EXCEPT !.step = IF scan[w].critical THEN "release" ELSE "unavailable"]
<1>1. scan[w].step # "idle"
    BY DEF DecisionFails, Verdicts
<1>2. next \in ScanRows /\ next.post = scan[w].post
    BY <1>1, Scanned DEF ScanRows
<1>3. scan' = [scan EXCEPT ![w] = next] /\ UNCHANGED <<post, blocked, tellings, openings>>
    BY DEF DecisionFails
<1> HIDE DEF next
<1> QED BY <1>1, <1>2, <1>3, MoveKeeps

LEMMA StopKeeps == ASSUME ChatInv, NEW w \in Scanners, StopScanner(w) PROVE ChatInv'
BY MoveKeeps DEF StopScanner

LEMMA LapseKeeps == ASSUME ChatInv, NEW m \in Posts, TokenLapses(m) \/ BackoffEnds(m) PROVE ChatInv'
<1>1. Queued(m) /\ UNCHANGED <<blocked, scan, tellings, openings>>
    BY DEF TokenLapses, BackoffEnds
<1>2. post[m] \in PostRows
    BY <1>1, QueuedRow
<1>3. \E row \in PostRows : /\ row.status = post[m].status /\ row.tries = post[m].tries
                            /\ post' = [post EXCEPT ![m] = row]
  <2> DEFINE stale == [post[m] EXCEPT !.stale = TRUE]
             ready == [post[m] EXCEPT !.waiting = FALSE]
  <2>1. stale \in PostRows /\ stale.status = post[m].status /\ stale.tries = post[m].tries
      BY <1>2 DEF PostRows
  <2>2. ready \in PostRows /\ ready.status = post[m].status /\ ready.tries = post[m].tries
      BY <1>2 DEF PostRows
  <2>3. post' \in {[post EXCEPT ![m] = stale], [post EXCEPT ![m] = ready]}
      BY DEF TokenLapses, BackoffEnds
  <2> QED BY <2>1, <2>2, <2>3
<1>4. post[m].tries <= MaxRetries
    BY <1>1 DEF ChatInv, ToldOnce, UntoldWhileQueued
<1>5. blocked' \in BOOLEAN /\ scan' \in [Scanners -> ScanRows \cup {NoScan}] /\ post[m] # NoPost
    BY <1>1, <1>2, NoRows, PostTypes DEF ChatInv, ChatTypes
<1>6. \A v \in Scanners : scan'[v] \in {scan[v], NoScan}
    BY <1>1
<1> QED BY <1>1, <1>3, <1>4, <1>5, <1>6, TouchKeeps

LEMMA RetryKeeps == ASSUME ChatInv, NEW w \in Scanners, ScheduleMediaRetry(w) PROVE ChatInv'
<1> DEFINE m == scan[w].post
           row == [post[m] EXCEPT !.media = "uploaded", !.tries = scan[w].tries + 1, !.waiting = TRUE]
           next == [scan[w] EXCEPT !.step = "release"]
<1>1. scan[w].step # "idle" /\ scan[w].tries < MaxRetries /\ UNCHANGED <<blocked, tellings, openings>>
    BY DEF ScheduleMediaRetry
<1>2. scan[w] \in ScanRows /\ m \in Posts /\ post[m] \in PostRows
    BY <1>1, Scanned
<1>3. scan[w].tries + 1 \in 0..MaxRetries
    BY <1>1, <1>2, ChatAssumption DEF ScanRows
<1>4. row \in PostRows /\ row.status = post[m].status /\ row.tries <= MaxRetries
  <2>1. scan[w].tries + 1 \in Tries /\ scan[w].tries + 1 <= MaxRetries
      BY <1>3, ChatAssumption DEF Tries
  <2> QED BY <1>2, <2>1, RetriedRow
<1>5. next \in ScanRows /\ next.post = m
    BY <1>2 DEF ScanRows
<1>6. post' = [post EXCEPT ![m] = row] /\ scan' = [scan EXCEPT ![w] = next]
    BY DEF ScheduleMediaRetry
<1>7. blocked' \in BOOLEAN /\ post[m] # NoPost
    BY <1>1, <1>2, NoRows, PostTypes DEF ChatInv, ChatTypes
<1> HIDE DEF row, next
<1>8. /\ scan' \in [Scanners -> ScanRows \cup {NoScan}]
      /\ \A v \in Scanners : scan'[v] \in {scan[v], NoScan} \/ (scan'[v].post \in Posts /\ post[scan'[v].post] # NoPost)
    BY <1>1, <1>5, <1>6, StepKeeps
<1> QED BY <1>1, <1>2, <1>4, <1>6, <1>7, <1>8, TouchKeeps

LEMMA ReleaseKeeps == ASSUME ChatInv, NEW w \in Scanners, ReleaseClaim(w) PROVE ChatInv'
<1> DEFINE m == scan[w].post
           row == [post[m] EXCEPT !.token = {}, !.stale = FALSE]
<1>1. scan[w].step # "idle" /\ scan' = [scan EXCEPT ![w] = NoScan] /\ UNCHANGED <<blocked, tellings, openings>>
    BY DEF ReleaseClaim
<1>2. scan[w] \in ScanRows /\ m \in Posts /\ post[m] \in PostRows
    BY <1>1, Scanned
<1>3. row \in PostRows /\ row.status = post[m].status /\ row.tries = post[m].tries
    BY <1>2 DEF PostRows
<1>4. CASE Holder(w, m)
  <2>1. post' = [post EXCEPT ![m] = row]
      BY <1>4 DEF ReleaseClaim
  <2>2. post[m].tries <= MaxRetries
      BY <1>2, <1>4 DEF Holder, ChatInv, ToldOnce, UntoldWhileQueued
  <2>3. blocked' \in BOOLEAN /\ post[m] # NoPost
      BY <1>1, <1>2, NoRows, PostTypes DEF ChatInv, ChatTypes
  <2> HIDE DEF row
  <2>4. /\ scan' \in [Scanners -> ScanRows \cup {NoScan}]
        /\ \A v \in Scanners : scan'[v] \in {scan[v], NoScan} \/ (scan'[v].post \in Posts /\ post[scan'[v].post] # NoPost)
      BY <1>1, StepKeeps
  <2> QED BY <1>1, <1>2, <1>3, <2>1, <2>2, <2>3, <2>4, TouchKeeps
<1>5. CASE ~Holder(w, m)
    BY <1>1, <1>5, MoveKeeps DEF ReleaseClaim
<1> QED BY <1>4, <1>5

\* The decision of a message, if it is still queued and carries the process's token.
LEMMA DecideKeeps == ASSUME ChatInv, NEW w \in Scanners, Decide(w) PROVE ChatInv'
<1> DEFINE m == scan[w].post
           verdict == scan[w].step
           media == IF verdict = "block" THEN "blocked" ELSE "approved"
           row == Closed(post[m], StatusFor(verdict), media, 0)
<1>1. verdict \in Verdicts /\ verdict # "idle" /\ scan' = [scan EXCEPT ![w] = NoScan] /\ UNCHANGED blocked
    BY DEF Decide, Verdicts
<1>2. scan[w] \in ScanRows /\ m \in Posts /\ post[m] \in PostRows
    BY <1>1, Scanned
<1>3. /\ scan' \in [Scanners -> ScanRows \cup {NoScan}]
      /\ \A v \in Scanners : scan'[v] \in {scan[v], NoScan} \/ (scan'[v].post \in Posts /\ post[scan'[v].post] # NoPost)
    BY <1>1, StepKeeps
<1>4. CASE Holder(w, m)
  <2>1. tellings[m] = 0 /\ openings[m] = 0
      BY <1>2, <1>4 DEF Holder, ChatInv, ToldOnce, UntoldWhileQueued
  <2>2. /\ StatusFor(verdict) \in {"blocked", "published", "pendingReview"}
        /\ StatusFor(verdict) = "published" => verdict = "allow"
      BY <1>1 DEF StatusFor, Verdicts
  <2>3. row \in PostRows /\ row.status = StatusFor(verdict)
    <3>1. StatusFor(verdict) \in PostStates /\ media \in MediaStates /\ 0 \in Tries
        BY <2>2, ChatAssumption DEF PostStates, MediaStates, Tries
    <3> HIDE DEF media
    <3> QED BY <1>2, <3>1, ClosedRow
  <2>4. post' = [post EXCEPT ![m] = row]
      BY <1>4 DEF Decide, Closed
  <2>5. tellings \in [Posts -> Nat] /\ openings \in [Posts -> Nat] /\ blocked' \in BOOLEAN
      BY <1>1, PostTypes DEF ChatInv, ChatTypes
  <2>6. /\ tellings' \in [Posts -> Nat] /\ openings' \in [Posts -> Nat]
        /\ \A n \in Posts \ {m} : tellings'[n] = tellings[n] /\ openings'[n] = openings[n]
    <3>1. /\ openings' = openings \/ openings' = [openings EXCEPT ![m] = @ + 1]
          /\ tellings' = tellings \/ tellings' = [tellings EXCEPT ![m] = @ + 1]
        BY <1>4 DEF Decide
    <3> QED BY <1>2, <2>5, <3>1
  <2>7. /\ tellings'[m] = IF StatusFor(verdict) = "published" THEN 1 ELSE 0
        /\ openings'[m] = IF verdict # "allow" THEN 1 ELSE 0
    <3>1. /\ openings' = IF verdict # "allow" THEN [openings EXCEPT ![m] = @ + 1] ELSE openings
          /\ tellings' = IF StatusFor(verdict) = "published" THEN [tellings EXCEPT ![m] = @ + 1] ELSE tellings
        BY <1>4 DEF Decide
    <3> QED BY <1>2, <2>1, <2>5, <3>1
  <2> HIDE DEF row
  <2>8. tellings'[m] + openings'[m] <= 1
      BY <2>2, <2>7
  <2> QED BY <1>2, <1>3, <2>2, <2>3, <2>4, <2>5, <2>6, <2>7, <2>8, RowKeeps
<1>5. CASE ~Holder(w, m)
  <2>1. UNCHANGED <<post, tellings, openings>>
      BY <1>5 DEF Decide
  <2> QED BY <1>1, <2>1, MoveKeeps
<1> QED BY <1>4, <1>5

LEMMA EscalateKeeps == ASSUME ChatInv, NEW w \in Scanners, Escalate(w) PROVE ChatInv'
<1> DEFINE m == scan[w].post
           row == Closed(post[m], "pendingReview", "failed", MaxRetries + 1)
<1>1. scan[w].step # "idle" /\ scan' = [scan EXCEPT ![w] = NoScan] /\ UNCHANGED <<blocked, tellings>>
    BY DEF Escalate
<1>2. scan[w] \in ScanRows /\ m \in Posts /\ post[m] \in PostRows
    BY <1>1, Scanned
<1>3. /\ scan' \in [Scanners -> ScanRows \cup {NoScan}]
      /\ \A v \in Scanners : scan'[v] \in {scan[v], NoScan} \/ (scan'[v].post \in Posts /\ post[scan'[v].post] # NoPost)
    BY <1>1, StepKeeps
<1>4. CASE Holder(w, m)
  <2>1. tellings[m] = 0 /\ openings[m] = 0
      BY <1>2, <1>4 DEF Holder, ChatInv, ToldOnce, UntoldWhileQueued
  <2>2. row \in PostRows /\ row.status = "pendingReview"
    <3>1. "pendingReview" \in PostStates /\ "failed" \in MediaStates /\ MaxRetries + 1 \in Tries
        BY ChatAssumption DEF PostStates, MediaStates, Tries
    <3> QED BY <1>2, <3>1, ClosedRow
  <2>3. post' = [post EXCEPT ![m] = row]
      BY <1>4 DEF Escalate, Closed
  <2>4. tellings \in [Posts -> Nat] /\ openings \in [Posts -> Nat] /\ blocked' \in BOOLEAN
      BY <1>1, PostTypes DEF ChatInv, ChatTypes
  <2>5. /\ tellings' \in [Posts -> Nat] /\ openings' \in [Posts -> Nat]
        /\ \A n \in Posts \ {m} : tellings'[n] = tellings[n] /\ openings'[n] = openings[n]
    <3>1. openings' = [openings EXCEPT ![m] = @ + 1]
        BY <1>4 DEF Escalate
    <3> QED BY <1>1, <1>2, <2>4, <3>1
  <2>6. tellings'[m] = 0 /\ openings'[m] = 1
    <3>1. openings' = [openings EXCEPT ![m] = @ + 1]
        BY <1>4 DEF Escalate
    <3> QED BY <1>1, <1>2, <2>1, <2>4, <3>1
  <2>7. /\ tellings'[m] + openings'[m] <= 1
        /\ row.status # "published" /\ row.status # "queued"
      BY <2>2, <2>6
  <2> HIDE DEF row
  <2> QED BY <1>2, <1>3, <2>2, <2>3, <2>4, <2>5, <2>7, RowKeeps
<1>5. CASE ~Holder(w, m)
  <2>1. UNCHANGED <<post, openings>>
      BY <1>5 DEF Escalate
  <2> QED BY <1>1, <2>1, MoveKeeps
<1> QED BY <1>4, <1>5

LEMMA ScanKeeps == ASSUME ChatInv, ScanSteps PROVE ChatInv'
BY ReadKeeps, ClaimKeeps, AnalyseKeeps, DecideKeeps, DecisionFailsKeeps, RetryKeeps, EscalateKeeps,
   ReleaseKeeps, StopKeeps, LapseKeeps DEF ScanSteps, ScanGoesOn

LEMMA StutterKeeps == ASSUME ChatInv, UNCHANGED chatVars PROVE ChatInv'
<1>1. ChatTypeOK'
    BY PostTypes DEF ChatInv, ChatTypes, chatVars
<1> QED BY <1>1, MemoryKeeps DEF chatVars

LEMMA NextKeepsChat == ASSUME ChatInv, [Next]_vars PROVE ChatInv'
<1>1. CASE ByMessage
    BY <1>1, SendKeeps, BlockKeeps, ScanKeeps DEF ByMessage
<1>2. CASE UNCHANGED chatVars
    BY <1>2, StutterKeeps
<1> QED BY <1>1, <1>2 DEF Next, ByOrder, ByVoice, vars

-----------------------------------------------------------------------------
(* The voice room. *)

Engaged == {"claimed", "calling", "dismissed", "refused"}

\* A process that is at a dismissal has found a session.
EngagedHaveSession == \A w \in Controllers : control[w] \in Engaged => session # None

\* TRTC has answered before a process goes to record it.
AnsweredWasDismissed == \A w \in Controllers : control[w] = "dismissed" => cut # "no"

\* A completed termination has given up its lease and waits for no retry.
CompletedIsAtRest == session # None /\ session.completed => ~session.live /\ ~session.waiting

RoomInv ==
    /\ RoomTypeOK
    /\ EngagedHaveSession /\ AnsweredWasDismissed /\ CompletedIsAtRest /\ CompletedWasDismissed

LEMMA NewSessionRow == NewSession \in Sessions /\ ~NewSession.completed /\ NewSession # None
<1>1. NewSession \in Sessions /\ ~NewSession.completed
    BY DEF NewSession, Sessions
<1> QED BY <1>1, RoomAssumption

LEMMA ClaimedRow ==
    ASSUME NEW w \in Controllers, NEW urgent \in BOOLEAN
    PROVE  Claimed(w, urgent) \in Sessions /\ ~Claimed(w, urgent).completed /\ Claimed(w, urgent) # None
<1>1. Claimed(w, urgent) \in Sessions /\ ~Claimed(w, urgent).completed
    BY NewSessionRow DEF Claimed, NewSession, Sessions
<1> QED BY <1>1, RoomAssumption

LEMMA RoomStarts == ASSUME RoomInit PROVE RoomInv
BY DEF RoomInit, RoomInv, RoomTypeOK, EngagedHaveSession, AnsweredWasDismissed, CompletedIsAtRest,
       CompletedWasDismissed, Engaged, Steps

Leases == [by : Controllers, live : BOOLEAN]

LEMMA LeaseRow ==
    ASSUME RoomInv, NEW w \in Controllers
    PROVE  dispatch \in Leases \cup {None} /\ [by |-> w, live |-> TRUE] \in Leases
<1>1. dispatch \in Leases \cup {None}
    BY DEF RoomInv, RoomTypeOK, Leases
<1>2. [by |-> w, live |-> TRUE] \in Leases
    BY DEF Leases
<1> QED BY <1>1, <1>2

\* What every step of the room leaves to be said: the session's row, the cut that is
\* never forgotten, and the process that moves.
LEMMA ControlKeeps ==
    ASSUME RoomInv, NEW w \in Controllers, NEW step \in Steps, RoomTypeOK',
           control' = control \/ control' = [control EXCEPT ![w] = step],
           cut # "no" => cut' # "no",
           session # None => session' # None,
           control' # control /\ step \in Engaged => session' # None,
           control' # control /\ step = "dismissed" => cut' # "no",
           session' # None /\ session'.completed
               => ((session # None /\ session.completed) \/ cut' # "no") /\ ~session'.live /\ ~session'.waiting
    PROVE  RoomInv'
<1> USE DEF RoomInv
<1>1. control \in [Controllers -> Steps]
    BY DEF RoomTypeOK
<1>2. \A v \in Controllers : control'[v] = control[v] \/ (control' # control /\ control'[v] = step)
    BY <1>1
<1>3. EngagedHaveSession'
    BY <1>2 DEF EngagedHaveSession
<1>4. AnsweredWasDismissed'
    BY <1>2 DEF AnsweredWasDismissed
<1>5. CompletedIsAtRest' /\ CompletedWasDismissed'
    BY DEF CompletedIsAtRest, CompletedWasDismissed
<1> QED BY <1>3, <1>4, <1>5

\* Steps that leave the row of the session alone.
LEMMA RoomOfOrderKeeps == ASSUME RoomInv, OrderSteps PROVE RoomInv'
<1> USE DEF OrderSteps, StartService, CompleteService, RequestRefund, RejectRefund, RefundSucceeds, TimePasses,
            Told, controlVars, RoomInv, RoomTypeOK
<1>1. session' = session /\ cut' = cut
    OBVIOUS
<1>2. control' = control \/ \E w \in Controllers : control' = [control EXCEPT ![w] = "told"]
    BY DEF Goto
<1>3. "told" \in Steps /\ "told" \notin Engaged
    BY DEF Steps, Engaged
<1>4. RoomTypeOK'
  <2>1. /\ order' \in {"paid", "inService", "completed", "refunded"} /\ phase' \in {"open", "over", "closed"}
        /\ refund' \in {"none", "open", "success"} /\ access' \in BOOLEAN
      OBVIOUS
  <2>2. UNCHANGED <<emergency, session, room, cut, dispatch>>
      OBVIOUS
  <2>3. control' \in [Controllers -> Steps]
      BY <1>2, <1>3 DEF RoomInv, RoomTypeOK
  <2> HIDE DEF OrderSteps
  <2> QED BY <2>1, <2>2, <2>3
<1>5. CASE control' = control
  <2>1. CompletedIsAtRest' /\ CompletedWasDismissed' /\ EngagedHaveSession' /\ AnsweredWasDismissed'
      BY <1>1, <1>5 DEF CompletedIsAtRest, CompletedWasDismissed, EngagedHaveSession, AnsweredWasDismissed
  <2> QED BY <1>4, <2>1
<1>6. CASE \E w \in Controllers : control' = [control EXCEPT ![w] = "told"]
  <2>1. PICK w \in Controllers : control' = [control EXCEPT ![w] = "told"]
      BY <1>6
  <2>2. session' # None /\ session'.completed => session # None /\ session.completed /\ ~session'.live /\ ~session'.waiting
      BY <1>1 DEF CompletedIsAtRest
  <2> HIDE DEF OrderSteps, RoomInv, RoomTypeOK
  <2> QED BY <1>1, <1>3, <1>4, <2>1, <2>2, ControlKeeps
<1> QED BY <1>2, <1>5, <1>6

\* A step of one process that may dismiss the room and touches no row of the session.
LEMMA CallKeeps ==
    ASSUME RoomInv, NEW w \in Controllers,
           AcquireDispatchLease(w) \/ DismissRoom(w) \/ DismissFails(w) \/ ReleaseDispatchLease(w) \/ CrashControl(w)
    PROVE  RoomInv'
<1> USE DEF AcquireDispatchLease, DismissRoom, DismissFails, ReleaseDispatchLease, CrashControl, Goto, serviceVars
<1>1. /\ UNCHANGED <<order, phase, refund, emergency, access, session>>
      /\ control \in [Controllers -> Steps] /\ cut \in {"no", "cut", "back"}
    BY DEF RoomInv, RoomTypeOK
<1>2. PICK step \in Steps : control' = [control EXCEPT ![w] = step]
    BY DEF Steps
<1>3. control'[w] = step
    BY <1>1, <1>2
<1>4. step \in Engaged => control[w] \in Engaged
    BY <1>1, <1>3 DEF Engaged
<1>5. /\ cut' \in {"no", "cut", "back"} /\ (cut # "no" => cut' # "no")
      /\ step = "dismissed" => cut' # "no"
      /\ room' = room \/ room' = "absent"
    BY <1>1, <1>3
<1>6. dispatch' = dispatch \/ dispatch' = None \/ dispatch' = [by |-> w, live |-> TRUE]
    OBVIOUS
<1>7. RoomTypeOK'
  <2>1. room' \in {"absent", "live"}
      BY <1>5 DEF RoomInv, RoomTypeOK
  <2>2. dispatch' \in Leases \cup {None}
      BY <1>6, LeaseRow
  <2> QED BY <1>1, <1>2, <1>5, <2>1, <2>2 DEF RoomInv, RoomTypeOK, Leases
<1>8. step \in Engaged => session' # None
    BY <1>1, <1>4 DEF RoomInv, EngagedHaveSession
<1>9. session' # None /\ session'.completed => session # None /\ session.completed /\ ~session'.live /\ ~session'.waiting
    BY <1>1 DEF RoomInv, CompletedIsAtRest
<1> QED BY <1>1, <1>2, <1>5, <1>7, <1>8, <1>9, ControlKeeps

\* The rows a step may write are typed, and none of them is a completed one unless
\* the room has been dismissed.
LEMMA RowOfSession ==
    ASSUME RoomInv, session # None
    PROVE  session \in Sessions /\ session = [completed |-> session.completed, lease |-> session.lease,
                live |-> session.live, waiting |-> session.waiting, urgent |-> session.urgent]
BY DEF RoomInv, RoomTypeOK, Sessions

LEMMA ClaimRoomKeeps ==
    ASSUME RoomInv, NEW w \in Controllers, ClaimOrderTermination(w) \/ ClaimDueTerminations(w)
    PROVE  RoomInv'
<1> USE DEF ClaimOrderTermination, ClaimDueTerminations, Goto, serviceVars
<1>1. /\ UNCHANGED <<order, phase, refund, emergency, access, room, cut>>
      /\ control \in [Controllers -> Steps] /\ emergency \in BOOLEAN
    BY DEF RoomInv, RoomTypeOK
<1>2. dispatch' \in Leases \cup {None}
  <2>1. dispatch' = dispatch \/ dispatch' = [by |-> w, live |-> TRUE]
      OBVIOUS
  <2> QED BY <2>1, LeaseRow
<1>3. CASE UNCHANGED session
  <2>1. PICK step \in Steps : control' = [control EXCEPT ![w] = step] /\ (step \in Engaged => session # None) /\ step # "dismissed"
      BY <1>3 DEF Steps, Engaged, Due
  <2>2. RoomTypeOK'
      BY <1>1, <1>2, <1>3, <2>1 DEF RoomInv, RoomTypeOK, Leases
  <2>3. session' # None /\ session'.completed => session # None /\ session.completed /\ ~session'.live /\ ~session'.waiting
      BY <1>3 DEF RoomInv, CompletedIsAtRest
  <2> QED BY <1>1, <1>3, <2>1, <2>2, <2>3, ControlKeeps
<1>4. CASE \E urgent \in BOOLEAN : session' = Claimed(w, urgent)
  <2>1. session' \in Sessions /\ ~session'.completed /\ session' # None
      BY <1>4, ClaimedRow
  <2>2. PICK step \in Steps : control' = [control EXCEPT ![w] = step] /\ step # "dismissed"
      BY DEF Steps
  <2>3. RoomTypeOK'
      BY <1>1, <1>2, <2>1, <2>2 DEF RoomInv, RoomTypeOK, Leases
  <2> QED BY <1>1, <2>1, <2>2, <2>3, ControlKeeps
<1> QED BY <1>1, <1>3, <1>4

LEMMA SettleKeeps ==
    ASSUME RoomInv, NEW w \in Controllers, Settle(w) \/ ScheduleRetry(w)
    PROVE  RoomInv'
<1> USE DEF Settle, ScheduleRetry, Goto, serviceVars
<1>1. /\ UNCHANGED <<order, phase, refund, emergency, access, room, cut, dispatch>>
      /\ control \in [Controllers -> Steps] /\ control' = [control EXCEPT ![w] = "done"]
    BY DEF RoomInv, RoomTypeOK
<1>2. "done" \in Steps /\ "done" \notin Engaged
    BY DEF Steps, Engaged
<1>3. session # None
    BY DEF RoomInv, EngagedHaveSession, Engaged
<1>4. CASE UNCHANGED session
  <2>1. RoomTypeOK'
      BY <1>1, <1>2, <1>4 DEF RoomInv, RoomTypeOK
  <2>2. session'.completed => session.completed /\ ~session'.live /\ ~session'.waiting
      BY <1>3, <1>4 DEF RoomInv, CompletedIsAtRest
  <2> QED BY <1>1, <1>2, <1>3, <1>4, <2>1, <2>2, ControlKeeps
<1>5. CASE ~UNCHANGED session
  <2>1. session.urgent \in BOOLEAN
      BY <1>3, RowOfSession DEF Sessions
  <2>2. /\ session' \in Sessions /\ ~session'.live
        /\ session'.completed => control[w] = "dismissed" /\ ~session'.waiting
      BY <1>5, <2>1 DEF NewSession, Sessions
  <2>3. session' # None
      BY <2>2, RoomAssumption
  <2>4. RoomTypeOK'
      BY <1>1, <1>2, <2>2 DEF RoomInv, RoomTypeOK
  <2>5. session'.completed => cut' # "no"
      BY <1>1, <2>2 DEF RoomInv, AnsweredWasDismissed
  <2> QED BY <1>1, <1>2, <2>2, <2>3, <2>4, <2>5, ControlKeeps
<1> QED BY <1>4, <1>5

\* Steps that move no process: the room fills and empties, credentials and leases end.
LEMMA StillKeeps ==
    ASSUME RoomInv, UNCHANGED control, cut' \in {"no", "cut", "back"}, cut # "no" => cut' # "no", RoomTypeOK',
           session # None => session' # None,
           session' # None /\ session'.completed
               => session # None /\ session.completed /\ (session'.live => session.live) /\ (session'.waiting => session.waiting)
    PROVE  RoomInv'
BY DEF RoomInv, EngagedHaveSession, AnsweredWasDismissed, CompletedIsAtRest, CompletedWasDismissed

LEMMA RoomItselfKeeps ==
    ASSUME RoomInv, IssueRoomAccess \/ AccessExpires \/ Enter \/ LeaveRoom \/ SwitchEmergency
    PROVE  RoomInv'
<1> USE DEF IssueRoomAccess, AccessExpires, Enter, LeaveRoom, SwitchEmergency, serviceVars, controlVars
<1>1. UNCHANGED <<order, phase, refund, control, dispatch>>
    OBVIOUS
<1>2. /\ access' \in BOOLEAN /\ emergency' \in BOOLEAN /\ room' \in {"absent", "live"}
      /\ cut' \in {"no", "cut", "back"} /\ (cut # "no" => cut' # "no")
    BY DEF RoomInv, RoomTypeOK
<1>3. UNCHANGED session \/ (session = None /\ session' = NewSession)
    OBVIOUS
<1>4. RoomTypeOK'
    BY <1>1, <1>2, <1>3, NewSessionRow DEF RoomInv, RoomTypeOK
<1> QED BY <1>1, <1>2, <1>3, <1>4, NewSessionRow, StillKeeps

LEMMA ClocksKeep == ASSUME RoomInv, LeaseLapses \/ DispatchLapses \/ RetryIsDue PROVE RoomInv'
<1> USE DEF LeaseLapses, DispatchLapses, RetryIsDue, serviceVars
<1>1. UNCHANGED <<order, phase, refund, emergency, access, room, cut, control>>
    OBVIOUS
<1>2. CASE DispatchLapses
  <2>1. dispatch' \in [by : Controllers, live : BOOLEAN] /\ UNCHANGED session
      BY <1>2 DEF RoomInv, RoomTypeOK
  <2>2. RoomTypeOK'
      BY <1>1, <2>1 DEF RoomInv, RoomTypeOK
  <2> QED BY <1>1, <2>1, <2>2, StillKeeps DEF RoomInv, RoomTypeOK
<1>3. CASE LeaseLapses \/ RetryIsDue
  <2>1. session # None /\ session \in Sessions
      BY <1>3, RowOfSession
  <2>2. /\ session' \in Sessions /\ session'.completed = session.completed
        /\ (session'.live => session.live) /\ (session'.waiting => session.waiting)
      BY <1>3, <2>1 DEF Sessions
  <2>3. session' # None
      BY <2>2, RoomAssumption
  <2>4. UNCHANGED dispatch
      BY <1>3
  <2>5. RoomTypeOK'
      BY <1>1, <2>2, <2>4 DEF RoomInv, RoomTypeOK
  <2>6. cut' \in {"no", "cut", "back"}
      BY <1>1 DEF RoomInv, RoomTypeOK
  <2> QED BY <1>1, <2>1, <2>2, <2>3, <2>5, <2>6, StillKeeps
<1> QED BY <1>2, <1>3

LEMMA RoomKeeps == ASSUME RoomInv, RoomSteps PROVE RoomInv'
BY RoomItselfKeeps, ClocksKeep, CallKeeps, ClaimRoomKeeps, SettleKeeps DEF RoomSteps, ControlSteps, RunsOn

LEMMA NextKeepsRoom == ASSUME RoomInv, [Next]_vars PROVE RoomInv'
<1>1. CASE ByOrder
    BY <1>1, RoomOfOrderKeeps DEF ByOrder
<1>2. CASE ByVoice
    BY <1>2, RoomKeeps DEF ByVoice
<1>3. CASE UNCHANGED roomVars
  <2>1. RoomTypeOK' /\ EngagedHaveSession' /\ AnsweredWasDismissed' /\ CompletedIsAtRest' /\ CompletedWasDismissed'
      BY <1>3 DEF roomVars, serviceVars, controlVars, RoomInv, RoomTypeOK, EngagedHaveSession,
                  AnsweredWasDismissed, CompletedIsAtRest, CompletedWasDismissed
  <2> QED BY <2>1 DEF RoomInv
<1> QED BY <1>1, <1>2, <1>3 DEF Next, ByMessage, vars

-----------------------------------------------------------------------------
(* Theorems. *)

THEOREM InvariantHolds == Spec => [](ChatInv /\ RoomInv /\ agenda \in Agendas)
<1>1. ContactInit => ChatInv /\ RoomInv /\ agenda \in Agendas
    BY Starts, RoomStarts DEF ContactInit
<1>2. ChatInv /\ RoomInv /\ agenda \in Agendas /\ [Next]_vars => (ChatInv /\ RoomInv /\ agenda \in Agendas)'
    BY NextKeepsChat, NextKeepsRoom DEF Next, ByOrder, ByVoice, ByMessage, vars
<1> QED BY <1>1, <1>2, PTL DEF Spec

\* Every variable keeps its type, the room's and the conversation's.
THEOREM TypeCorrect == Spec => []ContactTypeOK
<1>1. ChatInv /\ RoomInv /\ agenda \in Agendas => ContactTypeOK
    BY DEF ChatInv, RoomInv, ContactTypeOK
<1> QED BY <1>1, InvariantHolds, PTL

\* DecidedOnce holds for any number of messages, of processes that read, lose and
\* repeat them, and of tries (media-moderation.worker.ts): a process decides only
\* what is queued under its token, and a decision takes the message out of the queue.
THEOREM DecidedOnceAlways == Spec => []DecidedOnce
<1>1. ChatInv => DecidedOnce
    BY DEF ChatInv, ToldOnce
<1> QED BY <1>1, InvariantHolds, PTL

\* CompletedWasDismissed holds however many processes dismiss the room, stop and lose
\* their leases (voice-room-control.service.ts): only an answer leads to the record.
THEOREM CompletedWasDismissedAlways == Spec => []CompletedWasDismissed
<1>1. RoomInv => CompletedWasDismissed
    BY DEF RoomInv
<1> QED BY <1>1, InvariantHolds, PTL

\* CompletedForGood: whoever writes to the row, a claim, a late answer or a late
\* failure, finds it no longer his when it is completed, and no lease or retry is
\* left on it that could end (voice-room-control.service.ts).
THEOREM CompletedForGoodAlways == Spec => CompletedForGood
<1>1. RoomInv /\ [Next]_vars => [session # None /\ session.completed => session' = session]_vars
  <2> SUFFICES ASSUME RoomInv, [Next]_vars, session # None, session.completed PROVE session' = session
      OBVIOUS
  <2>1. ~session.live /\ ~session.waiting
      BY DEF RoomInv, CompletedIsAtRest
  <2>2. CASE ByOrder
      BY <2>2 DEF ByOrder, OrderSteps, StartService, CompleteService, RequestRefund, RejectRefund,
                  RefundSucceeds, TimePasses, Told, controlVars
  <2>3. CASE ByVoice
    <3>1. CASE ControlSteps
        BY <2>1, <3>1 DEF ControlSteps, RunsOn, ClaimDueTerminations, DismissRoom, DismissFails, ClaimOrderTermination,
              AcquireDispatchLease, Settle, ScheduleRetry, ReleaseDispatchLease, CrashControl, LeaseLapses,
              DispatchLapses, RetryIsDue, Due, Holds
    <3>2. CASE IssueRoomAccess \/ AccessExpires \/ Enter \/ LeaveRoom \/ SwitchEmergency
        BY <3>2 DEF IssueRoomAccess, AccessExpires, Enter, LeaveRoom, SwitchEmergency, controlVars
    <3> QED BY <2>3, <3>1, <3>2 DEF ByVoice, RoomSteps
  <2>4. CASE UNCHANGED roomVars
      BY <2>4 DEF roomVars, controlVars
  <2> QED BY <2>2, <2>3, <2>4 DEF Next, ByMessage, vars
<1> QED BY <1>1, InvariantHolds, PTL DEF Spec, CompletedForGood

=============================================================================
