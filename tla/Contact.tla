------------------------------ MODULE Contact ------------------------------
(***************************************************************************)
(* How the two parties of an order reach each other: the voice room while  *)
(* the service lasts, and the conversation until a while after it.         *)
(***************************************************************************)
EXTENDS Room, Chat

CONSTANT
    Agendas         \* bound: what occurs in one behaviour

VARIABLE agenda     \* the member of Agendas this behaviour has

vars == <<roomVars, chatVars, agenda>>

ASSUME ContactAssumption == Agendas \subseteq SUBSET {"voice", "refund", "emergency", "media"}

ContactTypeOK == RoomTypeOK /\ ChatTypeOK /\ agenda \in Agendas

ContactInit == RoomInit /\ ChatInit /\ agenda \in Agendas

\* Messages can be sent until a while after the service, unless it is completed or paid back.
MessageWindowOpen == order \in {"paid", "inService"} /\ phase # "closed"

ByVoice ==
    /\ "voice" \in agenda
    /\ RoomSteps
    /\ emergency' # emergency => "emergency" \in agenda
    /\ UNCHANGED <<chatVars, agenda>>

ByMessage ==
    /\ "media" \in agenda
    /\ \/ MessageWindowOpen /\ \E m \in Posts : SendMedia(m)
       \/ SetConversationBlocked
       \/ ScanSteps
    /\ UNCHANGED <<roomVars, agenda>>

ByOrder ==
    /\ OrderSteps
    /\ control' # control => "voice" \in agenda
    /\ refund' # refund => "refund" \in agenda
    /\ UNCHANGED <<chatVars, agenda>>

Next ==
    \/ ByOrder
    \/ ByVoice
    \/ ByMessage

Working(w) == "voice" \in agenda /\ (RunsOn(w) \/ ClaimDueTerminations(w)) /\ UNCHANGED <<chatVars, agenda>>
Dismissing == \E w \in Controllers : DismissRoom(w) /\ Holds(w) /\ UNCHANGED <<chatVars, agenda>>
Settling == \E w \in Controllers : Settle(w) /\ Holds(w) /\ UNCHANGED <<chatVars, agenda>>
VoiceClock(step) == step /\ UNCHANGED <<chatVars, agenda>>

Scanning(w) == (ScanGoesOn(w) \/ \E m \in Posts : ReadMessage(w, m)) /\ UNCHANGED <<roomVars, agenda>>
Holding(w) == scan[w] # NoScan /\ Holder(w, scan[w].post)
Analysing == \E w \in Scanners : Holding(w) /\ AnalyseMedia(w) /\ UNCHANGED <<roomVars, agenda>>
Deciding ==
    \E w \in Scanners :
        /\ Holding(w)
        /\ Decide(w) \/ Escalate(w) \/ ScheduleMediaRetry(w)
        /\ UNCHANGED <<roomVars, agenda>>
ChatClock(step) == step /\ UNCHANGED <<roomVars, agenda>>

\* The workers run on their timers and leases end; it is not every time that TRTC
\* refuses, or that a process stops or loses its lease before it has written.
Fairness ==
    /\ \A w \in Controllers : WF_vars(Working(w))
    /\ WF_vars(TimePasses /\ UNCHANGED <<chatVars, agenda>>)
    /\ WF_vars(VoiceClock(LeaseLapses)) /\ WF_vars(VoiceClock(DispatchLapses)) /\ WF_vars(VoiceClock(RetryIsDue))
    /\ SF_vars(Dismissing) /\ SF_vars(Settling)
    /\ \A w \in Scanners : WF_vars(Scanning(w))
    /\ \A m \in Posts : WF_vars(ChatClock(TokenLapses(m))) /\ WF_vars(ChatClock(BackoffEnds(m)))
    /\ SF_vars(Analysing) /\ SF_vars(Deciding)

Spec == ContactInit /\ [][Next]_vars /\ Fairness

-----------------------------------------------------------------------------
(* Properties. *)

ServiceEnded == phase # "open" \/ order \in {"completed", "refunded"}

\* A call does not go on after its service: whatever lease, process or call to
\* TRTC is lost, the room is dismissed once, and only somebody who enters it
\* again after that stays (the session is then settled for good).
CallEnds == (ServiceEnded /\ room = "live") ~> (room = "absent" \/ cut = "back")

\* A termination that is recorded as completed is that of a room TRTC has dismissed,
\* not of one a process has only tried to dismiss.
CompletedWasDismissed == session # None /\ session.completed => cut # "no"

\* No process that comes late, with an answer or a failure of its own call to TRTC
\* or with a claim, opens a completed termination again or writes to it.
CompletedForGood == [][session # None /\ session.completed => session' = session]_vars

\* A message with attachments does not stay in the queue: its analysis decides
\* it, or a case asks people to, although processes stop or lose their token
\* and the analysis fails.
QueuedIsDecided == \A m \in Posts : post[m].status = "queued" ~> post[m].status # "queued"

\* Of a message the other is told once, or one case is opened, and never both,
\* however many processes have treated it, and what is published was told.
DecidedOnce ==
    \A m \in Posts :
        /\ tellings[m] + openings[m] <= 1
        /\ post[m].status = "published" => tellings[m] = 1

=============================================================================
