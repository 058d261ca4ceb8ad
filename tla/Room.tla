-------------------------------- MODULE Room --------------------------------
(***************************************************************************)
(* The voice room of one order: who may enter it, and how it is dismissed  *)
(* at Tencent's TRTC when the service is over or its money is asked back   *)
(* (voice.service.ts, voice-room-control.service.ts).                      *)
(*                                                                         *)
(* A dismissal takes two leases: one on the row of the session, and one    *)
(* that lets a single process in all replicas call TRTC at a time.  Both   *)
(* may run out under a process that is slow.                               *)
(***************************************************************************)

CONSTANTS
    Controllers,    \* processes that dismiss rooms: handlers and workers
    None

VARIABLES
    order,      \* Order.status, from its payment on
    phase,      \* open, over (the service time has passed), closed (and the time to write to
                \* each other; bound: nobody asks for a refund any more)
    refund,     \* none (or all rejected), open, success
    emergency,  \* TRTC_EMERGENCY_STOP_ENABLED
    session,    \* VoiceSession, of its columns those of the termination
    access,     \* somebody has a credential that has not expired
    room,       \* at TRTC: absent or live
    cut,        \* history: no, cut (the room was dismissed), back (and entered again)
    control,    \* what each process is doing
    dispatch    \* VoiceRoomControlDispatchLease

serviceVars == <<order, phase, refund>>
controlVars == <<session, control, dispatch>>
roomVars == <<serviceVars, emergency, access, room, cut, controlVars>>

Sessions == [completed : BOOLEAN, lease : Controllers \cup {None}, live : BOOLEAN, waiting : BOOLEAN, urgent : BOOLEAN]

ASSUME RoomAssumption == None \notin Sessions

Steps == {"idle", "told", "claimed", "calling", "dismissed", "refused", "done"}

RoomTypeOK ==
    /\ order \in {"paid", "inService", "completed", "refunded"}
    /\ phase \in {"open", "over", "closed"}
    /\ refund \in {"none", "open", "success"}
    /\ emergency \in BOOLEAN /\ access \in BOOLEAN
    /\ session \in Sessions \cup {None}
    /\ room \in {"absent", "live"} /\ cut \in {"no", "cut", "back"}
    /\ control \in [Controllers -> Steps]
    /\ dispatch \in [by : Controllers, live : BOOLEAN] \cup {None}

RoomInit ==
    /\ order = "paid" /\ phase = "open" /\ refund = "none"
    /\ emergency = FALSE /\ access = FALSE
    /\ session = None
    /\ room = "absent" /\ cut = "no"
    /\ control = [w \in Controllers |-> "idle"]
    /\ dispatch = None

Goto(w, step) == control' = [control EXCEPT ![w] = step]

-----------------------------------------------------------------------------
(* The order.  A refund request and a completion, once committed, tell the   *)
(* room control; the process may stop before it does.                        *)

Told ==
    /\ \/ UNCHANGED control
       \/ \E w \in Controllers : control[w] = "idle" /\ Goto(w, "told")
    /\ UNCHANGED <<emergency, session, access, room, cut, dispatch>>

StartService ==
    /\ order = "paid" /\ refund = "none" /\ phase = "open"
    /\ order' = "inService"
    /\ UNCHANGED <<phase, refund, emergency, access, room, cut, controlVars>>

CompleteService ==
    /\ order = "inService" /\ phase # "open"
    /\ order' = "completed"
    /\ Told
    /\ UNCHANGED <<phase, refund>>

\* A request that finds one under way tells the room control as well.
RequestRefund ==
    /\ phase # "closed"
    /\ refund' = IF refund = "none" THEN "open" ELSE refund
    /\ Told
    /\ UNCHANGED <<order, phase>>

RejectRefund ==
    /\ refund = "open"
    /\ refund' = "none"
    /\ UNCHANGED <<order, phase, emergency, access, room, cut, controlVars>>

RefundSucceeds ==
    /\ refund = "open"
    /\ refund' = "success" /\ order' = "refunded"
    /\ UNCHANGED <<phase, emergency, access, room, cut, controlVars>>

\* No credential outlasts the service.
TimePasses ==
    /\ \/ phase = "open" /\ phase' = "over" /\ access' = FALSE
       \/ phase = "over" /\ phase' = "closed" /\ UNCHANGED access
    /\ UNCHANGED <<order, refund, emergency, room, cut, controlVars>>

OrderSteps ==
    StartService \/ CompleteService \/ RequestRefund \/ RejectRefund \/ RefundSucceeds \/ TimePasses

-----------------------------------------------------------------------------
(* The room. *)

NewSession == [completed |-> FALSE, lease |-> None, live |-> FALSE, waiting |-> FALSE, urgent |-> FALSE]

IssueRoomAccess ==
    /\ order = "inService" /\ refund = "none" /\ phase = "open" /\ ~emergency
    /\ session' = IF session = None THEN NewSession ELSE session
    /\ access' = TRUE
    /\ UNCHANGED <<serviceVars, emergency, room, cut, control, dispatch>>

AccessExpires ==
    /\ access
    /\ access' = FALSE
    /\ UNCHANGED <<serviceVars, emergency, room, cut, controlVars>>

\* TRTC admits whoever has a credential, and makes the room if there is none.
Enter ==
    /\ access /\ room = "absent"
    /\ room' = "live"
    /\ cut' = IF cut = "cut" THEN "back" ELSE cut
    /\ UNCHANGED <<serviceVars, emergency, access, controlVars>>

LeaveRoom ==
    /\ room = "live"
    /\ room' = "absent"
    /\ UNCHANGED <<serviceVars, emergency, access, cut, controlVars>>

SwitchEmergency ==
    /\ emergency' = ~emergency
    /\ UNCHANGED <<serviceVars, access, room, cut, controlVars>>

-----------------------------------------------------------------------------
(* Its dismissal. *)

Over == phase # "open" \/ refund # "none" \/ order \in {"completed", "refunded"}

Unleased == session.lease = None \/ ~session.live

Claimed(w, urgent) == [NewSession EXCEPT !.lease = w, !.live = TRUE, !.urgent = urgent]

\* Mutant of DispatchFree: a lease that nobody gave back stays taken.
DispatchReturned == dispatch = None

DispatchFree == dispatch # None => ~dispatch.live

\* For a handler: whether the room is due is not asked again.
ClaimOrderTermination(w) ==
    /\ control[w] = "told"
    /\ IF session # None /\ ~session.completed /\ Unleased
       THEN session' = Claimed(w, FALSE) /\ Goto(w, "claimed")
       ELSE Goto(w, "idle") /\ UNCHANGED session
    /\ UNCHANGED <<serviceVars, emergency, access, room, cut, dispatch>>

\* The handler of a call that finds TRTC taken leaves its room to the worker.
AcquireDispatchLease(w) ==
    /\ control[w] = "claimed"
    /\ IF DispatchFree
       THEN dispatch' = [by |-> w, live |-> TRUE] /\ Goto(w, "calling")
       ELSE Goto(w, "idle") /\ UNCHANGED dispatch
    /\ UNCHANGED <<serviceVars, emergency, access, room, cut, session>>

Due ==
    /\ session # None /\ ~session.completed /\ Unleased
    /\ session.waiting => emergency /\ ~session.urgent
    /\ emergency \/ Over

ClaimDueTerminations(w) ==
    /\ control[w] = "idle" /\ DispatchFree
    /\ dispatch' = [by |-> w, live |-> TRUE]
    /\ IF Due
       THEN session' = Claimed(w, emergency) /\ Goto(w, "calling")
       ELSE Goto(w, "done") /\ UNCHANGED session
    /\ UNCHANGED <<serviceVars, emergency, access, room, cut>>

DismissRoom(w) ==
    /\ control[w] = "calling"
    /\ room' = "absent"
    /\ cut' = IF cut = "no" THEN "cut" ELSE cut
    /\ Goto(w, "dismissed")
    /\ UNCHANGED <<serviceVars, emergency, access, session, dispatch>>

\* An error, or no answer in time: the room may be gone all the same.
DismissFails(w) ==
    /\ control[w] = "calling"
    /\ \/ UNCHANGED <<room, cut>>
       \/ room' = "absent" /\ cut' = IF cut = "no" THEN "cut" ELSE cut
    /\ Goto(w, "refused")
    /\ UNCHANGED <<serviceVars, emergency, access, session, dispatch>>

\* The row still carries the claim of w.
Holds(w) == session.lease = w /\ ~session.completed

Settle(w) ==
    /\ control[w] = "dismissed"
    /\ session' = IF Holds(w) THEN [NewSession EXCEPT !.completed = TRUE, !.urgent = session.urgent] ELSE session
    /\ Goto(w, "done")
    /\ UNCHANGED <<serviceVars, emergency, access, room, cut, dispatch>>

ScheduleRetry(w) ==
    /\ control[w] = "refused"
    /\ session' = IF Holds(w) THEN [NewSession EXCEPT !.waiting = TRUE, !.urgent = session.urgent] ELSE session
    /\ Goto(w, "done")
    /\ UNCHANGED <<serviceVars, emergency, access, room, cut, dispatch>>

ReleaseDispatchLease(w) ==
    /\ control[w] = "done"
    /\ dispatch' = IF dispatch # None /\ dispatch.by = w THEN None ELSE dispatch
    /\ Goto(w, "idle")
    /\ UNCHANGED <<serviceVars, emergency, access, room, cut, session>>

CrashControl(w) ==
    /\ control[w] # "idle"
    /\ Goto(w, "idle")
    /\ UNCHANGED <<serviceVars, emergency, access, room, cut, session, dispatch>>

LeaseLapses ==
    /\ session # None /\ session.live
    /\ session' = [session EXCEPT !.live = FALSE]
    /\ UNCHANGED <<serviceVars, emergency, access, room, cut, control, dispatch>>

DispatchLapses ==
    /\ dispatch # None /\ dispatch.live
    /\ dispatch' = [dispatch EXCEPT !.live = FALSE]
    /\ UNCHANGED <<serviceVars, emergency, access, room, cut, session, control>>

RetryIsDue ==
    /\ session # None /\ session.waiting
    /\ session' = [session EXCEPT !.waiting = FALSE]
    /\ UNCHANGED <<serviceVars, emergency, access, room, cut, control, dispatch>>

RunsOn(w) ==
    \/ ClaimOrderTermination(w) \/ AcquireDispatchLease(w) \/ Settle(w) \/ ScheduleRetry(w) \/ ReleaseDispatchLease(w)

ControlSteps ==
    \/ \E w \in Controllers :
         \/ ClaimDueTerminations(w) \/ DismissRoom(w) \/ DismissFails(w)
         \/ RunsOn(w) \/ CrashControl(w)
    \/ LeaseLapses \/ DispatchLapses \/ RetryIsDue

RoomSteps == IssueRoomAccess \/ AccessExpires \/ Enter \/ LeaveRoom \/ SwitchEmergency \/ ControlSteps

=============================================================================
