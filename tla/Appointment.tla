---------------------------- MODULE Appointment ----------------------------
(***************************************************************************)
(* The appointments of one companion: the windows the companion offers,    *)
(* the orders booked into them, and the negotiations that move a booked    *)
(* order to another time (orders.service.ts, companions.service.ts).       *)
(*                                                                         *)
(* A transaction that locks the companion's profile is one step.  Editing  *)
(* a window is the exception: it locks the window only, so it begins and   *)
(* commits in two steps and other calendar writes come between.            *)
(* Payment and refunds are reduced to what appointments depend on; they    *)
(* are the subject of Checkout and Refunds.  The clock's unit is 15        *)
(* minutes.                                                                *)
(***************************************************************************)
EXTENDS Integers, FiniteSets

CONSTANTS
    Orders,             \* bookings
    Windows,            \* ids of availability windows
    Shapes,             \* what a window may offer: [from, to, cap]
    RuleShapes,         \* the shapes active recurring rules ask for
    Blackouts,          \* intervals a companion may black out: [from, to]
    Duration,           \* length of a service, and the step of candidate times
    EarlyStart,         \* SERVICE_EARLY_START_MS
    ResponseWindow,     \* ORDER_RESPONSE_WINDOW_MINUTES
    ReservationTTL,     \* COMPANION_PAYMENT_RESERVATION_MS
    PaymentLead,        \* a reservation ends this long before the service
    NegotiationWindow,  \* ORDER_RESCHEDULE_RESPONSE_WINDOW_MINUTES
    MaxTime,            \* bound of the clock
    None                \* no value

Times == 0 .. MaxTime
Later == 0 .. MaxTime + 2 * Duration
Intervals == [from : Later, to : Later]
Capacities == Nat \ {0}
Party == {"customer", "companion"}

WindowRows == [shape : Shapes, active : BOOLEAN, draft : BOOLEAN]
EditRows == [win : Windows, shape : Shapes, active : BOOLEAN]
SeatRows == [win : Windows, cap : Capacities]
Proposals == [by : Party, from : Later, to : Later, win : Windows, expires : Int]

ASSUME AppointmentAssumption ==
    /\ IsFiniteSet(Orders)
    /\ Duration \in Nat \ {0} /\ MaxTime \in Nat
    /\ {EarlyStart, ResponseWindow, ReservationTTL, PaymentLead, NegotiationWindow} \subseteq Nat
    /\ Shapes \subseteq [from : Later, to : Later, cap : Capacities]
    /\ RuleShapes \subseteq Shapes
    /\ Blackouts \subseteq Intervals
    /\ None \notin Int \cup Windows
    /\ None \notin WindowRows \cup EditRows \cup SeatRows \cup Proposals

VARIABLES
    now,
    window,     \* CompanionAvailabilityWindow: shape, active, drafted from a rule
    edit,       \* an update of a window between its checks and its commit
    blackout,   \* CompanionAvailabilityBlackout rows that are active
    status,     \* Order.status; "confirmed" is pending with companionConfirmedAt
    sched,      \* Order.scheduledAt
    seat,       \* Order.availabilityWindowId with the capacity of its snapshot
    until,      \* response deadline, payment reservation or earliest completion
    refunding,  \* orders with a refund that is under way or has failed
    proposal    \* the pending OrderRescheduleRequest of each order

vars == <<now, window, edit, blackout, status, sched, seat, until, refunding, proposal>>
calendar == <<window, edit, blackout>>

\* An order that is cancelled or refunded is "none" again: no appointment
\* depends on it, and its place is taken by the next booking.
Statuses == {"none", "pending", "confirmed", "paying", "paid", "inService", "completed"}

TypeOK ==
    /\ now \in Times
    /\ window \in [Windows -> WindowRows \cup {None}]
    /\ edit \in EditRows \cup {None}
    /\ blackout \subseteq Blackouts
    /\ status \in [Orders -> Statuses]
    /\ sched \in [Orders -> Later \cup {None}]
    /\ seat \in [Orders -> SeatRows \cup {None}]
    /\ until \in [Orders -> Int \cup {None}]
    /\ refunding \subseteq Orders
    /\ proposal \in [Orders -> Proposals \cup {None}]

Init ==
    /\ now = 0
    /\ window = [w \in Windows |-> None]
    /\ edit = None
    /\ blackout = {}
    /\ status = [o \in Orders |-> "none"]
    /\ sched = [o \in Orders |-> None]
    /\ seat = [o \in Orders |-> None]
    /\ until = [o \in Orders |-> None]
    /\ refunding = {}
    /\ proposal = [o \in Orders |-> None]

Lesser(a, b) == IF a < b THEN a ELSE b
Greater(a, b) == IF a > b THEN a ELSE b

Overlap(a, b) == a.from < b.to /\ b.from < a.to
At(t) == [from |-> t, to |-> t + Duration]

-----------------------------------------------------------------------------
(* Seats. *)

\* An order that keeps others out of its time: paid or on the way to it, or
\* confirmed with a reservation that has not ended.
Holds(o) ==
    \/ status[o] \in {"paying", "paid", "inService", "completed"}
    \/ status[o] = "confirmed" /\ until[o] > now

\* Mutant of Rivals: a prepay on its way is not counted.
RivalsUnpaying(o, t) == {p \in Orders \ {o} : /\ status[p] # "paying" /\ Holds(p)
                                               /\ Overlap(At(sched[p]), At(t))}

\* The seat holders, other than o itself, whose service overlaps a service at t.
Rivals(o, t) == {p \in Orders \ {o} : Holds(p) /\ Overlap(At(sched[p]), At(t))}

\* Confirmed orders among them whose reservation has ended are released by
\* whoever counts the seats.
Lapsed(o, t) ==
    {p \in Orders \ {o} : /\ status[p] = "confirmed"
                          /\ until[p] <= now
                          /\ Overlap(At(sched[p]), At(t))}

\* Mutant of Bookable: a window is read without its lock.
BookableUnlocked(w, t) ==
    /\ window[w] # None /\ window[w].active
    /\ t % Duration = 0
    /\ window[w].shape.from <= t
    /\ t + Duration <= window[w].shape.to

\* A time on the grid inside a window that is on offer and not being edited.
Bookable(w, t) ==
    /\ window[w] # None /\ window[w].active
    /\ edit # None => edit.win # w
    /\ t % Duration = 0
    /\ window[w].shape.from <= t
    /\ t + Duration <= window[w].shape.to

HasSeat(o, w, t) ==
    /\ Bookable(w, t)
    /\ Cardinality(Rivals(o, t)) < window[w].shape.cap

\* The statuses after order o's transition to s and the release of lapsed rivals.
Moved(o, t, s) ==
    [p \in Orders |-> IF p = o THEN s
                      ELSE IF p \in Lapsed(o, t) THEN "pending" ELSE status[p]]
Released(o, t, u) ==
    [p \in Orders |-> IF p = o THEN u
                      ELSE IF p \in Lapsed(o, t) THEN None ELSE until[p]]

-----------------------------------------------------------------------------
(* Orders. *)

\* Any lifecycle transition that makes negotiating pointless closes the
\* pending request in its own transaction.
CancelProposal(o) == proposal' = [proposal EXCEPT ![o] = None]

\* The order is cancelled or refunded.
Leave(o) ==
    /\ status' = [status EXCEPT ![o] = "none"]
    /\ sched' = [sched EXCEPT ![o] = None]
    /\ seat' = [seat EXCEPT ![o] = None]
    /\ until' = [until EXCEPT ![o] = None]

Create(o, w, t) ==
    /\ status[o] = "none" /\ proposal[o] = None
    /\ now < t
    /\ now + ResponseWindow < t - PaymentLead
    /\ HasSeat(o, w, t)
    /\ status' = Moved(o, t, "pending")
    /\ until' = Released(o, t, now + ResponseWindow)
    /\ sched' = [sched EXCEPT ![o] = t]
    /\ seat' = [seat EXCEPT ![o] = [win |-> w, cap |-> window[w].shape.cap]]
    /\ UNCHANGED <<now, calendar, refunding, proposal>>

Confirm(o) ==
    /\ status[o] = "pending"
    /\ now < sched[o]
    /\ until[o] # None => now < until[o]
    /\ HasSeat(o, seat[o].win, sched[o])
    /\ LET ends == Lesser(now + ReservationTTL, sched[o] - PaymentLead)
       IN  /\ now < ends
           /\ until' = Released(o, sched[o], ends)
    /\ status' = Moved(o, sched[o], "confirmed")
    /\ UNCHANGED <<now, calendar, sched, seat, refunding, proposal>>

\* rejectOrder, and cancel before payment.
Reject(o) ==
    /\ status[o] = "pending"
    /\ Leave(o)
    /\ CancelProposal(o)
    /\ UNCHANGED <<now, calendar, refunding>>

Cancel(o) ==
    /\ status[o] \in {"pending", "confirmed", "paying"}
    /\ Leave(o)
    /\ CancelProposal(o)
    /\ UNCHANGED <<now, calendar, refunding>>

\* expireUnconfirmedOrders leaves the request pending: its expiry is no later
\* than the deadline that has passed.
ExpireResponse(o) ==
    /\ status[o] = "pending"
    /\ until[o] # None /\ until[o] <= now
    /\ Leave(o)
    /\ UNCHANGED <<now, calendar, refunding, proposal>>

\* expireUnpaidReservations: back to an unconfirmed request without a deadline.
LapseReservation(o) ==
    /\ status[o] = "confirmed"
    /\ until[o] <= now
    /\ status' = [status EXCEPT ![o] = "pending"]
    /\ until' = [until EXCEPT ![o] = None]
    /\ UNCHANGED <<now, calendar, sched, seat, refunding, proposal>>

\* prepay: allowed while the reservation lasts.
Prepay(o) ==
    /\ status[o] = "confirmed"
    /\ now < until[o]
    /\ status' = [status EXCEPT ![o] = "paying"]
    /\ UNCHANGED <<now, calendar, sched, seat, until, refunding, proposal>>

\* A closed prepay sends the order back, confirmed still or no longer.
PrepayClosed(o) ==
    /\ status[o] = "paying"
    /\ \/ /\ status' = [status EXCEPT ![o] = "confirmed"]
          /\ UNCHANGED until
       \/ /\ status' = [status EXCEPT ![o] = "pending"]
          /\ until' = [until EXCEPT ![o] = None]
    /\ UNCHANGED <<now, calendar, sched, seat, refunding, proposal>>

FulfillPayment(o) ==
    /\ status[o] = "paying"
    /\ status' = [status EXCEPT ![o] = "paid"]
    /\ until' = [until EXCEPT ![o] = None]
    /\ UNCHANGED <<now, calendar, sched, seat, refunding, proposal>>

StartService(o) ==
    /\ status[o] = "paid"
    /\ o \notin refunding
    /\ sched[o] - EarlyStart <= now /\ now < sched[o] + Duration
    /\ status' = [status EXCEPT ![o] = "inService"]
    /\ until' = [until EXCEPT ![o] = Greater(sched[o], now) + Duration]
    /\ CancelProposal(o)
    /\ UNCHANGED <<now, calendar, sched, seat, refunding>>

CompleteService(o) ==
    /\ status[o] = "inService"
    /\ until[o] <= now
    /\ status' = [status EXCEPT ![o] = "completed"]
    /\ until' = [until EXCEPT ![o] = None]
    /\ CancelProposal(o)
    /\ UNCHANGED <<now, calendar, sched, seat, refunding>>

\* requestRefund, by a person or by the worker that refunds expired services.
RequestRefund(o) ==
    /\ status[o] \in {"paid", "inService", "completed"}
    /\ o \notin refunding
    /\ refunding' = refunding \cup {o}
    /\ CancelProposal(o)
    /\ UNCHANGED <<now, calendar, status, sched, seat, until>>

\* Staff reject the refund, or WeChat pays it; one that fails blocks as one
\* that is under way.
RefundEnds(o) ==
    /\ o \in refunding
    /\ refunding' = refunding \ {o}
    /\ \/ Leave(o)
       \/ UNCHANGED <<status, sched, seat, until>>
    /\ UNCHANGED <<now, calendar, proposal>>

-----------------------------------------------------------------------------
(* Negotiations. *)

\* assertRescheduleEligible
Negotiable(o) ==
    /\ \/ status[o] = "pending" /\ (until[o] # None => now < until[o])
       \/ status[o] = "paid"
    /\ o \notin refunding

\* Mutant of ProposalExpiry: the request may outlive the response deadline.
ProposalExpiryUnanswered(o) == Lesser(now + NegotiationWindow, sched[o] - EarlyStart)

\* rescheduleRequestExpiresAt
ProposalExpiry(o) ==
    LET latest == sched[o] - EarlyStart
        answer == IF status[o] = "pending" /\ until[o] # None
                  THEN Lesser(latest, until[o]) ELSE latest
    IN  Lesser(now + NegotiationWindow, answer)

\* A pending request whose time has passed is expired by the next request.
RequestReschedule(o, by, w, t) ==
    /\ Negotiable(o)
    /\ proposal[o] # None => proposal[o].expires <= now
    /\ now + EarlyStart < t
    /\ t # sched[o]
    /\ HasSeat(o, w, t)
    /\ now < ProposalExpiry(o)
    /\ proposal' = [proposal EXCEPT ![o] =
           [by |-> by, from |-> sched[o], to |-> t, win |-> w, expires |-> ProposalExpiry(o)]]
    /\ status' = Moved(o, t, status[o])
    /\ until' = Released(o, t, until[o])
    /\ UNCHANGED <<now, calendar, sched, seat, refunding>>

\* The other party accepts: window, capacity and order are read again.  What
\* comes too late is refused, and the expiry written on the way is rolled back.
AcceptReschedule(o, by) ==
    /\ proposal[o] # None /\ proposal[o].by # by
    /\ now < proposal[o].expires
    /\ sched[o] = proposal[o].from
    /\ Negotiable(o)
    /\ LET t == proposal[o].to
           w == proposal[o].win
       IN  /\ HasSeat(o, w, t)
           /\ sched' = [sched EXCEPT ![o] = t]
           /\ seat' = [seat EXCEPT ![o] = [win |-> w, cap |-> window[w].shape.cap]]
           /\ status' = Moved(o, t, status[o])
           /\ until' = Released(o, t, until[o])
    /\ CancelProposal(o)
    /\ UNCHANGED <<now, calendar, refunding>>

RejectReschedule(o, by) ==
    /\ proposal[o] # None /\ proposal[o].by # by
    /\ now < proposal[o].expires
    /\ sched[o] = proposal[o].from
    /\ CancelProposal(o)
    /\ UNCHANGED <<now, calendar, status, sched, seat, until, refunding>>

\* expirePendingRescheduleRequests
ExpireProposal(o) ==
    /\ proposal[o] # None
    /\ proposal[o].expires <= now
    /\ CancelProposal(o)
    /\ UNCHANGED <<now, calendar, status, sched, seat, until, refunding>>

-----------------------------------------------------------------------------
(* The companion's calendar. *)

ActiveOthers(w) == {v \in Windows \ {w} : window[v] # None /\ window[v].active}

Clear(w, shape) == \A v \in ActiveOthers(w) : ~Overlap(window[v].shape, shape)

OpenOrders == {o \in Orders : status[o] \in {"pending", "confirmed", "paying", "paid", "inService"}}

\* assertOwnAvailabilityWindowShape and the overlap check, for a window next.
Offerable(w, shape, active) ==
    active => shape.from > now + EarlyStart /\ Clear(w, shape)

CreateWindow(w, shape, active) ==
    /\ window[w] = None
    /\ Offerable(w, shape, active)
    /\ window' = [window EXCEPT ![w] = [shape |-> shape, active |-> active, draft |-> FALSE]]
    /\ UNCHANGED <<now, edit, blackout, status, sched, seat, until, refunding, proposal>>

\* An update locks the window alone and checks it against what is committed.
BeginEdit(w, shape, active) ==
    /\ edit = None
    /\ window[w] # None
    /\ \A o \in OpenOrders : seat[o].win # w
    /\ Offerable(w, shape, active)
    /\ edit' = [win |-> w, shape |-> shape, active |-> active]
    /\ UNCHANGED <<now, window, blackout, status, sched, seat, until, refunding, proposal>>

CommitEdit ==
    /\ edit # None
    /\ window' = [window EXCEPT ![edit.win] =
           [shape |-> edit.shape, active |-> edit.active, draft |-> @.draft]]
    /\ edit' = None
    /\ UNCHANGED <<now, blackout, status, sched, seat, until, refunding, proposal>>

BlackedOut(i) == \E b \in blackout : Overlap(b, i)

\* materializeOwnRecurringAvailabilityDrafts, one occurrence.
MaterializeDraft(w, shape) ==
    /\ window[w] = None
    /\ shape \in RuleShapes
    /\ now < shape.from
    /\ ~BlackedOut(shape)
    /\ \A v \in Windows : window[v] # None => ~Overlap(window[v].shape, shape)
    /\ \A o \in Orders : status[o] # "none"
                            => ~Overlap(At(sched[o]), shape)
    /\ window' = [window EXCEPT ![w] = [shape |-> shape, active |-> FALSE, draft |-> TRUE]]
    /\ UNCHANGED <<now, edit, blackout, status, sched, seat, until, refunding, proposal>>

\* activateOwnRecurringAvailabilityDraft
ActivateDraft(w) ==
    /\ window[w] # None /\ window[w].draft /\ ~window[w].active
    /\ edit # None => edit.win # w
    /\ window[w].shape \in RuleShapes
    /\ ~BlackedOut(window[w].shape)
    /\ Offerable(w, window[w].shape, TRUE)
    /\ \A o \in OpenOrders : /\ seat[o].win # w
                             /\ ~Overlap(At(sched[o]), window[w].shape)
    /\ window' = [window EXCEPT ![w].active = TRUE]
    /\ UNCHANGED <<now, edit, blackout, status, sched, seat, until, refunding, proposal>>

CreateBlackout(b) ==
    /\ now + EarlyStart < b.from
    /\ \A c \in blackout : ~Overlap(b, c)
    /\ blackout' = blackout \cup {b}
    /\ UNCHANGED <<now, window, edit, status, sched, seat, until, refunding, proposal>>

DeactivateBlackout(b) ==
    /\ b \in blackout
    /\ blackout' = blackout \ {b}
    /\ UNCHANGED <<now, window, edit, status, sched, seat, until, refunding, proposal>>

-----------------------------------------------------------------------------
Tick ==
    /\ now < MaxTime
    /\ now' = now + 1
    /\ UNCHANGED <<calendar, status, sched, seat, until, refunding, proposal>>

OrderStep(o) ==
    \/ \E w \in Windows, t \in Later : Create(o, w, t)
    \/ Confirm(o) \/ Reject(o) \/ Cancel(o)
    \/ ExpireResponse(o) \/ LapseReservation(o)
    \/ Prepay(o) \/ PrepayClosed(o) \/ FulfillPayment(o)
    \/ StartService(o) \/ CompleteService(o)
    \/ RequestRefund(o) \/ RefundEnds(o)

NegotiationStep(o) ==
    \/ \E by \in Party, w \in Windows, t \in Later : RequestReschedule(o, by, w, t)
    \/ \E by \in Party : AcceptReschedule(o, by) \/ RejectReschedule(o, by)
    \/ ExpireProposal(o)

CalendarStep ==
    \/ \E w \in Windows, s \in Shapes, a \in BOOLEAN : CreateWindow(w, s, a) \/ BeginEdit(w, s, a)
    \/ CommitEdit
    \/ \E w \in Windows, s \in Shapes : MaterializeDraft(w, s)
    \/ \E w \in Windows : ActivateDraft(w)
    \/ \E b \in Blackouts : CreateBlackout(b) \/ DeactivateBlackout(b)

Next ==
    \/ \E o \in Orders : OrderStep(o) \/ NegotiationStep(o)
    \/ CalendarStep
    \/ Tick

Spec == Init /\ [][Next]_vars

-----------------------------------------------------------------------------
(* Properties. *)

\* Seats: at no time are more services held than the largest capacity any of
\* them was sold under, whatever was booked, moved, released or edited between.
SeatsWithinCapacity ==
    \A t \in Later :
        LET held == {o \in Orders : Holds(o) /\ sched[o] <= t /\ t < sched[o] + Duration}
        IN  held # {} => \E o \in held : Cardinality(held) <= seat[o].cap

\* A booking that is open keeps the window it was made in: still on offer, with
\* the capacity of the snapshot, and around the service.
WindowHonoured ==
    \A o \in OpenOrders :
        LET w == window[seat[o].win]
        IN  /\ w # None /\ w.active
            /\ w.shape.cap = seat[o].cap
            /\ w.shape.from <= sched[o] /\ sched[o] + Duration <= w.shape.to

\* While a request to move an appointment can still be answered, the order is
\* open and unstarted, no refund of it is under way, and its appointment is
\* the one the request is about.
LiveProposalIsOpen ==
    \A o \in Orders :
        proposal[o] # None /\ now < proposal[o].expires =>
            /\ status[o] \in {"pending", "confirmed", "paying", "paid"}
            /\ o \notin refunding
            /\ sched[o] = proposal[o].from
            /\ now < sched[o] - EarlyStart

\* The comment on acceptReschedule: accepting a proposal is "still safe right
\* now".  An appointment is never moved to a time that has passed.
AcceptedInFuture ==
    [][\A o \in Orders : sched[o] # None /\ sched'[o] \notin {sched[o], None} => sched'[o] > now]_vars

=============================================================================
