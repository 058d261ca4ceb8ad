------------------------------ MODULE Checkout ------------------------------
(***************************************************************************)
(* From a booking request to a paid order: the companion's confirmation,   *)
(* the reservation of the slot, the WeChat prepay, the customer's payment  *)
(* and the workers that expire what nobody finished                        *)
(* (orders.service.ts, payments.service.ts, payments-reconciliation        *)
(* .worker.ts).                                                            *)
(*                                                                         *)
(* All Orders ask one companion for the same slot, at ScheduledAt, so they *)
(* compete for Capacity seats.  Each column of the tables Order and        *)
(* PaymentTransaction that the code branches on is a variable; trade is    *)
(* the state WeChat keeps under the payment's outTradeNo.  A transaction   *)
(* holds the order's row lock (and prepay and confirm the companion's), so *)
(* it is one action; what happens outside a transaction -- the call that   *)
(* creates the trade, a query, the repair after a remote close -- is an    *)
(* action of its own, and a crash can fall between any two of them.        *)
(***************************************************************************)
EXTENDS Integers, FiniteSets

CONSTANTS
    Orders,             \* bookings that ask for the same slot
    Attempts,           \* names of the prepays one order may go through
    Capacity,           \* seats of the slot (availability window capacity, or 1)
    ScheduledAt,        \* start of the service
    ResponseWindow,     \* ORDER_RESPONSE_WINDOW_MINUTES
    ReservationTTL,     \* COMPANION_PAYMENT_RESERVATION_MS
    PrepayTTL,          \* WECHAT_PREPAY_TTL_MS
    PaymentLead,        \* MIN_PREPAY_LEAD_MS, payment closes this long before the service
    UsableWindow,       \* MIN_PREPAY_USABLE_WINDOW_MS = MIN_RESERVATION_PAYMENT_WINDOW_MS
    IssuanceAllowance,  \* PREPAY_ISSUANCE_ALLOWANCE_MS
    MaxTime             \* the bound of the clock

ASSUME OrdersAssumption == IsFiniteSet(Orders)

ASSUME CapacityAssumption == Capacity \in Nat \ {0}

ASSUME ClockAssumption ==
    /\ {ScheduledAt, ResponseWindow, ReservationTTL, PrepayTTL, PaymentLead,
        UsableWindow, IssuanceAllowance, MaxTime} \subseteq Nat

VARIABLES
    now,          \* the database's and WeChat's clock
    orderStatus,  \* Order.status
    confirmed,    \* Order.companionConfirmedAt # null
    deadline,     \* Order.companionResponseDeadlineAt
    reservation,  \* Order.paymentReservationExpiresAt
    payStatus,    \* PaymentTransaction.status
    payExpires,   \* PaymentTransaction.expiresAt
    params,       \* PaymentTransaction.clientParams # null: the client can pay
    trade,        \* the trade at WeChat
    call,         \* the create call of prepay, from this process to WeChat
    scans,        \* prepays the worker has queried as unpaid and is about to close
    repair        \* prepays closed at WeChat whose rows are about to be closed

orderVars == <<orderStatus, confirmed, deadline, reservation>>
payVars   == <<payStatus, payExpires, params>>
memory    == <<call, scans, repair>>
vars      == <<now, orderVars, payVars, trade, memory>>

Payments == Orders \X Attempts
OrderOf(p) == p[1]

NoTime == -1
Times == Nat \cup {NoTime}

OrderStatus == {"none", "pending", "paying", "paid", "cancelled"}
PayStatus   == {"none", "initiated", "success", "closed"}
TradeState  == {"absent", "notpay", "paid", "closed"}
CallState   == {"idle", "calling", "created", "orphan"}

TypeOK ==
    /\ now \in Nat
    /\ orderStatus \in [Orders -> OrderStatus]
    /\ confirmed   \in [Orders -> BOOLEAN]
    /\ deadline    \in [Orders -> Times]
    /\ reservation \in [Orders -> Times]
    /\ payStatus   \in [Payments -> PayStatus]
    /\ payExpires  \in [Payments -> Times]
    /\ params      \in [Payments -> BOOLEAN]
    /\ trade       \in [Payments -> TradeState]
    /\ call        \in [Payments -> CallState]
    /\ scans  \subseteq Payments
    /\ repair \subseteq Payments

Init ==
    /\ now = 0
    /\ orderStatus = [o \in Orders |-> "none"]
    /\ confirmed   = [o \in Orders |-> FALSE]
    /\ deadline    = [o \in Orders |-> NoTime]
    /\ reservation = [o \in Orders |-> NoTime]
    /\ payStatus   = [p \in Payments |-> "none"]
    /\ payExpires  = [p \in Payments |-> NoTime]
    /\ params      = [p \in Payments |-> FALSE]
    /\ trade       = [p \in Payments |-> "absent"]
    /\ call        = [p \in Payments |-> "idle"]
    /\ scans  = {}
    /\ repair = {}

-----------------------------------------------------------------------------
(* Reading the rows *)

Min2(a, b) == IF a <= b THEN a ELSE b

\* Mutant of Initiated: a prepay without stored parameters is overlooked.
InitiatedWithParams(o) ==
    {p \in Payments : OrderOf(p) = o /\ payStatus[p] = "initiated" /\ params[p]}

Initiated(o) == {p \in Payments : OrderOf(p) = o /\ payStatus[p] = "initiated"}
Payable(o)   == {p \in Payments : OrderOf(p) = o /\ payStatus[p] \in {"initiated", "success"}}
Expired(p)   == payExpires[p] <= now

LiveReservation(o) ==
    confirmed[o] /\ (reservation[o] = NoTime \/ reservation[o] > now)

LapsedReservation(o) ==
    /\ orderStatus[o] = "pending" /\ confirmed[o]
    /\ reservation[o] # NoTime /\ reservation[o] <= now

\* The orders that occupy the slot, as confirmation counts them.
Holds(o) ==
    \/ orderStatus[o] \in {"paying", "paid"}
    \/ orderStatus[o] = "pending" /\ LiveReservation(o)

\* Mutant of SlotFree: an order in payment whose reservation has lapsed frees its seat.
SlotFreeOfReserved(o) ==
    Cardinality({x \in Orders \ {o} :
        orderStatus[x] = "paid" \/ (orderStatus[x] # "cancelled" /\ LiveReservation(x))}) < Capacity

SlotFree(o) == Cardinality({x \in Orders \ {o} : Holds(x)}) < Capacity

\* Mutants of CanClose: a refusal to close is ignored; a trade WeChat does not
\* know is a failure.
CanCloseAlways(S) == \A p \in S : TRUE
CanCloseExisting(S) == \A p \in S : trade[p] \in {"notpay", "closed"}

\* WeChat refuses to close a paid trade and has nothing to close when the
\* trade does not exist; both other answers are a success for the caller.
CanClose(S) == \A p \in S : trade[p] # "paid"
AfterClose(S) ==
    [p \in Payments |-> IF p \in S /\ trade[p] = "notpay" THEN "closed" ELSE trade[p]]

Closed(S) == [p \in Payments |-> IF p \in S THEN "closed" ELSE payStatus[p]]

-----------------------------------------------------------------------------
(* The request and the companion's answer *)

\* The slot check of create and confirm also clears the lapsed reservations
\* of the orders it competes with.
Unlapsed(o) ==
    /\ confirmed' = [x \in Orders |-> confirmed[x] /\ (x = o \/ ~LapsedReservation(x))]
    /\ reservation' = [x \in Orders |->
            IF x # o /\ LapsedReservation(x) THEN NoTime ELSE reservation[x]]

Create(o) ==
    /\ orderStatus[o] = "none"
    /\ now + ResponseWindow < ScheduledAt - PaymentLead
    /\ SlotFree(o)
    /\ orderStatus' = [orderStatus EXCEPT ![o] = "pending"]
    /\ deadline' = [deadline EXCEPT ![o] = now + ResponseWindow]
    /\ Unlapsed(o)
    /\ UNCHANGED <<now, payVars, trade, memory>>

ReservationEnd == Min2(now + ReservationTTL, ScheduledAt - PaymentLead)

ConfirmOrder(o) ==
    /\ orderStatus[o] = "pending"
    /\ now < ScheduledAt
    /\ deadline[o] = NoTime \/ now < deadline[o]
    /\ ~LiveReservation(o)
    /\ ReservationEnd > now + UsableWindow
    /\ SlotFree(o)
    /\ confirmed' = [x \in Orders |-> x = o \/ (confirmed[x] /\ ~LapsedReservation(x))]
    /\ reservation' = [x \in Orders |->
            IF x = o THEN ReservationEnd
            ELSE IF LapsedReservation(x) THEN NoTime ELSE reservation[x]]
    /\ deadline' = [deadline EXCEPT ![o] = NoTime]
    /\ UNCHANGED <<now, orderStatus, payVars, trade, memory>>

RejectOrder(o) ==
    /\ orderStatus[o] = "pending"
    /\ ~confirmed[o]
    /\ Initiated(o) = {}
    /\ orderStatus' = [orderStatus EXCEPT ![o] = "cancelled"]
    /\ deadline' = [deadline EXCEPT ![o] = NoTime]
    /\ reservation' = [reservation EXCEPT ![o] = NoTime]
    /\ UNCHANGED <<now, confirmed, payVars, trade, memory>>

-----------------------------------------------------------------------------
(* Prepay: the transaction *)

CanPrepay(o) ==
    /\ orderStatus[o] \in {"pending", "paying"}
    /\ ScheduledAt > now + PaymentLead + UsableWindow + IssuanceAllowance
    /\ LiveReservation(o)

Contenders(o) ==
    {x \in Orders \ {o} : orderStatus[x] \in {"pending", "paying"} /\ ~LiveReservation(x)}

FreshPrepay(o) == \E p \in Initiated(o) : ~Expired(p)

\* Prepay counts seats more generously than confirmation: a competitor whose
\* reservation has lapsed keeps its seat only while its prepay is unexpired.
PrepayReserved(o) ==
    {x \in Orders \ {o} :
        \/ orderStatus[x] = "paid"
        \/ orderStatus[x] \in {"pending", "paying"} /\ (LiveReservation(x) \/ FreshPrepay(x))}

\* The abandoned prepays it closes at WeChat first, and the orders it sends back.
Reclaimed(o) ==
    {p \in Payments : OrderOf(p) \in Contenders(o) /\ payStatus[p] = "initiated" /\ Expired(p)}
SentBack(o) ==
    {x \in Contenders(o) : \/ orderStatus[x] = "pending" /\ confirmed[x]
                           \/ orderStatus[x] = "paying" /\ ~FreshPrepay(x)}

SlotAvailable(o) ==
    /\ Cardinality(PrepayReserved(o)) < Capacity
    /\ CanClose(Reclaimed(o))

SendBack(o) ==
    /\ confirmed' = [x \in Orders |-> confirmed[x] /\ x \notin SentBack(o)]
    /\ reservation' = [x \in Orders |-> IF x \in SentBack(o) THEN NoTime ELSE reservation[x]]

\* Every path also makes the order it works for paying or pending.
StatusAfterPrepay(o, s) ==
    [x \in Orders |-> IF x = o THEN s
                      ELSE IF x \in SentBack(o) THEN "pending" ELSE orderStatus[x]]

PrepayEnd == Min2(now + PrepayTTL, ScheduledAt - PaymentLead)

\* No prepay is open: its row is committed before WeChat hears of it.
PrepayCreate(o, p) ==
    /\ OrderOf(p) = o
    /\ payStatus[p] = "none"
    /\ CanPrepay(o)
    /\ SlotAvailable(o)
    /\ Initiated(o) = {}
    /\ PrepayEnd > now + UsableWindow
    /\ payStatus' = [Closed(Reclaimed(o)) EXCEPT ![p] = "initiated"]
    /\ payExpires' = [payExpires EXCEPT ![p] = PrepayEnd]
    /\ orderStatus' = StatusAfterPrepay(o, "paying")
    /\ SendBack(o)
    /\ trade' = AfterClose(Reclaimed(o))
    /\ call' = [call EXCEPT ![p] = "calling"]
    /\ UNCHANGED <<now, deadline, params, scans, repair>>

NearExpiry(o) == {p \in Initiated(o) : payExpires[p] <= now + UsableWindow}

\* The open prepay has too little time left: close it, then call prepay again.
PrepayReplace(o) ==
    /\ CanPrepay(o)
    /\ SlotAvailable(o)
    /\ NearExpiry(o) # {}
    /\ CanClose(NearExpiry(o))
    /\ payStatus' = Closed(Reclaimed(o) \cup NearExpiry(o))
    /\ orderStatus' = StatusAfterPrepay(o, "pending")
    /\ SendBack(o)
    /\ trade' = AfterClose(Reclaimed(o) \cup NearExpiry(o))
    /\ UNCHANGED <<now, deadline, payExpires, params, memory>>

\* The open prepay is still good: hand its parameters out again.
PrepayReuse(o) ==
    /\ CanPrepay(o)
    /\ SlotAvailable(o)
    /\ NearExpiry(o) = {}
    /\ \E p \in Initiated(o) : params[p]
    /\ payStatus' = Closed(Reclaimed(o))
    /\ orderStatus' = StatusAfterPrepay(o, "paying")
    /\ SendBack(o)
    /\ trade' = AfterClose(Reclaimed(o))
    /\ UNCHANGED <<now, deadline, payExpires, params, memory>>

\* The transaction fails -- no seat is left, one of the trades turns out to be
\* paid, the database rolls back -- after it has closed trades at WeChat.  The
\* rows are untouched; the catch handler will close those.
PrepayRollsBack(o) ==
    /\ CanPrepay(o)
    /\ \/ \E S \in SUBSET Reclaimed(o) :
            /\ S # {} /\ CanClose(S)
            /\ trade' = AfterClose(S)
            /\ repair' = repair \cup S
       \/ /\ SlotAvailable(o)
          /\ NearExpiry(o) # {} /\ CanClose(NearExpiry(o))
          /\ trade' = AfterClose(Reclaimed(o) \cup NearExpiry(o))
          /\ repair' = repair \cup Reclaimed(o) \cup NearExpiry(o)
    /\ UNCHANGED <<now, orderVars, payVars, call, scans>>

-----------------------------------------------------------------------------
(* Prepay: after the commit *)

\* WeChat answers a create request, also one whose caller has given up.
WechatCreates(p) ==
    /\ call[p] \in {"calling", "orphan"}
    /\ trade[p] = "absent"
    /\ now < payExpires[p]
    /\ trade' = [trade EXCEPT ![p] = "notpay"]
    /\ call' = [call EXCEPT ![p] = IF @ = "calling" THEN "created" ELSE "idle"]
    /\ UNCHANGED <<now, orderVars, payVars, scans, repair>>

\* The call times out before or after WeChat has acted: nothing is closed.
PrepayTimesOut(p) ==
    /\ call[p] = "calling"
    /\ call' = [call EXCEPT ![p] = "orphan"]
    /\ UNCHANGED <<now, orderVars, payVars, trade, scans, repair>>

\* The parameters reach the client only through the row, if it is still open.
PersistPrepay(p) ==
    /\ call[p] = "created"
    /\ payStatus[p] = "initiated" /\ ~params[p]
    /\ params' = [params EXCEPT ![p] = TRUE]
    /\ call' = [call EXCEPT ![p] = "idle"]
    /\ UNCHANGED <<now, orderVars, payStatus, payExpires, trade, scans, repair>>

\* They cannot be stored: close the trade unless the row is already settled.
PersistFails(p) ==
    /\ call[p] = "created"
    /\ call' = [call EXCEPT ![p] = "idle"]
    /\ IF payStatus[p] = "initiated" /\ CanClose({p})
         THEN /\ trade' = AfterClose({p})
              /\ repair' = repair \cup {p}
         ELSE UNCHANGED <<trade, repair>>
    /\ UNCHANGED <<now, orderVars, payVars, scans>>

\* reconcileRemotelyClosedPrepay
CloseRow(p) ==
    /\ p \in repair
    /\ payStatus' = IF payStatus[p] = "initiated" THEN Closed({p}) ELSE payStatus
    /\ orderStatus' = IF /\ Payable(OrderOf(p)) \ {p} = {}
                         /\ payStatus[p] # "success"
                         /\ orderStatus[OrderOf(p)] = "paying"
                        THEN [orderStatus EXCEPT ![OrderOf(p)] = "pending"]
                        ELSE orderStatus
    /\ repair' = repair \ {p}
    /\ UNCHANGED <<now, confirmed, deadline, reservation, payExpires, params, trade, call, scans>>

-----------------------------------------------------------------------------
(* Payment *)

CustomerPays(p) ==
    /\ params[p]
    /\ trade[p] = "notpay"
    /\ now < payExpires[p]
    /\ trade' = [trade EXCEPT ![p] = "paid"]
    /\ UNCHANGED <<now, orderVars, payVars, memory>>

\* Mutant of FulfillPayment: news that arrives after the prepay's expiry is dropped.
FulfillUnexpired(p) ==
    /\ trade[p] = "paid"
    /\ payStatus[p] = "initiated" /\ ~Expired(p)
    /\ orderStatus[OrderOf(p)] \in {"pending", "paying"}
    /\ payStatus' = [payStatus EXCEPT ![p] = "success"]
    /\ orderStatus' = [orderStatus EXCEPT ![OrderOf(p)] = "paid"]
    /\ reservation' = [reservation EXCEPT ![OrderOf(p)] = NoTime]
    /\ UNCHANGED <<now, confirmed, deadline, payExpires, params, trade, memory>>

\* A notification, the customer's sync or the worker's query brings the news,
\* any number of times and at any later moment.
FulfillPayment(p) ==
    /\ trade[p] = "paid"
    /\ payStatus[p] = "initiated"
    /\ orderStatus[OrderOf(p)] \in {"pending", "paying"}
    /\ payStatus' = [payStatus EXCEPT ![p] = "success"]
    /\ orderStatus' = [orderStatus EXCEPT ![OrderOf(p)] = "paid"]
    /\ reservation' = [reservation EXCEPT ![OrderOf(p)] = NoTime]
    /\ UNCHANGED <<now, confirmed, deadline, payExpires, params, trade, memory>>

Cancel(o) ==
    /\ orderStatus[o] \in {"pending", "paying"}
    /\ \A p \in Initiated(o) : Expired(p)
    /\ CanClose(Initiated(o))
    /\ trade' = AfterClose(Initiated(o))
    /\ payStatus' = Closed(Initiated(o))
    /\ orderStatus' = [orderStatus EXCEPT ![o] = "cancelled"]
    /\ deadline' = [deadline EXCEPT ![o] = NoTime]
    /\ reservation' = [reservation EXCEPT ![o] = NoTime]
    /\ UNCHANGED <<now, confirmed, payExpires, params, memory>>

\* Cancel has no catch handler: rolled back after the remote close, the row
\* stays open until the worker or the next call.
CancelRollsBack(o) ==
    /\ orderStatus[o] \in {"pending", "paying"}
    /\ Initiated(o) # {}
    /\ \A p \in Initiated(o) : Expired(p)
    /\ CanClose(Initiated(o))
    /\ trade' = AfterClose(Initiated(o))
    /\ UNCHANGED <<now, orderVars, payVars, memory>>

-----------------------------------------------------------------------------
(* The workers, the clock and the processes *)

\* reconcileExpiredPrepays: the query and the close are two calls, and the
\* customer may have paid in between.
ReconcileQuery(p) ==
    /\ payStatus[p] = "initiated"
    /\ Expired(p)
    /\ trade[p] # "paid"
    /\ scans' = scans \cup {p}
    /\ UNCHANGED <<now, orderVars, payVars, trade, call, repair>>

ReconcileClose(p) ==
    /\ p \in scans
    /\ scans' = scans \ {p}
    /\ IF CanClose({p})
         THEN /\ trade' = AfterClose({p})
              /\ repair' = repair \cup {p}
         ELSE UNCHANGED <<trade, repair>>
    /\ UNCHANGED <<now, orderVars, payVars, call>>

ExpireReservation(o) ==
    /\ LapsedReservation(o)
    /\ confirmed' = [confirmed EXCEPT ![o] = FALSE]
    /\ reservation' = [reservation EXCEPT ![o] = NoTime]
    /\ UNCHANGED <<now, orderStatus, deadline, payVars, trade, memory>>

\* Mutant of ExpireRequest: it selects the deadlines still ahead.
ExpireRequestEarly(o) ==
    /\ orderStatus[o] = "pending"
    /\ ~confirmed[o]
    /\ deadline[o] # NoTime /\ deadline[o] >= now
    /\ orderStatus' = [orderStatus EXCEPT ![o] = "cancelled"]
    /\ deadline' = [deadline EXCEPT ![o] = NoTime]
    /\ UNCHANGED <<now, confirmed, reservation, payVars, trade, memory>>

ExpireRequest(o) ==
    /\ orderStatus[o] = "pending"
    /\ ~confirmed[o]
    /\ deadline[o] # NoTime /\ deadline[o] <= now
    /\ orderStatus' = [orderStatus EXCEPT ![o] = "cancelled"]
    /\ deadline' = [deadline EXCEPT ![o] = NoTime]
    /\ UNCHANGED <<now, confirmed, reservation, payVars, trade, memory>>

\* Every process forgets what it was doing; a request already sent may still
\* arrive.
Crash ==
    /\ scans # {} \/ repair # {} \/ \E p \in Payments : call[p] \in {"calling", "created"}
    /\ call' = [p \in Payments |->
            IF call[p] \in {"calling", "orphan"} THEN "orphan" ELSE "idle"]
    /\ scans' = {}
    /\ repair' = {}
    /\ UNCHANGED <<now, orderVars, payVars, trade>>

\* A create call is over within WECHAT_REQUEST_TIMEOUT_MS (8 s), less than a
\* unit of the clock; an orphan's request may arrive at any later time.
Tick ==
    /\ now < MaxTime
    /\ \A p \in Payments : call[p] \in {"idle", "orphan"}
    /\ now' = now + 1
    /\ UNCHANGED <<orderVars, payVars, trade, memory>>

-----------------------------------------------------------------------------
(* The specification *)

CustomerStep(o) ==
    \/ Create(o)
    \/ \E p \in Payments : PrepayCreate(o, p)
    \/ PrepayReplace(o)
    \/ PrepayReuse(o)
    \/ PrepayRollsBack(o)
    \/ Cancel(o)
    \/ CancelRollsBack(o)

CompanionStep(o) == ConfirmOrder(o) \/ RejectOrder(o)

ProcessStep(p) == PersistPrepay(p) \/ PersistFails(p) \/ PrepayTimesOut(p) \/ CloseRow(p)

WechatStep(p) == WechatCreates(p) \/ CustomerPays(p)

WorkerStep ==
    \/ \E o \in Orders : ExpireReservation(o) \/ ExpireRequest(o)
    \/ \E p \in Payments : ReconcileQuery(p) \/ ReconcileClose(p)

Next ==
    \/ \E o \in Orders : CustomerStep(o) \/ CompanionStep(o)
    \/ \E p \in Payments : ProcessStep(p) \/ WechatStep(p) \/ FulfillPayment(p)
    \/ WorkerStep
    \/ Crash
    \/ Tick

Spec == Init /\ [][Next]_vars

\* The clock moves; a prepay call ends one way or another; the reconciliation
\* timer keeps scanning every due row.  A scan that a crash interrupts starts
\* over, and is not interrupted every single time (strong fairness).  Nothing
\* is assumed of customers, companions or the delivery of notifications.
Fairness ==
    /\ WF_vars(Tick)
    /\ \A p \in Payments :
        /\ WF_vars(PersistPrepay(p) \/ PersistFails(p) \/ PrepayTimesOut(p))
        /\ WF_vars(ReconcileQuery(p))
        /\ WF_vars(Expired(p) /\ FulfillPayment(p))
        /\ SF_vars(ReconcileClose(p))
        /\ SF_vars(CloseRow(p))
    /\ \A o \in Orders : WF_vars(ExpireReservation(o)) /\ WF_vars(ExpireRequest(o))

FairSpec == Spec /\ Fairness

-----------------------------------------------------------------------------
(* Properties *)

\* An order is in payment exactly while one of its prepays is open.  Three
\* unlocked parties close prepays (the worker, a failed prepay and a
\* competitor's prepay), and each must take the order out of payment only with
\* the last of them: the reservation worker frees the seat of a pending order.
PayingIffOpen ==
    \A o \in Orders : orderStatus[o] = "paying" <=> Initiated(o) # {}

\* An order never has two prepays that could both be settled.
OneOpenPrepay ==
    \A p, q \in Payments :
        /\ OrderOf(p) = OrderOf(q)
        /\ {payStatus[p], payStatus[q]} \subseteq {"initiated", "success"}
        => p = q

\* Once a prepay's row is closed the customer can no longer pay it, however late
\* WeChat created the trade: closing at WeChat comes before closing the row, and
\* parameters are handed out through an open row only.
ClosedIsUnpayable ==
    \A p \in Payments : payStatus[p] = "closed" => ~params[p] \/ trade[p] = "closed"

\* Money that WeChat has taken is never orphaned: its row can still be, or has
\* been, fulfilled, and its order is neither cancelled nor back in the pool.
NoOrphanedMoney ==
    \A p \in Payments : trade[p] = "paid" =>
        \/ payStatus[p] = "initiated" /\ orderStatus[OrderOf(p)] = "paying"
        \/ payStatus[p] = "success" /\ orderStatus[OrderOf(p)] = "paid"

\* The companion is never sold twice: over all the ways of acquiring and
\* reclaiming a seat, no more orders hold the slot than it has seats.
NoOverbooking == Cardinality({o \in Orders : Holds(o)}) <= Capacity

\* Checkout keeps the promise of BookingPromise: a charge is a paid trade at
\* WeChat, a booking a paid order here, and a crash, a lost notification or a
\* late answer never separates the two for good.
Charges(o) == Cardinality({p \in Payments : OrderOf(p) = o /\ trade[p] = "paid"})

Promise == INSTANCE BookingPromise WITH
    charges <- [o \in Orders |-> Charges(o)],
    booked  <- {o \in Orders : orderStatus[o] = "paid"}

PromiseKept == Promise!Spec

\* No prepay stays open for ever: whatever became of the create call, of the
\* customer and of the process, its row is fulfilled or closed in the end.
PrepaySettles ==
    \A p \in Payments : payStatus[p] = "initiated" ~> payStatus[p] \in {"success", "closed"}

\* A request the companion has never answered is answered or cancelled.
RequestSettles ==
    \A o \in Orders : orderStatus[o] = "pending" /\ deadline[o] # NoTime ~> deadline[o] = NoTime

\* The comment on expireUnconfirmedOrders: "An unconfirmed request is not
\* allowed to sit indefinitely."
UnconfirmedSettles ==
    \A o \in Orders :
        orderStatus[o] = "pending" /\ ~confirmed[o] ~> ~(orderStatus[o] = "pending" /\ ~confirmed[o])

=============================================================================
