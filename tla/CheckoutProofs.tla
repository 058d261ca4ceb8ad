--------------------------- MODULE CheckoutProofs ---------------------------
(***************************************************************************)
(* What holds of Checkout for any number of orders, attempts, seats and    *)
(* any length of the clock.  The invariants of the runs are not inductive: *)
(* whether a closed row can still be paid depends on which calls are under *)
(* way and on what the worker and the repairs remember.  IInv adds those   *)
(* facts, one conjunct per kind of memory.                                 *)
(***************************************************************************)
EXTENDS Checkout, FiniteSetTheorems, TLAPS

InFlight(p) == call[p] \in {"calling", "created"}

\* A fulfilled payment belongs to a paid order.
PaidIfSettled ==
    \A p \in Payments : payStatus[p] = "success" => orderStatus[OrderOf(p)] = "paid"

OrderInv == PayingIffOpen /\ OneOpenPrepay /\ PaidIfSettled

\* A call under way works for an open row with enough time left, so nobody else
\* may close that row before the call is over.
CallInv ==
    \A p \in Payments :
        /\ call[p] # "idle" => payStatus[p] # "none"
        /\ InFlight(p) => /\ payStatus[p] = "initiated"
                          /\ ~params[p]
                          /\ payExpires[p] > now + UsableWindow
        /\ call[p] = "created" => trade[p] # "absent"

\* Parameters were handed out for an existing trade only, and only they pay it.
TradeInv ==
    \A p \in Payments :
        /\ params[p] => payStatus[p] # "none" /\ trade[p] # "absent"
        /\ trade[p] = "paid" => params[p]

\* The worker remembers expired rows only.
ScanInv == \A p \in scans : payStatus[p] # "none" /\ Expired(p)

\* A row waits for its repair only when its trade cannot be paid any more.
RepairInv ==
    \A p \in repair :
        /\ payStatus[p] # "none"
        /\ ~InFlight(p)
        /\ ~params[p] \/ trade[p] = "closed"

\* What ties a row to its trade, whoever closes it.
MoneyInv == CallInv /\ TradeInv /\ ScanInv /\ RepairInv /\ ClosedIsUnpayable

IInv == OrderInv /\ MoneyInv

-----------------------------------------------------------------------------
(* Types *)

LEMMA PaymentFacts ==
    ASSUME NEW p \in Payments
    PROVE  OrderOf(p) \in Orders
BY DEF Payments, OrderOf

\* The ends of a reservation and of a prepay are times.
LEMMA Ends ==
    ASSUME TypeOK
    PROVE  /\ ReservationEnd > now + UsableWindow => ReservationEnd \in Nat
           /\ PrepayEnd > now + UsableWindow => PrepayEnd \in Nat
BY ClockAssumption DEF TypeOK, ReservationEnd, PrepayEnd, Min2

\* Closing trades and rows keeps the types of both tables.
LEMMA CloseTypes ==
    ASSUME TypeOK, NEW S
    PROVE  /\ AfterClose(S) \in [Payments -> TradeState]
           /\ Closed(S) \in [Payments -> PayStatus]
BY DEF TypeOK, AfterClose, Closed, TradeState, PayStatus

\* Sending contenders back keeps the types of the order's columns.
LEMMA PrepayTypes ==
    ASSUME TypeOK, NEW o \in Orders, NEW s \in OrderStatus, SendBack(o)
    PROVE  /\ StatusAfterPrepay(o, s) \in [Orders -> OrderStatus]
           /\ confirmed' \in [Orders -> BOOLEAN]
           /\ reservation' \in [Orders -> Times]
<1>1. StatusAfterPrepay(o, s) \in [Orders -> OrderStatus]
    BY DEF TypeOK, StatusAfterPrepay, OrderStatus
<1>2. confirmed' \in [Orders -> BOOLEAN]
    BY DEF SendBack
<1>3. reservation' \in [Orders -> Times]
    BY DEF TypeOK, SendBack, Times
<1> QED BY <1>1, <1>2, <1>3

LEMMA CustomerTypes ==
    ASSUME TypeOK, NEW o \in Orders, CustomerStep(o)
    PROVE  TypeOK'
<1>1. CASE Create(o)
    BY <1>1, ClockAssumption
    DEF TypeOK, Create, Unlapsed, OrderStatus, Times, payVars, memory
<1>2. ASSUME NEW p \in Payments, PrepayCreate(o, p)
      PROVE  TypeOK'
  <2>1. PrepayEnd \in Nat
    BY <1>2, Ends DEF PrepayCreate
  <2>2. payStatus' \in [Payments -> PayStatus]
    BY <1>2, CloseTypes DEF PrepayCreate, PayStatus
  <2>3. payExpires' \in [Payments -> Times]
    BY <1>2, <2>1 DEF PrepayCreate, TypeOK, Times
  <2>4. call' \in [Payments -> CallState]
    BY <1>2 DEF PrepayCreate, TypeOK, CallState
  <2>5. /\ orderStatus' \in [Orders -> OrderStatus]
        /\ confirmed' \in [Orders -> BOOLEAN]
        /\ reservation' \in [Orders -> Times]
    BY <1>2, PrepayTypes DEF PrepayCreate, OrderStatus
  <2>6. trade' \in [Payments -> TradeState]
    BY <1>2, CloseTypes DEF PrepayCreate
  <2> QED BY <1>2, <2>2, <2>3, <2>4, <2>5, <2>6 DEF PrepayCreate, TypeOK
<1>3. CASE PrepayReplace(o)
  <2>1. /\ orderStatus' \in [Orders -> OrderStatus]
        /\ confirmed' \in [Orders -> BOOLEAN]
        /\ reservation' \in [Orders -> Times]
    BY <1>3, PrepayTypes DEF PrepayReplace, OrderStatus
  <2> QED BY <1>3, <2>1, CloseTypes DEF PrepayReplace, TypeOK, memory
<1>4. CASE PrepayReuse(o)
  <2>1. /\ orderStatus' \in [Orders -> OrderStatus]
        /\ confirmed' \in [Orders -> BOOLEAN]
        /\ reservation' \in [Orders -> Times]
    BY <1>4, PrepayTypes DEF PrepayReuse, OrderStatus
  <2> QED BY <1>4, <2>1, CloseTypes DEF PrepayReuse, TypeOK, memory
<1>5. CASE PrepayRollsBack(o)
  <2>1. trade' \in [Payments -> TradeState]
    BY <1>5, CloseTypes DEF PrepayRollsBack
  <2>2. repair' \subseteq Payments
    BY <1>5 DEF PrepayRollsBack, TypeOK, Reclaimed, NearExpiry, Initiated
  <2> QED BY <1>5, <2>1, <2>2 DEF PrepayRollsBack, TypeOK, orderVars, payVars
<1>6. CASE Cancel(o)
  <2>1. orderStatus' \in [Orders -> OrderStatus]
    BY <1>6 DEF Cancel, TypeOK, OrderStatus
  <2>2. deadline' \in [Orders -> Times] /\ reservation' \in [Orders -> Times]
    BY <1>6 DEF Cancel, TypeOK, Times
  <2> QED BY <1>6, <2>1, <2>2, CloseTypes DEF Cancel, TypeOK, memory
<1>7. CASE CancelRollsBack(o)
    BY <1>7, CloseTypes DEF CancelRollsBack, TypeOK, orderVars, payVars, memory
<1> QED BY <1>1, <1>2, <1>3, <1>4, <1>5, <1>6, <1>7 DEF CustomerStep

LEMMA CompanionTypes ==
    ASSUME TypeOK, NEW o \in Orders, CompanionStep(o)
    PROVE  TypeOK'
<1>1. CASE ConfirmOrder(o)
  <2>1. ReservationEnd \in Nat
    BY <1>1, Ends DEF ConfirmOrder
  <2>2. confirmed' \in [Orders -> BOOLEAN]
    BY <1>1 DEF ConfirmOrder
  <2>3. reservation' \in [Orders -> Times] /\ deadline' \in [Orders -> Times]
    BY <1>1, <2>1 DEF ConfirmOrder, TypeOK, Times
  <2> QED BY <1>1, <2>2, <2>3 DEF ConfirmOrder, TypeOK, payVars, memory
<1>2. CASE RejectOrder(o)
    BY <1>2 DEF RejectOrder, TypeOK, OrderStatus, Times, payVars, memory
<1> QED BY <1>1, <1>2 DEF CompanionStep

LEMMA PaymentTypes ==
    ASSUME TypeOK, NEW p \in Payments,
           ProcessStep(p) \/ WechatStep(p) \/ FulfillPayment(p)
    PROVE  TypeOK'
<1>1. CASE PersistPrepay(p)
    BY <1>1 DEF PersistPrepay, TypeOK, CallState, orderVars
<1>2. CASE PersistFails(p)
  <2>1. trade' \in [Payments -> TradeState]
    BY <1>2, CloseTypes DEF PersistFails, TypeOK
  <2>2. repair' \subseteq Payments
    BY <1>2 DEF PersistFails, TypeOK
  <2> QED BY <1>2, <2>1, <2>2 DEF PersistFails, TypeOK, CallState, orderVars, payVars
<1>3. CASE PrepayTimesOut(p)
    BY <1>3 DEF PrepayTimesOut, TypeOK, CallState, orderVars, payVars
<1>4. CASE CloseRow(p)
  <2>1. orderStatus' \in [Orders -> OrderStatus]
    BY <1>4 DEF CloseRow, TypeOK, OrderStatus
  <2>2. payStatus' \in [Payments -> PayStatus]
    BY <1>4, CloseTypes DEF CloseRow, TypeOK
  <2> QED BY <1>4, <2>1, <2>2 DEF CloseRow, TypeOK
<1>5. CASE WechatCreates(p)
    BY <1>5 DEF WechatCreates, TypeOK, CallState, TradeState, orderVars, payVars
<1>6. CASE CustomerPays(p)
    BY <1>6 DEF CustomerPays, TypeOK, TradeState, orderVars, payVars, memory
<1>7. CASE FulfillPayment(p)
    BY <1>7 DEF FulfillPayment, TypeOK, PayStatus, OrderStatus, Times, memory
<1> QED BY <1>1, <1>2, <1>3, <1>4, <1>5, <1>6, <1>7 DEF ProcessStep, WechatStep

LEMMA WorkerTypes ==
    ASSUME TypeOK, WorkerStep \/ Crash \/ Tick
    PROVE  TypeOK'
<1>1. ASSUME NEW o \in Orders, ExpireReservation(o)
      PROVE  TypeOK'
    BY <1>1 DEF ExpireReservation, TypeOK, Times, payVars, memory
<1>2. ASSUME NEW o \in Orders, ExpireRequest(o)
      PROVE  TypeOK'
    BY <1>2 DEF ExpireRequest, TypeOK, OrderStatus, Times, payVars, memory
<1>3. ASSUME NEW p \in Payments, ReconcileQuery(p)
      PROVE  TypeOK'
    BY <1>3 DEF ReconcileQuery, TypeOK, orderVars, payVars
<1>4. ASSUME NEW p \in Payments, ReconcileClose(p)
      PROVE  TypeOK'
  <2>1. trade' \in [Payments -> TradeState]
    BY <1>4, CloseTypes DEF ReconcileClose, TypeOK
  <2> QED BY <1>4, <2>1 DEF ReconcileClose, TypeOK, orderVars, payVars
<1>5. CASE Crash
    BY <1>5 DEF Crash, TypeOK, CallState, orderVars, payVars
<1>6. CASE Tick
    BY <1>6 DEF Tick, TypeOK, orderVars, payVars, memory
<1> QED BY <1>1, <1>2, <1>3, <1>4, <1>5, <1>6 DEF WorkerStep

\* Every column keeps to the values the schema and the code give it, whatever
\* the order of customers, companions, workers, WeChat and crashes.
THEOREM TypeCorrect == Spec => []TypeOK
<1>1. Init => TypeOK
    BY DEF Init, TypeOK, Times, NoTime, OrderStatus, PayStatus, TradeState, CallState
<1>2. TypeOK /\ [Next]_vars => TypeOK'
  <2> SUFFICES ASSUME TypeOK, [Next]_vars PROVE TypeOK'
      OBVIOUS
  <2>1. CASE UNCHANGED vars
      BY <2>1 DEF vars, orderVars, payVars, memory, TypeOK
  <2>2. CASE Next
      BY <2>2, CustomerTypes, CompanionTypes, PaymentTypes, WorkerTypes DEF Next
  <2> QED BY <2>1, <2>2
<1> QED BY <1>1, <1>2, PTL DEF Spec

-----------------------------------------------------------------------------
(* Rows and trades *)

\* Closing a set of trades succeeds only if none of them can be paid afterwards.
LEMMA CloseIsFinal ==
    ASSUME TypeOK, TradeInv, NEW S, CanClose(S), NEW p \in Payments
    PROVE  /\ p \in S => ~params[p] \/ AfterClose(S)[p] = "closed"
           /\ trade[p] = "closed" => AfterClose(S)[p] = "closed"
           /\ AfterClose(S)[p] = "absent" <=> trade[p] = "absent"
           /\ AfterClose(S)[p] = "paid" => trade[p] = "paid"
BY DEF TypeOK, TradeInv, CanClose, AfterClose, TradeState

\* Nobody but its own call touches a row while the call is under way.
LEMMA ClosedRowsAreIdle ==
    ASSUME TypeOK, CallInv, NEW o \in Orders
    PROVE  /\ \A p \in Reclaimed(o) : ~InFlight(p) /\ payStatus[p] = "initiated"
           /\ \A p \in NearExpiry(o) : ~InFlight(p) /\ payStatus[p] = "initiated"
           /\ \A p \in Initiated(o) : Expired(p) => ~InFlight(p)
<1>1. UsableWindow \in Nat /\ now \in Nat
    BY ClockAssumption DEF TypeOK
<1>2. \A p \in Payments : payExpires[p] \in Int
    BY DEF TypeOK, Times, NoTime
<1> QED BY <1>1, <1>2 DEF CallInv, Reclaimed, NearExpiry, Initiated, Expired

\* Closing trades and, in the same transaction, their rows.
LEMMA CloseRowsMoney ==
    ASSUME TypeOK, MoneyInv, NEW S \in SUBSET Payments, CanClose(S),
           \A p \in S : ~InFlight(p) /\ payStatus[p] = "initiated",
           trade' = AfterClose(S), payStatus' = Closed(S),
           UNCHANGED <<now, payExpires, params, memory>>
    PROVE  MoneyInv'
<1>1. CallInv'
    BY CloseIsFinal DEF MoneyInv, CallInv, InFlight, Closed, memory, TypeOK
<1>2. TradeInv'
    BY CloseIsFinal DEF MoneyInv, TradeInv, Closed, TypeOK
<1>3. ScanInv'
    BY DEF MoneyInv, ScanInv, Closed, Expired, memory, TypeOK
<1>4. RepairInv'
    BY CloseIsFinal DEF MoneyInv, RepairInv, InFlight, Closed, memory, TypeOK
<1>5. ClosedIsUnpayable'
    BY CloseIsFinal DEF MoneyInv, ClosedIsUnpayable, Closed, TypeOK
<1> QED BY <1>1, <1>2, <1>3, <1>4, <1>5 DEF MoneyInv

\* Closing trades and remembering to close their rows.
LEMMA CloseLaterMoney ==
    ASSUME TypeOK, MoneyInv, NEW S \in SUBSET Payments, NEW R \in SUBSET S, CanClose(S),
           \A p \in S : ~InFlight(p) /\ payStatus[p] # "none",
           trade' = AfterClose(S), repair' = repair \cup R,
           UNCHANGED <<now, payVars, call>>, scans' \subseteq scans
    PROVE  MoneyInv'
<1>1. CallInv'
    BY CloseIsFinal DEF MoneyInv, CallInv, InFlight, payVars
<1>2. TradeInv'
    BY CloseIsFinal DEF MoneyInv, TradeInv, payVars
<1>3. ScanInv'
    BY DEF MoneyInv, ScanInv, Expired, payVars
<1>4. RepairInv'
    BY CloseIsFinal DEF MoneyInv, RepairInv, InFlight, payVars, TypeOK
<1>5. ClosedIsUnpayable'
    BY CloseIsFinal DEF MoneyInv, ClosedIsUnpayable, payVars
<1> QED BY <1>1, <1>2, <1>3, <1>4, <1>5 DEF MoneyInv

\* A step that leaves the rows, the trades and every memory alone.
LEMMA OrderOnlyMoney ==
    ASSUME MoneyInv, UNCHANGED <<now, payVars, trade, memory>>
    PROVE  MoneyInv'
BY DEF MoneyInv, CallInv, TradeInv, ScanInv, RepairInv, ClosedIsUnpayable, InFlight, Expired,
       payVars, memory

LEMMA PrepayCreateMoney ==
    ASSUME TypeOK, MoneyInv, NEW o \in Orders, NEW p \in Payments, PrepayCreate(o, p)
    PROVE  MoneyInv'
<1> DEFINE S == Reclaimed(o)
<1>1. /\ CanClose(S)
      /\ S \subseteq Payments
      /\ \A q \in S : ~InFlight(q) /\ payStatus[q] = "initiated"
    BY ClosedRowsAreIdle DEF PrepayCreate, SlotAvailable, Reclaimed, MoneyInv
<1>2. /\ payStatus[p] = "none" /\ p \notin S
      /\ call[p] = "idle" /\ ~params[p] /\ p \notin scans /\ p \notin repair
    BY <1>1 DEF PrepayCreate, MoneyInv, CallInv, TradeInv, ScanInv, RepairInv
<1>3. /\ payStatus'[p] = "initiated" /\ call'[p] = "calling"
      /\ payExpires'[p] = PrepayEnd /\ PrepayEnd > now + UsableWindow
    BY DEF PrepayCreate, TypeOK, Closed
<1>4. \A q \in Payments \ {p} :
        /\ payStatus'[q] = IF q \in S THEN "closed" ELSE payStatus[q]
        /\ payExpires'[q] = payExpires[q] /\ call'[q] = call[q]
    BY DEF PrepayCreate, TypeOK, Closed
<1>5. trade' = AfterClose(S) /\ UNCHANGED <<now, params, scans, repair>>
    BY DEF PrepayCreate
<1>6. CallInv'
    BY <1>1, <1>2, <1>3, <1>4, <1>5, CloseIsFinal DEF MoneyInv, CallInv, InFlight
<1>7. TradeInv'
    BY <1>1, <1>2, <1>3, <1>4, <1>5, CloseIsFinal DEF MoneyInv, TradeInv
<1>8. ScanInv'
    BY <1>2, <1>4, <1>5 DEF MoneyInv, ScanInv, Expired, TypeOK
<1>9. RepairInv'
    BY <1>1, <1>2, <1>4, <1>5, CloseIsFinal DEF MoneyInv, RepairInv, InFlight, TypeOK
<1>10. ClosedIsUnpayable'
    BY <1>1, <1>3, <1>4, <1>5, CloseIsFinal DEF MoneyInv, ClosedIsUnpayable
<1> QED BY <1>6, <1>7, <1>8, <1>9, <1>10 DEF MoneyInv

LEMMA CustomerMoney ==
    ASSUME TypeOK, MoneyInv, NEW o \in Orders, CustomerStep(o)
    PROVE  MoneyInv'
<1> DEFINE R == Reclaimed(o)
           N == NearExpiry(o)
<1>1. /\ R \subseteq Payments /\ N \subseteq Payments /\ Initiated(o) \subseteq Payments
      /\ \A p \in R \cup N : ~InFlight(p) /\ payStatus[p] = "initiated"
      /\ \A p \in Initiated(o) : payStatus[p] = "initiated" /\ (Expired(p) => ~InFlight(p))
    BY ClosedRowsAreIdle DEF Reclaimed, NearExpiry, Initiated, MoneyInv
<1>2. CASE Create(o)
    BY <1>2, OrderOnlyMoney DEF Create
<1>3. ASSUME NEW p \in Payments, PrepayCreate(o, p)
      PROVE  MoneyInv'
    BY <1>3, PrepayCreateMoney
<1>4. CASE PrepayReplace(o)
  <2>1. CanClose(R \cup N)
    BY <1>4 DEF PrepayReplace, SlotAvailable, CanClose
  <2>2. /\ trade' = AfterClose(R \cup N) /\ payStatus' = Closed(R \cup N)
        /\ UNCHANGED <<now, payExpires, params, memory>>
    BY <1>4 DEF PrepayReplace
  <2> QED BY <1>1, <2>1, <2>2, CloseRowsMoney
<1>5. CASE PrepayReuse(o)
  <2>1. CanClose(R)
    BY <1>5 DEF PrepayReuse, SlotAvailable
  <2>2. /\ trade' = AfterClose(R) /\ payStatus' = Closed(R)
        /\ UNCHANGED <<now, payExpires, params, memory>>
    BY <1>5 DEF PrepayReuse
  <2> QED BY <1>1, <2>1, <2>2, CloseRowsMoney
<1>6. CASE PrepayRollsBack(o)
  <2>1. PICK S \in SUBSET (R \cup N) :
            CanClose(S) /\ trade' = AfterClose(S) /\ repair' = repair \cup S
    <3>1. CASE \E S \in SUBSET R :
                  CanClose(S) /\ trade' = AfterClose(S) /\ repair' = repair \cup S
        BY <3>1
    <3>2. CASE /\ CanClose(R) /\ CanClose(N)
               /\ trade' = AfterClose(R \cup N) /\ repair' = repair \cup R \cup N
      <4>1. CanClose(R \cup N) /\ repair' = repair \cup (R \cup N)
        BY <3>2 DEF CanClose
      <4> QED BY <3>2, <4>1
    <3> QED BY <1>6, <3>1, <3>2 DEF PrepayRollsBack, SlotAvailable
  <2>2. UNCHANGED <<now, payVars, call, scans>>
    BY <1>6 DEF PrepayRollsBack
  <2>3. S \subseteq Payments /\ \A p \in S : ~InFlight(p) /\ payStatus[p] # "none"
    BY <1>1
  <2> QED BY <2>1, <2>2, <2>3, CloseLaterMoney
<1>7. CASE Cancel(o)
  <2>1. \A p \in Initiated(o) : ~InFlight(p) /\ payStatus[p] = "initiated"
    BY <1>1, <1>7 DEF Cancel
  <2> QED BY <1>1, <1>7, <2>1, CloseRowsMoney DEF Cancel
<1>8. CASE CancelRollsBack(o)
  <2>1. \A p \in Initiated(o) : ~InFlight(p) /\ payStatus[p] # "none"
    BY <1>1, <1>8 DEF CancelRollsBack
  <2>2. repair' = repair \cup {} /\ scans' \subseteq scans /\ UNCHANGED <<now, payVars, call>>
    BY <1>8 DEF CancelRollsBack, memory
  <2> QED BY <1>1, <1>8, <2>1, <2>2, CloseLaterMoney DEF CancelRollsBack
<1> QED BY <1>2, <1>3, <1>4, <1>5, <1>6, <1>7, <1>8 DEF CustomerStep

LEMMA CompanionMoney ==
    ASSUME MoneyInv, NEW o \in Orders, CompanionStep(o)
    PROVE  MoneyInv'
BY OrderOnlyMoney DEF CompanionStep, ConfirmOrder, RejectOrder

LEMMA CallMoney ==
    ASSUME TypeOK, MoneyInv, NEW p \in Payments,
           PersistPrepay(p) \/ PrepayTimesOut(p) \/ WechatCreates(p) \/ CustomerPays(p)
    PROVE  MoneyInv'
<1> USE DEF MoneyInv, InFlight
<1>1. CASE PersistPrepay(p)
    BY <1>1 DEF PersistPrepay, CallInv, TradeInv, ScanInv, RepairInv, ClosedIsUnpayable,
                Expired, TypeOK
<1>2. CASE PrepayTimesOut(p)
    BY <1>2 DEF PrepayTimesOut, CallInv, TradeInv, ScanInv, RepairInv, ClosedIsUnpayable,
                Expired, TypeOK, payVars
<1>3. CASE WechatCreates(p)
    BY <1>3 DEF WechatCreates, CallInv, TradeInv, ScanInv, RepairInv, ClosedIsUnpayable,
                Expired, TypeOK, payVars
<1>4. CASE CustomerPays(p)
    BY <1>4 DEF CustomerPays, CallInv, TradeInv, ScanInv, RepairInv, ClosedIsUnpayable,
                Expired, TypeOK, payVars, memory
<1> QED BY <1>1, <1>2, <1>3, <1>4

LEMMA PersistFailsMoney ==
    ASSUME TypeOK, MoneyInv, NEW p \in Payments, PersistFails(p)
    PROVE  MoneyInv'
<1> USE DEF MoneyInv
<1>1. /\ call[p] = "created" /\ payStatus[p] = "initiated" /\ ~params[p]
      /\ \A q \in Payments : InFlight(q)' => q # p /\ InFlight(q)
      /\ \A q \in Payments : call'[q] # "idle" => call'[q] = call[q]
      /\ ~InFlight(p)'
    BY DEF PersistFails, CallInv, InFlight, TypeOK
<1>2. UNCHANGED <<now, payStatus, payExpires, params, scans>>
    BY DEF PersistFails, payVars
<1>3. /\ \A q \in Payments : /\ trade[q] = "closed" => trade'[q] = "closed"
                             /\ trade'[q] = "absent" => trade[q] = "absent"
                             /\ trade'[q] = "paid" => trade[q] = "paid"
      /\ repair' \subseteq repair \cup {p}
    BY CloseIsFinal DEF PersistFails
<1>4. CallInv'
    BY <1>1, <1>2, <1>3 DEF CallInv
<1>5. TradeInv'
    BY <1>2, <1>3 DEF TradeInv
<1>6. ScanInv'
    BY <1>2 DEF ScanInv, Expired
<1>7. RepairInv'
    BY <1>1, <1>2, <1>3 DEF RepairInv, TypeOK
<1>8. ClosedIsUnpayable'
    BY <1>2, <1>3 DEF ClosedIsUnpayable
<1> QED BY <1>4, <1>5, <1>6, <1>7, <1>8

LEMMA CloseRowMoney ==
    ASSUME TypeOK, MoneyInv, NEW p \in Payments, CloseRow(p)
    PROVE  MoneyInv'
<1> USE DEF MoneyInv
<1>1. /\ ~InFlight(p) /\ payStatus[p] # "none"
      /\ ~params[p] \/ trade[p] = "closed"
    BY DEF CloseRow, RepairInv
<1>2. /\ UNCHANGED <<now, payExpires, params, trade, call, scans>>
      /\ repair' \subseteq repair
      /\ payStatus'[p] # "none"
      /\ \A q \in Payments \ {p} : payStatus'[q] = payStatus[q]
    BY <1>1 DEF CloseRow, Closed, TypeOK
<1>3. CallInv'
    BY <1>1, <1>2 DEF CallInv, InFlight
<1>4. TradeInv'
    BY <1>2 DEF TradeInv
<1>5. ScanInv'
    BY <1>2 DEF ScanInv, Expired, TypeOK
<1>6. RepairInv'
    BY <1>2 DEF RepairInv, InFlight, TypeOK
<1>7. ClosedIsUnpayable'
    BY <1>1, <1>2 DEF ClosedIsUnpayable
<1> QED BY <1>3, <1>4, <1>5, <1>6, <1>7

LEMMA FulfillMoney ==
    ASSUME TypeOK, MoneyInv, NEW p \in Payments, FulfillPayment(p)
    PROVE  MoneyInv'
<1> USE DEF MoneyInv
<1>1. ~InFlight(p)
    BY DEF FulfillPayment, TradeInv, CallInv
<1>2. /\ UNCHANGED <<now, payExpires, params, trade, memory>>
      /\ payStatus'[p] = "success"
      /\ \A q \in Payments \ {p} : payStatus'[q] = payStatus[q]
    BY DEF FulfillPayment, TypeOK
<1>3. CallInv'
    BY <1>1, <1>2 DEF CallInv, InFlight, memory
<1>4. TradeInv'
    BY <1>2 DEF TradeInv
<1>5. ScanInv'
    BY <1>2 DEF ScanInv, Expired, TypeOK, memory
<1>6. RepairInv'
    BY <1>2 DEF RepairInv, InFlight, TypeOK, memory
<1>7. ClosedIsUnpayable'
    BY <1>2 DEF ClosedIsUnpayable
<1> QED BY <1>3, <1>4, <1>5, <1>6, <1>7

LEMMA WorkerMoney ==
    ASSUME TypeOK, MoneyInv, WorkerStep \/ Crash \/ Tick
    PROVE  MoneyInv'
<1>0. /\ UsableWindow \in Nat /\ now \in Nat
      /\ \A p \in Payments : payExpires[p] \in Int
    BY ClockAssumption DEF TypeOK, Times, NoTime
<1>1. ASSUME NEW o \in Orders, ExpireReservation(o) \/ ExpireRequest(o)
      PROVE  MoneyInv'
    BY <1>1, OrderOnlyMoney DEF ExpireReservation, ExpireRequest
<1>2. ASSUME NEW p \in Payments, ReconcileQuery(p)
      PROVE  MoneyInv'
    BY <1>2 DEF ReconcileQuery, MoneyInv, CallInv, TradeInv, ScanInv, RepairInv,
                ClosedIsUnpayable, InFlight, Expired, payVars
<1>3. ASSUME NEW p \in Payments, ReconcileClose(p)
      PROVE  MoneyInv'
  <2>1. payStatus[p] # "none" /\ ~InFlight(p)
    BY <1>0, <1>3 DEF ReconcileClose, MoneyInv, ScanInv, CallInv, Expired
  <2>2. scans' \subseteq scans /\ UNCHANGED <<now, payVars, call>>
    BY <1>3 DEF ReconcileClose
  <2>3. CASE CanClose({p})
    <3>1. trade' = AfterClose({p}) /\ repair' = repair \cup {p}
      BY <1>3, <2>3 DEF ReconcileClose
    <3> QED BY <2>1, <2>2, <2>3, <3>1, CloseLaterMoney
  <2>4. CASE ~CanClose({p})
    BY <1>3, <2>2, <2>4 DEF ReconcileClose, MoneyInv, CallInv, TradeInv, ScanInv, RepairInv,
                ClosedIsUnpayable, InFlight, Expired, payVars
  <2> QED BY <2>3, <2>4
<1>4. CASE Crash
    BY <1>4 DEF Crash, MoneyInv, CallInv, TradeInv, ScanInv, RepairInv, ClosedIsUnpayable,
                InFlight, payVars
<1>5. CASE Tick
  <2>1. \A p \in Payments : ~InFlight(p)
    BY <1>5 DEF Tick, InFlight
  <2>2. \A p \in Payments : Expired(p) => Expired(p)'
    BY <1>0, <1>5 DEF Tick, Expired, payVars
  <2> QED BY <1>5, <2>1, <2>2 DEF Tick, MoneyInv, CallInv, TradeInv, ScanInv, RepairInv,
                ClosedIsUnpayable, InFlight, payVars, memory, TypeOK
<1> QED BY <1>1, <1>2, <1>3, <1>4, <1>5 DEF WorkerStep

-----------------------------------------------------------------------------
(* Orders and rows *)

\* The one open prepay of an order is the only row that can still be settled.
LEMMA OnlyOpenRow ==
    ASSUME TypeOK, OrderInv, NEW p \in Payments, payStatus[p] = "initiated"
    PROVE  /\ Initiated(OrderOf(p)) = {p}
           /\ Payable(OrderOf(p)) \ {p} = {}
           /\ orderStatus[OrderOf(p)] = "paying"
BY PaymentFacts DEF OrderInv, OneOpenPrepay, PayingIffOpen, Initiated, Payable

\* A step that touches no row and takes no order into or out of payment.
LEMMA SameRows ==
    ASSUME OrderInv, UNCHANGED payStatus,
           \A o \in Orders :
               /\ orderStatus'[o] = "paying" <=> orderStatus[o] = "paying"
               /\ orderStatus[o] = "paid" => orderStatus'[o] = "paid"
    PROVE  OrderInv'
<1>1. PayingIffOpen'
  <2>1. \A o \in Orders : Initiated(o)' = Initiated(o)
    BY DEF Initiated
  <2> QED BY <2>1 DEF OrderInv, PayingIffOpen
<1>2. OneOpenPrepay'
    BY DEF OrderInv, OneOpenPrepay
<1>3. PaidIfSettled'
    BY PaymentFacts DEF OrderInv, PaidIfSettled
<1> QED BY <1>1, <1>2, <1>3 DEF OrderInv

\* A transaction that closes rows R, and with them takes exactly those orders out
\* of payment whose open row is among them.
LEMMA CloseRowsOrders ==
    ASSUME TypeOK, OrderInv, NEW R \in SUBSET Payments,
           \A p \in R : payStatus[p] = "initiated",
           payStatus' = Closed(R),
           \A o \in Orders :
               /\ orderStatus'[o] = "paying" <=> orderStatus[o] = "paying" /\ Initiated(o) \cap R = {}
               /\ orderStatus[o] = "paid" => orderStatus'[o] = "paid"
    PROVE  OrderInv'
<1>1. \A p \in Payments : payStatus'[p] = IF p \in R THEN "closed" ELSE payStatus[p]
    BY DEF Closed
<1>2. PayingIffOpen'
  <2> SUFFICES ASSUME NEW o \in Orders
               PROVE  orderStatus'[o] = "paying" <=> Initiated(o)' # {}
      BY DEF PayingIffOpen
  <2>1. Initiated(o)' = Initiated(o) \ R
    BY <1>1 DEF Initiated
  <2>2. Initiated(o) \cap R # {} => Initiated(o) \ R = {}
    BY DEF OrderInv, OneOpenPrepay, Initiated
  <2>3. orderStatus[o] = "paying" <=> Initiated(o) # {}
    BY DEF OrderInv, PayingIffOpen
  <2> QED BY <2>1, <2>2, <2>3
<1>3. OneOpenPrepay'
    BY <1>1 DEF OrderInv, OneOpenPrepay
<1>4. PaidIfSettled'
    BY <1>1, PaymentFacts DEF OrderInv, PaidIfSettled
<1> QED BY <1>2, <1>3, <1>4 DEF OrderInv

\* Prepay closes exactly the open rows of the competitors it sends back.
LEMMA ReclaimedRows ==
    ASSUME TypeOK, OrderInv, NEW o \in Orders, NEW x \in Orders
    PROVE  /\ x = o => Initiated(x) \cap Reclaimed(o) = {} /\ x \notin SentBack(o)
           /\ x \in SentBack(o) => orderStatus[x] \in {"pending", "paying"}
           /\ orderStatus[x] = "paying" =>
                (x \in SentBack(o) <=> Initiated(x) \cap Reclaimed(o) # {})
<1>1. x = o => x \notin Contenders(o)
    BY DEF Contenders
<1>2. \A p \in Reclaimed(o) : p \in Payments /\ OrderOf(p) \in Contenders(o) /\ Expired(p)
    BY DEF Reclaimed
<1>3. \A p \in Initiated(x) : OrderOf(p) = x
    BY DEF Initiated
<1>4. x \in SentBack(o) => x \in Contenders(o)
    BY DEF SentBack
<1>5. ASSUME orderStatus[x] = "paying"
      PROVE  x \in SentBack(o) <=> Initiated(x) \cap Reclaimed(o) # {}
  <2>1. PICK p \in Payments : Initiated(x) = {p}
    BY <1>5, OnlyOpenRow DEF OrderInv, PayingIffOpen, Initiated
  <2>2. OrderOf(p) = x /\ payStatus[p] = "initiated"
    BY <2>1 DEF Initiated
  <2>3. x \in SentBack(o) <=> x \in Contenders(o) /\ Expired(p)
    BY <1>5, <2>1 DEF SentBack, FreshPrepay
  <2>4. p \in Reclaimed(o) <=> x \in Contenders(o) /\ Expired(p)
    BY <2>2 DEF Reclaimed
  <2> QED BY <2>1, <2>3, <2>4
<1> QED BY <1>1, <1>2, <1>3, <1>4, <1>5 DEF Contenders

LEMMA PrepayCreateOrders ==
    ASSUME TypeOK, OrderInv, NEW o \in Orders, NEW p \in Payments, PrepayCreate(o, p)
    PROVE  OrderInv'
<1> DEFINE R == Reclaimed(o)
<1>1. OrderOf(p) = o /\ Initiated(o) = {} /\ orderStatus[o] \in {"pending", "paying"}
    BY DEF PrepayCreate, CanPrepay
<1>2. /\ R \subseteq Payments /\ p \notin R
      /\ \A q \in R : payStatus[q] = "initiated" /\ OrderOf(q) # o
    BY DEF PrepayCreate, Reclaimed, Contenders
<1>3. payStatus'[p] = "initiated"
    BY DEF PrepayCreate, Closed
<1>4. \A q \in Payments \ {p} :
        payStatus'[q] = IF q \in R THEN "closed" ELSE payStatus[q]
    BY DEF PrepayCreate, Closed
<1>5. \A x \in Orders : orderStatus'[x] =
        IF x = o THEN "paying" ELSE IF x \in SentBack(o) THEN "pending" ELSE orderStatus[x]
    BY DEF PrepayCreate, StatusAfterPrepay
<1>6. \A q \in Payments : OrderOf(q) = o => payStatus[q] \notin {"initiated", "success"}
    BY <1>1 DEF OrderInv, PaidIfSettled, Initiated
<1>7. PayingIffOpen'
  <2> SUFFICES ASSUME NEW x \in Orders
               PROVE  orderStatus'[x] = "paying" <=> Initiated(x)' # {}
      BY DEF PayingIffOpen
  <2>1. CASE x = o
      BY <1>1, <1>3, <1>5, <2>1 DEF Initiated
  <2>2. CASE x # o
    <3>1. Initiated(x)' = Initiated(x) \ R
      BY <1>1, <1>4, <2>2 DEF Initiated
    <3>2. orderStatus[x] = "paying" <=> Initiated(x) # {}
      BY DEF OrderInv, PayingIffOpen
    <3>3. Initiated(x) \cap R # {} => Initiated(x) \ R = {}
      BY DEF OrderInv, OneOpenPrepay, Initiated
    <3> QED BY <1>5, <2>2, <3>1, <3>2, <3>3, ReclaimedRows
  <2> QED BY <2>1, <2>2
<1>8. OneOpenPrepay'
    BY <1>1, <1>3, <1>4, <1>6 DEF OrderInv, OneOpenPrepay
<1>9. PaidIfSettled'
    BY <1>1, <1>3, <1>4, <1>5, <1>6, PaymentFacts, ReclaimedRows DEF OrderInv, PaidIfSettled
<1> QED BY <1>7, <1>8, <1>9 DEF OrderInv

LEMMA CustomerOrders ==
    ASSUME TypeOK, OrderInv, NEW o \in Orders, CustomerStep(o)
    PROVE  OrderInv'
<1> DEFINE R == Reclaimed(o)
           N == NearExpiry(o)
<1>1. /\ R \subseteq Payments /\ N \subseteq Initiated(o) /\ Initiated(o) \subseteq Payments
      /\ \A p \in R \cup Initiated(o) : payStatus[p] = "initiated"
      /\ \A p \in Initiated(o) : OrderOf(p) = o
    BY DEF Reclaimed, NearExpiry, Initiated
<1>2. CASE Create(o)
    BY <1>2, SameRows DEF Create, TypeOK, payVars
<1>3. ASSUME NEW p \in Payments, PrepayCreate(o, p)
      PROVE  OrderInv'
    BY <1>3, PrepayCreateOrders
<1>4. CASE PrepayReplace(o)
  <2>1. payStatus' = Closed(R \cup N)
    BY <1>4 DEF PrepayReplace
  <2>2. \A x \in Orders : orderStatus'[x] =
          IF x = o THEN "pending" ELSE IF x \in SentBack(o) THEN "pending" ELSE orderStatus[x]
    BY <1>4 DEF PrepayReplace, StatusAfterPrepay
  <2>3. Initiated(o) \cap N # {} /\ orderStatus[o] \in {"pending", "paying"}
    BY <1>1, <1>4 DEF PrepayReplace, CanPrepay
  <2>4. \A x \in Orders \ {o} : Initiated(x) \cap N = {}
    BY <1>1 DEF Initiated
  <2>5. \A x \in Orders :
          /\ orderStatus'[x] = "paying" <=>
                orderStatus[x] = "paying" /\ Initiated(x) \cap (R \cup N) = {}
          /\ orderStatus[x] = "paid" => orderStatus'[x] = "paid"
    BY <2>2, <2>3, <2>4, ReclaimedRows
  <2> QED BY <1>1, <2>1, <2>5, CloseRowsOrders
<1>5. CASE PrepayReuse(o)
  <2>1. payStatus' = Closed(R)
    BY <1>5 DEF PrepayReuse
  <2>2. \A x \in Orders : orderStatus'[x] =
          IF x = o THEN "paying" ELSE IF x \in SentBack(o) THEN "pending" ELSE orderStatus[x]
    BY <1>5 DEF PrepayReuse, StatusAfterPrepay
  <2>3. orderStatus[o] = "paying"
    BY <1>5 DEF PrepayReuse, OrderInv, PayingIffOpen
  <2>4. \A x \in Orders :
          /\ orderStatus'[x] = "paying" <=> orderStatus[x] = "paying" /\ Initiated(x) \cap R = {}
          /\ orderStatus[x] = "paid" => orderStatus'[x] = "paid"
    BY <2>2, <2>3, ReclaimedRows
  <2> QED BY <1>1, <2>1, <2>4, CloseRowsOrders
<1>6. CASE PrepayRollsBack(o)
    BY <1>6, SameRows DEF PrepayRollsBack, orderVars, payVars
<1>7. CASE Cancel(o)
  <2>1. \A x \in Orders : orderStatus'[x] = IF x = o THEN "cancelled" ELSE orderStatus[x]
    BY <1>7 DEF Cancel, TypeOK
  <2>2. orderStatus[o] = "paying" => Initiated(o) # {}
    BY DEF OrderInv, PayingIffOpen
  <2>3. \A x \in Orders \ {o} : Initiated(x) \cap Initiated(o) = {}
    BY DEF Initiated
  <2>4. \A x \in Orders :
          /\ orderStatus'[x] = "paying" <=>
                orderStatus[x] = "paying" /\ Initiated(x) \cap Initiated(o) = {}
          /\ orderStatus[x] = "paid" => orderStatus'[x] = "paid"
    BY <1>7, <2>1, <2>2, <2>3 DEF Cancel
  <2> QED BY <1>1, <1>7, <2>4, CloseRowsOrders DEF Cancel
<1>8. CASE CancelRollsBack(o)
    BY <1>8, SameRows DEF CancelRollsBack, orderVars, payVars
<1> QED BY <1>2, <1>3, <1>4, <1>5, <1>6, <1>7, <1>8 DEF CustomerStep

LEMMA CompanionOrders ==
    ASSUME TypeOK, OrderInv, NEW o \in Orders, CompanionStep(o)
    PROVE  OrderInv'
BY SameRows DEF CompanionStep, ConfirmOrder, RejectOrder, payVars, TypeOK

LEMMA PaymentOrders ==
    ASSUME TypeOK, OrderInv, NEW p \in Payments,
           ProcessStep(p) \/ WechatStep(p) \/ FulfillPayment(p)
    PROVE  OrderInv'
<1>1. CASE PersistPrepay(p) \/ PersistFails(p) \/ PrepayTimesOut(p) \/ WechatStep(p)
    BY <1>1, SameRows DEF PersistPrepay, PersistFails, PrepayTimesOut, WechatStep,
        WechatCreates, CustomerPays, orderVars, payVars
<1>2. CASE CloseRow(p)
  <2>1. CASE payStatus[p] = "initiated"
    <3>1. Initiated(OrderOf(p)) = {p}
      BY <2>1, OnlyOpenRow
    <3>2. payStatus' = Closed({p})
      BY <1>2, <2>1 DEF CloseRow
    <3>3. \A o \in Orders : orderStatus'[o] = IF o = OrderOf(p) THEN "pending" ELSE orderStatus[o]
      BY <1>2, <2>1, OnlyOpenRow DEF CloseRow, TypeOK
    <3>4. \A o \in Orders \ {OrderOf(p)} : Initiated(o) \cap {p} = {}
      BY DEF Initiated
    <3>5. \A o \in Orders :
            /\ orderStatus'[o] = "paying" <=> orderStatus[o] = "paying" /\ Initiated(o) \cap {p} = {}
            /\ orderStatus[o] = "paid" => orderStatus'[o] = "paid"
      BY <2>1, <3>1, <3>3, <3>4, OnlyOpenRow
    <3> QED BY <2>1, <3>2, <3>5, CloseRowsOrders
  <2>2. CASE payStatus[p] # "initiated"
    <3>1. orderStatus[OrderOf(p)] = "paying" => Payable(OrderOf(p)) \ {p} # {}
      BY <2>2, PaymentFacts DEF OrderInv, PayingIffOpen, Initiated, Payable
    <3> QED BY <1>2, <2>2, <3>1, SameRows DEF CloseRow
  <2> QED BY <2>1, <2>2
<1>3. CASE FulfillPayment(p)
  <2>1. /\ payStatus[p] = "initiated"
        /\ payStatus'[p] = "success"
        /\ \A q \in Payments \ {p} : payStatus'[q] = payStatus[q]
        /\ \A o \in Orders : orderStatus'[o] = IF o = OrderOf(p) THEN "paid" ELSE orderStatus[o]
    BY <1>3 DEF FulfillPayment, TypeOK
  <2>2. PayingIffOpen'
    <3> SUFFICES ASSUME NEW o \in Orders
                 PROVE  orderStatus'[o] = "paying" <=> Initiated(o)' # {}
        BY DEF PayingIffOpen
    <3>1. Initiated(o)' = Initiated(o) \ {p}
      BY <2>1 DEF Initiated
    <3>2. o # OrderOf(p) => Initiated(o) \ {p} = Initiated(o)
      BY DEF Initiated
    <3> QED BY <2>1, <3>1, <3>2, OnlyOpenRow DEF OrderInv, PayingIffOpen
  <2>3. OneOpenPrepay'
    BY <2>1 DEF OrderInv, OneOpenPrepay
  <2>4. PaidIfSettled'
    BY <2>1, PaymentFacts DEF OrderInv, PaidIfSettled
  <2> QED BY <2>2, <2>3, <2>4 DEF OrderInv
<1> QED BY <1>1, <1>2, <1>3 DEF ProcessStep

LEMMA WorkerOrders ==
    ASSUME TypeOK, OrderInv, WorkerStep \/ Crash \/ Tick
    PROVE  OrderInv'
BY SameRows DEF WorkerStep, ExpireReservation, ExpireRequest, ReconcileQuery, ReconcileClose,
    Crash, Tick, orderVars, payVars, TypeOK

-----------------------------------------------------------------------------
(* Seats *)

Holders == {o \in Orders : Holds(o)}

\* Only requests that exist were ever confirmed.
ConfirmedExists == \A o \in Orders : confirmed[o] => orderStatus[o] # "none"

SeatInv == NoOverbooking /\ ConfirmedExists

LEMMA ConfirmedExistsKept ==
    ASSUME TypeOK, OrderInv, ConfirmedExists, [Next]_vars
    PROVE  ConfirmedExists'
<1>1. ASSUME NEW o \in Orders, CustomerStep(o)
      PROVE  ConfirmedExists'
  <2>1. \A x \in Orders : /\ confirmed'[x] => confirmed[x]
                          /\ orderStatus'[x] = "none" => orderStatus[x] = "none"
    BY <1>1 DEF CustomerStep, Create, Unlapsed, PrepayCreate, PrepayReplace, PrepayReuse,
        PrepayRollsBack, Cancel, CancelRollsBack, SendBack, StatusAfterPrepay, orderVars, TypeOK
  <2> QED BY <2>1 DEF ConfirmedExists
<1>2. ASSUME NEW o \in Orders, CompanionStep(o)
      PROVE  ConfirmedExists'
    BY <1>2 DEF CompanionStep, ConfirmOrder, RejectOrder, ConfirmedExists, TypeOK
<1>3. ASSUME NEW p \in Payments, ProcessStep(p) \/ WechatStep(p) \/ FulfillPayment(p)
      PROVE  ConfirmedExists'
    BY <1>3 DEF ProcessStep, WechatStep, PersistPrepay, PersistFails, PrepayTimesOut, CloseRow,
        WechatCreates, CustomerPays, FulfillPayment, orderVars, ConfirmedExists, TypeOK
<1>4. CASE WorkerStep \/ Crash \/ Tick \/ UNCHANGED vars
    BY <1>4 DEF WorkerStep, ExpireReservation, ExpireRequest, ReconcileQuery, ReconcileClose,
        Crash, Tick, vars, orderVars, ConfirmedExists, TypeOK
<1> QED BY <1>1, <1>2, <1>3, <1>4 DEF Next

\* A step after which nobody holds a seat who did not hold one before.
LEMMA FewerHolders ==
    ASSUME NoOverbooking, \A o \in Orders : Holds(o)' => Holds(o)
    PROVE  NoOverbooking'
<1>1. IsFiniteSet(Holders) /\ Holders' \subseteq Holders
    BY OrdersAssumption, FS_Subset DEF Holders
<1>2. Cardinality(Holders') <= Cardinality(Holders)
        /\ Cardinality(Holders') \in Nat /\ Cardinality(Holders) \in Nat
    BY <1>1, FS_Subset, FS_CardinalityType
<1> QED BY <1>2, CapacityAssumption DEF NoOverbooking, Holders

\* Confirmation is the only way to a seat, and it counts the others first.
LEMMA ConfirmSeats ==
    ASSUME TypeOK, NEW o \in Orders, ConfirmOrder(o)
    PROVE  NoOverbooking'
<1> DEFINE Others == {x \in Orders \ {o} : Holds(x)}
<1>1. IsFiniteSet(Others) /\ Cardinality(Others) \in Nat /\ Cardinality(Others) < Capacity
    BY OrdersAssumption, FS_Subset, FS_CardinalityType DEF ConfirmOrder, SlotFree
<1>2. \A x \in Orders \ {o} : Holds(x)' => Holds(x)
    BY DEF ConfirmOrder, Holds, LiveReservation, LapsedReservation, TypeOK, NoTime
<1>3. Holders' \subseteq Others \cup {o}
    BY <1>2 DEF Holders
<1>4. IsFiniteSet(Others \cup {o}) /\ Cardinality(Others \cup {o}) = Cardinality(Others) + 1
    BY <1>1, FS_AddElement
<1>5. Cardinality(Holders') <= Cardinality(Others \cup {o}) /\ Cardinality(Holders') \in Nat
    BY <1>3, <1>4, FS_Subset, FS_CardinalityType
<1> QED BY <1>1, <1>4, <1>5, CapacityAssumption DEF NoOverbooking, Holders

LEMMA PrepaySeats ==
    ASSUME NoOverbooking, NEW o \in Orders, NEW s \in OrderStatus,
           CanPrepay(o), SendBack(o), now' = now, orderStatus' = StatusAfterPrepay(o, s)
    PROVE  NoOverbooking'
<1>1. Holds(o)
    BY DEF CanPrepay, Holds
<1>2. \A x \in Orders \ {o} : Holds(x)' => Holds(x)
    BY DEF SendBack, StatusAfterPrepay, Holds, LiveReservation
<1> QED BY <1>1, <1>2, FewerHolders

LEMMA CustomerSeats ==
    ASSUME TypeOK, NoOverbooking, ConfirmedExists, NEW o \in Orders, CustomerStep(o)
    PROVE  NoOverbooking'
<1>1. CASE Create(o)
  <2>1. \A x \in Orders : Holds(x)' => Holds(x)
    <3>1. SUFFICES ASSUME NEW x \in Orders, Holds(x)' PROVE Holds(x)
        OBVIOUS
    <3>2. CASE x # o
      BY <1>1, <3>1, <3>2
      DEF Create, Unlapsed, Holds, LiveReservation, LapsedReservation, TypeOK, NoTime
    <3>3. CASE x = o
      BY <1>1, <3>1, <3>3 DEF Create, Unlapsed, Holds, LiveReservation, ConfirmedExists, TypeOK
    <3> QED BY <3>2, <3>3
  <2> QED BY <2>1, FewerHolders
<1>2. ASSUME NEW p \in Payments, PrepayCreate(o, p)
      PROVE  NoOverbooking'
    BY <1>2, PrepaySeats DEF PrepayCreate, OrderStatus
<1>3. CASE PrepayReplace(o)
    BY <1>3, PrepaySeats DEF PrepayReplace, OrderStatus
<1>4. CASE PrepayReuse(o)
    BY <1>4, PrepaySeats DEF PrepayReuse, OrderStatus
<1>5. CASE PrepayRollsBack(o) \/ CancelRollsBack(o)
    BY <1>5, FewerHolders DEF PrepayRollsBack, CancelRollsBack, orderVars, Holds, LiveReservation
<1>6. CASE Cancel(o)
    BY <1>6, FewerHolders DEF Cancel, Holds, LiveReservation, TypeOK
<1> QED BY <1>1, <1>2, <1>3, <1>4, <1>5, <1>6 DEF CustomerStep

LEMMA PaymentSeats ==
    ASSUME TypeOK, OrderInv, NoOverbooking, NEW p \in Payments,
           ProcessStep(p) \/ WechatStep(p) \/ FulfillPayment(p)
    PROVE  NoOverbooking'
<1>1. CASE ProcessStep(p) \/ WechatStep(p)
  <2>1. \A o \in Orders : Holds(o)' => Holds(o)
    BY <1>1 DEF ProcessStep, WechatStep, PersistPrepay, PersistFails, PrepayTimesOut, CloseRow,
        WechatCreates, CustomerPays, orderVars, Holds, LiveReservation, TypeOK
  <2> QED BY <2>1, FewerHolders
<1>2. CASE FulfillPayment(p)
  <2>1. orderStatus[OrderOf(p)] = "paying"
    BY <1>2, OnlyOpenRow DEF FulfillPayment
  <2>2. \A o \in Orders : Holds(o)' => Holds(o)
    BY <1>2, <2>1 DEF FulfillPayment, Holds, LiveReservation, TypeOK
  <2> QED BY <2>2, FewerHolders
<1> QED BY <1>1, <1>2

LEMMA WorkerSeats ==
    ASSUME TypeOK, NoOverbooking, WorkerStep \/ Crash \/ Tick
    PROVE  NoOverbooking'
<1>1. \A o \in Orders : reservation[o] \in Int /\ now \in Nat
    BY DEF TypeOK, Times, NoTime
<1>2. \A o \in Orders : Holds(o)' => Holds(o)
  <2>1. CASE UNCHANGED <<now, orderVars>>
    BY <2>1 DEF orderVars, Holds, LiveReservation
  <2>2. CASE Tick
    BY <1>1, <2>2 DEF Tick, orderVars, Holds, LiveReservation
  <2>3. ASSUME NEW x \in Orders, ExpireReservation(x)
        PROVE  \A o \in Orders : Holds(o)' => Holds(o)
    BY <2>3 DEF ExpireReservation, Holds, LiveReservation, TypeOK
  <2>4. ASSUME NEW x \in Orders, ExpireRequest(x)
        PROVE  \A o \in Orders : Holds(o)' => Holds(o)
    BY <2>4 DEF ExpireRequest, Holds, LiveReservation, TypeOK
  <2> QED BY <2>1, <2>2, <2>3, <2>4 DEF WorkerStep, ReconcileQuery, ReconcileClose, Crash
<1> QED BY <1>2, FewerHolders

-----------------------------------------------------------------------------
(* The theorems *)

LEMMA Inductive == Spec => []IInv
<1>1. Init => IInv
    BY PaymentFacts
    DEF Init, IInv, OrderInv, MoneyInv, PayingIffOpen, OneOpenPrepay, PaidIfSettled, CallInv,
        TradeInv, ScanInv, RepairInv, ClosedIsUnpayable, InFlight, Initiated
<1>2. TypeOK /\ IInv /\ [Next]_vars => IInv'
  <2> SUFFICES ASSUME TypeOK, IInv, [Next]_vars PROVE IInv'
      OBVIOUS
  <2>1. CASE UNCHANGED vars
      BY <2>1, SameRows, OrderOnlyMoney DEF vars, orderVars, payVars, IInv
  <2>2. ASSUME NEW o \in Orders, CustomerStep(o) \/ CompanionStep(o)
        PROVE  IInv'
      BY <2>2, CustomerMoney, CustomerOrders, CompanionMoney, CompanionOrders DEF IInv
  <2>3. ASSUME NEW p \in Payments, ProcessStep(p) \/ WechatStep(p) \/ FulfillPayment(p)
        PROVE  IInv'
    <3>1. MoneyInv'
      BY <2>3, CallMoney, PersistFailsMoney, CloseRowMoney, FulfillMoney
      DEF IInv, ProcessStep, WechatStep
    <3>2. OrderInv'
      BY <2>3, PaymentOrders DEF IInv
    <3> QED BY <3>1, <3>2 DEF IInv
  <2>4. CASE WorkerStep \/ Crash \/ Tick
      BY <2>4, WorkerMoney, WorkerOrders DEF IInv
  <2> QED BY <2>1, <2>2, <2>3, <2>4 DEF Next
<1> QED BY <1>1, <1>2, TypeCorrect, PTL DEF Spec

\* No path through prepay, its failures, the worker and a crash leaves an order
\* in payment without an open prepay, or an open prepay on an order that is not.
THEOREM PayingIffOpenAlways == Spec => []PayingIffOpen
<1>1. IInv => PayingIffOpen
    BY DEF IInv, OrderInv
<1> QED BY <1>1, Inductive, PTL

\* Retries, replacements and reclaimed seats never give an order two prepays that
\* could both be settled.
THEOREM OneOpenPrepayAlways == Spec => []OneOpenPrepay
<1>1. IInv => OneOpenPrepay
    BY DEF IInv, OrderInv
<1> QED BY <1>1, Inductive, PTL

\* Whoever closed the row and however late its trade came into being, a customer
\* can never pay a closed prepay.
THEOREM ClosedIsUnpayableAlways == Spec => []ClosedIsUnpayable
<1>1. IInv => ClosedIsUnpayable
    BY DEF IInv, MoneyInv
<1> QED BY <1>1, Inductive, PTL

\* Money taken by WeChat always belongs to a row that is settled or can still be,
\* and to an order that is paid or still in payment.
THEOREM NoOrphanedMoneyAlways == Spec => []NoOrphanedMoney
<1>1. TypeOK /\ IInv => NoOrphanedMoney
  <2> SUFFICES ASSUME TypeOK, IInv, NEW p \in Payments, trade[p] = "paid"
               PROVE  \/ payStatus[p] = "initiated" /\ orderStatus[OrderOf(p)] = "paying"
                      \/ payStatus[p] = "success" /\ orderStatus[OrderOf(p)] = "paid"
      BY DEF NoOrphanedMoney
  <2>1. params[p] /\ payStatus[p] # "none"
    BY DEF IInv, MoneyInv, TradeInv
  <2>2. payStatus[p] # "closed"
    BY <2>1 DEF IInv, MoneyInv, ClosedIsUnpayable
  <2>3. payStatus[p] \in {"initiated", "success"}
    BY <2>1, <2>2 DEF TypeOK, PayStatus
  <2> QED BY <2>3, OnlyOpenRow DEF IInv, OrderInv, PaidIfSettled
<1> QED BY <1>1, TypeCorrect, Inductive, PTL


\* A slot is never sold beyond its seats, however confirmations, prepays, lapsing
\* reservations and reclaimed seats interleave.
THEOREM NoOverbookingAlways == Spec => []NoOverbooking
<1>1. Init => SeatInv
  <2>1. Init => Holders = {}
    BY DEF Init, Holders, Holds
  <2> QED BY <2>1, FS_EmptySet, CapacityAssumption
      DEF Init, SeatInv, NoOverbooking, ConfirmedExists, Holders
<1>2. TypeOK /\ IInv /\ SeatInv /\ [Next]_vars => SeatInv'
  <2> SUFFICES ASSUME TypeOK, IInv, SeatInv, [Next]_vars PROVE SeatInv'
      OBVIOUS
  <2>1. NoOverbooking'
    <3>1. CASE UNCHANGED vars
      BY <3>1, FewerHolders DEF vars, orderVars, Holds, LiveReservation, SeatInv
    <3>2. ASSUME NEW o \in Orders, CustomerStep(o) \/ CompanionStep(o)
          PROVE  NoOverbooking'
      <4>1. CASE RejectOrder(o)
        BY <4>1, FewerHolders DEF RejectOrder, Holds, LiveReservation, TypeOK, SeatInv
      <4> QED BY <3>2, <4>1, CustomerSeats, ConfirmSeats DEF CompanionStep, SeatInv
    <3> QED BY <3>1, <3>2, PaymentSeats, WorkerSeats DEF Next, IInv, SeatInv
  <2>2. ConfirmedExists'
    BY ConfirmedExistsKept DEF SeatInv, IInv
  <2> QED BY <2>1, <2>2 DEF SeatInv
<1>3. SeatInv => NoOverbooking
    BY DEF SeatInv
<1> QED BY <1>1, <1>2, <1>3, TypeCorrect, Inductive, PTL DEF Spec

-----------------------------------------------------------------------------
(* The refinement: every step of Checkout is a step of BookingPromise or a    *)
(* stutter.                                                                   *)

\* What the trades and the orders say of charges and bookings.
ChargedOf(o) == {p \in Payments : OrderOf(p) = o /\ trade[p] = "paid"}
Booked == {o \in Orders : orderStatus[o] = "paid"}

\* A row is settled only by a trade that was paid, and a paid trade stays paid.
SettledIsCharged == \A p \in Payments : payStatus[p] = "success" => trade[p] = "paid"

\* The only steps that change what the customer has paid or what is booked.
Pays     == \E p \in Payments : CustomerPays(p)
Fulfills == \E p \in Payments : FulfillPayment(p)

\* WeChat closes only trades nobody has paid.
LEMMA CloseKeepsPaid ==
    ASSUME NEW S, NEW p \in Payments
    PROVE  AfterClose(S)[p] = "paid" <=> trade[p] = "paid"
BY DEF AfterClose

\* All other steps leave the paid trades, the paid orders and the settled rows as
\* they are.
LEMMA OtherCustomerSteps ==
    ASSUME TypeOK, NEW o \in Orders, CustomerStep(o) \/ CompanionStep(o)
    PROVE  /\ \A p \in Payments : trade'[p] = "paid" <=> trade[p] = "paid"
           /\ \A x \in Orders : orderStatus'[x] = "paid" <=> orderStatus[x] = "paid"
           /\ \A p \in Payments : payStatus'[p] = "success" => payStatus[p] = "success"
<1>1. \A p \in Payments : trade'[p] = "paid" <=> trade[p] = "paid"
    BY CloseKeepsPaid
    DEF CustomerStep, CompanionStep, Create, PrepayCreate, PrepayReplace, PrepayReuse,
        PrepayRollsBack, Cancel, CancelRollsBack, ConfirmOrder, RejectOrder
<1>2. \A x \in Orders : orderStatus'[x] = "paid" <=> orderStatus[x] = "paid"
  <2>1. \A x \in Orders : x \in SentBack(o) => orderStatus[x] # "paid"
    BY DEF SentBack, Contenders
  <2> QED BY <2>1
    DEF CustomerStep, CompanionStep, Create, PrepayCreate, PrepayReplace, PrepayReuse,
        PrepayRollsBack, Cancel, CancelRollsBack, ConfirmOrder, RejectOrder, CanPrepay,
        StatusAfterPrepay, orderVars, TypeOK
<1>3. \A p \in Payments : payStatus'[p] = "success" => payStatus[p] = "success"
    BY DEF CustomerStep, CompanionStep, Create, PrepayCreate, PrepayReplace, PrepayReuse,
        PrepayRollsBack, Cancel, CancelRollsBack, ConfirmOrder, RejectOrder, Closed, payVars
<1> QED BY <1>1, <1>2, <1>3

LEMMA OtherSteps ==
    ASSUME TypeOK, [Next]_vars, ~Pays, ~Fulfills
    PROVE  /\ \A p \in Payments : trade'[p] = "paid" <=> trade[p] = "paid"
           /\ \A x \in Orders : orderStatus'[x] = "paid" <=> orderStatus[x] = "paid"
           /\ \A p \in Payments : payStatus'[p] = "success" => payStatus[p] = "success"
<1>1. ASSUME NEW p \in Payments, ProcessStep(p) \/ WechatCreates(p)
      PROVE  /\ \A q \in Payments : trade'[q] = "paid" <=> trade[q] = "paid"
             /\ \A x \in Orders : orderStatus'[x] = "paid" <=> orderStatus[x] = "paid"
             /\ \A q \in Payments : payStatus'[q] = "success" => payStatus[q] = "success"
  <2>1. \A q \in Payments : trade'[q] = "paid" <=> trade[q] = "paid"
    BY <1>1, CloseKeepsPaid
    DEF ProcessStep, PersistPrepay, PersistFails, PrepayTimesOut, CloseRow, WechatCreates, TypeOK
  <2>2. \A x \in Orders : orderStatus'[x] = "paid" <=> orderStatus[x] = "paid"
    BY <1>1
    DEF ProcessStep, PersistPrepay, PersistFails, PrepayTimesOut, CloseRow, WechatCreates,
        orderVars, TypeOK
  <2>3. \A q \in Payments : payStatus'[q] = "success" => payStatus[q] = "success"
    BY <1>1
    DEF ProcessStep, PersistPrepay, PersistFails, PrepayTimesOut, CloseRow, WechatCreates,
        Closed, payVars
  <2> QED BY <2>1, <2>2, <2>3
<1>2. CASE WorkerStep \/ Crash \/ Tick \/ UNCHANGED vars
  <2>1. \A q \in Payments : trade'[q] = "paid" <=> trade[q] = "paid"
    BY <1>2, CloseKeepsPaid
    DEF WorkerStep, ExpireReservation, ExpireRequest, ReconcileQuery, ReconcileClose, Crash,
        Tick, vars
  <2>2. \A x \in Orders : orderStatus'[x] = "paid" <=> orderStatus[x] = "paid"
    BY <1>2
    DEF WorkerStep, ExpireReservation, ExpireRequest, ReconcileQuery, ReconcileClose, Crash,
        Tick, vars, orderVars, TypeOK
  <2>3. UNCHANGED payStatus
    BY <1>2
    DEF WorkerStep, ExpireReservation, ExpireRequest, ReconcileQuery, ReconcileClose, Crash,
        Tick, vars, payVars
  <2> QED BY <2>1, <2>2, <2>3
<1> QED BY <1>1, <1>2, OtherCustomerSteps DEF Next, WechatStep, Pays, Fulfills

LEMMA SettledIsChargedKept ==
    ASSUME TypeOK, SettledIsCharged, [Next]_vars
    PROVE  SettledIsCharged'
<1>1. ASSUME NEW p \in Payments, CustomerPays(p)
      PROVE  SettledIsCharged'
    BY <1>1 DEF CustomerPays, SettledIsCharged, payVars, TypeOK
<1>2. ASSUME NEW p \in Payments, FulfillPayment(p)
      PROVE  SettledIsCharged'
    BY <1>2 DEF FulfillPayment, SettledIsCharged, TypeOK
<1>3. CASE ~Pays /\ ~Fulfills
    BY <1>3, OtherSteps DEF SettledIsCharged
<1> QED BY <1>1, <1>2, <1>3 DEF Pays, Fulfills

\* No order has been paid twice: it has at most one prepay that was paid.
LEMMA ChargesAreFew ==
    ASSUME TypeOK, OneOpenPrepay, NoOrphanedMoney, NEW o \in Orders
    PROVE  /\ ChargedOf(o) = {} => Charges(o) = 0
           /\ ChargedOf(o) # {} => Charges(o) = 1
<1>1. Charges(o) = Cardinality(ChargedOf(o))
    BY DEF Charges, ChargedOf
<1>2. ASSUME NEW p \in ChargedOf(o)
      PROVE  ChargedOf(o) = {p}
    BY DEF ChargedOf, NoOrphanedMoney, OneOpenPrepay
<1> QED BY <1>1, <1>2, FS_EmptySet, FS_Singleton

\* The customer pays for an order nobody has paid yet, and its seat is one the
\* slot still had.
LEMMA PayingCharges ==
    ASSUME TypeOK, IInv, NoOrphanedMoney, NoOverbooking, SettledIsCharged,
           NoOrphanedMoney', OneOpenPrepay', TypeOK',
           NEW p \in Payments, CustomerPays(p)
    PROVE  Promise!Charge(OrderOf(p))
<1> DEFINE o == OrderOf(p)
           charged == {x \in Orders : [y \in Orders |-> Charges(y)][x] > 0}
<1>1. o \in Orders /\ OneOpenPrepay
    BY PaymentFacts DEF IInv, OrderInv
<1>2. payStatus[p] = "initiated" /\ orderStatus[o] = "paying"
  <2>1. payStatus[p] \notin {"none", "closed", "success"}
    BY DEF CustomerPays, IInv, MoneyInv, TradeInv, ClosedIsUnpayable, SettledIsCharged
  <2> QED BY <2>1, OnlyOpenRow DEF TypeOK, PayStatus, IInv
<1>3. ChargedOf(o) = {}
  <2> SUFFICES ASSUME NEW q \in ChargedOf(o) PROVE FALSE
      OBVIOUS
  <2>1. q = p
    BY <1>1, <1>2 DEF ChargedOf, NoOrphanedMoney, OneOpenPrepay
  <2> QED BY <2>1 DEF ChargedOf, CustomerPays
<1>4. Charges(o) = 0
    BY <1>1, <1>3, ChargesAreFew
<1>5. Cardinality(charged) < Capacity
  <2>1. charged \subseteq Holders
    <3> SUFFICES ASSUME NEW x \in Orders, Charges(x) > 0 PROVE Holds(x)
        BY DEF Holders
    <3>1. PICK q \in Payments : OrderOf(q) = x /\ trade[q] = "paid"
      BY <1>1, ChargesAreFew DEF ChargedOf
    <3> QED BY <3>1 DEF NoOrphanedMoney, Holds
  <2>2. o \in Holders /\ o \notin charged
    BY <1>1, <1>2, <1>4 DEF Holders, Holds
  <2>3. IsFiniteSet(Holders) /\ Cardinality(Holders) <= Capacity
    BY OrdersAssumption, FS_Subset DEF Holders, NoOverbooking
  <2>4. charged # Holders
    BY <2>2
  <2>5. /\ IsFiniteSet(charged) /\ Cardinality(charged) <= Cardinality(Holders)
        /\ Cardinality(charged) # Cardinality(Holders)
    BY <2>1, <2>3, <2>4, FS_Subset
  <2> QED BY <2>3, <2>5, FS_CardinalityType, CapacityAssumption
<1>6. \A x \in Orders : Charges(x)' = IF x = o THEN 1 ELSE Charges(x)
  <2>1. \A q \in Payments : trade'[q] = "paid" <=> q = p \/ trade[q] = "paid"
    BY DEF CustomerPays, TypeOK
  <2> SUFFICES ASSUME NEW x \in Orders
               PROVE  Charges(x)' = IF x = o THEN 1 ELSE Charges(x)
      OBVIOUS
  <2>2. ChargedOf(x)' = IF x = o THEN {p} ELSE ChargedOf(x)
    BY <1>3, <2>1 DEF ChargedOf
  <2>3. Charges(x) = Cardinality(ChargedOf(x)) /\ Charges(x)' = Cardinality(ChargedOf(x)')
    BY DEF Charges, ChargedOf
  <2> QED BY <2>2, <2>3, FS_Singleton
<1>7. UNCHANGED Booked
    BY DEF CustomerPays, orderVars, Booked
<1>8. [x \in Orders |-> Charges(x)]' = [[x \in Orders |-> Charges(x)] EXCEPT ![o] = 1]
    BY <1>6
<1>9. \A S : Promise!Cardinality(S) = Cardinality(S)
    BY DEF Promise!Cardinality, Cardinality
<1> QED BY <1>1, <1>4, <1>5, <1>7, <1>8, <1>9 DEF Promise!Charge, Booked

\* The news of a payment books an order that has been charged.
LEMMA FulfillingBooks ==
    ASSUME TypeOK, OneOpenPrepay, NoOrphanedMoney, NEW p \in Payments, FulfillPayment(p)
    PROVE  Promise!Book(OrderOf(p))
<1> DEFINE o == OrderOf(p)
<1>1. o \in Orders
    BY PaymentFacts
<1>2. Charges(o) > 0
  <2>1. p \in ChargedOf(o)
    BY DEF FulfillPayment, ChargedOf
  <2> QED BY <1>1, <2>1, ChargesAreFew
<1>3. Booked' = Booked \cup {o}
    BY <1>1 DEF FulfillPayment, Booked, TypeOK
<1>4. \A x \in Orders : Charges(x)' = Charges(x)
    BY DEF FulfillPayment, Charges
<1>5. UNCHANGED [x \in Orders |-> Charges(x)]
    BY <1>4
<1> QED BY <1>1, <1>2, <1>3, <1>5 DEF Promise!Book, Booked

\* Taking payment keeps the safety half of its promise: for any number of orders,
\* attempts and seats, nobody pays twice, nobody pays for a seat that is gone, an
\* order is booked only for money and a booking is never taken back here.
THEOREM PromiseSafe == Spec => Promise!Safety
<1>1. Init => Promise!Init /\ SettledIsCharged
  <2> SUFFICES ASSUME Init PROVE Promise!Init /\ SettledIsCharged
      OBVIOUS
  <2>1. \A o \in Orders : Charges(o) = 0
    <3>1. \A o \in Orders : {p \in Payments : OrderOf(p) = o /\ trade[p] = "paid"} = {}
      BY DEF Init
    <3> QED BY <3>1, FS_EmptySet DEF Charges
  <2>2. {o \in Orders : orderStatus[o] = "paid"} = {} /\ SettledIsCharged
    BY DEF Init, SettledIsCharged
  <2> QED BY <2>1, <2>2 DEF Promise!Init
<1>2. TypeOK /\ SettledIsCharged /\ [Next]_vars => SettledIsCharged'
    BY SettledIsChargedKept
<1>3. /\ TypeOK /\ IInv /\ NoOrphanedMoney /\ NoOverbooking /\ SettledIsCharged
      /\ TypeOK' /\ IInv' /\ NoOrphanedMoney'
      /\ [Next]_vars
      => [Promise!Next]_Promise!vars
  <2> SUFFICES ASSUME TypeOK, IInv, NoOrphanedMoney, NoOverbooking, SettledIsCharged,
                      TypeOK', IInv', NoOrphanedMoney', [Next]_vars
               PROVE  [Promise!Next]_Promise!vars
      OBVIOUS
  <2>1. OneOpenPrepay /\ OneOpenPrepay'
    BY DEF IInv, OrderInv
  <2>2. ASSUME NEW p \in Payments, CustomerPays(p)
        PROVE  Promise!Next
    BY <2>1, <2>2, PayingCharges, PaymentFacts DEF Promise!Next
  <2>3. ASSUME NEW p \in Payments, FulfillPayment(p)
        PROVE  Promise!Next
    BY <2>1, <2>3, FulfillingBooks, PaymentFacts DEF Promise!Next
  <2>4. CASE ~Pays /\ ~Fulfills
    <3>1. \A o \in Orders : Charges(o)' = Charges(o)
      <4>1. \A o \in Orders : ChargedOf(o)' = ChargedOf(o)
        BY <2>4, OtherSteps DEF ChargedOf
      <4> QED BY <4>1 DEF Charges, ChargedOf
    <3>2. Booked' = Booked
      BY <2>4, OtherSteps DEF Booked
    <3> QED BY <3>1, <3>2 DEF Promise!vars, Booked
  <2> QED BY <2>2, <2>3, <2>4 DEF Pays, Fulfills
<1> QED BY <1>1, <1>2, <1>3, TypeCorrect, Inductive, NoOrphanedMoneyAlways,
           NoOverbookingAlways, PTL DEF Spec, Promise!Safety

=============================================================================
