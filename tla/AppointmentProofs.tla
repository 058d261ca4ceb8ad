------------------------- MODULE AppointmentProofs -------------------------
(***************************************************************************)
(* Proofs about Appointment, for any orders, windows and shapes, and any   *)
(* setting of the clock.                                                   *)
(*                                                                         *)
(* A step of an order changes the row of that order and may release some   *)
(* others, whose reservations have lapsed; OrderMoves says what such a     *)
(* step must establish for its own order to keep the whole invariant.      *)
(***************************************************************************)
EXTENDS Appointment, FiniteSetTheorems, TLAPS

OpenStatuses == {"pending", "confirmed", "paying", "paid", "inService"}

(***************************************************************************)
(* The inductive invariant.                                                *)
(***************************************************************************)

CalendarTypeOK ==
    /\ now \in Times
    /\ window \in [Windows -> WindowRows \cup {None}]
    /\ edit \in EditRows \cup {None}
    /\ blackout \subseteq Blackouts

\* An order has an appointment and a seat as long as it lives, a deadline while
\* one matters, and a refund only after it was paid.
OrderRow(o) ==
    /\ status[o] \in Statuses
    /\ sched[o] \in Later \cup {None} /\ seat[o] \in SeatRows \cup {None}
    /\ until[o] \in Int \cup {None} /\ proposal[o] \in Proposals \cup {None}
    /\ status[o] # "none" => sched[o] # None /\ seat[o] # None
    /\ status[o] \in {"confirmed", "paying", "inService"} => until[o] # None
    /\ o \in refunding => status[o] \in {"paid", "inService", "completed"}

\* A request to move an appointment ends before the service may start and before
\* the deadline of an answer; the order it is about is open, unstarted and where
\* it was, or has gone and the request is past its time.
ProposalRow(o) ==
    proposal[o] # None =>
        /\ proposal[o].expires <= proposal[o].from - EarlyStart
        /\ status[o] = "pending" /\ until[o] # None => proposal[o].expires <= until[o]
        /\ o \notin refunding
        /\ \/ status[o] \in {"pending", "confirmed", "paying", "paid"} /\ sched[o] = proposal[o].from
           \/ status[o] = "none" /\ proposal[o].expires <= now

OrderColumns ==
    /\ status = [o \in Orders |-> status[o]] /\ sched = [o \in Orders |-> sched[o]]
    /\ seat = [o \in Orders |-> seat[o]] /\ until = [o \in Orders |-> until[o]]
    /\ proposal = [o \in Orders |-> proposal[o]]

OrdersInv ==
    /\ OrderColumns
    /\ refunding \subseteq Orders
    /\ \A o \in Orders : OrderRow(o) /\ ProposalRow(o)

\* The window w offers a service at t, and cap seats for it.
Offers(w, t, cap) ==
    /\ window[w] # None /\ window[w].active
    /\ window[w].shape.cap = cap
    /\ window[w].shape.from <= t /\ t + Duration <= window[w].shape.to

\* An open order keeps its window, and a window that is being edited has none.
WindowRow(o) ==
    status[o] \in OpenStatuses =>
        /\ Offers(seat[o].win, sched[o], seat[o].cap)
        /\ edit # None => seat[o].win # edit.win

WindowsInv ==
    /\ \A o \in Orders : WindowRow(o)
    /\ edit # None => window[edit.win] # None

\* The services held at t.
HeldAt(t) == {o \in Orders : Holds(o) /\ sched[o] <= t /\ t < sched[o] + Duration}

\* Of any services held at one time, not only of all, one was sold with a capacity
\* that suffices for them: what is left when some of them are cancelled still fits.
SeatsInv ==
    \A t \in Later : \A held \in SUBSET HeldAt(t) :
        held # {} => \E o \in held : Cardinality(held) <= seat[o].cap

IInv == CalendarTypeOK /\ OrdersInv /\ WindowsInv /\ SeatsInv

-----------------------------------------------------------------------------
(***************************************************************************)
(* What a step of an order must establish.                                 *)
(***************************************************************************)

LEMMA Constants ==
    /\ Later \subseteq Int /\ Times \subseteq Int /\ Duration \in Int /\ Duration > 0
    /\ EarlyStart \in Int /\ None \notin Int /\ None \notin Later
    /\ None \notin WindowRows \cup EditRows \cup SeatRows \cup Proposals
    /\ \A t \in Later : t >= 0
  BY AppointmentAssumption DEF Later, Times

LEMMA ServicesOverlap ==
    ASSUME NEW a, NEW b
    PROVE  Overlap(At(a), At(b)) <=> a < b + Duration /\ b < a + Duration
  BY DEF Overlap, At

\* A window that can be booked offers the time, and is not being edited.
LEMMA BookableOffers ==
    ASSUME NEW w \in Windows, NEW t, Bookable(w, t)
    PROVE  Offers(w, t, window[w].shape.cap) /\ (edit # None => edit.win # w)
  BY DEF Bookable, Offers

\* The row of another order: untouched, or released with its reservation.
Untouched(p) ==
    /\ status'[p] = status[p] /\ sched'[p] = sched[p] /\ seat'[p] = seat[p]
    /\ until'[p] = until[p] /\ proposal'[p] = proposal[p]

Freed(p) ==
    /\ status[p] = "confirmed" /\ status'[p] = "pending" /\ until'[p] = None
    /\ sched'[p] = sched[p] /\ seat'[p] = seat[p] /\ proposal'[p] = proposal[p]

\* The order o, of its services: it goes on holding what it held, or there was
\* room for it among those who hold a service at the same time.
Seated(o) ==
    Holds(o)' =>
        \/ Holds(o) /\ sched'[o] = sched[o] /\ seat'[o] = seat[o]
        \/ Cardinality(Rivals(o, sched'[o])) < seat'[o].cap

\* The order o, of its window: it keeps it, or has just been offered one.
Placed(o) ==
    status'[o] \in OpenStatuses =>
        \/ status[o] \in OpenStatuses /\ seat'[o] = seat[o] /\ sched'[o] = sched[o]
        \/ /\ seat'[o] \in SeatRows /\ Bookable(seat'[o].win, sched'[o])
           /\ seat'[o].cap = window[seat'[o].win].shape.cap

LEMMA SeatsKept ==
    ASSUME SeatsInv, OrdersInv, OrdersInv', now \in Int, UNCHANGED now, NEW o \in Orders, Seated(o),
           \A p \in Orders \ {o} : Untouched(p) \/ Freed(p)
    PROVE  SeatsInv'
<1>. USE Constants
<1>1. ASSUME NEW p \in Orders \ {o}, Holds(p)'
      PROVE  Holds(p) /\ sched'[p] = sched[p] /\ seat'[p] = seat[p]
  BY <1>1 DEF Untouched, Freed, Holds
<1>2. SUFFICES ASSUME NEW t \in Later, NEW held \in SUBSET HeldAt(t)', held # {}
               PROVE  \E q \in held : Cardinality(held) <= seat'[q].cap
  BY DEF SeatsInv
<1>3. held \subseteq Orders
  BY <1>2 DEF HeldAt
<1>4. CASE o \notin held \/ (Holds(o) /\ sched'[o] = sched[o] /\ seat'[o] = seat[o])
  <2>1. ASSUME NEW p \in held
        PROVE  p \in HeldAt(t) /\ seat'[p] = seat[p]
    BY <1>1, <1>2, <1>4, <2>1 DEF HeldAt
  <2>2. PICK q \in held : Cardinality(held) <= seat[q].cap
    BY <1>2, <2>1 DEF SeatsInv
  <2>. QED BY <2>1, <2>2
<1>5. CASE o \in held /\ Cardinality(Rivals(o, sched'[o])) < seat'[o].cap
  <2>. DEFINE rivals == Rivals(o, sched'[o])
  <2>1. IsFiniteSet(rivals) /\ IsFiniteSet(held)
    BY <1>3, AppointmentAssumption, FS_Subset DEF Rivals
  <2>2. Holds(o)' /\ sched'[o] \in Int /\ sched'[o] <= t /\ t < sched'[o] + Duration
        /\ status'[o] # "none"
    <3>1. Holds(o)' /\ sched'[o] <= t /\ t < sched'[o] + Duration
      BY <1>2, <1>5 DEF HeldAt
    <3>2. status'[o] # "none"
      BY <3>1 DEF Holds
    <3>. QED BY <3>1, <3>2 DEF OrdersInv, OrderRow
  <2>3. ASSUME NEW p \in held \ {o} PROVE p \in rivals
    <3>1. /\ p \in Orders /\ Holds(p) /\ sched[p] = sched'[p]
          /\ sched'[p] <= t /\ t < sched'[p] + Duration /\ status[p] # "none"
      BY <1>1, <1>2, <1>3, <2>3 DEF HeldAt, Holds
    <3>2. sched[p] \in Int
      BY <3>1 DEF OrdersInv, OrderRow
    <3>3. Overlap(At(sched[p]), At(sched'[o]))
      <4>1. sched[p] < sched'[o] + Duration /\ sched'[o] < sched[p] + Duration
        BY <2>2, <3>1, <3>2
      <4>. QED BY <4>1, ServicesOverlap
    <3>. QED BY <2>3, <3>1, <3>3 DEF Rivals
  <2>4. held \subseteq rivals \cup {o} /\ o \notin rivals
    BY <2>3 DEF Rivals
  <2>5. Cardinality(rivals \cup {o}) = Cardinality(rivals) + 1 /\ IsFiniteSet(rivals \cup {o})
    BY <2>1, <2>4, FS_AddElement
  <2>6. Cardinality(held) <= Cardinality(rivals \cup {o})
    BY <2>4, <2>5, FS_Subset
  <2>7. Cardinality(held) \in Nat /\ Cardinality(rivals) \in Nat
    BY <2>1, FS_CardinalityType
  <2>8. seat'[o].cap \in Nat
    BY <2>2 DEF OrdersInv, OrderRow, SeatRows, Capacities
  <2>. HIDE DEF rivals
  <2>9. Cardinality(rivals) < seat'[o].cap
    BY <1>5 DEF rivals
  <2>. QED BY <1>5, <2>5, <2>6, <2>7, <2>8, <2>9
<1>. QED BY <1>2, <1>4, <1>5 DEF Seated, HeldAt

LEMMA WindowsKept ==
    ASSUME WindowsInv, UNCHANGED calendar, NEW o \in Orders, Placed(o),
           \A p \in Orders \ {o} : Untouched(p) \/ Freed(p)
    PROVE  WindowsInv'
<1>1. UNCHANGED <<window, edit>>
  BY DEF calendar
<1>2. ASSUME NEW p \in Orders \ {o} PROVE WindowRow(p)'
  BY <1>1 DEF WindowsInv, WindowRow, Untouched, Freed, Offers, OpenStatuses
<1>3. WindowRow(o)'
  <2>1. CASE status[o] \in OpenStatuses /\ seat'[o] = seat[o] /\ sched'[o] = sched[o]
    BY <1>1, <2>1 DEF WindowsInv, WindowRow, Offers
  <2>2. CASE /\ seat'[o] \in SeatRows /\ Bookable(seat'[o].win, sched'[o])
             /\ seat'[o].cap = window[seat'[o].win].shape.cap
    <3>1. seat'[o].win \in Windows
      BY <2>2 DEF SeatRows
    <3>. QED BY <1>1, <2>2, <3>1, BookableOffers DEF WindowRow, Offers
  <2>3. CASE status'[o] \notin OpenStatuses
    BY <2>3 DEF WindowRow
  <2>. QED BY <2>1, <2>2, <2>3 DEF Placed
<1>. QED BY <1>1, <1>2, <1>3 DEF WindowsInv

\* A step of the order o keeps the invariant if it keeps o's own row, window and seat.
LEMMA OrderMoves ==
    ASSUME IInv, UNCHANGED <<now, calendar>>, NEW o \in Orders,
           OrderColumns', refunding' \subseteq Orders, refunding' \ {o} = refunding \ {o},
           \A p \in Orders \ {o} : Untouched(p) \/ Freed(p),
           OrderRow(o)', ProposalRow(o)', Placed(o), Seated(o)
    PROVE  IInv'
<1>. USE Constants
<1>1. CalendarTypeOK'
  BY DEF IInv, CalendarTypeOK, calendar
<1>2. ASSUME NEW p \in Orders \ {o} PROVE OrderRow(p)' /\ ProposalRow(p)'
  <2>1. OrderRow(p) /\ ProposalRow(p) /\ (p \in refunding' <=> p \in refunding)
    BY DEF IInv, OrdersInv
  <2>2. CASE Untouched(p)
    BY <2>1, <2>2 DEF Untouched, OrderRow, ProposalRow
  <2>3. CASE Freed(p)
    BY <2>1, <2>3 DEF Freed, OrderRow, ProposalRow, Statuses
  <2>. QED BY <2>2, <2>3
<1>3. OrdersInv'
  BY <1>2 DEF OrdersInv
<1>4. WindowsInv'
  BY WindowsKept DEF IInv
<1>5. SeatsInv'
  BY <1>3, SeatsKept DEF IInv, CalendarTypeOK
<1>. QED BY <1>1, <1>3, <1>4, <1>5 DEF IInv

\* The columns of an order's step with the releases that go with it.
LEMMA ReleasedRows ==
    ASSUME NEW o \in Orders, NEW t, NEW s, NEW u,
           status' = Moved(o, t, s), until' = Released(o, t, u)
    PROVE  /\ status' = [p \in Orders |-> status'[p]] /\ until' = [p \in Orders |-> until'[p]]
           /\ status'[o] = s /\ until'[o] = u
           /\ \A p \in Orders \ {o} :
                \/ status'[p] = status[p] /\ until'[p] = until[p]
                \/ status[p] = "confirmed" /\ status'[p] = "pending" /\ until'[p] = None
  BY DEF Moved, Released, Lapsed

\* The order is cancelled or refunded.
LEMMA LeavingKeeps ==
    ASSUME IInv, UNCHANGED <<now, calendar>>, NEW o \in Orders, Leave(o),
           refunding' \subseteq refunding, refunding \subseteq refunding' \cup {o}, o \notin refunding',
           \/ CancelProposal(o)
           \/ proposal' = proposal /\ (proposal[o] # None => proposal[o].expires <= now)
    PROVE  IInv'
<1>. USE Constants
<1>1. OrderColumns /\ OrderRow(o) /\ ProposalRow(o) /\ refunding \subseteq Orders
  BY DEF IInv, OrdersInv
<1>2. OrderColumns' /\ \A p \in Orders \ {o} : Untouched(p)
  BY <1>1 DEF Leave, CancelProposal, OrderColumns, Untouched
<1>3. /\ status'[o] = "none" /\ sched'[o] = None /\ seat'[o] = None /\ until'[o] = None
      /\ proposal'[o] = None \/ (proposal'[o] = proposal[o] /\ (proposal[o] # None => proposal[o].expires <= now))
  BY <1>1 DEF Leave, CancelProposal, OrderColumns
<1>4. OrderRow(o)'
  BY <1>1, <1>3 DEF OrderRow, Statuses
<1>5. ProposalRow(o)'
  BY <1>1, <1>3 DEF ProposalRow
<1>6. Placed(o) /\ Seated(o)
  BY <1>3 DEF Placed, OpenStatuses, Seated, Holds
<1>. QED BY <1>1, <1>2, <1>4, <1>5, <1>6, OrderMoves

LEMMA DepartureSteps ==
    ASSUME IInv, NEW o \in Orders, Reject(o) \/ Cancel(o) \/ ExpireResponse(o)
    PROVE  IInv'
<1>. USE Constants
<1>1. OrderRow(o) /\ ProposalRow(o) /\ now \in Int
  BY DEF IInv, OrdersInv, CalendarTypeOK
<1>2. o \notin refunding
  BY <1>1 DEF Reject, Cancel, ExpireResponse, OrderRow
<1>3. CASE Reject(o) BY <1>2, <1>3, LeavingKeeps DEF Reject
<1>4. CASE Cancel(o) BY <1>2, <1>4, LeavingKeeps DEF Cancel
<1>5. CASE ExpireResponse(o)
  <2>1. ASSUME proposal[o] # None PROVE proposal[o].expires <= now
    <3>1. proposal[o].expires <= until[o] /\ until[o] <= now
      BY <1>1, <1>5, <2>1 DEF ExpireResponse, ProposalRow
    <3>2. proposal[o].expires \in Int /\ until[o] \in Int
      BY <1>1, <1>5, <2>1 DEF ExpireResponse, OrderRow, Proposals
    <3>. QED BY <1>1, <3>1, <3>2
  <2>. QED BY <1>2, <1>5, <2>1, LeavingKeeps DEF ExpireResponse
<1>. QED BY <1>3, <1>4, <1>5

\* The statuses an order passes through without leaving its place.
LEMMA LifecycleKeeps ==
    ASSUME IInv, UNCHANGED <<now, calendar, sched, seat>>, NEW o \in Orders,
           NEW s \in Statuses, NEW u \in Int \cup {None},
           status[o] # "none", s # "none",
           status' = [status EXCEPT ![o] = s], until' = [until EXCEPT ![o] = u],
           s \in {"confirmed", "paying", "inService"} => u # None,
           refunding' \subseteq Orders, refunding' \ {o} = refunding \ {o},
           o \in refunding' => s \in {"paid", "inService", "completed"} /\ proposal'[o] = None,
           \/ CancelProposal(o)
           \/ /\ UNCHANGED proposal
              /\ s \in {"confirmed", "paying", "paid"} \/ (s = "pending" /\ u = None),
           s \in OpenStatuses => status[o] \in OpenStatuses,
           s \in {"paying", "paid", "inService", "completed"} \/ (s = "confirmed" /\ u > now) => Holds(o)
    PROVE  IInv'
<1>. USE Constants
<1>1. OrderColumns /\ OrderRow(o) /\ ProposalRow(o)
  BY DEF IInv, OrdersInv
<1>2. OrderColumns' /\ \A p \in Orders \ {o} : Untouched(p)
  BY <1>1 DEF CancelProposal, OrderColumns, Untouched
<1>3. /\ status'[o] = s /\ until'[o] = u /\ sched'[o] = sched[o] /\ seat'[o] = seat[o]
      /\ proposal'[o] = None \/ (proposal'[o] = proposal[o] /\ UNCHANGED proposal)
  BY <1>1 DEF CancelProposal, OrderColumns
<1>4. OrderRow(o)'
  BY <1>1, <1>3 DEF OrderRow
<1>5. ProposalRow(o)'
  <2>1. CASE proposal'[o] = None
    BY <2>1 DEF ProposalRow
  <2>2. CASE proposal'[o] # None
    <3>1. /\ UNCHANGED proposal /\ proposal[o] # None
          /\ s \in {"confirmed", "paying", "paid"} \/ (s = "pending" /\ u = None)
      BY <1>1, <1>3, <2>2 DEF CancelProposal, OrderColumns
    <3>2. o \notin refunding'
      BY <2>2
    <3>. QED BY <1>1, <1>3, <3>1, <3>2 DEF ProposalRow
  <2>. QED BY <2>1, <2>2
<1>6. Placed(o)
  BY <1>3 DEF Placed
<1>7. Seated(o)
  BY <1>3 DEF Seated, Holds
<1>. QED BY <1>2, <1>4, <1>5, <1>6, <1>7, OrderMoves

LEMMA LifecycleSteps ==
    ASSUME IInv, NEW o \in Orders,
           \/ LapseReservation(o) \/ Prepay(o) \/ PrepayClosed(o) \/ FulfillPayment(o)
           \/ StartService(o) \/ CompleteService(o) \/ RequestRefund(o)
    PROVE  IInv'
<1>. USE Constants
<1>1. /\ OrderColumns /\ OrderRow(o) /\ ProposalRow(o) /\ refunding \subseteq Orders
      /\ now \in Int /\ until[o] \in Int \cup {None}
  BY DEF IInv, OrdersInv, CalendarTypeOK, OrderRow
<1>2. until = [until EXCEPT ![o] = until[o]] /\ status = [status EXCEPT ![o] = status[o]]
  BY <1>1 DEF OrderColumns
<1>3. {"pending", "confirmed", "paying", "paid", "inService", "completed"} \subseteq Statuses
  BY DEF Statuses
<1>4. CASE LapseReservation(o)
  <2>1. o \notin refunding
    BY <1>1, <1>4 DEF LapseReservation, OrderRow
  <2>. QED BY <1>1, <1>3, <1>4, <2>1, LifecycleKeeps DEF LapseReservation, OpenStatuses
<1>5. CASE Prepay(o)
  <2>1. o \notin refunding /\ Holds(o) /\ until[o] # None
    BY <1>1, <1>5 DEF Prepay, OrderRow, Holds
  <2>. QED BY <1>1, <1>2, <1>3, <1>5, <2>1, LifecycleKeeps DEF Prepay, OpenStatuses
<1>6. CASE PrepayClosed(o)
  <2>1. o \notin refunding /\ Holds(o) /\ until[o] # None
    BY <1>1, <1>6 DEF PrepayClosed, OrderRow, Holds
  <2>2. CASE status' = [status EXCEPT ![o] = "confirmed"] /\ UNCHANGED until
    BY <1>1, <1>2, <1>3, <1>6, <2>1, <2>2, LifecycleKeeps DEF PrepayClosed, OpenStatuses
  <2>3. CASE status' = [status EXCEPT ![o] = "pending"] /\ until' = [until EXCEPT ![o] = None]
    BY <1>1, <1>2, <1>3, <1>6, <2>1, <2>3, LifecycleKeeps DEF PrepayClosed, OpenStatuses
  <2>. QED BY <1>6, <2>2, <2>3 DEF PrepayClosed
<1>7. CASE FulfillPayment(o)
  <2>1. o \notin refunding /\ Holds(o)
    BY <1>1, <1>7 DEF FulfillPayment, OrderRow, Holds
  <2>. QED BY <1>1, <1>3, <1>7, <2>1, LifecycleKeeps DEF FulfillPayment, OpenStatuses
<1>8. CASE StartService(o)
  <2>. DEFINE u == Greater(sched[o], now) + Duration
  <2>1. u \in Int /\ u # None
    <3>1. sched[o] \in Int
      BY <1>1, <1>8 DEF StartService, OrderRow
    <3>2. Greater(sched[o], now) \in Int
      BY <1>1, <3>1 DEF Greater
    <3>. QED BY <3>2
  <2>2. Holds(o) /\ status[o] = "paid" /\ o \notin refunding
    BY <1>8 DEF StartService, Holds
  <2>3. /\ status' = [status EXCEPT ![o] = "inService"] /\ until' = [until EXCEPT ![o] = u]
        /\ CancelProposal(o) /\ UNCHANGED <<now, calendar, sched, seat, refunding>>
    BY <1>8 DEF StartService
  <2>. HIDE DEF u
  <2>. QED BY <1>1, <1>3, <2>1, <2>2, <2>3, LifecycleKeeps DEF OpenStatuses
<1>9. CASE CompleteService(o)
  <2>1. /\ Holds(o) /\ status[o] = "inService"
        /\ status' = [status EXCEPT ![o] = "completed"] /\ until' = [until EXCEPT ![o] = None]
        /\ CancelProposal(o) /\ UNCHANGED <<now, calendar, sched, seat, refunding>>
    BY <1>9 DEF CompleteService, Holds
  <2>2. proposal'[o] = None
    BY <1>1, <2>1 DEF CancelProposal, OrderColumns
  <2>. QED BY <1>1, <1>3, <2>1, <2>2, LifecycleKeeps DEF OpenStatuses
<1>10. CASE RequestRefund(o)
  <2>1. /\ status[o] \in {"paid", "inService", "completed"} /\ refunding' = refunding \cup {o}
        /\ CancelProposal(o) /\ UNCHANGED <<now, calendar, status, sched, seat, until>>
    BY <1>10 DEF RequestRefund
  <2>2. proposal'[o] = None /\ Holds(o)
    BY <1>1, <2>1 DEF CancelProposal, OrderColumns, Holds
  <2>3. status[o] \in {"confirmed", "paying", "inService"} => until[o] # None
    BY <1>1 DEF OrderRow
  <2>. QED BY <1>1, <1>2, <1>3, <2>1, <2>2, <2>3, LifecycleKeeps DEF OpenStatuses
<1>. QED BY <1>4, <1>5, <1>6, <1>7, <1>8, <1>9, <1>10

LEMMA RefundEndsKeeps ==
    ASSUME IInv, NEW o \in Orders, RefundEnds(o)
    PROVE  IInv'
<1>1. /\ OrderColumns /\ OrderRow(o) /\ ProposalRow(o) /\ refunding \subseteq Orders
  BY DEF IInv, OrdersInv
<1>2. /\ o \in refunding /\ refunding' = refunding \ {o} /\ UNCHANGED <<now, calendar, proposal>>
      /\ proposal[o] = None
  BY <1>1 DEF RefundEnds, ProposalRow
<1>3. CASE Leave(o)
  BY <1>2, <1>3, LeavingKeeps
<1>4. CASE UNCHANGED <<status, sched, seat, until>>
  <2>1. OrderRow(o)' /\ ProposalRow(o)' /\ OrderColumns'
    BY <1>1, <1>2, <1>4 DEF OrderRow, ProposalRow, OrderColumns
  <2>2. Placed(o) /\ Seated(o) /\ \A p \in Orders \ {o} : Untouched(p)
    BY <1>2, <1>4 DEF Placed, Seated, Untouched, Holds
  <2>3. refunding' \subseteq Orders /\ refunding' \ {o} = refunding \ {o}
    BY <1>1, <1>2
  <2>. QED BY <1>2, <2>1, <2>2, <2>3, OrderMoves
<1>. QED BY <1>3, <1>4 DEF RefundEnds

-----------------------------------------------------------------------------
(***************************************************************************)
(* Bookings and negotiations.                                              *)
(***************************************************************************)

LEMMA CreateKeeps ==
    ASSUME IInv, NEW o \in Orders, NEW w \in Windows, NEW t \in Later, Create(o, w, t)
    PROVE  IInv'
<1>. USE Constants
<1>. DEFINE u == now + ResponseWindow
            cap == window[w].shape.cap
            place == [win |-> w, cap |-> cap]
<1>1. /\ OrderColumns /\ OrderRow(o) /\ refunding \subseteq Orders /\ now \in Int
      /\ status[o] = "none" /\ proposal[o] = None
  BY DEF IInv, OrdersInv, CalendarTypeOK, Create
<1>2. u \in Int /\ u # None
  BY <1>1, AppointmentAssumption
<1>3. cap \in Capacities
  <2>1. window[w] \in WindowRows
    BY DEF Create, HasSeat, Bookable, IInv, CalendarTypeOK
  <2>. QED BY <2>1, AppointmentAssumption DEF WindowRows
<1>4. place \in SeatRows /\ place.win = w /\ place.cap = cap
  BY <1>3 DEF SeatRows
<1>5. /\ status' = Moved(o, t, "pending") /\ until' = Released(o, t, u)
      /\ sched' = [sched EXCEPT ![o] = t] /\ seat' = [seat EXCEPT ![o] = place]
      /\ UNCHANGED <<now, calendar, refunding, proposal>>
      /\ Bookable(w, t)
  BY DEF Create, HasSeat
<1>. HIDE DEF u, place
<1>6. /\ OrderColumns' /\ status'[o] = "pending" /\ until'[o] = u /\ sched'[o] = t /\ seat'[o] = place
      /\ \A p \in Orders \ {o} : Untouched(p) \/ Freed(p)
  <2>1. /\ status' = [p \in Orders |-> status'[p]] /\ until' = [p \in Orders |-> until'[p]]
        /\ status'[o] = "pending" /\ until'[o] = u
        /\ \A p \in Orders \ {o} :
              \/ status'[p] = status[p] /\ until'[p] = until[p]
              \/ status[p] = "confirmed" /\ status'[p] = "pending" /\ until'[p] = None
    BY <1>5, ReleasedRows
  <2>2. /\ sched' = [p \in Orders |-> sched'[p]] /\ seat' = [p \in Orders |-> seat'[p]]
        /\ sched'[o] = t /\ seat'[o] = place
        /\ \A p \in Orders \ {o} : sched'[p] = sched[p] /\ seat'[p] = seat[p]
    BY <1>1, <1>5 DEF OrderColumns
  <2>3. OrderColumns'
    BY <1>1, <1>5, <2>1, <2>2 DEF OrderColumns
  <2>4. \A p \in Orders \ {o} : Untouched(p) \/ Freed(p)
    BY <1>5, <2>1, <2>2 DEF Untouched, Freed
  <2>. QED BY <2>1, <2>2, <2>3, <2>4
<1>7. OrderRow(o)'
  BY <1>1, <1>2, <1>4, <1>5, <1>6 DEF OrderRow, Statuses
<1>8. ProposalRow(o)' /\ Seated(o)
  BY <1>1, <1>5, <1>6 DEF ProposalRow, Seated, Holds
<1>9. Placed(o)
  BY <1>4, <1>5, <1>6 DEF Placed
<1>. QED BY <1>1, <1>5, <1>6, <1>7, <1>8, <1>9, OrderMoves

LEMMA ConfirmKeeps ==
    ASSUME IInv, NEW o \in Orders, Confirm(o)
    PROVE  IInv'
<1>. USE Constants
<1>. DEFINE ends == Lesser(now + ReservationTTL, sched[o] - PaymentLead)
            t == sched[o]
<1>1. /\ OrderColumns /\ OrderRow(o) /\ ProposalRow(o) /\ refunding \subseteq Orders /\ now \in Int
      /\ status[o] = "pending" /\ t \in Later /\ seat[o] \in SeatRows
  BY DEF IInv, OrdersInv, CalendarTypeOK, Confirm, OrderRow
<1>2. ends \in Int /\ ends # None
  <2>1. ReservationTTL \in Int /\ PaymentLead \in Int
    BY AppointmentAssumption
  <2>2. t \in Int
    BY <1>1
  <2>3. now + ReservationTTL \in Int /\ t - PaymentLead \in Int
    BY <1>1, <2>1, <2>2
  <2>. QED BY <2>3 DEF Lesser
<1>3. /\ status' = Moved(o, t, "confirmed") /\ until' = Released(o, t, ends)
      /\ UNCHANGED <<now, calendar, sched, seat, refunding, proposal>>
      /\ HasSeat(o, seat[o].win, t)
  BY DEF Confirm
<1>. HIDE DEF ends
<1>4. /\ OrderColumns' /\ status'[o] = "confirmed" /\ until'[o] = ends
      /\ \A p \in Orders \ {o} : Untouched(p) \/ Freed(p)
  BY <1>1, <1>3, ReleasedRows DEF OrderColumns, Untouched, Freed
<1>5. OrderRow(o)'
  BY <1>1, <1>2, <1>3, <1>4 DEF OrderRow, Statuses
<1>6. ProposalRow(o)'
  BY <1>1, <1>3, <1>4 DEF ProposalRow
<1>7. Placed(o)
  BY <1>1, <1>3 DEF Placed, OpenStatuses
<1>8. window[seat[o].win].shape.cap = seat[o].cap
  BY <1>1 DEF IInv, WindowsInv, WindowRow, Offers, OpenStatuses
<1>9. Seated(o)
  BY <1>3, <1>8 DEF Seated, HasSeat
<1>. QED BY <1>1, <1>3, <1>4, <1>5, <1>6, <1>7, <1>9, OrderMoves

\* What a request may wait for is over before the service may start, and before
\* the deadline of the answer.
LEMMA ExpiryBounds ==
    ASSUME NEW o \in Orders, now \in Int, sched[o] \in Int, until[o] \in Int \cup {None}
    PROVE  /\ ProposalExpiry(o) \in Int /\ ProposalExpiry(o) <= sched[o] - EarlyStart
           /\ status[o] = "pending" /\ until[o] # None => ProposalExpiry(o) <= until[o]
<1>. DEFINE latest == sched[o] - EarlyStart
            answer == IF status[o] = "pending" /\ until[o] # None
                      THEN Lesser(latest, until[o]) ELSE latest
<1>1. /\ answer \in Int /\ answer <= latest /\ latest \in Int
      /\ status[o] = "pending" /\ until[o] # None => answer <= until[o]
  BY Constants DEF Lesser
<1>2. ProposalExpiry(o) = Lesser(now + NegotiationWindow, answer) /\ NegotiationWindow \in Int
  BY AppointmentAssumption DEF ProposalExpiry
<1>. HIDE DEF answer
<1>. QED BY <1>1, <1>2 DEF Lesser

LEMMA RequestKeeps ==
    ASSUME IInv, NEW o \in Orders, NEW by \in Party, NEW w \in Windows, NEW t \in Later,
           RequestReschedule(o, by, w, t)
    PROVE  IInv'
<1>. USE Constants
<1>. DEFINE expires == ProposalExpiry(o)
            request == [by |-> by, from |-> sched[o], to |-> t, win |-> w, expires |-> expires]
<1>1. /\ OrderColumns /\ OrderRow(o) /\ ProposalRow(o) /\ refunding \subseteq Orders /\ now \in Int
      /\ status[o] \in {"pending", "paid"} /\ o \notin refunding
      /\ sched[o] \in Later /\ until[o] \in Int \cup {None}
  BY DEF IInv, OrdersInv, CalendarTypeOK, RequestReschedule, Negotiable, OrderRow
<1>2. /\ expires \in Int /\ expires <= sched[o] - EarlyStart
      /\ status[o] = "pending" /\ until[o] # None => expires <= until[o]
  BY <1>1, ExpiryBounds
<1>3. /\ status' = Moved(o, t, status[o]) /\ until' = Released(o, t, until[o])
      /\ proposal' = [proposal EXCEPT ![o] = request]
      /\ UNCHANGED <<now, calendar, sched, seat, refunding>>
  BY DEF RequestReschedule
<1>. HIDE DEF expires
<1>4. /\ request \in Proposals /\ request.from = sched[o] /\ request.expires = expires
  BY <1>1, <1>2 DEF Proposals
<1>. HIDE DEF request
<1>5. /\ OrderColumns' /\ status'[o] = status[o] /\ until'[o] = until[o] /\ proposal'[o] = request
      /\ \A p \in Orders \ {o} : Untouched(p) \/ Freed(p)
  <2>1. /\ status' = [p \in Orders |-> status'[p]] /\ until' = [p \in Orders |-> until'[p]]
        /\ status'[o] = status[o] /\ until'[o] = until[o]
        /\ \A p \in Orders \ {o} :
             \/ status'[p] = status[p] /\ until'[p] = until[p]
             \/ status[p] = "confirmed" /\ status'[p] = "pending" /\ until'[p] = None
    BY <1>3, ReleasedRows
  <2>2. /\ proposal' = [p \in Orders |-> proposal'[p]] /\ proposal'[o] = request
        /\ \A p \in Orders \ {o} : proposal'[p] = proposal[p]
    BY <1>1, <1>3 DEF OrderColumns
  <2>. QED BY <1>1, <1>3, <2>1, <2>2 DEF OrderColumns, Untouched, Freed
<1>6. OrderRow(o)'
  BY <1>1, <1>3, <1>4, <1>5 DEF OrderRow
<1>7. ProposalRow(o)'
  BY <1>1, <1>2, <1>3, <1>4, <1>5 DEF ProposalRow
<1>8. Placed(o) /\ Seated(o)
  BY <1>3, <1>5 DEF Placed, Seated, Holds
<1>. QED BY <1>1, <1>3, <1>5, <1>6, <1>7, <1>8, OrderMoves

LEMMA AcceptKeeps ==
    ASSUME IInv, NEW o \in Orders, NEW by \in Party, AcceptReschedule(o, by)
    PROVE  IInv'
<1>. USE Constants
<1>. DEFINE t == proposal[o].to
            w == proposal[o].win
            cap == window[w].shape.cap
            place == [win |-> w, cap |-> cap]
<1>1. /\ OrderColumns /\ OrderRow(o) /\ ProposalRow(o) /\ refunding \subseteq Orders
      /\ status[o] \in {"pending", "paid"} /\ o \notin refunding
      /\ proposal[o] \in Proposals
  BY DEF IInv, OrdersInv, AcceptReschedule, Negotiable, OrderRow
<1>2. t \in Later /\ w \in Windows
  BY <1>1 DEF Proposals
<1>3. /\ HasSeat(o, w, t)
      /\ sched' = [sched EXCEPT ![o] = t] /\ seat' = [seat EXCEPT ![o] = place]
      /\ status' = Moved(o, t, status[o]) /\ until' = Released(o, t, until[o])
      /\ proposal' = [proposal EXCEPT ![o] = None]
      /\ UNCHANGED <<now, calendar, refunding>>
  BY DEF AcceptReschedule, CancelProposal
<1>4. cap \in Capacities
  <2>1. window[w] \in WindowRows
    BY <1>2, <1>3 DEF HasSeat, Bookable, IInv, CalendarTypeOK
  <2>. QED BY <2>1, AppointmentAssumption DEF WindowRows
<1>5. place \in SeatRows /\ place.win = w /\ place.cap = cap
  BY <1>2, <1>4 DEF SeatRows
<1>6. Bookable(w, t) /\ Cardinality(Rivals(o, t)) < place.cap
  BY <1>3, <1>5 DEF HasSeat
<1>. HIDE DEF t, w, cap, place
<1>7. /\ OrderColumns' /\ status'[o] = status[o] /\ until'[o] = until[o]
      /\ sched'[o] = t /\ seat'[o] = place /\ proposal'[o] = None
      /\ \A p \in Orders \ {o} : Untouched(p) \/ Freed(p)
  <2>1. /\ status' = [p \in Orders |-> status'[p]] /\ until' = [p \in Orders |-> until'[p]]
        /\ status'[o] = status[o] /\ until'[o] = until[o]
        /\ \A p \in Orders \ {o} :
             \/ status'[p] = status[p] /\ until'[p] = until[p]
             \/ status[p] = "confirmed" /\ status'[p] = "pending" /\ until'[p] = None
    BY <1>3, ReleasedRows
  <2>2. /\ sched' = [p \in Orders |-> sched'[p]] /\ seat' = [p \in Orders |-> seat'[p]]
        /\ proposal' = [p \in Orders |-> proposal'[p]]
        /\ sched'[o] = t /\ seat'[o] = place /\ proposal'[o] = None
        /\ \A p \in Orders \ {o} : sched'[p] = sched[p] /\ seat'[p] = seat[p] /\ proposal'[p] = proposal[p]
    BY <1>1, <1>3 DEF OrderColumns
  <2>. QED BY <2>1, <2>2 DEF OrderColumns, Untouched, Freed
<1>8. OrderRow(o)'
  BY <1>1, <1>2, <1>3, <1>5, <1>7 DEF OrderRow
<1>9. ProposalRow(o)'
  BY <1>7 DEF ProposalRow
<1>10. Placed(o)
  BY <1>5, <1>6, <1>7 DEF Placed, cap
<1>11. Seated(o)
  BY <1>6, <1>7 DEF Seated
<1>. QED BY <1>1, <1>3, <1>7, <1>8, <1>9, <1>10, <1>11, OrderMoves

LEMMA WithdrawalKeeps ==
    ASSUME IInv, NEW o \in Orders,
           ExpireProposal(o) \/ \E by \in Party : RejectReschedule(o, by)
    PROVE  IInv'
<1>1. /\ OrderColumns /\ OrderRow(o) /\ refunding \subseteq Orders
  BY DEF IInv, OrdersInv
<1>2. proposal' = [proposal EXCEPT ![o] = None]
      /\ UNCHANGED <<now, calendar, status, sched, seat, until, refunding>>
  BY DEF ExpireProposal, RejectReschedule, CancelProposal
<1>3. OrderColumns' /\ proposal'[o] = None /\ \A p \in Orders \ {o} : Untouched(p)
  BY <1>1, <1>2 DEF OrderColumns, Untouched
<1>4. OrderRow(o)' /\ ProposalRow(o)'
  BY <1>1, <1>2, <1>3 DEF OrderRow, ProposalRow
<1>5. Placed(o) /\ Seated(o)
  BY <1>2 DEF Placed, Seated, Holds
<1>. QED BY <1>1, <1>2, <1>3, <1>4, <1>5, OrderMoves

-----------------------------------------------------------------------------
(***************************************************************************)
(* The calendar and the clock.                                             *)
(***************************************************************************)

\* What changes the calendar alone leaves the orders and their seats as they are.
LEMMA OrdersStand ==
    ASSUME OrdersInv, SeatsInv,
           UNCHANGED <<now, status, sched, seat, until, refunding, proposal>>
    PROVE  OrdersInv' /\ SeatsInv'
<1>1. OrdersInv'
  BY DEF OrdersInv, OrderColumns, OrderRow, ProposalRow
<1>2. SeatsInv'
  BY DEF SeatsInv, HeldAt, Holds
<1>. QED BY <1>1, <1>2

\* A window that no open order is in may be written.
LEMMA WindowWritten ==
    ASSUME IInv, NEW w \in Windows, NEW row \in WindowRows,
           \A o \in Orders : status[o] \in OpenStatuses => seat[o].win # w,
           window' = [window EXCEPT ![w] = row], edit' = edit \/ edit' = None,
           UNCHANGED <<now, blackout, status, sched, seat, until, refunding, proposal>>
    PROVE  IInv'
<1>. USE Constants
<1>1. CalendarTypeOK'
  BY DEF IInv, CalendarTypeOK
<1>2. ASSUME NEW o \in Orders PROVE WindowRow(o)'
  <2>. SUFFICES ASSUME status[o] \in OpenStatuses PROVE WindowRow(o)'
    BY DEF WindowRow
  <2>1. seat[o] \in SeatRows /\ WindowRow(o)
    BY DEF IInv, OrdersInv, OrderRow, OpenStatuses, WindowsInv
  <2>2. seat[o].win \in Windows \ {w}
    BY <2>1 DEF SeatRows
  <2>3. window'[seat[o].win] = window[seat[o].win]
    BY <2>2 DEF IInv, CalendarTypeOK
  <2>. QED BY <2>1, <2>3 DEF WindowRow, Offers
<1>3. edit' # None => window'[edit'.win] # None
  BY DEF IInv, CalendarTypeOK, WindowsInv, EditRows
<1>4. WindowsInv'
  BY <1>2, <1>3 DEF WindowsInv
<1>. QED BY <1>1, <1>4, OrdersStand DEF IInv

LEMMA CalendarSteps ==
    ASSUME IInv, CalendarStep
    PROVE  IInv'
<1>. USE Constants
<1>1. CalendarTypeOK /\ OrdersInv /\ WindowsInv /\ SeatsInv
  BY DEF IInv
<1>2. \A o \in Orders : status[o] \in OpenStatuses => window[seat[o].win] # None /\ window[seat[o].win].active
  BY <1>1 DEF WindowsInv, WindowRow, Offers
<1>3. ASSUME NEW w \in Windows, NEW s \in Shapes, NEW a \in BOOLEAN, CreateWindow(w, s, a)
      PROVE  IInv'
  <2>. DEFINE row == [shape |-> s, active |-> a, draft |-> FALSE]
  <2>1. row \in WindowRows
    BY DEF WindowRows
  <2>2. /\ window[w] = None /\ window' = [window EXCEPT ![w] = row]
        /\ UNCHANGED <<now, edit, blackout, status, sched, seat, until, refunding, proposal>>
    BY <1>3 DEF CreateWindow
  <2>. HIDE DEF row
  <2>. QED BY <1>2, <2>1, <2>2, WindowWritten
<1>4. ASSUME NEW w \in Windows, NEW s \in Shapes, MaterializeDraft(w, s)
      PROVE  IInv'
  <2>. DEFINE row == [shape |-> s, active |-> FALSE, draft |-> TRUE]
  <2>1. row \in WindowRows
    BY DEF WindowRows
  <2>2. /\ window[w] = None /\ window' = [window EXCEPT ![w] = row]
        /\ UNCHANGED <<now, edit, blackout, status, sched, seat, until, refunding, proposal>>
    BY <1>4 DEF MaterializeDraft
  <2>. HIDE DEF row
  <2>. QED BY <1>2, <2>1, <2>2, WindowWritten
<1>5. ASSUME NEW w \in Windows, ActivateDraft(w)
      PROVE  IInv'
  <2>. DEFINE row == [window[w] EXCEPT !.active = TRUE]
  <2>1. window[w] \in WindowRows /\ ~window[w].active
    BY <1>1, <1>5 DEF CalendarTypeOK, ActivateDraft
  <2>2. row \in WindowRows
    BY <2>1 DEF WindowRows
  <2>3. /\ window' = [window EXCEPT ![w] = row]
        /\ UNCHANGED <<now, edit, blackout, status, sched, seat, until, refunding, proposal>>
    BY <1>5 DEF ActivateDraft
  <2>. HIDE DEF row
  <2>. QED BY <1>2, <2>1, <2>2, <2>3, WindowWritten
<1>6. ASSUME NEW w \in Windows, NEW s \in Shapes, NEW a \in BOOLEAN, BeginEdit(w, s, a)
      PROVE  IInv'
  <2>. DEFINE row == [win |-> w, shape |-> s, active |-> a]
  <2>1. row \in EditRows /\ row.win = w
    BY DEF EditRows
  <2>2. /\ window[w] # None /\ edit' = row
        /\ UNCHANGED <<now, window, blackout, status, sched, seat, until, refunding, proposal>>
        /\ \A o \in Orders : status[o] \in OpenStatuses => seat[o].win # w
    BY <1>6 DEF BeginEdit, OpenOrders, OpenStatuses
  <2>. HIDE DEF row
  <2>3. CalendarTypeOK'
    BY <1>1, <2>1, <2>2 DEF CalendarTypeOK
  <2>4. WindowsInv'
    BY <1>1, <2>1, <2>2 DEF WindowsInv, WindowRow, Offers
  <2>. QED BY <1>1, <2>2, <2>3, <2>4, OrdersStand DEF IInv
<1>7. CASE CommitEdit
  <2>. DEFINE row == [shape |-> edit.shape, active |-> edit.active, draft |-> window[edit.win].draft]
  <2>1. edit \in EditRows /\ edit.win \in Windows /\ window[edit.win] \in WindowRows
    <3>1. edit \in EditRows /\ window[edit.win] # None
      BY <1>1, <1>7 DEF CommitEdit, CalendarTypeOK, WindowsInv
    <3>2. edit.win \in Windows
      BY <3>1 DEF EditRows
    <3>. QED BY <1>1, <3>1, <3>2 DEF CalendarTypeOK
  <2>2. row \in WindowRows
    BY <2>1 DEF EditRows, WindowRows
  <2>3. /\ window' = [window EXCEPT ![edit.win] = row] /\ edit' = None
        /\ UNCHANGED <<now, blackout, status, sched, seat, until, refunding, proposal>>
    BY <1>7 DEF CommitEdit
  <2>4. \A o \in Orders : status[o] \in OpenStatuses => seat[o].win # edit.win
    BY <1>1, <1>7 DEF CommitEdit, WindowsInv, WindowRow
  <2>. HIDE DEF row
  <2>. QED BY <2>1, <2>2, <2>3, <2>4, WindowWritten
<1>8. ASSUME NEW b \in Blackouts, CreateBlackout(b) \/ DeactivateBlackout(b)
      PROVE  IInv'
  <2>1. /\ blackout' \subseteq blackout \cup {b}
        /\ UNCHANGED <<now, window, edit, status, sched, seat, until, refunding, proposal>>
    BY <1>8 DEF CreateBlackout, DeactivateBlackout
  <2>2. CalendarTypeOK' /\ WindowsInv'
    BY <1>1, <2>1 DEF CalendarTypeOK, WindowsInv, WindowRow, Offers
  <2>. QED BY <1>1, <2>1, <2>2, OrdersStand DEF IInv
<1>. QED BY <1>3, <1>4, <1>5, <1>6, <1>7, <1>8 DEF CalendarStep

\* Time passes: reservations end and requests run out, and nothing else changes.
LEMMA TickKeeps ==
    ASSUME IInv, Tick
    PROVE  IInv'
<1>. USE Constants
<1>1. /\ now \in Times /\ now' = now + 1 /\ now' \in Times
      /\ UNCHANGED <<window, edit, blackout, status, sched, seat, until, refunding, proposal>>
  BY AppointmentAssumption DEF IInv, CalendarTypeOK, Tick, calendar, Times
<1>2. CalendarTypeOK' /\ WindowsInv'
  BY <1>1 DEF IInv, CalendarTypeOK, WindowsInv, WindowRow, Offers
<1>3. ASSUME NEW o \in Orders PROVE OrderRow(o)' /\ ProposalRow(o)'
  <2>1. OrderRow(o) /\ ProposalRow(o)
    BY DEF IInv, OrdersInv
  <2>2. OrderRow(o)'
    BY <1>1, <2>1 DEF OrderRow
  <2>3. ASSUME proposal[o] # None PROVE proposal[o].expires <= now => proposal[o].expires <= now + 1
    <3>1. proposal[o].expires \in Int
      BY <2>1, <2>3 DEF OrderRow, Proposals
    <3>. QED BY <1>1, <3>1
  <2>. QED BY <1>1, <2>1, <2>2, <2>3 DEF ProposalRow
<1>4. OrdersInv'
  BY <1>1, <1>3 DEF IInv, OrdersInv, OrderColumns
<1>5. ASSUME NEW o \in Orders, Holds(o)' PROVE Holds(o)
  <2>1. status[o] = "confirmed" => until[o] \in Int
    BY DEF IInv, OrdersInv, OrderRow
  <2>. QED BY <1>1, <1>5, <2>1 DEF Holds
<1>6. SeatsInv'
  <2>1. ASSUME NEW t \in Later PROVE HeldAt(t)' \subseteq HeldAt(t)
    BY <1>1, <1>5 DEF HeldAt
  <2>. QED BY <1>1, <2>1 DEF IInv, SeatsInv
<1>. QED BY <1>2, <1>4, <1>6 DEF IInv

LEMMA Stutter ==
    ASSUME IInv, UNCHANGED vars
    PROVE  IInv'
<1>1. CalendarTypeOK' /\ WindowsInv'
  BY DEF IInv, CalendarTypeOK, WindowsInv, WindowRow, Offers, vars
<1>2. OrdersInv' /\ SeatsInv'
  BY OrdersStand DEF IInv, vars
<1>. QED BY <1>1, <1>2 DEF IInv

-----------------------------------------------------------------------------
(***************************************************************************)
(* The theorems.                                                           *)
(***************************************************************************)

LEMMA Initially ==
    ASSUME Init
    PROVE  IInv
<1>. USE Constants
<1>1. CalendarTypeOK
  BY AppointmentAssumption DEF Init, CalendarTypeOK, Times
<1>2. OrdersInv
  BY DEF Init, OrdersInv, OrderColumns, OrderRow, ProposalRow, Statuses
<1>3. WindowsInv
  BY DEF Init, WindowsInv, WindowRow, OpenStatuses
<1>4. \A t : HeldAt(t) = {}
  BY DEF Init, HeldAt, Holds
<1>5. SeatsInv
  BY <1>4 DEF SeatsInv
<1>. QED BY <1>1, <1>2, <1>3, <1>5 DEF IInv

LEMMA Preserved ==
    ASSUME IInv, [Next]_vars
    PROVE  IInv'
<1>1. ASSUME NEW o \in Orders, OrderStep(o) PROVE IInv'
  BY <1>1, CreateKeeps, ConfirmKeeps, DepartureSteps, LifecycleSteps, RefundEndsKeeps DEF OrderStep
<1>2. ASSUME NEW o \in Orders, NegotiationStep(o) PROVE IInv'
  BY <1>2, RequestKeeps, AcceptKeeps, WithdrawalKeeps DEF NegotiationStep
<1>. QED BY <1>1, <1>2, CalendarSteps, TickKeeps, Stutter DEF Next

LEMMA Inductive == Spec => []IInv
<1>1. Init => IInv
  BY Initially
<1>2. IInv /\ [Next]_vars => IInv'
  BY Preserved
<1>. QED BY <1>1, <1>2, PTL DEF Spec

\* Every window, order, seat, deadline and request is what its row may hold,
\* whatever orders.service.ts and companions.service.ts do to the calendar.
THEOREM TypeCorrect == Spec => []TypeOK
<1>1. IInv => TypeOK
  <2>1. ASSUME OrdersInv
        PROVE  /\ status \in [Orders -> Statuses] /\ sched \in [Orders -> Later \cup {None}]
               /\ seat \in [Orders -> SeatRows \cup {None}] /\ until \in [Orders -> Int \cup {None}]
               /\ proposal \in [Orders -> Proposals \cup {None}]
    BY <2>1 DEF OrdersInv, OrderColumns, OrderRow
  <2>. QED BY <2>1 DEF IInv, CalendarTypeOK, OrdersInv, TypeOK
<1>. QED BY <1>1, Inductive, PTL

\* A request to move an appointment that can still be answered is about an order
\* that is open, unstarted, without a refund, and where the request says it is:
\* every transition of the order closes the request
\* (cancelPendingRescheduleRequest) or comes after its time
\* (rescheduleRequestExpiresAt).
THEOREM LiveProposalIsOpenAlways == Spec => []LiveProposalIsOpen
<1>1. ASSUME IInv, NEW o \in Orders, proposal[o] # None, now < proposal[o].expires
      PROVE  /\ status[o] \in {"pending", "confirmed", "paying", "paid"}
             /\ o \notin refunding /\ sched[o] = proposal[o].from
             /\ now < sched[o] - EarlyStart
  <2>1. OrderRow(o) /\ ProposalRow(o) /\ now \in Int
    BY <1>1, Constants DEF IInv, OrdersInv, CalendarTypeOK
  <2>2. proposal[o].expires \in Int /\ proposal[o].from \in Int
    BY <1>1, <2>1, Constants DEF OrderRow, Proposals
  <2>3. ~(proposal[o].expires <= now)
    BY <1>1, <2>1, <2>2
  <2>4. /\ proposal[o].expires <= proposal[o].from - EarlyStart /\ o \notin refunding
        /\ status[o] \in {"pending", "confirmed", "paying", "paid"} /\ sched[o] = proposal[o].from
    BY <1>1, <2>1, <2>3 DEF ProposalRow
  <2>5. now < proposal[o].from - EarlyStart
    BY <1>1, <2>1, <2>2, <2>4, Constants
  <2>. QED BY <2>4, <2>5
<1>2. IInv => LiveProposalIsOpen
  BY <1>1 DEF LiveProposalIsOpen
<1>. QED BY <1>2, Inductive, PTL

\* An order that is open keeps the window it was booked in: on offer, around the
\* service, with the capacity of its snapshot, though updateOwnAvailabilityWindow
\* locks the window only and commits after others have written the calendar.
THEOREM WindowHonouredAlways == Spec => []WindowHonoured
<1>1. IInv => WindowHonoured
  BY DEF IInv, WindowsInv, WindowRow, Offers, WindowHonoured, OpenOrders, OpenStatuses
<1>. QED BY <1>1, Inductive, PTL

\* At no time are more services held than the largest capacity one of them was
\* sold under, for any number of orders, windows, capacities and moves.
THEOREM SeatsWithinCapacityAlways == Spec => []SeatsWithinCapacity
<1>1. IInv => SeatsWithinCapacity
  BY DEF IInv, SeatsInv, SeatsWithinCapacity, HeldAt
<1>. QED BY <1>1, Inductive, PTL

=============================================================================
