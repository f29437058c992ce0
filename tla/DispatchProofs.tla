--------------------------- MODULE DispatchProofs ---------------------------
(***************************************************************************)
(* Theorems about Dispatch, for every set of bookings, vehicles, drivers,  *)
(* rows and requests, and every choice of trips and of hold parameters.    *)
(***************************************************************************)
EXTENDS Dispatch, TLAPS

(* computeHoldWindow returns a window, and never an empty one: the CHECK   *)
(* that ends_at is later than starts_at cannot refuse it.                  *)
LEMMA HoldWindowType ==
    ASSUME NEW t \in Trips
    PROVE  HoldWindow(t) \in Windows /\ HoldWindow(t).from < HoldWindow(t).to
BY HoldParametersAssumption
   DEF Trips, Windows, HoldWindow, UnclampedEnd, TripLength

(* "WHY THE WINDOW IS WIDER THAN THE TRIP" (allocation.model): the hold    *)
(* contains the ride of every booking that is not HOURLY.                  *)
THEOREM HoldCoversRide ==
    ASSUME NEW t \in Trips, t.type # "HOURLY"
    PROVE  /\ HoldWindow(t).from = Ride(t).from
           /\ Ride(t).to <= HoldWindow(t).to
BY HoldParametersAssumption
   DEF Trips, TripTypes, HoldWindow, UnclampedEnd, TripLength, Ride

-----------------------------------------------------------------------------
(* Types.  A booking that exists has a class and a trip, and a re-quote in *)
(* flight is for a booking that exists and keeps an HOURLY trip unrouted.  *)
Booked == \A b \in Bookings : status[b] # None => class[b] \in Classes /\ trip[b] \in Trips

QuoteFits(q) ==
    /\ status[q.booking] # None
    /\ trip[q.booking].type = "HOURLY" => q.duration = 0

QuotesFit == \A r \in Requests : req[r].op \in {"change", "release"} => QuoteFits(req[r])

TypeInv == TypeOK /\ Booked /\ QuotesFit

(* What a request in flight holds, by the kind of request. *)
LEMMA RequestTypes ==
    ASSUME TypeOK, NEW r \in Requests
    PROVE  /\ req[r].op = "allocate" => req[r] \in AllocateReq
           /\ req[r].op = "reassign" => req[r] \in ReassignReq
           /\ req[r].op = "change" => req[r] \in ChangeReq
           /\ req[r].op = "release" => req[r] \in ReleaseReq
           /\ req[r].op = "retire" => req[r] \in RetireReq
BY DEF TypeOK, Request, Idle, AllocateReq, ReassignReq, ChangeReq, ReleaseReq, RetireReq

LEMMA NewRowType ==
    ASSUME TypeInv, NEW b \in Bookings, status[b] # None,
           NEW v \in Vehicles, NEW d \in Drivers \cup {None}
    PROVE  NewRow(b, v, d) \in Row
BY HoldWindowType DEF TypeInv, TypeOK, Booked, NewRow, Row

(* Releasing rows keeps the tables typed. *)
LEMMA ReleasedTypes ==
    ASSUME TypeOK, NEW gone, NEW freed
    PROVE  /\ Released(gone) \in [AllocIds -> Row \cup {None}]
           /\ Freed(freed) \in [Vehicles -> VehicleStatuses]
BY DEF TypeOK, Released, Freed, Exists, Row, VehicleStatuses

LEMMA ReleaseTypes ==
    ASSUME TypeOK, NEW gone, Release(gone)
    PROVE  /\ alloc' \in [AllocIds -> Row \cup {None}]
           /\ vstatus' \in [Vehicles -> VehicleStatuses]
           /\ byHand' \subseteq Vehicles
BY ReleasedTypes DEF TypeOK, Release

LEMMA TypeInit == Init => TypeInv
BY DispatchAssumption
   DEF Init, TypeInv, TypeOK, Booked, QuotesFit, Idle, Request, VehicleStatuses

LEMMA TypeStep == TypeInv /\ [Next]_vars => TypeInv'
<1> SUFFICES ASSUME TypeInv, [Next]_vars PROVE TypeInv'
    OBVIOUS
<1> USE DispatchAssumption DEF TypeInv
<1>1. ASSUME NEW b \in Bookings, NEW c \in Classes, NEW t \in Offers[b], Create(b, c, t)
      PROVE  TypeInv'
    BY <1>1 DEF Create, TypeOK, Booked, QuotesFit, QuoteFits, BookingStatuses
<1>2. ASSUME NEW b \in Bookings, Advance(b) PROVE TypeInv'
    BY <1>2 DEF Advance, Move, From, TypeOK, Booked, QuotesFit, QuoteFits, BookingStatuses
<1>3. ASSUME NEW b \in Bookings, MarkAllocated(b) PROVE TypeInv'
    BY <1>3 DEF MarkAllocated, Move, From, TypeOK, Booked, QuotesFit, QuoteFits, BookingStatuses
<1>4. ASSUME NEW b \in Bookings, CompleteTrip(b) PROVE TypeInv'
    BY <1>4, ReleaseTypes DEF CompleteTrip, ReleaseVehicleForBooking, HoldsOf, Move, From,
       TypeOK, Booked, QuotesFit, QuoteFits, BookingStatuses
<1>5. ASSUME NEW b \in Bookings, Cancel(b) PROVE TypeInv'
    BY <1>5, ReleaseTypes DEF Cancel, Cancellable, ReleaseVehicleForBooking, HoldsOf,
       TypeOK, Booked, QuotesFit, QuoteFits, BookingStatuses
<1>6. ASSUME NEW r \in Requests, NEW b \in Bookings, NEW v \in Vehicles,
             NEW d \in Drivers \cup {None}, AllocateRead(r, b, v, d)
      PROVE  TypeInv'
    <2>1. NewRow(b, v, d) \in Row
        BY <1>6, NewRowType DEF AllocateRead, Assignable, BookingStatuses
    <2> QED
        BY <1>6, <2>1 DEF AllocateRead, AllocateReq, Request, TypeOK, Booked, QuotesFit, QuoteFits
<1>7. ASSUME NEW r \in Requests, NEW b \in Bookings, NEW v \in Vehicles,
             NEW d \in Drivers \cup {None}, ReassignRead(r, b, v, d)
      PROVE  TypeInv'
    <2>1. NewRow(b, v, d) \in Row
        BY <1>7, NewRowType DEF ReassignRead, Reassignable, BookingStatuses
    <2> QED
        BY <1>7, <2>1 DEF ReassignRead, ReassignReq, HoldsOf, Request, TypeOK, Booked, QuotesFit,
           QuoteFits
<1>8. ASSUME NEW r \in Requests, NEW b \in Bookings, NEW c \in Classes, NEW m \in Requotes,
             ChangeClassRead(r, b, c, m)
      PROVE  TypeInv'
    BY <1>8 DEF ChangeClassRead, Changeable, BookingStatuses, ChangeReq, Request, TypeOK, Booked,
       QuotesFit, QuoteFits
<1>9. ASSUME NEW r \in Requests, NEW v \in Retirable, RetireRead(r, v) PROVE TypeInv'
    BY <1>9 DEF RetireRead, RetireReq, Request, TypeOK, Booked, QuotesFit, QuoteFits
<1>10. ASSUME NEW r \in Requests, AllocateCommit(r) PROVE TypeInv'
    <2>1. req[r] \in AllocateReq
        BY <1>10, RequestTypes DEF AllocateCommit
    <2> QED
        BY <1>10, <2>1 DEF AllocateCommit, AllocateReq, Row, Assignable, Idle, Request, TypeOK,
           Booked, QuotesFit, QuoteFits, BookingStatuses, VehicleStatuses
<1>11. ASSUME NEW r \in Requests, ReassignCommit(r) PROVE TypeInv'
    <2>1. req[r] \in ReassignReq
        BY <1>11, RequestTypes DEF ReassignCommit
    <2>2. alloc' \in [AllocIds -> Row \cup {None}]
        BY <1>11, <2>1, ReleasedTypes DEF ReassignCommit, ReassignReq
    <2>3. vstatus' \in [Vehicles -> VehicleStatuses]
        BY <1>11, <2>1, ReleasedTypes DEF ReassignCommit, ReassignReq, VehicleStatuses
    <2> QED
        BY <1>11, <2>2, <2>3 DEF ReassignCommit, Idle, Request, TypeOK, Booked, QuotesFit, QuoteFits
<1>12. ASSUME NEW r \in Requests, ChangeClassCommit(r) PROVE TypeInv'
    <2>1. req[r] \in ChangeReq
        BY <1>12, RequestTypes DEF ChangeClassCommit
    <2> QED
        BY <1>12, <2>1 DEF ChangeClassCommit, Reclass, ChangeReq, Trips, Idle, Request, TypeOK,
           Booked, QuotesFit, QuoteFits
<1>13. ASSUME NEW r \in Requests, ChangeClassFind(r) PROVE TypeInv'
    <2>1. req[r] \in ChangeReq
        BY <1>13, RequestTypes DEF ChangeClassFind
    <2> QED
        BY <1>13, <2>1 DEF ChangeClassFind, ChangeReq, ReleaseReq, HoldsOf, Request, TypeOK,
           Booked, QuotesFit, QuoteFits
<1>14. ASSUME NEW r \in Requests, ChangeClassRelease(r) PROVE TypeInv'
    <2>1. req[r] \in ReleaseReq
        BY <1>14, RequestTypes DEF ChangeClassRelease
    <2>2. /\ alloc' \in [AllocIds -> Row \cup {None}]
          /\ vstatus' \in [Vehicles -> VehicleStatuses]
          /\ byHand' \subseteq Vehicles
        BY <1>14, <2>1, ReleaseTypes DEF ChangeClassRelease, ReleaseReq
    <2>3. /\ req[r].booking \in Bookings /\ req[r].class \in Classes /\ QuoteFits(req[r])
          /\ trip[req[r].booking] \in Trips
        BY <1>14, <2>1 DEF ChangeClassRelease, ReleaseReq, Booked, QuotesFit, QuoteFits
    <2>4. [trip[req[r].booking] EXCEPT !.duration = req[r].duration] \in Trips
        BY <2>1, <2>3 DEF ReleaseReq, Trips, QuoteFits
    <2>5. /\ status' \in [Bookings -> BookingStatuses \cup {None}]
          /\ class' \in [Bookings -> Classes \cup {None}]
          /\ trip' \in [Bookings -> Trips \cup {None}]
        BY <1>14, <2>3, <2>4 DEF ChangeClassRelease, Reclass, TypeOK, BookingStatuses
    <2>6. req' \in [Requests -> Request]
        BY <1>14 DEF ChangeClassRelease, TypeOK, Request
    <2>7. TypeOK'
        BY <1>14, <2>2, <2>5, <2>6 DEF ChangeClassRelease, TypeOK
    <2>8. Booked'
        BY <1>14, <2>3, <2>4 DEF ChangeClassRelease, Reclass, TypeOK, Booked
    <2>9. QuotesFit'
      <3> SUFFICES ASSUME NEW s \in Requests, req'[s].op \in {"change", "release"}
                   PROVE  QuoteFits(req[s])'
        BY DEF QuotesFit
      <3>1. s # r /\ req'[s] = req[s]
        BY <1>14 DEF ChangeClassRelease, Idle, TypeOK
      <3>2. QuoteFits(req[s])
        BY <3>1 DEF QuotesFit
      <3>3. PICK q : q = req[s]
        OBVIOUS
      <3>4. status'[q.booking] # None
        BY <1>14, <2>3, <3>2, <3>3 DEF ChangeClassRelease, TypeOK, QuoteFits, BookingStatuses
      <3>5. trip'[q.booking].type = trip[q.booking].type
        BY <1>14, <2>3 DEF ChangeClassRelease, Reclass, TypeOK, Trips
      <3> QED
        BY <3>1, <3>2, <3>3, <3>4, <3>5 DEF QuoteFits
    <2> QED
        BY <2>7, <2>8, <2>9
<1>15. ASSUME NEW r \in Requests, RetireCommit(r) PROVE TypeInv'
    <2>1. req[r] \in RetireReq
        BY <1>15, RequestTypes DEF RetireCommit
    <2> QED
        BY <1>15, <2>1 DEF RetireCommit, RetireReq, Idle, Request, TypeOK, Booked, QuotesFit,
           QuoteFits, VehicleStatuses
<1>16. ASSUME NEW r \in Requests, Abandon(r) PROVE TypeInv'
    BY <1>16 DEF Abandon, Idle, Request, TypeOK, Booked, QuotesFit, QuoteFits
<1>17. ASSUME NEW v \in Vehicles, NEW e \in HandEdits, UpdateVehicle(v, e) PROVE TypeInv'
    BY <1>17 DEF UpdateVehicle, TypeOK, Booked, QuotesFit, QuoteFits
<1>18. CASE UNCHANGED vars
    BY <1>18 DEF vars, TypeOK, Booked, QuotesFit, QuoteFits
<1> QED
    BY <1>1, <1>2, <1>3, <1>4, <1>5, <1>6, <1>7, <1>8, <1>9, <1>10, <1>11, <1>12, <1>13, <1>14,
       <1>15, <1>16, <1>17, <1>18 DEF Next, BookingStep, ReadStep, CommitStep

(* Every column keeps its type and every request its shape. *)
THEOREM Typed == Spec => []TypeOK
<1>1. TypeInv => TypeOK
    BY DEF TypeInv
<1> QED
    BY <1>1, TypeInit, TypeStep, PTL DEF Spec

-----------------------------------------------------------------------------
(* No double booking.  Whatever the handler, the table of allocations      *)
(* changes in one of three ways: not at all, by releasing rows, or by one  *)
(* insert that the constraints admit, after releasing rows.                *)
Inserts(gone, a, row) ==
    /\ ~Exists(a)
    /\ InsertAllowed(gone, row)
    /\ alloc' = [Released(gone) EXCEPT ![a] = row]

LEMMA ReleasedRows ==
    ASSUME TypeOK, NEW gone, NEW a \in AllocIds
    PROVE  /\ Released(gone)[a] # None <=> Exists(a)
           /\ Exists(a) => /\ Released(gone)[a].booking = alloc[a].booking
                           /\ Released(gone)[a].vehicle = alloc[a].vehicle
                           /\ Released(gone)[a].active <=> Active(a) /\ a \notin gone
           /\ a \notin gone => Released(gone)[a] = alloc[a]
<1>1. CASE Exists(a) /\ a \in gone
    <2>1. alloc[a] \in Row /\ Released(gone)[a] = [alloc[a] EXCEPT !.active = FALSE]
        BY <1>1 DEF TypeOK, Released, Exists
    <2>2. Released(gone)[a] \in Row
        BY <2>1 DEF Row
    <2> QED
        BY <1>1, <2>1, <2>2, DispatchAssumption DEF Row, Exists, Active
<1>2. CASE ~(Exists(a) /\ a \in gone)
    BY <1>2 DEF TypeOK, Released, Exists, Active
<1> QED
    BY <1>1, <1>2

LEMMA NothingReleased == ASSUME TypeOK PROVE Released({}) = alloc
BY DEF TypeOK, Released

LEMMA TableStep ==
    ASSUME TypeInv, [Next]_vars
    PROVE  \/ UNCHANGED alloc
           \/ \E gone \in SUBSET AllocIds : alloc' = Released(gone)
           \/ \E gone \in SUBSET AllocIds, a \in AllocIds, row \in Row : Inserts(gone, a, row)
<1> USE DEF TypeInv
<1>1. ASSUME NEW b \in Bookings, BookingStep(b)
      PROVE  UNCHANGED alloc \/ \E gone \in SUBSET AllocIds : alloc' = Released(gone)
    BY <1>1 DEF BookingStep, Create, Advance, MarkAllocated, CompleteTrip, Cancel,
       ReleaseVehicleForBooking, Release, HoldsOf
<1>2. ASSUME NEW r \in Requests, ReadStep(r) PROVE UNCHANGED alloc
    BY <1>2 DEF ReadStep, AllocateRead, ReassignRead, ChangeClassRead, RetireRead
<1>3. ASSUME NEW r \in Requests, AllocateCommit(r)
      PROVE  \E a \in AllocIds, row \in Row : Inserts({}, a, row)
    <2>1. req[r] \in AllocateReq
        BY <1>3, RequestTypes DEF AllocateCommit
    <2> QED
        BY <1>3, <2>1, NothingReleased DEF AllocateCommit, AllocateReq, Inserts
<1>4. ASSUME NEW r \in Requests, ReassignCommit(r)
      PROVE  \E gone \in SUBSET AllocIds, a \in AllocIds, row \in Row : Inserts(gone, a, row)
    <2>1. req[r] \in ReassignReq
        BY <1>4, RequestTypes DEF ReassignCommit
    <2>2. /\ {req[r].current} \in SUBSET AllocIds
          /\ req[r].row \in Row
          /\ \E a \in AllocIds : Inserts({req[r].current}, a, req[r].row)
        BY <1>4, <2>1 DEF ReassignCommit, ReassignReq, Inserts
    <2> QED
        BY <2>2
<1>5. ASSUME NEW r \in Requests, ChangeClassRelease(r)
      PROVE  \E gone \in SUBSET AllocIds : alloc' = Released(gone)
    <2>1. req[r] \in ReleaseReq
        BY <1>5, RequestTypes DEF ChangeClassRelease
    <2> QED
        BY <1>5, <2>1 DEF ChangeClassRelease, Release, ReleaseReq
<1>6. ASSUME NEW r \in Requests,
             ChangeClassCommit(r) \/ ChangeClassFind(r) \/ RetireCommit(r) \/ Abandon(r)
      PROVE  UNCHANGED alloc
    BY <1>6 DEF ChangeClassCommit, ChangeClassFind, RetireCommit, Abandon
<1>7. ASSUME NEW v \in Vehicles, NEW e \in HandEdits, UpdateVehicle(v, e) PROVE UNCHANGED alloc
    BY <1>7 DEF UpdateVehicle
<1>8. CASE UNCHANGED vars
    BY <1>8 DEF vars
<1>9. ASSUME NEW r \in Requests, CommitStep(r)
      PROVE  \/ UNCHANGED alloc
             \/ \E gone \in SUBSET AllocIds : alloc' = Released(gone)
             \/ \E gone \in SUBSET AllocIds, a \in AllocIds, row \in Row : Inserts(gone, a, row)
    BY <1>3, <1>4, <1>5, <1>6, <1>9 DEF CommitStep
<1> QED
    BY <1>1, <1>2, <1>7, <1>8, <1>9 DEF Next

LEMMA CollidesSymmetric == \A p, q : Collides(p, q) => Collides(q, p)
BY DEF Collides, Overlap

LEMMA NoDoubleBookingStep ==
    ASSUME TypeInv, NoDoubleBooking, [Next]_vars
    PROVE  NoDoubleBooking'
<1> USE DEF TypeInv
<1>1. CASE UNCHANGED alloc
    BY <1>1 DEF NoDoubleBooking, Active, Exists
<1>2. ASSUME NEW gone \in SUBSET AllocIds, alloc' = Released(gone)
      PROVE  NoDoubleBooking'
    <2>1. \A a \in AllocIds : Active(a)' => Active(a) /\ alloc'[a] = alloc[a]
        BY <1>2, ReleasedRows DEF Active, Exists
    <2> QED
        BY <2>1 DEF NoDoubleBooking, Collides
<1>3. ASSUME NEW gone \in SUBSET AllocIds, NEW i \in AllocIds, NEW row \in Row,
             Inserts(gone, i, row)
      PROVE  NoDoubleBooking'
    <2>1. \A a \in AllocIds \ {i} :
             Active(a)' => Active(a) /\ a \notin gone /\ alloc'[a] = alloc[a]
        <3>1. \A a \in AllocIds \ {i} : alloc'[a] = Released(gone)[a]
            BY <1>3, ReleasedTypes DEF Inserts
        <3> QED
            BY <3>1, ReleasedRows DEF Active, Exists
    <2>2. alloc'[i] = row
        BY <1>3, ReleasedTypes DEF Inserts
    <2>3. \A a \in AllocIds \ {i} :
             Active(a)' => alloc[a].booking # row.booking /\ ~Collides(alloc[a], row)
        BY <1>3, <2>1 DEF Inserts, InsertAllowed
    <2>4. ASSUME NEW x \in AllocIds, NEW y \in AllocIds, x # y, Active(x)', Active(y)'
          PROVE  alloc'[x].booking # alloc'[y].booking /\ ~Collides(alloc'[x], alloc'[y])
        <3>1. CASE x # i /\ y # i
            BY <2>1, <2>4, <3>1 DEF NoDoubleBooking
        <3>2. CASE x = i
            BY <2>1, <2>2, <2>3, <2>4, <3>2, CollidesSymmetric
        <3>3. CASE y = i
            BY <2>1, <2>2, <2>3, <2>4, <3>3
        <3> QED
            BY <3>1, <3>2, <3>3
    <2> QED
        BY <2>4 DEF NoDoubleBooking, Collides
<1> QED
    BY <1>1, <1>2, <1>3, TableStep

LEMMA NoDoubleBookingInit == Init => NoDoubleBooking
BY DEF Init, NoDoubleBooking, Active, Exists

(* Two live allocations never share a booking, nor a vehicle or a driver   *)
(* at one time, under any interleaving of allocate, reassign, the change   *)
(* of class, cancellation and completion.                                  *)
THEOREM DoubleBookingNever == Spec => []NoDoubleBooking
<1>1. TypeInv /\ NoDoubleBooking /\ [Next]_vars => (TypeInv /\ NoDoubleBooking)'
    BY TypeStep, NoDoubleBookingStep
<1> QED
    BY <1>1, TypeInit, NoDoubleBookingInit, PTL DEF Spec

-----------------------------------------------------------------------------
(* What a request in flight has seen stays true of the rows it names,      *)
(* released or not: a row never changes the booking it is for.             *)
SnapshotFits(q) ==
    /\ q.op \in {"allocate", "reassign"} => q.row.active
    /\ q.op = "reassign" =>
          Exists(q.current) /\ alloc[q.current].booking = q.row.booking
    /\ q.op = "release" =>
          /\ \A a \in q.found : Exists(a) /\ alloc[a].booking = q.booking
          /\ \A a1, a2 \in q.found : a1 = a2

SnapshotsFit == \A r \in Requests : SnapshotFits(req[r])

LEMMA RowsKeepTheirBooking ==
    ASSUME TypeInv, [Next]_vars, NEW a \in AllocIds, Exists(a)
    PROVE  Exists(a)' /\ alloc'[a].booking = alloc[a].booking
<1> USE DEF TypeInv
<1>1. CASE UNCHANGED alloc
    BY <1>1 DEF Exists
<1>2. ASSUME NEW gone \in SUBSET AllocIds, alloc' = Released(gone)
      PROVE  Exists(a)' /\ alloc'[a].booking = alloc[a].booking
    BY <1>2, ReleasedRows DEF Exists
<1>3. ASSUME NEW gone \in SUBSET AllocIds, NEW i \in AllocIds, NEW row \in Row,
             Inserts(gone, i, row)
      PROVE  Exists(a)' /\ alloc'[a].booking = alloc[a].booking
    <2>1. a # i /\ alloc'[a] = Released(gone)[a]
        BY <1>3, ReleasedTypes DEF Inserts
    <2> QED
        BY <2>1, ReleasedRows DEF Exists
<1> QED
    BY <1>1, <1>2, <1>3, TableStep

LEMMA SnapshotsInit == Init => SnapshotsFit
BY DEF Init, SnapshotsFit, SnapshotFits, Idle

LEMMA SnapshotsStep ==
    ASSUME TypeInv, NoDoubleBooking, SnapshotsFit, [Next]_vars
    PROVE  SnapshotsFit'
<1> USE DEF TypeInv
(* A request whose slot the step leaves alone. *)
<1>1. ASSUME NEW r \in Requests, req'[r] = req[r] PROVE SnapshotFits(req[r])'
    <2>1. SnapshotFits(req[r])
        BY DEF SnapshotsFit
    <2>2. CASE req[r].op = "reassign"
        <3>1. req[r] \in ReassignReq
            BY <2>2, RequestTypes
        <3> QED
            BY <1>1, <2>1, <2>2, <3>1, RowsKeepTheirBooking DEF SnapshotFits, ReassignReq
    <2>3. CASE req[r].op = "release"
        <3>1. req[r] \in ReleaseReq
            BY <2>3, RequestTypes
        <3>2. \A a \in req[r].found : Exists(a)' /\ alloc'[a].booking = req[r].booking
            BY <2>1, <2>3, <3>1, RowsKeepTheirBooking DEF SnapshotFits, ReleaseReq
        <3> QED
            BY <1>1, <2>1, <2>3, <3>2 DEF SnapshotFits
    <2>4. CASE req[r].op \notin {"reassign", "release"}
        BY <1>1, <2>1, <2>4 DEF SnapshotFits
    <2> QED
        BY <2>2, <2>3, <2>4
(* One whose slot it writes. *)
<1>2. ASSUME NEW r \in Requests, \A s \in Requests \ {r} : req'[s] = req[s],
             SnapshotFits(req[r])'
      PROVE  SnapshotsFit'
    BY <1>1, <1>2 DEF SnapshotsFit
<1>3. ASSUME NEW r \in Requests, req' = [req EXCEPT ![r] = Idle] PROVE SnapshotsFit'
    <2>1. req'[r] = Idle /\ \A s \in Requests \ {r} : req'[s] = req[s]
        BY <1>3 DEF TypeOK
    <2>2. SnapshotFits(req[r])'
        BY <2>1 DEF SnapshotFits, Idle
    <2> QED
        BY <1>2, <2>1, <2>2
<1>4. ASSUME NEW r \in Requests, ReadStep(r) PROVE SnapshotsFit'
    <2>1. ASSUME NEW b \in Bookings, NEW v \in Vehicles, NEW d \in Drivers \cup {None},
                 AllocateRead(r, b, v, d)
          PROVE  SnapshotsFit'
        <3>1. /\ req'[r] = [op |-> "allocate", row |-> NewRow(b, v, d)]
              /\ \A s \in Requests \ {r} : req'[s] = req[s]
            BY <2>1 DEF AllocateRead, TypeOK
        <3>2. SnapshotFits(req[r])'
            BY <3>1 DEF SnapshotFits, NewRow
        <3> QED
            BY <1>2, <3>1, <3>2
    <2>2. ASSUME NEW b \in Bookings, NEW v \in Vehicles, NEW d \in Drivers \cup {None},
                 ReassignRead(r, b, v, d)
          PROVE  SnapshotsFit'
        <3>1. PICK a \in HoldsOf(b) :
                /\ req'[r] = [op |-> "reassign", row |-> NewRow(b, v, d), current |-> a]
                /\ \A s \in Requests \ {r} : req'[s] = req[s]
            BY <2>2 DEF ReassignRead, TypeOK
        <3>2. SnapshotFits(req[r])'
            BY <2>2, <3>1 DEF ReassignRead, SnapshotFits, NewRow, HoldsOf, Active, Exists
        <3> QED
            BY <1>2, <3>1, <3>2
    <2>3. ASSUME NEW b \in Bookings, NEW c \in Classes, NEW m \in Requotes,
                 ChangeClassRead(r, b, c, m)
          PROVE  SnapshotsFit'
        <3>1. req'[r].op = "change" /\ \A s \in Requests \ {r} : req'[s] = req[s]
            BY <2>3 DEF ChangeClassRead, TypeOK
        <3>2. SnapshotFits(req[r])'
            BY <3>1 DEF SnapshotFits
        <3> QED
            BY <1>2, <3>1, <3>2
    <2>4. ASSUME NEW v \in Retirable, RetireRead(r, v) PROVE SnapshotsFit'
        <3>1. req'[r].op = "retire" /\ \A s \in Requests \ {r} : req'[s] = req[s]
            BY <2>4 DEF RetireRead, TypeOK
        <3>2. SnapshotFits(req[r])'
            BY <3>1 DEF SnapshotFits
        <3> QED
            BY <1>2, <3>1, <3>2
    <2> QED
        BY <1>4, <2>1, <2>2, <2>3, <2>4 DEF ReadStep
<1>5. ASSUME NEW r \in Requests, ChangeClassFind(r) PROVE SnapshotsFit'
    <2>1. \A a1, a2 \in HoldsOf(req[r].booking) : a1 = a2
        BY DEF HoldsOf, NoDoubleBooking
    <2>2. /\ req'[r] = [op |-> "release", booking |-> req[r].booking, class |-> req[r].class,
                        duration |-> req[r].duration, found |-> HoldsOf(req[r].booking)]
          /\ \A s \in Requests \ {r} : req'[s] = req[s]
        BY <1>5 DEF ChangeClassFind, TypeOK
    <2>3. SnapshotFits(req[r])'
        BY <1>5, <2>1, <2>2 DEF ChangeClassFind, SnapshotFits, HoldsOf, Active, Exists
    <2> QED
        BY <1>2, <2>2, <2>3
<1>6. ASSUME NEW r \in Requests, CommitStep(r) PROVE SnapshotsFit'
    BY <1>3, <1>5, <1>6 DEF CommitStep, AllocateCommit, ReassignCommit, ChangeClassCommit,
       ChangeClassRelease, RetireCommit, Abandon
<1>7. ASSUME NEW b \in Bookings, BookingStep(b) PROVE SnapshotsFit'
    BY <1>1, <1>7 DEF BookingStep, Create, Advance, MarkAllocated, CompleteTrip, Cancel, SnapshotsFit
<1>8. ASSUME NEW v \in Vehicles, NEW e \in HandEdits, UpdateVehicle(v, e) PROVE SnapshotsFit'
    BY <1>1, <1>8 DEF UpdateVehicle, SnapshotsFit
<1>9. CASE UNCHANGED vars
    BY <1>1, <1>9 DEF vars, SnapshotsFit
<1> QED
    BY <1>4, <1>6, <1>7, <1>8, <1>9 DEF Next

-----------------------------------------------------------------------------
(* A booking in motion keeps its hold. *)
LEMMA HoldsAfterRelease ==
    ASSUME TypeOK, NEW gone, alloc' = Released(gone), NEW a \in AllocIds
    PROVE  /\ Active(a)' <=> Active(a) /\ a \notin gone
           /\ Active(a) => alloc'[a].booking = alloc[a].booking
                        /\ alloc'[a].vehicle = alloc[a].vehicle
BY ReleasedRows DEF Active, Exists

LEMMA HoldsAfterInsert ==
    ASSUME TypeOK, NEW gone, NEW i \in AllocIds, NEW row \in Row, Inserts(gone, i, row)
    PROVE  /\ \A a \in AllocIds \ gone : Active(a) =>
                 Active(a)' /\ alloc'[a] = alloc[a]
           /\ alloc'[i] = row
           /\ row.active => Active(i)'
<1>1. alloc'[i] = row /\ \A a \in AllocIds \ {i} : alloc'[a] = Released(gone)[a]
    BY ReleasedTypes DEF Inserts
<1>2. ASSUME NEW a \in AllocIds \ gone, Active(a) PROVE Active(a)' /\ alloc'[a] = alloc[a]
    BY <1>1, <1>2, ReleasedRows DEF Inserts, Active, Exists
<1> QED
    BY <1>1, <1>2, DispatchAssumption DEF Active, Exists

LEMMA InMotionInit == Init => InMotionHeld
BY DispatchAssumption DEF Init, InMotionHeld, InMotion, BookingStatuses

LEMMA InMotionStep ==
    ASSUME TypeInv, SnapshotsFit, InMotionHeld, [Next]_vars
    PROVE  InMotionHeld'
<1> USE DispatchAssumption DEF TypeInv
(* A step that moves no booking into motion and releases nothing. *)
<1>1. ASSUME UNCHANGED alloc, bare \subseteq bare',
             \A b \in Bookings \ bare' : status'[b] \in InMotion => status[b] \in InMotion
      PROVE  InMotionHeld'
    BY <1>1 DEF InMotionHeld, HoldsOf, Active, Exists
(* A step that releases what one booking holds, and leaves it at rest. *)
<1>2. ASSUME NEW b \in Bookings, NEW gone, alloc' = Released(gone), UNCHANGED bare,
             NEW s \in BookingStatuses \ InMotion, status' = [status EXCEPT ![b] = s],
             \A a \in gone : Exists(a) /\ alloc[a].booking = b
      PROVE  InMotionHeld'
    <2>1. ASSUME NEW c \in Bookings \ bare', status'[c] \in InMotion
          PROVE  HoldsOf(c)' # {}
        <3>1. c # b /\ status[c] \in InMotion
            BY <1>2, <2>1 DEF TypeOK
        <3>2. PICK a \in HoldsOf(c) : TRUE
            BY <1>2, <3>1 DEF InMotionHeld
        <3>3. a \in HoldsOf(c)'
            BY <1>2, <3>1, <3>2, HoldsAfterRelease DEF HoldsOf
        <3> QED
            BY <3>3
    <2> QED
        BY <2>1 DEF InMotionHeld
(* A step that gives one booking a hold in place of the one it had. *)
<1>3. ASSUME NEW gone, NEW i \in AllocIds, NEW row \in Row, Inserts(gone, i, row), row.active,
             \A a \in gone : Exists(a) /\ alloc[a].booking = row.booking,
             bare' = bare \ {row.booking},
             \A c \in Bookings \ {row.booking} : status'[c] = status[c]
      PROVE  InMotionHeld'
    <2>1. ASSUME NEW c \in Bookings \ bare', status'[c] \in InMotion
          PROVE  HoldsOf(c)' # {}
        <3>1. CASE c = row.booking
            <4>1. i \in HoldsOf(c)'
                BY <1>3, <3>1, HoldsAfterInsert DEF HoldsOf
            <4> QED
                BY <4>1
        <3>2. CASE c # row.booking
            <4>1. PICK a \in HoldsOf(c) : TRUE
                BY <1>3, <2>1, <3>2 DEF InMotionHeld
            <4>2. a \in HoldsOf(c)'
                BY <1>3, <3>2, <4>1, HoldsAfterInsert DEF HoldsOf
            <4> QED
                BY <4>2
        <3> QED
            BY <3>1, <3>2
    <2> QED
        BY <2>1 DEF InMotionHeld
<1>4. ASSUME NEW b \in Bookings, NEW c \in Classes, NEW t \in Offers[b], Create(b, c, t)
      PROVE  InMotionHeld'
    BY <1>1, <1>4 DEF Create, TypeOK, InMotion
<1>5. ASSUME NEW b \in Bookings, Advance(b) PROVE InMotionHeld'
    BY <1>1, <1>5 DEF Advance, Move, From, TypeOK, InMotion
<1>6. ASSUME NEW b \in Bookings, MarkAllocated(b) PROVE InMotionHeld'
    BY <1>1, <1>6 DEF MarkAllocated, Move, TypeOK
<1>7. ASSUME NEW b \in Bookings, CompleteTrip(b) \/ Cancel(b) PROVE InMotionHeld'
    <2>1. \A a \in HoldsOf(b) : Exists(a) /\ alloc[a].booking = b
        BY DEF HoldsOf, Active
    <2>2. {"COMPLETED", "CANCELLED"} \subseteq BookingStatuses \ InMotion
        BY DEF BookingStatuses, InMotion
    <2> QED
        BY <1>2, <1>7, <2>1, <2>2 DEF CompleteTrip, Cancel, Move, ReleaseVehicleForBooking, Release
<1>8. ASSUME NEW r \in Requests, ReadStep(r) PROVE InMotionHeld'
    BY <1>1, <1>8 DEF ReadStep, AllocateRead, ReassignRead, ChangeClassRead, RetireRead
<1>9. ASSUME NEW r \in Requests, AllocateCommit(r) PROVE InMotionHeld'
    <2>1. req[r] \in AllocateReq /\ req[r].row.active
        BY <1>9, RequestTypes DEF AllocateCommit, SnapshotsFit, SnapshotFits
    <2>2. PICK i \in AllocIds : Inserts({}, i, req[r].row)
        BY <1>9, NothingReleased DEF AllocateCommit, Inserts
    <2>3. \A c \in Bookings \ {req[r].row.booking} : status'[c] = status[c]
        BY <1>9 DEF AllocateCommit, TypeOK
    <2> QED
        BY <1>3, <1>9, <2>1, <2>2, <2>3 DEF AllocateCommit, AllocateReq
<1>10. ASSUME NEW r \in Requests, ReassignCommit(r) PROVE InMotionHeld'
    <2>1. /\ req[r] \in ReassignReq /\ req[r].row.active
          /\ \A a \in {req[r].current} : Exists(a) /\ alloc[a].booking = req[r].row.booking
        BY <1>10, RequestTypes DEF ReassignCommit, SnapshotsFit, SnapshotFits
    <2>2. PICK i \in AllocIds : Inserts({req[r].current}, i, req[r].row)
        BY <1>10 DEF ReassignCommit, Inserts
    <2> QED
        BY <1>3, <1>10, <2>1, <2>2 DEF ReassignCommit, ReassignReq
<1>11. ASSUME NEW r \in Requests, ChangeClassRelease(r) PROVE InMotionHeld'
    <2>1. /\ req[r] \in ReleaseReq
          /\ \A a \in req[r].found : Exists(a) /\ alloc[a].booking = req[r].booking
        BY <1>11, RequestTypes DEF ChangeClassRelease, SnapshotsFit, SnapshotFits
    <2>2. "CONFIRMED" \in BookingStatuses \ InMotion
        BY DEF BookingStatuses, InMotion
    <2> QED
        BY <1>2, <1>11, <2>1, <2>2 DEF ChangeClassRelease, Release, ReleaseReq
<1>12. ASSUME NEW r \in Requests,
              ChangeClassCommit(r) \/ ChangeClassFind(r) \/ RetireCommit(r) \/ Abandon(r)
       PROVE  InMotionHeld'
    BY <1>1, <1>12 DEF ChangeClassCommit, ChangeClassFind, RetireCommit, Abandon
<1>13. ASSUME NEW v \in Vehicles, NEW e \in HandEdits, UpdateVehicle(v, e) PROVE InMotionHeld'
    BY <1>1, <1>13 DEF UpdateVehicle
<1>14. CASE UNCHANGED vars
    BY <1>1, <1>14 DEF vars
<1> QED
    BY <1>4, <1>5, <1>6, <1>7, <1>8, <1>9, <1>10, <1>11, <1>12, <1>13, <1>14
       DEF Next, BookingStep, CommitStep

IndInv == TypeInv /\ NoDoubleBooking /\ SnapshotsFit

LEMMA IndInvAlways == Spec => []IndInv
<1>1. Init => IndInv
    BY TypeInit, NoDoubleBookingInit, SnapshotsInit DEF IndInv
<1>2. IndInv /\ [Next]_vars => IndInv'
    BY TypeStep, NoDoubleBookingStep, SnapshotsStep DEF IndInv
<1> QED
    BY <1>1, <1>2, PTL DEF Spec

(* A booking that dispatch gave a car has one until its trip is over,      *)
(* whatever reassignments and class changes race each other on it.         *)
THEOREM InMotionAlwaysHeld == Spec => []InMotionHeld
<1>1. IndInv /\ InMotionHeld /\ [Next]_vars => InMotionHeld'
    BY InMotionStep DEF IndInv
<1> QED
    BY <1>1, InMotionInit, IndInvAlways, PTL DEF Spec

-----------------------------------------------------------------------------
(* No vehicle leaked. *)
LEMMA AssignedInit == Init => AssignedIsHeld
BY DEF Init, AssignedIsHeld

LEMMA AssignedStep ==
    ASSUME TypeInv, SnapshotsFit, AssignedIsHeld, [Next]_vars
    PROVE  AssignedIsHeld'
<1> USE DispatchAssumption DEF TypeInv
(* A step that leaves holds alone and sets no vehicle but by hand. *)
<1>1. ASSUME UNCHANGED alloc, byHand \subseteq byHand',
             \A v \in Vehicles \ byHand' : vstatus'[v] = vstatus[v]
      PROVE  AssignedIsHeld'
    BY <1>1 DEF AssignedIsHeld, Active, Exists
<1>2. ASSUME NEW gone \in SUBSET AllocIds, Release(gone) PROVE AssignedIsHeld'
    <2>1. ASSUME NEW v \in Vehicles \ byHand', vstatus'[v] = "ASSIGNED"
          PROVE  \E a \in AllocIds : Active(a)' /\ alloc'[a].vehicle = v
        <3>1. v \notin VehiclesOf(gone) /\ v \notin byHand /\ vstatus[v] = "ASSIGNED"
            BY <1>2, <2>1 DEF Release, Freed
        <3>2. PICK a \in AllocIds : Active(a) /\ alloc[a].vehicle = v
            BY <3>1 DEF AssignedIsHeld
        <3>3. a \notin gone
            BY <3>1, <3>2 DEF VehiclesOf, Active
        <3> QED
            BY <1>2, <3>2, <3>3, HoldsAfterRelease DEF Release
    <2> QED
        BY <2>1 DEF AssignedIsHeld
<1>3. ASSUME NEW gone \in SUBSET AllocIds, NEW i \in AllocIds, NEW row \in Row,
             Inserts(gone, i, row), row.active,
             vstatus' = [Freed(VehiclesOf(gone)) EXCEPT ![row.vehicle] = "ASSIGNED"],
             byHand' = byHand \ (VehiclesOf(gone) \cup {row.vehicle})
      PROVE  AssignedIsHeld'
    <2>1. ASSUME NEW v \in Vehicles \ byHand', vstatus'[v] = "ASSIGNED"
          PROVE  \E a \in AllocIds : Active(a)' /\ alloc'[a].vehicle = v
        <3>1. CASE v = row.vehicle
            BY <1>3, <3>1, HoldsAfterInsert
        <3>2. CASE v # row.vehicle
            <4>1. v \notin VehiclesOf(gone) /\ v \notin byHand /\ vstatus[v] = "ASSIGNED"
                BY <1>3, <2>1, <3>2 DEF Freed
            <4>2. PICK a \in AllocIds : Active(a) /\ alloc[a].vehicle = v
                BY <4>1 DEF AssignedIsHeld
            <4>3. a \notin gone
                BY <4>1, <4>2 DEF VehiclesOf, Active
            <4> QED
                BY <1>3, <4>2, <4>3, HoldsAfterInsert
        <3> QED
            BY <3>1, <3>2
    <2> QED
        BY <2>1 DEF AssignedIsHeld
<1>4. ASSUME NEW b \in Bookings, BookingStep(b) PROVE AssignedIsHeld'
    <2>1. HoldsOf(b) \in SUBSET AllocIds
        BY DEF HoldsOf
    <2> QED
        BY <1>1, <1>2, <1>4, <2>1 DEF BookingStep, Create, Advance, MarkAllocated, CompleteTrip,
           Cancel, ReleaseVehicleForBooking
<1>5. ASSUME NEW r \in Requests, ReadStep(r) PROVE AssignedIsHeld'
    BY <1>1, <1>5 DEF ReadStep, AllocateRead, ReassignRead, ChangeClassRead, RetireRead
<1>6. ASSUME NEW r \in Requests, AllocateCommit(r) PROVE AssignedIsHeld'
    <2>1. req[r] \in AllocateReq /\ req[r].row.active
        BY <1>6, RequestTypes DEF AllocateCommit, SnapshotsFit, SnapshotFits
    <2>2. PICK i \in AllocIds : Inserts({}, i, req[r].row)
        BY <1>6, NothingReleased DEF AllocateCommit, Inserts
    <2>3. VehiclesOf({}) = {} /\ Freed({}) = vstatus
        BY DEF VehiclesOf, Freed, TypeOK
    <2>4. /\ vstatus' = [Freed(VehiclesOf({})) EXCEPT ![req[r].row.vehicle] = "ASSIGNED"]
          /\ byHand' = byHand \ (VehiclesOf({}) \cup {req[r].row.vehicle})
        BY <1>6, <2>3 DEF AllocateCommit
    <2> QED
        BY <1>3, <2>1, <2>2, <2>4 DEF AllocateReq
<1>7. ASSUME NEW r \in Requests, ReassignCommit(r) PROVE AssignedIsHeld'
    <2>1. req[r] \in ReassignReq /\ req[r].row.active
        BY <1>7, RequestTypes DEF ReassignCommit, SnapshotsFit, SnapshotFits
    <2>2. PICK i \in AllocIds : Inserts({req[r].current}, i, req[r].row)
        BY <1>7 DEF ReassignCommit, Inserts
    <2>3. {req[r].current} \in SUBSET AllocIds /\ req[r].row \in Row
        BY <2>1 DEF ReassignReq
    <2> QED
        BY <1>3, <1>7, <2>1, <2>2, <2>3 DEF ReassignCommit
<1>8. ASSUME NEW r \in Requests, ChangeClassRelease(r) PROVE AssignedIsHeld'
    <2>1. req[r] \in ReleaseReq
        BY <1>8, RequestTypes DEF ChangeClassRelease
    <2> QED
        BY <1>2, <1>8, <2>1 DEF ChangeClassRelease, ReleaseReq
<1>9. ASSUME NEW r \in Requests, ChangeClassCommit(r) \/ ChangeClassFind(r) \/ Abandon(r)
      PROVE  AssignedIsHeld'
    BY <1>1, <1>9 DEF ChangeClassCommit, ChangeClassFind, Abandon
<1>10. ASSUME NEW r \in Requests, RetireCommit(r) PROVE AssignedIsHeld'
    BY <1>1, <1>10, RequestTypes DEF RetireCommit, RetireReq, TypeOK
<1>11. ASSUME NEW v \in Vehicles, NEW e \in HandEdits, UpdateVehicle(v, e) PROVE AssignedIsHeld'
    BY <1>1, <1>11 DEF UpdateVehicle, TypeOK
<1>12. CASE UNCHANGED vars
    BY <1>1, <1>12 DEF vars
<1> QED
    BY <1>4, <1>5, <1>6, <1>7, <1>8, <1>9, <1>10, <1>11, <1>12 DEF Next, CommitStep

(* A vehicle dispatch left ASSIGNED is held by a booking: no release is    *)
(* forgotten under any interleaving.                                       *)
THEOREM AssignedAlwaysHeld == Spec => []AssignedIsHeld
<1>1. IndInv /\ AssignedIsHeld /\ [Next]_vars => AssignedIsHeld'
    BY AssignedStep DEF IndInv
<1> QED
    BY <1>1, AssignedInit, IndInvAlways, PTL DEF Spec

-----------------------------------------------------------------------------
(* The allocations table implements the calendar: the live rows, seen as a *)
(* set, change by one reservation at a time.                               *)
LEMMA LiveRowsAfterRelease ==
    ASSUME TypeOK, NoDoubleBooking, NEW gone \in SUBSET AllocIds, alloc' = Released(gone),
           \A a1, a2 \in gone : Active(a1) /\ Active(a2) => a1 = a2
    PROVE  LiveRows' = LiveRows \/ \E p \in LiveRows : LiveRows' = LiveRows \ {p}
<1>1. \A a \in AllocIds : Active(a)' <=> Active(a) /\ a \notin gone
    BY HoldsAfterRelease
<1>2. \A a \in AllocIds \ gone : alloc'[a] = alloc[a]
    BY ReleasedRows
<1>3. LiveRows' = { alloc[a] : a \in { x \in AllocIds \ gone : Active(x) } }
    BY <1>1, <1>2 DEF LiveRows
<1>4. CASE \A a \in gone : ~Active(a)
    BY <1>3, <1>4 DEF LiveRows
<1>5. ASSUME NEW g \in gone, Active(g)
      PROVE  \E p \in LiveRows : LiveRows' = LiveRows \ {p}
    <2>1. \A a \in AllocIds : Active(a) /\ a # g => alloc[a] # alloc[g] /\ a \notin gone
        BY <1>5 DEF NoDoubleBooking
    <2>2. LiveRows' = LiveRows \ {alloc[g]}
        BY <1>3, <1>5, <2>1 DEF LiveRows
    <2>3. alloc[g] \in LiveRows
        BY <1>5 DEF LiveRows
    <2> QED
        BY <2>2, <2>3
<1> QED
    BY <1>4, <1>5

LEMMA LiveRowsAfterInsert ==
    ASSUME TypeOK, NoDoubleBooking, NEW gone \in SUBSET AllocIds, NEW i \in AllocIds,
           NEW row \in Row, Inserts(gone, i, row), row.active,
           \A a1, a2 \in gone : a1 = a2
    PROVE  Calendar!Next
<1>1. /\ alloc'[i] = row
      /\ Active(i)'
      /\ ~Active(i)
      /\ \A a \in AllocIds \ {i} : alloc'[a] = Released(gone)[a]
    BY HoldsAfterInsert, ReleasedTypes DEF Inserts, Active
<1>2. \A a \in AllocIds \ {i} : Active(a)' <=> Active(a) /\ a \notin gone
    BY <1>1, ReleasedRows DEF Active, Exists
<1>3. \A a \in AllocIds \ gone : Active(a) =>
          /\ alloc'[a] = alloc[a]
          /\ alloc[a] # row
          /\ ~Calendar!Clash(alloc[a], row)
    BY HoldsAfterInsert DEF Inserts, InsertAllowed, Collides, Overlap, Calendar!Clash
<1>4. LiveRows' = { alloc[a] : a \in { x \in AllocIds \ gone : Active(x) } } \cup {row}
    BY <1>1, <1>2, <1>3 DEF LiveRows
<1>5. CASE \A a \in gone : ~Active(a)
    <2>1. LiveRows' = LiveRows \cup {row}
        BY <1>4, <1>5 DEF LiveRows
    <2>2. row \notin LiveRows /\ Calendar!Admits(LiveRows, row)
        BY <1>3, <1>5 DEF LiveRows, Calendar!Admits
    <2> QED
        BY <2>1, <2>2 DEF Calendar!Next, Calendar!Enter
<1>6. ASSUME NEW g \in gone, Active(g) PROVE Calendar!Next
    <2>1. \A a \in AllocIds \ gone : Active(a) => alloc[a] # alloc[g]
        BY <1>6 DEF NoDoubleBooking
    <2>2. LiveRows \ {alloc[g]} = { alloc[a] : a \in { x \in AllocIds \ gone : Active(x) } }
        BY <1>6, <2>1 DEF LiveRows
    <2>3. LiveRows' = (LiveRows \ {alloc[g]}) \cup {row}
        BY <1>4, <2>2
    <2>4. Calendar!Admits(LiveRows \ {alloc[g]}, row)
        BY <1>3, <2>2 DEF Calendar!Admits
    <2>5. alloc[g] \in LiveRows /\ row \in LiveRows'
        BY <1>6, <2>3 DEF LiveRows
    <2> QED
        BY <2>3, <2>4, <2>5 DEF Calendar!Next, Calendar!Exchange
<1> QED
    BY <1>5, <1>6

LEMMA CalendarStep ==
    ASSUME TypeInv, NoDoubleBooking, SnapshotsFit, [Next]_vars
    PROVE  [Calendar!Next]_LiveRows
<1> USE DEF TypeInv
<1>1. CASE UNCHANGED alloc
    BY <1>1 DEF LiveRows, Active, Exists
<1>2. ASSUME NEW gone \in SUBSET AllocIds, alloc' = Released(gone),
             \A a1, a2 \in gone : Active(a1) /\ Active(a2) => a1 = a2
      PROVE  [Calendar!Next]_LiveRows
    BY <1>2, LiveRowsAfterRelease DEF Calendar!Next, Calendar!Drop
<1>3. ASSUME NEW b \in Bookings, BookingStep(b) PROVE [Calendar!Next]_LiveRows
    <2>1. HoldsOf(b) \in SUBSET AllocIds /\ \A a1, a2 \in HoldsOf(b) : a1 = a2
        BY DEF HoldsOf, NoDoubleBooking
    <2> QED
        BY <1>1, <1>2, <1>3, <2>1 DEF BookingStep, Create, Advance, MarkAllocated, CompleteTrip,
           Cancel, ReleaseVehicleForBooking, Release
<1>4. ASSUME NEW r \in Requests, ReadStep(r) PROVE [Calendar!Next]_LiveRows
    BY <1>1, <1>4 DEF ReadStep, AllocateRead, ReassignRead, ChangeClassRead, RetireRead
<1>5. ASSUME NEW r \in Requests, AllocateCommit(r) PROVE Calendar!Next
    <2>1. req[r] \in AllocateReq /\ req[r].row.active
        BY <1>5, RequestTypes DEF AllocateCommit, SnapshotsFit, SnapshotFits
    <2>2. PICK i \in AllocIds : Inserts({}, i, req[r].row)
        BY <1>5, NothingReleased DEF AllocateCommit, Inserts
    <2> QED
        BY <2>1, <2>2, LiveRowsAfterInsert DEF AllocateReq
<1>6. ASSUME NEW r \in Requests, ReassignCommit(r) PROVE Calendar!Next
    <2>1. req[r] \in ReassignReq /\ req[r].row.active
        BY <1>6, RequestTypes DEF ReassignCommit, SnapshotsFit, SnapshotFits
    <2>2. PICK i \in AllocIds : Inserts({req[r].current}, i, req[r].row)
        BY <1>6 DEF ReassignCommit, Inserts
    <2>3. {req[r].current} \in SUBSET AllocIds /\ req[r].row \in Row
        BY <2>1 DEF ReassignReq
    <2> QED
        BY <2>1, <2>2, <2>3, LiveRowsAfterInsert
<1>7. ASSUME NEW r \in Requests, ChangeClassRelease(r) PROVE [Calendar!Next]_LiveRows
    <2>1. req[r] \in ReleaseReq /\ \A a1, a2 \in req[r].found : a1 = a2
        BY <1>7, RequestTypes DEF ChangeClassRelease, SnapshotsFit, SnapshotFits
    <2> QED
        BY <1>2, <1>7, <2>1 DEF ChangeClassRelease, Release, ReleaseReq
<1>8. ASSUME NEW r \in Requests,
             ChangeClassCommit(r) \/ ChangeClassFind(r) \/ RetireCommit(r) \/ Abandon(r)
      PROVE  [Calendar!Next]_LiveRows
    BY <1>1, <1>8 DEF ChangeClassCommit, ChangeClassFind, RetireCommit, Abandon
<1>9. ASSUME NEW v \in Vehicles, NEW e \in HandEdits, UpdateVehicle(v, e)
      PROVE  [Calendar!Next]_LiveRows
    BY <1>1, <1>9 DEF UpdateVehicle
<1>10. CASE UNCHANGED vars
    BY <1>1, <1>10 DEF vars
<1> QED
    BY <1>3, <1>4, <1>5, <1>6, <1>7, <1>8, <1>9, <1>10 DEF Next, CommitStep

LEMMA CalendarInit == Init => Calendar!Init
BY DEF Init, Calendar!Init, LiveRows, Active, Exists

(* The live allocations are a calendar without clashes that one step       *)
(* changes by one entry: the refinement of Reservations.                   *)
THEOREM DispatchKeepsCalendar == Spec => CalendarKept
<1>1. IndInv /\ [Next]_vars => [Calendar!Next]_LiveRows
    BY CalendarStep DEF IndInv
<1> QED
    BY <1>1, CalendarInit, IndInvAlways, PTL DEF Spec, CalendarKept, Calendar!Spec

-----------------------------------------------------------------------------
(* The bookings implement the lifecycle. *)
Phased == [b \in Bookings |-> Phase(status[b])]

LEMMA PhaseTable ==
    /\ Phase(None) = None
    /\ Phase("PENDING") = "open" /\ Phase("CONFIRMED") = "open" /\ Phase("ALLOCATED") = "open"
    /\ Phase("EN_ROUTE") = "moving" /\ Phase("REACHED") = "moving"
    /\ Phase("ONGOING") = "aboard" /\ Phase("ARRIVED") = "aboard"
    /\ Phase("COMPLETED") = "done"
    /\ Phase("CANCELLED") = "void" /\ Phase("EXPIRED") = "void"
BY DispatchAssumption DEF Phase, PhaseOf, BookingStatuses

LEMMA PhasedAfter ==
    ASSUME TypeOK, NEW b \in Bookings, NEW s, status' = [status EXCEPT ![b] = s]
    PROVE  Phased' = [Phased EXCEPT ![b] = Phase(s)]
BY DEF TypeOK, Phased

(* A booking that moves to a status of the phase it is in. *)
LEMMA SamePhase ==
    ASSUME TypeOK, NEW b \in Bookings, NEW s, status' = [status EXCEPT ![b] = s],
           Phase(s) = Phase(status[b])
    PROVE  UNCHANGED Phased
BY PhasedAfter DEF Phased

(* One that moves to a status of a later phase. *)
LEMMA NextPhase ==
    ASSUME TypeOK, NEW b \in Bookings, NEW s, status' = [status EXCEPT ![b] = s],
           UNCHANGED class, Lifecycle!Follows(Phase(status[b]), Phase(s))
    PROVE  Lifecycle!Next
<1>1. Phase(s) \in Lifecycle!Phases
    BY DEF Lifecycle!Follows, Lifecycle!Phases
<1>2. Lifecycle!Go(b, Phase(s))
    BY PhasedAfter DEF Lifecycle!Go, Phased
<1> QED
    BY <1>1, <1>2 DEF Lifecycle!Next

LEMMA LifecycleInit == Init => Lifecycle!Init
BY PhaseTable DEF Init, Lifecycle!Init

LEMMA LifecycleStep ==
    ASSUME TypeInv, [Next]_vars
    PROVE  [Lifecycle!Next]_<<Phased, class>>
<1> USE DEF TypeInv
<1>1. CASE UNCHANGED <<status, class>>
    BY <1>1 DEF Phased
<1>2. ASSUME NEW b \in Bookings, NEW c \in Classes, NEW t \in Offers[b], Create(b, c, t)
      PROVE  Lifecycle!Next
    <2>1. Phased[b] = None
        BY <1>2, PhaseTable DEF Create, Phased
    <2>2. Phased' = [Phased EXCEPT ![b] = "open"]
        <3>1. status' = [status EXCEPT ![b] = "PENDING"]
            BY <1>2 DEF Create
        <3>2. Phased' = [Phased EXCEPT ![b] = Phase("PENDING")]
            BY <3>1, PhasedAfter
        <3> QED
            BY <3>2, PhaseTable
    <2>3. Lifecycle!Book(b, c)
        BY <1>2, <2>1, <2>2 DEF Create, Phased, Lifecycle!Book
    <2> QED
        BY <2>3 DEF Lifecycle!Next
<1>3. ASSUME NEW b \in Bookings, Advance(b) PROVE [Lifecycle!Next]_<<Phased, class>>
    <2>1. UNCHANGED class
        BY <1>3 DEF Advance
    <2>2. CASE Move(b, "CONFIRMED") \/ Move(b, "REACHED") \/ Move(b, "ARRIVED")
        BY <2>1, <2>2, PhaseTable, SamePhase DEF Move, From
    <2>3. CASE Move(b, "EN_ROUTE")
        BY <2>1, <2>3, PhaseTable, NextPhase DEF Move, From, Lifecycle!Follows
    <2>4. CASE Move(b, "ONGOING")
        BY <2>1, <2>4, PhaseTable, NextPhase DEF Move, From, Lifecycle!Follows
    <2>5. CASE Move(b, "EXPIRED")
        BY <2>1, <2>5, PhaseTable, NextPhase DEF Move, From, Lifecycle!Follows
    <2> QED
        BY <1>3, <2>2, <2>3, <2>4, <2>5 DEF Advance
<1>4. ASSUME NEW b \in Bookings, MarkAllocated(b) PROVE [Lifecycle!Next]_<<Phased, class>>
    BY <1>4, PhaseTable, SamePhase DEF MarkAllocated, Move, From, Changeable
<1>5. ASSUME NEW b \in Bookings, CompleteTrip(b) \/ Cancel(b) PROVE Lifecycle!Next
    BY <1>5, PhaseTable, NextPhase DEF CompleteTrip, Cancel, Cancellable, Move, From, Changeable,
       Lifecycle!Follows
<1>6. ASSUME NEW r \in Requests, AllocateCommit(r) PROVE [Lifecycle!Next]_<<Phased, class>>
    <2>1. req[r].row.booking \in Bookings
        BY <1>6, RequestTypes DEF AllocateCommit, AllocateReq, Row
    <2> QED
        BY <1>6, <2>1, PhaseTable, SamePhase DEF AllocateCommit, Assignable, Changeable
<1>7. ASSUME NEW r \in Requests, ChangeClassCommit(r) \/ ChangeClassRelease(r)
      PROVE  Lifecycle!Next
    <2>1. req[r].booking \in Bookings /\ req[r].class \in Classes
        BY <1>7, RequestTypes DEF ChangeClassCommit, ChangeClassRelease, ChangeReq, ReleaseReq
    <2>2. status[req[r].booking] \in Changeable
          /\ class' = [class EXCEPT ![req[r].booking] = req[r].class]
        BY <1>7 DEF ChangeClassCommit, ChangeClassRelease, Reclass
    <2>3. Phase(status[req[r].booking]) = "open"
        BY <2>2, PhaseTable DEF Changeable
    <2>4. UNCHANGED Phased
        BY <1>7, <2>1, <2>3, PhaseTable, SamePhase DEF ChangeClassCommit, ChangeClassRelease, Phased
    <2>5. Phased[req[r].booking] = "open"
        BY <2>1, <2>3 DEF Phased
    <2>6. Lifecycle!ChangeClass(req[r].booking, req[r].class)
        BY <2>2, <2>4, <2>5 DEF Lifecycle!ChangeClass, Phased
    <2> QED
        BY <2>1, <2>6 DEF Lifecycle!Next
<1>8. ASSUME NEW r \in Requests, ReadStep(r) PROVE UNCHANGED <<status, class>>
    BY <1>8 DEF ReadStep, AllocateRead, ReassignRead, ChangeClassRead, RetireRead
<1>9. ASSUME NEW r \in Requests,
             ReassignCommit(r) \/ ChangeClassFind(r) \/ RetireCommit(r) \/ Abandon(r)
      PROVE  UNCHANGED <<status, class>>
    BY <1>9 DEF ReassignCommit, ChangeClassFind, RetireCommit, Abandon
<1>10. ASSUME NEW v \in Vehicles, NEW e \in HandEdits, UpdateVehicle(v, e)
       PROVE  UNCHANGED <<status, class>>
    BY <1>10 DEF UpdateVehicle
<1>11. CASE UNCHANGED vars
    BY <1>1, <1>11 DEF vars
<1> QED
    BY <1>1, <1>2, <1>3, <1>4, <1>5, <1>6, <1>7, <1>8, <1>9, <1>10, <1>11
       DEF Next, BookingStep, CommitStep

(* A booking goes forward through the phases of the lifecycle, keeps its   *)
(* class once its car is moving, and ends for good: the refinement of      *)
(* BookingLifecycle.                                                       *)
THEOREM DispatchKeepsLifecycle == Spec => LifecycleKept
<1>1. TypeInv /\ [Next]_vars => [Lifecycle!Next]_<<Phased, class>>
    BY LifecycleStep
<1> QED
    BY <1>1, TypeInit, TypeStep, LifecycleInit, PTL DEF Spec, LifecycleKept, Lifecycle!Spec, Phased

-----------------------------------------------------------------------------
(* Two rides of one car never overlap.  A hold is as long as the trip was  *)
(* when it was made, and a change of class that keeps the hold may change  *)
(* the trip's length afterwards: it is enough that the lengths quoted for  *)
(* one booking differ by no more than the buffer.  The length of an HOURLY *)
(* trip is not in the booking, and the hold may be shorter than the rental.*)
LengthOf(d) == IF d > 0 THEN d ELSE DefaultTrip

SteadyTrip(t) ==
    /\ t.type # "HOURLY"
    /\ \A d, e \in Requotes \cup {t.duration} : LengthOf(d) <= LengthOf(e) + HoldBuffer

Steady == \A b \in Bookings : \A t \in Offers[b] : SteadyTrip(t)

(* The window holds the ride, also after one more quote. *)
Covers(w, t) ==
    /\ w.from = t.pickup
    /\ \A d \in Requotes \cup {t.duration} : Ride([t EXCEPT !.duration = d]).to <= w.to

RowCovers(row) == status[row.booking] # None /\ Covers(row.window, trip[row.booking])

HoldsCover ==
    /\ \A b \in Bookings : status[b] # None => SteadyTrip(trip[b])
    /\ \A r \in Requests : req[r].op \in {"change", "release"} => req[r].duration \in Requotes
    /\ \A r \in Requests : req[r].op \in {"allocate", "reassign"} => RowCovers(req[r].row)
    /\ \A a \in AllocIds : Active(a) => RowCovers(alloc[a])

(* What a new quote does to a trip. *)
LEMMA Requoted ==
    ASSUME NEW t \in Trips, SteadyTrip(t), NEW d \in Requotes
    PROVE  LET u == [t EXCEPT !.duration = d]
           IN  /\ u \in Trips /\ SteadyTrip(u)
               /\ \A w : Covers(w, t) => Covers(w, u)
<1> DEFINE u == [t EXCEPT !.duration = d]
<1>1. Requotes \subseteq Nat /\ t \in [type : TripTypes, pickup : Nat, return : Nat,
                                       duration : Nat, rental : Nat]
  BY DispatchAssumption DEF Trips
<1>2. /\ u.type = t.type /\ u.pickup = t.pickup /\ u.return = t.return /\ u.duration = d
      /\ u.rental = t.rental
      /\ u \in [type : TripTypes, pickup : Nat, return : Nat, duration : Nat, rental : Nat]
  BY <1>1
<1>3. u \in Trips
  BY <1>2 DEF Trips, SteadyTrip
<1>4. SteadyTrip(u)
  BY <1>2 DEF SteadyTrip
<1>5. \A e : [u EXCEPT !.duration = e] = [t EXCEPT !.duration = e]
  BY <1>1
<1>6. \A w : Covers(w, t) => Covers(w, u)
  BY <1>2, <1>5 DEF Covers
<1> QED
  BY <1>3, <1>4, <1>6

LEMMA HoldCovers ==
    ASSUME NEW t \in Trips, SteadyTrip(t)
    PROVE  Covers(HoldWindow(t), t)
<1> SUFFICES ASSUME NEW d \in Requotes \cup {t.duration}
             PROVE  Ride([t EXCEPT !.duration = d]).to <= HoldWindow(t).to
  BY DEF Covers, HoldWindow
<1> DEFINE u == [t EXCEPT !.duration = d]
<1>1. /\ Requotes \subseteq Nat /\ HoldBuffer \in Nat /\ DefaultTrip \in Nat /\ DefaultTrip > 0
      /\ t \in [type : TripTypes, pickup : Nat, return : Nat, duration : Nat, rental : Nat]
      /\ t.type = "ROUND_TRIP" => t.return > t.pickup
  BY DispatchAssumption, HoldParametersAssumption DEF Trips
<1>2. /\ u.type = t.type /\ u.pickup = t.pickup /\ u.return = t.return /\ u.duration = d
      /\ d \in Nat /\ t.duration \in Nat /\ t.pickup \in Nat /\ t.return \in Nat
  BY <1>1
<1> HIDE DEF u
<1>3. LengthOf(d) <= TripLength(t) + HoldBuffer /\ LengthOf(d) \in Nat /\ TripLength(t) \in Nat
      /\ TripLength(t) > 0
  BY <1>1, <1>2 DEF SteadyTrip, LengthOf, TripLength
<1>4. t.type # "HOURLY"
  BY DEF SteadyTrip
<1>5. CASE t.type = "ROUND_TRIP"
  BY <1>1, <1>2, <1>5 DEF Ride, HoldWindow, UnclampedEnd
<1>6. CASE t.type # "ROUND_TRIP"
  <2>1. Ride(u).to = t.pickup + LengthOf(d)
    BY <1>2, <1>4, <1>6 DEF Ride, LengthOf, TripLength
  <2>2. HoldWindow(t).to = t.pickup + TripLength(t) + HoldBuffer
    BY <1>1, <1>2, <1>3, <1>6 DEF HoldWindow, UnclampedEnd
  <2> QED
    BY <1>1, <1>2, <1>3, <2>1, <2>2 DEF u
<1> QED
  BY <1>5, <1>6 DEF u

(* What a step does to the trips of bookings that exist. *)
LEMMA TripsAfter ==
    ASSUME Steady, TypeInv, HoldsCover, [Next]_vars, NEW b \in Bookings
    PROVE  /\ status[b] # None => \/ trip'[b] = trip[b]
                                  \/ \E d \in Requotes : trip'[b] = [trip[b] EXCEPT !.duration = d]
           /\ status[b] # None => status'[b] # None
           /\ status[b] = None /\ status'[b] # None => SteadyTrip(trip'[b])
<1> USE DispatchAssumption DEF TypeInv
<1>1. CASE UNCHANGED <<status, trip>>
  BY <1>1
<1>2. ASSUME NEW x \in Bookings, NEW c \in Classes, NEW t \in Offers[x], Create(x, c, t)
      PROVE  /\ status[b] # None => trip'[b] = trip[b] /\ status'[b] = status[b]
             /\ status[b] = None /\ status'[b] # None => SteadyTrip(trip'[b])
  BY <1>2 DEF Create, TypeOK, Steady
<1>3. ASSUME NEW x \in Bookings, Advance(x) \/ MarkAllocated(x) \/ CompleteTrip(x) \/ Cancel(x)
      PROVE  UNCHANGED trip /\ (status'[b] # None <=> status[b] # None)
  BY <1>3 DEF Advance, MarkAllocated, CompleteTrip, Cancel, Cancellable, Move, From, TypeOK, BookingStatuses
<1>4. ASSUME NEW r \in Requests, AllocateCommit(r)
      PROVE  UNCHANGED trip /\ (status'[b] # None <=> status[b] # None)
  <2>1. req[r].row.booking \in Bookings
    BY <1>4, RequestTypes DEF AllocateCommit, AllocateReq, Row
  <2> QED
    BY <1>4, <2>1 DEF AllocateCommit, Assignable, TypeOK, BookingStatuses
<1>5. ASSUME NEW r \in Requests, ChangeClassCommit(r) \/ ChangeClassRelease(r)
      PROVE  /\ trip'[b] = trip[b] \/ \E d \in Requotes : trip'[b] = [trip[b] EXCEPT !.duration = d]
             /\ status'[b] # None <=> status[b] # None
  <2>1. req[r].booking \in Bookings /\ req[r].duration \in Requotes
    BY <1>5, RequestTypes DEF ChangeClassCommit, ChangeClassRelease, ChangeReq, ReleaseReq, HoldsCover
  <2>2. trip' = [trip EXCEPT ![req[r].booking].duration = req[r].duration]
        /\ status[req[r].booking] \in Changeable
    BY <1>5 DEF ChangeClassCommit, ChangeClassRelease, Reclass
  <2>3. status'[b] # None <=> status[b] # None
    BY <1>5, <2>1, <2>2 DEF ChangeClassCommit, ChangeClassRelease, Changeable, TypeOK, BookingStatuses
  <2> QED
    BY <2>1, <2>2, <2>3 DEF TypeOK
<1>6. ASSUME NEW r \in Requests, ReadStep(r) PROVE UNCHANGED <<status, trip>>
  BY <1>6 DEF ReadStep, AllocateRead, ReassignRead, ChangeClassRead, RetireRead
<1>7. ASSUME NEW r \in Requests,
             ReassignCommit(r) \/ ChangeClassFind(r) \/ RetireCommit(r) \/ Abandon(r)
      PROVE  UNCHANGED <<status, trip>>
  BY <1>7 DEF ReassignCommit, ChangeClassFind, RetireCommit, Abandon
<1>8. ASSUME NEW v \in Vehicles, NEW e \in HandEdits, UpdateVehicle(v, e)
      PROVE  UNCHANGED <<status, trip>>
  BY <1>8 DEF UpdateVehicle
<1>9. CASE UNCHANGED vars
  BY <1>9 DEF vars
<1> QED
  BY <1>1, <1>2, <1>3, <1>4, <1>5, <1>6, <1>7, <1>8, <1>9 DEF Next, BookingStep, CommitStep

LEMMA CoveredAfter ==
    ASSUME Steady, TypeInv, HoldsCover, [Next]_vars, NEW row \in Row, RowCovers(row)
    PROVE  status'[row.booking] # None /\ Covers(row.window, trip'[row.booking])
<1> DEFINE b == row.booking
<1>1. b \in Bookings /\ status[b] # None /\ Covers(row.window, trip[b])
  BY DEF RowCovers, Row
<1>2. trip[b] \in Trips /\ SteadyTrip(trip[b])
  BY <1>1 DEF TypeInv, Booked, HoldsCover
<1>3. /\ status'[b] # None
      /\ trip'[b] = trip[b] \/ \E d \in Requotes : trip'[b] = [trip[b] EXCEPT !.duration = d]
  BY <1>1, TripsAfter
<1> HIDE DEF b
<1>4. Covers(row.window, trip'[b])
  BY <1>1, <1>2, <1>3, Requoted
<1> QED
  BY <1>3, <1>4 DEF b

(* A live row was live before, or is the row a request had prepared. *)
LEMMA LiveAfter ==
    ASSUME TypeInv, [Next]_vars, NEW a \in AllocIds, Active(a)'
    PROVE  \/ Active(a) /\ alloc'[a] = alloc[a]
           \/ \E r \in Requests : /\ req[r].op \in {"allocate", "reassign"} /\ req[r].row \in Row
                                   /\ alloc'[a] = req[r].row
<1> USE DEF TypeInv
<1>1. CASE UNCHANGED alloc
  BY <1>1 DEF Active, Exists
<1>2. ASSUME NEW gone \in SUBSET AllocIds, alloc' = Released(gone)
      PROVE  Active(a) /\ alloc'[a] = alloc[a]
  BY <1>2, ReleasedRows DEF Active, Exists
<1>3. ASSUME NEW b \in Bookings, BookingStep(b)
      PROVE  UNCHANGED alloc \/ \E gone \in SUBSET AllocIds : alloc' = Released(gone)
  BY <1>3 DEF BookingStep, Create, Advance, MarkAllocated, CompleteTrip, Cancel,
     ReleaseVehicleForBooking, Release, HoldsOf
<1>4. ASSUME NEW r \in Requests, AllocateCommit(r) \/ ReassignCommit(r)
      PROVE  \/ Active(a) /\ alloc'[a] = alloc[a]
             \/ req[r].op \in {"allocate", "reassign"} /\ req[r].row \in Row /\ alloc'[a] = req[r].row
  <2>1. req[r].op \in {"allocate", "reassign"} /\ req[r].row \in Row
    BY <1>4, RequestTypes DEF AllocateCommit, ReassignCommit, AllocateReq, ReassignReq
  <2>2. PICK gone \in {{}, {req[r].current}}, i \in AllocIds : alloc' = [Released(gone) EXCEPT ![i] = req[r].row]
    BY <1>4, NothingReleased DEF AllocateCommit, ReassignCommit
  <2>3. a # i => alloc'[a] = Released(gone)[a]
    BY <2>2, ReleasedTypes
  <2>4. a = i => alloc'[a] = req[r].row
    BY <2>2, ReleasedTypes
  <2> QED
    BY <2>1, <2>3, <2>4, ReleasedRows DEF Active, Exists
<1>5. ASSUME NEW r \in Requests, ChangeClassRelease(r)
      PROVE  \E gone \in SUBSET AllocIds : alloc' = Released(gone)
  <2>1. req[r] \in ReleaseReq
    BY <1>5, RequestTypes DEF ChangeClassRelease
  <2> QED
    BY <1>5, <2>1 DEF ChangeClassRelease, Release, ReleaseReq
<1>6. ASSUME NEW r \in Requests,
             \/ ReadStep(r)
             \/ ChangeClassCommit(r) \/ ChangeClassFind(r) \/ RetireCommit(r) \/ Abandon(r)
      PROVE  UNCHANGED alloc
  BY <1>6 DEF ReadStep, AllocateRead, ReassignRead, ChangeClassRead, RetireRead,
     ChangeClassCommit, ChangeClassFind, RetireCommit, Abandon
<1>7. ASSUME NEW v \in Vehicles, NEW e \in HandEdits, UpdateVehicle(v, e) PROVE UNCHANGED alloc
  BY <1>7 DEF UpdateVehicle
<1>8. CASE UNCHANGED vars
  BY <1>1, <1>8 DEF vars
<1> QED
  BY <1>1, <1>2, <1>3, <1>4, <1>5, <1>6, <1>7, <1>8 DEF Next, CommitStep

(* A request carries what it carried, or what it has just read. *)
LEMMA RequestsAfter ==
    ASSUME TypeInv, HoldsCover, [Next]_vars, NEW r \in Requests
    PROVE  /\ req'[r].op \in {"allocate", "reassign"} =>
                 \/ req'[r] = req[r]
                 \/ /\ UNCHANGED <<status, trip>>
                    /\ \E b \in Bookings, v \in Vehicles, d \in Drivers \cup {None} :
                          status[b] # None /\ req'[r].row = NewRow(b, v, d)
           /\ req'[r].op \in {"change", "release"} => req'[r].duration \in Requotes
<1> USE DEF TypeInv
<1> DEFINE Good ==
       /\ req'[r].op \in {"allocate", "reassign"} =>
             \/ req'[r] = req[r]
             \/ /\ UNCHANGED <<status, trip>>
                /\ \E b \in Bookings, v \in Vehicles, d \in Drivers \cup {None} :
                      status[b] # None /\ req'[r].row = NewRow(b, v, d)
       /\ req'[r].op \in {"change", "release"} => req'[r].duration \in Requotes
<1>1. CASE req'[r] = req[r]
  BY <1>1 DEF HoldsCover
<1>2. CASE req'[r] = Idle
  BY <1>2 DEF Idle
<1>3. ASSUME NEW s \in Requests, NEW b \in Bookings, NEW v \in Vehicles, NEW d \in Drivers \cup {None},
             AllocateRead(s, b, v, d) \/ ReassignRead(s, b, v, d)
      PROVE  Good
  <2>1. status[b] # None /\ UNCHANGED <<status, trip>>
    BY <1>3, DispatchAssumption DEF AllocateRead, ReassignRead, Assignable, Reassignable, BookingStatuses
  <2>2. CASE r # s
    BY <1>1, <1>3, <2>2 DEF AllocateRead, ReassignRead, TypeOK
  <2>3. CASE r = s
    <3>1. req'[r].row = NewRow(b, v, d) /\ req'[r].op \in {"allocate", "reassign"}
      BY <1>3, <2>3 DEF AllocateRead, ReassignRead, TypeOK
    <3> QED
      BY <2>1, <3>1
  <2> QED
    BY <2>2, <2>3
<1>4. ASSUME NEW s \in Requests, NEW b \in Bookings, NEW c \in Classes, NEW m \in Requotes,
             ChangeClassRead(s, b, c, m)
      PROVE  Good
  <2>1. trip[b].type # "HOURLY"
    BY <1>4, DispatchAssumption DEF ChangeClassRead, Changeable, BookingStatuses, HoldsCover, SteadyTrip
  <2>2. CASE r # s
    BY <1>1, <1>4, <2>2 DEF ChangeClassRead, TypeOK
  <2>3. CASE r = s
    BY <1>4, <2>1, <2>3 DEF ChangeClassRead, TypeOK
  <2> QED
    BY <2>2, <2>3
<1>5. ASSUME NEW s \in Requests, ChangeClassFind(s) PROVE Good
  <2>1. req[s].duration \in Requotes
    BY <1>5 DEF ChangeClassFind, HoldsCover
  <2>2. CASE r # s
    BY <1>1, <1>5, <2>2 DEF ChangeClassFind, TypeOK
  <2>3. CASE r = s
    BY <1>5, <2>1, <2>3 DEF ChangeClassFind, TypeOK
  <2> QED
    BY <2>2, <2>3
<1>6. ASSUME NEW s \in Requests, NEW v \in Retirable, RetireRead(s, v) PROVE Good
  <2>1. r # s => req'[r] = req[r]
    BY <1>6 DEF RetireRead, TypeOK
  <2>2. r = s => req'[r].op = "retire"
    BY <1>6 DEF RetireRead, TypeOK
  <2> QED
    BY <1>1, <2>1, <2>2
<1>7. ASSUME NEW s \in Requests,
             \/ AllocateCommit(s) \/ ReassignCommit(s) \/ ChangeClassCommit(s)
             \/ ChangeClassRelease(s) \/ RetireCommit(s) \/ Abandon(s)
      PROVE  req'[r] = req[r] \/ req'[r] = Idle
  BY <1>7 DEF AllocateCommit, ReassignCommit, ChangeClassCommit, ChangeClassRelease, RetireCommit,
     Abandon, TypeOK
<1>8. ASSUME NEW b \in Bookings, BookingStep(b) PROVE UNCHANGED req
  BY <1>8 DEF BookingStep, Create, Advance, MarkAllocated, CompleteTrip, Cancel
<1>9. ASSUME NEW v \in Vehicles, NEW e \in HandEdits, UpdateVehicle(v, e) PROVE UNCHANGED req
  BY <1>9 DEF UpdateVehicle
<1>10. CASE UNCHANGED vars
  BY <1>10, <1>1 DEF vars
<1> QED
  BY <1>1, <1>2, <1>3, <1>4, <1>5, <1>6, <1>7, <1>8, <1>9, <1>10 DEF Next, ReadStep, CommitStep

LEMMA HoldsCoverStep ==
    ASSUME Steady, TypeInv, HoldsCover, [Next]_vars
    PROVE  HoldsCover'
<1>1. \A b \in Bookings : status'[b] # None => SteadyTrip(trip'[b])
  <2> SUFFICES ASSUME NEW b \in Bookings, status'[b] # None PROVE SteadyTrip(trip'[b])
    OBVIOUS
  <2>1. status[b] # None => trip[b] \in Trips /\ SteadyTrip(trip[b])
    BY DEF TypeInv, Booked, HoldsCover
  <2> QED
    BY <2>1, TripsAfter, Requoted
<1>2. \A r \in Requests : req'[r].op \in {"change", "release"} => req'[r].duration \in Requotes
  BY RequestsAfter
<1>3. \A r \in Requests : req'[r].op \in {"allocate", "reassign"} => RowCovers(req[r].row)'
  <2> SUFFICES ASSUME NEW r \in Requests, req'[r].op \in {"allocate", "reassign"}
               PROVE  RowCovers(req[r].row)'
    OBVIOUS
  <2>1. CASE req'[r] = req[r]
    <3>1. req[r].row \in Row /\ RowCovers(req[r].row)
      BY <2>1, RequestTypes DEF TypeInv, AllocateReq, ReassignReq, HoldsCover
    <3> QED
      BY <2>1, <3>1, CoveredAfter DEF RowCovers
  <2>2. ASSUME UNCHANGED <<status, trip>>, NEW b \in Bookings, NEW v \in Vehicles,
               NEW d \in Drivers \cup {None}, status[b] # None, req'[r].row = NewRow(b, v, d)
        PROVE  RowCovers(req[r].row)'
    <3>1. trip[b] \in Trips /\ SteadyTrip(trip[b])
      BY <2>2 DEF TypeInv, Booked, HoldsCover
    <3>2. req'[r].row.booking = b /\ req'[r].row.window = HoldWindow(trip[b])
      BY <2>2 DEF NewRow
    <3> QED
      BY <2>2, <3>1, <3>2, HoldCovers DEF RowCovers
  <2> QED
    BY <2>1, <2>2, RequestsAfter
<1>4. \A a \in AllocIds : Active(a)' => RowCovers(alloc[a])'
  <2> SUFFICES ASSUME NEW a \in AllocIds, Active(a)' PROVE RowCovers(alloc[a])'
    OBVIOUS
  <2>1. \E row \in Row : RowCovers(row) /\ alloc'[a] = row
    <3>1. CASE Active(a) /\ alloc'[a] = alloc[a]
      BY <3>1 DEF Active, Exists, TypeInv, TypeOK, HoldsCover
    <3>2. ASSUME NEW r \in Requests, req[r].op \in {"allocate", "reassign"}, req[r].row \in Row,
                 alloc'[a] = req[r].row
          PROVE  \E row \in Row : RowCovers(row) /\ alloc'[a] = row
      BY <3>2 DEF HoldsCover
    <3> QED
      BY <3>1, <3>2, LiveAfter
  <2> QED
    BY <2>1, CoveredAfter DEF RowCovers
<1> QED
  BY <1>1, <1>2, <1>3, <1>4 DEF HoldsCover

LEMMA CoveredRidesDisjoint ==
    ASSUME TypeInv, NoDoubleBooking, HoldsCover
    PROVE  RidesDisjoint
<1>1. ASSUME NEW a \in AllocIds, Active(a)
      PROVE  LET w == alloc[a].window  ride == Ride(trip[alloc[a].booking])
             IN  w \in Windows /\ w.from = ride.from /\ ride.to <= w.to /\ ride.to \in Int
  <2> DEFINE t == trip[alloc[a].booking]
  <2>1. alloc[a] \in Row /\ RowCovers(alloc[a])
    BY <1>1 DEF Active, Exists, TypeInv, TypeOK, HoldsCover
  <2>2. t \in Trips /\ Covers(alloc[a].window, t) /\ alloc[a].window \in Windows
    BY <2>1 DEF RowCovers, Row, TypeInv, Booked
  <2> HIDE DEF t
  <2>3. [t EXCEPT !.duration = t.duration] = t
    BY <2>2 DEF Trips
  <2>4. Ride(t).to <= alloc[a].window.to
    BY <2>2, <2>3 DEF Covers
  <2>5. Ride(t).from = alloc[a].window.from /\ Ride(t).to \in Int
    BY <2>2, HoldParametersAssumption DEF Covers, Ride, Trips, TripLength
  <2> QED
    BY <2>2, <2>4, <2>5 DEF t
<1> QED
  BY <1>1 DEF RidesDisjoint, NoDoubleBooking, Collides, Overlap, Windows

(* "WHY THE WINDOW IS WIDER THAN THE TRIP" (allocation.model): two         *)
(* bookings that hold one car never need it at the same moment.            *)
THEOREM RidesNeverOverlap == ASSUME Steady PROVE Spec => []RidesDisjoint
<1>1. Init => HoldsCover
  BY DEF Init, HoldsCover, Active, Exists, Idle
<1>2. TypeInv /\ NoDoubleBooking /\ HoldsCover /\ [Next]_vars => (TypeInv /\ NoDoubleBooking /\ HoldsCover)'
  BY TypeStep, NoDoubleBookingStep, HoldsCoverStep
<1> QED
  BY <1>1, <1>2, TypeInit, NoDoubleBookingInit, CoveredRidesDisjoint, PTL DEF Spec
=============================================================================
