------------------------------ MODULE Dispatch ------------------------------
(***************************************************************************)
(* Bookings, allocations and vehicles: the lifecycle of a booking          *)
(* (lifecycle.service, cancellation.service), the holding of a vehicle and *)
(* a driver for it (allocation.service), the change of its vehicle class   *)
(* (bookingVehicle.service) and the retiring of a vehicle                  *)
(* (vehicle.service), over one Postgres database.                          *)
(*                                                                         *)
(* A handler that reads first and writes in a transaction afterwards is    *)
(* two actions: the read leaves what the handler will go on to use in      *)
(* req[r], and the transaction acts on that snapshot, whatever the other   *)
(* handlers committed in between.  A handler whose reads only decide an    *)
(* early error that its transaction decides again is one action.           *)
(*                                                                         *)
(* Transactions run at READ COMMITTED.  Their writes appear at the commit, *)
(* under row locks, so a transaction whose own reads come after it has     *)
(* locked the booking row (complete, cancel) is one action; the one that   *)
(* reads before it (changeVehicleClass looks for the hold first) has a     *)
(* step of its own for that read.                                          *)
(***************************************************************************)
EXTENDS HoldWindow, FiniteSets

CONSTANTS
    Bookings,        \* bookings that may come to exist
    Vehicles, Drivers,
    AllocIds,        \* rows the allocations table may come to have
    Classes,         \* vehicle classes
    ClassOf,         \* class of each vehicle
    Offers,          \* trips each booking may be made for
    Requotes,        \* durations a re-quote of a routed trip may come back with
    HandEdits,       \* <<status, is_active>> pairs an admin writes on a vehicle
    Retirable,       \* vehicles an admin may try to take out of the fleet
    Requests,        \* slots for concurrent staff requests
    None             \* SQL NULL, and the absence of a row

VARIABLES
    status,          \* bookings.status, None before the row is inserted
    class,           \* bookings.vehicle_class
    trip,            \* bookings.trip_type, pickup_at, return_at, duration_minutes
    alloc,           \* the allocations table
    vstatus,         \* vehicles.status
    vactive,         \* vehicles.is_active
    req,             \* what each request in flight has read
    bare,            \* history: bookings last moved to ALLOCATED by status alone
    byHand           \* history: vehicles whose status an admin wrote last

vars == <<status, class, trip, alloc, vstatus, vactive, req, bare, byHand>>

BookingStatuses == {"PENDING", "CONFIRMED", "ALLOCATED", "EN_ROUTE", "REACHED",
                    "ONGOING", "ARRIVED", "COMPLETED", "CANCELLED", "EXPIRED"}

(* enum VehicleStatus; ON_TRIP is never written by the code, and an        *)
(* admin who sets it by hand has the effect of ASSIGNED here.              *)
VehicleStatuses == {"AVAILABLE", "ASSIGNED", "MAINTENANCE", "INACTIVE"}

Row == [booking : Bookings, vehicle : Vehicles, driver : Drivers \cup {None},
        window : Windows, active : BOOLEAN]

ASSUME DispatchAssumption ==
    /\ ClassOf \in [Vehicles -> Classes]
    /\ Offers \in [Bookings -> SUBSET Trips]
    /\ Requotes \subseteq Nat
    /\ HandEdits \subseteq VehicleStatuses \X BOOLEAN
    /\ Retirable \subseteq Vehicles
    /\ None \notin BookingStatuses \cup Row \cup Drivers

Assignable   == {"PENDING", "CONFIRMED", "ALLOCATED"}
Reassignable == {"ALLOCATED", "EN_ROUTE"}
Changeable   == {"PENDING", "CONFIRMED", "ALLOCATED"}
Cancellable  == {"PENDING", "CONFIRMED", "ALLOCATED", "EN_ROUTE"}
InMotion     == {"ALLOCATED", "EN_ROUTE", "REACHED", "ONGOING", "ARRIVED"}
Terminal     == {"COMPLETED", "CANCELLED", "EXPIRED"}

(* TRANSITIONS: the statuses each target may be entered from. *)
From == [CONFIRMED |-> {"PENDING"},    ALLOCATED |-> {"CONFIRMED"},
         EN_ROUTE  |-> {"ALLOCATED"},  REACHED   |-> {"EN_ROUTE"},
         ONGOING   |-> {"EN_ROUTE", "REACHED"},
         ARRIVED   |-> {"ONGOING"},    COMPLETED |-> {"ARRIVED"},
         EXPIRED   |-> {"PENDING"}]

Idle == [op |-> "idle"]

AllocateReq == [op : {"allocate"}, row : Row]
ReassignReq == [op : {"reassign"}, row : Row, current : AllocIds]
ChangeReq   == [op : {"change"}, booking : Bookings, class : Classes,
                duration : Nat, release : BOOLEAN]
(* A change that must release, once its transaction has looked for the     *)
(* hold: found is empty when there was none any more.                      *)
ReleaseReq  == [op : {"release"}, booking : Bookings, class : Classes,
                duration : Nat, found : SUBSET AllocIds]
RetireReq   == [op : {"retire"}, vehicle : Vehicles]

Request == {Idle} \cup AllocateReq \cup ReassignReq \cup ChangeReq
                  \cup ReleaseReq \cup RetireReq

TypeOK ==
    /\ status \in [Bookings -> BookingStatuses \cup {None}]
    /\ class \in [Bookings -> Classes \cup {None}]
    /\ trip \in [Bookings -> Trips \cup {None}]
    /\ alloc \in [AllocIds -> Row \cup {None}]
    /\ vstatus \in [Vehicles -> VehicleStatuses]
    /\ vactive \in [Vehicles -> BOOLEAN]
    /\ req \in [Requests -> Request]
    /\ bare \subseteq Bookings
    /\ byHand \subseteq Vehicles

-----------------------------------------------------------------------------
(* The allocations table and its constraints. *)

Exists(a) == alloc[a] # None
Active(a) == Exists(a) /\ alloc[a].active
HoldsOf(b) == { a \in AllocIds : Active(a) /\ alloc[a].booking = b }

(* excl_allocation_vehicle_overlap and excl_allocation_driver_overlap *)
Collides(p, q) ==
    /\ \/ p.vehicle = q.vehicle
       \/ p.driver # None /\ p.driver = q.driver
    /\ Overlap(p.window, q.window)

(* Faults: the unique index without the exclusion constraints, and these   *)
(* without it.                                                             *)
InsertAllowedByIndex(gone, row) ==
    \A a \in AllocIds \ gone : Active(a) => alloc[a].booking # row.booking
InsertAllowedByWindow(gone, row) ==
    \A a \in AllocIds \ gone : Active(a) => ~Collides(alloc[a], row)

(* Inserting an ACTIVE row into a table whose rows in gone have just been  *)
(* released: refused by uq_allocation_active_booking or by an exclusion    *)
(* constraint.                                                             *)
InsertAllowed(gone, row) ==
    \A a \in AllocIds \ gone : Active(a) =>
        /\ alloc[a].booking # row.booking
        /\ ~Collides(alloc[a], row)

NewRow(b, v, d) == [booking |-> b, vehicle |-> v, driver |-> d,
                    window |-> HoldWindow(trip[b]), active |-> TRUE]

(* The table with the rows in gone RELEASED, and the vehicles they name. *)
Released(gone) ==
    [a \in AllocIds |-> IF a \in gone /\ Exists(a)
                         THEN [alloc[a] EXCEPT !.active = FALSE]
                         ELSE alloc[a]]

VehiclesOf(gone) == { alloc[a].vehicle : a \in { g \in gone : Exists(g) } }

(* The mutant forgets the vehicle. *)
FreedNever(freed) == vstatus

(* vehicles.status after the vehicles in freed become AVAILABLE. *)
Freed(freed) == [v \in Vehicles |-> IF v \in freed THEN "AVAILABLE" ELSE vstatus[v]]

(* releaseVehicleForBooking: the hold and the vehicle it names, inside the *)
(* caller's transaction; nothing when the booking has no hold.             *)
Release(gone) ==
    /\ alloc' = Released(gone)
    /\ vstatus' = Freed(VehiclesOf(gone))
    /\ byHand' = byHand \ VehiclesOf(gone)

ReleaseVehicleForBooking(b) == Release(HoldsOf(b))

-----------------------------------------------------------------------------
Init ==
    /\ status = [b \in Bookings |-> None]
    /\ class = [b \in Bookings |-> None]
    /\ trip = [b \in Bookings |-> None]
    /\ alloc = [a \in AllocIds |-> None]
    /\ vstatus = [v \in Vehicles |-> "AVAILABLE"]
    /\ vactive = [v \in Vehicles |-> TRUE]
    /\ req = [r \in Requests |-> Idle]
    /\ bare = {}
    /\ byHand = {}

(* booking.service create: every booking starts PENDING. *)
Create(b, c, t) ==
    /\ status[b] = None
    /\ status' = [status EXCEPT ![b] = "PENDING"]
    /\ class' = [class EXCEPT ![b] = c]
    /\ trip' = [trip EXCEPT ![b] = t]
    /\ UNCHANGED <<alloc, vstatus, vactive, req, bare, byHand>>

(* transition: one conditional UPDATE naming the statuses it may leave. *)
Move(b, target) ==
    /\ status[b] \in From[target]
    /\ status' = [status EXCEPT ![b] = target]

(* confirm, markEnRoute, markReached, startTrip, markArrived, expire. *)
Advance(b) ==
    /\ \E target \in {"CONFIRMED", "EN_ROUTE", "REACHED", "ONGOING", "ARRIVED", "EXPIRED"} :
          Move(b, target)
    /\ UNCHANGED <<class, trip, alloc, vstatus, vactive, req, bare, byHand>>

(* markAllocated: PATCH /allocate with no vehicleId, "the plain status     *)
(* move for backward compatibility".                                       *)
MarkAllocated(b) ==
    /\ Move(b, "ALLOCATED")
    /\ bare' = bare \cup {b}
    /\ UNCHANGED <<class, trip, alloc, vstatus, vactive, req, byHand>>

(* completeTrip's transaction.  The payment gate before it only refuses;   *)
(* the module of payments has it.                                          *)
CompleteTrip(b) ==
    /\ Move(b, "COMPLETED")
    /\ ReleaseVehicleForBooking(b)
    /\ UNCHANGED <<class, trip, vactive, req, bare>>

(* cancel *)
Cancel(b) ==
    /\ status[b] \in Cancellable
    /\ status' = [status EXCEPT ![b] = "CANCELLED"]
    /\ ReleaseVehicleForBooking(b)
    /\ UNCHANGED <<class, trip, vactive, req, bare>>

-----------------------------------------------------------------------------
InService(v) == vactive[v] /\ vstatus[v] \notin {"MAINTENANCE", "INACTIVE"}

(* allocate, up to its transaction: the booking and the vehicle are read   *)
(* and their early refusals made.                                          *)
AllocateRead(r, b, v, d) ==
    /\ req[r] = Idle
    /\ status[b] \in Assignable
    /\ ClassOf[v] = class[b]
    /\ InService(v)
    /\ req' = [req EXCEPT ![r] = [op |-> "allocate", row |-> NewRow(b, v, d)]]
    /\ UNCHANGED <<status, class, trip, alloc, vstatus, vactive, bare, byHand>>

(* allocate's transaction: insert the hold and let the constraints decide, *)
(* then move the booking (PENDING by way of CONFIRMED) and mark the        *)
(* vehicle.  A PENDING booking reaches ALLOCATED whether or not the read   *)
(* saw it PENDING, as the second UPDATE accepts PENDING too.               *)
AllocateCommit(r) ==
    /\ req[r].op = "allocate"
    /\ LET row == req[r].row IN
       /\ InsertAllowed({}, row)
       /\ status[row.booking] \in Assignable
       /\ \E a \in AllocIds : ~Exists(a) /\ alloc' = [alloc EXCEPT ![a] = row]
       /\ status' = [status EXCEPT ![row.booking] = "ALLOCATED"]
       /\ vstatus' = [vstatus EXCEPT ![row.vehicle] = "ASSIGNED"]
       /\ bare' = bare \ {row.booking}
       /\ byHand' = byHand \ {row.vehicle}
    /\ req' = [req EXCEPT ![r] = Idle]
    /\ UNCHANGED <<class, trip, vactive>>

(* reassign, up to its transaction: the booking, its hold and the new      *)
(* vehicle are read.                                                       *)
ReassignRead(r, b, v, d) ==
    /\ req[r] = Idle
    /\ status[b] \in Reassignable
    /\ ClassOf[v] = class[b]
    /\ InService(v)
    /\ \E a \in HoldsOf(b) :
          /\ ~(alloc[a].vehicle = v /\ alloc[a].driver = d)
          /\ req' = [req EXCEPT ![r] =
                       [op |-> "reassign", row |-> NewRow(b, v, d), current |-> a]]
    /\ UNCHANGED <<status, class, trip, alloc, vstatus, vactive, bare, byHand>>

(* reassign's transaction: it releases the row it read, by id, frees the   *)
(* vehicle that row names unless it is kept, and inserts the new hold.     *)
(* The booking's status is neither read again nor written.                 *)
ReassignCommit(r) ==
    /\ req[r].op = "reassign"
    /\ LET row == req[r].row
           gone == {req[r].current}
           touched == VehiclesOf(gone) \cup {row.vehicle}
       IN
       /\ InsertAllowed(gone, row)
       /\ \E a \in AllocIds : ~Exists(a) /\ alloc' = [Released(gone) EXCEPT ![a] = row]
       /\ vstatus' = [Freed(VehiclesOf(gone)) EXCEPT ![row.vehicle] = "ASSIGNED"]
       /\ bare' = bare \ {row.booking}
       /\ byHand' = byHand \ touched
    /\ req' = [req EXCEPT ![r] = Idle]
    /\ UNCHANGED <<status, class, trip, vactive>>

(* changeVehicleClass, up to its transaction: the booking and its hold are *)
(* read, the trip is quoted again for the new class; a hold on a vehicle   *)
(* of another class is to be released, the caller having opted in.         *)
ChangeClassRead(r, b, c, m) ==
    /\ req[r] = Idle
    /\ class[b] # c
    /\ status[b] \in Changeable
    /\ req' = [req EXCEPT ![r] =
                 [op |-> "change", booking |-> b, class |-> c,
                  duration |-> IF trip[b].type = "HOURLY" THEN 0 ELSE m,
                  release |-> \E a \in HoldsOf(b) : ClassOf[alloc[a].vehicle] # c]]
    /\ UNCHANGED <<status, class, trip, alloc, vstatus, vactive, bare, byHand>>

(* Fault: the status checked by the read only. *)
ReclassUnguarded(q) ==
    /\ class' = [class EXCEPT ![q.booking] = q.class]
    /\ trip' = [trip EXCEPT ![q.booking].duration = q.duration]

(* The conditional UPDATE of the booking, by either kind of change. *)
Reclass(q) ==
    /\ status[q.booking] \in Changeable
    /\ class' = [class EXCEPT ![q.booking] = q.class]
    /\ trip' = [trip EXCEPT ![q.booking].duration = q.duration]

(* changeVehicleClass's transaction when the read saw no hold in the way. *)
ChangeClassCommit(r) ==
    /\ req[r].op = "change" /\ ~req[r].release
    /\ Reclass(req[r])
    /\ req' = [req EXCEPT ![r] = Idle]
    /\ UNCHANGED <<status, alloc, vstatus, vactive, bare, byHand>>

(* The same transaction when it saw one: releaseVehicleForBooking looks    *)
(* for the hold before the booking row is locked ...                       *)
ChangeClassFind(r) ==
    /\ req[r].op = "change" /\ req[r].release
    /\ req' = [req EXCEPT ![r] =
                 [op |-> "release", booking |-> req[r].booking, class |-> req[r].class,
                  duration |-> req[r].duration, found |-> HoldsOf(req[r].booking)]]
    /\ UNCHANGED <<status, class, trip, alloc, vstatus, vactive, bare, byHand>>

(* Fault: the booking not sent back to CONFIRMED. *)
ChangeClassReleaseInPlace(r) ==
    /\ req[r].op = "release"
    /\ Reclass(req[r])
    /\ Release(req[r].found)
    /\ req' = [req EXCEPT ![r] = Idle]
    /\ UNCHANGED <<status, vactive, bare>>

(* ... and what it found is released by id, the booking going back to      *)
(* CONFIRMED.                                                              *)
ChangeClassRelease(r) ==
    /\ req[r].op = "release"
    /\ Reclass(req[r])
    /\ Release(req[r].found)
    /\ status' = [status EXCEPT ![req[r].booking] = "CONFIRMED"]
    /\ req' = [req EXCEPT ![r] = Idle]
    /\ UNCHANGED <<vactive, bare>>

(* vehicle.service softDelete: refused for a vehicle that reads ASSIGNED,  *)
(* then an unconditional update.                                           *)
RetireRead(r, v) ==
    /\ req[r] = Idle
    /\ vstatus[v] # "ASSIGNED"
    /\ req' = [req EXCEPT ![r] = [op |-> "retire", vehicle |-> v]]
    /\ UNCHANGED <<status, class, trip, alloc, vstatus, vactive, bare, byHand>>

RetireCommit(r) ==
    /\ req[r].op = "retire"
    /\ vactive' = [vactive EXCEPT ![req[r].vehicle] = FALSE]
    /\ vstatus' = [vstatus EXCEPT ![req[r].vehicle] = "INACTIVE"]
    /\ byHand' = byHand \cup {req[r].vehicle}
    /\ req' = [req EXCEPT ![r] = Idle]
    /\ UNCHANGED <<status, class, trip, alloc, bare>>

(* vehicle.service update: an admin writes any status and is_active. *)
UpdateVehicle(v, e) ==
    /\ <<vstatus[v], vactive[v]>> # e
    /\ vstatus' = [vstatus EXCEPT ![v] = e[1]]
    /\ vactive' = [vactive EXCEPT ![v] = e[2]]
    /\ byHand' = byHand \cup {v}
    /\ UNCHANGED <<status, class, trip, alloc, req, bare>>

(* A request ends without a commit: its transaction was refused and rolled *)
(* back, or its process died before it.                                    *)
Abandon(r) ==
    /\ req[r] # Idle
    /\ req' = [req EXCEPT ![r] = Idle]
    /\ UNCHANGED <<status, class, trip, alloc, vstatus, vactive, bare, byHand>>

BookingStep(b) ==
    \/ \E c \in Classes, t \in Offers[b] : Create(b, c, t)
    \/ Advance(b)
    \/ MarkAllocated(b)
    \/ CompleteTrip(b)
    \/ Cancel(b)

ReadStep(r) ==
    \/ \E b \in Bookings, v \in Vehicles, d \in Drivers \cup {None} :
          AllocateRead(r, b, v, d) \/ ReassignRead(r, b, v, d)
    \/ \E b \in Bookings, c \in Classes, m \in Requotes : ChangeClassRead(r, b, c, m)
    \/ \E v \in Retirable : RetireRead(r, v)

CommitStep(r) ==
    \/ AllocateCommit(r)
    \/ ReassignCommit(r)
    \/ ChangeClassCommit(r)
    \/ ChangeClassFind(r)
    \/ ChangeClassRelease(r)
    \/ RetireCommit(r)
    \/ Abandon(r)

Next ==
    \/ \E b \in Bookings : BookingStep(b)
    \/ \E r \in Requests : ReadStep(r) \/ CommitStep(r)
    \/ \E v \in Vehicles, e \in HandEdits : UpdateVehicle(v, e)

Spec == Init /\ [][Next]_vars
-----------------------------------------------------------------------------
(* Properties. *)

(* No two live holds are for the same booking, and no two of one vehicle   *)
(* or of one driver overlap in time, whatever requests race each other     *)
(* (allocation.service: "Two callers that both pass the pre-checks still   *)
(* cannot both succeed").                                                  *)
NoDoubleBooking ==
    \A a1, a2 \in AllocIds : a1 # a2 /\ Active(a1) /\ Active(a2) =>
        /\ alloc[a1].booking # alloc[a2].booking
        /\ ~Collides(alloc[a1], alloc[a2])

(* A booking that dispatch has given a car, and whose trip is not over,    *)
(* has a live hold: no race of reassignment, class change, cancellation    *)
(* and completion drops it.  A booking moved to ALLOCATED by its status    *)
(* alone has none to lose.                                                 *)
InMotionHeld ==
    \A b \in Bookings \ bare : status[b] \in InMotion => HoldsOf(b) # {}

(* No vehicle is leaked: one that dispatch left ASSIGNED is held by some   *)
(* booking ("otherwise ... the vehicle stays ASSIGNED forever",            *)
(* allocation.service).                                                    *)
AssignedIsHeld ==
    \A v \in Vehicles \ byHand :
        vstatus[v] = "ASSIGNED" => \E a \in AllocIds : Active(a) /\ alloc[a].vehicle = v

(* Two bookings holding one car never need it at the same moment: the held *)
(* window contains the ride, for a trip whose length is routed and whose   *)
(* quotes differ in length by no more than the buffer.                     *)
RidesDisjoint ==
    \A a1, a2 \in AllocIds :
        a1 # a2 /\ Active(a1) /\ Active(a2) /\ alloc[a1].vehicle = alloc[a2].vehicle =>
            ~Overlap(Ride(trip[alloc[a1].booking]), Ride(trip[alloc[a2].booking]))

(* The bookings go through the lifecycle as promised. *)
PhaseOf == [PENDING |-> "open", CONFIRMED |-> "open", ALLOCATED |-> "open",
            EN_ROUTE |-> "moving", REACHED |-> "moving",
            ONGOING |-> "aboard", ARRIVED |-> "aboard",
            COMPLETED |-> "done", CANCELLED |-> "void", EXPIRED |-> "void"]

Phase(s) == IF s = None THEN None ELSE PhaseOf[s]

Lifecycle == INSTANCE BookingLifecycle
                 WITH phase <- [b \in Bookings |-> Phase(status[b])], agreed <- class

LifecycleKept == Lifecycle!Spec

(* The live rows of the allocations table are a calendar without clashes,  *)
(* and a step enters, drops or exchanges one reservation at most.          *)
LiveRows == { alloc[a] : a \in { x \in AllocIds : Active(x) } }

Calendar == INSTANCE Reservations WITH held <- LiveRows

CalendarKept == Calendar!Spec

(* allocation.service, 149-151: "Abort so we never leave an allocation     *)
(* attached to a dead booking."  Refuted by this model: reassign commits   *)
(* without a second look at the status (MCDispatchFleet.cfg).              *)
DeadBookingHoldsNothing ==
    \A b \in Bookings : status[b] \in Terminal => HoldsOf(b) = {}

(* vehicle.service, 140-143: a soft delete "refuses if the vehicle is      *)
(* mid-job ..., since taking it out of the fleet then would strand an      *)
(* active allocation": a vehicle out of the fleet is held by no booking.   *)
(* Refuted by this model: the status it trusts is written by others while  *)
(* a hold stands, and its update is unconditional (MCDispatchOne.cfg).     *)
RetiredNotHeld ==
    \A a \in AllocIds : Active(a) => vactive[alloc[a].vehicle]

=============================================================================
