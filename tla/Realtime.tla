------------------------------ MODULE Realtime ------------------------------
(***************************************************************************)
(* Who hears what happens: the sockets of riders, drivers and staff, the   *)
(* rooms they join (realtime/index.js, rooms.js, auth.js), and the bridge  *)
(* from the services' events to rooms and to the notifications of staff    *)
(* (realtime/bridge.js).  A capture of Collections is one of the events.   *)
(*                                                                         *)
(* canWatchBooking awaits the database between a request to watch and the  *)
(* join, so that watching and resync are two steps on a socket whose       *)
(* client may be gone by the second.                                       *)
(***************************************************************************)
EXTENDS Collections

CONSTANTS
    Users,           \* people with an account
    RoleOf,          \* their roles
    Bookings,        \* bookings there is news about
    CustomerOf,      \* whose bookings these are
    Sockets,         \* slots for connections
    MaxConnections   \* bound: connections opened

Roles == {"CUSTOMER", "DRIVER", "OPS", "ADMIN", "FINANCE"}

ASSUME RealtimeAssumption ==
    /\ None \notin Users
    /\ RoleOf \in [Users -> Roles]
    /\ CustomerOf \in [Bookings -> Users]
    /\ MaxConnections \in Nat

VARIABLES
    sockets,         \* the connections: the user each was opened for and its rooms
    pending,         \* bookings whose canWatchBooking has been asked for a socket
    active,          \* users whose account is active
    connections      \* connections opened so far

socketVars == <<sockets, pending, active, connections>>

Rooms == { <<"dispatch">>, <<"admin">> }
         \cup ({"driver"} \X Users) \cup ({"booking"} \X Bookings)

Closed == [user |-> None, rooms |-> {}]

SocketTypeOK ==
    /\ sockets \in [Sockets -> {Closed} \cup [user : Users, rooms : SUBSET Rooms]]
    /\ pending \in [Sockets -> SUBSET Bookings]
    /\ active \subseteq Users
    /\ connections \in 0 .. MaxConnections
-----------------------------------------------------------------------------
(***************************************************************************)
(* The bridge: where each event is broadcast.  b is the booking it is      *)
(* about, d the driver an allocation names.                                *)
(***************************************************************************)

EventKinds == {"booking.attempted", "booking.created", "booking.status_changed",
               "booking.vehicle_changed", "odometer.start_recorded", "booking.cancelled",
               "allocation.made", "payment.received", "booking_request.created"}

BookingRoom(b) == <<"booking", b>>

DriverRoom(u) == <<"driver", u>>

(* An attempt that failed alerts the admins as well.                       *)
AttemptRooms(failed) == { <<"dispatch">> } \cup (IF failed THEN { <<"admin">> } ELSE {})

(* booking.created: not to the customer, who has just been answered.       *)
CreatedRooms == { <<"dispatch">> }

StatusRooms(b) == { BookingRoom(b), <<"dispatch">> }

VehicleChangedRooms(b) == { BookingRoom(b), <<"dispatch">> }

(* The start reading and its photograph: to the booking's room only.       *)
OdometerRooms(b) == { BookingRoom(b) }

CancelledRooms(b) == { BookingRoom(b), <<"dispatch">> }

(* offer:new to the driver named, booking:allocated to the others.         *)
AllocationRooms(b, d) ==
    (IF d = None THEN {} ELSE { DriverRoom(d) }) \cup { BookingRoom(b), <<"dispatch">> }

(* The receipt of a standalone collection has no room.                     *)
PaymentRooms(b) == IF b = None THEN {} ELSE { BookingRoom(b) }

RequestRooms == { <<"dispatch">> }

BroadcastRooms(kind, b, d) ==
    CASE kind = "booking.attempted" -> AttemptRooms(TRUE)
      [] kind = "booking.created" -> CreatedRooms
      [] kind = "booking.status_changed" -> StatusRooms(b)
      [] kind = "booking.vehicle_changed" -> VehicleChangedRooms(b)
      [] kind = "odometer.start_recorded" -> OdometerRooms(b)
      [] kind = "booking.cancelled" -> CancelledRooms(b)
      [] kind = "allocation.made" -> AllocationRooms(b, d)
      [] kind = "payment.received" -> PaymentRooms(b)
      [] kind = "booking_request.created" -> RequestRooms

Hears(s, kind, b, d) == sockets[s].rooms \cap BroadcastRooms(kind, b, d) # {}

(* persistNotification: a row for each active user of the roles.           *)
NotifiedRoles(kind) ==
    CASE kind \in {"booking.attempted", "booking.created", "booking.cancelled",
                   "booking_request.created"} -> {"ADMIN", "OPS"}
      [] kind = "payment.received" -> {"ADMIN", "FINANCE"}
      [] OTHER -> {}

Notified(kind) == { u \in active : RoleOf[u] \in NotifiedRoles(kind) }
-----------------------------------------------------------------------------
(***************************************************************************)
(* Connections.                                                            *)
(***************************************************************************)

(* defaultRoomsFor: decided by the role read at the handshake.             *)
DefaultRoomsFor(u) ==
    CASE RoleOf[u] = "ADMIN" -> { <<"dispatch">>, <<"admin">> }
      [] RoleOf[u] = "OPS" -> { <<"dispatch">> }
      [] RoleOf[u] = "DRIVER" -> { DriverRoom(u) }
      [] OTHER -> {}

(* authenticateSocket: a valid token, of an account that is active now,    *)
(* which is not looked at again while the connection lasts.                *)
Authenticated(u) == u \in active

Connect(s, u) ==
    /\ sockets[s] = Closed /\ connections < MaxConnections
    /\ Authenticated(u)
    /\ sockets' = [sockets EXCEPT ![s] = [user |-> u, rooms |-> DefaultRoomsFor(u)]]
    /\ connections' = connections + 1
    /\ UNCHANGED <<pending, active>>

CanWatchAnything(u, b) == TRUE

(* canWatchBooking: staff, or the booking's customer.                      *)
CanWatchBooking(u, b) == RoleOf[u] \in {"ADMIN", "OPS"} \/ CustomerOf[b] = u

(* booking:watch and resync ask the database about each booking ...        *)
WatchRead(s, wanted) ==
    /\ sockets[s] # Closed /\ pending[s] = {}
    /\ pending' = [pending EXCEPT ![s] = { b \in wanted : CanWatchBooking(sockets[s].user, b) }]
    /\ UNCHANGED <<sockets, active, connections>>

(* ... and join its room when the answer comes.                            *)
WatchJoin(s, b) ==
    /\ b \in pending[s]
    /\ sockets' = [sockets EXCEPT ![s].rooms = @ \cup {BookingRoom(b)}]
    /\ pending' = [pending EXCEPT ![s] = @ \ {b}]
    /\ UNCHANGED <<active, connections>>

Unwatch(s, b) ==
    /\ BookingRoom(b) \in sockets[s].rooms
    /\ sockets' = [sockets EXCEPT ![s].rooms = @ \ {BookingRoom(b)}]
    /\ UNCHANGED <<pending, active, connections>>

(* Every room is left; an answer still on the way meets no connection, and *)
(* the next connection of the client is a socket of its own.               *)
Disconnect(s) ==
    /\ sockets[s] # Closed
    /\ sockets' = [sockets EXCEPT ![s] = Closed]
    /\ pending' = [pending EXCEPT ![s] = {}]
    /\ UNCHANGED <<active, connections>>

(* user.service takes an account out of use; its open sockets stay.        *)
Deactivate(u) ==
    /\ u \in active /\ active' = active \ {u}
    /\ UNCHANGED <<sockets, pending, connections>>

SocketInit ==
    /\ sockets = [s \in Sockets |-> Closed]
    /\ pending = [s \in Sockets |-> {}]
    /\ active = Users /\ connections = 0

SocketNext ==
    \/ \E s \in Sockets :
        \/ \E u \in Users : Connect(s, u)
        \/ \E wanted \in SUBSET Bookings : WatchRead(s, wanted)
        \/ \E b \in Bookings : WatchJoin(s, b) \/ Unwatch(s, b)
        \/ Disconnect(s)
    \/ \E u \in Users : Deactivate(u)
-----------------------------------------------------------------------------
vars == <<collectionVars, socketVars>>

Init == CollectionInit /\ SocketInit

Next ==
    \/ CollectionNext /\ UNCHANGED socketVars
    \/ SocketNext /\ UNCHANGED collectionVars

Spec == Init /\ [][Next]_vars
-----------------------------------------------------------------------------
(***************************************************************************)
(* Properties.                                                             *)
(***************************************************************************)

TypeOK == CollectionTypeOK /\ SocketTypeOK

Payable(i) == instruments[i].state = "OPEN" /\ ~instruments[i].captured

InHand(i) == \E c \in Calls : calls[c].op \in {"store", "undo"} /\ calls[c].instrument = i

(* No instrument that can still be paid is forgotten: a live row names it, *)
(* so that an admin sees it and can cancel it, or the call that made it    *)
(* still holds it, or its loss was an error: a reply that never came, a    *)
(* process that stopped, a rollback that failed.  In particular a row is   *)
(* not marked as cancelled while its link still takes money.               *)
OpenIsKnown ==
    \A i \in DOMAIN instruments :
        Payable(i) => (\E r \in RowsOf(i) : Live(r)) \/ InHand(i) \/ i \in orphans

(* A booking is asked for one purpose through one instrument at a time,    *)
(* link and QR code counted together, whatever requests raced to create    *)
(* them and whatever rows were cancelled in between.                       *)
OneAskPerPurpose ==
    \A p \in Purposes :
        Cardinality({ r \in DOMAIN rows : /\ rows[r].of = "booking" /\ rows[r].purpose = p
                                           /\ Payable(rows[r].instrument) }) <= 1

(* Whoever is asked for money is asked by one instrument, known to staff.  *)
AskedOnce == OpenIsKnown /\ OneAskPerPurpose

Amounts == [r \in DOMAIN rows |-> Of(r).amount]

Counted == { r \in DOMAIN rows : rows[r].of = "booking" /\ rows[r].instrument \in ledger }

(* Money that arrived is placed: the booking's counter is the sum of the   *)
(* captures of its own instruments and of nothing collected without a      *)
(* booking, each counted once, and no row goes on asking for money whose   *)
(* capture was answered, unless the capture outran the row's insert.       *)
MoneyPlaced ==
    /\ TypeOK
    /\ booking.paid = SumFunctionOnSet(Amounts, Counted)
    /\ \A r \in DOMAIN rows :
          Live(r) /\ rows[r].instrument \in answered => rows[r].instrument \in early

(* A receipt cannot be taken back: whatever is announced to the customer,  *)
(* the bot and the staff has its entry in the ledger, although the         *)
(* transaction of a capture may fail at any point.                         *)
AnnouncedIsRecorded ==
    \A c \in Calls : calls[c].op = "publish" => rows[calls[c].row].instrument \in ledger

(* Nobody hears of a booking but its customer, the staff of the dispatch   *)
(* and the driver it is offered to, on whatever connections were opened,   *)
(* watched and closed before.                                              *)
EyesOnly ==
    \A s \in Sockets, kind \in EventKinds, b \in Bookings, d \in Users :
        sockets[s] # Closed /\ Hears(s, kind, b, d) =>
            LET u == sockets[s].user IN
            \/ RoleOf[u] \in {"ADMIN", "OPS"}
            \/ u = CustomerOf[b]
            \/ kind = "allocation.made" /\ u = d

(* What is told is true, and told to those it concerns.                    *)
ToldRightly == AnnouncedIsRecorded /\ EyesOnly
=============================================================================
