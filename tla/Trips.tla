------------------------------- MODULE Trips -------------------------------
(* A trip as its driver records it: the code the rider reads out           *)
(* (tripOtp.service), the odometer with its photographs at the start and   *)
(* the end (driverBooking.controller, trip.service, lifecycle.startTrip),  *)
(* and the stops on the way (bookingStop.service).  Each request reads,    *)
(* uploads and writes apart, a transaction reads the car's odometer before *)
(* it commits, and two requests of one trip may cross.                     *)
EXTENDS Drivers

CONSTANTS
    Bookings,
    Stops,          \* the stops of a booking, 0..n
    Readings,       \* what an odometer may be said to show
    MaxWrong     \* wrong codes before a start is refused (MAX_ATTEMPTS)

Early == {"ALLOCATED", "EN_ROUTE", "REACHED"}
Startable == {"EN_ROUTE", "REACHED"}
Ongoing == {"ONGOING", "ARRIVED"}

(* The row of a booking; a stop's record; an allocation that was ended.    *)
TripRow == [status : Early \cup Ongoing \cup {"COMPLETED"}, driver : People \cup {None},
            car : Cars \cup {None}, coded : BOOLEAN, verified : BOOLEAN, attempts : Nat,
            start : Readings \cup {None}, startPhoto : Nat \cup {None},
            end : Readings \cup {None}, endPhoto : Nat \cup {None},
            startedBy : People \cup {None}, endedBy : People \cup {None}]
StopRow == [reached : Nat \cup {None}, left : BOOLEAN]
EndedAllocation == [driver : People \cup {None}, car : Cars \cup {None}]

StartCall == [op : {"code", "right", "wrong", "photo", "start", "started"}, booking : Bookings,
              driver : People, car : Cars, km : Readings, photo : Nat \cup {None}, stale : Nat]
EndCall == [op : {"endPhoto", "end", "ended", "clean"}, booking : Bookings, driver : People,
            car : Cars, km : Readings, completes : BOOLEAN, photo : Nat \cup {None},
            moves : BOOLEAN, replaced : Nat \cup {None}]
CloseCall == [op : {"finish", "complete"}, booking : Bookings, driver : People]
ReachCall == [op : {"reach"}, booking : Bookings, stop : Stops, time : Nat]
LeaveCall == [op : {"leave"}, booking : Bookings, stop : Stops]
TripCall == DriverCall \cup StartCall \cup EndCall \cup CloseCall \cup ReachCall \cup LeaveCall

(* Rows a table may hold to start with: readings in order, a code verified *)
(* only where there is one, nothing measured before the start; and an      *)
(* image is on one row, once.                                              *)
Orderly(t) ==
    /\ t.start # None /\ t.end # None => t.end >= t.start
    /\ t.endedBy # None => t.end # None /\ t.endPhoto # None
    /\ t.startedBy # None => t.verified
    /\ t.verified => t.coded
    /\ t.status \in Early => t.end = None
Photos(t) == {t.startPhoto, t.endPhoto} \ {None}
OwnPhotos(rows) ==
    \A b, d \in Bookings :
        rows[b].endPhoto # None => /\ rows[b].endPhoto # rows[d].startPhoto
                                   /\ rows[b].endPhoto = rows[d].endPhoto => b = d
Sound(o) ==
    /\ o.shots \in Nat /\ Filled(o.drivers, o.cars, o.shots) /\ o.trips \in [Bookings -> TripRow]
    /\ OwnPhotos(o.trips)
    /\ \A b \in Bookings :
          /\ Orderly(o.trips[b]) /\ o.trips[b].attempts < MaxWrong + Cardinality(Callers)
          /\ Photos(o.trips[b]) \subseteq 1..o.shots
          /\ \A p \in People, n \in DriverDocs :
                o.drivers[p] # None => o.drivers[p].papers[n] \notin Photos(o.trips[b])
          /\ \A v \in Cars, n \in CarDocs :
                o.cars[v] # None => o.cars[v].papers[n] \notin Photos(o.trips[b])

ASSUME TripsAssumption ==
    /\ Readings \subseteq Nat /\ Stops \subseteq Nat /\ MaxWrong \in Nat \ {0}
    /\ MaxEffort \in Nat /\ Verdicts \subseteq KycStatuses /\ IsFiniteSet(Callers)
    /\ None \notin Nat \cup People \cup Cars \cup DriverRow \cup CarRow \cup StopRow
    /\ \A o \in Opening : Sound(o)

VARIABLES
    trips,          \* trips[b]: the row of booking b
    former,         \* former[b]: the drivers and cars it was taken from
    stops           \* stops[b][i]: None, or when stop i was reached and whether it was left
tripVars == <<trips, former, stops>>
roadVars == <<drivers, cars, stored, shots, position, map, cacheUp, sweep, calls, made,
          trips, former, stops>>

Trip(status, driver, car, coded) ==
    [status |-> status, driver |-> driver, car |-> car, coded |-> coded, verified |-> FALSE,
     attempts |-> 0, start |-> None, startPhoto |-> None, end |-> None, endPhoto |-> None,
     startedBy |-> None, endedBy |-> None]

Write(b, row) == trips' = [trips EXCEPT ![b] = row]
SetOdometer(v, km) == SetCar(v, [cars[v] EXCEPT !.odometer = km])

(* Trips that hold a driver or a car. *)
HoldsTrip(p) == \E b \in Bookings : trips[b].driver = p
                               /\ trips[b].status \in Early \cup Ongoing
Dispatched(v) == \E b \in Bookings : trips[b].car = v \/ \E f \in former[b] : f.car = v

-----------------------------------------------------------------------------
(* Moves along the lifecycle with nothing else to them. *)

Move(b, from, to) ==
    /\ trips[b].status \in from /\ Write(b, [trips[b] EXCEPT !.status = to])
    /\ At_Once /\ UNCHANGED <<drivers, cars, stored, shots, presenceVars, former, stops>>

MarkEnRoute(b) == Move(b, {"ALLOCATED"}, "EN_ROUTE")
MarkReached(b) == Move(b, {"EN_ROUTE"}, "REACHED")
MarkArrived(b) == Move(b, {"ONGOING"}, "ARRIVED")

(* A ping that names a trip, near the drop: nothing asks whose trip it is. *)
PingAtDrop(p, b) ==
    /\ p \in Driver /\ cacheUp
    /\ position' = [position EXCEPT ![p] = "fresh"] /\ map' = map \cup {p}
    /\ trips[b].status = "ONGOING" /\ Write(b, [trips[b] EXCEPT !.status = "ARRIVED"])
    /\ At_Once /\ UNCHANGED <<drivers, cars, stored, shots, cacheUp, sweep, former, stops>>

(* Another driver and car: the old allocation stays on record. *)
Reassign(b, p, v) ==
    /\ trips[b].status \in {"ALLOCATED", "EN_ROUTE"}
    /\ p \in Driver /\ v \in Fleet /\ cars[v].active /\ trips[b].driver # p
    /\ Write(b, [trips[b] EXCEPT !.driver = p, !.car = v])
    /\ former' = [former EXCEPT ![b] = @ \cup {[driver |-> trips[b].driver, car |-> trips[b].car]}]
    /\ At_Once /\ UNCHANGED <<drivers, cars, stored, shots, presenceVars, stops>>

(* assertDriverOnBooking: any allocation of the driver's will do. *)
CarsOf(b, p) ==
    {f.car : f \in {g \in former[b] \cup {[driver |-> trips[b].driver, car |-> trips[b].car]} :
                    g.driver = p}}

-----------------------------------------------------------------------------
(* Starting: the row, the car's odometer and the code are looked at, the   *)
(* photograph is stored, and then one transaction moves the booking and,   *)
(* from a reading of its own, the car.                                     *)

BeginStart(k, b, p, v, km) ==
    /\ v \in CarsOf(b, p) /\ v \in Fleet /\ trips[b].status \in Startable
    /\ km >= cars[v].odometer
    /\ Begin(k, [op |-> "code", booking |-> b, driver |-> p, car |-> v, km |-> km,
                 photo |-> None, stale |-> 0])
    /\ UNCHANGED <<drivers, cars, stored, shots, presenceVars, tripVars>>

(* tripOtp.verify reads the row; what it read decides.  The mutant allows  *)
(* one more.                                                               *)
LockedLate(b) == trips[b].attempts > MaxWrong
Locked(b) == trips[b].attempts >= MaxWrong

ReadCode(k, right) ==
    LET c == calls[k]  t == trips[c.booking]
    IN  /\ c.op = "code"
        /\ IF t.verified THEN Continue(k, [c EXCEPT !.op = "photo"])
           ELSE IF ~t.coded \/ Locked(c.booking) THEN Leave(k)
           ELSE Continue(k, [c EXCEPT !.op = IF right THEN "right" ELSE "wrong"])
        /\ UNCHANGED <<drivers, cars, stored, shots, presenceVars, tripVars>>

(* An increment, made by the database. *)
WrongCode(k) ==
    LET b == calls[k].booking
    IN  /\ calls[k].op = "wrong"
        /\ Write(b, [trips[b] EXCEPT !.attempts = @ + 1])
        /\ Leave(k) /\ UNCHANGED <<drivers, cars, stored, shots, presenceVars, former, stops>>

RightCode(k) ==
    LET b == calls[k].booking
    IN  /\ calls[k].op = "right"
        /\ Write(b, [trips[b] EXCEPT !.verified = TRUE])
        /\ Continue(k, [calls[k] EXCEPT !.op = "photo"])
        /\ UNCHANGED <<drivers, cars, stored, shots, presenceVars, former, stops>>

StorePhoto(k) ==
    LET c == calls[k]
    IN  /\ c.op \in {"photo", "endPhoto"}
        /\ Upload
        /\ Continue(k, [c EXCEPT !.op = IF @ = "photo" THEN "start" ELSE "end", !.photo = shots + 1])
        /\ UNCHANGED <<drivers, cars, presenceVars, tripVars>>

(* Inside the transaction: the car's odometer. *)
ReadStart(k) ==
    LET c == calls[k]
    IN  /\ c.op = "start"
        /\ IF trips[c.booking].status \in Startable /\ c.car \in Fleet /\ c.km >= cars[c.car].odometer
           THEN Continue(k, [c EXCEPT !.op = "started", !.stale = cars[c.car].odometer])
                /\ UNCHANGED stored
           ELSE Leave(k) /\ Destroy({c.photo})
        /\ UNCHANGED <<drivers, cars, shots, presenceVars, tripVars>>

(* The commit, refused when the row has moved on.  The stops' records are  *)
(* made after it, unless that fails.                                       *)
Initialised(b) == [i \in Stops |-> IF stops[b][i] = None THEN [reached |-> None, left |-> FALSE]
                                   ELSE stops[b][i]]

StartTrip(k) ==
    LET c == calls[k]  b == c.booking
    IN  /\ c.op = "started"
        /\ IF trips[b].status \in Startable
           THEN /\ Write(b, [trips[b] EXCEPT !.status = "ONGOING", !.start = c.km,
                                             !.startPhoto = c.photo, !.startedBy = c.driver])
                /\ IF c.km > c.stale THEN SetOdometer(c.car, c.km) ELSE UNCHANGED cars
                /\ stops' \in {[stops EXCEPT ![b] = Initialised(b)], stops}
                /\ UNCHANGED stored
           ELSE Destroy({c.photo}) /\ UNCHANGED <<cars, trips, stops>>
        /\ Leave(k) /\ UNCHANGED <<drivers, shots, presenceVars, former>>

(* Staff start a trip without any of it. *)
StartByStaff(b) ==
    /\ trips[b].status \in Startable
    /\ Write(b, [trips[b] EXCEPT !.status = "ONGOING"])
    /\ stops' \in {[stops EXCEPT ![b] = Initialised(b)], stops}
    /\ At_Once /\ UNCHANGED <<drivers, cars, stored, shots, presenceVars, former>>

-----------------------------------------------------------------------------
(* The reading at the end, which may be sent again until completion. *)

NotBelowStart(b, km) == \A start \in {trips[b].start} \ {None} : km >= start

BeginEndReading(k, b, p, v, km, completes) ==
    /\ v \in CarsOf(b, p) /\ trips[b].status \in Ongoing /\ NotBelowStart(b, km)
    /\ Begin(k, [op |-> "endPhoto", booking |-> b, driver |-> p, car |-> v, km |-> km,
                 completes |-> completes, photo |-> None, moves |-> FALSE, replaced |-> None])
    /\ UNCHANGED <<drivers, cars, stored, shots, presenceVars, tripVars>>

(* recordOdometer's transaction: what it reads. *)
Refused(b, v, km) ==
    \/ trips[b].status \notin Ongoing \/ ~NotBelowStart(b, km)
    \/ v \in Fleet /\ trips[b].end = None /\ km < cars[v].odometer

(* Forward, or back from the trip's own earlier figure. *)
MovesOdometer(b, v, km) ==
    v \in Fleet /\ (km > cars[v].odometer \/ (trips[b].end # None /\ cars[v].odometer = trips[b].end))

ReadEnd(k) ==
    LET c == calls[k]  b == c.booking
    IN  /\ c.op = "end"
        /\ IF Refused(b, c.car, c.km) THEN Leave(k) /\ Destroy({c.photo})
           ELSE /\ Continue(k, [c EXCEPT !.op = "ended", !.moves = MovesOdometer(b, c.car, c.km),
                                         !.replaced = trips[b].endPhoto])
                /\ UNCHANGED stored
        /\ UNCHANGED <<drivers, cars, shots, presenceVars, tripVars>>

(* And what it writes: the car, then the booking by id alone. *)
RecordOdometer(k) ==
    LET c == calls[k]  b == c.booking
    IN  /\ c.op = "ended"
        /\ Write(b, [trips[b] EXCEPT !.end = c.km, !.endPhoto = c.photo])
        /\ IF c.moves /\ c.car \in Fleet THEN SetOdometer(c.car, c.km) ELSE UNCHANGED cars
        /\ Continue(k, [c EXCEPT !.op = "clean"])
        /\ UNCHANGED <<drivers, stored, shots, presenceVars, former, stops>>

(* The transaction fails and is rolled back. *)
RollBack(k) ==
    /\ calls[k].op \in {"started", "ended"}
    /\ Leave(k) /\ Destroy({calls[k].photo})
    /\ UNCHANGED <<drivers, cars, shots, presenceVars, tripVars>>

(* The photograph it replaces goes after the commit: the one its           *)
(* transaction read, where the mutant looks at the row again.              *)
SupersededNow(k) == Replaced(trips[calls[k].booking].endPhoto)
Superseded(k) == Replaced(calls[k].replaced)

CleanUp(k) ==
    LET c == calls[k]
    IN  /\ c.op = "clean"
        /\ Destroy(Superseded(k))
        /\ IF c.completes THEN Continue(k, [op |-> "finish", booking |-> c.booking, driver |-> c.driver])
           ELSE Leave(k)
        /\ UNCHANGED <<drivers, cars, shots, presenceVars, tripVars>>

(* completeTrip, as far as the reading it asks of a driver; the money is   *)
(* Billing's.  The reading is looked at, and the status later.             *)
BeginFinish(k, b, p) ==
    /\ CarsOf(b, p) # {}
    /\ Begin(k, [op |-> "finish", booking |-> b, driver |-> p])
    /\ UNCHANGED <<drivers, cars, stored, shots, presenceVars, tripVars>>

HasEndReading(b) == trips[b].end # None /\ trips[b].endPhoto # None

(* Cash taken at the drop stands, and completes the trip on the same call  *)
(* once the reading is there.                                              *)
CollectCash(k, b, p) ==
    /\ CarsOf(b, p) # {} /\ trips[b].status = "ARRIVED" /\ HasEndReading(b)
    /\ Begin(k, [op |-> "finish", booking |-> b, driver |-> p])
    /\ UNCHANGED <<drivers, cars, stored, shots, presenceVars, tripVars>>

CheckFinish(k) ==
    /\ calls[k].op = "finish"
    /\ IF HasEndReading(calls[k].booking)
       THEN Continue(k, [calls[k] EXCEPT !.op = "complete"]) ELSE Leave(k)
    /\ UNCHANGED <<drivers, cars, stored, shots, presenceVars, tripVars>>

CompleteTrip(k) ==
    LET b == calls[k].booking
    IN  /\ calls[k].op = "complete"
        /\ IF trips[b].status = "ARRIVED"
           THEN Write(b, [trips[b] EXCEPT !.status = "COMPLETED", !.endedBy = calls[k].driver])
           ELSE UNCHANGED trips
        /\ Leave(k) /\ UNCHANGED <<drivers, cars, stored, shots, presenceVars, former, stops>>

CompleteByStaff(b) == Move(b, {"ARRIVED"}, "COMPLETED")

-----------------------------------------------------------------------------
(* Stops: the trip and the record are read, and the record is written.     *)

Trackable(b, p) == trips[b].status = "ONGOING" /\ trips[b].driver = p
Reached(b, i) == stops[b][i] # None /\ stops[b][i].reached # None

BeginArrive(k, b, p, i) ==
    /\ Trackable(b, p) /\ ~Reached(b, i)
    /\ Begin(k, [op |-> "reach", booking |-> b, stop |-> i, time |-> made])
    /\ UNCHANGED <<drivers, cars, stored, shots, presenceVars, tripVars>>

Arrive(k) ==
    LET c == calls[k]  row == stops[c.booking][c.stop]
    IN  /\ c.op = "reach"
        /\ stops' = [stops EXCEPT ![c.booking][c.stop] =
                        [reached |-> c.time, left |-> row # None /\ row.left]]
        /\ Leave(k) /\ UNCHANGED <<drivers, cars, stored, shots, presenceVars, trips, former>>

BeginDepart(k, b, p, i) ==
    /\ Trackable(b, p) /\ Reached(b, i) /\ ~stops[b][i].left
    /\ Begin(k, [op |-> "leave", booking |-> b, stop |-> i])
    /\ UNCHANGED <<drivers, cars, stored, shots, presenceVars, tripVars>>

Depart(k) ==
    LET c == calls[k]
    IN  /\ c.op = "leave"
        /\ stops' = [stops EXCEPT ![c.booking][c.stop].left = TRUE]
        /\ Leave(k) /\ UNCHANGED <<drivers, cars, stored, shots, presenceVars, trips, former>>

(* The process stops in the middle of a request. *)
Crash(k) ==
    /\ calls[k] # NoRequest /\ Leave(k)
    /\ UNCHANGED <<drivers, cars, stored, shots, presenceVars, tripVars>>

-----------------------------------------------------------------------------
TripsInit ==
    /\ \E o \in Opening : drivers = o.drivers /\ cars = o.cars /\ trips = o.trips
                          /\ shots = o.shots /\ stored = 1..o.shots
    /\ position = [p \in People |-> "none"] /\ map = {} /\ cacheUp = TRUE
    /\ sweep = NoSweep /\ calls = [k \in Callers |-> NoRequest] /\ made = 0
    /\ former = [b \in Bookings |-> {}]
    /\ stops = [b \in Bookings |-> [i \in Stops |-> None]]

TripRequests(b) ==
    \/ MarkEnRoute(b) \/ MarkReached(b) \/ MarkArrived(b) \/ StartByStaff(b) \/ CompleteByStaff(b)
    \/ \E p \in People : PingAtDrop(p, b) \/ \E v \in Cars : Reassign(b, p, v)
    \/ \E k \in Callers, p \in People :
          \/ \E v \in Cars, km \in Readings :
                \/ BeginStart(k, b, p, v, km)
                \/ \E completes \in BOOLEAN : BeginEndReading(k, b, p, v, km, completes)
          \/ BeginFinish(k, b, p) \/ CollectCash(k, b, p)
          \/ \E i \in Stops : BeginArrive(k, b, p, i) \/ BeginDepart(k, b, p, i)

Progress(k) ==
    \/ \E right \in BOOLEAN : ReadCode(k, right)
    \/ WrongCode(k) \/ RightCode(k) \/ StorePhoto(k) \/ ReadStart(k) \/ StartTrip(k)
    \/ ReadEnd(k) \/ RecordOdometer(k) \/ RollBack(k) \/ CleanUp(k) \/ CheckFinish(k)
    \/ CompleteTrip(k) \/ Arrive(k) \/ Depart(k) \/ Crash(k)

TripsNext ==
    \/ \E b \in Bookings : TripRequests(b)
    \/ \E k \in Callers : Progress(k)
    \/ (\E v \in Cars : HardDelete(v, Dispatched(v))) /\ UNCHANGED tripVars
    \/ (\E k \in Callers, p \in People : BeginRelease(k, p, HoldsTrip(p))) /\ UNCHANGED tripVars
    \/ DriverSteps /\ UNCHANGED tripVars

(* The timer fires and its worker goes on. *)
TripsSpec == TripsInit /\ [][TripsNext]_roadVars /\ WF_roadVars(Sweep /\ UNCHANGED tripVars)

-----------------------------------------------------------------------------
(* The tables and the requests have their types. *)
TripsTypeOK ==
    /\ DriverTypeOK /\ calls \in [Callers -> TripCall]
    /\ trips \in [Bookings -> TripRow] /\ \A b \in Bookings : Photos(trips[b]) \subseteq 1..shots
    /\ stops \in [Bookings -> [Stops -> StopRow \cup {None}]]
    /\ former \in [Bookings -> SUBSET EndedAllocation]

(* A photograph a booking names is in storage, though readings are sent    *)
(* again side by side, transactions fail and processes stop: an image is   *)
(* destroyed only after the write that replaced it, or when its own write  *)
(* did not happen (driverBooking.controller; recordOdometer, "Deleting it  *)
(* inside the transaction would lose it").                                 *)
PhotosKept ==
    \A b \in Bookings : Photos(trips[b]) \subseteq stored

(* The kilometres of a trip are never negative, however often its reading  *)
(* is corrected, and a trip a driver completed has a reading with its      *)
(* photograph (trip.recordOdometer, lifecycle.completeTrip).               *)
ReadingsOrdered ==
    \A b \in Bookings :
        /\ trips[b].start # None /\ trips[b].end # None => trips[b].end >= trips[b].start
        /\ trips[b].endedBy # None => HasEndReading(b)

(* What a trip is charged on is kept: readings in order, and photographs   *)
(* that can be looked at.                                                  *)
EvidenceKept == TripsTypeOK /\ PhotosKept /\ ReadingsOrdered

(* A driver starts a trip by its code only, and wrong codes, tried side by *)
(* side, pass the limit by no more than the requests under way (tripOtp.   *)
(* verify, MAX_ATTEMPTS).                                                  *)
StartedByCode ==
    \A b \in Bookings :
        /\ trips[b].startedBy # None => trips[b].coded /\ trips[b].verified
        /\ trips[b].attempts < MaxWrong + Cardinality(Callers)

(* "MAX_ATTEMPTS locks it after five wrong tries" (tripOtp.service.js).    *)
(* Refuted by this model: a guess that passed the check is still counted   *)
(* after the code has locked.                                              *)
LockedAfterTries == \A b \in Bookings : trips[b].attempts <= MaxWrong

=============================================================================
