------------------------------ MODULE Drivers ------------------------------
(* Who drives, in what, and where: the accounts staff make                 *)
(* (driver.service), those drivers make for themselves with their papers   *)
(* and their own car (driverSelf.service), the ones hired for a day        *)
(* (temporaryDriver.service), and their presence (location.service): a     *)
(* flag in the database, a position with a time to live and a place on the *)
(* map in Redis, and the sweep that brings the flag up to date.            *)
EXTENDS Naturals, FiniteSets, TLC

CONSTANTS
    None,
    People,         \* those who may drive, each with a telephone number
    Cars,           \* registration numbers
    DriverDocs, CarDocs,    \* the papers a driver and a car must have
    Verdicts,       \* the statuses staff give to a driver's papers
    Callers,        \* requests under way at one time
    Opening,        \* the drivers, cars and trips there are to start with
    MaxEffort       \* bound: requests made

VARIABLES
    drivers,        \* drivers[p]: None, or the user and driver rows of p
    cars,           \* cars[v]: None, or the row of v
    stored,         \* the images in storage
    shots,          \* images uploaded so far
    position,       \* position[p]: the time stamp of p's hash in Redis
    map,            \* the members of Redis's geographical set
    cacheUp,
    sweep,          \* the sweep under way
    calls,          \* calls[k]: a request between its reads and its writes
    made            \* requests made
driverVars == <<drivers, cars, stored, shots, position, map, cacheUp, sweep, calls, made>>
presenceVars == <<position, map, cacheUp, sweep>>

Stamps == {"none", "old", "fresh"}      \* fresh: within the heartbeat
Editable == {"PENDING", "REJECTED"}
KycStatuses == Editable \cup {"VERIFIED", "SUSPENDED"}
VehicleStatuses == {"AVAILABLE", "ASSIGNED", "ON_TRIP", "MAINTENANCE", "INACTIVE"}

NoPapers(types) == [t \in types |-> None]
NewDriver == [active |-> TRUE, temporary |-> FALSE, car |-> None, online |-> FALSE,
              pinged |-> "none", kyc |-> "PENDING", papers |-> NoPapers(DriverDocs)]
(* The rows of a driver and of a car; papers are the images on file.       *)
DriverRow == [active : BOOLEAN, temporary : BOOLEAN, car : Cars \cup {None}, online : BOOLEAN,
              pinged : Stamps, kyc : KycStatuses, papers : [DriverDocs -> Nat \cup {None}]]
NewCar == [status |-> "AVAILABLE", active |-> TRUE, odometer |-> 0, papers |-> NoPapers(CarDocs)]
CarRow == [status : VehicleStatuses, active : BOOLEAN, odometer : Nat,
           papers : [CarDocs -> Nat \cup {None}]]

Driver == {p \in People : drivers[p] # None}
Fleet == {v \in Cars : cars[v] # None}

NoRequest == [op |-> "idle"]
NoSweep == [at |-> "rest", stale |-> {}]
DriverPapers == [DriverDocs -> Nat \cup {None}]
CarPapers == [CarDocs -> Nat \cup {None}]
DriverCall == {NoRequest}
    \cup [op : {"paper"}, person : People, type : DriverDocs, image : Nat, papers : DriverPapers]
    \cup [op : {"carPaper"}, car : Cars, type : CarDocs, image : Nat, papers : CarPapers]
    \cup [op : {"submit"}, person : People, papers : DriverPapers]
    \cup [op : {"hire"}, person : People, car : Cars, retired : BOOLEAN]
    \cup [op : {"rehire"}, person : People, car : Cars, had : Cars \cup {None}]
    \cup [op : {"assign"}, person : People, car : Cars]
    \cup [op : {"release"}, person : People, car : Cars \cup {None}]
    \cup [op : {"offline"}, person : People]

Effort == made < MaxEffort /\ made' = made + 1
Begin(k, call) == calls[k] = NoRequest /\ Effort /\ calls' = [calls EXCEPT ![k] = call]
Continue(k, call) == calls' = [calls EXCEPT ![k] = call] /\ UNCHANGED made
Leave(k) == Continue(k, NoRequest)
At_Once == Effort /\ UNCHANGED calls
SetDriver(p, row) == drivers' = [drivers EXCEPT ![p] = row]
SetCar(v, row) == cars' = [cars EXCEPT ![v] = row]

-----------------------------------------------------------------------------
(* Accounts made by staff. *)

Create(p, v, kyc) ==
    /\ drivers[p] = None /\ v \in Fleet \cup {None}
    /\ SetDriver(p, [NewDriver EXCEPT !.car = v, !.kyc = kyc])
    /\ At_Once /\ UNCHANGED <<cars, stored, shots, presenceVars>>

(* Whatever a form names is written. *)
Update(p, v, kyc) ==
    /\ p \in Driver /\ v \in Fleet \cup {None}
    /\ SetDriver(p, [drivers[p] EXCEPT !.car = v, !.kyc = kyc])
    /\ At_Once /\ UNCHANGED <<cars, stored, shots, presenceVars>>

SetActive(p, on) ==
    /\ p \in Driver
    /\ SetDriver(p, [drivers[p] EXCEPT !.active = on, !.online = @ /\ on])
    /\ At_Once /\ UNCHANGED <<cars, stored, shots, presenceVars>>

(* The vehicle form; drivers of a car that is deleted lose it. *)
UpdateCar(v, active, status) ==
    /\ v \in Fleet
    /\ SetCar(v, [cars[v] EXCEPT !.active = active, !.status = status])
    /\ At_Once /\ UNCHANGED <<drivers, stored, shots, presenceVars>>

Unlinked(v) ==
    [p \in People |-> IF drivers[p] # None /\ drivers[p].car = v
                      THEN [drivers[p] EXCEPT !.car = None] ELSE drivers[p]]

HardDelete(v, dispatched) ==
    /\ v \in Fleet /\ cars[v].status \notin {"ASSIGNED", "ON_TRIP"} /\ ~dispatched
    /\ cars' = [cars EXCEPT ![v] = None] /\ drivers' = Unlinked(v)
    /\ At_Once /\ UNCHANGED <<stored, shots, presenceVars>>

-----------------------------------------------------------------------------
(* Drivers who sign up. *)

Register(p) ==
    /\ drivers[p] = None
    /\ SetDriver(p, NewDriver)
    /\ At_Once /\ UNCHANGED <<cars, stored, shots, presenceVars>>

(* A car of one's own waits for staff. *)
RegisterOwnVehicle(p, v) ==
    /\ p \in Driver /\ cars[v] = None
    /\ SetCar(v, [NewCar EXCEPT !.status = "INACTIVE", !.active = FALSE])
    /\ SetDriver(p, [drivers[p] EXCEPT !.car = v])
    /\ At_Once /\ UNCHANGED <<stored, shots, presenceVars>>

(* A paper is uploaded, then all the papers as they were read, with it     *)
(* among them, are written; the image it replaces is then destroyed, if    *)
(* storage answers.                                                        *)
Upload == shots' = shots + 1 /\ stored' = stored \cup {shots + 1}
Replaced(image) == IF image = None THEN {} ELSE {image}
Destroy(images) == stored' = stored \ images \/ stored' = stored

BeginDriverDocument(k, p, t) ==
    /\ p \in Driver /\ drivers[p].kyc \in Editable
    /\ Begin(k, [op |-> "paper", person |-> p, type |-> t, image |-> shots + 1,
                 papers |-> drivers[p].papers])
    /\ Upload /\ UNCHANGED <<drivers, cars, presenceVars>>

SaveDriverDocument(k) ==
    LET c == calls[k]
    IN  /\ c.op = "paper"
        /\ SetDriver(c.person, [drivers[c.person] EXCEPT !.papers =
                                    [c.papers EXCEPT ![c.type] = c.image]])
        /\ Destroy(Replaced(c.papers[c.type]))
        /\ Leave(k) /\ UNCHANGED <<cars, shots, presenceVars>>

BeginCarDocument(k, p, t) ==
    LET v == drivers[p].car
    IN  /\ p \in Driver /\ v \in Fleet /\ ~cars[v].active
        /\ Begin(k, [op |-> "carPaper", car |-> v, type |-> t, image |-> shots + 1,
                     papers |-> cars[v].papers])
        /\ Upload /\ UNCHANGED <<drivers, cars, presenceVars>>

(* The car may be gone by now, and the upload is then in nobody's papers.  *)
SaveCarDocument(k) ==
    LET c == calls[k]
    IN  /\ c.op = "carPaper"
        /\ IF c.car \in Fleet
           THEN /\ SetCar(c.car, [cars[c.car] EXCEPT !.papers = [c.papers EXCEPT ![c.type] = c.image]])
                /\ Destroy(Replaced(c.papers[c.type]))
           ELSE UNCHANGED <<cars, stored>>
        /\ Leave(k) /\ UNCHANGED <<drivers, shots, presenceVars>>

(* onboardingState.canSubmit, as far as the refusals of submitForReview.   *)
Complete(p) ==
    LET v == drivers[p].car
    IN  /\ \A t \in DriverDocs : drivers[p].papers[t] # None
        /\ v \in Fleet /\ \A t \in CarDocs : cars[v].papers[t] # None

(* The status is looked at with the papers and then overwritten. *)
BeginSubmit(k, p) ==
    /\ p \in Driver /\ drivers[p].kyc \in Editable /\ Complete(p)
    /\ Begin(k, [op |-> "submit", person |-> p, papers |-> drivers[p].papers])
    /\ UNCHANGED <<drivers, cars, stored, shots, presenceVars>>

SubmitForReview(k) ==
    LET c == calls[k]
    IN  /\ c.op = "submit"
        /\ SetDriver(c.person, [drivers[c.person] EXCEPT !.kyc = "PENDING", !.papers = c.papers])
        /\ Leave(k) /\ UNCHANGED <<cars, stored, shots, presenceVars>>

-----------------------------------------------------------------------------
(* Drivers hired for a day. *)

(* A number nobody has, and a car that is not on the road: both are looked *)
(* up first.                                                               *)
BeginHire(k, p, v) ==
    /\ drivers[p] = None /\ (v \in Fleet => ~cars[v].active)
    /\ Begin(k, [op |-> "hire", person |-> p, car |-> v, retired |-> v \in Fleet])
    /\ UNCHANGED <<drivers, cars, stored, shots, presenceVars>>

(* Account, car and link in one transaction, which the table refuses when  *)
(* the number was taken, or the car made or deleted, since.                *)
Hire(k) ==
    LET c == calls[k]
    IN  /\ c.op = "hire"
        /\ IF drivers[c.person] = None /\ (c.retired <=> c.car \in Fleet)
           THEN /\ SetCar(c.car, IF c.retired
                                 THEN [cars[c.car] EXCEPT !.status = "AVAILABLE", !.active = TRUE]
                                 ELSE NewCar)
                /\ SetDriver(c.person, [NewDriver EXCEPT !.temporary = TRUE, !.car = c.car,
                                                         !.online = TRUE])
           ELSE UNCHANGED <<drivers, cars>>
        /\ Leave(k) /\ UNCHANGED <<stored, shots, presenceVars>>

(* A number a driver has: he is woken first, and then given the car.       *)
BeginRehire(k, p, v) ==
    /\ p \in Driver
    /\ Begin(k, [op |-> "rehire", person |-> p, car |-> v, had |-> drivers[p].car])
    /\ SetDriver(p, [drivers[p] EXCEPT !.active = TRUE])
    /\ UNCHANGED <<cars, stored, shots, presenceVars>>

(* His own car is not looked at. *)
Rehire(k) ==
    LET c == calls[k]
    IN  /\ c.op = "rehire" /\ c.had = c.car
        /\ SetDriver(c.person, [drivers[c.person] EXCEPT !.online = TRUE])
        /\ Leave(k) /\ UNCHANGED <<cars, stored, shots, presenceVars>>

(* A car that must be made or woken is written a status the table does not *)
(* have, and the request ends there.                                       *)
FindCar(k) ==
    LET c == calls[k]
    IN  /\ c.op = "rehire" /\ c.had # c.car
        /\ IF c.car \in Fleet /\ cars[c.car].active
           THEN Continue(k, [op |-> "assign", person |-> c.person, car |-> c.car])
           ELSE Leave(k)
        /\ UNCHANGED <<drivers, cars, stored, shots, presenceVars>>

(* Refused by the table when the car is gone. *)
Assign(k) ==
    LET c == calls[k]
    IN  /\ c.op = "assign"
        /\ IF c.car \in Fleet
           THEN SetDriver(c.person, [drivers[c.person] EXCEPT !.car = c.car, !.online = TRUE])
           ELSE UNCHANGED drivers
        /\ Leave(k) /\ UNCHANGED <<cars, stored, shots, presenceVars>>

(* The live trips are counted before the transaction. *)
BeginRelease(k, p, live) ==
    /\ p \in Driver /\ drivers[p].temporary /\ ~live
    /\ Begin(k, [op |-> "release", person |-> p, car |-> drivers[p].car])
    /\ UNCHANGED <<drivers, cars, stored, shots, presenceVars>>

Release(k) ==
    LET c == calls[k]
    IN  /\ c.op = "release"
        /\ IF c.car = None \/ c.car \in Fleet
           THEN /\ SetDriver(c.person, [drivers[c.person] EXCEPT !.online = FALSE, !.active = FALSE])
                /\ IF c.car = None THEN UNCHANGED cars
                   ELSE SetCar(c.car, [cars[c.car] EXCEPT !.active = FALSE, !.status = "INACTIVE"])
           ELSE UNCHANGED <<drivers, cars>>
        /\ Leave(k) /\ UNCHANGED <<stored, shots, presenceVars>>

-----------------------------------------------------------------------------
(* Presence. *)

MarkOnline(p) ==
    /\ p \in Driver
    /\ SetDriver(p, [drivers[p] EXCEPT !.online = TRUE, !.pinged = "fresh"])
    /\ At_Once /\ UNCHANGED <<cars, stored, shots, presenceVars>>

BeginOffline(k, p) ==
    /\ p \in Driver
    /\ SetDriver(p, [drivers[p] EXCEPT !.online = FALSE])
    /\ Begin(k, [op |-> "offline", person |-> p])
    /\ UNCHANGED <<cars, stored, shots, presenceVars>>

Forget(people) ==
    IF cacheUp THEN /\ map' = map \ people
                    /\ position' = [p \in People |-> IF p \in people THEN "none" ELSE position[p]]
    ELSE UNCHANGED <<map, position>>

MarkOffline(k) ==
    /\ calls[k].op = "offline"
    /\ Forget({calls[k].person})
    /\ Leave(k) /\ UNCHANGED <<drivers, cars, stored, shots, cacheUp, sweep>>

(* A ping, once it is found plausible, touches Redis alone, and nothing    *)
(* asks whether its driver is online.                                      *)
IngestPing(p) ==
    /\ p \in Driver /\ cacheUp
    /\ position' = [position EXCEPT ![p] = "fresh"] /\ map' = map \cup {p}
    /\ At_Once /\ UNCHANGED <<drivers, cars, stored, shots, cacheUp, sweep>>

(* A heartbeat passes without a ping; a hash outlives its time. *)
HeartbeatPasses ==
    /\ position' = [p \in People |-> IF position[p] = "fresh" THEN "old" ELSE position[p]]
    /\ drivers' = [p \in People |-> IF drivers[p] # None /\ drivers[p].pinged = "fresh"
                                    THEN [drivers[p] EXCEPT !.pinged = "old"] ELSE drivers[p]]
    /\ UNCHANGED <<cars, stored, shots, map, cacheUp, sweep, calls, made>>

Evict(p) ==
    /\ position[p] = "old" /\ position' = [position EXCEPT ![p] = "none"]
    /\ UNCHANGED <<drivers, cars, stored, shots, map, cacheUp, sweep, calls, made>>

CacheFails == cacheUp /\ cacheUp' = FALSE /\ Effort
              /\ UNCHANGED <<drivers, cars, stored, shots, position, map, sweep, calls>>
CacheReturns == ~cacheUp /\ cacheUp' = TRUE
                /\ UNCHANGED <<drivers, cars, stored, shots, position, map, sweep, calls, made>>

(* sweepStaleDrivers: who is flagged online; whose last sign of life, in   *)
(* either place, is past the heartbeat; then both places are cleared.      *)
SweepList ==
    /\ sweep.at = "rest" /\ \E p \in Driver : drivers[p].online
    /\ sweep' = [at |-> "judge", stale |-> {p \in Driver : drivers[p].online
                                                        /\ drivers[p].pinged # "fresh"}]
    /\ UNCHANGED <<drivers, cars, stored, shots, position, map, cacheUp, calls, made>>

(* The mutant trusts the hash only: no hash, no verdict. *)
StaleByHash(people) == {p \in people : cacheUp /\ position[p] = "old"}
Stale(people) == {p \in people : cacheUp => position[p] # "fresh"}

SweepJudge ==
    /\ sweep.at = "judge"
    /\ sweep' = IF Stale(sweep.stale) = {} THEN NoSweep
                ELSE [at |-> "write", stale |-> Stale(sweep.stale)]
    /\ UNCHANGED <<drivers, cars, stored, shots, position, map, cacheUp, calls, made>>

SweepWrite ==
    /\ sweep.at = "write"
    /\ drivers' = [p \in People |-> IF p \in sweep.stale THEN [drivers[p] EXCEPT !.online = FALSE]
                                    ELSE drivers[p]]
    /\ sweep' = [sweep EXCEPT !.at = "clear"]
    /\ UNCHANGED <<cars, stored, shots, position, map, cacheUp, calls, made>>

SweepClear ==
    /\ sweep.at = "clear" /\ Forget(sweep.stale) /\ sweep' = NoSweep
    /\ UNCHANGED <<drivers, cars, stored, shots, cacheUp, calls, made>>

(* The worker that sweeps stops; the timer runs it again. *)
SweepStops ==
    /\ sweep # NoSweep /\ sweep' = NoSweep /\ Effort
    /\ UNCHANGED <<drivers, cars, stored, shots, position, map, cacheUp, calls>>

Sweep == SweepList \/ SweepJudge \/ SweepWrite \/ SweepClear

-----------------------------------------------------------------------------
(* Deletion and release, which ask for the trips, are steps of Trips. *)
DriverSteps ==
    \/ \E p \in People, v \in Cars \cup {None}, kyc \in Verdicts :
          Create(p, v, kyc) \/ Update(p, v, kyc)
    \/ \E p \in People : Register(p) \/ MarkOnline(p) \/ IngestPing(p) \/ Evict(p)
    \/ \E p \in People, on \in BOOLEAN : SetActive(p, on)
    \/ \E v \in Cars : UpdateCar(v, TRUE, "AVAILABLE") \/ UpdateCar(v, FALSE, "INACTIVE")
    \/ \E p \in People, v \in Cars : RegisterOwnVehicle(p, v)
    \/ \E k \in Callers, p \in People :
          \/ \E t \in DriverDocs : BeginDriverDocument(k, p, t)
          \/ \E t \in CarDocs : BeginCarDocument(k, p, t)
          \/ BeginSubmit(k, p) \/ BeginOffline(k, p)
          \/ \E v \in Cars : BeginHire(k, p, v) \/ BeginRehire(k, p, v)
    \/ \E k \in Callers : \/ SaveDriverDocument(k) \/ SaveCarDocument(k) \/ SubmitForReview(k)
                          \/ Hire(k) \/ Rehire(k) \/ FindCar(k) \/ Assign(k)
                          \/ Release(k) \/ MarkOffline(k)
    \/ HeartbeatPasses \/ CacheFails \/ CacheReturns \/ Sweep \/ SweepStops

(* The rows of drivers and cars: a driver's car exists, and papers are     *)
(* images that were uploaded.                                              *)
Filled(people, fleet, images) ==
    /\ people \in [People -> DriverRow \cup {None}] /\ fleet \in [Cars -> CarRow \cup {None}]
    /\ \A p \in People : people[p] # None =>
          /\ people[p].car # None => fleet[people[p].car] # None
          /\ people[p].papers \in [DriverDocs -> 1..images \cup {None}]
    /\ \A v \in Cars : fleet[v] # None => fleet[v].papers \in [CarDocs -> 1..images \cup {None}]

DriverTypeOK ==
    /\ Filled(drivers, cars, shots) /\ {shots, made} \subseteq Nat
    /\ stored \subseteq 1..shots /\ position \in [People -> Stamps] /\ map \subseteq People
    /\ cacheUp \in BOOLEAN
    /\ sweep \in [at : {"rest", "judge", "write", "clear"}, stale : SUBSET Driver]

(* Without a sign of life since the last heartbeat. *)
Quiet(p) == position[p] # "fresh" /\ drivers[p].pinged # "fresh"

(* A driver who falls quiet is not shown as online for ever: he gives a    *)
(* sign again or the sweep takes the flag from him, with Redis up or down, *)
(* its hashes expired or not, and its worker stopped on the way (location. *)
(* sweepStaleDrivers, "so the drivers table does not keep claiming they    *)
(* are online").                                                           *)
QuietGoOffline ==
    \A p \in People : (p \in Driver /\ drivers[p].online /\ Quiet(p))
                      ~> (p \in Driver => ~drivers[p].online \/ ~Quiet(p))
=============================================================================
