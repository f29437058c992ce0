------------------------------ MODULE MCTrips ------------------------------
(* Instances of Trips for TLC: a trip about to start with a driver and his *)
(* car, a trip under way whose first driver was replaced, a driver who     *)
(* signs up, and nobody at all.                                            *)
EXTENDS Trips

CONSTANTS ali, bob, v1, b1, k1, k2

Ali == [NewDriver EXCEPT !.car = v1, !.kyc = "VERIFIED"]
Hired == [NewDriver EXCEPT !.online = TRUE, !.temporary = TRUE]
OwnCar == [NewCar EXCEPT !.odometer = 5]
Vacant == Trip("COMPLETED", None, None, TRUE)
Underway == [Trip("ONGOING", ali, v1, TRUE) EXCEPT !.verified = TRUE, !.start = 5, !.startPhoto = 1,
                                                   !.startedBy = ali]
Measured == [Underway EXCEPT !.status = "ARRIVED", !.end = 9, !.endPhoto = 2]

Scene(first, second, car, trip, images) ==
    [drivers |-> ali :> first @@ bob :> second, cars |-> v1 :> car, trips |-> b1 :> trip,
     shots |-> images]
OpeningTable ==
    {Scene(Ali, None, OwnCar, Trip("REACHED", ali, v1, TRUE), 0),
     Scene(Ali, Hired, OwnCar, Trip("ALLOCATED", ali, v1, FALSE), 0),
     Scene(Ali, None, OwnCar, Underway, 1),
     Scene(Ali, None, [OwnCar EXCEPT !.odometer = 9], Measured, 2),
     Scene([NewDriver EXCEPT !.car = v1], None, [OwnCar EXCEPT !.active = FALSE, !.status = "INACTIVE"],
           Vacant, 0),
     Scene(None, None, None, Vacant, 0)}
=============================================================================
