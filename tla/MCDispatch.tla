----------------------------- MODULE MCDispatch -----------------------------
(* Instances of Dispatch for TLC.                                          *)
EXTENDS Dispatch, TLC

CONSTANTS b1, b2, v1, v2, d1, a1, a2, a3, r1, r2, sedan, suv

(* Request slots and row ids are interchangeable. *)
Slots == Permutations({r1, r2}) \cup Permutations({a1, a2, a3})

SlotsAndCars == Slots \cup Permutations({v1, v2})

Maintenance == {<<"MAINTENANCE", TRUE>>}

OneClass == v1 :> sedan @@ v2 :> sedan
TwoClasses == v1 :> sedan @@ v2 :> suv

Made(type, pickup, return, duration, rental) ==
    [type |-> type, pickup |-> pickup, return |-> return, duration |-> duration, rental |-> rental]

(* In hours.  A nine-hour round trip whose driving time is two hours, and  *)
(* a ride that starts before its return.                                   *)
TwoTrips == b1 :> { Made("ROUND_TRIP", 0, 9, 2, 0) } @@ b2 :> { Made("ONE_WAY", 7, 0, 2, 0) }

OneRide == b1 :> { Made("ONE_WAY", 0, 0, 2, 0) }

(* Two rides the same car can serve one after the other. *)
BackToBack == b1 :> { Made("ONE_WAY", 0, 0, 2, 0) } @@ b2 :> { Made("ONE_WAY", 3, 0, 2, 0) }

(* A car sold for eight hours, and a ride that starts during them. *)
HourlyAndOneWay == b1 :> { Made("HOURLY", 0, 0, 0, 8) } @@ b2 :> { Made("ONE_WAY", 4, 0, 2, 0) }
=============================================================================
