----------------------------- MODULE HoldWindow -----------------------------
(***************************************************************************)
(* The window for which a vehicle and a driver are held for a booking:     *)
(* models/allocation.model.js, computeHoldWindow.  Instants and durations  *)
(* are integers in one unit (the code's milliseconds).                     *)
(***************************************************************************)
EXTENDS Integers

CONSTANTS
    HoldBuffer,      \* env.dispatch.holdBufferMinutes
    DefaultTrip      \* env.dispatch.defaultTripMinutes

ASSUME HoldParametersAssumption ==
    /\ HoldBuffer \in Nat
    /\ DefaultTrip \in Nat \ {0}

TripTypes == {"ONE_WAY", "ROUND_TRIP", "AIRPORT", "HOURLY"}

(* A booking as the quote leaves it.  return is meaningful for a round     *)
(* trip only (chk_booking_round_trip_return makes it later than pickup);   *)
(* rental is the length sold with an HOURLY booking, whose route lookup is *)
(* skipped, so its duration is 0.                                          *)
Trips == { t \in [type : TripTypes, pickup : Nat, return : Nat,
                  duration : Nat, rental : Nat] :
             /\ t.type = "ROUND_TRIP" => t.return > t.pickup
             /\ t.type = "HOURLY" => t.duration = 0 }

Windows == [from : Nat, to : Nat]

(* Number(durationMinutes) > 0 ? durationMinutes : defaultTripMinutes *)
TripLength(t) == IF t.duration > 0 THEN t.duration ELSE DefaultTrip

(* Fault: a round trip held for its driving time instead of to its return. *)
UnclampedEndByDriving(t) == t.pickup + TripLength(t) + HoldBuffer

UnclampedEnd(t) ==
    IF t.type = "ROUND_TRIP" THEN t.return + HoldBuffer
                             ELSE t.pickup + TripLength(t) + HoldBuffer

HoldWindow(t) ==
    [from |-> t.pickup,
     to   |-> IF UnclampedEnd(t) <= t.pickup THEN t.pickup + DefaultTrip
                                             ELSE UnclampedEnd(t)]

(* tsrange(starts_at, ends_at, '[)') && tsrange(...) *)
Overlap(w, x) == w.from < x.to /\ x.from < w.to

-----------------------------------------------------------------------------
(* What the window is for: the ride itself, from the pickup to the instant *)
(* the passenger is done with the car (the return of a round trip, the end *)
(* of the rented hours, the end of the drive).                             *)
Ride(t) ==
    [from |-> t.pickup,
     to   |-> IF t.type = "ROUND_TRIP" THEN t.return
              ELSE t.pickup + IF t.type = "HOURLY" THEN t.rental ELSE TripLength(t)]
=============================================================================
