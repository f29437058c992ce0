-------------------------- MODULE MCBookingCreation --------------------------
(* Instances of BookingCreation for TLC.                                   *)
EXTENDS BookingCreation, TLC

CONSTANTS k1, k2, plain, coded, other, r1, r2, r3, ann, bob

Slots == Permutations({r1, r2, r3})

Riders == plain :> ann @@ coded :> ann @@ other :> bob

(* A client that retries, and one that uses its key for another body. *)
OneKey == { <<k1, coded>>, <<k1, plain>> }

(* Two riders, one code. *)
TwoRiders == { <<k1, coded>>, <<k2, other>> }
=============================================================================
