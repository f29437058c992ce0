---------------------------- MODULE MCJobDelivery ----------------------------
(* An instance of JobDelivery and Notices for TLC.                         *)
EXTENDS Notices, TLC

CONSTANTS j1, j2, k1, w1, w2, b1, rider, other, t1, t2, p1, p2

(* A reminder the sweeper has queued twice. *)
Twice == j1 :> k1 @@ j2 :> k1

Riders == b1 :> rider

QueueRests == queue = [j \in Jobs |-> "none"]

NoticesRest == rides = [b \in Bookings |-> "NONE"]

DevicesRest == registered = 0

(* A notice meets the devices only when it reads them. *)
OneDevice == registered = 1 /\ \A p \in Taps : taps[p] = NoTap

(* The queue's handling of two jobs of one key, the notices, and the        *)
(* registrations of devices share no state but this: each is explored with  *)
(* the others at rest.                                                      *)
Apart ==
    \/ QueueRests /\ (NoticesRest \/ DevicesRest \/ OneDevice)
    \/ NoticesRest /\ DevicesRest
=============================================================================
