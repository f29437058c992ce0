-------------------------- MODULE BookingLifecycle --------------------------
(***************************************************************************)
(* What the lifecycle promises of a booking, whatever handlers race for    *)
(* it: it goes forward only, it is called off only before the customer is  *)
(* aboard, its end is final, and the class of vehicle it was agreed for is *)
(* settled once the car is moving (lifecycle.service, "forward-only";      *)
(* bookingVehicle.service, "status past ALLOCATED ... is a cancel-and-     *)
(* rebook, not an edit").                                                  *)
(***************************************************************************)
CONSTANTS Bookings, Classes, None

VARIABLES
    phase,           \* of each booking: None, open, moving, aboard, done, void
    agreed           \* class of vehicle of each booking

Phases == {None, "open", "moving", "aboard", "done", "void"}

Init ==
    /\ phase = [b \in Bookings |-> None]
    /\ agreed = [b \in Bookings |-> None]

Book(b, c) ==
    /\ phase[b] = None
    /\ phase' = [phase EXCEPT ![b] = "open"]
    /\ agreed' = [agreed EXCEPT ![b] = c]

ChangeClass(b, c) ==
    /\ phase[b] = "open"
    /\ agreed' = [agreed EXCEPT ![b] = c]
    /\ UNCHANGED phase

Follows(p, q) == <<p, q>> \in {<<"open", "moving">>, <<"moving", "aboard">>,
                               <<"aboard", "done">>, <<"open", "void">>,
                               <<"moving", "void">>}

Go(b, q) ==
    /\ Follows(phase[b], q)
    /\ phase' = [phase EXCEPT ![b] = q]
    /\ UNCHANGED agreed

Next ==
    \E b \in Bookings :
        \/ \E c \in Classes : Book(b, c) \/ ChangeClass(b, c)
        \/ \E q \in Phases : Go(b, q)

Spec == Init /\ [][Next]_<<phase, agreed>>
=============================================================================
