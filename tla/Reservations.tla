---------------------------- MODULE Reservations ----------------------------
(***************************************************************************)
(* What the allocations table promises: a calendar of reservations, each   *)
(* for a booking, with a car, perhaps a driver, and a window.  A           *)
(* reservation is entered only when it clashes with no other, and one step *)
(* enters, drops or exchanges one of them.                                 *)
(***************************************************************************)
EXTENDS Integers

CONSTANTS None

VARIABLE held        \* the reservations in force

Clash(p, q) ==
    \/ p.booking = q.booking
    \/ /\ \/ p.vehicle = q.vehicle
          \/ p.driver # None /\ p.driver = q.driver
       /\ p.window.from < q.window.to
       /\ q.window.from < p.window.to

Admits(others, p) == \A q \in others : ~Clash(q, p)

Init == held = {}

Enter == \E p \in held' \ held : held' = held \cup {p} /\ Admits(held, p)

Drop == \E p \in held : held' = held \ {p}

Exchange == \E p \in held : \E q \in held' :
                /\ held' = (held \ {p}) \cup {q}
                /\ Admits(held \ {p}, q)

Next == Enter \/ Drop \/ Exchange

Spec == Init /\ [][Next]_held

-----------------------------------------------------------------------------
(* No two reservations in force clash. *)
Consistent == \A p, q \in held : p # q => ~Clash(p, q)
=============================================================================
