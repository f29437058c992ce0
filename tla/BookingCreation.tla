--------------------------- MODULE BookingCreation ---------------------------
(***************************************************************************)
(* POST /bookings: the idempotency gate before it (middlewares/            *)
(* idempotency, idempotency.service), booking.service.create with the      *)
(* promo code it redeems (discount.service), and the cancellation or       *)
(* expiry that gives the use of the code back.                             *)
(*                                                                         *)
(* Each database call of the gate is a step of its own, as it is a         *)
(* statement of its own in the code; create is its pricing, which reads    *)
(* the code, and its transaction.  The key's answer is recorded after the  *)
(* response is sent.  One promo code; a request without a key is not       *)
(* gated and is left out; CANCELLED also stands for EXPIRED.               *)
(***************************************************************************)
EXTENDS Naturals, Sequences, FiniteSets

CONSTANTS
    Keys,            \* values of the Idempotency-Key header
    Bodies,          \* request bodies
    RiderOf,         \* the rider of each body
    Coded,           \* bodies that carry the promo code
    Sends,           \* <<key, body>> pairs the clients send, and send again
    MaxUses,         \* discounts.max_uses
    MaxUsesPerCustomer,
    MaxBookings,     \* bound: bookings made
    MaxLosses,       \* bound: requests whose process dies, or whose last write fails
    Requests,        \* slots for concurrent requests
    None             \* no row

(* old: the row is past STALE_MINUTES; reply: the booking in the stored    *)
(* response, 0 for none.                                                   *)
KeyRow == [body : Bodies, status : {"IN_FLIGHT", "COMPLETED", "FAILED"},
           old : BOOLEAN, reply : 0 .. MaxBookings]

ASSUME BookingCreationAssumption ==
    /\ Sends \subseteq Keys \X Bodies
    /\ Coded \subseteq Bodies
    /\ MaxUses \in Nat /\ MaxUsesPerCustomer \in Nat
    /\ MaxBookings \in Nat /\ MaxLosses \in Nat
    /\ None \notin KeyRow

VARIABLES
    row,             \* idempotency_keys
    bookings,        \* the bookings, each with the key and body that made it
    redeemed,        \* bookings with a row in discount_redemptions
    used,            \* discounts.used_count
    req,             \* the requests being handled
    retried,         \* history: keys that were claimed after a failure or as stale
    pruned,          \* history: keys whose row has expired
    losses

vars == <<row, bookings, redeemed, used, req, retried, pruned, losses>>

Made == 1 .. Len(bookings)

Idle == [at |-> "idle"]

Request == [at : {"look", "reclaim", "takeover", "price", "create", "record", "fail"},
            key : Keys, body : Bodies, booking : 0 .. MaxBookings]

TypeOK ==
    /\ row \in [Keys -> KeyRow \cup {None}]
    /\ bookings \in Seq([key : Keys, body : Bodies, status : {"OPEN", "CANCELLED"}])
    /\ Len(bookings) <= MaxBookings
    /\ redeemed \subseteq Made /\ used \in Nat
    /\ req \in [Requests -> Request \cup {Idle}]
    /\ retried \subseteq Keys /\ pruned \subseteq Keys
    /\ losses \in 0 .. MaxLosses

Init ==
    /\ row = [k \in Keys |-> None]
    /\ bookings = <<>> /\ redeemed = {} /\ used = 0
    /\ req = [r \in Requests |-> Idle]
    /\ retried = {} /\ pruned = {}
    /\ losses = 0
-----------------------------------------------------------------------------
(* Fault: looked up first; a request still in flight has stored no answer. *)
AnsweredBefore(k) == row[k] # None /\ row[k].status # "IN_FLIGHT"

(* The insert of the key violates its uniqueness.                          *)
Taken(k) == row[k] # None

(* Fault: the stored hash not compared. *)
AnyBody(k, body) == TRUE

SameRequest(k, body) == row[k].body = body

(* Fault: a crashed claimant is waited for. *)
NeverAbandoned(k) == FALSE

Abandoned(k) == row[k].old

RedemptionsBy(rider) == { b \in redeemed : RiderOf[bookings[b].body] = rider }

(* evaluate's answer about the limits.                                     *)
Applies(rider) == used < MaxUses /\ Cardinality(RedemptionsBy(rider)) < MaxUsesPerCustomer

(* The mutant does not give the use back. *)
UseKept(b) == used

UseFreed(b) == IF b \in redeemed THEN used - 1 ELSE used

At(r, stage) == req[r].at = stage

Goto(r, stage) == req' = [req EXCEPT ![r].at = stage]

End(r) == req' = [req EXCEPT ![r] = Idle]
-----------------------------------------------------------------------------
(***************************************************************************)
(* The idempotency gate.                                                   *)
(***************************************************************************)

(* claim inserts first.                                                    *)
Claim(r, k, body) ==
    /\ req[r] = Idle
    /\ req' = [req EXCEPT ![r] = [at |-> IF Taken(k) THEN "look" ELSE "price", key |-> k,
                                  body |-> body, booking |-> 0]]
    /\ row' = IF Taken(k) THEN row
              ELSE [row EXCEPT ![k] = [body |-> body, status |-> "IN_FLIGHT",
                                       old |-> FALSE, reply |-> 0]]
    /\ UNCHANGED <<bookings, redeemed, used, retried, pruned, losses>>

(* The row has gone since the insert: claimed, without a row.              *)
LookGone(r) ==
    /\ At(r, "look") /\ row[req[r].key] = None
    /\ Goto(r, "price")
    /\ UNCHANGED <<row, bookings, redeemed, used, retried, pruned, losses>>

(* A finished request is answered again.                                   *)
Replay(r) ==
    LET k == req[r].key IN
    /\ At(r, "look") /\ row[k] # None /\ SameRequest(k, req[r].body)
    /\ row[k].status = "COMPLETED"
    /\ End(r)
    /\ UNCHANGED <<row, bookings, redeemed, used, retried, pruned, losses>>

(* Another body, or one still in flight: 409.                              *)
LookRefused(r) ==
    LET k == req[r].key IN
    /\ At(r, "look") /\ row[k] # None
    /\ \/ ~SameRequest(k, req[r].body)
       \/ row[k].status = "IN_FLIGHT" /\ ~Abandoned(k)
    /\ End(r)
    /\ UNCHANGED <<row, bookings, redeemed, used, retried, pruned, losses>>

LookAgain(r) ==
    LET k == req[r].key IN
    /\ At(r, "look") /\ row[k] # None /\ SameRequest(k, req[r].body)
    /\ \/ row[k].status = "FAILED" /\ Goto(r, "reclaim")
       \/ row[k].status = "IN_FLIGHT" /\ Abandoned(k) /\ Goto(r, "takeover")
    /\ UNCHANGED <<row, bookings, redeemed, used, retried, pruned, losses>>

(* An update by key, whatever the row has become since it was read; it     *)
(* throws when the row is gone.  Only a takeover renews created_at.        *)
Reopen(r, renewed) ==
    LET k == req[r].key IN
    IF row[k] = None THEN End(r) /\ UNCHANGED <<row, retried>>
    ELSE /\ row' = [row EXCEPT ![k] = renewed]
         /\ retried' = retried \cup {k}
         /\ Goto(r, "price")

Reclaim(r) ==
    /\ At(r, "reclaim")
    /\ Reopen(r, [row[req[r].key] EXCEPT !.status = "IN_FLIGHT", !.reply = 0])
    /\ UNCHANGED <<bookings, redeemed, used, pruned, losses>>

TakeOver(r) ==
    /\ At(r, "takeover")
    /\ Reopen(r, [row[req[r].key] EXCEPT !.status = "IN_FLIGHT", !.old = FALSE])
    /\ UNCHANGED <<bookings, redeemed, used, pruned, losses>>

(* complete and fail, once the response is sent: also an update by key.    *)
Note(r, outcome) ==
    LET k == req[r].key IN
    row' = IF row[k] = None THEN row ELSE [row EXCEPT ![k] = outcome]

Complete(r) ==
    /\ At(r, "record")
    /\ Note(r, [row[req[r].key] EXCEPT !.status = "COMPLETED", !.reply = req[r].booking])
    /\ End(r)
    /\ UNCHANGED <<bookings, redeemed, used, retried, pruned, losses>>

Fail(r) ==
    /\ At(r, "fail")
    /\ Note(r, [row[req[r].key] EXCEPT !.status = "FAILED"])
    /\ End(r)
    /\ UNCHANGED <<bookings, redeemed, used, retried, pruned, losses>>

(* STALE_MINUTES pass.                                                     *)
Age(k) ==
    /\ row[k] # None /\ ~row[k].old
    /\ row' = [row EXCEPT ![k].old = TRUE]
    /\ UNCHANGED <<bookings, redeemed, used, req, retried, pruned, losses>>

(* pruneExpired, which the service exports for a scheduler (none calls it  *)
(* yet): TTL_HOURS later, when no request of the key is past its insert.   *)
Prune(k) ==
    /\ row[k] # None /\ row[k].old
    /\ \A r \in Requests : req[r] # Idle /\ req[r].key = k => At(r, "look")
    /\ row' = [row EXCEPT ![k] = None]
    /\ pruned' = pruned \cup {k}
    /\ UNCHANGED <<bookings, redeemed, used, req, retried, losses>>
-----------------------------------------------------------------------------
(***************************************************************************)
(* create                                                                  *)
(***************************************************************************)

(* Pricing; a code is evaluated against its counter and its rows.          *)
Price(r) ==
    /\ At(r, "price") /\ Goto(r, "create")
    /\ req[r].body \in Coded => Applies(RiderOf[req[r].body])
    /\ UNCHANGED <<row, bookings, redeemed, used, retried, pruned, losses>>

(* A check of create or its transaction refuses: an inapplicable code, a   *)
(* trip that cannot be priced, a database error.                           *)
Refuse(r) ==
    /\ At(r, "price") \/ At(r, "create")
    /\ Goto(r, "fail")
    /\ UNCHANGED <<row, bookings, redeemed, used, retried, pruned, losses>>

(* The transaction: the booking and the use of its code.  The commit may   *)
(* not be heard of, which is an error like any other.                      *)
Create(r) ==
    LET b == Len(bookings) + 1 IN
    /\ At(r, "create") /\ b <= MaxBookings
    /\ bookings' = Append(bookings, [key |-> req[r].key, body |-> req[r].body, status |-> "OPEN"])
    /\ IF req[r].body \in Coded THEN redeemed' = redeemed \cup {b} /\ used' = used + 1
                      ELSE UNCHANGED <<redeemed, used>>
    /\ \/ req' = [req EXCEPT ![r].at = "record", ![r].booking = b]
       \/ Goto(r, "fail")
    /\ UNCHANGED <<row, retried, pruned, losses>>

(* The process dies; or complete or fail cannot write, which is logged.    *)
Lose(r) ==
    /\ req[r] # Idle /\ losses < MaxLosses
    /\ losses' = losses + 1
    /\ End(r)
    /\ UNCHANGED <<row, bookings, redeemed, used, retried, pruned>>

(* cancellation.service cancel and lifecycle.service expire: under their   *)
(* conditional update of the status, discount.service release.             *)
Cancel(b) ==
    /\ bookings[b].status = "OPEN"
    /\ bookings' = [bookings EXCEPT ![b].status = "CANCELLED"]
    /\ used' = UseFreed(b)
    /\ redeemed' = redeemed \ {b}
    /\ UNCHANGED <<row, req, retried, pruned, losses>>
-----------------------------------------------------------------------------
Handle(r) ==
    \/ LookGone(r) \/ Replay(r) \/ LookRefused(r) \/ LookAgain(r)
    \/ Reclaim(r) \/ TakeOver(r) \/ Complete(r) \/ Fail(r)
    \/ Price(r) \/ Refuse(r) \/ Create(r)

Next ==
    \/ \E r \in Requests : Handle(r) \/ Lose(r)
    \/ \E r \in Requests, s \in Sends : Claim(r, s[1], s[2])
    \/ \E k \in Keys : Age(k) \/ Prune(k)
    \/ \E b \in Made : Cancel(b)

(* A request that is not lost goes on, time passes, and a client that got  *)
(* no booking sends its request again.                                     *)
Fairness ==
    /\ \A r \in Requests : WF_vars(Handle(r))
    /\ \A k \in Keys : WF_vars(Age(k))
    /\ \A s \in Sends : SF_vars(\E r \in Requests : Claim(r, s[1], s[2]))

Spec == Init /\ [][Next]_vars

FairSpec == Spec /\ Fairness
-----------------------------------------------------------------------------
(* A key that was never claimed again, neither after a reported failure    *)
(* nor as stale nor after its expiry, has made one booking at most,        *)
(* however many of its requests ran side by side (idempotency.service:     *)
(* "exactly one caller wins").                                             *)
DoneOnce ==
    \A b, c \in Made :
        b # c /\ bookings[b].key = bookings[c].key => bookings[b].key \in retried \cup pruned

(* A replayed answer names a booking made under its key, and for the very  *)
(* request that is answered as long as the key has not expired.            *)
ReplayTruth ==
    [][ \A r \in Requests : Replay(r) =>
            LET k == req[r].key
                b == row[k].reply
            IN  b \in Made /\ bookings[b].key = k
                          /\ (k \notin pruned => bookings[b].body = req[r].body) ]_vars

(* The counter of the code's uses is the number of bookings that hold one, *)
(* and a cancelled booking holds none, whatever is created and cancelled   *)
(* at the same time.                                                       *)
UsesCounted ==
    /\ used = Cardinality(redeemed)
    /\ \A b \in redeemed : bookings[b].status = "OPEN"

(* A crashed request does not block its key for ever: the client that      *)
(* retries gets the key out of IN_FLIGHT.                                  *)
InFlight(k) == row[k] # None /\ row[k].status = "IN_FLIGHT"

KeyComesFree == \A k \in Keys : InFlight(k) ~> ~InFlight(k)

(* discount.service, 188-189: two riders redeeming the last use at the     *)
(* same moment do not hand out one more than max_uses.  Refuted by this    *)
(* model: the limit is read before the transaction, which locks nothing    *)
(* (MCBookingCreation.cfg).                                                *)
UsesWithinLimit == used <= MaxUses
=============================================================================
