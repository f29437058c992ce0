---------------------------- MODULE Conversation ----------------------------
(* One customer's WhatsApp conversation: the session row of the customer,  *)
(* the handlers that answer messages, the jobs and the event listener that *)
(* write the same row, and the bookings the conversation makes.            *)
(*                                                                         *)
(* A handler works on its own copy of the row and writes the whole copy    *)
(* back when it ends, so each operator below maps a copy to the set of     *)
(* copies its answers may leave; LoadSession and Flush are separate steps. *)
EXTENDS Naturals, FiniteSets

CONSTANTS
    Nothing,
    Slots,          \* messages, sweeps and events handled at one time
    BookingIds,
    Cabs, Seats,    \* vehicle classes and how many passengers each takes
    Offers,         \* the sets of cabs a fare lookup may price
    TripTypes,      \* subset of {"ONE_WAY", "ROUND_TRIP", "HOURLY", "AIRPORT"}
    Times,          \* pickup and return times the customer may name
    Parties,        \* numbers of passengers the customer may name
    MaxLookups,     \* bound: fare lookups that answer
    MaxMissed,      \* bound: writes of the row that answers in progress miss
    DateFirst       \* BOOKING_ORDER = date_first

(* What a booking and a review say of a trip: see Content. *)
Contents == [type : TripTypes \cup {Nothing}, drop : {"none", "place"}, at : Times \cup {0},
             back : Times \cup {0}, cab : Cabs \cup {Nothing}, count : Parties \cup {0}]

(* A booking as far as the conversation knows it. *)
BookingRow == [trip : Contents, status : {"PENDING", "CONFIRMED", "CANCELLED"}]

ASSUME ConversationAssumption ==
    /\ Nothing \notin BookingIds \cup Cabs \cup TripTypes
    /\ Nothing \notin Contents /\ Nothing \notin BookingRow
    /\ Seats \in [Cabs -> Nat]
    /\ Offers \subseteq SUBSET Cabs
    /\ Times \subseteq Nat \ {0} /\ Parties \subseteq Nat \ {0}
    /\ MaxLookups \in Nat /\ MaxMissed \in Nat /\ DateFirst \in BOOLEAN
    /\ IsFiniteSet(Slots)

VARIABLES
    session,    \* the row of the customer in whatsapp_sessions
    work,       \* work[p]: the copy slot p answers with, and how far it is
    bookings,   \* the bookings the conversation made
    lookups,    \* fare lookups answered so far: each mints fresh quote ids
    reviewed,   \* history: the trips that reviews put to the customer
    missed      \* history: writes of the row that answers in progress missed
conversationVars == <<session, work, bookings, lookups, reviewed, missed>>

Vacant == [at |-> "idle"]

(* _vehicleOptions is cabs, the quote ids of one lookup are its number.    *)
NoDraft == [type |-> Nothing, pickup |-> FALSE, drop |-> "none", at |-> 0, back |-> 0,
            hours |-> FALSE, offer |-> 0, cabs |-> {}, cab |-> Nothing, fare |-> 0,
            name |-> FALSE, count |-> 0, quoted |-> Nothing]

Resting == {"MAIN_MENU", "SESSION_EXPIRED"}

(* The states whose name starts with BOOKING_. *)
BookingSteps ==
    {"BOOKING_TRIP_TYPE", "BOOKING_PICKUP", "BOOKING_DROP", "BOOKING_DATE", "BOOKING_TIME",
     "BOOKING_RETURN_DATE", "BOOKING_RETURN_TIME", "BOOKING_RENTAL_HOURS",
     "BOOKING_VEHICLE_SELECTION", "BOOKING_CUSTOMER_NAME", "BOOKING_PASSENGERS",
     "BOOKING_REVIEW", "BOOKING_CREATED", "BOOKING_DETAILS"}

States == BookingSteps \cup Resting \cup
    {"MY_BOOKINGS", "CANCELLATION_REASON", "CANCELLATION_CONFIRMATION",
     "HUMAN_HANDOFF"}

Draft == [type : TripTypes \cup {Nothing}, pickup : BOOLEAN, drop : {"none", "place"},
          at : Times \cup {0}, back : Times \cup {0}, hours : BOOLEAN,
          offer : 0 .. MaxLookups, cabs : SUBSET Cabs, cab : Cabs \cup {Nothing},
          fare : 0 .. MaxLookups, name : BOOLEAN, count : Parties \cup {0},
          quoted : BookingIds \cup {Nothing}]

(* review is no column: the review an answer sends, until it is sent.      *)
SessionRow == [state : States, prev : States \cup {Nothing}, draft : Draft,
               active : BookingIds \cup {Nothing}, handoff : BOOLEAN,
               review : Contents \cup {Nothing}]

Copies == [at : {"loaded", "expiring", "create", "made", "notice", "sweep"},
           row : SessionRow, expired : BOOLEAN]

(* The trip createBooking sends, and a review puts.  No price is sent: the *)
(* trip is priced again when it is booked.                                 *)
Content(d) == [type |-> d.type, drop |-> IF d.type = "HOURLY" THEN "none" ELSE d.drop,
               at |-> d.at, back |-> IF d.type = "ROUND_TRIP" THEN d.back ELSE 0,
               cab |-> d.cab, count |-> d.count]

ResetDraft(r) == [r EXCEPT !.draft = NoDraft]

(* transition.  The state it left is kept, but read only to resume, where  *)
(* an expiry wrote it: the other writes are not told apart.                *)
Go(r, s) == [r EXCEPT !.prev = Nothing, !.state = s]

Suspend(r) == [r EXCEPT !.prev = r.state, !.state = "SESSION_EXPIRED"]

Menu(r) == Go(r, "MAIN_MENU")
FreshMenu(r) == Menu(ResetDraft(r))

EscalateToHuman(r) == Go([r EXCEPT !.handoff = TRUE], "HUMAN_HANDOFF")

Made == {b \in BookingIds : bookings[b] # Nothing}

-----------------------------------------------------------------------------
(* The booking steps. *)

StartBooking(r) == {Go(ResetDraft(r), "BOOKING_TRIP_TYPE")}

(* The list is asked again when the answer is none of its types. *)
BookingTripType(r) ==
    {r} \cup {Go([r EXCEPT !.draft.type = t], "BOOKING_PICKUP") : t \in TripTypes}

FinishPickup(r) ==
    LET s == [r EXCEPT !.draft.pickup = TRUE]
    IN  Go(s, IF r.draft.type = "HOURLY" \/ DateFirst THEN "BOOKING_DATE" ELSE "BOOKING_DROP")

(* The page that picks the whole route.  Its link says whether it asks for *)
(* a drop; a link of an earlier draft may say otherwise than this draft.   *)
FinishRoute(r, drop) ==
    Go([r EXCEPT !.draft.pickup = TRUE, !.draft.drop = IF drop = "none" THEN @ ELSE drop],
       "BOOKING_DATE")

RoutePages == {"none", "place"}

BookingPickup(r) ==
    {r, FinishPickup(r)} \cup {FinishRoute(r, drop) : drop \in RoutePages}

(* A trip is priced when it goes somewhere and has its times; the adapter  *)
(* passes no stops.                                                        *)
Priceable(d) ==
    /\ d.pickup /\ d.at # 0
    /\ d.type # "HOURLY" => d.drop # "none"
    /\ d.type = "ROUND_TRIP" => d.back >= d.at

(* The cabs one lookup may list. *)
Offered(minSeats) == {{c \in priced : Seats[c] >= minSeats} : priced \in Offers}

(* The lookup fails, or finds no cab large enough, or offers some.         *)
ShowVehicleOptions(r, minSeats) ==
    LET Shown(cabs) ==
            IF cabs = {} THEN EscalateToHuman(r)
            ELSE Go([r EXCEPT !.draft.offer = lookups + 1, !.draft.cabs = cabs,
                              !.draft.cab = Nothing],
                    "BOOKING_VEHICLE_SELECTION")
    IN  {r} \cup IF Priceable(r.draft) /\ lookups < MaxLookups
                 THEN {Shown(cabs) : cabs \in Offered(minSeats)} ELSE {}

FinishDrop(r) ==
    LET s == [r EXCEPT !.draft.drop = "place"]
    IN  IF ~DateFirst THEN {Go(s, "BOOKING_DATE")}
        ELSE IF r.draft.type = "ROUND_TRIP" THEN {Go(s, "BOOKING_RETURN_DATE")}
        ELSE ShowVehicleOptions(s, 0)

BookingDrop(r) ==
    {r} \cup FinishDrop(r) \cup {FinishRoute(r, drop) : drop \in RoutePages}

(* A past time sends the customer back to the date. *)
BookingTime(r) ==
    LET Timed(t) == [r EXCEPT !.draft.at = t]
        After(s) == IF s.draft.type = "HOURLY" THEN {Go(s, "BOOKING_RENTAL_HOURS")}
                    ELSE IF DateFirst /\ s.draft.drop = "none" THEN {Go(s, "BOOKING_DROP")}
                    ELSE IF s.draft.type = "ROUND_TRIP" THEN {Go(s, "BOOKING_RETURN_DATE")}
                    ELSE ShowVehicleOptions(s, 0)
    IN  {r, Go(r, "BOOKING_DATE")} \cup UNION {After(Timed(t)) : t \in Times}

(* No slots left on that day sends the customer back; a page that sends    *)
(* the time with the date carries on with the time's step.                 *)
BookingDate(r) ==
    LET s == Go(r, "BOOKING_TIME")
    IN  {r, s, Go(s, "BOOKING_DATE")} \cup BookingTime(s)

BookingReturnTime(r) ==
    {r, Go(r, "BOOKING_RETURN_DATE")} \cup
    UNION {ShowVehicleOptions([r EXCEPT !.draft.back = t], 0) : t \in {u \in Times : u >= r.draft.at}}

BookingReturnDate(r) ==
    LET s == Go(r, "BOOKING_RETURN_TIME")
    IN  {r, s, Go(s, "BOOKING_RETURN_DATE")} \cup BookingReturnTime(s)

BookingRentalHours(r) ==
    {r} \cup ShowVehicleOptions([r EXCEPT !.draft.hours = TRUE], 0)

ShowBookingReview(r) == Go([r EXCEPT !.review = Content(r.draft)], "BOOKING_REVIEW")

(* The details are asked once: a cab chosen again goes to the review.      *)
ChooseVehicle(r, cab) ==
    LET s == [r EXCEPT !.draft.cab = cab, !.draft.fare = r.draft.offer]
    IN  IF s.draft.name /\ s.draft.count # 0 THEN ShowBookingReview(s)
        ELSE Go(s, "BOOKING_CUSTOMER_NAME")

BookingVehicleSelection(r) == {r} \cup {ChooseVehicle(r, cab) : cab \in r.draft.cabs}

BookingCustomerName(r) == {r, Go([r EXCEPT !.draft.name = TRUE], "BOOKING_PASSENGERS")}

(* More passengers than seats: choose again among the larger cabs. *)
BookingPassengers(r) ==
    LET Told(n) ==
            LET s == [r EXCEPT !.draft.count = n]
            IN  IF r.draft.cab \in r.draft.cabs /\ n > Seats[r.draft.cab]
                THEN ShowVehicleOptions(s, n) ELSE {ShowBookingReview(s)}
    IN  {r} \cup UNION {Told(n) : n \in Parties}

(* Confirm, which makes no booking yet: the payment mode is chosen first.  *)
ConfirmReview(r) == Go([r EXCEPT !.active = Nothing], "BOOKING_CREATED")

BookingReview(r) ==
    StartBooking(r) \cup {FreshMenu(r), ConfirmReview(r), ShowBookingReview(r)}

-----------------------------------------------------------------------------
(* Payment of the booking. *)

FinishAndReturnToMenu(r) == FreshMenu(r)

ShowPaymentOptions(r) == Go(r, "BOOKING_CREATED")

(* An answer that chooses no mode.  A choice is Choose below.  Both have   *)
(* no booking in hand (DraftFitsStep), so what the code does with one here *)
(* and in PAYMENT_PENDING, the payment link, is never reached.             *)
PaymentOption(r) == {ShowPaymentOptions(r)}

-----------------------------------------------------------------------------
(* Bookings already made, cancellation and support. *)

ShowMyBookings(r) == IF Made = {} THEN Menu(r) ELSE Go(r, "BOOKING_DETAILS")

Cancellable(b) == bookings[b].status \in {"PENDING", "CONFIRMED"}

(* Mutant: the reason is asked before the fee was quoted. *)
PromptUnquoted(r) ==
    IF r.active = Nothing THEN {r, ShowMyBookings(r)} ELSE {r, Go(r, "CANCELLATION_REASON")}

(* The fee is quoted for the booking in hand.                              *)
PromptBookingForCancellation(r) ==
    IF r.active = Nothing THEN {r, ShowMyBookings(r)}
    ELSE {r} \cup IF Cancellable(r.active)
                  THEN {Go([r EXCEPT !.draft.quoted = r.active], "CANCELLATION_REASON")}
                  ELSE {}

BookingDetailsSelection(r) ==
    {r, ShowMyBookings(r)} \cup PromptBookingForCancellation(r)
    \cup {[r EXCEPT !.active = b] : b \in Made}

CancellationReason(r) == {r, Go(r, "CANCELLATION_CONFIRMATION")}

(* Kept, or refused because the booking has moved on. *)
CancellationConfirmation(r) == {r, Menu(r)}

RouteFromIntent(r) ==
    StartBooking(r) \cup PromptBookingForCancellation(r)
    \cup {r, Menu(r), FreshMenu(r), ShowMyBookings(Go(r, "MY_BOOKINGS")), EscalateToHuman(r)}

(* The words that interrupt any step. *)
Interrupt(r) ==
    PromptBookingForCancellation(r) \cup {FreshMenu(r), Menu(r), EscalateToHuman(r)}

MainMenu(r) == RouteFromIntent(r)

Handler(r) ==
    CASE r.state = "MAIN_MENU" -> MainMenu(r)
      [] r.state = "BOOKING_TRIP_TYPE" -> BookingTripType(r)
      [] r.state = "BOOKING_PICKUP" -> BookingPickup(r)
      [] r.state = "BOOKING_DROP" -> BookingDrop(r)
      [] r.state = "BOOKING_DATE" -> BookingDate(r)
      [] r.state = "BOOKING_TIME" -> BookingTime(r)
      [] r.state = "BOOKING_RETURN_DATE" -> BookingReturnDate(r)
      [] r.state = "BOOKING_RETURN_TIME" -> BookingReturnTime(r)
      [] r.state = "BOOKING_RENTAL_HOURS" -> BookingRentalHours(r)
      [] r.state = "BOOKING_VEHICLE_SELECTION" -> BookingVehicleSelection(r)
      [] r.state = "BOOKING_CUSTOMER_NAME" -> BookingCustomerName(r)
      [] r.state = "BOOKING_PASSENGERS" -> BookingPassengers(r)
      [] r.state = "BOOKING_REVIEW" -> BookingReview(r)
      [] r.state = "BOOKING_CREATED" -> PaymentOption(r)
      [] r.state = "MY_BOOKINGS" -> {r, ShowMyBookings(r)}
      [] r.state = "BOOKING_DETAILS" -> BookingDetailsSelection(r)
      [] r.state = "CANCELLATION_REASON" -> CancellationReason(r)
      [] r.state = "CANCELLATION_CONFIRMATION" -> CancellationConfirmation(r)

-----------------------------------------------------------------------------
(* One message, from the copy it was given.  Whatever a handler did before *)
(* it threw stays in the copy.                                             *)
Resume(r, justExpired) ==
    IF justExpired THEN {r} ELSE {Go(r, r.prev), FreshMenu(r)}

AnswerMessage(r) ==
    LET greeted == FreshMenu([r EXCEPT !.handoff = FALSE])
        handled == Interrupt(r) \cup Handler(r)
    IN  {greeted} \cup
        IF r.handoff \/ r.state = "HUMAN_HANDOFF" THEN {r}
        ELSE handled \cup {EscalateToHuman(s) : s \in {r} \cup handled}

Replies(w) ==
    IF w.row.state = "SESSION_EXPIRED" THEN Resume(w.row, w.expired) ELSE AnswerMessage(w.row)

(* Mutant: the draft is reset before the step is remembered. *)
ExpireEmptied(r) == Suspend(ResetDraft(r))

Expire(r) ==
    IF r.state \in BookingSteps /\ r.draft.type # Nothing
    THEN Suspend(r)
    ELSE ResetDraft([r EXCEPT !.state = "MAIN_MENU"])

Copy(at, row) == [at |-> at, row |-> row, expired |-> FALSE]

Step(p, w) == work' = [work EXCEPT ![p] = w]

(* Mutant: the confirmation saves the step and not the draft it had read.  *)
WriteStep(p, row, next) ==
    /\ missed' = missed + Cardinality({q \in Slots \ {p} : work[q] # Vacant})
    /\ missed' <= MaxMissed
    /\ session' = IF row.state = "BOOKING_CREATED" THEN [row EXCEPT !.draft = session.draft] ELSE row
    /\ Step(p, next)

(* The copy of p replaces the row; an answer in progress did not see it.   *)
Write(p, row, next) ==
    /\ missed' = missed + Cardinality({q \in Slots \ {p} : work[q] # Vacant})
    /\ missed' <= MaxMissed
    /\ session' = row
    /\ Step(p, next)

Flush(p, row) == Write(p, row, Vacant)

ConversationInit ==
    /\ session = [state |-> "MAIN_MENU", prev |-> Nothing, draft |-> NoDraft, active |-> Nothing,
                  handoff |-> FALSE, review |-> Nothing]
    /\ work = [p \in Slots |-> Vacant]
    /\ bookings = [b \in BookingIds |-> Nothing]
    /\ lookups = 0 /\ reviewed = {} /\ missed = 0

(* A message arrives and reads the row; nothing holds other messages of    *)
(* the customer back meanwhile.  Any time may have passed since the last   *)
(* one, SESSION_TIMEOUT_MINUTES too.                                       *)
LoadSession(p) ==
    /\ work[p] = Vacant
    /\ \/ Step(p, Copy("loaded", session))
       \/ session.state \notin Resting /\ Step(p, Copy("expiring", session))
    /\ UNCHANGED <<session, bookings, lookups, reviewed, missed>>

(* The session timed out before this message: saved at once, and then the  *)
(* message goes on, unless it turns out to be a second delivery.           *)
ExpireOnLoad(p) ==
    /\ work[p].at = "expiring"
    /\ LET r == Expire(work[p].row)
           goesOn == [Copy("loaded", r) EXCEPT !.expired = TRUE]
       IN  \E next \in {goesOn, Vacant} : Write(p, r, next)
    /\ UNCHANGED <<bookings, lookups, reviewed>>

(* A message that needs no booking made and no cancellation: the answer is *)
(* sent and the copy written back.  Nothing reads what was sent, so the    *)
(* two are one step: a crash between them only adds a review the row does  *)
(* not know.                                                               *)
Reply(p) ==
    /\ work[p].at = "loaded"
    /\ \E row \in Replies(work[p]) :
          /\ Flush(p, [row EXCEPT !.review = Nothing])
          /\ reviewed' = reviewed \cup ({row.review} \ {Nothing})
          /\ lookups' = IF row.draft.offer > lookups THEN row.draft.offer ELSE lookups
    /\ UNCHANGED bookings

Alert(p, state) ==
    work[p].at = "loaded" /\ work[p].row.state = state /\ ~work[p].row.handoff

(* The first choice of a payment mode makes the booking.  An earlier one   *)
(* with the key of this draft in meta.botKey would be taken instead, but   *)
(* no booking ever carries a key: see FailToTag.                           *)
Choose(p) ==
    /\ Alert(p, "BOOKING_CREATED") /\ work[p].row.active = Nothing
    /\ Step(p, [work[p] EXCEPT !.at = "create"])
    /\ UNCHANGED <<session, bookings, lookups, reviewed, missed>>

Create(p) ==
    /\ work[p].at = "create"
    /\ \E b \in BookingIds \ Made :
          bookings' = [bookings EXCEPT ![b] =
              [trip |-> Content(work[p].row.draft), status |-> "PENDING"]]
    /\ Step(p, [work[p] EXCEPT !.at = "made"])
    /\ UNCHANGED <<session, lookups, reviewed, missed>>

(* The backend refuses the booking: the customer is told, nothing moves.   *)
Refuse(p) ==
    /\ work[p].at = "create"
    /\ Flush(p, work[p].row)
    /\ UNCHANGED <<bookings, lookups, reviewed>>

(* The new booking is looked up by created.id, which the answer of         *)
(* booking.service.create does not have, so the update throws each time:   *)
(* the customer is told that booking failed, no key is stored, and the     *)
(* conversation stays where it was, without the booking.                   *)
FailToTag(p) ==
    /\ work[p].at = "made"
    /\ Flush(p, work[p].row)
    /\ UNCHANGED <<bookings, lookups, reviewed>>

ConfirmCancellation(p) ==
    /\ Alert(p, "CANCELLATION_CONFIRMATION")
    /\ Cancellable(work[p].row.active)
    /\ bookings' = [bookings EXCEPT ![work[p].row.active].status = "CANCELLED"]
    /\ Flush(p, Menu(work[p].row))
    /\ UNCHANGED <<lookups, reviewed>>

-----------------------------------------------------------------------------
(* The other writers of the row, and what happens outside.                 *)

(* A payment for a booking of the conversation was captured, wherever it   *)
(* was asked for: the listener reads the row of the customer and ends      *)
(* whatever the customer is doing.                                         *)
Captured(p) ==
    /\ work[p] = Vacant /\ Made # {}
    /\ Step(p, Copy("notice", session))
    /\ UNCHANGED <<session, bookings, lookups, reviewed, missed>>

NotifyPaymentCaptured(p) ==
    /\ work[p].at = "notice"
    /\ Flush(p, FinishAndReturnToMenu(work[p].row))
    /\ UNCHANGED <<bookings, lookups, reviewed>>

SweepReads(p) ==
    /\ work[p] = Vacant
    /\ session.state \notin Resting \cup {"HUMAN_HANDOFF"}
    /\ Step(p, Copy("sweep", session))
    /\ UNCHANGED <<session, bookings, lookups, reviewed, missed>>

SessionTimeoutSweep(p) ==
    /\ work[p].at = "sweep"
    /\ Flush(p, Suspend(work[p].row))
    /\ UNCHANGED <<bookings, lookups, reviewed>>

(* Staff give the conversation back to the bot. *)
ResolveHandoff ==
    /\ session.handoff
    /\ session' = ResetDraft([session EXCEPT !.handoff = FALSE, !.state = "MAIN_MENU"])
    /\ UNCHANGED <<work, bookings, lookups, reviewed, missed>>

StaffDecides(b) ==
    /\ b \in Made /\ bookings[b].status = "PENDING"
    /\ \E s \in {"CONFIRMED", "CANCELLED"} : bookings' = [bookings EXCEPT ![b].status = s]
    /\ UNCHANGED <<session, work, lookups, reviewed, missed>>

(* The process restarts: what was being answered is lost. *)
Crash ==
    /\ \E p \in Slots : work[p] # Vacant
    /\ work' = [p \in Slots |-> Vacant]
    /\ UNCHANGED <<session, bookings, lookups, reviewed, missed>>

ConversationNext ==
    \/ \E p \in Slots :
          \/ LoadSession(p) \/ ExpireOnLoad(p) \/ Reply(p)
          \/ Choose(p) \/ Create(p) \/ Refuse(p) \/ FailToTag(p) \/ ConfirmCancellation(p)
          \/ Captured(p) \/ NotifyPaymentCaptured(p) \/ SweepReads(p) \/ SessionTimeoutSweep(p)
    \/ \E b \in BookingIds : StaffDecides(b)
    \/ ResolveHandoff \/ Crash

ConversationSpec == ConversationInit /\ [][ConversationNext]_conversationVars

-----------------------------------------------------------------------------
(* Every copy of the row: the stored one and those being answered.         *)
Rows == {session} \cup {work[p].row : p \in {q \in Slots : work[q] # Vacant}}

ConversationTypeOK ==
    /\ session \in SessionRow
    /\ work \in [Slots -> Copies \cup {Vacant}]
    /\ bookings \in [BookingIds -> BookingRow \cup {Nothing}]
    /\ lookups \in 0 .. MaxLookups /\ reviewed \subseteq Contents
    /\ missed \in 0 .. MaxMissed

(* The rows are well typed and, wherever the conversation stands, the      *)
(* answers that step builds on have been given: a review or a list of cabs *)
(* that reads a missing one throws and hands the customer to staff.  While *)
(* the payment mode is asked no earlier booking is in hand, which the      *)
(* choice would take for the new one.                                      *)
Fits(s, d) ==
    /\ s \in BookingSteps \ {"BOOKING_TRIP_TYPE", "BOOKING_DETAILS"} => d.type # Nothing
    /\ s \in BookingSteps \ {"BOOKING_TRIP_TYPE", "BOOKING_PICKUP", "BOOKING_DETAILS"} => d.pickup
    /\ s \in {"BOOKING_RETURN_DATE", "BOOKING_RETURN_TIME", "BOOKING_RENTAL_HOURS"} => d.at # 0
    /\ s \in {"BOOKING_VEHICLE_SELECTION", "BOOKING_CUSTOMER_NAME", "BOOKING_PASSENGERS",
              "BOOKING_REVIEW", "BOOKING_CREATED"} => Priceable(d) /\ d.offer # 0
    /\ s \in {"BOOKING_CUSTOMER_NAME", "BOOKING_PASSENGERS", "BOOKING_REVIEW",
              "BOOKING_CREATED"} => d.cab \in d.cabs /\ d.fare = d.offer
    /\ s \in {"BOOKING_REVIEW", "BOOKING_CREATED"} => d.name /\ d.count # 0

(* Where the conversation goes on. *)
Stand(r) == IF r.state = "SESSION_EXPIRED" THEN r.prev ELSE r.state

DraftFitsStep ==
    /\ ConversationTypeOK
    /\ \A r \in Rows : /\ Fits(Stand(r), r.draft)
                       /\ Stand(r) = "BOOKING_CREATED" => r.active = Nothing

(* Whatever messages, pages, sweeps and events overlap, and whichever copy *)
(* of the row is written last, the trip that is booked, or about to be, is *)
(* one that a review put to the customer, never one put together from two  *)
(* copies; and the cab takes the passengers named, however often either    *)
(* was chosen again (createBooking, SessionRecord.save).  The fare is not  *)
(* part of it, and the review need not be the last one.                    *)
BookedAsReviewed ==
    /\ \A p \in Slots : work[p].at = "create" => Content(work[p].row.draft) \in reviewed
    /\ \A b \in Made : bookings[b].trip \in reviewed
                           /\ bookings[b].trip.count <= Seats[bookings[b].trip.cab]

(* The booking a customer is asked to cancel is the one whose fee and      *)
(* refund were quoted.                                                     *)
CancelAsQuoted ==
    \A r \in Rows :
        r.state \in {"CANCELLATION_REASON", "CANCELLATION_CONFIRMATION"} =>
            r.active # Nothing /\ r.draft.quoted = r.active

(* utils/idempotency.js: re-sending or double-tapping can never create two *)
(* bookings of one draft.  Refuted by this model: the key is never stored, *)
(* and the customer who is told that booking failed chooses again          *)
(* (MCConversation.cfg, with two BookingIds).                              *)
OneBookingPerDraft ==
    \A b, c \in Made :
        bookings[b].trip = bookings[c].trip /\ bookings[b].status # "CANCELLED"
            /\ bookings[c].status # "CANCELLED" => b = c

(* sessionTimeout.job.js: a session that expired with a draft shows the    *)
(* customer "continue or start new", and only the answer to that gives the *)
(* draft up.  Refuted by this model: a message answered on an older copy   *)
(* of the row resets it (MCConversation.cfg).                              *)
AskedBeforeLoss ==
    [][session.state = "SESSION_EXPIRED" /\ session.draft.type # Nothing
       /\ session'.draft.type = Nothing =>
          \E p \in Slots : work[p] # Vacant /\ work[p].row.state = "SESSION_EXPIRED"
                           /\ work'[p] = Vacant]_conversationVars
=============================================================================
