------------------------------ MODULE Payments ------------------------------
(***************************************************************************)
(* The money of one booking: the orders and links it is asked through      *)
(* (payment.service, paymentCollection.service), the gateway's webhooks    *)
(* (webhook.service), the cash a driver takes, and the handlers that read  *)
(* the booking's counters before they write its status or its price        *)
(* (completeTrip and recordTripDistance in lifecycle.service,              *)
(* cancellation.service, bookingVehicle.service, the                       *)
(* pendingPaymentSweeper).  No step of these touches two bookings.         *)
(*                                                                         *)
(* As in Dispatch, a handler that reads before its transaction is two      *)
(* actions joined by req[r], and a transaction at READ COMMITTED that      *)
(* reads a row without locking it (applyGatewayEvent) is two as well.      *)
(* Between two steps the process may die (Abandon).                        *)
(*                                                                         *)
(* Amounts are small numbers of rupees.  Standalone collections move no    *)
(* counter, QR codes go through the same code as links, and refunds move   *)
(* no counter and are left out.                                            *)
(***************************************************************************)
EXTENDS Integers, Sequences, FiniteSets, Functions

CONSTANTS
    Mode,            \* bookings.payment_mode
    Estimate,        \* bookings.estimated_fare, as booked
    Prices,          \* what the trip costs in cars of other classes
    AdvancePercent,  \* PARTIAL_PCT
    Extras,          \* charges for extra distance a driver's report may cause
    Named,           \* fares a caller of /complete may name
    Asks,            \* <<kind, purpose>>: ways the rider may be asked to pay
    Typed,           \* amounts an admin may type for a link
    MaxRows,         \* bound: rows of the payments table
    MaxAttempts,     \* bound: payments tried at the gateway
    Expirers,        \* who expires bookings: the sweeper, the admin
    Requests         \* slots for concurrent requests

ASSUME PaymentsAssumption ==
    /\ Mode \in {"ZERO", "PARTIAL", "FULL"}
    /\ Estimate \in Nat \ {0} /\ Prices \subseteq Nat \ {0} /\ AdvancePercent \in 0 .. 100
    /\ Extras \subseteq Nat /\ Named \subseteq Nat
    /\ Asks \subseteq {"CHECKOUT", "LINK"} \X {"ADVANCE", "BALANCE", "FULL"}
    /\ Typed \subseteq Nat \ {0}
    /\ Expirers \subseteq {"sweeper", "admin"}
    /\ MaxRows \in Nat /\ MaxAttempts \in Nat

VARIABLES
    booking,         \* status, estimated_fare, the final fare once fixed and the
                     \* estimate till then, advance_paid, balance_due and the
                     \* advance frozen into fareBasis
    rows,            \* the payments table, in the order of its inserts
    ledger,          \* credits of the ledger for this booking
    processed,       \* webhook_events with processed_at set
    req,             \* what each request in flight has read
    attempt,         \* at the gateway: the payments tried, and their orders
    emitted,         \* at the gateway: events sent, each until it is answered
    closed           \* at the gateway: links cancelled

vars == <<booking, rows, ledger, processed, req, attempt, emitted, closed>>

gateway == <<attempt, emitted, closed>>

(* CONFIRMED stands for every status from CONFIRMED to REACHED.            *)
BookingStatuses == {"PENDING", "CONFIRMED", "ONGOING", "ARRIVED",
                    "COMPLETED", "CANCELLED", "EXPIRED"}

(* PARTIALLY_PAID and REFUNDED are written by no code.                     *)
Rank == [CREATED |-> 0, FAILED |-> 1, AUTHORISED |-> 2, CAPTURED |-> 4]

PaymentStatuses == DOMAIN Rank

Purposes == {"ADVANCE", "BALANCE", "FULL"}

(* One order or link is for amount; the cash taken over an open order      *)
(* changes amount but not what the gateway would charge, ordered.          *)
PaymentRow == [status : PaymentStatuses, purpose : Purposes,
               kind : {"CHECKOUT", "LINK", "CASH"}, amount : Nat, ordered : Nat]

(* References are unique: `pay:...` of the n-th gateway payment is n here,  *)
(* `cash:<bookingId>` is 0.                                                *)
Cash == 0

Credit == [ref : 0 .. MaxAttempts, amount : Nat]

Events == (1 .. MaxAttempts) \X {"AUTHORISED", "CAPTURED", "FAILED"}

Idle == [op |-> "idle"]

Request ==
    [op : {"idle", "expire"}]
    \cup [op : {"insert"}, purpose : Purposes, kind : {"CHECKOUT", "LINK"}, amount : Nat]
    \cup [op : {"deliver", "apply"}, event : Events]
    \cup [op : {"cash"}, total : Nat, balance : Nat]
    \cup [op : {"close"}, row : 1 .. MaxRows]
    \cup [op : {"reprice"}, price : Nat, paid : Nat]
    \cup [op : {"charge"}, extra : Nat, paid : Nat, finish : BOOLEAN]
    \cup [op : {"finish"}]
    \cup [op : {"complete"}, settled : Nat, paid : Nat]
    \cup [op : {"cancel"}, fee : Nat, paid : Nat]

TypeOK ==
    /\ booking \in [status : BookingStatuses, estimate : Nat, fixed : BOOLEAN, fare : Nat,
                   paid : Nat, due : Nat, advance : Nat]
    /\ rows \in Seq(PaymentRow) /\ Len(rows) <= MaxRows
    /\ ledger \subseteq Credit
    /\ req \in [Requests -> Request]
    /\ attempt \in Seq([row : 1 .. MaxRows, amount : Nat]) /\ Len(attempt) <= MaxAttempts
    /\ emitted \subseteq Events /\ processed \subseteq emitted
    /\ closed \subseteq 1 .. MaxRows
-----------------------------------------------------------------------------
(***************************************************************************)
(* Rules.                                                                  *)
(***************************************************************************)

CanAdvance(current, next) == current # "FAILED" /\ Rank[next] > Rank[current]

Live == {"CREATED", "AUTHORISED", "CAPTURED"}

(* A second live row would violate uq_payment_open_per_purpose.            *)
OpenFor(purpose) == { o \in DOMAIN rows : rows[o].purpose = purpose /\ rows[o].status \in Live }

(* GREATEST(0, total - paid) *)
Owed(fare, paid) == IF paid < fare THEN fare - paid ELSE 0

(* splitPayment, rounded half up. *)
SplitAdvance(total) ==
    CASE Mode = "FULL" -> total
      [] Mode = "PARTIAL" -> (total * AdvancePercent + 50) \div 100
      [] Mode = "ZERO" -> 0

AmountForPurpose(purpose) ==
    CASE purpose = "BALANCE" -> booking.due
      [] purpose = "FULL" -> booking.fare
      [] purpose = "ADVANCE" /\ Mode = "FULL" -> booking.fare
      [] purpose = "ADVANCE" /\ Mode = "PARTIAL" -> booking.advance
      [] purpose = "ADVANCE" /\ Mode = "ZERO" -> 0

AnyReference(ref) == TRUE

(* ledger_entries.reference is unique.                                     *)
Unrecorded(ref) == \A c \in ledger : c.ref # ref

MovesMoney(next) == next = "CAPTURED"

CreditFor(ref, amount, kind) == { [ref |-> ref, amount |-> amount] }

GateOnEstimate(settled, paid) == Mode = "ZERO" \/ booking.estimate <= paid

(* The payment gate of completeTrip.                                       *)
GateOpen(settled, paid) == Mode = "ZERO" \/ settled <= paid

Answer(r, next) == req' = [req EXCEPT ![r] = next]

Free(r) == req[r] = Idle

Payable == booking.status \notin {"CANCELLED", "EXPIRED"}
-----------------------------------------------------------------------------
(***************************************************************************)
(* Asking for money.                                                       *)
(***************************************************************************)

(* createOrder: an open order for the purpose is returned instead.         *)
OrderRead(r, purpose) ==
    /\ Free(r) /\ Payable /\ <<"CHECKOUT", purpose>> \in Asks
    /\ AmountForPurpose(purpose) > 0
    /\ OpenFor(purpose) = {}
    /\ Answer(r, [op |-> "insert", purpose |-> purpose, kind |-> "CHECKOUT",
                  amount |-> AmountForPurpose(purpose)])
    /\ UNCHANGED <<booking, rows, ledger, processed, gateway>>

OpenLinks == { o \in DOMAIN rows : rows[o].kind = "LINK" /\ rows[o].status \in {"CREATED", "AUTHORISED"} }

(* createLink: what is outstanding or less, unless the newest open link    *)
(* already asks for it.                                                    *)
LinkRead(r, purpose, amount) ==
    LET outstanding == IF purpose = "FULL" THEN booking.fare ELSE booking.due IN
    /\ Free(r) /\ Payable /\ <<"LINK", purpose>> \in Asks
    /\ amount > 0 /\ amount <= outstanding
    /\ amount \in Typed \cup {outstanding}
    /\ \A o \in OpenLinks : (\A q \in OpenLinks : q <= o) => rows[o].amount # amount
    /\ Answer(r, [op |-> "insert", purpose |-> purpose, kind |-> "LINK", amount |-> amount])
    /\ UNCHANGED <<booking, rows, ledger, processed, gateway>>

(* The gateway has made the order: the row is inserted unless another one  *)
(* took its place (the order is then dropped, the link cancelled again).   *)
InsertRow(r) ==
    /\ req[r].op = "insert" /\ Len(rows) < MaxRows
    /\ rows' = IF OpenFor(req[r].purpose) # {} THEN rows
               ELSE Append(rows, [status |-> "CREATED", purpose |-> req[r].purpose,
                                  kind |-> req[r].kind, amount |-> req[r].amount,
                                  ordered |-> req[r].amount])
    /\ Answer(r, Idle)
    /\ UNCHANGED <<booking, ledger, processed, gateway>>

(* paymentCollection.cancel: reads an open link and cancels it at the      *)
(* gateway first ...                                                       *)
CloseRead(r, o) ==
    /\ Free(r) /\ o \in OpenLinks
    /\ closed' = closed \cup {o}
    /\ Answer(r, [op |-> "close", row |-> o])
    /\ UNCHANGED <<booking, rows, ledger, processed, attempt, emitted>>

(* ... and then marks the row, whatever it has become.                     *)
CloseCommit(r) ==
    /\ req[r].op = "close"
    /\ rows' = [rows EXCEPT ![req[r].row].status = "FAILED"]
    /\ Answer(r, Idle)
    /\ UNCHANGED <<booking, ledger, processed, gateway>>
-----------------------------------------------------------------------------
(***************************************************************************)
(* The gateway (external): several payments may be tried on an order, at   *)
(* most one is captured.                                                   *)
(***************************************************************************)

Paid(o) == \E n \in DOMAIN attempt : attempt[n].row = o /\ <<n, "CAPTURED">> \in emitted

Pay(o, outcome) ==
    /\ o \in DOMAIN rows \ closed /\ rows[o].ordered > 0 /\ ~Paid(o)
    /\ Len(attempt) < MaxAttempts
    /\ attempt' = Append(attempt, [row |-> o, amount |-> rows[o].ordered])
    /\ emitted' = emitted \cup { <<Len(attempt) + 1, outcome>> }
    /\ UNCHANGED <<booking, rows, ledger, processed, req, closed>>

Settle(n) ==
    /\ <<n, "AUTHORISED">> \in emitted /\ ~Paid(attempt[n].row)
    /\ emitted' = emitted \cup { <<n, "CAPTURED">> }
    /\ UNCHANGED <<booking, rows, ledger, processed, req, attempt, closed>>
-----------------------------------------------------------------------------
(***************************************************************************)
(* The webhook.                                                            *)
(***************************************************************************)

(* ingest: the event is new, or its row is still unprocessed after the     *)
(* wait for the delivery that inserted it.  A processed one is answered    *)
(* as a duplicate and changes nothing.                                     *)
Ingest(r, e) ==
    /\ Free(r) /\ e \in emitted \ processed
    /\ Answer(r, [op |-> "deliver", event |-> e])
    /\ UNCHANGED <<booking, rows, ledger, processed, gateway>>

(* applyGatewayEvent finds the payment and asks canAdvance; an event that  *)
(* moves it nowhere is marked processed.                                   *)
ApplyRead(r) ==
    LET e == req[r].event IN
    /\ req[r].op = "deliver"
    /\ IF CanAdvance(rows[attempt[e[1]].row].status, e[2])
       THEN Answer(r, [op |-> "apply", event |-> e]) /\ UNCHANGED processed
       ELSE Answer(r, Idle) /\ processed' = processed \cup {e}
    /\ UNCHANGED <<booking, rows, ledger, gateway>>

(* A live status it moves the row to may collide with another live row,    *)
(* a capture with its own credit.                                          *)
ApplyAllowed(e) ==
    LET o == attempt[e[1]].row IN
    /\ e[2] \in Live => OpenFor(rows[o].purpose) \subseteq {o}
    /\ MovesMoney(e[2]) => Unrecorded(e[1])

(* The rest of the transaction: the row by its id, then for a capture the  *)
(* ledger entry and the counters, then the event.                          *)
ApplyCommit(r) ==
    LET e == req[r].event
        o == attempt[e[1]].row
        amount == attempt[e[1]].amount
    IN
    /\ req[r].op = "apply" /\ ApplyAllowed(e)
    /\ rows' = [rows EXCEPT ![o].status = e[2]]
    /\ IF MovesMoney(e[2])
       THEN /\ ledger' = ledger \cup CreditFor(e[1], amount, rows[o].kind)
            /\ booking' = [booking EXCEPT !.paid = @ + amount,
                                          !.due = Owed(booking.fare, booking.paid + amount)]
       ELSE UNCHANGED <<ledger, booking>>
    /\ processed' = processed \cup {e}
    /\ Answer(r, Idle)
    /\ UNCHANGED gateway

(* Postgres aborts the transaction at the unique violation, the event      *)
(* stays unprocessed and the gateway sends it again.                       *)
ApplyAborted(r) ==
    /\ req[r].op = "apply" /\ ~ApplyAllowed(req[r].event)
    /\ Answer(r, Idle)
    /\ UNCHANGED <<booking, rows, ledger, processed, gateway>>
-----------------------------------------------------------------------------
(***************************************************************************)
(* Cash.                                                                   *)
(***************************************************************************)

CashRead(r) ==
    /\ Free(r) /\ booking.status \in {"ARRIVED", "COMPLETED"}
    /\ booking.paid < booking.fare
    /\ Answer(r, [op |-> "cash", total |-> booking.fare, balance |-> booking.fare - booking.paid])
    /\ UNCHANGED <<booking, rows, ledger, processed, gateway>>

Untaken == { o \in OpenFor("BALANCE") : rows[o].status # "CAPTURED" }

(* The open balance order is taken over; with none, a row is inserted      *)
(* unless a captured one is in its place.  One cash credit per booking.    *)
CashCommit(r) ==
    LET balance == req[r].balance IN
    /\ req[r].op = "cash" /\ Unrecorded(Cash)
    /\ \/ \E o \in Untaken :
            rows' = [rows EXCEPT ![o].status = "CAPTURED", ![o].amount = balance]
       \/ /\ OpenFor("BALANCE") = {} /\ Len(rows) < MaxRows
          /\ rows' = Append(rows, [status |-> "CAPTURED", purpose |-> "BALANCE",
                                   kind |-> "CASH", amount |-> balance, ordered |-> 0])
    /\ ledger' = ledger \cup { [ref |-> Cash, amount |-> balance] }
    /\ booking' = [booking EXCEPT !.paid = req[r].total, !.due = 0]
    /\ Answer(r, Idle)
    /\ UNCHANGED <<processed, gateway>>
-----------------------------------------------------------------------------
(***************************************************************************)
(* The booking.                                                            *)
(***************************************************************************)

(* confirm, startTrip, markArrived *)
MoveOn(from, to) ==
    /\ <<from, to>> \in { <<"PENDING", "CONFIRMED">>, <<"CONFIRMED", "ONGOING">>, <<"ONGOING", "ARRIVED">> }
    /\ booking.status = from
    /\ booking' = [booking EXCEPT !.status = to]
    /\ UNCHANGED <<rows, ledger, processed, req, gateway>>

(* changeVehicleClass: priced for a car of another class from the money    *)
(* paid at its first read, unless somebody is being asked for money just   *)
(* then.  CONFIRMED stands here for CONFIRMED and ALLOCATED.               *)
Changeable == booking.status \in {"PENDING", "CONFIRMED"}

BeingPaid == { o \in DOMAIN rows : rows[o].status \in {"CREATED", "AUTHORISED"} }

RepriceRead(r, price) ==
    /\ Free(r) /\ Changeable /\ BeingPaid = {}
    /\ Answer(r, [op |-> "reprice", price |-> price, paid |-> booking.paid])
    /\ UNCHANGED <<booking, rows, ledger, processed, gateway>>

(* What was paid is the advance from then on; a final fare stays.          *)
RepriceCommit(r) ==
    LET price == req[r].price  paid == req[r].paid IN
    /\ req[r].op = "reprice" /\ Changeable
    /\ booking' = [booking EXCEPT !.estimate = price, !.fare = IF booking.fixed THEN @ ELSE price,
                                  !.due = Owed(price, paid),
                                  !.advance = IF paid > 0 THEN paid ELSE SplitAdvance(price)]
    /\ Answer(r, Idle)
    /\ UNCHANGED <<rows, ledger, processed, gateway>>

(* recordTripDistance, from the driver's own route or as the first part of *)
(* completeTrip, which asks for no status before it, only that the driver  *)
(* was ever allocated.                                                     *)
ChargeRead(r, extra, finish) ==
    /\ Free(r)
    /\ IF finish THEN booking.status \notin {"PENDING", "EXPIRED"} ELSE booking.status \in {"ONGOING", "COMPLETED"}
    /\ Answer(r, [op |-> "charge", extra |-> extra, paid |-> booking.paid, finish |-> finish])
    /\ UNCHANGED <<booking, rows, ledger, processed, gateway>>

(* Always from the original estimate, so that a second report replaces the *)
(* first; whatever the status is by now.                                   *)
ChargeCommit(r) ==
    LET fare == booking.estimate + req[r].extra IN
    /\ req[r].op = "charge"
    /\ booking' = [booking EXCEPT !.fixed = TRUE, !.fare = fare, !.due = Owed(fare, req[r].paid)]
    /\ Answer(r, IF req[r].finish THEN [op |-> "finish"] ELSE Idle)
    /\ UNCHANGED <<rows, ledger, processed, gateway>>

(* The payment gate of completeTrip: refused while money is owed on the    *)
(* fare the caller names, or else on the booking's.                        *)
CompleteRead(r, settled) ==
    /\ settled \in Named \cup {booking.fare}
    /\ \/ Free(r) /\ booking.status \notin {"PENDING", "EXPIRED"}
       \/ req[r].op = "finish"
    /\ GateOpen(settled, booking.paid)
    /\ Answer(r, [op |-> "complete", settled |-> settled, paid |-> booking.paid])
    /\ UNCHANGED <<booking, rows, ledger, processed, gateway>>

CompleteCommit(r) ==
    LET settled == req[r].settled IN
    /\ req[r].op = "complete" /\ booking.status = "ARRIVED"
    /\ booking' = [booking EXCEPT !.status = "COMPLETED", !.fixed = TRUE, !.fare = settled,
                                  !.due = Owed(settled, req[r].paid)]
    /\ Answer(r, Idle)
    /\ UNCHANGED <<rows, ledger, processed, gateway>>

(* cancel: free while PENDING, later with or without the whole fare as fee *)
CancelRead(r, fee) ==
    /\ Free(r) /\ booking.status \in {"PENDING", "CONFIRMED"}
    /\ fee \in IF booking.status = "PENDING" THEN {0} ELSE {0, booking.estimate}
    /\ Answer(r, [op |-> "cancel", fee |-> fee, paid |-> booking.paid])
    /\ UNCHANGED <<booking, rows, ledger, processed, gateway>>

CancelCommit(r) ==
    /\ req[r].op = "cancel" /\ booking.status \in {"PENDING", "CONFIRMED"}
    /\ booking' = [booking EXCEPT !.status = "CANCELLED", !.due = Owed(req[r].fee, req[r].paid)]
    /\ Answer(r, Idle)
    /\ UNCHANGED <<rows, ledger, processed, gateway>>

(* The sweeper lists unpaid bookings past their pickup; an admin's request *)
(* asks nothing.                                                           *)
ExpireRead(r, who) ==
    /\ Free(r) /\ booking.status = "PENDING"
    /\ who = "sweeper" => booking.paid = 0
    /\ Answer(r, [op |-> "expire"])
    /\ UNCHANGED <<booking, rows, ledger, processed, gateway>>

ExpireCommit(r) ==
    /\ req[r].op = "expire" /\ booking.status = "PENDING"
    /\ booking' = [booking EXCEPT !.status = "EXPIRED"]
    /\ Answer(r, Idle)
    /\ UNCHANGED <<rows, ledger, processed, gateway>>

(* A request that is refused at its write, or whose process dies. *)
Abandon(r) ==
    /\ req[r] # Idle
    /\ Answer(r, Idle)
    /\ UNCHANGED <<booking, rows, ledger, processed, gateway>>
-----------------------------------------------------------------------------
Init ==
    /\ booking = [status |-> "PENDING", estimate |-> Estimate, fixed |-> FALSE, fare |-> Estimate,
                  paid |-> 0, due |-> Estimate, advance |-> SplitAdvance(Estimate)]
    /\ rows = <<>> /\ ledger = {} /\ processed = {}
    /\ req = [r \in Requests |-> Idle]
    /\ attempt = <<>> /\ emitted = {} /\ closed = {}

CollectStep(r) ==
    \/ \E purpose \in Purposes : OrderRead(r, purpose)
    \/ \E purpose \in Purposes : \E amount \in Typed \cup {booking.due, booking.fare} :
            LinkRead(r, purpose, amount)
    \/ InsertRow(r)
    \/ \E o \in DOMAIN rows : CloseRead(r, o)
    \/ CloseCommit(r)
    \/ CashRead(r) \/ CashCommit(r)

WebhookStep(r) ==
    \/ \E e \in emitted : Ingest(r, e)
    \/ ApplyRead(r) \/ ApplyCommit(r) \/ ApplyAborted(r)

GatewayStep ==
    \/ \E o \in DOMAIN rows : \E outcome \in {"AUTHORISED", "CAPTURED", "FAILED"} : Pay(o, outcome)
    \/ \E n \in DOMAIN attempt : Settle(n)

BookingStep(r) ==
    \/ (\E price \in Prices \ {booking.estimate} : RepriceRead(r, price)) \/ RepriceCommit(r)
    \/ \E extra \in Extras, finish \in BOOLEAN : ChargeRead(r, extra, finish)
    \/ ChargeCommit(r)
    \/ \E settled \in Named \cup {booking.fare} : CompleteRead(r, settled)
    \/ CompleteCommit(r)
    \/ \E fee \in {0, booking.estimate} : CancelRead(r, fee)
    \/ CancelCommit(r)
    \/ \E who \in Expirers : ExpireRead(r, who)
    \/ ExpireCommit(r)

Next ==
    \/ GatewayStep
    \/ \E from, to \in BookingStatuses : MoveOn(from, to)
    \/ \E r \in Requests : CollectStep(r) \/ WebhookStep(r) \/ BookingStep(r) \/ Abandon(r)

Spec == Init /\ [][Next]_vars
-----------------------------------------------------------------------------
(***************************************************************************)
(* Properties.                                                             *)
(***************************************************************************)

Recorded == SumFunctionOnSet([c \in ledger |-> c.amount], ledger)

(* The booking never counts as paid what the ledger does not hold,         *)
(* whatever deliveries of an event run side by side, and although cash     *)
(* writes advance_paid as a total it computed from an earlier read.        *)
CountersBacked == booking.paid <= Recorded

(* Every gateway credit is a payment the gateway says it has captured, for *)
(* the amount captured; and a payment is CAPTURED only if its money is in  *)
(* the ledger, by a capture of its own order or as the booking's one cash  *)
(* settlement.                                                             *)
CreditIsCaptured ==
    /\ \A c \in ledger :
          c.ref # Cash => <<c.ref, "CAPTURED">> \in emitted /\ attempt[c.ref].amount = c.amount
    /\ \A o \in DOMAIN rows : rows[o].status = "CAPTURED" =>
          \E c \in ledger :
              IF c.ref = Cash THEN rows[o].purpose = "BALANCE" ELSE attempt[c.ref].row = o

(* The counters and the gateway's captures both agree with the ledger.     *)
LedgerBacks == CountersBacked /\ CreditIsCaptured

(* A trip that is not pay-later is completed only when the ledger covers   *)
(* the fare it is completed at, although the gate was asked about earlier  *)
(* counters and the fare and the cash may have changed them since.         *)
CompletionIsPaid ==
    [][ booking'.status = "COMPLETED" /\ booking.status # "COMPLETED" /\ Mode # "ZERO"
          => booking'.fare <= Recorded ]_vars

(* A capture the webhook has answered for is in the ledger: what           *)
(* paymentCollection.cancel says of a payment made just before the link is *)
(* cancelled.  Refuted by this model: CANCELLED is final, and the capture  *)
(* is answered without a credit (MCPayments.cfg).                          *)
CaptureRecorded ==
    \A e \in processed : e[2] = "CAPTURED" => \E c \in ledger : c.ref = e[1]

(* An expired booking is unpaid: what the sweeper's filter is for, and     *)
(* what expire relies on.  Refuted by this model: money may arrive after   *)
(* the sweeper listed the booking (MCPayments.cfg).                        *)
ExpiredIsUnpaid == booking.status = "EXPIRED" => booking.paid = 0
=============================================================================
