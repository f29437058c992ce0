------------------------------ MODULE Billing ------------------------------
(* From a quoted booking to its books: the distance reported at the end    *)
(* (lifecycle.recordTripDistance), the payment gate and completion         *)
(* (lifecycle.completeTrip), the invoice and the ledger written in the     *)
(* completing transaction (billing.finaliseBooking), refunds and cash      *)
(* reconciliation (adminPayment.service), and what a cancellation owes     *)
(* (cancellation.service).  Corporate says who is billed and Fares what    *)
(* for.  Each call reads, decides and writes apart, so two of them cross.  *)
EXTENDS Corporate, Fares, FiniteSetsExt

CONSTANTS
    Bookings,
    Offers,         \* what may be booked: trip, card, pickup and drop state
    Registrations,  \* the GST registrations
    Welfares,       \* the welfare percentages of the cities
    Callers,        \* calls under way at one time
    ReportedKm,     \* distances a trip may be reported at
    ReturnKm,       \* kilometres back to the pickup from where a rental ended
    NamedFares,     \* final fares a caller may name
    Notices,        \* minutes before pickup at which a booking is called off
    CardsThen,      \* the rate cards that may be active by then
    Instalments,    \* amounts paid online, or paid back by staff
    MaxPayments,    \* bound: rows of the payments table
    MaxCalls,       \* bound: calls of the handlers that read before they write
    MaxEffort       \* bound: payments, calls and operations on companies together

DriverPct == 80     \* the column's default, which nothing sets
FreeMinutes == 60   \* CANCEL_FREE_MINUTES

LedgerRow == [charged : Nat, driver : Nat, welfare : Nat, commission : Nat]

ASSUME BillingAssumption ==
    /\ Welfares \subseteq 0..10 /\ ReportedKm \subseteq Nat /\ ReturnKm \subseteq Nat
    /\ NamedFares \subseteq Nat /\ Instalments \subseteq Nat \ {0}
    /\ \A o \in Offers : IsTrip(o.trip) /\ IsRateCard(o.card)
    /\ \A card \in CardsThen : IsRateCard(card)
    /\ \A config \in Registrations : config.rate \in 0..100
    /\ MaxPayments \in Nat /\ MaxCalls \in Nat /\ MaxEffort \in Nat
    /\ None \notin Int \cup LedgerRow

VARIABLES
    booking,
    payments,       \* the captured payments and the refunds
    sequence,       \* the last invoice number drawn
    invoices,
    ledger,         \* ledger[b]: None, or what each kind of entry of b amounts to
    calls,          \* calls[k]: a call between its reads and its writes
    made            \* calls made
billingVars == <<booking, payments, sequence, invoices, ledger, calls, made>>
vars == <<companies, people, forms, filed,
          booking, payments, sequence, invoices, ledger, calls, made>>

Absent == [status |-> "NONE"]
Bound == "BOUND"    \* any status from allocation to the start of the trip
Cancellable == {"PENDING", Bound}

Init ==
    /\ CorporateInit
    /\ booking = [b \in Bookings |-> Absent]
    /\ payments = {} /\ sequence = 0 /\ invoices = {}
    /\ ledger = [b \in Bookings |-> None]
    /\ calls = [k \in Callers |-> Idle] /\ made = 0

Fare(b) == IF booking[b].final # None THEN booking[b].final ELSE booking[b].estimated
HasDriver(b) == booking[b].status \in {Bound, "ONGOING", "ARRIVED"}
Write(b, row) == booking' = [booking EXCEPT ![b] = row]

-----------------------------------------------------------------------------
(* A booking, as far as its money goes. *)

BookingRow(p, c, o, quote, gstin, payLater, w) ==
    [status |-> "PENDING", person |-> p, company |-> c, offer |-> o, gstin |-> gstin,
     quote |-> quote, estimated |-> quote.total, final |-> None, advance |-> 0, due |-> quote.total,
     extra |-> 0, payLater |-> payLater, welfare |-> w, reading |-> FALSE]

(* A company's credit is looked at here, and taken nowhere; a GST number   *)
(* may be typed for this trip.                                             *)
Book(b, p, o, payLater) ==
    LET c == ResolveBillingEntity(p)
        quote == ComputeFare(o.trip, o.card)
    IN  /\ booking[b] = Absent
        /\ c # None => CreditAvailable(c, quote.total)
        /\ \E w \in Welfares, gstin \in Gstins \cup {None} :
              Write(b, BookingRow(p, c, o, quote, gstin, payLater, w))
        /\ UNCHANGED <<companies, people, forms, filed,
                       payments, sequence, invoices, ledger, calls, made>>

(* Confirmed by staff and given a car. *)
Confirm(b) ==
    /\ booking[b].status = "PENDING"
    /\ Write(b, [booking[b] EXCEPT !.status = Bound])
    /\ UNCHANGED <<corporateVars, payments, sequence, invoices, ledger, calls, made>>

Start(b) ==
    /\ booking[b].status = Bound
    /\ Write(b, [booking[b] EXCEPT !.status = "ONGOING"])
    /\ UNCHANGED <<corporateVars, payments, sequence, invoices, ledger, calls, made>>

Arrive(b) ==
    /\ booking[b].status = "ONGOING"
    /\ Write(b, [booking[b] EXCEPT !.status = "ARRIVED"])
    /\ UNCHANGED <<corporateVars, payments, sequence, invoices, ledger, calls, made>>

(* The end odometer and its photograph, once there. *)
RecordEndReading(b) ==
    /\ booking[b].status \in {"ONGOING", "ARRIVED"} /\ ~booking[b].reading
    /\ Write(b, [booking[b] EXCEPT !.reading = TRUE])
    /\ UNCHANGED <<corporateVars, payments, sequence, invoices, ledger, calls, made>>

-----------------------------------------------------------------------------
(* Money in and out. *)

Row(b, purpose, cash, amount) ==
    [id |-> Cardinality(payments) + 1, booking |-> b, purpose |-> purpose, cash |-> cash,
     amount |-> amount, reconciled |-> FALSE]

RoomToPay == Cardinality(payments) < MaxPayments

(* A capture, online or by a link.  The balance is never below nothing. *)
Capture(b, amount) ==
    /\ RoomToPay /\ amount \in 1..booking[b].due
    /\ payments' = payments \cup {Row(b, "FARE", FALSE, amount)}
    /\ Write(b, [booking[b] EXCEPT !.advance = @ + amount,
                                   !.due = Larger(0, Fare(b) - (booking[b].advance + amount))])
    /\ UNCHANGED <<corporateVars, sequence, invoices, ledger, calls, made>>

(* The driver takes what is owed, once a booking. *)
CollectCash(b) ==
    LET owed == Fare(b) - booking[b].advance
    IN  /\ RoomToPay /\ booking[b].status \in {"ARRIVED", "COMPLETED"} /\ owed > 0
        /\ \A p \in payments : ~(p.booking = b /\ p.cash /\ p.purpose = "FARE")
        /\ payments' = payments \cup {Row(b, "FARE", TRUE, owed)}
        /\ Write(b, [booking[b] EXCEPT !.advance = Fare(b), !.due = 0])
        /\ UNCHANGED <<corporateVars, sequence, invoices, ledger, calls, made>>

ReconcileCash(p) ==
    /\ p.cash /\ ~p.reconciled
    /\ payments' = (payments \ {p}) \cup {[p EXCEPT !.reconciled = TRUE]}
    /\ UNCHANGED <<corporateVars, booking, sequence, invoices, ledger, calls, made>>

Total(rows) == MapThenSumSet(LAMBDA p : p.amount, rows)
Refundable(b) ==
    Total({p \in payments : p.booking = b /\ p.purpose = "FARE"})
    - Total({p \in payments : p.booking = b /\ p.purpose = "REFUND"})

-----------------------------------------------------------------------------
(* The invoice and the ledger, written in the transaction that completes.  *)

Registration(o) == ResolveConfig(Registrations, o.pickupState)

(* Who is a company's employee now, and which rate that brings. *)
Taxed(row, fare) ==
    LET config == Registration(row.offer)
        corporate == people[row.person].type = "CORPORATE" /\ row.company # None
        gstin == RecipientGstin(row.gstin, row.person, row.company)
    IN  ApplyGst(fare, ResolveRate(config, row.offer.trip.type, corporate), config.inclusive,
                 ResolveSplitKind(config, row.offer.dropState,
                                  IF gstin = None THEN "none" ELSE GstinState[gstin]))

(* The charges a customer asks about, at the share of the fare that is     *)
(* taxable; the first line is what is left.                                *)
InvoiceLines(row, taxable, fare) ==
    LET Scaled(amount) == IF fare > 0 THEN Divide(amount * taxable, fare) ELSE amount
        night == Scaled(row.quote.night)
        bata == Scaled(row.quote.bata)
        extra == Scaled(row.extra)
    IN  [base |-> taxable - night - bata - extra, night |-> night, bata |-> bata, extra |-> extra]

(* An invoice and its lines.                                               *)
IsInvoiceRow(i) ==
    /\ i.number \in Nat \ {0} /\ i.booking \in Bookings
    /\ i.company \in CompanyIds \cup {None} /\ i.fare \in Nat
    /\ \A line \in DOMAIN i.lines : i.lines[line] \in Int

Invoice(b, row, fare) ==
    LET tax == Taxed(row, fare)
    IN  [number |-> sequence + 1, booking |-> b, company |-> row.company, fare |-> fare,
         tax |-> tax, lines |-> InvoiceLines(row, tax.taxable, fare)]

(* The mutant rounds the commission by itself. *)
LedgerSetOfThree(fare, welfare) ==
    [charged |-> fare, driver |-> Percent(fare, DriverPct), welfare |-> Percent(fare, welfare),
     commission |-> Percent(fare, 100 - DriverPct - welfare)]

(* An entry of nothing is not written. *)
LedgerSet(fare, welfare) ==
    LET driver == Percent(fare, DriverPct)
        levy == Percent(fare, welfare)
    IN  [charged |-> fare, driver |-> driver, welfare |-> levy,
         commission |-> Larger(0, fare - driver - levy)]

(* Whether the entries of a booking come to what was charged. *)
DeriveBookingBalance(b) ==
    ledger[b].charged = ledger[b].driver + ledger[b].commission + ledger[b].welfare

Invoiced(b) == \E i \in invoices : i.booking = b

(* A booking that has its invoice gets nothing more. *)
FinaliseBooking(b, row) ==
    IF Invoiced(b) THEN UNCHANGED <<sequence, invoices, ledger>>
    ELSE /\ sequence' = sequence + 1
         /\ invoices' = invoices \cup {Invoice(b, row, row.final)}
         /\ ledger' = [ledger EXCEPT ![b] = LedgerSet(row.final, row.welfare)]

-----------------------------------------------------------------------------
(* The distance driven.  It is priced from the booking read, and written   *)
(* over whatever has happened since, the status looked at no more.         *)

Enter(k, call) == calls' = [calls EXCEPT ![k] = call]
Leave(k) == Enter(k, Idle)
Begin(k, call) == calls[k] = Idle /\ made < MaxCalls /\ made' = made + 1 /\ Enter(k, call)
Untouched == UNCHANGED <<corporateVars, booking, payments, sequence, invoices, ledger>>

(* The allocation is read, then the status. *)
ReportDistance(k, b, km) ==
    /\ HasDriver(b)
    /\ Begin(k, [at |-> "assigned", booking |-> b, km |-> km, goal |-> "report", named |-> None])
    /\ Untouched

CheckUnderway(k) ==
    /\ calls[k].at = "assigned"
    /\ IF booking[calls[k].booking].status \in {"ONGOING", "COMPLETED"}
       THEN Enter(k, [calls[k] EXCEPT !.at = "distance"]) ELSE Leave(k)
    /\ Untouched /\ UNCHANGED made

(* The mutant adds to the fare as it stands. *)
RepricedFareCompounding(b, charge) == Fare(b) + charge
RepricedFare(b, charge) == booking[b].estimated + charge

ReadDistance(k) ==
    /\ calls[k].at = "distance"
    /\ LET b == calls[k].booking
           charge == ComputeExtraDistanceCharge(booking[b].quote, calls[k].km)
           fare == RepricedFare(b, charge)
       IN  Enter(k, [at |-> "price", booking |-> b, goal |-> calls[k].goal, named |-> calls[k].named,
                     charge |-> charge, fare |-> fare, due |-> Larger(0, fare - booking[b].advance)])
    /\ Untouched /\ UNCHANGED made

RecordTripDistance(k) ==
    /\ calls[k].at = "price"
    /\ Write(calls[k].booking, [booking[calls[k].booking] EXCEPT !.final = calls[k].fare,
                                    !.due = calls[k].due, !.extra = calls[k].charge])
    /\ IF calls[k].goal = "report" THEN Leave(k)
       ELSE Enter(k, [at |-> "settle", booking |-> calls[k].booking, named |-> calls[k].named])
    /\ UNCHANGED <<corporateVars, payments, sequence, invoices, ledger, made>>

-----------------------------------------------------------------------------
(* Completion. *)

(* What a rental that ended elsewhere adds for the way back. *)
BillableKm(b, km, back, asDriver) ==
    IF asDriver /\ booking[b].offer.trip.type = "HOURLY" /\ back > 1 THEN km + back ELSE km

(* Staff complete what they please; a driver what they are on, with the    *)
(* end reading in.  Then the distance, if there is one.                    *)
CompleteTrip(k, b, asDriver, km, back, named) ==
    /\ booking[b] # Absent
    /\ asDriver => HasDriver(b) /\ booking[b].reading
    /\ IF km = None THEN Begin(k, [at |-> "settle", booking |-> b, named |-> named])
       ELSE Begin(k, [at |-> "distance", booking |-> b, km |-> BillableKm(b, km, back, asDriver),
                      goal |-> "complete", named |-> named])
    /\ Untouched

Settled(b, named) == IF named # None THEN named ELSE Fare(b)

(* The gate: nothing is owed, unless the ride is paid for afterwards. *)
MayComplete(b, settled) == booking[b].payLater \/ settled <= booking[b].advance

Settle(k) ==
    /\ calls[k].at = "settle"
    /\ LET b == calls[k].booking
           settled == Settled(b, calls[k].named)
       IN  IF MayComplete(b, settled)
           THEN Enter(k, [at |-> "commit", booking |-> b, settled |-> settled,
                          due |-> Larger(0, settled - booking[b].advance)])
           ELSE Leave(k)
    /\ Untouched /\ UNCHANGED made

Completable(status) == status = "ARRIVED"

(* One transaction: the status, the fare, the invoice and the ledger. *)
Commit(k) ==
    /\ calls[k].at = "commit"
    /\ LET b == calls[k].booking
           row == [booking[b] EXCEPT !.status = "COMPLETED", !.final = calls[k].settled,
                                     !.due = calls[k].due]
       IN  IF Completable(booking[b].status)
           THEN Write(b, row) /\ FinaliseBooking(b, row)
           ELSE UNCHANGED <<booking, sequence, invoices, ledger>>
    /\ Leave(k)
    /\ UNCHANGED <<corporateVars, payments, made>>

(* The transaction fails after it drew its number, which stays drawn. *)
RollBack(k) ==
    /\ calls[k].at = "commit" /\ Completable(booking[calls[k].booking].status)
    /\ sequence' = sequence + 1
    /\ Leave(k)
    /\ UNCHANGED <<corporateVars, booking, payments, invoices, ledger, made>>

-----------------------------------------------------------------------------
(* Calling a booking off: what it costs is reckoned first, from the money  *)
(* then paid and the card then active, if any; the fee is all or nothing.  *)

FlatFee(card) == IF card = None THEN 0 ELSE card.cancelFee

CancellationTerms(b, notice, card) ==
    LET fee == IF booking[b].status = "PENDING" THEN 0
               ELSE ComputeCancellationFee(notice, FlatFee(card), FreeMinutes, FreeMinutes).fee
        retained == Smaller(booking[b].advance, fee)
    IN  [refund |-> booking[b].advance - retained, due |-> fee - retained,
         released |-> booking[b].estimated - fee]

LoadCancellable(b) == booking[b].status \in Cancellable

QuoteCancellation(k, b, notice, card) ==
    /\ LoadCancellable(b)
    /\ Begin(k, [at |-> "cancel", booking |-> b, terms |-> CancellationTerms(b, notice, card)])
    /\ Untouched

(* The company gets back the credit that was never taken. *)
Cancel(k) ==
    /\ calls[k].at = "cancel"
    /\ LET b == calls[k].booking
           c == booking[b].company
           released == calls[k].terms.released
       IN  IF booking[b].status \in Cancellable
           THEN /\ Write(b, [booking[b] EXCEPT !.status = "CANCELLED", !.due = calls[k].terms.due])
                /\ companies' = IF c # None /\ released > 0 THEN AdjustCreditUsed(c, -released)
                                ELSE companies
           ELSE UNCHANGED <<booking, companies>>
    /\ Leave(k)
    /\ UNCHANGED <<people, forms, filed, payments, sequence, invoices, ledger, made>>

-----------------------------------------------------------------------------
(* Staff pay money back.  The row is written; the ledger entry has columns *)
(* the table lacks and is swallowed, and the answer is an error, so the    *)
(* call may be made again.                                                 *)

AskRefund(k, b, amount) ==
    /\ booking[b] # Absent /\ amount <= Refundable(b)
    /\ Begin(k, [at |-> "refund", booking |-> b, amount |-> amount])
    /\ Untouched

CreateRefund(k) ==
    /\ calls[k].at = "refund" /\ RoomToPay
    /\ \E original \in BOOLEAN :
          payments' = payments \cup {Row(calls[k].booking, "REFUND", ~original, calls[k].amount)}
    /\ Leave(k)
    /\ UNCHANGED <<corporateVars, booking, sequence, invoices, ledger, made>>

(* The process stops in the middle of a call. *)
Crash(k) == calls[k] # Idle /\ Leave(k) /\ Untouched /\ UNCHANGED made

-----------------------------------------------------------------------------
Handlers(b) ==
    \/ \E p \in People, o \in Offers, payLater \in BOOLEAN : Book(b, p, o, payLater)
    \/ Confirm(b) \/ Start(b) \/ Arrive(b) \/ RecordEndReading(b) \/ CollectCash(b)
    \/ booking[b] # Absent /\ \E amount \in Instalments \cup {booking[b].due} : Capture(b, amount)
    \/ \E k \in Callers :
          \/ \E km \in ReportedKm : ReportDistance(k, b, km)
          \/ \E asDriver \in BOOLEAN, km \in ReportedKm \cup {None}, back \in ReturnKm,
                named \in NamedFares \cup {None} : CompleteTrip(k, b, asDriver, km, back, named)
          \/ \E notice \in Notices, card \in CardsThen \cup {None} :
                QuoteCancellation(k, b, notice, card)
          \/ \E amount \in Instalments : AskRefund(k, b, amount)

Progress(k) ==
    \/ CheckUnderway(k) \/ ReadDistance(k) \/ RecordTripDistance(k)
    \/ Settle(k) \/ Commit(k) \/ RollBack(k) \/ Cancel(k) \/ CreateRefund(k) \/ Crash(k)

Steps ==
    \/ \E b \in Bookings : Handlers(b)
    \/ \E p \in payments : ReconcileCash(p)
    \/ \E k \in Callers : Progress(k)
    \/ CorporateNext /\ UNCHANGED billingVars

Effort == Cardinality(payments) + made + filed
Next == Steps /\ Effort' <= MaxEffort

Spec == Init /\ [][Next]_vars

-----------------------------------------------------------------------------
(* The companies, the bookings, the payments, the invoice numbers and the  *)
(* calls have their types (the tables of schema.prisma).                   *)
TypeOK ==
    /\ CorporateTypeOK
    /\ \A b \in Bookings : booking[b] # Absent =>
          /\ booking[b].status \in Cancellable \cup {"ONGOING", "ARRIVED", "COMPLETED", "CANCELLED"}
          /\ booking[b].final \in Nat \cup {None}
          /\ {booking[b].estimated, booking[b].advance, booking[b].due} \subseteq Nat
          /\ booking[b].company \in CompanyIds \cup {None} /\ booking[b].welfare \in Welfares
    /\ \A p \in payments : p.booking \in Bookings /\ p.amount \in Nat
    /\ \A i \in invoices : IsInvoiceRow(i)
    /\ \A i, j \in invoices : i.number \in 1..sequence /\ (i # j => i.number # j.number)
    /\ sequence \in Nat /\ made \in 0..MaxCalls

(* A completed booking has one invoice and a ledger whose debits come to   *)
(* what was charged, to the paisa, and no other booking has either, what-  *)
(* ever is retried, crossed or rolled back (billing.service's "a booking   *)
(* is never COMPLETED without its books", "a balanced ledger").            *)
BooksBalance ==
    /\ TypeOK
    /\ \A b \in Bookings :
          LET mine == {i \in invoices : i.booking = b}
          IN  IF booking[b].status = "COMPLETED"
              THEN /\ Cardinality(mine) = 1 /\ ledger[b] # None
                   /\ DeriveBookingBalance(b) /\ \A i \in mine : ledger[b].charged = i.fare
              ELSE mine = {} /\ ledger[b] = None

(* Unless the ride is paid for afterwards, what was invoiced as the fare   *)
(* had been paid, though distances are reported and money arrives while    *)
(* the trip is being completed (lifecycle.completeTrip's payment gate).    *)
InvoiceCovered ==
    \A i \in invoices : booking[i.booking].payLater \/ i.fare <= booking[i.booking].advance

(* However often and by whomever distances are reported, the surcharge is  *)
(* that of one report over the estimate (recordTripDistance, "re-reporting *)
(* is idempotent, never compounds").                                       *)
NeverCompounds ==
    \A b \in Bookings : booking[b] # Absent =>
        \/ booking[b].final \in NamedFares \cup {None}
        \/ \E km \in ReportedKm, back \in ReturnKm \cup {0} :
              booking[b].final = booking[b].estimated
                                 + ComputeExtraDistanceCharge(booking[b].quote, km + back)
        \/ booking[b].final = booking[b].estimated

(* What is charged for a trip is its estimate with one surcharge, and has  *)
(* been paid when it is invoiced.                                          *)
ChargedRightly == InvoiceCovered /\ NeverCompounds

(* What a completed booking says it cost is what was invoiced.  Refuted by *)
(* this model: a completion that is refused has written its fare           *)
(* (MCBilling.cfg).                                                        *)
FareAsInvoiced == \A i \in invoices : booking[i.booking].final = i.fare
=============================================================================
