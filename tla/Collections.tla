---------------------------- MODULE Collections ----------------------------
(***************************************************************************)
(* Money asked of someone who does not hold the rider's app: payment links *)
(* and QR codes for a booking, or for a phone number and no booking        *)
(* (paymentCollection.service, razorpay.provider, whatsapp.service), and   *)
(* the capture that comes back (webhook.service, applyCapture and          *)
(* publishCaptureEvents of payment.service).                               *)
(*                                                                         *)
(* The gateway, the payments table and the process that stands between     *)
(* them fail separately: a call is one step for each query or request it   *)
(* makes, joined by calls[c], and it may be abandoned before any of them   *)
(* (a process that stops, a query that fails).  Orders paid in the app,    *)
(* cash and the races of one booking's counters are those of Payments;     *)
(* here the booking is repriced and cancelled in single steps.             *)
(***************************************************************************)
EXTENDS Integers, Sequences, FiniteSets, Functions

CONSTANTS
    None,            \* no booking, no call
    Calls,           \* slots for concurrent requests and deliveries
    Payers,          \* phone numbers asked without a booking
    Asks,            \* <<of, purpose, kind>>: what may be asked of a booking or a phone
    Typed,           \* amounts an admin may type
    Estimate,        \* the booking's first fare
    Totals,          \* fares it may be repriced to
    MaxLost,         \* bound: instruments lost by a process or a request that failed
    MaxInstruments,  \* bound: instruments made at the gateway
    MaxChanges       \* bound: times the booking changes or an instrument lapses

Kinds == {"LINK", "QR"}

Purposes == {"ADVANCE", "BALANCE", "FULL"}

ASSUME CollectionsAssumption ==
    /\ Asks \subseteq ({"booking"} \X Purposes \X Kinds) \cup (Payers \X {"FULL"} \X Kinds)
    /\ Typed \subseteq Nat
    /\ Estimate \in Nat \ {0} /\ Totals \subseteq Nat \ {0}
    /\ None \notin Payers
    /\ MaxLost \in Nat /\ MaxInstruments \in Nat /\ MaxChanges \in Nat

VARIABLES
    booking,         \* its total, the part paid, and whether it is cancelled
    instruments,     \* at the gateway, in the order they were made
    rows,            \* the payments table, in the order of its inserts
    ledger,          \* instruments whose capture has its entry in the ledger
    answered,        \* instruments whose capture event is processed by the webhook
    calls,           \* what each request or delivery in flight has read
    orphans,         \* history: instruments given up, by an error logged or a process gone
    early,           \* history: instruments whose capture was answered before their row
    changes          \* how often the booking changed or an instrument lapsed

collectionVars == <<booking, instruments, rows, ledger, answered, calls, orphans, early, changes>>

(* A lapsed instrument's time has passed, at the gateway and in its row.   *)
Instrument == [kind : Kinds, amount : Nat \ {0}, state : {"OPEN", "CLOSED", "LAPSED"},
               captured : BOOLEAN]

(* of is None for a collection without a booking; payer the phone it asks. *)
Row == [of : {"booking"} \cup Payers, purpose : Purposes,
        instrument : 1 .. MaxInstruments, status : {"CREATED", "CAPTURED", "FAILED"}]

Ask == [of : {"booking"} \cup Payers, purpose : Purposes,
        kind : Kinds, amount : Nat \ {0}]

Idle == [op |-> "idle"]

Call ==
    {Idle}
    \cup [op : {"look"}, ask : Ask]
    \cup [op : {"store"}, ask : Ask, instrument : 1 .. MaxInstruments]
    \cup [op : {"undo"}, instrument : 1 .. MaxInstruments]
    \cup [op : {"tell"}]
    \cup [op : {"close", "mark", "apply", "publish"}, row : 1 .. MaxInstruments]

CollectionTypeOK ==
    /\ booking \in [total : {Estimate} \cup Totals, paid : Nat, dead : BOOLEAN]
    /\ instruments \in Seq(Instrument) /\ Len(instruments) <= MaxInstruments
    /\ rows \in Seq(Row) /\ Len(rows) <= Len(instruments)
    /\ ledger \subseteq DOMAIN instruments
    /\ answered \subseteq DOMAIN instruments
    /\ calls \in [Calls -> Call]
    /\ orphans \subseteq DOMAIN instruments
    /\ early \subseteq DOMAIN instruments
    /\ changes \in 0 .. MaxChanges
-----------------------------------------------------------------------------
(***************************************************************************)
(* Rules.                                                                  *)
(***************************************************************************)

Free(c) == calls[c] = Idle

Answer(c, next) == calls' = [calls EXCEPT ![c] = next]

MayLose == Cardinality(orphans) < MaxLost

Of(r) == instruments[rows[r].instrument]

RowsOf(i) == { r \in DOMAIN rows : rows[r].instrument = i }

(* LIVE_STATUSES; no code writes AUTHORISED or PARTIALLY_PAID on these     *)
(* rows, whose events are captures.                                        *)
Live(r) == rows[r].status = "CREATED"

(* loadBooking refuses a cancelled or expired one.                         *)
Collectable == ~booking.dead

(* balance_due, the greater of nothing and what is left of the total.      *)
BalanceDue == IF booking.paid < booking.total THEN booking.total - booking.paid ELSE 0

(* resolveAmount: what is outstanding, or a part of it that was typed.     *)
ResolveAmount(purpose, amount) ==
    LET outstanding == IF purpose = "FULL" THEN booking.total ELSE BalanceDue IN
    /\ amount > 0 /\ amount <= outstanding
    /\ amount \in Typed \cup {outstanding}

(* resolveStandaloneAmount: nothing to derive it from.                     *)
ResolveStandaloneAmount(amount) == amount > 0 /\ amount \in Typed

Unlapsed(r) == Of(r).state # "LAPSED"

(* findReusable: the newest live row of the booking or the phone and of    *)
(* the kind, if it asks for the same amount; its purpose is not compared.  *)
FindReusable(ask) ==
    LET open == { r \in DOMAIN rows : /\ rows[r].of = ask.of /\ Of(r).kind = ask.kind
                                      /\ Live(r) /\ Unlapsed(r) }
    IN  { r \in open : (\A q \in open : q <= r) /\ Of(r).amount = ask.amount }

(* uq_payment_open_per_purpose, over the other rows; a row without a       *)
(* booking is equal to none.                                               *)
Clashes(ask, others) ==
    \E r \in others : /\ ask.of = "booking" /\ rows[r].of = "booking"
                      /\ rows[r].purpose = ask.purpose /\ rows[r].status # "FAILED"
-----------------------------------------------------------------------------
(***************************************************************************)
(* Asking.                                                                 *)
(***************************************************************************)

(* createLink, createQr and the bot's createPaymentLink: the booking is    *)
(* read and the amount settled.                                            *)
AskForBooking(c, purpose, kind, amount) ==
    /\ Free(c) /\ Collectable /\ <<"booking", purpose, kind>> \in Asks
    /\ ResolveAmount(purpose, amount)
    /\ Answer(c, [op |-> "look", ask |-> [of |-> "booking", purpose |-> purpose,
                                          kind |-> kind, amount |-> amount]])
    /\ UNCHANGED <<booking, instruments, rows, ledger, answered, orphans, early, changes>>

(* createStandaloneLink and createStandaloneQr *)
AskStandalone(c, payer, kind, amount) ==
    /\ Free(c) /\ <<payer, "FULL", kind>> \in Asks
    /\ ResolveStandaloneAmount(amount)
    /\ Answer(c, [op |-> "look", ask |-> [of |-> payer, purpose |-> "FULL",
                                          kind |-> kind, amount |-> amount]])
    /\ UNCHANGED <<booking, instruments, rows, ledger, answered, orphans, early, changes>>

(* create: an instrument that asks for the same is returned instead ...    *)
Reuse(c) ==
    /\ calls[c].op = "look" /\ FindReusable(calls[c].ask) # {}
    /\ Answer(c, Idle)
    /\ UNCHANGED <<booking, instruments, rows, ledger, answered, orphans, early, changes>>

(* A link for the whole amount, not for a part of it, until it is paid, is *)
(* cancelled or lapses.                                                    *)
NewLink(amount) == [kind |-> "LINK", amount |-> amount, state |-> "OPEN", captured |-> FALSE]

(* A UPI code for a fixed amount that takes one payment.                   *)
NewQrCode(amount) == [kind |-> "QR", amount |-> amount, state |-> "OPEN", captured |-> FALSE]

NewInstrument(ask) == IF ask.kind = "LINK" THEN NewLink(ask.amount) ELSE NewQrCode(ask.amount)

(* ... or createPaymentLink and createQrCode make one at the gateway,      *)
(* which sends a link by SMS itself.  The reply may be lost, which leaves  *)
(* what was made.                                                          *)
MakeInstrument(c, replied) ==
    LET ask == calls[c].ask
        i == Len(instruments) + 1
    IN
    /\ calls[c].op = "look" /\ FindReusable(ask) = {}
    /\ i <= MaxInstruments /\ (replied \/ MayLose)
    /\ instruments' = Append(instruments, NewInstrument(ask))
    /\ Answer(c, IF replied THEN [op |-> "store", ask |-> ask, instrument |-> i] ELSE Idle)
    /\ orphans' = IF replied THEN orphans ELSE orphans \cup {i}
    /\ UNCHANGED <<booking, rows, ledger, answered, early, changes>>

(* persist: the row is inserted, and the message to the payer composed.    *)
Persist(c) ==
    LET ask == calls[c].ask
        i == calls[c].instrument
    IN
    /\ calls[c].op = "store" /\ ~Clashes(ask, DOMAIN rows)
    /\ rows' = Append(rows, [of |-> ask.of, purpose |-> ask.purpose,
                             instrument |-> i, status |-> "CREATED"])
    /\ early' = IF i \in answered THEN early \cup {i} ELSE early
    /\ Answer(c, [op |-> "tell"])
    /\ UNCHANGED <<booking, instruments, ledger, answered, orphans, changes>>

(* A clash with the unique index, or any other failure of the insert.      *)
PersistFails(c) ==
    /\ calls[c].op = "store"
    /\ Answer(c, [op |-> "undo", instrument |-> calls[c].instrument])
    /\ UNCHANGED <<booking, instruments, rows, ledger, answered, orphans, early, changes>>

(* The gateway's cancelPaymentLink and closeQrCode: they refuse what is no *)
(* longer open.                                                            *)
CloseInstrument(i) ==
    /\ instruments[i].state = "OPEN" /\ ~instruments[i].captured
    /\ instruments' = [instruments EXCEPT ![i].state = "CLOSED"]

(* rollbackInstrument: what could not be stored is cancelled again ...     *)
RollBack(c) ==
    /\ calls[c].op = "undo" /\ CloseInstrument(calls[c].instrument)
    /\ Answer(c, Idle)
    /\ UNCHANGED <<booking, rows, ledger, answered, orphans, early, changes>>

(* ... or, when that fails as well, logged as ORPHANED.                    *)
RollBackFails(c) ==
    /\ calls[c].op = "undo" /\ MayLose
    /\ orphans' = orphans \cup {calls[c].instrument}
    /\ Answer(c, Idle)
    /\ UNCHANGED <<booking, instruments, rows, ledger, answered, early, changes>>
-----------------------------------------------------------------------------
(***************************************************************************)
(* Telling and cancelling.                                                 *)
(***************************************************************************)

(* shareOnWhatsApp reads a live, unexpired row.                            *)
ShareRead(c, r) ==
    /\ Free(c) /\ Live(r) /\ Unlapsed(r)
    /\ Answer(c, [op |-> "tell"])
    /\ UNCHANGED <<booking, instruments, rows, ledger, answered, orphans, early, changes>>

(* resend: of a link alone, which the gateway sends again.                 *)
ResendRead(c, r) ==
    /\ Of(r).kind = "LINK" /\ ShareRead(c, r)

(* shareFor, sharePaymentLink, sendViaBot: by the bot, in the process or   *)
(* through its service, or as a deep link for the admin to tap; a failed   *)
(* send is part of the answer.  No state of this system is changed.        *)
Tell(c) ==
    /\ calls[c].op = "tell" /\ Answer(c, Idle)
    /\ UNCHANGED <<booking, instruments, rows, ledger, answered, orphans, early, changes>>

CancelAtOnce(r) == [op |-> "mark", row |-> r]

CancelFirst(r) == [op |-> "close", row |-> r]

(* cancel reads a live row, cancels its instrument at the gateway first,   *)
(* and only then marks the row, whatever it has become.                    *)
CancelRead(c, r) ==
    /\ Free(c) /\ Live(r)
    /\ Answer(c, CancelFirst(r))
    /\ UNCHANGED <<booking, instruments, rows, ledger, answered, orphans, early, changes>>

CancelAtGateway(c) ==
    /\ calls[c].op = "close" /\ CloseInstrument(rows[calls[c].row].instrument)
    /\ Answer(c, [op |-> "mark", row |-> calls[c].row])
    /\ UNCHANGED <<booking, rows, ledger, answered, orphans, early, changes>>

CancelMark(c) ==
    /\ calls[c].op = "mark"
    /\ rows' = [rows EXCEPT ![calls[c].row].status = "FAILED"]
    /\ Answer(c, Idle)
    /\ UNCHANGED <<booking, instruments, ledger, answered, orphans, early, changes>>
-----------------------------------------------------------------------------
(***************************************************************************)
(* The gateway and the payer (external).  A payment may be begun as long   *)
(* as the instrument is open, and captured when it has been cancelled or   *)
(* has lapsed since.                                                       *)
(***************************************************************************)

Capture(i) ==
    /\ ~instruments[i].captured
    /\ instruments' = [instruments EXCEPT ![i].captured = TRUE]
    /\ UNCHANGED <<booking, rows, ledger, answered, calls, orphans, early, changes>>

Lapse(i) ==
    /\ changes < MaxChanges /\ instruments[i].state = "OPEN"
    /\ instruments' = [instruments EXCEPT ![i].state = "LAPSED"]
    /\ changes' = changes + 1
    /\ UNCHANGED <<booking, rows, ledger, answered, calls, orphans, early>>

-----------------------------------------------------------------------------
(***************************************************************************)
(* The capture.  Its event, payment_link.paid or qr_code.credited, is sent *)
(* until it is answered.  The gateway's payment.captured for the same      *)
(* money names an order no row has: it is answered, and left out here.     *)
(***************************************************************************)

MatchIdOrderFirst(i) == {}

(* parseWebhook takes the id of the link or the code before the order_id   *)
(* of its payment, and applyGatewayEvent finds the row by it.              *)
MatchId(i) == RowsOf(i)

FoundAndTold(r) == [op |-> "publish", row |-> r]

(* Nothing is announced from inside the transaction.                       *)
Found(r) == [op |-> "apply", row |-> r]

(* process opens its transaction and finds the row: with none, or one that *)
(* may not advance (not a forward move), the event is answered and nothing *)
(* else is changed.                                                        *)
Deliver(c, i) ==
    /\ Free(c) /\ instruments[i].captured /\ i \notin answered
    /\ \/ \E r \in MatchId(i) :
            /\ Live(r) /\ Answer(c, Found(r))
            /\ UNCHANGED answered
       \/ /\ \A r \in MatchId(i) : ~Live(r)
          /\ answered' = answered \cup {i}
          /\ UNCHANGED calls
    /\ UNCHANGED <<booking, instruments, rows, ledger, orphans, early, changes>>

(* A standalone capture writes its ledger entry and moves no counter.      *)
Counts(r) == rows[r].of = "booking"

(* applyCapture in the same transaction: the row by its id, though it may  *)
(* have been cancelled since and another have its place, the ledger entry, *)
(* whose reference is unique, the booking's counters, the event.           *)
Apply(c) ==
    LET r == calls[c].row
        i == rows[r].instrument
    IN
    /\ calls[c].op = "apply" /\ i \notin ledger /\ ~Clashes(rows[r], DOMAIN rows \ {r})
    /\ rows' = [rows EXCEPT ![r].status = "CAPTURED"]
    /\ ledger' = ledger \cup {i}
    /\ booking' = IF Counts(r) THEN [booking EXCEPT !.paid = @ + Of(r).amount] ELSE booking
    /\ answered' = answered \cup {i}
    /\ Answer(c, [calls[c] EXCEPT !.op = "publish"])
    /\ UNCHANGED <<instruments, orphans, early, changes>>

(* publishCaptureEvents, after the commit: the socket event, the push to   *)
(* the customer, the bot's message.                                        *)
Publish(c) ==
    /\ calls[c].op = "publish"
    /\ Answer(c, Idle)
    /\ UNCHANGED <<booking, instruments, rows, ledger, answered, orphans, early, changes>>
-----------------------------------------------------------------------------
(***************************************************************************)
(* The booking, and what may stop.                                         *)
(***************************************************************************)

(* Repriced by the distance driven or a change of class; cancelled or      *)
(* expired.                                                                *)
Reprice(total) ==
    /\ changes < MaxChanges /\ ~booking.dead /\ total # booking.total
    /\ booking' = [booking EXCEPT !.total = total]
    /\ changes' = changes + 1
    /\ UNCHANGED <<instruments, rows, ledger, answered, calls, orphans, early>>

Die ==
    /\ changes < MaxChanges /\ ~booking.dead
    /\ booking' = [booking EXCEPT !.dead = TRUE]
    /\ changes' = changes + 1
    /\ UNCHANGED <<instruments, rows, ledger, answered, calls, orphans, early>>

(* The process stops, or a query or a request to the gateway fails.  An    *)
(* instrument in its hands is then known to nobody.                        *)
Abandon(c) ==
    /\ ~Free(c) /\ (calls[c].op \in {"store", "undo"} => MayLose)
    /\ orphans' = IF calls[c].op \in {"store", "undo"} THEN orphans \cup {calls[c].instrument} ELSE orphans
    /\ Answer(c, Idle)
    /\ UNCHANGED <<booking, instruments, rows, ledger, answered, early, changes>>

CollectionInit ==
    /\ booking = [total |-> Estimate, paid |-> 0, dead |-> FALSE]
    /\ instruments = <<>> /\ rows = <<>> /\ ledger = {} /\ answered = {}
    /\ calls = [c \in Calls |-> Idle]
    /\ orphans = {} /\ early = {} /\ changes = 0

AskStep(c) ==
    \/ \E purpose \in Purposes, kind \in Kinds : \E amount \in Typed \cup {BalanceDue, booking.total} :
            AskForBooking(c, purpose, kind, amount)
    \/ \E payer \in Payers, kind \in Kinds, amount \in Typed : AskStandalone(c, payer, kind, amount)
    \/ Reuse(c) \/ \E replied \in BOOLEAN : MakeInstrument(c, replied)
    \/ Persist(c) \/ PersistFails(c) \/ RollBack(c) \/ RollBackFails(c)

RowStep(c) ==
    \/ \E r \in DOMAIN rows : ShareRead(c, r) \/ ResendRead(c, r) \/ CancelRead(c, r)
    \/ Tell(c) \/ CancelAtGateway(c) \/ CancelMark(c)

CaptureStep(c) ==
    \/ \E i \in DOMAIN instruments : Deliver(c, i)
    \/ Apply(c) \/ Publish(c)

OutsideStep ==
    \/ \E i \in DOMAIN instruments : Capture(i) \/ Lapse(i)
    \/ \E total \in Totals : Reprice(total)
    \/ Die

CollectionNext ==
    \/ OutsideStep
    \/ \E c \in Calls : AskStep(c) \/ RowStep(c) \/ CaptureStep(c) \/ Abandon(c)
=============================================================================
