--------------------------- MODULE PaymentsProofs ---------------------------
(***************************************************************************)
(* Theorems about Payments, for any fares, prices, ways of asking, number  *)
(* of rows and of payments, and any number of requests side by side; and   *)
(* about Trips, for any bookings, drivers, cars, stops and readings, any   *)
(* tables to start with that are in order, and any number of requests.     *)
(***************************************************************************)
EXTENDS Payments, Trips, Functions, DataTheorems

(* Events are of payments that were tried, payments of rows that exist.    *)
Refers ==
    /\ IsFiniteSet(ledger)
    /\ \A e \in emitted : e[1] \in DOMAIN attempt
    /\ \A n \in DOMAIN attempt : attempt[n].row \in DOMAIN rows

(* What a request carries from its read to its write is still covered by   *)
(* the ledger when it writes, because the ledger only grows: cash counts   *)
(* as paid no more than was recorded when it was read and what it adds     *)
(* itself, and a completion passed the gate on money recorded then.        *)
Carried(q) ==
    /\ q.op \in {"deliver", "apply"} => q.event \in emitted
    /\ q.op = "cash" => q.total <= Recorded + q.balance
    /\ q.op = "complete" /\ Mode # "ZERO" => q.settled <= Recorded

IndInv ==
    /\ TypeOK /\ Refers /\ CreditIsCaptured /\ CountersBacked
    /\ \A r \in Requests : Carried(req[r])

-----------------------------------------------------------------------------
(* The rules give amounts. *)
LEMMA OwedTyped == ASSUME NEW fare \in Nat, NEW paid \in Nat PROVE Owed(fare, paid) \in Nat
BY DEF Owed

LEMMA SplitTyped == ASSUME NEW total \in Nat PROVE SplitAdvance(total) \in Nat
BY PaymentsAssumption DEF SplitAdvance

LEMMA AmountTyped ==
    ASSUME TypeOK, NEW purpose \in Purposes PROVE AmountForPurpose(purpose) \in Nat
BY PaymentsAssumption DEF TypeOK, AmountForPurpose, Purposes

LEMMA StatusIs == PaymentStatuses = {"CREATED", "FAILED", "AUTHORISED", "CAPTURED"}
BY DEF PaymentStatuses, Rank

LEMMA RowTyped ==
    ASSUME TypeOK, NEW o \in DOMAIN rows
    PROVE  o \in 1 .. MaxRows /\ rows[o] \in PaymentRow /\ rows[o].ordered \in Nat
<1>1. Len(rows) \in Nat /\ DOMAIN rows = 1 .. Len(rows) /\ Len(rows) <= MaxRows
  BY DEF TypeOK
<1>2. rows[o] \in PaymentRow
  BY DEF TypeOK
<1> QED
  BY <1>1, <1>2, PaymentsAssumption DEF PaymentRow

LEMMA FareTyped ==
    TypeOK => /\ booking.estimate \in Nat /\ booking.fare \in Nat /\ booking.paid \in Nat
              /\ booking.due \in Nat /\ booking.status \in BookingStatuses
BY DEF TypeOK

(* What the ledger holds is an amount, and a credit under a new reference  *)
(* adds its own.                                                           *)
LEMMA RecordedTyped ==
    ASSUME IsFiniteSet(ledger), ledger \subseteq Credit PROVE Recorded \in Nat
<1> DEFINE f == [c \in ledger |-> c.amount]
<1>1. \A c \in ledger : f[c] \in Nat
  BY DEF Credit
<1>2. SumFunctionOnSet(f, ledger) \in Nat
  BY <1>1, SumType, Nat \in {Nat, Int}
<1> QED
  BY <1>2 DEF Recorded

LEMMA CreditAdds ==
    ASSUME IsFiniteSet(ledger), ledger \subseteq Credit,
           NEW c \in Credit, Unrecorded(c.ref), ledger' = ledger \cup {c}
    PROVE  /\ Recorded' = Recorded + c.amount /\ Recorded' \in Nat
           /\ IsFiniteSet(ledger') /\ ledger' \subseteq Credit
<1> DEFINE f == [d \in ledger |-> d.amount]
           g == [d \in ledger \cup {c} |-> d.amount]
<1>1. c \notin ledger /\ c.amount \in Nat
  BY DEF Unrecorded, Credit
<1>2. Recorded' = SumFunctionOnSet(g, ledger \cup {c}) /\ Recorded = SumFunctionOnSet(f, ledger)
  BY DEF Recorded
<1>3. (\A d \in ledger : f[d] = g[d]) /\ g[c] = c.amount
  OBVIOUS
<1>4. \A d \in ledger \cup {c} : g[d] \in Int
  BY DEF Credit
<1> HIDE DEF f, g
<1>5. SumFunctionOnSet(g, ledger \cup {c}) = g[c] + SumFunctionOnSet(g, ledger)
  BY <1>1, <1>4, SumAdd
<1>6. SumFunctionOnSet(f, ledger) = SumFunctionOnSet(g, ledger)
  BY <1>3, SumSame
<1>7. Recorded' = c.amount + Recorded
  BY <1>2, <1>3, <1>5, <1>6
<1>8. Recorded \in Nat
  BY RecordedTyped
<1>9. IsFiniteSet(ledger') /\ ledger' \subseteq Credit
  BY FS_AddElement
<1> QED
  BY <1>1, <1>7, <1>8, <1>9

-----------------------------------------------------------------------------
LEMMA Initially == Init => IndInv
<1> SUFFICES ASSUME Init PROVE IndInv
  OBVIOUS
<1>1. IsFiniteSet(ledger) /\ Recorded \in Nat
  BY FS_EmptySet, RecordedTyped DEF Init
<1>2. TypeOK
  <2>1. SplitAdvance(Estimate) \in Nat /\ Estimate \in Nat
    BY PaymentsAssumption, SplitTyped
  <2>2. Idle \in Request
    BY DEF Idle, Request
  <2> QED
    BY <2>1, <2>2, PaymentsAssumption DEF Init, TypeOK, BookingStatuses
<1>3. Refers /\ CreditIsCaptured
  BY <1>1 DEF Init, Refers, CreditIsCaptured
<1>4. CountersBacked /\ \A r \in Requests : Carried(req[r])
  BY <1>1 DEF Init, CountersBacked, Carried, Idle
<1> QED
  BY <1>2, <1>3, <1>4 DEF IndInv

(* A request that moves on carries what its new stage needs; the others    *)
(* carry what they did.                                                    *)
LEMMA AnswerTyped ==
    ASSUME TypeOK, NEW r \in Requests, NEW next \in Request, Answer(r, next)
    PROVE  /\ req' \in [Requests -> Request]
           /\ req'[r] = next /\ \A s \in Requests \ {r} : req'[s] = req[s]
BY DEF TypeOK, Answer

LEMMA CarriedOn ==
    ASSUME NEW q \in Request, Carried(q), emitted \subseteq emitted',
           Recorded \in Nat, Recorded' \in Nat, Recorded <= Recorded'
    PROVE  Carried(q)'
<1>1. q.op = "cash" => q.total \in Nat /\ q.balance \in Nat
  BY DEF Request
<1>2. q.op = "complete" => q.settled \in Nat
  BY DEF Request
<1> QED
  BY <1>1, <1>2 DEF Carried

LEMMA AllCarried ==
    ASSUME IndInv, NEW r \in Requests, NEW next \in Request, Answer(r, next), Carried(next)',
           emitted \subseteq emitted', Recorded' \in Nat, Recorded <= Recorded'
    PROVE  \A s \in Requests : Carried(req[s])'
<1>1. Recorded \in Nat
  BY RecordedTyped DEF IndInv, TypeOK, Refers
<1>2. req'[r] = next /\ \A s \in Requests \ {r} : req'[s] = req[s]
  BY AnswerTyped DEF IndInv
<1>3. ASSUME NEW s \in Requests \ {r} PROVE Carried(req[s])'
  <2>1. req[s] \in Request /\ Carried(req[s])
    BY <1>3 DEF IndInv, TypeOK
  <2>2. ASSUME NEW q, q = req[s] PROVE Carried(q)'
    BY <1>1, <2>1, <2>2, CarriedOn
  <2> QED
    BY <1>2, <2>2 DEF Carried
<1> QED
  BY <1>2, <1>3 DEF Carried

LEMMA AllCarriedStill ==
    ASSUME IndInv, UNCHANGED req, emitted \subseteq emitted', UNCHANGED ledger
    PROVE  \A s \in Requests : Carried(req[s])'
<1>1. Recorded \in Nat /\ Recorded' = Recorded
  BY RecordedTyped DEF IndInv, TypeOK, Refers, Recorded
<1>2. ASSUME NEW s \in Requests PROVE Carried(req[s])'
  <2>1. req[s] \in Request /\ Carried(req[s])
    BY DEF IndInv, TypeOK
  <2>2. ASSUME NEW q, q = req[s] PROVE Carried(q)'
    BY <1>1, <2>1, <2>2, CarriedOn
  <2> QED
    BY <2>2 DEF Carried
<1> QED
  BY <1>2

-----------------------------------------------------------------------------
(* A step of a handler that writes nothing but what it has read.           *)
LEMMA ReadKeeps ==
    ASSUME IndInv, NEW r \in Requests, NEW next \in Request, Answer(r, next), Carried(next),
           UNCHANGED <<booking, rows, ledger, processed, gateway>>
    PROVE  IndInv'
<1>1. Recorded \in Nat /\ Recorded' = Recorded
  BY RecordedTyped DEF IndInv, TypeOK, Refers, Recorded
<1>2. Carried(next)'
  BY <1>1 DEF Carried, gateway
<1>3. \A s \in Requests : Carried(req[s])'
  BY <1>1, <1>2, AllCarried DEF gateway
<1>4. TypeOK'
  BY AnswerTyped DEF IndInv, TypeOK, gateway
<1>5. Refers' /\ CreditIsCaptured' /\ CountersBacked'
  BY <1>1 DEF IndInv, Refers, CreditIsCaptured, CountersBacked, gateway
<1> QED
  BY <1>3, <1>4, <1>5 DEF IndInv

LEMMA IdleCarried == Idle \in Request /\ Carried(Idle)
BY DEF Idle, Request, Carried

LEMMA EndKeeps ==
    ASSUME IndInv, NEW r \in Requests, ApplyAborted(r) \/ Abandon(r)
    PROVE  IndInv'
BY ReadKeeps, IdleCarried DEF ApplyAborted, Abandon

LEMMA AskKeeps ==
    ASSUME IndInv, NEW r \in Requests, NEW purpose \in Purposes,
           OrderRead(r, purpose) \/ \E amount \in Typed \cup {booking.due, booking.fare} :
                                        LinkRead(r, purpose, amount)
    PROVE  IndInv'
<1>1. ASSUME NEW kind \in {"CHECKOUT", "LINK"}, NEW amount \in Nat,
             Answer(r, [op |-> "insert", purpose |-> purpose, kind |-> kind, amount |-> amount]),
             UNCHANGED <<booking, rows, ledger, processed, gateway>>
      PROVE  IndInv'
  <2> DEFINE next == [op |-> "insert", purpose |-> purpose, kind |-> kind, amount |-> amount]
  <2>1. next \in Request /\ Carried(next)
    BY DEF Request, Carried
  <2> HIDE DEF next
  <2> QED
    BY <1>1, <2>1, ReadKeeps DEF next
<1>2. CASE OrderRead(r, purpose)
  BY <1>1, <1>2, AmountTyped DEF OrderRead, IndInv
<1>3. ASSUME NEW amount \in Typed \cup {booking.due, booking.fare}, LinkRead(r, purpose, amount)
      PROVE  IndInv'
  BY <1>1, <1>3, FareTyped, PaymentsAssumption DEF LinkRead, IndInv
<1> QED
  BY <1>2, <1>3

LEMMA CashReadKeeps ==
    ASSUME IndInv, NEW r \in Requests, CashRead(r)
    PROVE  IndInv'
<1> DEFINE next == [op |-> "cash", total |-> booking.fare, balance |-> booking.fare - booking.paid]
<1>1. Recorded \in Nat
  BY RecordedTyped DEF IndInv, TypeOK, Refers
<1>2. booking.paid <= Recorded /\ booking.paid < booking.fare
  BY DEF IndInv, CountersBacked, CashRead
<1>3. next \in Request /\ Carried(next)
  BY <1>1, <1>2, FareTyped DEF IndInv, Request, Carried
<1> HIDE DEF next
<1> QED
  BY <1>3, ReadKeeps DEF CashRead, next

LEMMA CompleteReadKeeps ==
    ASSUME IndInv, NEW r \in Requests, NEW settled \in Named \cup {booking.fare},
           CompleteRead(r, settled)
    PROVE  IndInv'
<1> DEFINE next == [op |-> "complete", settled |-> settled, paid |-> booking.paid]
<1>1. Recorded \in Nat
  BY RecordedTyped DEF IndInv, TypeOK, Refers
<1>2. settled \in Nat /\ booking.paid \in Nat
  BY FareTyped, PaymentsAssumption DEF IndInv
<1>3. booking.paid <= Recorded /\ (Mode # "ZERO" => settled <= booking.paid)
  BY DEF IndInv, CountersBacked, CompleteRead, GateOpen
<1>4. next \in Request /\ Carried(next)
  BY <1>1, <1>2, <1>3 DEF Request, Carried
<1> HIDE DEF next
<1> QED
  BY <1>4, ReadKeeps DEF CompleteRead, next

LEMMA BookingReadsKeep ==
    ASSUME IndInv, NEW r \in Requests,
           \/ \E price \in Prices : RepriceRead(r, price)
           \/ \E extra \in Extras, finish \in BOOLEAN : ChargeRead(r, extra, finish)
           \/ \E fee \in {0, booking.estimate} : CancelRead(r, fee)
           \/ \E who \in Expirers : ExpireRead(r, who)
    PROVE  IndInv'
<1> USE FareTyped, PaymentsAssumption
<1>1. ASSUME NEW next \in Request, next.op \in {"reprice", "charge", "cancel", "expire"},
             Answer(r, next), UNCHANGED <<booking, rows, ledger, processed, gateway>>
      PROVE  IndInv'
  BY <1>1, ReadKeeps DEF Carried
<1>2. ASSUME NEW price \in Prices, RepriceRead(r, price) PROVE IndInv'
  <2>1. [op |-> "reprice", price |-> price, paid |-> booking.paid] \in Request
    BY DEF IndInv, Request
  <2> QED
    BY <1>1, <1>2, <2>1 DEF RepriceRead
<1>3. ASSUME NEW extra \in Extras, NEW finish \in BOOLEAN, ChargeRead(r, extra, finish)
      PROVE  IndInv'
  <2>1. [op |-> "charge", extra |-> extra, paid |-> booking.paid, finish |-> finish] \in Request
    BY DEF IndInv, Request
  <2> QED
    BY <1>1, <1>3, <2>1 DEF ChargeRead
<1>4. ASSUME NEW fee \in {0, booking.estimate}, CancelRead(r, fee) PROVE IndInv'
  <2>1. [op |-> "cancel", fee |-> fee, paid |-> booking.paid] \in Request
    BY DEF IndInv, Request
  <2> QED
    BY <1>1, <1>4, <2>1 DEF CancelRead
<1>5. ASSUME NEW who \in Expirers, ExpireRead(r, who) PROVE IndInv'
  <2>1. [op |-> "expire"] \in Request
    BY DEF Request
  <2> QED
    BY <1>1, <1>5, <2>1 DEF ExpireRead
<1> QED
  BY <1>2, <1>3, <1>4, <1>5

-----------------------------------------------------------------------------
(* A step that writes the booking, but not what it counts as paid.         *)
LEMMA BookingKeeps ==
    ASSUME IndInv, TypeOK', \A s \in Requests : Carried(req[s])',
           booking'.paid = booking.paid, UNCHANGED <<rows, ledger, processed, gateway>>
    PROVE  IndInv'
<1>1. Recorded' = Recorded
  BY DEF Recorded
<1> QED
  BY <1>1 DEF IndInv, Refers, CreditIsCaptured, CountersBacked, gateway

LEMMA MoveOnKeeps ==
    ASSUME IndInv, NEW from \in BookingStatuses, NEW to \in BookingStatuses, MoveOn(from, to)
    PROVE  IndInv'
<1>1. TypeOK'
  BY DEF IndInv, TypeOK, MoveOn, gateway
<1>2. \A s \in Requests : Carried(req[s])'
  BY AllCarriedStill DEF MoveOn, gateway
<1>3. booking'.paid = booking.paid
  BY DEF IndInv, TypeOK, MoveOn
<1> QED
  BY <1>1, <1>2, <1>3, BookingKeeps DEF MoveOn

LEMMA BookingCommitsKeep ==
    ASSUME IndInv, NEW r \in Requests,
           RepriceCommit(r) \/ ChargeCommit(r) \/ CompleteCommit(r) \/ CancelCommit(r) \/ ExpireCommit(r)
    PROVE  IndInv'
<1>1. req[r] \in Request
  BY DEF IndInv, TypeOK
<1>2. ASSUME NEW next \in Request, next.op \in {"idle", "finish"}, Answer(r, next),
             booking' \in [status : BookingStatuses, estimate : Nat, fixed : BOOLEAN, fare : Nat,
                           paid : Nat, due : Nat, advance : Nat],
             booking'.paid = booking.paid, UNCHANGED <<rows, ledger, processed, gateway>>
      PROVE  IndInv'
  <2>1. Recorded \in Nat /\ Recorded' = Recorded
    BY <1>2, RecordedTyped DEF IndInv, TypeOK, Refers, Recorded
  <2>2. Carried(next)'
    BY <1>2 DEF Carried
  <2>3. \A s \in Requests : Carried(req[s])'
    BY <1>2, <2>1, <2>2, AllCarried DEF gateway
  <2>4. TypeOK'
    BY <1>2, AnswerTyped DEF IndInv, TypeOK, gateway
  <2> QED
    BY <1>2, <2>3, <2>4, BookingKeeps
<1>3. Idle \in Request /\ Idle.op = "idle"
  BY DEF Idle, Request
<1>4. CASE RepriceCommit(r)
  <2>1. req[r].price \in Nat /\ req[r].paid \in Nat
    BY <1>1, <1>4 DEF RepriceCommit, Request
  <2>2. Owed(req[r].price, req[r].paid) \in Nat /\ SplitAdvance(req[r].price) \in Nat
    BY <2>1, OwedTyped, SplitTyped
  <2> QED
    BY <1>2, <1>3, <1>4, <2>1, <2>2 DEF RepriceCommit, IndInv, TypeOK
<1>5. CASE ChargeCommit(r)
  <2> DEFINE fare == booking.estimate + req[r].extra
  <2>1. fare \in Nat /\ req[r].paid \in Nat
    BY <1>1, <1>5, FareTyped DEF ChargeCommit, Request, IndInv
  <2>2. Owed(fare, req[r].paid) \in Nat
    BY <2>1, OwedTyped
  <2>3. [op |-> "finish"] \in Request
    BY DEF Request
  <2> HIDE DEF fare
  <2>4. booking' = [booking EXCEPT !.fixed = TRUE, !.fare = fare, !.due = Owed(fare, req[r].paid)]
    BY <1>5 DEF ChargeCommit, fare
  <2>5. booking'.paid = booking.paid
        /\ booking' \in [status : BookingStatuses, estimate : Nat, fixed : BOOLEAN, fare : Nat,
                         paid : Nat, due : Nat, advance : Nat]
    BY <2>1, <2>2, <2>4 DEF IndInv, TypeOK
  <2>6. PICK next \in { Idle, [op |-> "finish"] } : Answer(r, next)
    BY <1>5 DEF ChargeCommit
  <2> QED
    BY <1>2, <1>3, <1>5, <2>3, <2>5, <2>6 DEF ChargeCommit
<1>6. CASE CompleteCommit(r)
  <2>1. req[r].settled \in Nat /\ req[r].paid \in Nat
    BY <1>1, <1>6 DEF CompleteCommit, Request
  <2>2. Owed(req[r].settled, req[r].paid) \in Nat
    BY <2>1, OwedTyped
  <2> QED
    BY <1>2, <1>3, <1>6, <2>1, <2>2 DEF CompleteCommit, IndInv, TypeOK, BookingStatuses
<1>7. CASE CancelCommit(r)
  <2>1. req[r].fee \in Nat /\ req[r].paid \in Nat
    BY <1>1, <1>7 DEF CancelCommit, Request
  <2>2. Owed(req[r].fee, req[r].paid) \in Nat
    BY <2>1, OwedTyped
  <2> QED
    BY <1>2, <1>3, <1>7, <2>1, <2>2 DEF CancelCommit, IndInv, TypeOK, BookingStatuses
<1>8. CASE ExpireCommit(r)
  BY <1>2, <1>3, <1>8 DEF ExpireCommit, IndInv, TypeOK, BookingStatuses
<1> QED
  BY <1>4, <1>5, <1>6, <1>7, <1>8

-----------------------------------------------------------------------------
(* The rows and the gateway. *)
LEMMA InsertKeeps ==
    ASSUME IndInv, NEW r \in Requests, InsertRow(r)
    PROVE  IndInv'
<1>1. Recorded \in Nat /\ Recorded' = Recorded
  BY RecordedTyped DEF IndInv, TypeOK, Refers, Recorded, InsertRow
<1>2. \A s \in Requests : Carried(req[s])'
  <2>1. Idle \in Request /\ Carried(Idle)'
    BY DEF Idle, Request, Carried
  <2> QED
    BY <1>1, <2>1, AllCarried DEF InsertRow, gateway
<1>3. req[r].purpose \in Purposes /\ req[r].kind \in {"CHECKOUT", "LINK"} /\ req[r].amount \in Nat
  <2>1. req[r] \in Request /\ req[r].op = "insert"
    BY DEF IndInv, TypeOK, InsertRow
  <2> QED
    BY <2>1 DEF Request
<1> DEFINE row == [status |-> "CREATED", purpose |-> req[r].purpose, kind |-> req[r].kind,
                   amount |-> req[r].amount, ordered |-> req[r].amount]
<1>4. row \in PaymentRow /\ row.status = "CREATED"
  BY <1>3 DEF PaymentRow, PaymentStatuses, Rank
<1>5. rows' = rows \/ (rows' = Append(rows, row) /\ Len(rows) < MaxRows)
  BY DEF InsertRow
<1> HIDE DEF row
<1>6. /\ rows' \in Seq(PaymentRow) /\ Len(rows') <= MaxRows /\ DOMAIN rows \subseteq DOMAIN rows'
      /\ \A o \in DOMAIN rows : rows'[o] = rows[o]
      /\ \A o \in DOMAIN rows' \ DOMAIN rows : rows'[o].status = "CREATED"
  <2>1. rows \in Seq(PaymentRow) /\ Len(rows) \in Nat /\ Len(rows) <= MaxRows /\ MaxRows \in Nat
    BY PaymentsAssumption DEF IndInv, TypeOK
  <2>2. CASE rows' = rows
    BY <2>1, <2>2
  <2>3. CASE rows' = Append(rows, row) /\ Len(rows) < MaxRows
    BY <1>4, <2>1, <2>3, AppendFacts
  <2> QED
    BY <1>5, <2>2, <2>3
<1>7. TypeOK'
  <2>1. req' \in [Requests -> Request]
    BY AnswerTyped, IdleCarried DEF IndInv, InsertRow
  <2> QED
    BY <1>6, <2>1 DEF IndInv, TypeOK, InsertRow, gateway
<1>8. Refers'
  BY <1>6 DEF IndInv, Refers, InsertRow, gateway
<1>9. CreditIsCaptured'
  BY <1>6 DEF IndInv, CreditIsCaptured, InsertRow, gateway
<1> QED
  BY <1>1, <1>2, <1>7, <1>8, <1>9 DEF IndInv, CountersBacked, InsertRow

LEMMA CloseKeeps ==
    ASSUME IndInv, NEW r \in Requests,
           CloseCommit(r) \/ \E o \in DOMAIN rows : CloseRead(r, o)
    PROVE  IndInv'
<1>1. Recorded \in Nat /\ Recorded' = Recorded
  BY RecordedTyped DEF IndInv, TypeOK, Refers, Recorded, CloseCommit, CloseRead
<1>2. CASE CloseCommit(r)
  <2>1. \A s \in Requests : Carried(req[s])'
    <3>1. Idle \in Request /\ Carried(Idle)'
      BY DEF Idle, Request, Carried
    <3> QED
      BY <1>1, <1>2, <3>1, AllCarried DEF CloseCommit, gateway
  <2>2. PICK i : rows' = [rows EXCEPT ![i].status = "FAILED"]
    BY <1>2 DEF CloseCommit
  <2>3. /\ rows' \in Seq(PaymentRow) /\ Len(rows') = Len(rows) /\ DOMAIN rows' = DOMAIN rows
        /\ \A o \in DOMAIN rows : rows'[o].purpose = rows[o].purpose
                                  /\ (rows'[o].status = "CAPTURED" => rows[o].status = "CAPTURED")
    <3>1. rows \in Seq(PaymentRow) /\ "FAILED" \in PaymentStatuses
      BY StatusIs DEF IndInv, TypeOK
    <3>2. DOMAIN rows' = DOMAIN rows /\ \A o \in DOMAIN rows :
             rows'[o] = IF o = i THEN [rows[o] EXCEPT !.status = "FAILED"] ELSE rows[o]
      BY <2>2, <3>1
    <3>3. \A o \in DOMAIN rows : rows[o] \in PaymentRow
      BY <3>1
    <3>4. \A o \in DOMAIN rows : rows'[o] \in PaymentRow /\ rows'[o].purpose = rows[o].purpose
             /\ (rows'[o].status = "CAPTURED" => rows[o].status = "CAPTURED")
      BY <3>1, <3>2, <3>3 DEF PaymentRow
    <3>5. rows' \in Seq(PaymentRow) /\ Len(rows') = Len(rows)
      <4> DEFINE row == [rows[i] EXCEPT !.status = "FAILED"]
      <4>1. i \in DOMAIN rows => row \in PaymentRow
        BY <3>1, <3>3 DEF PaymentRow
      <4>2. rows' = [rows EXCEPT ![i] = row]
        BY <2>2
      <4> HIDE DEF row
      <4> QED
        BY <3>1, <4>1, <4>2, ExceptFacts
    <3> QED
      BY <3>2, <3>4, <3>5
  <2>4. TypeOK'
    <3>1. req' \in [Requests -> Request]
      BY <1>2, AnswerTyped, IdleCarried DEF IndInv, CloseCommit
    <3> QED
      BY <1>2, <2>3, <3>1 DEF IndInv, TypeOK, CloseCommit, gateway
  <2>5. Refers' /\ CreditIsCaptured'
    BY <1>2, <2>3 DEF IndInv, Refers, CreditIsCaptured, CloseCommit, gateway
  <2> QED
    BY <1>1, <1>2, <2>1, <2>4, <2>5 DEF IndInv, CountersBacked, CloseCommit
<1>3. ASSUME NEW o \in DOMAIN rows, CloseRead(r, o) PROVE IndInv'
  <2> DEFINE next == [op |-> "close", row |-> o]
  <2>1. o \in 1 .. MaxRows
    BY RowTyped DEF IndInv
  <2>2. next \in Request /\ Carried(next)'
    BY <2>1 DEF Request, Carried
  <2> HIDE DEF next
  <2>3. Answer(r, next)
    BY <1>3 DEF CloseRead, next
  <2>4. \A s \in Requests : Carried(req[s])'
    BY <1>1, <1>3, <2>2, <2>3, AllCarried DEF CloseRead
  <2>5. TypeOK'
    BY <1>3, <2>1, <2>2, <2>3, AnswerTyped DEF IndInv, TypeOK, CloseRead
  <2> QED
    BY <1>1, <1>3, <2>4, <2>5 DEF IndInv, Refers, CreditIsCaptured, CountersBacked, CloseRead
<1> QED
  BY <1>2, <1>3

LEMMA GatewayKeeps == ASSUME IndInv, GatewayStep PROVE IndInv'
<1>1. Recorded' = Recorded
  BY DEF GatewayStep, Pay, Settle, Recorded
<1>2. ASSUME NEW o \in DOMAIN rows, NEW outcome \in {"AUTHORISED", "CAPTURED", "FAILED"}, Pay(o, outcome)
      PROVE  IndInv'
  <2>1. \A s \in Requests : Carried(req[s])'
    BY <1>2, AllCarriedStill DEF Pay
  <2> DEFINE tried == [row |-> o, amount |-> rows[o].ordered]
  <2>2. tried \in [row : 1 .. MaxRows, amount : Nat] /\ tried.row \in DOMAIN rows
    BY RowTyped DEF IndInv
  <2>3. attempt' = Append(attempt, tried) /\ Len(attempt) < MaxAttempts
        /\ emitted' = emitted \cup { <<Len(attempt) + 1, outcome>> }
    BY <1>2 DEF Pay
  <2> HIDE DEF tried
  <2>4. /\ attempt' \in Seq([row : 1 .. MaxRows, amount : Nat]) /\ Len(attempt') <= MaxAttempts
        /\ DOMAIN attempt' = DOMAIN attempt \cup {Len(attempt) + 1}
        /\ \A n \in DOMAIN attempt : attempt'[n] = attempt[n]
        /\ attempt'[Len(attempt) + 1] = tried
        /\ Len(attempt) + 1 \in 1 .. MaxAttempts
    <3>1. attempt \in Seq([row : 1 .. MaxRows, amount : Nat]) /\ Len(attempt) \in Nat
          /\ MaxAttempts \in Nat
      BY PaymentsAssumption DEF IndInv, TypeOK
    <3> QED
      BY <2>2, <2>3, <3>1, AppendFacts
  <2>5. TypeOK'
    BY <1>2, <2>3, <2>4 DEF IndInv, TypeOK, Pay, Events
  <2>6. Refers'
    <3>1. UNCHANGED <<ledger, rows>>
      BY <1>2 DEF Pay
    <3>2. \A f \in emitted' : f[1] \in DOMAIN attempt'
      BY <2>3, <2>4 DEF IndInv, Refers
    <3>3. \A n \in DOMAIN attempt' : attempt'[n].row \in DOMAIN rows
      BY <2>2, <2>4 DEF IndInv, Refers
    <3> QED
      BY <3>1, <3>2, <3>3 DEF IndInv, Refers
  <2>7. CreditIsCaptured'
    <3>1. \A c \in ledger : c.ref # Cash => c.ref \in DOMAIN attempt
      BY DEF IndInv, CreditIsCaptured, Refers
    <3>2. UNCHANGED <<ledger, rows>> /\ emitted \subseteq emitted'
      BY <1>2, <2>3 DEF Pay
    <3>3. \A c \in ledger : c.ref # Cash => attempt'[c.ref] = attempt[c.ref]
      BY <2>4, <3>1
    <3> QED
      BY <3>2, <3>3 DEF IndInv, CreditIsCaptured
  <2> QED
    BY <1>1, <1>2, <2>1, <2>5, <2>6, <2>7 DEF IndInv, CountersBacked, Pay
<1>3. ASSUME NEW n \in DOMAIN attempt, Settle(n) PROVE IndInv'
  <2>1. \A s \in Requests : Carried(req[s])'
    BY <1>3, AllCarriedStill DEF Settle
  <2>2. <<n, "CAPTURED">> \in Events
    BY <1>3 DEF IndInv, TypeOK, Settle, Events
  <2>3. TypeOK'
    BY <1>3, <2>2 DEF IndInv, TypeOK, Settle
  <2> QED
    BY <1>1, <1>3, <2>1, <2>3 DEF IndInv, Refers, CreditIsCaptured, CountersBacked, Settle
<1> QED
  BY <1>2, <1>3 DEF GatewayStep

-----------------------------------------------------------------------------
(* The webhook and the cash. *)
LEMMA EventTyped ==
    ASSUME IndInv, NEW e \in emitted
    PROVE  /\ e = <<e[1], e[2]>> /\ e[1] \in 1 .. MaxAttempts
           /\ e[2] \in {"AUTHORISED", "CAPTURED", "FAILED"}
           /\ e[1] \in DOMAIN attempt /\ attempt[e[1]].amount \in Nat
           /\ attempt[e[1]].row \in DOMAIN rows
<1>1. e \in Events
  BY DEF IndInv, TypeOK
<1>2. e[1] \in DOMAIN attempt /\ attempt[e[1]].row \in DOMAIN rows
  BY DEF IndInv, Refers
<1>3. attempt[e[1]] \in [row : 1 .. MaxRows, amount : Nat]
  <2>1. attempt \in Seq([row : 1 .. MaxRows, amount : Nat])
    BY DEF IndInv, TypeOK
  <2> QED
    BY <1>2, <2>1, ElementOf
<1> QED
  BY <1>1, <1>2, <1>3 DEF Events

LEMMA DeliveredIsEmitted ==
    ASSUME IndInv, NEW r \in Requests, req[r].op \in {"deliver", "apply"}
    PROVE  req[r].event \in emitted
BY DEF IndInv, Carried

LEMMA IngestKeeps ==
    ASSUME IndInv, NEW r \in Requests, NEW e \in emitted, Ingest(r, e)
    PROVE  IndInv'
<1>1. e \in Events
  BY DEF IndInv, TypeOK
<1>2. [op |-> "deliver", event |-> e] \in Request /\ Carried([op |-> "deliver", event |-> e])
  BY <1>1 DEF Request, Carried
<1> QED
  BY <1>2, ReadKeeps DEF Ingest

LEMMA ApplyReadKeeps ==
    ASSUME IndInv, NEW r \in Requests, ApplyRead(r)
    PROVE  IndInv'
<1> DEFINE e == req[r].event
<1>1. e \in emitted /\ e \in Events
  BY DeliveredIsEmitted DEF ApplyRead, IndInv, TypeOK
<1>2. CASE UNCHANGED processed /\ Answer(r, [op |-> "apply", event |-> e])
  <2> DEFINE next == [op |-> "apply", event |-> e]
  <2>1. next \in Request /\ Carried(next)
    BY <1>1 DEF Request, Carried
  <2>2. Answer(r, next) /\ UNCHANGED <<booking, rows, ledger, processed, gateway>>
    BY <1>2 DEF ApplyRead
  <2> HIDE DEF next
  <2> QED
    BY <2>1, <2>2, ReadKeeps
<1>3. CASE Answer(r, Idle) /\ processed' = processed \cup {e}
  <2>1. Recorded \in Nat /\ Recorded' = Recorded
    BY RecordedTyped DEF IndInv, TypeOK, Refers, Recorded, ApplyRead
  <2>2. Idle \in Request /\ Carried(Idle)'
    BY DEF Idle, Request, Carried
  <2>3. \A s \in Requests : Carried(req[s])'
    BY <1>3, <2>1, <2>2, AllCarried DEF ApplyRead, gateway
  <2>4. TypeOK'
    BY <1>1, <1>3, <2>2, AnswerTyped DEF IndInv, TypeOK, ApplyRead, gateway
  <2> QED
    BY <2>1, <2>3, <2>4 DEF IndInv, Refers, CreditIsCaptured, CountersBacked, ApplyRead, gateway
<1> QED
  BY <1>2, <1>3 DEF ApplyRead

(* The row a payment is on takes the status of its event. *)
LEMMA StatusWritten ==
    ASSUME TypeOK, NEW o \in DOMAIN rows, NEW status \in PaymentStatuses,
           rows' = [rows EXCEPT ![o].status = status]
    PROVE  /\ rows' \in Seq(PaymentRow) /\ Len(rows') = Len(rows) /\ DOMAIN rows' = DOMAIN rows
           /\ \A p \in DOMAIN rows : rows'[p].purpose = rows[p].purpose
                 /\ rows'[p].status = IF p = o THEN status ELSE rows[p].status
<1> DEFINE row == [rows[o] EXCEPT !.status = status]
<1>1. row \in PaymentRow /\ row.purpose = rows[o].purpose /\ row.status = status
  BY RowTyped DEF PaymentRow
<1>2. rows' = [rows EXCEPT ![o] = row] /\ rows \in Seq(PaymentRow)
  BY DEF TypeOK
<1> HIDE DEF row
<1>3. rows' \in Seq(PaymentRow) /\ Len(rows') = Len(rows) /\ DOMAIN rows' = DOMAIN rows
  BY <1>1, <1>2, ExceptFacts
<1> QED
  BY <1>1, <1>2, <1>3

LEMMA ApplyCommitKeeps ==
    ASSUME IndInv, NEW r \in Requests, ApplyCommit(r)
    PROVE  IndInv'
<1> DEFINE e == req[r].event
           o == attempt[e[1]].row
           amount == attempt[e[1]].amount
           credit == [ref |-> e[1], amount |-> amount]
<1>1. e \in emitted
  BY DeliveredIsEmitted DEF ApplyCommit
<1>2. /\ e = <<e[1], e[2]>> /\ e[1] \in 1 .. MaxAttempts /\ e[2] \in {"AUTHORISED", "CAPTURED", "FAILED"}
      /\ e[1] \in DOMAIN attempt /\ amount \in Nat /\ o \in DOMAIN rows
  BY <1>1, EventTyped
<1>3. /\ rows' = [rows EXCEPT ![o].status = e[2]] /\ processed' = processed \cup {e}
      /\ Answer(r, Idle) /\ UNCHANGED gateway
  BY DEF ApplyCommit
<1>4. IF e[2] = "CAPTURED"
      THEN /\ Unrecorded(e[1]) /\ ledger' = ledger \cup {credit}
           /\ booking' = [booking EXCEPT !.paid = @ + amount,
                                         !.due = Owed(booking.fare, booking.paid + amount)]
      ELSE UNCHANGED <<ledger, booking>>
  BY DEF ApplyCommit, ApplyAllowed, MovesMoney, CreditFor
<1>5. credit \in Credit /\ credit.ref = e[1] /\ credit.amount = amount
  BY <1>2 DEF Credit
<1> HIDE DEF e, o, amount, credit
<1>6. Recorded \in Nat
  BY RecordedTyped DEF IndInv, TypeOK, Refers
<1>7. /\ IsFiniteSet(ledger') /\ ledger' \subseteq Credit /\ Recorded' \in Nat
      /\ Recorded <= Recorded' /\ booking'.paid - booking.paid = Recorded' - Recorded
      /\ booking' \in [status : BookingStatuses, estimate : Nat, fixed : BOOLEAN, fare : Nat,
                       paid : Nat, due : Nat, advance : Nat]
  <2>1. CASE e[2] = "CAPTURED"
    <3>1. Recorded' = Recorded + amount /\ IsFiniteSet(ledger') /\ ledger' \subseteq Credit
      BY <1>4, <1>5, <2>1, CreditAdds DEF IndInv, TypeOK, Refers
    <3>2. booking.paid + amount \in Nat /\ Owed(booking.fare, booking.paid + amount) \in Nat
      BY <1>2, FareTyped, OwedTyped DEF IndInv
    <3>3. booking'.paid = booking.paid + amount
          /\ booking' \in [status : BookingStatuses, estimate : Nat, fixed : BOOLEAN, fare : Nat,
                           paid : Nat, due : Nat, advance : Nat]
      BY <1>4, <2>1, <3>2 DEF IndInv, TypeOK
    <3> QED
      BY <1>2, <1>6, <3>1, <3>3, FareTyped DEF IndInv
  <2>2. CASE e[2] # "CAPTURED"
    <3>1. UNCHANGED <<ledger, booking>> /\ Recorded' = Recorded
      BY <1>4, <2>2 DEF Recorded
    <3> QED
      BY <1>6, <3>1, FareTyped DEF IndInv, TypeOK, Refers
  <2> QED
    BY <2>1, <2>2
<1>8. /\ rows' \in Seq(PaymentRow) /\ Len(rows') = Len(rows) /\ DOMAIN rows' = DOMAIN rows
      /\ \A p \in DOMAIN rows : rows'[p].purpose = rows[p].purpose
            /\ rows'[p].status = IF p = o THEN e[2] ELSE rows[p].status
  <2>1. TypeOK /\ e[2] \in PaymentStatuses
    BY <1>2, StatusIs DEF IndInv
  <2> QED
    BY <1>2, <1>3, <2>1, StatusWritten
<1>9. TypeOK'
  <2>1. req' \in [Requests -> Request]
    BY <1>3, AnswerTyped, IdleCarried DEF IndInv
  <2> QED
    BY <1>1, <1>3, <1>7, <1>8, <2>1 DEF IndInv, TypeOK, gateway
<1>10. Refers'
  BY <1>3, <1>7, <1>8 DEF IndInv, Refers, gateway
<1>11. CreditIsCaptured'
  <2>1. ledger \subseteq ledger' /\ \A c \in ledger' \ ledger : c = credit /\ e[2] = "CAPTURED"
    BY <1>4
  <2>2. \A c \in ledger' : c.ref # Cash => <<c.ref, "CAPTURED">> \in emitted'
                                           /\ attempt'[c.ref].amount = c.amount
    <3>1. UNCHANGED <<emitted, attempt>>
      BY <1>3 DEF gateway
    <3>2. e[2] = "CAPTURED" => <<credit.ref, "CAPTURED">> \in emitted
                               /\ attempt[credit.ref].amount = credit.amount
      BY <1>1, <1>2, <1>5 DEF amount
    <3> QED
      BY <2>1, <3>1, <3>2 DEF IndInv, CreditIsCaptured
  <2>3. ASSUME NEW p \in DOMAIN rows', rows'[p].status = "CAPTURED"
        PROVE  \E c \in ledger' : IF c.ref = Cash THEN rows'[p].purpose = "BALANCE"
                                  ELSE attempt'[c.ref].row = p
    <3>1. CASE p = o
      <4>1. credit \in ledger' /\ credit.ref # Cash /\ attempt[credit.ref].row = p
        BY <1>2, <1>4, <1>5, <1>8, <2>3, <3>1 DEF Cash, o
      <4> QED
        BY <1>3, <4>1 DEF gateway
    <3>2. CASE p # o
      <4>1. p \in DOMAIN rows /\ rows[p].status = "CAPTURED" /\ rows'[p].purpose = rows[p].purpose
        BY <1>8, <2>3, <3>2
      <4>2. PICK c \in ledger : IF c.ref = Cash THEN rows[p].purpose = "BALANCE"
                                ELSE attempt[c.ref].row = p
        BY <4>1 DEF IndInv, CreditIsCaptured
      <4> QED
        BY <1>3, <2>1, <4>1, <4>2 DEF gateway
    <3> QED
      BY <3>1, <3>2
  <2> QED
    BY <2>2, <2>3 DEF CreditIsCaptured
<1>12. CountersBacked'
  <2>1. booking.paid \in Nat /\ booking.paid <= Recorded
    BY FareTyped DEF IndInv, CountersBacked
  <2>2. booking'.paid \in Nat
    BY <1>7
  <2> QED
    BY <1>6, <1>7, <2>1, <2>2 DEF CountersBacked
<1>13. \A s \in Requests : Carried(req[s])'
  <2>1. Idle \in Request /\ Carried(Idle)'
    BY DEF Idle, Request, Carried
  <2> QED
    BY <1>3, <1>7, <2>1, AllCarried DEF gateway
<1> QED
  BY <1>9, <1>10, <1>11, <1>12, <1>13 DEF IndInv

LEMMA CashCommitKeeps ==
    ASSUME IndInv, NEW r \in Requests, CashCommit(r)
    PROVE  IndInv'
<1> DEFINE balance == req[r].balance
           credit == [ref |-> Cash, amount |-> balance]
           row == [status |-> "CAPTURED", purpose |-> "BALANCE", kind |-> "CASH",
                   amount |-> balance, ordered |-> 0]
<1>1. req[r].total \in Nat /\ balance \in Nat /\ req[r].total <= Recorded + balance
  <2>1. req[r] \in Request /\ req[r].op = "cash" /\ Carried(req[r])
    BY DEF IndInv, TypeOK, CashCommit
  <2> QED
    BY <2>1 DEF Request, Carried
<1>2. credit \in Credit /\ credit.ref = Cash /\ credit.amount = balance
      /\ row \in PaymentRow /\ row.purpose = "BALANCE"
  BY <1>1, StatusIs, PaymentsAssumption DEF Credit, Cash, PaymentRow, Purposes
<1>3. /\ Unrecorded(Cash) /\ ledger' = ledger \cup {credit}
      /\ booking' = [booking EXCEPT !.paid = req[r].total, !.due = 0]
      /\ Answer(r, Idle) /\ UNCHANGED <<processed, gateway>>
  BY DEF CashCommit
<1>4. \/ \E o \in Untaken : rows' = [rows EXCEPT ![o].status = "CAPTURED", ![o].amount = balance]
      \/ Len(rows) < MaxRows /\ rows' = Append(rows, row)
  BY DEF CashCommit
<1> HIDE DEF balance, credit, row
<1>5. /\ Recorded' = Recorded + balance /\ Recorded' \in Nat
      /\ IsFiniteSet(ledger') /\ ledger' \subseteq Credit
  BY <1>2, <1>3, CreditAdds DEF IndInv, TypeOK, Refers
<1> DEFINE Settled ==
      /\ rows' \in Seq(PaymentRow) /\ Len(rows') <= MaxRows /\ DOMAIN rows \subseteq DOMAIN rows'
      /\ \A p \in DOMAIN rows : rows'[p].purpose = rows[p].purpose
      /\ \A p \in DOMAIN rows' : rows'[p].status = "CAPTURED" =>
            rows'[p].purpose = "BALANCE" \/ (p \in DOMAIN rows /\ rows[p].status = "CAPTURED")
<1>6. Settled
  <2>0. rows \in Seq(PaymentRow) /\ Len(rows) \in Nat /\ Len(rows) <= MaxRows /\ MaxRows \in Nat
    BY PaymentsAssumption DEF IndInv, TypeOK
  <2>1. ASSUME NEW o \in Untaken,
               rows' = [rows EXCEPT ![o].status = "CAPTURED", ![o].amount = balance]
        PROVE  Settled
    <3> DEFINE taken == [rows[o] EXCEPT !.status = "CAPTURED", !.amount = balance]
    <3>1. o \in DOMAIN rows /\ rows[o].purpose = "BALANCE"
      BY DEF Untaken, OpenFor
    <3>2. taken \in PaymentRow /\ taken.purpose = "BALANCE"
      BY <1>1, <3>1, StatusIs, RowTyped DEF IndInv, PaymentRow
    <3>3. rows' = [rows EXCEPT ![o] = taken]
      BY <2>0, <2>1, <3>1
    <3> HIDE DEF taken
    <3>4. rows' \in Seq(PaymentRow) /\ Len(rows') = Len(rows) /\ DOMAIN rows' = DOMAIN rows
      BY <2>0, <3>2, <3>3, ExceptFacts
    <3>5. \A p \in DOMAIN rows : rows'[p] = IF p = o THEN taken ELSE rows[p]
      BY <3>3
    <3> QED
      BY <2>0, <3>1, <3>2, <3>4, <3>5
  <2>2. CASE Len(rows) < MaxRows /\ rows' = Append(rows, row)
    BY <1>2, <2>0, <2>2, AppendFacts
  <2> QED
    BY <1>4, <2>1, <2>2
<1>7. Recorded \in Nat
  BY RecordedTyped DEF IndInv, TypeOK, Refers
<1>8. booking'.paid = req[r].total
      /\ booking' \in [status : BookingStatuses, estimate : Nat, fixed : BOOLEAN, fare : Nat,
                       paid : Nat, due : Nat, advance : Nat]
  BY <1>1, <1>3 DEF IndInv, TypeOK
<1>9. TypeOK'
  <2>1. req' \in [Requests -> Request]
    BY <1>3, AnswerTyped, IdleCarried DEF IndInv
  <2> QED
    BY <1>3, <1>5, <1>6, <1>8, <2>1 DEF IndInv, TypeOK, gateway
<1>10. Refers'
  BY <1>3, <1>5, <1>6 DEF IndInv, Refers, gateway
<1>11. CreditIsCaptured'
  <2>1. ledger \subseteq ledger' /\ credit \in ledger' /\ \A c \in ledger' \ ledger : c = credit
    BY <1>3
  <2>2. \A c \in ledger' : c.ref # Cash => <<c.ref, "CAPTURED">> \in emitted'
                                           /\ attempt'[c.ref].amount = c.amount
    BY <1>2, <1>3, <2>1 DEF IndInv, CreditIsCaptured, gateway
  <2>3. ASSUME NEW p \in DOMAIN rows', rows'[p].status = "CAPTURED"
        PROVE  \E c \in ledger' : IF c.ref = Cash THEN rows'[p].purpose = "BALANCE"
                                  ELSE attempt'[c.ref].row = p
    <3>1. CASE rows'[p].purpose = "BALANCE"
      BY <1>2, <2>1, <3>1
    <3>2. CASE p \in DOMAIN rows /\ rows[p].status = "CAPTURED"
      <4>1. PICK c \in ledger : IF c.ref = Cash THEN rows[p].purpose = "BALANCE"
                                ELSE attempt[c.ref].row = p
        BY <3>2 DEF IndInv, CreditIsCaptured
      <4> QED
        BY <1>3, <1>6, <2>1, <3>2, <4>1 DEF gateway
    <3> QED
      BY <1>6, <2>3, <3>1, <3>2
  <2> QED
    BY <2>2, <2>3 DEF CreditIsCaptured
<1>12. CountersBacked'
  BY <1>1, <1>5, <1>7, <1>8 DEF CountersBacked
<1>13. \A s \in Requests : Carried(req[s])'
  <2>1. Idle \in Request /\ Carried(Idle)'
    BY DEF Idle, Request, Carried
  <2>2. Recorded <= Recorded'
    BY <1>1, <1>5, <1>7
  <2> QED
    BY <1>3, <1>5, <2>1, <2>2, AllCarried DEF gateway
<1> QED
  BY <1>9, <1>10, <1>11, <1>12, <1>13 DEF IndInv

-----------------------------------------------------------------------------
LEMMA StutterKeeps == ASSUME IndInv, UNCHANGED vars PROVE IndInv'
<1>1. Recorded' = Recorded
  BY DEF vars, Recorded
<1> QED
  BY <1>1 DEF IndInv, TypeOK, Refers, CreditIsCaptured, CountersBacked, Carried, vars, gateway

LEMMA StepKeeps == IndInv /\ [Next]_vars => IndInv'
<1> SUFFICES ASSUME IndInv, [Next]_vars PROVE IndInv'
  OBVIOUS
<1>1. CASE UNCHANGED vars
  BY <1>1, StutterKeeps
<1>2. CASE GatewayStep
  BY <1>2, GatewayKeeps
<1>3. CASE \E from, to \in BookingStatuses : MoveOn(from, to)
  BY <1>3, MoveOnKeeps
<1>4. ASSUME NEW r \in Requests, CollectStep(r) PROVE IndInv'
  BY <1>4, AskKeeps, InsertKeeps, CloseKeeps, CashReadKeeps, CashCommitKeeps DEF CollectStep
<1>5. ASSUME NEW r \in Requests, WebhookStep(r) PROVE IndInv'
  BY <1>5, IngestKeeps, ApplyReadKeeps, ApplyCommitKeeps, EndKeeps DEF WebhookStep
<1>6. ASSUME NEW r \in Requests, BookingStep(r) PROVE IndInv'
  BY <1>6, BookingReadsKeep, CompleteReadKeeps, BookingCommitsKeep DEF BookingStep
<1>7. ASSUME NEW r \in Requests, Abandon(r) PROVE IndInv'
  BY <1>7, EndKeeps
<1> QED
  BY <1>1, <1>2, <1>3, <1>4, <1>5, <1>6, <1>7 DEF Next

LEMMA Inductive == Spec => []IndInv
<1>1. Init => IndInv
  BY Initially
<1>2. IndInv /\ [Next]_vars => IndInv'
  BY StepKeeps
<1> QED
  BY <1>1, <1>2, PTL DEF Spec

(* The tables and counters have their types: no amount, due or paid, ever  *)
(* falls below nothing (GREATEST in payment.model, the floors of money.js).*)
THEOREM WellTyped == Spec => []TypeOK
<1>1. IndInv => TypeOK
  BY DEF IndInv
<1> QED
  BY <1>1, Inductive, PTL

(* However many webhooks, cash settlements and readers of the counters run *)
(* side by side or die half way, the booking never counts as paid more     *)
(* than the ledger holds, every credit is a capture of the gateway, and    *)
(* every captured payment has its credit (applyGatewayEvent,               *)
(* settleCashOnCompletion).                                                *)
THEOREM CountersAreBacked == Spec => []LedgerBacks
<1>1. IndInv => LedgerBacks
  BY DEF IndInv, LedgerBacks
<1> QED
  BY <1>1, Inductive, PTL

(* A trip that is not pay-later is completed only at a fare the ledger     *)
(* covers, though the gate was asked before and the fare and the counters  *)
(* may have been written since (completeTrip).                             *)
LEMMA StepPays ==
    ASSUME IndInv, [Next]_vars, booking'.status = "COMPLETED", booking.status # "COMPLETED",
           Mode # "ZERO"
    PROVE  booking'.fare <= Recorded
<1>1. ASSUME NEW r \in Requests, CompleteCommit(r) PROVE booking'.fare <= Recorded
  <2>1. req[r] \in Request /\ req[r].op = "complete" /\ Carried(req[r])
    BY <1>1 DEF IndInv, TypeOK, CompleteCommit
  <2>2. req[r].settled <= Recorded
    BY <2>1 DEF Carried
  <2>3. booking'.fare = req[r].settled
    BY <1>1 DEF CompleteCommit, IndInv, TypeOK
  <2> QED
    BY <2>2, <2>3
<1>2. ASSUME NEW from \in BookingStatuses, NEW to \in BookingStatuses, MoveOn(from, to)
      PROVE  FALSE
  BY <1>2 DEF MoveOn, IndInv, TypeOK
<1>3. booking \in [status : BookingStatuses, estimate : Nat, fixed : BOOLEAN, fare : Nat,
                   paid : Nat, due : Nat, advance : Nat]
  BY DEF IndInv, TypeOK
<1>4. ~UNCHANGED booking
  OBVIOUS
<1>5. ~GatewayStep
  BY <1>4 DEF GatewayStep, Pay, Settle
<1>6. ASSUME NEW r \in Requests, CollectStep(r) \/ WebhookStep(r) \/ Abandon(r) PROVE FALSE
  <2>1. booking'.status = booking.status
    BY <1>3, <1>6 DEF CollectStep, WebhookStep, OrderRead, LinkRead, InsertRow, CloseRead, CloseCommit,
         CashRead, CashCommit, Ingest, ApplyRead, ApplyCommit, ApplyAborted, Abandon
  <2> QED
    BY <2>1
<1>7. ASSUME NEW r \in Requests, BookingStep(r), ~CompleteCommit(r) PROVE FALSE
  <2>1. booking'.status = booking.status \/ booking'.status \in {"CANCELLED", "EXPIRED"}
    BY <1>3, <1>7 DEF BookingStep, RepriceRead, RepriceCommit, ChargeRead, ChargeCommit,
         CompleteRead, CancelRead, CancelCommit, ExpireRead, ExpireCommit
  <2> QED
    BY <2>1
<1> QED
  BY <1>1, <1>2, <1>4, <1>5, <1>6, <1>7 DEF Next, vars

THEOREM PaidAtCompletion == Spec => CompletionIsPaid
<1>1. IndInv /\ [Next]_vars =>
        [booking'.status = "COMPLETED" /\ booking.status # "COMPLETED" /\ Mode # "ZERO"
            => booking'.fare <= Recorded]_vars
  BY StepPays
<1> QED
  BY <1>1, Inductive, PTL DEF Spec, CompletionIsPaid

-----------------------------------------------------------------------------
(* Trips: the evidence of a trip, and the code it is started by, for any   *)
(* number of bookings, drivers, cars, stops and requests under way.        *)

(* The images a request holds that are no paper: the one it uploaded and   *)
(* has not written, and the one its write replaced.                        *)
Hand(c) == IF c.op \in {"start", "started", "end", "ended"} THEN {c.photo} ELSE {}
Former(c) == IF c.op \in {"ended", "clean"} THEN Replaced(c.replaced) ELSE {}
(* The images it takes for papers. *)
Filed(c) ==
    IF c.op \in {"paper", "carPaper"} THEN {c.image} \cup Range(c.papers)
    ELSE IF c.op = "submit" THEN Range(c.papers) ELSE {}

(* A paper of a driver or of a car, or one that a request is about to file. *)
IsPaper(n) ==
    \/ \E p \in People, t \in DriverDocs : drivers[p] # None /\ drivers[p].papers[t] = n
    \/ \E v \in Cars, t \in CarDocs : cars[v] # None /\ cars[v].papers[t] = n
    \/ \E k \in Callers : n \in Filed(calls[k])

(* An image has one holder: no paper is a photograph of a trip, a          *)
(* photograph is named once, the one in hand is named nowhere and in no    *)
(* other hand, and the one that was replaced is named, if at all, by the   *)
(* row that the same transaction is about to write.                        *)
ImageInv ==
    /\ OwnPhotos(trips) /\ PhotosKept
    /\ \A b \in Bookings : \A n \in Photos(trips[b]) : ~IsPaper(n)
    /\ \A k \in Callers : \A n \in Hand(calls[k]) :
          /\ n \in stored /\ ~IsPaper(n) /\ \A b \in Bookings : n \notin Photos(trips[b])
          /\ \A j \in Callers : (n \in Hand(calls[j]) => j = k) /\ n \notin Former(calls[j])
    /\ \A k \in Callers : \A n \in Former(calls[k]) : 
          /\ n \in 1..shots
          /\ \A b \in Bookings :
            /\ n # trips[b].startPhoto
            /\ n = trips[b].endPhoto => calls[k].op = "ended" /\ b = calls[k].booking

(* What a request under way may rely on. *)
Relies(c) ==
    /\ c.op \in {"code", "right", "wrong", "photo", "start", "started"} =>
          c.car \in Fleet /\ Dispatched(c.car)
    /\ c.op \in {"right", "wrong"} => trips[c.booking].coded
    /\ c.op \in {"photo", "start", "started"} => trips[c.booking].verified
    /\ c.op \in {"endPhoto", "end", "ended"} => trips[c.booking].status \notin Early
    /\ c.op = "ended" => NotBelowStart(c.booking, c.km)
    /\ c.op = "complete" => HasEndReading(c.booking)
    /\ c.op = "leave" => stops[c.booking][c.stop] # None
    /\ c.op \in {"paper", "submit", "rehire", "assign", "release", "offline"} => c.person \in Driver
    /\ c.op \in {"paper", "carPaper"} => c.image \in 1..shots
    /\ c.op \in {"paper", "submit"} => c.papers \in [DriverDocs -> 1..shots \cup {None}]
    /\ c.op = "carPaper" => c.papers \in [CarDocs -> 1..shots \cup {None}]

(* Requests that will count a wrong code of trip b. *)
Guessing(b) == {k \in Callers : calls[k].op = "wrong" /\ calls[k].booking = b}

RowsInv ==
    \A b \in Bookings :
        /\ Orderly(trips[b])
        /\ trips[b].attempts + Cardinality(Guessing(b)) < MaxWrong + Cardinality(Callers)

TripsInv ==
    TripsTypeOK /\ ImageInv /\ RowsInv /\ \A k \in Callers : Relies(calls[k])

-----------------------------------------------------------------------------
(* What a request carries. *)
LEMMA CallIs ==
    ASSUME NEW c \in TripCall
    PROVE  /\ c.op \in {"code", "right", "wrong", "photo", "start", "started"} => c \in StartCall
           /\ c.op \in {"endPhoto", "end", "ended", "clean"} => c \in EndCall
           /\ c.op \in {"finish", "complete"} => c \in CloseCall
           /\ c.op = "reach" => c \in ReachCall
           /\ c.op = "leave" => c \in LeaveCall
           /\ c.op \in {"paper", "carPaper", "submit", "hire", "rehire", "assign", "release",
                         "offline", "idle"} => c \in DriverCall
BY DEF TripCall, DriverCall, StartCall, EndCall, CloseCall, ReachCall, LeaveCall, NoRequest

LEMMA DriverCallIs ==
    ASSUME NEW c \in DriverCall
    PROVE  /\ c.op = "paper" => c.person \in People /\ c.type \in DriverDocs /\ c.image \in Nat
                                /\ c.papers \in DriverPapers
           /\ c.op = "carPaper" => c.car \in Cars /\ c.type \in CarDocs /\ c.image \in Nat
                                   /\ c.papers \in CarPapers
           /\ c.op = "submit" => c.person \in People /\ c.papers \in DriverPapers
           /\ c.op = "rehire" => c.person \in People /\ c.car \in Cars /\ c.had \in Cars \cup {None}
           /\ c.op = "hire" => c.person \in People /\ c.car \in Cars /\ c.retired \in BOOLEAN
           /\ c.op = "assign" => c.person \in People /\ c.car \in Cars
           /\ c.op = "release" => c.person \in People /\ c.car \in Cars \cup {None}
           /\ c.op = "offline" => c.person \in People
BY DEF DriverCall, NoRequest

LEMMA NobodyIs ==
    /\ NoRequest \in TripCall /\ NoRequest.op = "idle"
    /\ Hand(NoRequest) = {} /\ Former(NoRequest) = {} /\ Filed(NoRequest) = {} /\ Relies(NoRequest)
BY DEF NoRequest, TripCall, DriverCall, Hand, Former, Filed, Relies

LEMMA CallSet ==
    ASSUME TripsTypeOK, NEW k \in Callers, NEW next \in TripCall,
           calls' = [calls EXCEPT ![k] = next]
    PROVE  /\ calls' \in [Callers -> TripCall] /\ calls'[k] = next
           /\ \A j \in Callers \ {k} : calls'[j] = calls[j]
BY DEF TripsTypeOK

(* Nothing a request relies on is taken back: drivers stay, and so do cars *)
(* that were sent out, codes that were verified, trips that have begun,    *)
(* readings and the records of stops.                                      *)
Grows ==
    /\ shots <= shots' /\ Driver \subseteq Driver'
    /\ \A v \in Fleet : Dispatched(v) => v \in Fleet' /\ Dispatched(v)'
    /\ \A b \in Bookings :
          /\ trips'[b].coded = trips[b].coded /\ (trips[b].verified => trips'[b].verified)
          /\ trips[b].status \notin Early => /\ trips'[b].status \notin Early
                                             /\ trips'[b].start = trips[b].start
          /\ HasEndReading(b) => HasEndReading(b)'
          /\ \A i \in Stops : stops[b][i] # None => stops'[b][i] # None

LEMMA StillRelies ==
    ASSUME TripsTypeOK, TripsTypeOK', Grows, NEW c \in TripCall, Relies(c) PROVE Relies(c)'
<1>1. c.op \in {"code", "right", "wrong", "photo", "start", "started"} =>
         c.car \in Fleet' /\ Dispatched(c.car)' /\ c.booking \in Bookings
  BY CallIs DEF Relies, Grows, StartCall
<1>2. c.op \in {"endPhoto", "end", "ended"} => c.booking \in Bookings /\ trips'[c.booking].status \notin Early
  BY CallIs DEF Relies, Grows, EndCall
<1>3. c.op = "ended" => NotBelowStart(c.booking, c.km)'
  BY CallIs DEF Relies, Grows, EndCall, NotBelowStart
<1>4. c.op = "complete" => HasEndReading(c.booking)'
  BY CallIs DEF Relies, Grows, CloseCall
<1>5. c.op = "leave" => stops'[c.booking][c.stop] # None
  BY CallIs DEF Relies, Grows, LeaveCall
<1>6. {shots, shots'} \subseteq Nat /\ shots <= shots' /\ Driver \subseteq Driver'
  BY DEF Grows, TripsTypeOK, DriverTypeOK
<1>7. 1..shots \subseteq 1..shots'
  BY <1>6
<1>8. /\ c.op \in {"paper", "carPaper"} => c.image \in 1..shots'
      /\ c.op \in {"paper", "submit"} => c.papers \in [DriverDocs -> 1..shots' \cup {None}]
      /\ c.op = "carPaper" => c.papers \in [CarDocs -> 1..shots' \cup {None}]
      /\ c.op \in {"paper", "submit", "rehire", "assign", "release", "offline"} => c.person \in Driver'
  BY <1>6, <1>7 DEF Relies
<1>9. /\ c.op \in {"right", "wrong"} => trips'[c.booking].coded
      /\ c.op \in {"photo", "start", "started"} => trips'[c.booking].verified
  BY <1>1 DEF Relies, Grows
<1> QED
  BY <1>1, <1>2, <1>3, <1>4, <1>5, <1>8, <1>9 DEF Relies

(* A request that goes on with no image of its own, or with the one it     *)
(* had; no paper is made of an image that was none; what is destroyed was  *)
(* a paper, in a hand that lets go of it, or replaced.                     *)
Modest(j) ==
    \/ calls'[j] = calls[j]
    \/ /\ Hand(calls'[j]) \subseteq Hand(calls[j]) /\ Former(calls'[j]) = {}
       /\ calls'[j].op # "wrong" /\ Relies(calls[j])'
NoNewPaper == \A n \in 1..shots : IsPaper(n)' => IsPaper(n)
Expendable(n) ==
    \/ IsPaper(n)
    \/ \E k \in Callers : n \in Hand(calls[k]) /\ Hand(calls'[k]) = {}
    \/ \E k \in Callers : n \in Former(calls[k]) /\ calls[k].op = "clean"

LEMMA ImagesKept ==
    ASSUME TripsInv, TripsTypeOK', Grows, NoNewPaper, \A n \in stored : n \in stored' \/ Expendable(n),
           \A b \in Bookings : trips'[b].startPhoto = trips[b].startPhoto
                               /\ trips'[b].endPhoto = trips[b].endPhoto,
           \A j \in Callers : \/ calls'[j] = calls[j]
                              \/ Hand(calls'[j]) \subseteq Hand(calls[j]) /\ Former(calls'[j]) = {}
    PROVE  ImageInv'
<1>1. \A b \in Bookings : Photos(trips'[b]) = Photos(trips[b])
  BY DEF Photos
<1>2. \A b \in Bookings : \A n \in Photos(trips[b]) : n \in stored /\ n \in 1..shots
  BY DEF TripsInv, ImageInv, PhotosKept, TripsTypeOK
<1>3. /\ \A j \in Callers : \A n \in Hand(calls'[j]) :
            n \in Hand(calls[j]) /\ n \in stored /\ n \in 1..shots
      /\ \A j \in Callers : \A n \in Former(calls'[j]) : n \in Former(calls[j]) /\ calls'[j] = calls[j]
  BY DEF TripsInv, ImageInv, TripsTypeOK, DriverTypeOK
<1>4. OwnPhotos(trips')
  BY DEF OwnPhotos, TripsInv, ImageInv
<1>5. \A b \in Bookings : \A n \in Photos(trips'[b]) : n \in stored' /\ ~IsPaper(n)'
  <2> SUFFICES ASSUME NEW b \in Bookings, NEW n \in Photos(trips'[b])
               PROVE  n \in stored' /\ ~IsPaper(n)'
    OBVIOUS
  <2>1. n \in Photos(trips[b]) /\ n \in stored /\ n \in 1..shots /\ n # None /\ ~IsPaper(n)
    BY <1>1, <1>2 DEF TripsInv, ImageInv, Photos
  <2>2. \A k \in Callers : n \notin Hand(calls[k])
    BY <2>1 DEF TripsInv, ImageInv
  <2>3. \A k \in Callers : n \in Former(calls[k]) => calls[k].op # "clean"
    BY <2>1 DEF TripsInv, ImageInv, Photos
  <2> QED
    BY <2>1, <2>2, <2>3 DEF Expendable, NoNewPaper
<1>6. \A k \in Callers : \A n \in Hand(calls'[k]) :
          /\ n \in stored' /\ ~IsPaper(n)' /\ \A b \in Bookings : n \notin Photos(trips'[b])
          /\ \A j \in Callers : (n \in Hand(calls'[j]) => j = k) /\ n \notin Former(calls'[j])
  <2> SUFFICES ASSUME NEW k \in Callers, NEW n \in Hand(calls'[k])
               PROVE  /\ n \in stored' /\ ~IsPaper(n)' /\ \A b \in Bookings : n \notin Photos(trips'[b])
                      /\ \A j \in Callers : (n \in Hand(calls'[j]) => j = k) /\ n \notin Former(calls'[j])
    OBVIOUS
  <2>1. n \in Hand(calls[k]) /\ n \in stored /\ n \in 1..shots
    BY <1>3
  <2>2. /\ ~IsPaper(n) /\ \A b \in Bookings : n \notin Photos(trips[b])
        /\ \A j \in Callers : (n \in Hand(calls[j]) => j = k) /\ n \notin Former(calls[j])
    BY <2>1 DEF TripsInv, ImageInv
  <2>3. ~Expendable(n)
    BY <2>2 DEF Expendable
  <2> QED
    BY <1>1, <1>3, <2>1, <2>2, <2>3 DEF NoNewPaper
<1>7. \A k \in Callers : \A n \in Former(calls'[k]) :
          /\ n \in 1..shots'
          /\ \A b \in Bookings :
                /\ n # trips'[b].startPhoto
                /\ n = trips'[b].endPhoto => calls'[k].op = "ended" /\ b = calls'[k].booking
  <2>1. 1..shots \subseteq 1..shots'
    BY DEF Grows, TripsInv, TripsTypeOK, DriverTypeOK
  <2>2. \A k \in Callers : \A n \in Former(calls[k]) :
          /\ n \in 1..shots
          /\ \A b \in Bookings :
                /\ n # trips[b].startPhoto
                /\ n = trips[b].endPhoto => calls[k].op = "ended" /\ b = calls[k].booking
    BY DEF TripsInv, ImageInv
  <2> QED
    BY <1>3, <2>1, <2>2, SMTT(30)
<1>8. PhotosKept'
  BY <1>5 DEF PhotosKept
<1> QED
  BY <1>4, <1>5, <1>6, <1>7, <1>8 DEF ImageInv

LEMMA GuessesFinite ==
    /\ Cardinality(Callers) \in Nat
    /\ \A b : IsFiniteSet(Guessing(b)) /\ Cardinality(Guessing(b)) \in 0..Cardinality(Callers)
<1>1. IsFiniteSet(Callers) /\ \A b : Guessing(b) \subseteq Callers
  BY TripsAssumption DEF Guessing
<1> QED
  BY <1>1, FS_Subset, FS_CardinalityType

LEMMA RowsKept ==
    ASSUME TripsInv, \A b \in Bookings : Orderly(trips'[b]) /\ trips'[b].attempts = trips[b].attempts,
           \A j \in Callers : calls'[j] = calls[j] \/ calls'[j].op # "wrong"
    PROVE  RowsInv'
<1> SUFFICES ASSUME NEW b \in Bookings
             PROVE  /\ Orderly(trips'[b])
                    /\ trips'[b].attempts + Cardinality(Guessing(b)') < MaxWrong + Cardinality(Callers)
  BY DEF RowsInv
<1>1. Guessing(b)' \subseteq Guessing(b)
  BY DEF Guessing
<1>2. Cardinality(Guessing(b)') <= Cardinality(Guessing(b)) /\ Cardinality(Guessing(b)') \in Nat
  BY <1>1, GuessesFinite, FS_Subset, FS_CardinalityType
<1>3. trips[b].attempts \in Nat
  BY DEF TripsInv, TripsTypeOK, TripRow
<1> QED
  BY <1>2, <1>3, GuessesFinite, TripsAssumption DEF TripsInv, RowsInv

LEMMA Assembled ==
    ASSUME TripsInv, TripsTypeOK', Grows, ImageInv', RowsInv',
           \A j \in Callers : calls'[j] = calls[j] \/ Relies(calls[j])'
    PROVE  TripsInv'
<1>1. ASSUME NEW j \in Callers PROVE Relies(calls[j])'
  <2>1. ASSUME NEW c, c = calls[j], calls'[j] = c PROVE Relies(c)'
    BY <2>1, StillRelies DEF TripsInv, TripsTypeOK
  <2>2. CASE calls'[j] = calls[j]
    BY <2>1, <2>2 DEF Relies
  <2> QED
    BY <2>2
<1> QED
  BY <1>1 DEF TripsInv

(* The steps that write no photograph and count no code. *)
LEMMA Ordinary ==
    ASSUME TripsInv, TripsTypeOK', Grows, NoNewPaper, \A n \in stored : n \in stored' \/ Expendable(n),
           \A b \in Bookings : /\ trips'[b].startPhoto = trips[b].startPhoto
                               /\ trips'[b].endPhoto = trips[b].endPhoto
                               /\ Orderly(trips'[b]) /\ trips'[b].attempts = trips[b].attempts,
           \A j \in Callers : Modest(j)
    PROVE  TripsInv'
<1>1. ImageInv'
  BY ImagesKept DEF Modest
<1>2. RowsInv'
  BY RowsKept DEF Modest
<1> QED
  BY <1>1, <1>2, Assembled DEF Modest

-----------------------------------------------------------------------------
(* The steps of drivers and staff, which touch no trip. *)

LEMMA TableStep ==
    ASSUME TripsInv, UNCHANGED tripVars, DriverTypeOK', shots <= shots', Driver \subseteq Driver',
           \A v \in Fleet : Dispatched(v) => v \in Fleet',
           NoNewPaper, \A n \in stored : n \in stored' \/ Expendable(n),
           calls' \in [Callers -> TripCall], \A j \in Callers : Modest(j)
    PROVE  TripsInv'
<1>1. trips' = trips /\ former' = former /\ stops' = stops
  BY DEF tripVars
<1>2. {shots, shots'} \subseteq Nat
  BY DEF TripsInv, TripsTypeOK, DriverTypeOK
<1>3. 1..shots \subseteq 1..shots'
  BY <1>2
<1>4. TripsTypeOK'
  BY <1>1, <1>3 DEF TripsInv, TripsTypeOK
<1>5. Grows
  BY <1>1 DEF Grows, Dispatched, HasEndReading
<1> QED
  BY <1>1, <1>4, <1>5, Ordinary DEF TripsInv, RowsInv

(* A row written for a driver, for a car, or for both in one transaction.  *)
LEMMA DriverWritten ==
    ASSUME Filled(drivers, cars, shots), NEW p \in People, NEW row \in DriverRow,
           SetDriver(p, row), UNCHANGED <<cars, shots>>,
           row.car # None => row.car \in Fleet, row.papers \in [DriverDocs -> 1..shots \cup {None}]
    PROVE  /\ Filled(drivers, cars, shots)' /\ Driver' = Driver \cup {p} /\ drivers'[p] = row
           /\ \A q \in People \ {p} : drivers'[q] = drivers[q]
<1>1. row # None
  BY TripsAssumption
<1>2. /\ drivers' \in [People -> DriverRow \cup {None}] /\ drivers'[p] = row
      /\ \A q \in People \ {p} : drivers'[q] = drivers[q]
  BY DEF Filled, SetDriver
<1>3. Driver' = Driver \cup {p}
  BY <1>1, <1>2 DEF Driver
<1> QED
  BY <1>2, <1>3 DEF Filled, Fleet

LEMMA CarWritten ==
    ASSUME Filled(drivers, cars, shots), NEW v \in Cars, NEW row \in CarRow,
           SetCar(v, row), UNCHANGED <<drivers, shots>>,
           row.papers \in [CarDocs -> 1..shots \cup {None}]
    PROVE  /\ Filled(drivers, cars, shots)' /\ Fleet' = Fleet \cup {v} /\ cars'[v] = row
           /\ \A w \in Cars \ {v} : cars'[w] = cars[w]
<1>1. row # None
  BY TripsAssumption
<1>2. /\ cars' \in [Cars -> CarRow \cup {None}] /\ cars'[v] = row
      /\ \A w \in Cars \ {v} : cars'[w] = cars[w]
  BY DEF Filled, SetCar
<1>3. Fleet' = Fleet \cup {v}
  BY <1>1, <1>2 DEF Fleet
<1> QED
  BY <1>1, <1>2, <1>3, TripsAssumption DEF Filled, DriverRow

LEMMA BothWritten ==
    ASSUME Filled(drivers, cars, shots), NEW p \in People, NEW row \in DriverRow,
           NEW v \in Cars, NEW rowOfCar \in CarRow,
           SetDriver(p, row), SetCar(v, rowOfCar), UNCHANGED shots,
           row.car # None => row.car \in Fleet \cup {v},
           row.papers \in [DriverDocs -> 1..shots \cup {None}],
           rowOfCar.papers \in [CarDocs -> 1..shots \cup {None}]
    PROVE  /\ Filled(drivers, cars, shots)' /\ Driver' = Driver \cup {p} /\ drivers'[p] = row
           /\ \A q \in People \ {p} : drivers'[q] = drivers[q]
           /\ Fleet' = Fleet \cup {v} /\ cars'[v] = rowOfCar
           /\ \A w \in Cars \ {v} : cars'[w] = cars[w]
<1>1. row # None /\ rowOfCar # None
  BY TripsAssumption
<1>2. /\ drivers' \in [People -> DriverRow \cup {None}] /\ drivers'[p] = row
      /\ \A q \in People \ {p} : drivers'[q] = drivers[q]
  BY DEF Filled, SetDriver
<1>3. /\ cars' \in [Cars -> CarRow \cup {None}] /\ cars'[v] = rowOfCar
      /\ \A w \in Cars \ {v} : cars'[w] = cars[w]
  BY DEF Filled, SetCar
<1>4. Driver' = Driver \cup {p} /\ Fleet' = Fleet \cup {v}
  BY <1>1, <1>2, <1>3 DEF Driver, Fleet
<1>5. \A q \in People : drivers[q] # None /\ drivers[q].car # None =>
          drivers[q].car \in Cars /\ cars'[drivers[q].car] # None
  BY <1>1, <1>3 DEF Filled, DriverRow
<1>6. \A q \in People : drivers'[q] # None /\ drivers'[q].car # None => cars'[drivers'[q].car] # None
  BY <1>1, <1>2, <1>3, <1>4, <1>5 DEF Fleet
<1> QED
  BY <1>1, <1>2, <1>3, <1>4, <1>6 DEF Filled

(* The rows there are. *)
LEMMA RowIs ==
    ASSUME TripsInv, NEW p \in Driver
    PROVE  /\ p \in People /\ drivers[p] \in DriverRow /\ drivers[p].car \in Fleet \cup {None}
           /\ drivers[p].papers \in [DriverDocs -> 1..shots \cup {None}]
BY DEF TripsInv, TripsTypeOK, DriverTypeOK, Filled, Driver, Fleet, DriverRow

LEMMA CarIs ==
    ASSUME TripsInv, NEW v \in Fleet
    PROVE  v \in Cars /\ cars[v] \in CarRow /\ cars[v].papers \in [CarDocs -> 1..shots \cup {None}]
BY DEF TripsInv, TripsTypeOK, DriverTypeOK, Filled, Fleet

LEMMA NewRows ==
    ASSUME TripsInv
    PROVE  /\ NewDriver \in DriverRow /\ NewDriver.car = None
           /\ NewDriver.papers = [t \in DriverDocs |-> None]
           /\ NewDriver.papers \in [DriverDocs -> 1..shots \cup {None}]
           /\ NewCar \in CarRow /\ NewCar.papers = [t \in CarDocs |-> None]
           /\ NewCar.papers \in [CarDocs -> 1..shots \cup {None}]
BY DEF NewDriver, NewCar, NoPapers, DriverRow, CarRow, KycStatuses, Editable, Stamps, VehicleStatuses

(* What rows and requests take for papers were papers, or are images that  *)
(* were not there before.                                                  *)
LEMMA PapersFrom ==
    ASSUME TripsInv,
           \A p \in People, t \in DriverDocs : drivers'[p] # None =>
               LET n == drivers'[p].papers[t] IN n \notin 1..shots \/ IsPaper(n),
           \A v \in Cars, t \in CarDocs : cars'[v] # None =>
               LET n == cars'[v].papers[t] IN n \notin 1..shots \/ IsPaper(n),
           \A j \in Callers : calls'[j] = calls[j]
                              \/ \A n \in Filed(calls'[j]) : n \notin 1..shots \/ IsPaper(n)
    PROVE  NoNewPaper
BY DEF NoNewPaper, IsPaper

LEMMA PapersOfRows ==
    /\ \A p \in People, t \in DriverDocs : drivers[p] # None => IsPaper(drivers[p].papers[t])
    /\ \A v \in Cars, t \in CarDocs : cars[v] # None => IsPaper(cars[v].papers[t])
    /\ \A k \in Callers : \A n \in Filed(calls[k]) : IsPaper(n)
BY DEF IsPaper

(* Steps on the drivers' table alone, made at once or by a request that    *)
(* then does no more about papers; papers are kept.                        *)
Quit(k) == calls' = [calls EXCEPT ![k] = NoRequest]

LEMMA QuitIs ==
    ASSUME TripsInv, NEW k \in Callers, Quit(k)
    PROVE  /\ calls' \in [Callers -> TripCall] /\ calls'[k] = NoRequest
           /\ \A j \in Callers : Modest(j) /\ (calls'[j] = calls[j] \/ Filed(calls'[j]) = {})
<1>1. /\ calls' \in [Callers -> TripCall] /\ calls'[k] = NoRequest
      /\ \A j \in Callers \ {k} : calls'[j] = calls[j]
  BY CallSet, NobodyIs DEF Quit, TripsInv
<1>2. Relies(calls[k])'
  BY <1>1, NobodyIs DEF Relies
<1> QED
  BY <1>1, <1>2, NobodyIs DEF Modest

LEMMA StillIs ==
    ASSUME TripsInv, UNCHANGED calls
    PROVE  calls' \in [Callers -> TripCall] /\ \A j \in Callers : Modest(j)
BY DEF TripsInv, TripsTypeOK, Modest

LEMMA EffortIs ==
    ASSUME TripsInv, Effort \/ UNCHANGED made PROVE made' \in Nat
BY TripsAssumption DEF Effort, TripsInv, TripsTypeOK, DriverTypeOK

LEMMA DriverEdit ==
    ASSUME TripsInv, NEW p \in People, NEW row \in DriverRow, SetDriver(p, row),
           row.car # None => row.car \in Fleet, row.papers \in [DriverDocs -> 1..shots \cup {None}],
           \A t \in DriverDocs : row.papers[t] = None \/ IsPaper(row.papers[t]),
           UNCHANGED <<cars, shots, presenceVars, tripVars>>, made' \in Nat,
           stored' \subseteq stored, \A n \in stored : n \in stored' \/ IsPaper(n),
           calls' \in [Callers -> TripCall],
           \A j \in Callers : Modest(j) /\ (calls'[j] = calls[j]
                                            \/ \A n \in Filed(calls'[j]) : n \notin 1..shots \/ IsPaper(n))
    PROVE  TripsInv'
<1>1. UNCHANGED <<cars, shots, position, map, cacheUp, sweep, trips, former, stops>>
  BY DEF presenceVars, tripVars
<1>2. /\ Filled(drivers, cars, shots)' /\ Driver' = Driver \cup {p} /\ drivers'[p] = row
      /\ \A q \in People \ {p} : drivers'[q] = drivers[q]
  BY <1>1, DriverWritten DEF TripsInv, TripsTypeOK, DriverTypeOK
<1>3. DriverTypeOK'
  BY <1>1, <1>2 DEF TripsInv, TripsTypeOK, DriverTypeOK
<1>4. NoNewPaper
  <2>1. None \notin 1..shots
    BY TripsAssumption DEF TripsInv, TripsTypeOK, DriverTypeOK
  <2> QED
    BY <1>1, <1>2, <2>1, PapersFrom, PapersOfRows
<1>5. Fleet' = Fleet /\ shots <= shots'
  BY <1>1 DEF Fleet, TripsInv, TripsTypeOK, DriverTypeOK
<1> QED
  BY <1>1, <1>2, <1>3, <1>4, <1>5, TableStep DEF Expendable

LEMMA CarEdit ==
    ASSUME TripsInv, NEW v \in Cars, NEW row \in CarRow, SetCar(v, row),
           row.papers \in [CarDocs -> 1..shots \cup {None}],
           \A t \in CarDocs : row.papers[t] = None \/ IsPaper(row.papers[t]),
           UNCHANGED <<drivers, shots, presenceVars, tripVars>>, made' \in Nat,
           stored' \subseteq stored, \A n \in stored : n \in stored' \/ IsPaper(n),
           calls' \in [Callers -> TripCall],
           \A j \in Callers : Modest(j) /\ (calls'[j] = calls[j] \/ Filed(calls'[j]) = {})
    PROVE  TripsInv'
<1>1. UNCHANGED <<drivers, shots, position, map, cacheUp, sweep, trips, former, stops>>
  BY DEF presenceVars, tripVars
<1>2. /\ Filled(drivers, cars, shots)' /\ Fleet' = Fleet \cup {v} /\ cars'[v] = row
      /\ \A w \in Cars \ {v} : cars'[w] = cars[w]
  BY <1>1, CarWritten DEF TripsInv, TripsTypeOK, DriverTypeOK
<1>3. Driver' = Driver /\ shots <= shots'
  BY <1>1 DEF Driver, TripsInv, TripsTypeOK, DriverTypeOK
<1>4. DriverTypeOK'
  BY <1>1, <1>2, <1>3 DEF TripsInv, TripsTypeOK, DriverTypeOK
<1>5. NoNewPaper
  <2>1. None \notin 1..shots
    BY TripsAssumption DEF TripsInv, TripsTypeOK, DriverTypeOK
  <2> QED
    BY <1>1, <1>2, <2>1, PapersFrom, PapersOfRows
<1> QED
  BY <1>1, <1>2, <1>3, <1>4, <1>5, TableStep DEF Expendable

LEMMA BothEdit ==
    ASSUME TripsInv, NEW p \in People, NEW row \in DriverRow, NEW v \in Cars, NEW rowOfCar \in CarRow,
           SetDriver(p, row), SetCar(v, rowOfCar),
           row.car # None => row.car \in Fleet \cup {v},
           row.papers \in [DriverDocs -> 1..shots \cup {None}],
           rowOfCar.papers \in [CarDocs -> 1..shots \cup {None}],
           \A t \in DriverDocs : row.papers[t] = None \/ IsPaper(row.papers[t]),
           \A t \in CarDocs : rowOfCar.papers[t] = None \/ IsPaper(rowOfCar.papers[t]),
           UNCHANGED <<shots, stored, presenceVars, tripVars>>, made' \in Nat,
           calls' \in [Callers -> TripCall],
           \A j \in Callers : Modest(j) /\ (calls'[j] = calls[j] \/ Filed(calls'[j]) = {})
    PROVE  TripsInv'
<1>1. UNCHANGED <<shots, stored, position, map, cacheUp, sweep, trips, former, stops>>
  BY DEF presenceVars, tripVars
<1>2. /\ Filled(drivers, cars, shots)' /\ Driver' = Driver \cup {p} /\ drivers'[p] = row
      /\ \A q \in People \ {p} : drivers'[q] = drivers[q]
      /\ Fleet' = Fleet \cup {v} /\ cars'[v] = rowOfCar
      /\ \A w \in Cars \ {v} : cars'[w] = cars[w]
  BY <1>1, BothWritten DEF TripsInv, TripsTypeOK, DriverTypeOK
<1>3. shots <= shots'
  BY <1>1 DEF TripsInv, TripsTypeOK, DriverTypeOK
<1>4. DriverTypeOK'
  BY <1>1, <1>2 DEF TripsInv, TripsTypeOK, DriverTypeOK
<1>5. NoNewPaper
  <2>1. None \notin 1..shots
    BY TripsAssumption DEF TripsInv, TripsTypeOK, DriverTypeOK
  <2> QED
    BY <1>1, <1>2, <2>1, PapersFrom, PapersOfRows
<1> QED
  BY <1>1, <1>2, <1>3, <1>4, <1>5, TableStep DEF Expendable

(* No row and no image is touched. *)
LEMMA ReadOnly ==
    ASSUME TripsInv, UNCHANGED <<drivers, cars, stored, shots, tripVars>>, made' \in Nat,
           position' \in [People -> Stamps], map' \subseteq People, cacheUp' \in BOOLEAN,
           sweep' \in [at : {"rest", "judge", "write", "clear"}, stale : SUBSET Driver],
           calls' \in [Callers -> TripCall],
           \A j \in Callers : Modest(j) /\ (calls'[j] = calls[j]
                                            \/ \A n \in Filed(calls'[j]) : n \notin 1..shots \/ IsPaper(n))
    PROVE  TripsInv'
<1>1. Driver' = Driver /\ Fleet' = Fleet
  BY DEF Driver, Fleet
<1>2. DriverTypeOK' /\ shots <= shots'
  BY <1>1 DEF TripsInv, TripsTypeOK, DriverTypeOK
<1>3. NoNewPaper
  BY PapersFrom, PapersOfRows
<1> QED
  BY <1>1, <1>2, <1>3, TableStep

(* A request that begins with no image of a trip. *)
LEMMA Begun ==
    ASSUME TripsInv, NEW k \in Callers, NEW next \in TripCall, Begin(k, next),
           Hand(next) = {}, Former(next) = {}, next.op # "wrong"
    PROVE  /\ calls' \in [Callers -> TripCall] /\ calls'[k] = next /\ made' \in Nat
           /\ Relies(calls[k])' => \A j \in Callers : Modest(j)
           /\ \A j \in Callers \ {k} : calls'[j] = calls[j]
<1>1. /\ calls' \in [Callers -> TripCall] /\ calls'[k] = next
      /\ \A j \in Callers \ {k} : calls'[j] = calls[j]
  BY CallSet DEF Begin, TripsInv
<1>2. made' \in Nat
  BY EffortIs DEF Begin
<1> QED
  BY <1>1, <1>2 DEF Modest

LEMMA FilledNow == TripsInv => Filled(drivers, cars, shots)
BY DEF TripsInv, TripsTypeOK, DriverTypeOK

LEMMA Quiet1 ==
    TripsInv => /\ position \in [People -> Stamps] /\ map \subseteq People /\ cacheUp \in BOOLEAN
                /\ sweep \in [at : {"rest", "judge", "write", "clear"}, stale : SUBSET Driver]
                /\ {shots, made} \subseteq Nat /\ stored \subseteq 1..shots
BY DEF TripsInv, TripsTypeOK, DriverTypeOK

-----------------------------------------------------------------------------
(* Accounts made by staff and by drivers themselves. *)

LEMMA AtOnce ==
    ASSUME TripsInv, At_Once
    PROVE  made' \in Nat /\ calls' = calls /\ calls' \in [Callers -> TripCall]
           /\ \A j \in Callers : Modest(j)
BY EffortIs, StillIs DEF At_Once

LEMMA Accounts1 ==
    ASSUME TripsInv, NEW p \in People, NEW v \in Cars \cup {None}, NEW kyc \in Verdicts,
           UNCHANGED tripVars, Create(p, v, kyc) \/ Update(p, v, kyc)
    PROVE  TripsInv'
<1>1. kyc \in KycStatuses
  BY TripsAssumption
<1>2. CASE Create(p, v, kyc)
  <2> DEFINE row == [NewDriver EXCEPT !.car = v, !.kyc = kyc]
  <2>1. row \in DriverRow /\ row.car = v /\ row.papers = NewDriver.papers
    BY <1>1, NewRows DEF DriverRow
  <2>2. SetDriver(p, row) /\ (v # None => v \in Fleet)
    BY <1>2 DEF Create
  <2> HIDE DEF row
  <2> QED
    BY <1>2, <2>1, <2>2, AtOnce, NewRows, DriverEdit DEF Create
<1>3. CASE Update(p, v, kyc)
  <2> DEFINE row == [drivers[p] EXCEPT !.car = v, !.kyc = kyc]
  <2>1. p \in Driver /\ drivers[p] # None
    BY <1>3 DEF Update, Driver
  <2>2. row \in DriverRow /\ row.car = v /\ row.papers = drivers[p].papers
    BY <1>1, <2>1, RowIs DEF DriverRow
  <2>3. SetDriver(p, row) /\ (v # None => v \in Fleet)
    BY <1>3 DEF Update
  <2> HIDE DEF row
  <2> QED
    BY <1>3, <2>1, <2>2, <2>3, AtOnce, RowIs, PapersOfRows, DriverEdit DEF Update
<1> QED
  BY <1>2, <1>3

LEMMA Accounts2 ==
    ASSUME TripsInv, NEW p \in People, UNCHANGED tripVars,
           Register(p) \/ MarkOnline(p) \/ \E on \in BOOLEAN : SetActive(p, on)
    PROVE  TripsInv'
<1>1. CASE Register(p)
  BY <1>1, AtOnce, NewRows, DriverEdit DEF Register
<1>2. CASE MarkOnline(p)
  <2> DEFINE row == [drivers[p] EXCEPT !.online = TRUE, !.pinged = "fresh"]
  <2>1. p \in Driver /\ drivers[p] # None
    BY <1>2 DEF MarkOnline, Driver
  <2>2. row \in DriverRow /\ row.car = drivers[p].car /\ row.papers = drivers[p].papers
    BY <2>1, RowIs DEF DriverRow, Stamps
  <2>3. SetDriver(p, row)
    BY <1>2 DEF MarkOnline
  <2> HIDE DEF row
  <2> QED
    BY <1>2, <2>1, <2>2, <2>3, AtOnce, RowIs, PapersOfRows, DriverEdit DEF MarkOnline
<1>3. ASSUME NEW on \in BOOLEAN, SetActive(p, on) PROVE TripsInv'
  <2> DEFINE row == [drivers[p] EXCEPT !.active = on, !.online = @ /\ on]
  <2>1. p \in Driver /\ drivers[p] # None
    BY <1>3 DEF SetActive, Driver
  <2>2. row \in DriverRow /\ row.car = drivers[p].car /\ row.papers = drivers[p].papers
    BY <2>1, RowIs DEF DriverRow
  <2>3. SetDriver(p, row)
    BY <1>3 DEF SetActive
  <2> HIDE DEF row
  <2> QED
    BY <1>3, <2>1, <2>2, <2>3, AtOnce, RowIs, PapersOfRows, DriverEdit, ZenonT(60) DEF SetActive
<1> QED
  BY <1>1, <1>2, <1>3

(* The vehicle form, and a car of a driver's own. *)
LEMMA CarForms ==
    ASSUME TripsInv, NEW v \in Cars, UNCHANGED tripVars,
           \/ UpdateCar(v, TRUE, "AVAILABLE") \/ UpdateCar(v, FALSE, "INACTIVE")
           \/ \E p \in People : RegisterOwnVehicle(p, v)
    PROVE  TripsInv'
<1>1. ASSUME NEW active \in BOOLEAN, NEW status \in VehicleStatuses, UpdateCar(v, active, status)
      PROVE  TripsInv'
  <2> DEFINE row == [cars[v] EXCEPT !.active = active, !.status = status]
  <2>1. v \in Fleet /\ cars[v] # None
    BY <1>1 DEF UpdateCar, Fleet
  <2>2. row \in CarRow /\ row.papers = cars[v].papers
    BY <2>1, CarIs DEF CarRow
  <2>3. SetCar(v, row)
    BY <1>1 DEF UpdateCar
  <2> HIDE DEF row
  <2> QED
    BY <1>1, <2>1, <2>2, <2>3, AtOnce, CarIs, PapersOfRows, CarEdit DEF UpdateCar
<1>2. {"AVAILABLE", "INACTIVE"} \subseteq VehicleStatuses
  BY DEF VehicleStatuses
<1>3. ASSUME NEW p \in People, RegisterOwnVehicle(p, v) PROVE TripsInv'
  <2> DEFINE row == [drivers[p] EXCEPT !.car = v]
             rowOfCar == [NewCar EXCEPT !.status = "INACTIVE", !.active = FALSE]
  <2>1. p \in Driver /\ drivers[p] # None
    BY <1>3 DEF RegisterOwnVehicle, Driver
  <2>2. row \in DriverRow /\ row.car = v /\ row.papers = drivers[p].papers
    BY <2>1, RowIs DEF DriverRow
  <2>3. rowOfCar \in CarRow /\ rowOfCar.papers = NewCar.papers
    BY <1>2, NewRows DEF CarRow
  <2>4. SetDriver(p, row) /\ SetCar(v, rowOfCar)
    BY <1>3 DEF RegisterOwnVehicle
  <2> HIDE DEF row, rowOfCar
  <2> QED
    BY <1>3, <2>1, <2>2, <2>3, <2>4, AtOnce, RowIs, NewRows, PapersOfRows, BothEdit DEF RegisterOwnVehicle
<1> QED
  BY <1>1, <1>2, <1>3

LEMMA Deletes ==
    ASSUME TripsInv, NEW v \in Cars, HardDelete(v, Dispatched(v)), UNCHANGED tripVars
    PROVE  TripsInv'
<1>1. UNCHANGED <<stored, shots, position, map, cacheUp, sweep, calls>> /\ ~Dispatched(v)
  BY DEF HardDelete, presenceVars, At_Once
<1>2. \A w \in Cars : cars'[w] = IF w = v THEN None ELSE cars[w]
  BY DEF HardDelete, TripsInv, TripsTypeOK, DriverTypeOK, Filled
<1>3. \A p \in People : drivers'[p] = IF drivers[p] # None /\ drivers[p].car = v
                                      THEN [drivers[p] EXCEPT !.car = None] ELSE drivers[p]
  BY DEF HardDelete, Unlinked
<1>4. cars' \in [Cars -> CarRow \cup {None}] /\ drivers' \in [People -> DriverRow \cup {None}]
  <2>1. \A p \in People : drivers[p] \in DriverRow \cup {None}
    BY DEF TripsInv, TripsTypeOK, DriverTypeOK, Filled
  <2>2. \A row \in DriverRow : [row EXCEPT !.car = None] \in DriverRow
    BY DEF DriverRow
  <2> QED
    BY <2>1, <2>2 DEF HardDelete, Unlinked, TripsInv, TripsTypeOK, DriverTypeOK, Filled
<1>5. ASSUME NEW p \in People, drivers'[p] # None
      PROVE  /\ drivers[p] # None /\ drivers'[p].papers = drivers[p].papers
             /\ drivers'[p].car # None => drivers[p].car # v /\ drivers'[p].car = drivers[p].car
  <2>1. drivers[p] # None /\ drivers[p] \in DriverRow
    BY <1>3, <1>5, RowIs DEF Driver
  <2> QED
    BY <1>3, <2>1 DEF DriverRow
<1>6. \A p \in People : drivers[p] # None => drivers'[p] # None
  BY <1>3, <1>4, RowIs, TripsAssumption DEF Driver, DriverRow
<1>7. Driver \subseteq Driver' /\ \A w \in Fleet : Dispatched(w) => w \in Fleet'
  BY <1>1, <1>2, <1>6 DEF Driver, Fleet
<1>8. Filled(drivers, cars, shots)'
  BY <1>1, <1>2, <1>4, <1>5 DEF Filled, TripsInv, TripsTypeOK, DriverTypeOK, DriverRow
<1>9. made' \in Nat
  BY EffortIs DEF HardDelete, At_Once
<1>10. Driver' = Driver
  BY <1>5, <1>6 DEF Driver
<1>11. DriverTypeOK'
  BY <1>1, <1>8, <1>9, <1>10 DEF DriverTypeOK, TripsInv, TripsTypeOK
<1>12. NoNewPaper
  BY <1>1, <1>2, <1>5, PapersFrom, PapersOfRows
<1> QED
  BY <1>1, <1>7, <1>11, <1>12, StillIs, Quiet1, TableStep

-----------------------------------------------------------------------------
(* Papers. *)

LEMMA Uploads ==
    ASSUME TripsInv, NEW k \in Callers, NEW p \in People, UNCHANGED tripVars,
           \/ \E t \in DriverDocs : BeginDriverDocument(k, p, t)
           \/ \E t \in CarDocs : BeginCarDocument(k, p, t)
    PROVE  TripsInv'
<1>1. /\ UNCHANGED <<drivers, cars, position, map, cacheUp, sweep>>
      /\ shots' = shots + 1 /\ stored' = stored \cup {shots + 1} /\ p \in Driver
  BY DEF BeginDriverDocument, BeginCarDocument, Upload, presenceVars
<1>2. shots \in Nat /\ shots' \in Nat /\ stored \subseteq 1..shots /\ stored' \subseteq 1..shots'
      /\ 1..shots \subseteq 1..shots' /\ shots' \in 1..shots' /\ shots' \notin 1..shots
  BY <1>1, Quiet1
<1>3. Filled(drivers, cars, shots)'
  BY <1>1, <1>2 DEF Filled, TripsInv, TripsTypeOK, DriverTypeOK
<1>4. Driver' = Driver /\ Fleet' = Fleet
  BY <1>1 DEF Driver, Fleet
<1>5. \E next \in DriverCall : 
          /\ Begin(k, next) /\ next.op \in {"paper", "carPaper"}
          /\ next.op = "paper" => next.person \in Driver
                                  /\ next.papers \in [DriverDocs -> 1..shots \cup {None}]
          /\ next.op = "carPaper" => next.papers \in [CarDocs -> 1..shots \cup {None}]
          /\ next.image = shots' /\ \A n \in Range(next.papers) : IsPaper(n)
  <2>1. ASSUME NEW t \in DriverDocs, BeginDriverDocument(k, p, t)
        PROVE  /\ drivers[p] # None
               /\ [op |-> "paper", person |-> p, type |-> t, image |-> shots + 1,
                   papers |-> drivers[p].papers] \in DriverCall
               /\ drivers[p].papers \in [DriverDocs -> 1..shots \cup {None}]
    BY <1>1, <1>2, RowIs DEF Driver, DriverCall, DriverRow, DriverPapers
  <2>2. ASSUME NEW t \in CarDocs, BeginCarDocument(k, p, t)
        PROVE  /\ drivers[p].car \in Fleet /\ cars[drivers[p].car] # None
               /\ [op |-> "carPaper", car |-> drivers[p].car, type |-> t, image |-> shots + 1,
                   papers |-> cars[drivers[p].car].papers] \in DriverCall
               /\ cars[drivers[p].car].papers \in [CarDocs -> 1..shots \cup {None}]
    <3>1. drivers[p].car \in Fleet
      BY <2>2 DEF BeginCarDocument
    <3> QED
      BY <1>1, <1>2, <3>1, CarIs DEF Fleet, DriverCall, CarRow, CarPapers
  <2>3. CASE \E t \in DriverDocs : BeginDriverDocument(k, p, t)
    <3> PICK t \in DriverDocs : BeginDriverDocument(k, p, t)
      BY <2>3
    <3> DEFINE next == [op |-> "paper", person |-> p, type |-> t, image |-> shots + 1,
                        papers |-> drivers[p].papers]
    <3>1. next \in DriverCall /\ Begin(k, next)
      BY <2>1 DEF BeginDriverDocument
    <3>2. \A n \in Range(drivers[p].papers) : IsPaper(n)
      BY <2>1, PapersOfRows DEF Range
    <3> QED
      BY <1>1, <2>1, <3>1, <3>2
  <2>4. CASE \E t \in CarDocs : BeginCarDocument(k, p, t)
    <3> PICK t \in CarDocs : BeginCarDocument(k, p, t)
      BY <2>4
    <3> DEFINE w == drivers[p].car
               next == [op |-> "carPaper", car |-> w, type |-> t, image |-> shots + 1,
                        papers |-> cars[w].papers]
    <3>1. next \in DriverCall /\ Begin(k, next)
      BY <2>2 DEF BeginCarDocument
    <3>2. \A n \in Range(cars[w].papers) : IsPaper(n)
      BY <2>2, PapersOfRows DEF Range, Fleet
    <3> QED
      BY <1>1, <2>2, <3>1, <3>2
  <2> QED
    BY <2>3, <2>4
<1>6. PICK next \in DriverCall :
          /\ Begin(k, next) /\ next.op \in {"paper", "carPaper"}
          /\ next.op = "paper" => next.person \in Driver
                                  /\ next.papers \in [DriverDocs -> 1..shots \cup {None}]
          /\ next.op = "carPaper" => next.papers \in [CarDocs -> 1..shots \cup {None}]
          /\ next.image = shots' /\ \A n \in Range(next.papers) : IsPaper(n)
  BY <1>5
<1>7. /\ next \in TripCall /\ Hand(next) = {} /\ Former(next) = {} /\ next.op # "wrong"
      /\ Filed(next) = {shots'} \cup Range(next.papers)
  BY <1>6 DEF TripCall, Hand, Former, Filed
<1>8. /\ calls' \in [Callers -> TripCall] /\ calls'[k] = next /\ made' \in Nat
      /\ Relies(calls[k])' => \A j \in Callers : Modest(j)
      /\ \A j \in Callers \ {k} : calls'[j] = calls[j]
  BY <1>6, <1>7, Begun
<1>9. Relies(calls[k])'
  <2>1. /\ next.papers \in [DriverDocs -> 1..shots \cup {None}] =>
                next.papers \in [DriverDocs -> 1..shots' \cup {None}]
        /\ next.papers \in [CarDocs -> 1..shots \cup {None}] =>
                next.papers \in [CarDocs -> 1..shots' \cup {None}]
    BY <1>2
  <2> QED
    BY <1>2, <1>4, <1>6, <1>8, <2>1 DEF Relies
<1>10. DriverTypeOK'
  BY <1>1, <1>2, <1>3, <1>4, <1>8, Quiet1 DEF DriverTypeOK
<1>11. NoNewPaper
  BY <1>1, <1>2, <1>6, <1>7, <1>8, PapersFrom, PapersOfRows
<1> QED
  BY <1>1, <1>2, <1>4, <1>8, <1>9, <1>10, <1>11, TableStep

(* A paper is filed with the others as they were read, and the image it    *)
(* replaces, a paper as well, may be destroyed.                            *)
LEMMA Files ==
    ASSUME TripsInv, NEW k \in Callers, UNCHANGED tripVars,
           SaveDriverDocument(k) \/ SaveCarDocument(k) \/ SubmitForReview(k)
    PROVE  TripsInv'
<1> DEFINE c == calls[k]
<1>1. c \in TripCall /\ Relies(c)
  BY DEF TripsInv, TripsTypeOK
<1>2. \A n \in Filed(c) : IsPaper(n)
  BY PapersOfRows
<1>3. Quit(k) /\ made' = made
  BY DEF SaveDriverDocument, SaveCarDocument, SubmitForReview, Leave, Continue, Quit
<1>4. /\ calls' \in [Callers -> TripCall]
      /\ \A j \in Callers : Modest(j) /\ (calls'[j] = calls[j] \/ Filed(calls'[j]) = {})
      /\ made' \in Nat
  BY <1>3, QuitIs, Quiet1
<1>5. CASE SaveDriverDocument(k)
  <2> DEFINE p == c.person
             row == [drivers[p] EXCEPT !.papers = [c.papers EXCEPT ![c.type] = c.image]]
  <2>1. /\ c.op = "paper" /\ SetDriver(p, row) /\ Destroy(Replaced(c.papers[c.type]))
        /\ UNCHANGED <<cars, shots, presenceVars>>
    BY <1>5 DEF SaveDriverDocument
  <2>2. /\ c.type \in DriverDocs /\ c.papers \in [DriverDocs -> 1..shots \cup {None}]
        /\ c.image \in 1..shots /\ p \in Driver
    BY <1>1, <2>1, CallIs, DriverCallIs DEF Relies
  <2>3. /\ \A t \in DriverDocs : IsPaper(c.papers[t]) 
        /\ IsPaper(c.image)
    BY <1>2, <2>1, <2>2 DEF Filed, Range
  <2>4. /\ row \in DriverRow /\ row.car = drivers[p].car
        /\ row.papers = [c.papers EXCEPT ![c.type] = c.image]
    BY <2>2, RowIs, Quiet1 DEF DriverRow
  <2>5. /\ row.papers \in [DriverDocs -> 1..shots \cup {None}]
        /\ \A t \in DriverDocs : IsPaper(row.papers[t])
    BY <2>2, <2>3, <2>4
  <2>6. stored' \subseteq stored /\ \A n \in stored : n \in stored' \/ IsPaper(n)
    BY <2>1, <2>2, <2>3 DEF Destroy, Replaced
  <2> HIDE DEF row
  <2> QED
    BY <1>4, <2>1, <2>2, <2>4, <2>5, <2>6, RowIs, DriverEdit
<1>6. CASE SaveCarDocument(k)
  <2> DEFINE v == c.car
             row == [cars[v] EXCEPT !.papers = [c.papers EXCEPT ![c.type] = c.image]]
  <2>1. c.op = "carPaper" /\ UNCHANGED <<drivers, shots, presenceVars>>
    BY <1>6 DEF SaveCarDocument
  <2>2. /\ c.type \in CarDocs /\ c.papers \in [CarDocs -> 1..shots \cup {None}]
        /\ c.image \in 1..shots /\ v \in Cars
    BY <1>1, <2>1, CallIs, DriverCallIs DEF Relies
  <2>3. /\ \A t \in CarDocs : IsPaper(c.papers[t])
        /\ IsPaper(c.image)
    BY <1>2, <2>1, <2>2 DEF Filed, Range
  <2>4. CASE v \in Fleet
    <3>1. SetCar(v, row) /\ Destroy(Replaced(c.papers[c.type]))
      BY <1>6, <2>4 DEF SaveCarDocument
    <3>2. row \in CarRow /\ row.papers = [c.papers EXCEPT ![c.type] = c.image]
      BY <2>2, <2>4, CarIs, Quiet1 DEF CarRow
    <3>3. /\ row.papers \in [CarDocs -> 1..shots \cup {None}]
          /\ \A t \in CarDocs : IsPaper(row.papers[t])
      BY <2>2, <2>3, <3>2
    <3>4. stored' \subseteq stored /\ \A n \in stored : n \in stored' \/ IsPaper(n)
      BY <2>2, <2>3, <3>1 DEF Destroy, Replaced
    <3> HIDE DEF row
    <3> QED
      BY <1>4, <2>1, <2>2, <3>1, <3>2, <3>3, <3>4, CarEdit
  <2>5. CASE v \notin Fleet
    <3>1. UNCHANGED <<cars, stored, position, map, cacheUp, sweep>>
      BY <1>6, <2>5 DEF SaveCarDocument, presenceVars
    <3> QED
      BY <1>4, <2>1, <3>1, Quiet1, ReadOnly
  <2> QED
    BY <2>4, <2>5
<1>7. CASE SubmitForReview(k)
  <2> DEFINE p == c.person
             row == [drivers[p] EXCEPT !.kyc = "PENDING", !.papers = c.papers]
  <2>1. c.op = "submit" /\ SetDriver(p, row) /\ UNCHANGED <<cars, stored, shots, presenceVars>>
    BY <1>7 DEF SubmitForReview
  <2>2. c.papers \in [DriverDocs -> 1..shots \cup {None}] /\ c.papers \in DriverPapers /\ p \in Driver
    BY <1>1, <2>1, CallIs, DriverCallIs DEF Relies
  <2>3. \A t \in DriverDocs : IsPaper(c.papers[t])
    BY <1>2, <2>1, <2>2 DEF Filed, Range
  <2>4. row \in DriverRow /\ row.car = drivers[p].car /\ row.papers = c.papers
    BY <2>2, RowIs, ZenonT(60) DEF DriverRow, DriverPapers, KycStatuses, Editable
  <2> HIDE DEF row
  <2> QED
    BY <1>4, <2>1, <2>2, <2>3, <2>4, RowIs, DriverEdit
<1> QED
  BY <1>5, <1>6, <1>7

LEMMA Submits ==
    ASSUME TripsInv, NEW k \in Callers, NEW p \in People, UNCHANGED tripVars, BeginSubmit(k, p)
    PROVE  TripsInv'
<1> DEFINE next == [op |-> "submit", person |-> p, papers |-> drivers[p].papers]
<1>1. /\ p \in Driver /\ drivers[p] # None /\ Begin(k, next)
      /\ UNCHANGED <<drivers, cars, stored, shots, position, map, cacheUp, sweep>>
  BY DEF BeginSubmit, Driver, presenceVars
<1>2. next \in TripCall
  BY <1>1, RowIs DEF TripCall, DriverCall, DriverRow, DriverPapers
<1>3. /\ next.op = "submit" /\ Hand(next) = {} /\ Former(next) = {}
      /\ Filed(next) = Range(drivers[p].papers)
  BY DEF Hand, Former, Filed
<1>4. /\ calls' \in [Callers -> TripCall] /\ calls'[k] = next /\ made' \in Nat
      /\ Relies(calls[k])' => \A j \in Callers : Modest(j)
      /\ \A j \in Callers \ {k} : calls'[j] = calls[j]
  BY <1>1, <1>2, <1>3, Begun
<1>5. Driver' = Driver
  BY <1>1 DEF Driver
<1>6. Relies(calls[k])'
  BY <1>1, <1>4, <1>5, RowIs DEF Relies
<1>7. \A n \in Filed(next) : IsPaper(n)
  BY <1>1, <1>3, RowIs, PapersOfRows DEF Range, Driver
<1> HIDE DEF next
<1> QED
  BY <1>1, <1>4, <1>6, <1>7, Quiet1, ReadOnly

-----------------------------------------------------------------------------
(* Drivers hired for a day, and presence. *)

LEMMA Hirings ==
    ASSUME TripsInv, NEW k \in Callers, UNCHANGED tripVars,
           \/ \E p \in People, v \in Cars : BeginHire(k, p, v) \/ BeginRehire(k, p, v)
           \/ \E p \in People : BeginOffline(k, p) \/ BeginRelease(k, p, HoldsTrip(p))
    PROVE  TripsInv'
<1>1. ASSUME NEW next \in DriverCall, next.op \in {"hire", "rehire", "offline", "release"},
             Begin(k, next), next.op # "hire" => next.person \in Driver, Driver' = Driver
      PROVE  /\ calls' \in [Callers -> TripCall] /\ made' \in Nat
             /\ \A j \in Callers : Modest(j) /\ (calls'[j] = calls[j] \/ Filed(calls'[j]) = {})
  <2>1. next \in TripCall /\ Hand(next) = {} /\ Former(next) = {} /\ Filed(next) = {}
    BY <1>1 DEF TripCall, Hand, Former, Filed
  <2>2. /\ calls' \in [Callers -> TripCall] /\ calls'[k] = next /\ made' \in Nat
        /\ Relies(calls[k])' => \A j \in Callers : Modest(j)
        /\ \A j \in Callers \ {k} : calls'[j] = calls[j]
    BY <1>1, <2>1, Begun
  <2>3. Relies(calls[k])'
    BY <1>1, <2>2 DEF Relies
  <2> QED
    BY <2>1, <2>2, <2>3
<1>2. ASSUME NEW p \in People, NEW v \in Cars, BeginRehire(k, p, v) PROVE TripsInv'
  <2> DEFINE next == [op |-> "rehire", person |-> p, car |-> v, had |-> drivers[p].car]
             row == [drivers[p] EXCEPT !.active = TRUE]
  <2>1. /\ p \in Driver /\ drivers[p] # None /\ Begin(k, next) /\ SetDriver(p, row)
        /\ UNCHANGED <<cars, stored, shots, presenceVars>>
    BY <1>2 DEF BeginRehire, Driver
  <2>2. row \in DriverRow /\ row.car = drivers[p].car /\ row.papers = drivers[p].papers
    BY <2>1, RowIs DEF DriverRow
  <2> HIDE DEF row
  <2>3. Driver' = Driver
    <3>1. /\ row.car # None => row.car \in Fleet
          /\ row.papers \in [DriverDocs -> 1..shots \cup {None}]
      BY <2>1, <2>2, RowIs
    <3>2. Driver' = Driver \cup {p}
      BY <2>1, <2>2, <3>1, FilledNow, DriverWritten
    <3> QED
      BY <2>1, <3>2
  <2>4. next \in DriverCall /\ next.person = p /\ next.op = "rehire"
    BY <2>1, RowIs DEF DriverCall, DriverRow
  <2>5. /\ calls' \in [Callers -> TripCall] /\ made' \in Nat
        /\ \A j \in Callers : Modest(j) /\ (calls'[j] = calls[j] \/ Filed(calls'[j]) = {})
    BY <1>1, <2>1, <2>3, <2>4
  <2> HIDE DEF next
  <2> QED
    BY <2>1, <2>2, <2>5, RowIs, PapersOfRows, DriverEdit
<1>3. ASSUME NEW p \in People, BeginOffline(k, p) PROVE TripsInv'
  <2> DEFINE next == [op |-> "offline", person |-> p]
             row == [drivers[p] EXCEPT !.online = FALSE]
  <2>1. /\ p \in Driver /\ drivers[p] # None /\ Begin(k, next) /\ SetDriver(p, row)
        /\ UNCHANGED <<cars, stored, shots, presenceVars>>
    BY <1>3 DEF BeginOffline, Driver
  <2>2. row \in DriverRow /\ row.car = drivers[p].car /\ row.papers = drivers[p].papers
    BY <2>1, RowIs DEF DriverRow
  <2> HIDE DEF row
  <2>3. Driver' = Driver
    <3>1. /\ row.car # None => row.car \in Fleet
          /\ row.papers \in [DriverDocs -> 1..shots \cup {None}]
      BY <2>1, <2>2, RowIs
    <3>2. Driver' = Driver \cup {p}
      BY <2>1, <2>2, <3>1, FilledNow, DriverWritten
    <3> QED
      BY <2>1, <3>2
  <2>4. next \in DriverCall /\ next.person = p /\ next.op = "offline"
    BY DEF DriverCall
  <2>5. /\ calls' \in [Callers -> TripCall] /\ made' \in Nat
        /\ \A j \in Callers : Modest(j) /\ (calls'[j] = calls[j] \/ Filed(calls'[j]) = {})
    BY <1>1, <2>1, <2>3, <2>4
  <2> HIDE DEF next
  <2> QED
    BY <2>1, <2>2, <2>5, RowIs, PapersOfRows, DriverEdit
<1>4. ASSUME NEW p \in People, BeginRelease(k, p, HoldsTrip(p)) PROVE TripsInv'
  <2> DEFINE next == [op |-> "release", person |-> p, car |-> drivers[p].car]
  <2>1. /\ p \in Driver /\ drivers[p] # None /\ Begin(k, next)
        /\ UNCHANGED <<drivers, cars, stored, shots, position, map, cacheUp, sweep>>
    BY <1>4 DEF BeginRelease, Driver, presenceVars
  <2>2. next \in DriverCall /\ next.person = p /\ next.op = "release"
    BY <2>1, RowIs DEF DriverCall, DriverRow
  <2>3. Driver' = Driver
    BY <2>1 DEF Driver
  <2>4. /\ calls' \in [Callers -> TripCall] /\ made' \in Nat
        /\ \A j \in Callers : Modest(j) /\ (calls'[j] = calls[j] \/ Filed(calls'[j]) = {})
    BY <1>1, <2>1, <2>2, <2>3
  <2> HIDE DEF next
  <2> QED
    BY <2>1, <2>4, Quiet1, ReadOnly
<1>5. ASSUME NEW p \in People, NEW v \in Cars, BeginHire(k, p, v) PROVE TripsInv'
  <2> DEFINE next == [op |-> "hire", person |-> p, car |-> v, retired |-> v \in Fleet]
  <2>1. Begin(k, next) /\ UNCHANGED <<drivers, cars, stored, shots, position, map, cacheUp, sweep>>
    BY <1>5 DEF BeginHire, presenceVars
  <2>2. next \in DriverCall /\ next.op = "hire"
    BY DEF DriverCall
  <2>3. Driver' = Driver
    BY <2>1 DEF Driver
  <2> HIDE DEF next
  <2>4. /\ calls' \in [Callers -> TripCall] /\ made' \in Nat
        /\ \A j \in Callers : Modest(j) /\ (calls'[j] = calls[j] \/ Filed(calls'[j]) = {})
    BY <1>1, <2>1, <2>2, <2>3
  <2> QED
    BY <2>1, <2>4, Quiet1, ReadOnly
<1> QED
  BY <1>2, <1>3, <1>4, <1>5

(* A hiring that ends, its rows written or refused.                        *)
LEMMA Hires ==
    ASSUME TripsInv, NEW k \in Callers, UNCHANGED tripVars, Hire(k) PROVE TripsInv'
<1> DEFINE c == calls[k]  p == c.person  v == c.car
           row == [NewDriver EXCEPT !.temporary = TRUE, !.car = v, !.online = TRUE]
           rowOfCar == IF c.retired THEN [cars[v] EXCEPT !.status = "AVAILABLE", !.active = TRUE]
                       ELSE NewCar
           taken == ~(drivers[p] = None /\ (c.retired <=> v \in Fleet))
<1>1. c \in TripCall /\ c.op = "hire"
  BY DEF TripsInv, TripsTypeOK, Hire
<1>2. p \in People /\ v \in Cars
  BY <1>1, CallIs, DriverCallIs
<1>3. /\ calls' \in [Callers -> TripCall]
      /\ \A j \in Callers : Modest(j) /\ (calls'[j] = calls[j] \/ Filed(calls'[j]) = {})
      /\ made' \in Nat
  BY QuitIs, Quiet1 DEF Hire, Leave, Continue, Quit
<1>4. UNCHANGED <<stored, shots, presenceVars>>
  BY DEF Hire
<1>5. CASE taken
  <2>1. UNCHANGED <<drivers, cars>>
    BY <1>5 DEF Hire
  <2> QED
    BY <1>3, <1>4, <2>1, Quiet1, ReadOnly DEF presenceVars
<1>6. CASE ~taken
  <2>1. row \in DriverRow /\ row.car = v /\ row.papers = NewDriver.papers
    BY <1>2, NewRows DEF DriverRow
  <2>2. /\ rowOfCar \in CarRow
        /\ rowOfCar.papers = IF c.retired THEN cars[v].papers ELSE NewCar.papers
        /\ c.retired => cars[v] # None
    <3>1. CASE c.retired
      <4>1. v \in Fleet /\ cars[v] # None
        BY <1>6, <3>1 DEF Fleet
      <4> QED
        BY <3>1, <4>1, CarIs DEF CarRow, VehicleStatuses
    <3>2. CASE ~c.retired
      BY <3>2, NewRows
    <3> QED
      BY <3>1, <3>2
  <2>3. SetDriver(p, row) /\ SetCar(v, rowOfCar)
    BY <1>6 DEF Hire
  <2>4. /\ rowOfCar.papers \in [CarDocs -> 1..shots \cup {None}]
        /\ \A t \in CarDocs : rowOfCar.papers[t] = None \/ IsPaper(rowOfCar.papers[t])
    BY <1>2, <2>2, CarIs, NewRows, PapersOfRows DEF Fleet
  <2> HIDE DEF row, rowOfCar
  <2> QED
    BY <1>2, <1>3, <1>4, <2>1, <2>2, <2>3, <2>4, NewRows, BothEdit
<1> QED
  BY <1>5, <1>6

LEMMA FindsCar ==
    ASSUME TripsInv, NEW k \in Callers, UNCHANGED tripVars, FindCar(k) PROVE TripsInv'
<1> DEFINE c == calls[k]  next == [op |-> "assign", person |-> c.person, car |-> c.car]
<1>1. c \in TripCall /\ c.op = "rehire" /\ c.person \in Driver
  BY DEF TripsInv, TripsTypeOK, FindCar, Relies
<1>2. c.person \in People /\ c.car \in Cars
  BY <1>1, CallIs, DriverCallIs
<1>3. UNCHANGED <<drivers, cars, stored, shots, position, map, cacheUp, sweep, made>>
  BY DEF FindCar, presenceVars, Leave, Continue
<1>4. /\ calls' \in [Callers -> TripCall]
      /\ \A j \in Callers : Modest(j) /\ (calls'[j] = calls[j] \/ Filed(calls'[j]) = {})
  <2>1. CASE Quit(k)
    BY <2>1, QuitIs
  <2>2. CASE calls' = [calls EXCEPT ![k] = next]
    <3>1. next \in DriverCall /\ next.op = "assign" /\ next.person = c.person
      BY <1>2 DEF DriverCall
    <3> HIDE DEF next
    <3>2. next \in TripCall /\ Hand(next) = {} /\ Former(next) = {} /\ Filed(next) = {}
      BY <3>1 DEF TripCall, Hand, Former, Filed
    <3>3. /\ calls' \in [Callers -> TripCall] /\ calls'[k] = next
          /\ \A j \in Callers \ {k} : calls'[j] = calls[j]
      BY <2>2, <3>2, CallSet DEF TripsInv
    <3>4. Driver' = Driver
      BY <1>3 DEF Driver
    <3>5. Relies(calls[k])'
      BY <1>1, <3>1, <3>3, <3>4 DEF Relies
    <3> QED
      BY <3>1, <3>2, <3>3, <3>5 DEF Modest
  <2> QED
    BY <2>1, <2>2 DEF FindCar, Continue, Leave, Quit
<1> QED
  BY <1>3, <1>4, Quiet1, ReadOnly

LEMMA HiringsEnd ==
    ASSUME TripsInv, NEW k \in Callers, UNCHANGED tripVars,
           Rehire(k) \/ Assign(k) \/ Release(k) \/ MarkOffline(k)
    PROVE  TripsInv'
<1> DEFINE c == calls[k]  p == c.person
<1>1. c \in TripCall /\ Relies(c)
  BY DEF TripsInv, TripsTypeOK
<1>2. Quit(k) /\ made' = made
  BY DEF Rehire, Assign, Release, MarkOffline, Leave, Continue, Quit
<1>3. /\ calls' \in [Callers -> TripCall]
      /\ \A j \in Callers : Modest(j) /\ (calls'[j] = calls[j] \/ Filed(calls'[j]) = {})
      /\ made' \in Nat
  BY <1>2, QuitIs, Quiet1
<1>4. CASE Rehire(k) \/ (Assign(k) /\ c.car \in Fleet)
  <2> DEFINE row == IF c.op = "rehire" THEN [drivers[p] EXCEPT !.online = TRUE]
                    ELSE [drivers[p] EXCEPT !.car = c.car, !.online = TRUE]
  <2>1. c.op \in {"rehire", "assign"} /\ UNCHANGED <<cars, stored, shots, presenceVars>>
    BY <1>4 DEF Rehire, Assign
  <2>2. SetDriver(p, row) /\ (c.op = "assign" => c.car \in Fleet)
    BY <1>4 DEF Rehire, Assign
  <2>3. p \in Driver /\ drivers[p] # None /\ c.car \in Cars
    BY <1>1, <2>1, CallIs, DriverCallIs DEF Relies, Driver
  <2>4. row \in DriverRow /\ row.papers = drivers[p].papers /\ row.car \in Fleet \cup {None}
    BY <2>1, <2>2, <2>3, RowIs, ZenonT(60) DEF DriverRow
  <2> HIDE DEF row
  <2> QED
    BY <1>3, <2>1, <2>2, <2>3, <2>4, RowIs, PapersOfRows, DriverEdit
<1>7. CASE Assign(k) /\ c.car \notin Fleet
  <2>1. UNCHANGED <<drivers, cars, stored, shots, position, map, cacheUp, sweep>>
    BY <1>7 DEF Assign, presenceVars
  <2> QED
    BY <1>3, <2>1, Quiet1, ReadOnly
<1>5. CASE Release(k)
  <2> DEFINE row == [drivers[p] EXCEPT !.online = FALSE, !.active = FALSE]
             rowOfCar == [cars[c.car] EXCEPT !.active = FALSE, !.status = "INACTIVE"]
  <2>1. c.op = "release" /\ UNCHANGED <<stored, shots, position, map, cacheUp, sweep>>
    BY <1>5 DEF Release, presenceVars
  <2>2. p \in Driver /\ drivers[p] # None
    BY <1>1, <2>1 DEF Relies, Driver
  <2>3. row \in DriverRow /\ row.papers = drivers[p].papers /\ row.car = drivers[p].car
    BY <2>2, RowIs DEF DriverRow
  <2>4. CASE c.car = None
    <3>1. SetDriver(p, row) /\ UNCHANGED cars
      BY <1>5, <2>4 DEF Release
    <3> HIDE DEF row
    <3> QED
      BY <1>3, <2>1, <2>2, <2>3, <3>1, RowIs, PapersOfRows, DriverEdit DEF presenceVars
  <2>5. CASE c.car # None /\ c.car \in Fleet
    <3>1. SetDriver(p, row) /\ SetCar(c.car, rowOfCar)
      BY <1>5, <2>5 DEF Release
    <3>2. rowOfCar \in CarRow /\ rowOfCar.papers = cars[c.car].papers /\ cars[c.car] # None
      BY <2>5, CarIs, ZenonT(60) DEF CarRow, VehicleStatuses, Fleet
    <3> HIDE DEF row, rowOfCar
    <3> QED
      BY <1>3, <2>1, <2>2, <2>3, <2>5, <3>1, <3>2, RowIs, CarIs, PapersOfRows, BothEdit DEF presenceVars
  <2>6. CASE c.car # None /\ c.car \notin Fleet
    <3>1. UNCHANGED <<drivers, cars>>
      BY <1>5, <2>6 DEF Release
    <3> QED
      BY <1>3, <2>1, <3>1, Quiet1, ReadOnly
  <2> QED
    BY <2>4, <2>5, <2>6
<1>6. CASE MarkOffline(k)
  <2>1. UNCHANGED <<drivers, cars, stored, shots, cacheUp, sweep>>
    BY <1>6 DEF MarkOffline
  <2>2. position' \in [People -> Stamps] /\ map' \subseteq People
    BY <1>6, Quiet1 DEF MarkOffline, Forget, Stamps
  <2> QED
    BY <1>3, <2>1, <2>2, Quiet1, ReadOnly
<1> QED
  BY <1>4, <1>5, <1>6, <1>7

LEMMA Presence ==
    ASSUME TripsInv, UNCHANGED tripVars,
           \/ \E p \in People : IngestPing(p) \/ Evict(p)
           \/ CacheFails \/ CacheReturns \/ SweepList \/ SweepJudge \/ SweepClear \/ SweepStops
    PROVE  TripsInv'
<1>1. UNCHANGED <<drivers, cars, stored, shots, calls>> /\ (Effort \/ UNCHANGED made)
  BY DEF IngestPing, Evict, CacheFails, CacheReturns, SweepList, SweepJudge, SweepClear, SweepStops, At_Once
<1>2. position' \in [People -> Stamps] /\ map' \subseteq People /\ cacheUp' \in BOOLEAN
  <2>1. CASE \E p \in People : IngestPing(p) \/ Evict(p)
    BY <2>1, Quiet1 DEF IngestPing, Evict, Stamps, Driver
  <2>2. CASE CacheFails \/ CacheReturns \/ SweepList \/ SweepJudge \/ SweepClear \/ SweepStops
    BY <2>2, Quiet1 DEF CacheFails, CacheReturns, SweepList, SweepJudge, SweepClear, SweepStops,
                        Forget, Stamps
  <2> QED
    BY <2>1, <2>2
<1>3. sweep' \in [at : {"rest", "judge", "write", "clear"}, stale : SUBSET Driver]
  BY Quiet1 DEF IngestPing, Evict, CacheFails, CacheReturns, SweepList, SweepJudge, SweepClear,
                SweepStops, NoSweep, Stale
<1> QED
  BY <1>1, <1>2, <1>3, EffortIs, StillIs, ReadOnly

(* Many rows at once: a heartbeat passes, the sweep takes flags away.      *)
LEMMA FlagsChange ==
    ASSUME TripsInv, UNCHANGED tripVars, HeartbeatPasses \/ SweepWrite
    PROVE  TripsInv'
<1>1. /\ UNCHANGED <<cars, stored, shots, map, cacheUp, calls, made>>
      /\ \A p \in People : \/ drivers'[p] = drivers[p]
                           \/ p \in Driver /\ drivers'[p] = [drivers[p] EXCEPT !.pinged = "old"]
                           \/ p \in Driver /\ drivers'[p] = [drivers[p] EXCEPT !.online = FALSE]
  BY Quiet1 DEF HeartbeatPasses, SweepWrite, Driver
<1>2. drivers' = [p \in People |-> drivers'[p]]
  BY DEF HeartbeatPasses, SweepWrite
<1>3. ASSUME NEW p \in People
      PROVE  /\ p \notin Driver => drivers'[p] = None
             /\ p \in Driver => /\ drivers'[p] \in DriverRow /\ drivers'[p].car = drivers[p].car
                                /\ drivers'[p].papers = drivers[p].papers
  <2>1. CASE p \in Driver
    <3>1. drivers[p] \in DriverRow
      BY <2>1, RowIs
    <3>2. ASSUME NEW row \in DriverRow
          PROVE  /\ [row EXCEPT !.pinged = "old"] \in DriverRow /\ [row EXCEPT !.online = FALSE] \in DriverRow
                 /\ [row EXCEPT !.pinged = "old"].car = row.car /\ [row EXCEPT !.online = FALSE].car = row.car
                 /\ [row EXCEPT !.pinged = "old"].papers = row.papers
                 /\ [row EXCEPT !.online = FALSE].papers = row.papers
      BY DEF DriverRow, Stamps
    <3> QED
      BY <1>1, <2>1, <3>1, <3>2
  <2>2. CASE p \notin Driver
    BY <1>1, <2>2 DEF Driver
  <2> QED
    BY <2>1, <2>2
<1>4. drivers' \in [People -> DriverRow \cup {None}]
  BY <1>2, <1>3
<1>5. Driver' = Driver /\ Fleet' = Fleet
  BY <1>1, <1>3, TripsAssumption DEF Driver, Fleet
<1>6. Filled(drivers, cars, shots)'
  <2>1. /\ cars \in [Cars -> CarRow \cup {None}]
        /\ \A v \in Cars : cars[v] # None => cars[v].papers \in [CarDocs -> 1..shots \cup {None}]
    BY DEF TripsInv, TripsTypeOK, DriverTypeOK, Filled
  <2>2. \A p \in People : drivers'[p] # None =>
            /\ drivers'[p].car # None => cars[drivers'[p].car] # None
            /\ drivers'[p].papers \in [DriverDocs -> 1..shots \cup {None}]
    BY <1>3, RowIs DEF Fleet
  <2> QED
    BY <1>1, <1>4, <2>1, <2>2 DEF Filled
<1>7. sweep' \in [at : {"rest", "judge", "write", "clear"}, stale : SUBSET Driver]
      /\ position' \in [People -> Stamps]
  BY Quiet1 DEF HeartbeatPasses, SweepWrite, Stamps
<1>8. DriverTypeOK'
  BY <1>1, <1>5, <1>6, <1>7, Quiet1 DEF DriverTypeOK
<1>9. NoNewPaper
  BY <1>1, <1>3, PapersFrom, PapersOfRows DEF Driver
<1> QED
  BY <1>1, <1>5, <1>8, <1>9, StillIs, Quiet1, TableStep

LEMMA DriversKeep ==
    ASSUME TripsInv, UNCHANGED tripVars,
           \/ DriverSteps \/ \E v \in Cars : HardDelete(v, Dispatched(v))
           \/ \E k \in Callers, p \in People : BeginRelease(k, p, HoldsTrip(p))
    PROVE  TripsInv'
BY Accounts1, Accounts2, CarForms, Deletes, Uploads, Files, Submits, Hirings, Hires, FindsCar,
   HiringsEnd, Presence,
   FlagsChange DEF DriverSteps, Sweep

-----------------------------------------------------------------------------
(* The steps of trips. *)

(* The row of a trip after a step that writes no photograph, no end        *)
(* reading and counts no code.                                             *)
Sequel(b) ==
    /\ trips'[b].startPhoto = trips[b].startPhoto /\ trips'[b].endPhoto = trips[b].endPhoto
    /\ trips'[b].end = trips[b].end /\ trips'[b].attempts = trips[b].attempts
    /\ trips'[b].coded = trips[b].coded /\ (trips[b].verified => trips'[b].verified)
    /\ trips[b].status \notin Early => /\ trips'[b].status \notin Early
                                       /\ trips'[b].start = trips[b].start
    /\ Orderly(trips'[b])

LEMMA TripStep ==
    ASSUME TripsInv, UNCHANGED <<drivers, cars, shots, cacheUp, sweep>>, made' \in Nat,
           position' \in [People -> Stamps], map' \subseteq People,
           stored' \subseteq stored, \A n \in stored : n \in stored' \/ Expendable(n),
           calls' \in [Callers -> TripCall],
           \A j \in Callers : Modest(j) /\ (calls'[j] = calls[j] \/ Filed(calls'[j]) = {}),
           trips' \in [Bookings -> TripRow], \A b \in Bookings : Sequel(b),
           former' \in [Bookings -> SUBSET EndedAllocation],
           \A v \in Cars : Dispatched(v) => Dispatched(v)',
           stops' \in [Bookings -> [Stops -> StopRow \cup {None}]],
           \A b \in Bookings : \A i \in Stops : stops[b][i] # None => stops'[b][i] # None
    PROVE  TripsInv'
<1>1. Driver' = Driver /\ Fleet' = Fleet
  BY DEF Driver, Fleet
<1>2. DriverTypeOK' /\ shots <= shots'
  BY <1>1 DEF TripsInv, TripsTypeOK, DriverTypeOK
<1>3. \A b \in Bookings : Photos(trips'[b]) \subseteq 1..shots'
  BY DEF Sequel, Photos, TripsInv, TripsTypeOK
<1>4. TripsTypeOK'
  BY <1>2, <1>3 DEF TripsTypeOK
<1>5. Grows
  BY <1>1, <1>2 DEF Grows, Sequel, HasEndReading, Fleet
<1>6. NoNewPaper
  BY PapersFrom, PapersOfRows
<1> QED
  BY <1>4, <1>5, <1>6, Ordinary DEF Sequel

LEMMA TripIs ==
    TripsInv => /\ trips \in [Bookings -> TripRow] /\ former \in [Bookings -> SUBSET EndedAllocation]
                /\ stops \in [Bookings -> [Stops -> StopRow \cup {None}]]
                /\ calls \in [Callers -> TripCall]
                /\ \A b \in Bookings : Orderly(trips[b]) /\ Photos(trips[b]) \subseteq 1..shots
                /\ \A k \in Callers : Relies(calls[k])
BY DEF TripsInv, TripsTypeOK, RowsInv

LEMMA RowWritten ==
    ASSUME TripsInv, NEW b \in Bookings, NEW row \in TripRow, Write(b, row)
    PROVE  /\ trips' \in [Bookings -> TripRow] /\ trips'[b] = row
           /\ \A d \in Bookings \ {b} : trips'[d] = trips[d]
BY TripIs DEF Write

LEMMA SameSequel ==
    ASSUME TripsInv, NEW b \in Bookings, trips'[b] = trips[b] PROVE Sequel(b)
BY TripIs DEF Sequel

(* One row is written, and it holds the car it held. *)
LEMMA SequelOfOne ==
    ASSUME TripsInv, NEW b \in Bookings, NEW row \in TripRow, Write(b, row),
           Sequel(b), row.car = trips[b].car, UNCHANGED former
    PROVE  /\ trips' \in [Bookings -> TripRow] /\ \A d \in Bookings : Sequel(d)
           /\ \A v \in Cars : Dispatched(v) => Dispatched(v)'
<1>1. /\ trips' \in [Bookings -> TripRow] /\ trips'[b] = row
      /\ \A d \in Bookings \ {b} : trips'[d] = trips[d]
  BY RowWritten
<1>2. \A d \in Bookings : Sequel(d)
  BY <1>1, SameSequel
<1>3. \A d \in Bookings : trips'[d].car = trips[d].car
  BY <1>1
<1> QED
  BY <1>1, <1>2, <1>3 DEF Dispatched

LEMMA NoRowWritten ==
    ASSUME TripsInv, UNCHANGED <<trips, former>>
    PROVE  /\ trips' \in [Bookings -> TripRow] /\ \A d \in Bookings : Sequel(d)
           /\ former' \in [Bookings -> SUBSET EndedAllocation]
           /\ \A v \in Cars : Dispatched(v) => Dispatched(v)'
BY TripIs, SameSequel DEF Dispatched

(* A fact about the records of stops that several steps need. *)
LEMMA InitialisedIs ==
    ASSUME TripsInv, NEW b \in Bookings,
           stops' = stops \/ stops' = [stops EXCEPT ![b] = Initialised(b)]
    PROVE  /\ stops' \in [Bookings -> [Stops -> StopRow \cup {None}]]
           /\ \A d \in Bookings : \A i \in Stops : stops[d][i] # None => stops'[d][i] # None
<1> DEFINE blank == [reached |-> None, left |-> FALSE]
<1>1. blank \in StopRow
  BY DEF StopRow
<1>2. blank # None
  BY <1>1, TripsAssumption
<1>3. Initialised(b) = [i \in Stops |-> IF stops[b][i] = None THEN blank ELSE stops[b][i]]
  BY DEF Initialised
<1>4. stops \in [Bookings -> [Stops -> StopRow \cup {None}]]
  BY TripIs
<1> HIDE DEF blank
<1>5. /\ Initialised(b) \in [Stops -> StopRow \cup {None}]
      /\ \A i \in Stops : Initialised(b)[i] # None
  BY <1>1, <1>2, <1>3, <1>4
<1> QED
  BY <1>4, <1>5

LEMMA Moves ==
    ASSUME TripsInv, NEW b \in Bookings,
           \/ MarkEnRoute(b) \/ MarkReached(b) \/ MarkArrived(b) \/ CompleteByStaff(b)
           \/ StartByStaff(b) \/ \E p \in People : PingAtDrop(p, b)
    PROVE  TripsInv'
<1>1. \E to \in Early \cup Ongoing \cup {"COMPLETED"} :
          /\ trips[b].status \notin Early => to \notin Early
          /\ Write(b, [trips[b] EXCEPT !.status = to])
  BY DEF MarkEnRoute, MarkReached, MarkArrived, CompleteByStaff, StartByStaff, PingAtDrop, Move,
         Early, Ongoing, Startable
<1>2. PICK to \in Early \cup Ongoing \cup {"COMPLETED"} :
          /\ trips[b].status \notin Early => to \notin Early
          /\ Write(b, [trips[b] EXCEPT !.status = to])
  BY <1>1
<1> DEFINE row == [trips[b] EXCEPT !.status = to]
<1>3. row \in TripRow /\ row.car = trips[b].car
  BY <1>2, TripIs, ZenonT(60) DEF TripRow
<1>4. trips[b].status \in Early => trips[b].end = None
  BY TripIs DEF Orderly
<1>5. trips'[b] = row
  BY <1>2, <1>3, RowWritten
<1>6. Sequel(b)
  <2>1. /\ row.startPhoto = trips[b].startPhoto /\ row.endPhoto = trips[b].endPhoto
        /\ row.end = trips[b].end /\ row.attempts = trips[b].attempts /\ row.coded = trips[b].coded
        /\ row.verified = trips[b].verified /\ row.start = trips[b].start /\ row.status = to
        /\ row.startedBy = trips[b].startedBy /\ row.endedBy = trips[b].endedBy
    BY <1>3, TripIs DEF TripRow
  <2> HIDE DEF row
  <2>2. Orderly(row)
    BY <1>2, <1>4, <2>1, TripIs DEF Orderly
  <2> QED
    BY <1>2, <1>5, <2>1, <2>2 DEF Sequel
<1>7. /\ UNCHANGED <<drivers, cars, stored, shots, cacheUp, sweep, former>> /\ At_Once
  BY DEF MarkEnRoute, MarkReached, MarkArrived, CompleteByStaff, StartByStaff, PingAtDrop, Move,
         presenceVars
<1>8. position' \in [People -> Stamps] /\ map' \subseteq People
  BY Quiet1 DEF MarkEnRoute, MarkReached, MarkArrived, CompleteByStaff, StartByStaff, PingAtDrop,
                Move, presenceVars, Stamps, Driver
<1>9. /\ stops' \in [Bookings -> [Stops -> StopRow \cup {None}]]
      /\ \A d \in Bookings : \A i \in Stops : stops[d][i] # None => stops'[d][i] # None
  <2>1. stops' = stops \/ stops' = [stops EXCEPT ![b] = Initialised(b)]
    BY DEF MarkEnRoute, MarkReached, MarkArrived, CompleteByStaff, StartByStaff, PingAtDrop, Move
  <2> QED
    BY <2>1, InitialisedIs
<1> HIDE DEF row
<1>10. /\ trips' \in [Bookings -> TripRow] /\ \A d \in Bookings : Sequel(d)
       /\ \A v \in Cars : Dispatched(v) => Dispatched(v)'
  <2>1. Write(b, row)
    BY <1>2 DEF row
  <2> QED
    BY <1>3, <1>6, <1>7, <2>1, SequelOfOne
<1> QED
  BY <1>7, <1>8, <1>9, <1>10, AtOnce, TripIs, TripStep

LEMMA Reassigns ==
    ASSUME TripsInv, NEW b \in Bookings, NEW p \in People, NEW v \in Cars, Reassign(b, p, v)
    PROVE  TripsInv'
<1> DEFINE row == [trips[b] EXCEPT !.driver = p, !.car = v]
           gone == [driver |-> trips[b].driver, car |-> trips[b].car]
<1>1. /\ UNCHANGED <<drivers, cars, stored, shots, position, map, cacheUp, sweep, stops>> /\ At_Once
      /\ Write(b, row) /\ former' = [former EXCEPT ![b] = @ \cup {gone}]
  BY DEF Reassign, presenceVars
<1>2. /\ row \in TripRow /\ row.status = trips[b].status /\ gone \in EndedAllocation
      /\ gone.car = trips[b].car
      /\ row.startPhoto = trips[b].startPhoto /\ row.endPhoto = trips[b].endPhoto
      /\ row.end = trips[b].end /\ row.attempts = trips[b].attempts /\ row.coded = trips[b].coded
      /\ row.verified = trips[b].verified /\ row.start = trips[b].start
      /\ row.startedBy = trips[b].startedBy /\ row.endedBy = trips[b].endedBy
  <2>1. trips[b] \in TripRow
    BY TripIs
  <2>2. gone \in EndedAllocation /\ gone.car = trips[b].car
    BY <2>1 DEF TripRow, EndedAllocation
  <2>3. ASSUME NEW t \in TripRow, NEW to, to = [t EXCEPT !.driver = p, !.car = v]
        PROVE  /\ to \in TripRow /\ to.status = t.status
               /\ to.startPhoto = t.startPhoto /\ to.endPhoto = t.endPhoto
               /\ to.end = t.end /\ to.attempts = t.attempts /\ to.coded = t.coded
               /\ to.verified = t.verified /\ to.start = t.start
               /\ to.startedBy = t.startedBy /\ to.endedBy = t.endedBy
    BY <2>3 DEF TripRow
  <2> QED
    BY <2>1, <2>2, <2>3, ZenonT(60)
<1> HIDE DEF row, gone
<1>3. /\ trips' \in [Bookings -> TripRow] /\ trips'[b] = row
      /\ \A d \in Bookings \ {b} : trips'[d] = trips[d]
  BY <1>1, <1>2, RowWritten
<1>4. Sequel(b)
  BY <1>2, <1>3, TripIs DEF Sequel, Orderly
<1>5. \A d \in Bookings : Sequel(d)
  BY <1>3, <1>4, SameSequel
<1>6. /\ former' \in [Bookings -> SUBSET EndedAllocation] /\ gone \in former'[b]
      /\ \A d \in Bookings : former[d] \subseteq former'[d]
  BY <1>1, <1>2, TripIs
<1>7. ASSUME NEW w \in Cars, Dispatched(w) PROVE Dispatched(w)'
  <2>1. PICK d \in Bookings : trips[d].car = w \/ \E f \in former[d] : f.car = w
    BY <1>7 DEF Dispatched
  <2>2. CASE \E f \in former[d] : f.car = w
    BY <1>6, <2>2 DEF Dispatched
  <2>3. CASE trips[d].car = w /\ d # b
    BY <1>3, <2>3 DEF Dispatched
  <2>4. CASE trips[d].car = w /\ d = b
    BY <1>2, <1>6, <2>4 DEF Dispatched
  <2> QED
    BY <2>1, <2>2, <2>3, <2>4
<1> QED
  BY <1>1, <1>3, <1>5, <1>6, <1>7, AtOnce, TripIs, Quiet1, TripStep

(* Requests begin. *)
LEMMA CarsAre ==
    ASSUME NEW b \in Bookings, NEW p \in People, NEW v \in CarsOf(b, p) PROVE Dispatched(v)
BY DEF CarsOf, Dispatched

LEMMA Begins ==
    ASSUME TripsInv, NEW k \in Callers, NEW next \in TripCall, Begin(k, next),
           next.op \in {"code", "endPhoto", "finish", "reach", "leave"},
           UNCHANGED <<drivers, cars, stored, shots, presenceVars, tripVars>>, Relies(next)
    PROVE  TripsInv'
<1>1. UNCHANGED <<position, map, cacheUp, sweep, trips, former, stops>>
  BY DEF presenceVars, tripVars
<1>2. Hand(next) = {} /\ Former(next) = {} /\ Filed(next) = {} /\ next.op # "wrong"
  BY DEF Hand, Former, Filed
<1>3. /\ calls' \in [Callers -> TripCall] /\ calls'[k] = next /\ made' \in Nat
      /\ Relies(calls[k])' => \A j \in Callers : Modest(j)
      /\ \A j \in Callers \ {k} : calls'[j] = calls[j]
  BY <1>2, Begun
<1>4. Relies(calls[k])'
  BY <1>1, <1>3 DEF Relies, Fleet, Driver, Dispatched, NotBelowStart, HasEndReading
<1> QED
  BY <1>1, <1>2, <1>3, <1>4, NoRowWritten, TripIs, Quiet1, TripStep

LEMMA TripsBegin ==
    ASSUME TripsInv, NEW b \in Bookings, NEW k \in Callers, NEW p \in People,
           \/ \E v \in Cars, km \in Readings :
                 \/ BeginStart(k, b, p, v, km)
                 \/ \E completes \in BOOLEAN : BeginEndReading(k, b, p, v, km, completes)
           \/ BeginFinish(k, b, p) \/ CollectCash(k, b, p)
           \/ \E i \in Stops : BeginArrive(k, b, p, i) \/ BeginDepart(k, b, p, i)
    PROVE  TripsInv'
<1>1. ASSUME NEW v \in Cars, NEW km \in Readings, BeginStart(k, b, p, v, km) PROVE TripsInv'
  <2> DEFINE next == [op |-> "code", booking |-> b, driver |-> p, car |-> v, km |-> km,
                      photo |-> None, stale |-> 0]
  <2>1. next \in TripCall /\ next.op = "code" /\ next.car = v
    BY DEF TripCall, StartCall
  <2>2. Begin(k, next) /\ UNCHANGED <<drivers, cars, stored, shots, presenceVars, tripVars>>
    BY <1>1 DEF BeginStart
  <2>3. v \in Fleet /\ Dispatched(v)
    BY <1>1, CarsAre DEF BeginStart
  <2> HIDE DEF next
  <2>4. Relies(next)
    BY <2>1, <2>3 DEF Relies
  <2> QED
    BY <2>1, <2>2, <2>4, Begins
<1>2. ASSUME NEW v \in Cars, NEW km \in Readings, NEW completes \in BOOLEAN,
             BeginEndReading(k, b, p, v, km, completes)
      PROVE TripsInv'
  <2> DEFINE next == [op |-> "endPhoto", booking |-> b, driver |-> p, car |-> v, km |-> km,
                      completes |-> completes, photo |-> None, moves |-> FALSE, replaced |-> None]
  <2>1. next \in TripCall /\ next.op = "endPhoto" /\ next.booking = b
    BY DEF TripCall, EndCall
  <2>2. Begin(k, next) /\ UNCHANGED <<drivers, cars, stored, shots, presenceVars, tripVars>>
    BY <1>2 DEF BeginEndReading
  <2>3. trips[b].status \notin Early
    BY <1>2 DEF BeginEndReading, Ongoing, Early
  <2> HIDE DEF next
  <2>4. Relies(next)
    BY <2>1, <2>3 DEF Relies
  <2> QED
    BY <2>1, <2>2, <2>4, Begins
<1>3. CASE BeginFinish(k, b, p) \/ CollectCash(k, b, p)
  <2> DEFINE next == [op |-> "finish", booking |-> b, driver |-> p]
  <2>1. next \in TripCall /\ next.op = "finish" /\ Relies(next)
    BY DEF TripCall, CloseCall, Relies
  <2>2. Begin(k, next) /\ UNCHANGED <<drivers, cars, stored, shots, presenceVars, tripVars>>
    BY <1>3 DEF BeginFinish, CollectCash
  <2> HIDE DEF next
  <2> QED
    BY <2>1, <2>2, Begins
<1>4. ASSUME NEW i \in Stops, BeginArrive(k, b, p, i) PROVE TripsInv'
  <2> DEFINE next == [op |-> "reach", booking |-> b, stop |-> i, time |-> made]
  <2>1. next \in TripCall /\ next.op = "reach" /\ Relies(next)
    BY Quiet1 DEF TripCall, ReachCall, Relies
  <2>2. Begin(k, next) /\ UNCHANGED <<drivers, cars, stored, shots, presenceVars, tripVars>>
    BY <1>4 DEF BeginArrive
  <2> HIDE DEF next
  <2> QED
    BY <2>1, <2>2, Begins
<1>5. ASSUME NEW i \in Stops, BeginDepart(k, b, p, i) PROVE TripsInv'
  <2> DEFINE next == [op |-> "leave", booking |-> b, stop |-> i]
  <2>1. next \in TripCall /\ next.op = "leave"
    BY DEF TripCall, LeaveCall
  <2>2. Begin(k, next) /\ UNCHANGED <<drivers, cars, stored, shots, presenceVars, tripVars>>
    BY <1>5 DEF BeginDepart
  <2>3. stops[b][i] # None
    BY <1>5 DEF BeginDepart, Reached
  <2>4. Relies(next)
    BY <2>1, <2>3 DEF Relies
  <2> HIDE DEF next
  <2> QED
    BY <2>1, <2>2, <2>4, Begins
<1> QED
  BY <1>1, <1>2, <1>3, <1>4, <1>5

(* A request goes on with the image it had, or with none. *)
LEMMA GoesOn ==
    ASSUME TripsInv, NEW k \in Callers, NEW next \in TripCall, Continue(k, next),
           UNCHANGED <<drivers, cars, shots, presenceVars, tripVars>>,
           stored' \subseteq stored, \A n \in stored : n \in stored' \/ Expendable(n),
           Hand(next) \subseteq Hand(calls[k]), Former(next) = {}, Filed(next) = {},
           next.op # "wrong", Relies(next)
    PROVE  TripsInv'
<1>1. UNCHANGED <<position, map, cacheUp, sweep, trips, former, stops>>
  BY DEF presenceVars, tripVars
<1>2. /\ calls' \in [Callers -> TripCall] /\ calls'[k] = next
      /\ \A j \in Callers \ {k} : calls'[j] = calls[j]
  BY CallSet DEF Continue, TripsInv
<1>3. Relies(calls[k])'
  BY <1>1, <1>2 DEF Relies, Fleet, Driver, Dispatched, NotBelowStart, HasEndReading
<1>4. \A j \in Callers : Modest(j) /\ (calls'[j] = calls[j] \/ Filed(calls'[j]) = {})
  BY <1>2, <1>3 DEF Modest
<1>5. made' \in Nat
  BY Quiet1 DEF Continue
<1> QED
  BY <1>1, <1>2, <1>4, <1>5, NoRowWritten, TripIs, Quiet1, TripStep

(* A request that ends may destroy what it held. *)
LEMMA Ends ==
    ASSUME TripsInv, NEW k \in Callers, Leave(k),
           UNCHANGED <<drivers, cars, shots, presenceVars, tripVars>>,
           \/ stored' = stored
           \/ \E n : Destroy({n}) /\ n \in Hand(calls[k])
           \/ calls[k].op = "clean" /\ Destroy(Former(calls[k]))
    PROVE  TripsInv'
<1>1. Continue(k, NoRequest) /\ calls'[k] = NoRequest
  BY CallSet, NobodyIs DEF Leave, Continue, TripsInv
<1>2. stored' \subseteq stored /\ \A n \in stored : n \in stored' \/ Expendable(n)
  BY <1>1, NobodyIs DEF Destroy, Expendable
<1> QED
  BY <1>1, <1>2, NobodyIs, GoesOn

(* The code. *)
LEMMA CodesRead ==
    ASSUME TripsInv, NEW k \in Callers, NEW right \in BOOLEAN, ReadCode(k, right)
    PROVE  TripsInv'
<1> DEFINE c == calls[k]  t == trips[c.booking]
<1>1. /\ c \in StartCall /\ c.op = "code" /\ Relies(c) /\ c.booking \in Bookings
      /\ UNCHANGED <<drivers, cars, stored, shots, presenceVars, tripVars>>
  BY TripIs, CallIs DEF ReadCode, StartCall
<1>2. c.car \in Fleet /\ Dispatched(c.car)
  BY <1>1 DEF Relies
<1>3. ASSUME NEW op \in {"right", "wrong", "photo"}
      PROVE  /\ [c EXCEPT !.op = op] \in TripCall /\ [c EXCEPT !.op = op].op = op
             /\ [c EXCEPT !.op = op].booking = c.booking /\ [c EXCEPT !.op = op].car = c.car
             /\ Hand([c EXCEPT !.op = op]) = {} /\ Former([c EXCEPT !.op = op]) = {}
             /\ Filed([c EXCEPT !.op = op]) = {}
  BY <1>1 DEF TripCall, StartCall, Hand, Former, Filed
<1>4. CASE t.verified
  <2>1. Continue(k, [c EXCEPT !.op = "photo"])
    BY <1>4 DEF ReadCode
  <2>2. Relies([c EXCEPT !.op = "photo"])
    BY <1>2, <1>3, <1>4 DEF Relies
  <2> QED
    BY <1>1, <1>3, <2>1, <2>2, GoesOn
<1>5. CASE ~t.verified /\ (~t.coded \/ Locked(c.booking))
  <2>1. Leave(k)
    BY <1>5 DEF ReadCode
  <2> QED
    BY <1>1, <2>1, Ends
<1>6. CASE ~t.verified /\ t.coded /\ ~Locked(c.booking) /\ right
  <2>1. Continue(k, [c EXCEPT !.op = "right"])
    BY <1>6 DEF ReadCode
  <2>2. Relies([c EXCEPT !.op = "right"])
    BY <1>2, <1>3, <1>6 DEF Relies
  <2> QED
    BY <1>1, <1>3, <2>1, <2>2, GoesOn
<1>7. CASE ~t.verified /\ t.coded /\ ~Locked(c.booking) /\ ~right
  <2> DEFINE next == [c EXCEPT !.op = "wrong"]
  <2>1. Continue(k, next)
    BY <1>7 DEF ReadCode
  <2>2. /\ next \in TripCall /\ next.op = "wrong" /\ next.booking = c.booking /\ next.car = c.car
        /\ Hand(next) = {} /\ Former(next) = {} /\ Filed(next) = {}
    BY <1>3
  <2> HIDE DEF next
  <2>3. /\ calls' \in [Callers -> TripCall] /\ calls'[k] = next
        /\ \A j \in Callers \ {k} : calls'[j] = calls[j] /\ made' = made
    BY <2>1, <2>2, CallSet DEF Continue, TripsInv
  <2>4. UNCHANGED <<drivers, cars, stored, shots, position, map, cacheUp, sweep, trips, former, stops>>
        /\ made' = made
    BY <1>1, <2>1 DEF presenceVars, tripVars, Continue
  <2>5. Driver' = Driver /\ Fleet' = Fleet
    BY <2>4 DEF Driver, Fleet
  <2>6. TripsTypeOK'
    BY <2>3, <2>4, <2>5 DEF TripsInv, TripsTypeOK, DriverTypeOK
  <2>7. Grows
    BY <2>4, <2>5, Quiet1 DEF Grows, Dispatched, HasEndReading
  <2>8. Relies(calls[k])'
    BY <1>2, <1>7, <2>2, <2>3, <2>4, <2>5 DEF Relies, Dispatched
  <2>9. NoNewPaper
    BY <2>2, <2>3, <2>4, PapersFrom, PapersOfRows
  <2>10. ImageInv'
    BY <2>2, <2>3, <2>4, <2>6, <2>7, <2>9, ImagesKept
  <2>11. RowsInv'
    <3> SUFFICES ASSUME NEW b \in Bookings
                 PROVE  trips[b].attempts + Cardinality(Guessing(b)') < MaxWrong + Cardinality(Callers)
      BY <2>4 DEF RowsInv, TripsInv
    <3>1. CASE b # c.booking
      <4>1. Guessing(b)' = Guessing(b)
        BY <1>1, <2>2, <2>3, <3>1 DEF Guessing
      <4> QED
        BY <4>1 DEF TripsInv, RowsInv
    <3>2. CASE b = c.booking
      <4>1. trips[b].attempts < MaxWrong /\ trips[b].attempts \in Nat
        BY <1>7, <3>2, TripIs, TripsAssumption DEF Locked, TripRow
      <4>2. Guessing(b)' \subseteq Callers
        BY DEF Guessing
      <4>3. Cardinality(Guessing(b)') <= Cardinality(Callers) /\ Cardinality(Guessing(b)') \in Nat
        BY <4>2, TripsAssumption, FS_Subset, FS_CardinalityType
      <4> QED
        BY <4>1, <4>3, GuessesFinite, TripsAssumption
    <3> QED
      BY <3>1, <3>2
  <2> QED
    BY <2>3, <2>6, <2>7, <2>8, <2>10, <2>11, Assembled
<1> QED
  BY <1>4, <1>5, <1>6, <1>7

(* A wrong code is counted when its request ends: the request is counted   *)
(* for it until then.                                                      *)
LEMMA WrongCounted ==
    ASSUME TripsInv, NEW k \in Callers, WrongCode(k) PROVE TripsInv'
<1> DEFINE b == calls[k].booking
           row == [trips[b] EXCEPT !.attempts = @ + 1]
<1>1. /\ calls[k].op = "wrong" /\ b \in Bookings /\ Write(b, row) /\ Quit(k) /\ made' = made
      /\ UNCHANGED <<drivers, cars, stored, shots, position, map, cacheUp, sweep, former, stops>>
  BY TripIs, CallIs DEF WrongCode, StartCall, Leave, Continue, Quit, presenceVars
<1>2. trips[b] \in TripRow
  BY <1>1, TripIs
<1>3. ASSUME NEW t \in TripRow, NEW to, to = [t EXCEPT !.attempts = @ + 1]
      PROVE  /\ to \in TripRow /\ to.attempts = t.attempts + 1 /\ to.status = t.status
             /\ to.car = t.car /\ to.coded = t.coded /\ to.verified = t.verified
             /\ to.start = t.start /\ to.end = t.end /\ to.startPhoto = t.startPhoto
             /\ to.endPhoto = t.endPhoto /\ to.startedBy = t.startedBy /\ to.endedBy = t.endedBy
  BY <1>3 DEF TripRow
<1>4. /\ row \in TripRow /\ row.attempts = trips[b].attempts + 1 /\ row.status = trips[b].status
      /\ row.car = trips[b].car /\ row.coded = trips[b].coded /\ row.verified = trips[b].verified
      /\ row.start = trips[b].start /\ row.end = trips[b].end /\ row.startPhoto = trips[b].startPhoto
      /\ row.endPhoto = trips[b].endPhoto /\ row.startedBy = trips[b].startedBy
      /\ row.endedBy = trips[b].endedBy
  BY <1>2, <1>3
<1> HIDE DEF row
<1>5. /\ trips' \in [Bookings -> TripRow] /\ trips'[b] = row
      /\ \A d \in Bookings \ {b} : trips'[d] = trips[d]
  BY <1>1, <1>4, RowWritten
<1>6. /\ calls' \in [Callers -> TripCall] /\ calls'[k] = NoRequest
      /\ \A j \in Callers : Modest(j) /\ (calls'[j] = calls[j] \/ Filed(calls'[j]) = {})
      /\ \A j \in Callers \ {k} : calls'[j] = calls[j]
  BY <1>1, QuitIs, CallSet, NobodyIs DEF Quit, TripsInv
<1>7. Driver' = Driver /\ Fleet' = Fleet
  BY <1>1 DEF Driver, Fleet
<1>8. \A d \in Bookings : Photos(trips'[d]) = Photos(trips[d])
  BY <1>4, <1>5 DEF Photos
<1>9. TripsTypeOK'
  BY <1>1, <1>5, <1>6, <1>7, <1>8 DEF TripsInv, TripsTypeOK, DriverTypeOK
<1>10. Grows
  BY <1>1, <1>4, <1>5, <1>7, Quiet1 DEF Grows, Dispatched, HasEndReading
<1>11. NoNewPaper
  BY <1>1, <1>6, PapersFrom, PapersOfRows
<1>12. ImageInv'
  BY <1>1, <1>4, <1>5, <1>6, <1>9, <1>10, <1>11, ImagesKept DEF Modest
<1>13. RowsInv'
  <2> SUFFICES ASSUME NEW d \in Bookings
               PROVE  /\ Orderly(trips'[d])
                      /\ trips'[d].attempts + Cardinality(Guessing(d)') < MaxWrong + Cardinality(Callers)
    BY DEF RowsInv
  <2>1. Orderly(trips'[d])
    BY <1>4, <1>5, TripIs DEF Orderly
  <2>2. CASE d # b
    <3>1. Guessing(d)' = Guessing(d)
      BY <1>6, <2>2, NobodyIs DEF Guessing
    <3> QED
      BY <1>5, <2>1, <2>2, <3>1 DEF TripsInv, RowsInv
  <2>3. CASE d = b
    <3>1. Guessing(d)' = Guessing(d) \ {k} /\ k \in Guessing(d)
      BY <1>1, <1>6, <2>3, NobodyIs DEF Guessing
    <3>2. Cardinality(Guessing(d)') = Cardinality(Guessing(d)) - 1
      BY <3>1, GuessesFinite, FS_RemoveElement
    <3>3. trips[b].attempts \in Nat /\ trips'[d].attempts = trips[b].attempts + 1
      BY <1>2, <1>4, <1>5, <2>3 DEF TripRow
    <3>4. trips[b].attempts + Cardinality(Guessing(d)) < MaxWrong + Cardinality(Callers)
      BY <2>3 DEF TripsInv, RowsInv
    <3> QED
      BY <2>1, <3>2, <3>3, <3>4, GuessesFinite, TripsAssumption
  <2> QED
    BY <2>2, <2>3
<1> QED
  BY <1>6, <1>9, <1>10, <1>12, <1>13, Assembled DEF Modest

LEMMA RightVerified ==
    ASSUME TripsInv, NEW k \in Callers, RightCode(k) PROVE TripsInv'
<1> DEFINE c == calls[k]  b == c.booking
           row == [trips[b] EXCEPT !.verified = TRUE]
           next == [c EXCEPT !.op = "photo"]
<1>1. /\ c \in StartCall /\ c.op = "right" /\ Relies(c) /\ b \in Bookings /\ Write(b, row)
      /\ Continue(k, next)
      /\ UNCHANGED <<drivers, cars, stored, shots, position, map, cacheUp, sweep, former, stops>>
  BY TripIs, CallIs DEF RightCode, StartCall, presenceVars
<1>2. trips[b].coded /\ c.car \in Fleet /\ Dispatched(c.car)
  BY <1>1 DEF Relies
<1>3. /\ next \in TripCall /\ next.op = "photo" /\ next.booking = b /\ next.car = c.car
      /\ Hand(next) = {} /\ Former(next) = {} /\ Filed(next) = {}
  BY <1>1 DEF TripCall, StartCall, Hand, Former, Filed
<1>4. ASSUME NEW t \in TripRow, NEW to, to = [t EXCEPT !.verified = TRUE]
      PROVE  /\ to \in TripRow /\ to.attempts = t.attempts /\ to.status = t.status
             /\ to.car = t.car /\ to.coded = t.coded /\ to.verified
             /\ to.start = t.start /\ to.end = t.end /\ to.startPhoto = t.startPhoto
             /\ to.endPhoto = t.endPhoto /\ to.startedBy = t.startedBy /\ to.endedBy = t.endedBy
  BY <1>4 DEF TripRow
<1>5. /\ row \in TripRow /\ row.attempts = trips[b].attempts /\ row.status = trips[b].status
      /\ row.car = trips[b].car /\ row.coded = trips[b].coded /\ row.verified
      /\ row.start = trips[b].start /\ row.end = trips[b].end /\ row.startPhoto = trips[b].startPhoto
      /\ row.endPhoto = trips[b].endPhoto /\ row.startedBy = trips[b].startedBy
      /\ row.endedBy = trips[b].endedBy
  BY <1>1, <1>4, TripIs
<1> HIDE DEF row, next
<1>6. trips'[b] = row
  BY <1>1, <1>5, RowWritten
<1>7. Sequel(b)
  BY <1>1, <1>2, <1>5, <1>6, TripIs DEF Sequel, Orderly
<1>8. /\ trips' \in [Bookings -> TripRow] /\ \A d \in Bookings : Sequel(d)
      /\ \A v \in Cars : Dispatched(v) => Dispatched(v)'
  BY <1>1, <1>5, <1>7, SequelOfOne
<1>9. /\ calls' \in [Callers -> TripCall] /\ calls'[k] = next
      /\ \A j \in Callers \ {k} : calls'[j] = calls[j]
  BY <1>1, <1>3, CallSet DEF Continue, TripsInv
<1>10. Fleet' = Fleet /\ c.car \in Cars
  BY <1>1, <1>2 DEF Fleet
<1>11. Relies(calls[k])'
  BY <1>2, <1>3, <1>5, <1>6, <1>8, <1>9, <1>10 DEF Relies
<1>12. \A j \in Callers : Modest(j) /\ (calls'[j] = calls[j] \/ Filed(calls'[j]) = {})
  BY <1>3, <1>9, <1>11 DEF Modest
<1>13. made' \in Nat
  BY <1>1, Quiet1 DEF Continue
<1> QED
  BY <1>1, <1>8, <1>9, <1>12, <1>13, TripIs, Quiet1, TripStep

(* A new image is no paper. *)
LEMMA PapersOld == ASSUME TripsInv, NEW n, IsPaper(n) PROVE n = None \/ n \in 1..shots
<1>1. CASE \E p \in People, t \in DriverDocs : drivers[p] # None /\ drivers[p].papers[t] = n
  BY <1>1, FilledNow DEF Filled
<1>2. CASE \E v \in Cars, t \in CarDocs : cars[v] # None /\ cars[v].papers[t] = n
  BY <1>2, FilledNow DEF Filled
<1>3. ASSUME NEW k \in Callers, n \in Filed(calls[k]) PROVE n = None \/ n \in 1..shots
  BY <1>3, TripIs DEF Filed, Relies, Range
<1> QED
  BY <1>1, <1>2, <1>3 DEF IsPaper

LEMMA PhotoStored ==
    ASSUME TripsInv, NEW k \in Callers, StorePhoto(k) PROVE TripsInv'
<1> DEFINE c == calls[k]
           next == [c EXCEPT !.op = IF @ = "photo" THEN "start" ELSE "end", !.photo = shots + 1]
<1>1. /\ c.op \in {"photo", "endPhoto"} /\ Continue(k, next) /\ Relies(c) /\ c \in TripCall
      /\ UNCHANGED <<drivers, cars, position, map, cacheUp, sweep, trips, former, stops>>
      /\ shots' = shots + 1 /\ stored' = stored \cup {shots + 1}
  BY TripIs DEF StorePhoto, Upload, presenceVars, tripVars
<1>2. c.op = "photo" => c \in StartCall
  BY <1>1, CallIs
<1>3. c.op = "endPhoto" => c \in EndCall
  BY <1>1, CallIs
<1>4. shots \in Nat /\ stored \subseteq 1..shots /\ 1..shots \subseteq 1..shots' /\ shots' \in Nat
      /\ shots' \in 1..shots' /\ shots' \notin 1..shots /\ stored' \subseteq 1..shots'
  BY <1>1, Quiet1
<1>5. /\ next.op = IF c.op = "photo" THEN "start" ELSE "end"
      /\ next.photo = shots' /\ next.booking = c.booking
      /\ c.op = "photo" => next.car = c.car
      /\ next \in TripCall
  <2>1. CASE c.op = "photo"
    BY <1>1, <1>2, <1>4, <2>1 DEF TripCall, StartCall
  <2>2. CASE c.op = "endPhoto"
    BY <1>1, <1>3, <1>4, <2>2 DEF TripCall, EndCall
  <2> QED
    BY <1>1, <2>1, <2>2
<1> HIDE DEF next
<1>6. Hand(next) = {shots'} /\ Former(next) = {} /\ Filed(next) = {} /\ next.op # "wrong"
  BY <1>1, <1>5 DEF Hand, Former, Filed
<1>7. /\ calls' \in [Callers -> TripCall] /\ calls'[k] = next
      /\ \A j \in Callers \ {k} : calls'[j] = calls[j] /\ made' = made
  BY <1>1, <1>5, CallSet DEF Continue, TripsInv
<1>8. Driver' = Driver /\ Fleet' = Fleet /\ made' = made
  BY <1>1 DEF Driver, Fleet, Continue
<1>9. Filled(drivers, cars, shots)'
  BY <1>1, <1>4, FilledNow DEF Filled
<1>10. DriverTypeOK'
  BY <1>1, <1>4, <1>8, <1>9, Quiet1 DEF DriverTypeOK
<1>11. TripsTypeOK'
  BY <1>1, <1>4, <1>7, <1>10, TripIs DEF TripsTypeOK
<1>12. Grows
  BY <1>1, <1>4, <1>8 DEF Grows, Dispatched, HasEndReading
<1>13. Relies(calls[k])'
  BY <1>1, <1>5, <1>7, <1>8 DEF Relies, Dispatched
<1>14. NoNewPaper
  BY <1>1, <1>6, <1>7, PapersFrom, PapersOfRows
<1>15. \A n : IsPaper(n)' => IsPaper(n)
  <2>1. \A j \in Callers : \A n \in Filed(calls'[j]) : n \in Filed(calls[j])
    BY <1>6, <1>7
  <2> QED
    BY <1>1, <2>1 DEF IsPaper
<1>16. ImageInv'
  <2>1. OwnPhotos(trips) /\ \A b \in Bookings : Photos(trips[b]) \subseteq stored'
    BY <1>1 DEF TripsInv, ImageInv, PhotosKept
  <2>2. \A b \in Bookings : \A n \in Photos(trips[b]) : ~IsPaper(n)'
    BY <1>15 DEF TripsInv, ImageInv
  <2>3. \A n : n = shots' => ~IsPaper(n) /\ ~IsPaper(n)'
    BY <1>4, <1>15, PapersOld, TripsAssumption
  <2>4. \A j \in Callers : /\ shots' \notin Hand(calls[j]) /\ shots' \notin Former(calls[j])
                           /\ \A n \in Hand(calls[j]) : n # shots'
    BY <1>4 DEF TripsInv, ImageInv
  <2>5. \A b \in Bookings : shots' \notin Photos(trips[b])
    BY <1>4, TripIs
  <2>6. ASSUME NEW i \in Callers, NEW n \in Hand(calls'[i])
        PROVE  /\ n \in stored' /\ ~IsPaper(n)' /\ \A b \in Bookings : n \notin Photos(trips[b])
               /\ \A j \in Callers : (n \in Hand(calls'[j]) => j = i) /\ n \notin Former(calls'[j])
    <3>1. CASE i = k
      BY <1>1, <1>6, <1>7, <2>3, <2>4, <2>5, <2>6, <3>1
    <3>2. CASE i # k
      <4>1. n \in Hand(calls[i]) /\ n # shots'
        BY <1>7, <2>4, <2>6, <3>2
      <4>2. /\ n \in stored /\ ~IsPaper(n) /\ \A b \in Bookings : n \notin Photos(trips[b])
            /\ \A j \in Callers : (n \in Hand(calls[j]) => j = i) /\ n \notin Former(calls[j])
        BY <4>1 DEF TripsInv, ImageInv
      <4> QED
        BY <1>1, <1>6, <1>7, <1>15, <4>1, <4>2
    <3> QED
      BY <3>1, <3>2
  <2>7. \A j \in Callers : \A n \in Former(calls[j]) :
          /\ n \in 1..shots
          /\ \A b \in Bookings :
                /\ n # trips[b].startPhoto
                /\ n = trips[b].endPhoto => calls[j].op = "ended" /\ b = calls[j].booking
    BY DEF TripsInv, ImageInv
  <2>8. \A j \in Callers : \A n \in Former(calls'[j]) : n \in Former(calls[j]) /\ calls'[j] = calls[j]
    BY <1>6, <1>7
  <2>9. \A j \in Callers : \A n \in Former(calls'[j]) :
          /\ n \in 1..shots'
          /\ \A b \in Bookings :
                /\ n # trips[b].startPhoto
                /\ n = trips[b].endPhoto => calls'[j].op = "ended" /\ b = calls'[j].booking
    BY <1>4, <2>7, <2>8
  <2>10. trips' = trips
    BY <1>1
  <2> QED
    BY <2>1, <2>2, <2>6, <2>9, <2>10 DEF ImageInv, PhotosKept
<1>17. RowsInv'
  <2>1. \A j \in Callers : calls'[j] = calls[j] \/ calls'[j].op # "wrong"
    BY <1>6, <1>7
  <2> QED
    BY <1>1, <2>1, TripIs, RowsKept
<1> QED
  BY <1>7, <1>11, <1>12, <1>13, <1>16, <1>17, Assembled

(* Inside the transaction of a start: refused, or it goes on. *)
LEMMA StartRead ==
    ASSUME TripsInv, NEW k \in Callers, ReadStart(k) PROVE TripsInv'
<1> DEFINE c == calls[k]
           next == [c EXCEPT !.op = "started", !.stale = cars[c.car].odometer]
<1>1. /\ c.op = "start" /\ Relies(c) /\ c \in StartCall
      /\ UNCHANGED <<drivers, cars, shots, presenceVars, tripVars>>
  BY TripIs, CallIs DEF ReadStart
<1>2. CASE trips[c.booking].status \in Startable /\ c.car \in Fleet /\ c.km >= cars[c.car].odometer
  <2>1. Continue(k, next) /\ UNCHANGED stored
    BY <1>2 DEF ReadStart
  <2>2. cars[c.car].odometer \in Nat
    BY <1>2, CarIs DEF CarRow
  <2>3. /\ next \in TripCall /\ next.op = "started" /\ next.photo = c.photo
        /\ next.booking = c.booking /\ next.car = c.car
    BY <1>1, <2>2 DEF TripCall, StartCall
  <2> HIDE DEF next
  <2>4. Relies(next) /\ Hand(next) = Hand(c) /\ Former(next) = {} /\ Filed(next) = {}
    BY <1>1, <2>3 DEF Relies, Hand, Former, Filed
  <2> QED
    BY <1>1, <2>1, <2>3, <2>4, GoesOn
<1>3. CASE ~(trips[c.booking].status \in Startable /\ c.car \in Fleet /\ c.km >= cars[c.car].odometer)
  <2>1. Leave(k) /\ Destroy({c.photo})
    BY <1>3 DEF ReadStart
  <2>2. c.photo \in Hand(c)
    BY <1>1 DEF Hand
  <2> QED
    BY <1>1, <2>1, <2>2, Ends
<1> QED
  BY <1>2, <1>3

(* An odometer is written. *)
LEMMA OdometerWritten ==
    ASSUME TripsInv, NEW v \in Fleet, NEW km \in Nat, SetOdometer(v, km), UNCHANGED <<drivers, shots>>
    PROVE  /\ Filled(drivers, cars, shots)' /\ Fleet' = Fleet
           /\ \A w \in Cars : cars[w] # None => cars'[w] # None /\ cars'[w].papers = cars[w].papers
           /\ \A w \in Cars : cars[w] = None => cars'[w] = None
<1> DEFINE row == [cars[v] EXCEPT !.odometer = km]
<1>1. v \in Cars /\ cars[v] # None /\ SetCar(v, row)
  BY DEF Fleet, SetOdometer
<1>2. row \in CarRow /\ row.papers = cars[v].papers
  BY CarIs DEF CarRow
<1>3. cars[v].papers \in [CarDocs -> 1..shots \cup {None}]
  BY CarIs
<1> HIDE DEF row
<1>4. /\ Filled(drivers, cars, shots)' /\ Fleet' = Fleet \cup {v} /\ cars'[v] = row
      /\ \A w \in Cars \ {v} : cars'[w] = cars[w]
  BY <1>1, <1>2, <1>3, FilledNow, CarWritten
<1> QED
  BY <1>1, <1>2, <1>4, TripsAssumption

StartRow(t, km, photo, p) ==
    [t EXCEPT !.status = "ONGOING", !.start = km, !.startPhoto = photo, !.startedBy = p]
LEMMA StartedRow ==
    ASSUME NEW t \in TripRow, NEW km \in Readings, NEW photo \in Nat, NEW p \in People
    PROVE  LET to == StartRow(t, km, photo, p)
           IN  /\ to \in TripRow /\ to.attempts = t.attempts /\ to.status = "ONGOING"
               /\ to.car = t.car /\ to.coded = t.coded /\ to.verified = t.verified
               /\ to.start = km /\ to.end = t.end /\ to.startPhoto = photo
               /\ to.endPhoto = t.endPhoto /\ to.startedBy = p /\ to.endedBy = t.endedBy
BY ZenonT(60) DEF StartRow, TripRow, Ongoing

(* The row takes the photograph and the reading of the request, which lets *)
(* go of it: the image is nowhere else.                                    *)
LEMMA Started ==
    ASSUME TripsInv, NEW k \in Callers, StartTrip(k) PROVE TripsInv'
<1> DEFINE c == calls[k]  b == c.booking
           row == [trips[b] EXCEPT !.status = "ONGOING", !.start = c.km,
                                   !.startPhoto = c.photo, !.startedBy = c.driver]
<1>1. /\ c.op = "started" /\ Relies(c) /\ c \in StartCall /\ Quit(k) /\ made' = made
      /\ UNCHANGED <<drivers, shots, position, map, cacheUp, sweep, former>>
      /\ b \in Bookings /\ c.km \in Readings /\ c.driver \in People
  BY TripIs, CallIs DEF StartTrip, Leave, Continue, Quit, presenceVars, StartCall
<1>2. CASE trips[b].status \notin Startable
  <2>1. Destroy({c.photo}) /\ UNCHANGED <<cars, trips, stops>>
    BY <1>2 DEF StartTrip
  <2>2. c.photo \in Hand(c) /\ Leave(k)
    BY <1>1 DEF Hand, StartTrip
  <2> QED
    BY <1>1, <2>1, <2>2, Ends DEF presenceVars, tripVars
<1>3. CASE trips[b].status \in Startable
  <2>1. /\ Write(b, row) /\ UNCHANGED stored
        /\ SetOdometer(c.car, c.km) \/ UNCHANGED cars
        /\ stops' = stops \/ stops' = [stops EXCEPT ![b] = Initialised(b)]
    BY <1>3 DEF StartTrip
  <2>2. /\ c.photo \in Hand(c) /\ c.photo \in stored /\ ~IsPaper(c.photo)
        /\ \A d \in Bookings : c.photo \notin Photos(trips[d])
        /\ \A j \in Callers : (c.photo \in Hand(calls[j]) => j = k) /\ c.photo \notin Former(calls[j])
    BY <1>1 DEF Hand, TripsInv, ImageInv
  <2>3. c.photo \in 1..shots /\ c.photo \in Nat /\ c.photo # None
    BY <2>2, Quiet1, TripsAssumption
  <2>4. /\ trips[b].coded /\ trips[b].verified /\ trips[b].end = None /\ trips[b].status \in Early
        /\ c.car \in Fleet /\ Dispatched(c.car)
    BY <1>1, <1>3, TripIs DEF Relies, Orderly, Early, Startable
  <2>5. /\ row \in TripRow /\ row.attempts = trips[b].attempts /\ row.status = "ONGOING"
        /\ row.car = trips[b].car /\ row.coded = trips[b].coded /\ row.verified = trips[b].verified
        /\ row.start = c.km /\ row.end = None /\ row.startPhoto = c.photo
        /\ row.endPhoto = trips[b].endPhoto /\ row.startedBy = c.driver
        /\ row.endedBy = trips[b].endedBy
    <3>1. trips[b] \in TripRow
      BY <1>1, TripIs
    <3>2. row = StartRow(trips[b], c.km, c.photo, c.driver)
      BY DEF StartRow
    <3> HIDE DEF row
    <3>3. /\ row \in TripRow /\ row.attempts = trips[b].attempts /\ row.status = "ONGOING"
          /\ row.car = trips[b].car /\ row.coded = trips[b].coded /\ row.verified = trips[b].verified
          /\ row.start = c.km /\ row.end = trips[b].end /\ row.startPhoto = c.photo
          /\ row.endPhoto = trips[b].endPhoto /\ row.startedBy = c.driver
          /\ row.endedBy = trips[b].endedBy
      BY <1>1, <2>3, <3>1, <3>2, StartedRow
    <3> QED
      BY <2>4, <3>3
  <2> HIDE DEF row
  <2>6. /\ trips' \in [Bookings -> TripRow] /\ trips'[b] = row
        /\ \A d \in Bookings \ {b} : trips'[d] = trips[d]
    BY <1>1, <2>1, <2>5, RowWritten
  <2>7. /\ calls' \in [Callers -> TripCall] /\ calls'[k] = NoRequest
        /\ \A j \in Callers : Modest(j) /\ (calls'[j] = calls[j] \/ Filed(calls'[j]) = {})
        /\ \A j \in Callers \ {k} : calls'[j] = calls[j]
    BY <1>1, QuitIs, CallSet, NobodyIs DEF Quit, TripsInv
  <2>8. /\ Filled(drivers, cars, shots)' /\ Fleet' = Fleet
        /\ \A w \in Cars : cars[w] # None => cars'[w] # None /\ cars'[w].papers = cars[w].papers
        /\ \A w \in Cars : cars[w] = None => cars'[w] = None
    <3>1. CASE SetOdometer(c.car, c.km)
      BY <1>1, <2>4, <3>1, OdometerWritten, TripsAssumption
    <3>2. CASE UNCHANGED cars
      BY <1>1, <3>2, FilledNow DEF Fleet
    <3> QED
      BY <2>1, <3>1, <3>2
  <2>9. Driver' = Driver
    BY <1>1 DEF Driver
  <2>10. DriverTypeOK'
    BY <1>1, <2>1, <2>8, <2>9, Quiet1 DEF DriverTypeOK
  <2>11. /\ stops' \in [Bookings -> [Stops -> StopRow \cup {None}]]
         /\ \A d \in Bookings : \A i \in Stops : stops[d][i] # None => stops'[d][i] # None
    BY <1>1, <2>1, InitialisedIs
  <2>12. /\ Photos(trips'[b]) \subseteq Photos(trips[b]) \cup {c.photo}
         /\ \A d \in Bookings \ {b} : Photos(trips'[d]) = Photos(trips[d])
         /\ \A d \in Bookings : trips'[d].endPhoto = trips[d].endPhoto
    BY <2>5, <2>6 DEF Photos
  <2>13. TripsTypeOK'
    BY <1>1, <2>3, <2>6, <2>7, <2>10, <2>11, <2>12, TripIs DEF TripsTypeOK
  <2>14. \A v \in Fleet : Dispatched(v) => v \in Fleet' /\ Dispatched(v)'
    <3>1. \A d \in Bookings : trips'[d].car = trips[d].car
      BY <2>5, <2>6
    <3> QED
      BY <1>1, <2>8, <3>1 DEF Dispatched
  <2>15. Grows
    <3>1. /\ trips'[b].coded = trips[b].coded /\ trips'[b].verified = trips[b].verified
          /\ trips[b].status \in Early /\ ~HasEndReading(b)
      BY <2>4, <2>5, <2>6 DEF HasEndReading
    <3>2. \A d \in Bookings \ {b} : HasEndReading(d) => HasEndReading(d)'
      BY <2>6 DEF HasEndReading
    <3>3. shots <= shots' /\ Driver \subseteq Driver'
      BY <1>1, <2>9, Quiet1
    <3> QED
      BY <2>6, <2>11, <2>14, <3>1, <3>2, <3>3 DEF Grows
  <2>16. \A n : IsPaper(n)' => IsPaper(n)
    <3>1. \A j \in Callers : \A n \in Filed(calls'[j]) : n \in Filed(calls[j])
      BY <2>7
    <3> QED
      BY <1>1, <2>8, <3>1 DEF IsPaper
  <2>17. ImageInv'
    <3>1. OwnPhotos(trips')
      <4>1. ASSUME NEW d \in Bookings, NEW e \in Bookings, trips'[d].endPhoto # None
            PROVE  /\ trips'[d].endPhoto # trips'[e].startPhoto
                   /\ trips'[d].endPhoto = trips'[e].endPhoto => d = e
        <5>1. /\ trips[d].endPhoto # None /\ trips[d].endPhoto # trips[e].startPhoto
              /\ trips[d].endPhoto = trips[e].endPhoto => d = e
          BY <2>12, <4>1 DEF TripsInv, ImageInv, OwnPhotos
        <5>2. trips[d].endPhoto # c.photo
          BY <2>2, <5>1 DEF Photos
        <5> QED
          BY <2>5, <2>6, <2>12, <5>1, <5>2
      <4> QED
        BY <4>1 DEF OwnPhotos
    <3>2. \A d \in Bookings : \A n \in Photos(trips'[d]) : n \in stored' /\ ~IsPaper(n)'
      BY <2>1, <2>2, <2>12, <2>16 DEF TripsInv, ImageInv, PhotosKept
    <3>3. ASSUME NEW i \in Callers, NEW n \in Hand(calls'[i])
          PROVE  /\ n \in stored' /\ ~IsPaper(n)' /\ \A d \in Bookings : n \notin Photos(trips'[d])
                 /\ \A j \in Callers : (n \in Hand(calls'[j]) => j = i) /\ n \notin Former(calls'[j])
      <4>1. n \in Hand(calls[i]) /\ i # k
        BY <2>7, <3>3, NobodyIs
      <4>2. /\ n \in stored /\ ~IsPaper(n) /\ \A d \in Bookings : n \notin Photos(trips[d])
            /\ \A j \in Callers : (n \in Hand(calls[j]) => j = i) /\ n \notin Former(calls[j])
        BY <4>1 DEF TripsInv, ImageInv
      <4>3. n # c.photo
        BY <2>2, <4>1
      <4> QED
        BY <2>1, <2>7, <2>12, <2>16, <4>1, <4>2, <4>3, NobodyIs
    <3>4. \A i \in Callers : \A n \in Former(calls'[i]) :
              n \in Former(calls[i]) /\ calls'[i] = calls[i] /\ n # c.photo
      BY <2>2, <2>7, NobodyIs
    <3>5. \A i \in Callers : \A n \in Former(calls[i]) :
            /\ n \in 1..shots
            /\ \A d \in Bookings :
                  /\ n # trips[d].startPhoto
                  /\ n = trips[d].endPhoto => calls[i].op = "ended" /\ d = calls[i].booking
      BY DEF TripsInv, ImageInv
    <3>6. \A i \in Callers : \A n \in Former(calls'[i]) :
            /\ n \in 1..shots'
            /\ \A d \in Bookings :
                  /\ n # trips'[d].startPhoto
                  /\ n = trips'[d].endPhoto => calls'[i].op = "ended" /\ d = calls'[i].booking
      <4>1. \A d \in Bookings : trips'[d].startPhoto = trips[d].startPhoto
                                \/ trips'[d].startPhoto = c.photo
        BY <2>5, <2>6
      <4> QED
        BY <1>1, <2>12, <3>4, <3>5, <4>1
    <3> QED
      BY <3>1, <3>2, <3>3, <3>6 DEF ImageInv, PhotosKept
  <2>18. RowsInv'
    <3>1. Orderly(row)
      BY <2>4, <2>5, <1>1, TripIs DEF Orderly, Early
    <3>2. \A d \in Bookings : Orderly(trips'[d]) /\ trips'[d].attempts = trips[d].attempts
      BY <2>5, <2>6, <3>1, TripIs
    <3> QED
      BY <2>7, <3>2, NobodyIs, RowsKept
  <2> QED
    BY <2>7, <2>13, <2>15, <2>17, <2>18, Assembled DEF Modest
<1> QED
  BY <1>2, <1>3

(* The reading at the end: refused, or the request keeps the photograph    *)
(* that the row names, which no other row does.                            *)
LEMMA EndRead ==
    ASSUME TripsInv, NEW k \in Callers, ReadEnd(k) PROVE TripsInv'
<1> DEFINE c == calls[k]  b == c.booking
           next == [c EXCEPT !.op = "ended", !.moves = MovesOdometer(b, c.car, c.km),
                             !.replaced = trips[b].endPhoto]
<1>1. /\ c.op = "end" /\ Relies(c) /\ c \in EndCall /\ b \in Bookings
      /\ UNCHANGED <<drivers, cars, shots, presenceVars, tripVars>>
  BY TripIs, CallIs DEF ReadEnd, EndCall
<1>2. CASE Refused(b, c.car, c.km)
  <2>1. Leave(k) /\ Destroy({c.photo})
    BY <1>2 DEF ReadEnd
  <2>2. c.photo \in Hand(c)
    BY <1>1 DEF Hand
  <2> QED
    BY <1>1, <2>1, <2>2, Ends
<1>3. CASE ~Refused(b, c.car, c.km)
  <2>1. /\ Continue(k, next)
        /\ UNCHANGED <<drivers, cars, stored, shots, position, map, cacheUp, sweep, trips, former, stops>>
    BY <1>1, <1>3 DEF ReadEnd, presenceVars, tripVars
  <2>2. trips[b].endPhoto \in Nat \cup {None} /\ MovesOdometer(b, c.car, c.km) \in BOOLEAN
    BY <1>1, TripIs DEF TripRow, MovesOdometer
  <2>3. /\ next \in TripCall /\ next.op = "ended" /\ next.photo = c.photo /\ next.booking = b
        /\ next.replaced = trips[b].endPhoto /\ next.km = c.km
    BY <1>1, <2>2 DEF TripCall, EndCall
  <2> HIDE DEF next
  <2>4. /\ Hand(next) = {c.photo} /\ Hand(c) = {c.photo} /\ Former(next) = Replaced(trips[b].endPhoto)
        /\ Filed(next) = {} /\ next.op # "wrong"
    BY <1>1, <2>3 DEF Hand, Former, Filed
  <2>5. /\ calls' \in [Callers -> TripCall] /\ calls'[k] = next
        /\ \A j \in Callers \ {k} : calls'[j] = calls[j]
    BY <2>1, <2>3, CallSet DEF Continue, TripsInv
  <2>6. Driver' = Driver /\ Fleet' = Fleet /\ made' = made
    BY <2>1 DEF Driver, Fleet, Continue
  <2>7. DriverTypeOK'
    BY <2>1, <2>6, Quiet1, FilledNow DEF DriverTypeOK
  <2>8. TripsTypeOK'
    BY <2>1, <2>5, <2>7, TripIs DEF TripsTypeOK
  <2>9. Grows
    BY <2>1, <2>6, Quiet1 DEF Grows, Dispatched, HasEndReading
  <2>10. Relies(calls[k])'
    <3>1. trips[b].status \notin Early /\ NotBelowStart(b, c.km)
      BY <1>1, <1>3 DEF Refused, Relies
    <3> QED
      BY <2>1, <2>3, <2>5, <3>1 DEF Relies, NotBelowStart
  <2>11. \A n : IsPaper(n)' => IsPaper(n)
    <3>1. \A j \in Callers : \A n \in Filed(calls'[j]) : n \in Filed(calls[j])
      BY <2>4, <2>5
    <3> QED
      BY <2>1, <3>1 DEF IsPaper
  <2>12. ImageInv'
    <3>1. OwnPhotos(trips) /\ PhotosKept
          /\ \A d \in Bookings : \A n \in Photos(trips[d]) : ~IsPaper(n)'
      BY <2>11 DEF TripsInv, ImageInv
    <3>2. \A j \in Callers : Hand(calls'[j]) = Hand(calls[j])
      BY <2>4, <2>5
    <3>3. \A j \in Callers : \A n \in Former(calls'[j]) :
             (n \in Former(calls[j]) /\ calls'[j] = calls[j])
             \/ (j = k /\ n = trips[b].endPhoto /\ n \in Photos(trips[b]))
      BY <2>4, <2>5 DEF Replaced, Photos
    <3>4. \A i \in Callers : \A n \in Hand(calls[i]) :
              /\ n \in stored /\ ~IsPaper(n) /\ \A d \in Bookings : n \notin Photos(trips[d])
              /\ \A j \in Callers : (n \in Hand(calls[j]) => j = i) /\ n \notin Former(calls[j])
      BY DEF TripsInv, ImageInv
    <3>5. ASSUME NEW i \in Callers, NEW n \in Hand(calls'[i])
          PROVE  /\ n \in stored /\ ~IsPaper(n)' /\ \A d \in Bookings : n \notin Photos(trips[d])
                 /\ \A j \in Callers : (n \in Hand(calls'[j]) => j = i) /\ n \notin Former(calls'[j])
      <4>1. /\ n \in stored /\ ~IsPaper(n) /\ \A d \in Bookings : n \notin Photos(trips[d])
            /\ \A j \in Callers : (n \in Hand(calls[j]) => j = i) /\ n \notin Former(calls[j])
        BY <3>2, <3>4, <3>5
      <4> QED
        BY <1>1, <2>11, <3>2, <3>3, <4>1
    <3>6. \A j \in Callers : \A n \in Former(calls[j]) :
            /\ n \in 1..shots
            /\ \A d \in Bookings :
                  /\ n # trips[d].startPhoto
                  /\ n = trips[d].endPhoto => calls[j].op = "ended" /\ d = calls[j].booking
      BY DEF TripsInv, ImageInv
    <3>7. ASSUME NEW j \in Callers, NEW n \in Former(calls'[j])
          PROVE  /\ n \in 1..shots
                 /\ \A d \in Bookings :
                      /\ n # trips[d].startPhoto
                      /\ n = trips[d].endPhoto => calls'[j].op = "ended" /\ d = calls'[j].booking
      <4>1. CASE n \in Former(calls[j]) /\ calls'[j] = calls[j]
        BY <3>6, <4>1
      <4>2. CASE j = k /\ n = trips[b].endPhoto /\ n \in Photos(trips[b])
        <5>1. n \in 1..shots /\ n # None
          BY <1>1, <4>2, TripIs DEF Photos
        <5>2. \A d \in Bookings : n # trips[d].startPhoto /\ (n = trips[d].endPhoto => d = b)
          BY <1>1, <3>1, <4>2, <5>1 DEF OwnPhotos
        <5> QED
          BY <2>3, <2>5, <4>2, <5>1, <5>2
      <4> QED
        BY <3>3, <3>7, <4>1, <4>2
    <3>8. trips' = trips /\ stored' = stored /\ shots' = shots
      BY <2>1
    <3> QED
      BY <3>1, <3>5, <3>7, <3>8 DEF ImageInv, PhotosKept
  <2>13. RowsInv'
    <3>1. \A j \in Callers : calls'[j] = calls[j] \/ calls'[j].op # "wrong"
      BY <2>4, <2>5
    <3> QED
      BY <2>1, <3>1, TripIs, RowsKept
  <2> QED
    BY <2>5, <2>8, <2>9, <2>10, <2>12, <2>13, Assembled
<1> QED
  BY <1>2, <1>3

EndRow(t, km, photo) == [t EXCEPT !.end = km, !.endPhoto = photo]
LEMMA EndedRow ==
    ASSUME NEW t \in TripRow, NEW km \in Readings, NEW photo \in Nat
    PROVE  LET to == EndRow(t, km, photo)
           IN  /\ to \in TripRow /\ to.attempts = t.attempts /\ to.status = t.status
               /\ to.car = t.car /\ to.coded = t.coded /\ to.verified = t.verified
               /\ to.start = t.start /\ to.end = km /\ to.startPhoto = t.startPhoto
               /\ to.endPhoto = photo /\ to.startedBy = t.startedBy /\ to.endedBy = t.endedBy
BY ZenonT(60) DEF EndRow, TripRow

(* And written by id alone: whatever the row named is named no more, since *)
(* images have one holder.                                                 *)
LEMMA EndRecorded ==
    ASSUME TripsInv, NEW k \in Callers, RecordOdometer(k) PROVE TripsInv'
<1> DEFINE c == calls[k]  b == c.booking
           row == EndRow(trips[b], c.km, c.photo)
           next == [c EXCEPT !.op = "clean"]
<1>1. /\ c.op = "ended" /\ Relies(c) /\ c \in EndCall /\ Continue(k, next) /\ Write(b, row)
      /\ UNCHANGED <<drivers, stored, shots, position, map, cacheUp, sweep, former, stops>>
      /\ b \in Bookings /\ c.km \in Readings /\ c.car \in Cars
      /\ (c.car \in Fleet /\ SetOdometer(c.car, c.km)) \/ UNCHANGED cars
  BY TripIs, CallIs DEF RecordOdometer, EndCall, EndRow, presenceVars
<1>2. /\ c.photo \in Hand(c) /\ c.photo \in stored /\ ~IsPaper(c.photo)
      /\ \A d \in Bookings : c.photo \notin Photos(trips[d])
      /\ \A j \in Callers : (c.photo \in Hand(calls[j]) => j = k) /\ c.photo \notin Former(calls[j])
  BY <1>1 DEF Hand, TripsInv, ImageInv
<1>3. c.photo \in 1..shots /\ c.photo \in Nat /\ c.photo # None
  BY <1>2, Quiet1, TripsAssumption
<1>4. /\ next \in TripCall /\ next.op = "clean" /\ next.booking = b /\ next.replaced = c.replaced
  BY <1>1 DEF TripCall, EndCall
<1>5. /\ row \in TripRow /\ row.attempts = trips[b].attempts /\ row.status = trips[b].status
      /\ row.car = trips[b].car /\ row.coded = trips[b].coded /\ row.verified = trips[b].verified
      /\ row.start = trips[b].start /\ row.end = c.km /\ row.startPhoto = trips[b].startPhoto
      /\ row.endPhoto = c.photo /\ row.startedBy = trips[b].startedBy
      /\ row.endedBy = trips[b].endedBy
  BY <1>1, <1>3, TripIs, EndedRow
<1> HIDE DEF row, next
<1>6. Hand(next) = {} /\ Former(next) = Former(c) /\ Filed(next) = {} /\ next.op # "wrong"
  BY <1>1, <1>4 DEF Hand, Former, Filed
<1>7. /\ calls' \in [Callers -> TripCall] /\ calls'[k] = next
      /\ \A j \in Callers \ {k} : calls'[j] = calls[j]
  BY <1>1, <1>4, CallSet DEF Continue, TripsInv
<1>8. /\ trips' \in [Bookings -> TripRow] /\ trips'[b] = row
      /\ \A d \in Bookings \ {b} : trips'[d] = trips[d]
  BY <1>1, <1>5, RowWritten
<1>9. /\ Filled(drivers, cars, shots)' /\ Fleet' = Fleet
      /\ \A w \in Cars : cars[w] # None => cars'[w] # None /\ cars'[w].papers = cars[w].papers
      /\ \A w \in Cars : cars[w] = None => cars'[w] = None
  <2>1. CASE c.car \in Fleet /\ SetOdometer(c.car, c.km)
    BY <1>1, <2>1, OdometerWritten, TripsAssumption
  <2>2. CASE UNCHANGED cars
    BY <1>1, <2>2, FilledNow DEF Fleet
  <2> QED
    BY <1>1, <2>1, <2>2
<1>10. Driver' = Driver /\ made' = made
  BY <1>1 DEF Driver, Continue
<1>11. DriverTypeOK'
  BY <1>1, <1>9, <1>10, Quiet1 DEF DriverTypeOK
<1>12. /\ Photos(trips'[b]) \subseteq Photos(trips[b]) \cup {c.photo}
       /\ \A d \in Bookings \ {b} : Photos(trips'[d]) = Photos(trips[d])
       /\ \A d \in Bookings : trips'[d].startPhoto = trips[d].startPhoto
  BY <1>5, <1>8 DEF Photos
<1>13. TripsTypeOK'
  BY <1>1, <1>3, <1>7, <1>8, <1>11, <1>12, TripIs DEF TripsTypeOK
<1>14. Grows
  <2>1. c.km # None
    BY <1>1, TripsAssumption
  <2>2. \A d \in Bookings : /\ trips'[d].coded = trips[d].coded /\ trips'[d].verified = trips[d].verified
                            /\ trips'[d].status = trips[d].status /\ trips'[d].start = trips[d].start
                            /\ trips'[d].car = trips[d].car
    BY <1>5, <1>8
  <2>3. \A d \in Bookings : HasEndReading(d) => HasEndReading(d)'
    BY <1>3, <1>5, <1>8, <2>1 DEF HasEndReading
  <2>4. \A v \in Fleet : Dispatched(v) => v \in Fleet' /\ Dispatched(v)'
    BY <1>1, <1>9, <2>2 DEF Dispatched
  <2>5. shots <= shots' /\ Driver \subseteq Driver' /\ stops' = stops
    BY <1>1, <1>10, Quiet1
  <2> QED
    BY <2>2, <2>3, <2>4, <2>5 DEF Grows
<1>15. Relies(calls[k])'
  BY <1>4, <1>7 DEF Relies
<1>16. \A n : IsPaper(n)' => IsPaper(n)
  <2>1. \A j \in Callers : \A n \in Filed(calls'[j]) : n \in Filed(calls[j])
    BY <1>6, <1>7
  <2> QED
    BY <1>1, <1>9, <2>1 DEF IsPaper
<1>17. ImageInv'
  <2>1. OwnPhotos(trips')
    <3>1. ASSUME NEW d \in Bookings, NEW e \in Bookings, trips'[d].endPhoto # None
          PROVE  /\ trips'[d].endPhoto # trips'[e].startPhoto
                 /\ trips'[d].endPhoto = trips'[e].endPhoto => d = e
      <4>1. c.photo # trips[e].startPhoto /\ c.photo # trips[e].endPhoto /\ c.photo # trips[d].endPhoto
        BY <1>2, <1>3 DEF Photos
      <4>2. CASE d = b
        BY <1>5, <1>8, <1>12, <4>1, <4>2
      <4>3. CASE d # b
        <5>1. /\ trips[d].endPhoto # trips[e].startPhoto
              /\ trips[d].endPhoto = trips[e].endPhoto => d = e
          BY <1>8, <3>1, <4>3 DEF TripsInv, ImageInv, OwnPhotos
        <5> QED
          BY <1>5, <1>8, <1>12, <4>1, <4>3, <5>1
      <4> QED
        BY <4>2, <4>3
    <3> QED
      BY <3>1 DEF OwnPhotos
  <2>2. \A d \in Bookings : \A n \in Photos(trips'[d]) : n \in stored' /\ ~IsPaper(n)'
    BY <1>1, <1>2, <1>12, <1>16 DEF TripsInv, ImageInv, PhotosKept
  <2>3. ASSUME NEW i \in Callers, NEW n \in Hand(calls'[i])
        PROVE  /\ n \in stored' /\ ~IsPaper(n)' /\ \A d \in Bookings : n \notin Photos(trips'[d])
               /\ \A j \in Callers : (n \in Hand(calls'[j]) => j = i) /\ n \notin Former(calls'[j])
    <3>1. n \in Hand(calls[i]) /\ i # k
      BY <1>6, <1>7, <2>3
    <3>2. /\ n \in stored /\ ~IsPaper(n) /\ \A d \in Bookings : n \notin Photos(trips[d])
          /\ \A j \in Callers : (n \in Hand(calls[j]) => j = i) /\ n \notin Former(calls[j])
      BY <3>1 DEF TripsInv, ImageInv
    <3>3. n # c.photo
      BY <1>2, <3>1
    <3> QED
      BY <1>1, <1>6, <1>7, <1>12, <1>16, <3>1, <3>2, <3>3
  <2>4. \A i \in Callers : \A n \in Former(calls[i]) :
          /\ n \in 1..shots /\ n # c.photo
          /\ \A d \in Bookings :
                /\ n # trips[d].startPhoto
                /\ n = trips[d].endPhoto => calls[i].op = "ended" /\ d = calls[i].booking
    BY <1>2 DEF TripsInv, ImageInv
  <2>5. ASSUME NEW i \in Callers, NEW n \in Former(calls'[i])
        PROVE  /\ n \in 1..shots'
               /\ \A d \in Bookings :
                    /\ n # trips'[d].startPhoto
                    /\ n = trips'[d].endPhoto => calls'[i].op = "ended" /\ d = calls'[i].booking
    <3>1. n \in Former(calls[i]) /\ (i # k => calls'[i] = calls[i])
      BY <1>6, <1>7, <2>5
    <3>2. n # trips'[b].endPhoto
      BY <1>5, <1>8, <2>4, <3>1
    <3>3. \A d \in Bookings : n = trips'[d].endPhoto => d # b /\ n = trips[d].endPhoto
      BY <1>8, <3>2
    <3>4. i = k => \A d \in Bookings : n # trips'[d].endPhoto
      BY <2>4, <3>1, <3>3
    <3> QED
      BY <1>1, <1>12, <2>4, <3>1, <3>3, <3>4
  <2> QED
    BY <2>1, <2>2, <2>3, <2>5 DEF ImageInv, PhotosKept
<1>18. RowsInv'
  <2>1. trips[b].start # None => c.km >= trips[b].start
    BY <1>1 DEF Relies, NotBelowStart
  <2>2. trips[b].status \notin Early
    BY <1>1 DEF Relies
  <2>3. Orderly(row)
    BY <1>1, <1>3, <1>5, <2>1, <2>2, TripIs, TripsAssumption DEF Orderly
  <2>4. \A d \in Bookings : Orderly(trips'[d]) /\ trips'[d].attempts = trips[d].attempts
    BY <1>5, <1>8, <2>3, TripIs
  <2>5. \A j \in Callers : calls'[j] = calls[j] \/ calls'[j].op # "wrong"
    BY <1>6, <1>7
  <2> QED
    BY <2>4, <2>5, RowsKept
<1> QED
  BY <1>7, <1>13, <1>14, <1>15, <1>17, <1>18, Assembled

-----------------------------------------------------------------------------
(* A transaction rolled back takes its own photograph with it.             *)
LEMMA RolledBack ==
    ASSUME TripsInv, NEW k \in Callers, RollBack(k) PROVE TripsInv'
<1>1. calls[k].photo \in Hand(calls[k])
  BY DEF RollBack, Hand
<1> QED
  BY <1>1, Ends DEF RollBack

LEMMA Crashed ==
    ASSUME TripsInv, NEW k \in Callers, Crash(k) PROVE TripsInv'
BY Ends DEF Crash

(* The image that was replaced goes; a request that also completes the     *)
(* trip goes on.                                                           *)
LEMMA CleanedUp ==
    ASSUME TripsInv, NEW k \in Callers, CleanUp(k) PROVE TripsInv'
<1> DEFINE c == calls[k]
           next == [op |-> "finish", booking |-> c.booking, driver |-> c.driver]
<1>1. /\ c.op = "clean" /\ c \in EndCall /\ Destroy(Former(c))
      /\ UNCHANGED <<drivers, cars, shots, presenceVars, tripVars>>
  BY TripIs, CallIs DEF CleanUp, Superseded, Former
<1>2. CASE c.completes
  <2>1. Continue(k, next)
    BY <1>2 DEF CleanUp
  <2>2. next \in TripCall /\ next.op = "finish"
    BY <1>1 DEF EndCall, CloseCall, TripCall
  <2> HIDE DEF next
  <2>3. Hand(next) = {} /\ Former(next) = {} /\ Filed(next) = {} /\ next.op # "wrong" /\ Relies(next)
    BY <2>2 DEF Hand, Former, Filed, Relies
  <2>4. stored' \subseteq stored /\ \A n \in stored : n \in stored' \/ Expendable(n)
    BY <1>1 DEF Destroy, Expendable
  <2> QED
    BY <1>1, <2>1, <2>2, <2>3, <2>4, GoesOn
<1>3. CASE ~c.completes
  BY <1>1, <1>3, Ends DEF CleanUp
<1> QED
  BY <1>2, <1>3

LEMMA FinishChecked ==
    ASSUME TripsInv, NEW k \in Callers, CheckFinish(k) PROVE TripsInv'
<1> DEFINE c == calls[k]  next == [c EXCEPT !.op = "complete"]
<1>1. /\ c.op = "finish" /\ c \in CloseCall
      /\ UNCHANGED <<drivers, cars, stored, shots, presenceVars, tripVars>>
  BY TripIs, CallIs DEF CheckFinish
<1>2. CASE HasEndReading(c.booking)
  <2>1. Continue(k, next)
    BY <1>2 DEF CheckFinish
  <2>2. next \in TripCall /\ next.op = "complete" /\ next.booking = c.booking
    BY <1>1 DEF CloseCall, TripCall
  <2> HIDE DEF next
  <2>3. Hand(next) = {} /\ Former(next) = {} /\ Filed(next) = {} /\ next.op # "wrong" /\ Relies(next)
    BY <1>2, <2>2 DEF Hand, Former, Filed, Relies
  <2> QED
    BY <1>1, <2>1, <2>2, <2>3, GoesOn
<1>3. CASE ~HasEndReading(c.booking)
  BY <1>1, <1>3, Ends DEF CheckFinish
<1> QED
  BY <1>2, <1>3

CloseRow(t, p) == [t EXCEPT !.status = "COMPLETED", !.endedBy = p]
LEMMA ClosedRow ==
    ASSUME NEW t \in TripRow, NEW p \in People
    PROVE  LET to == CloseRow(t, p)
           IN  /\ to \in TripRow /\ to.attempts = t.attempts /\ to.status = "COMPLETED"
               /\ to.car = t.car /\ to.coded = t.coded /\ to.verified = t.verified
               /\ to.start = t.start /\ to.end = t.end /\ to.startPhoto = t.startPhoto
               /\ to.endPhoto = t.endPhoto /\ to.startedBy = t.startedBy /\ to.endedBy = p
BY ZenonT(60) DEF CloseRow, TripRow

(* The reading was there when it was looked at, and a reading is never     *)
(* taken away.                                                             *)
LEMMA Completed ==
    ASSUME TripsInv, NEW k \in Callers, CompleteTrip(k) PROVE TripsInv'
<1> DEFINE c == calls[k]  b == c.booking  row == CloseRow(trips[b], c.driver)
<1>1. /\ c.op = "complete" /\ c \in CloseCall /\ b \in Bookings /\ c.driver \in People
      /\ HasEndReading(b) /\ Leave(k) /\ Quit(k) /\ made' = made
      /\ UNCHANGED <<drivers, cars, stored, shots, position, map, cacheUp, sweep, former, stops>>
  BY TripIs, CallIs DEF CompleteTrip, CloseCall, Relies, Leave, Continue, Quit, presenceVars
<1>2. CASE trips[b].status = "ARRIVED"
  <2>1. Write(b, row)
    BY <1>2 DEF CompleteTrip, CloseRow
  <2>2. trips[b] \in TripRow /\ Orderly(trips[b])
    BY <1>1, TripIs
  <2>3. /\ row \in TripRow /\ row.attempts = trips[b].attempts /\ row.status = "COMPLETED"
        /\ row.car = trips[b].car /\ row.coded = trips[b].coded /\ row.verified = trips[b].verified
        /\ row.start = trips[b].start /\ row.end = trips[b].end
        /\ row.startPhoto = trips[b].startPhoto /\ row.endPhoto = trips[b].endPhoto
        /\ row.startedBy = trips[b].startedBy /\ row.endedBy = c.driver
    BY <1>1, <2>2, ClosedRow
  <2> HIDE DEF row
  <2>4. trips'[b] = row
    BY <1>1, <2>1, <2>3, RowWritten
  <2>5. Orderly(row)
    BY <1>1, <2>2, <2>3 DEF Orderly, HasEndReading, Early
  <2>6. Sequel(b)
    BY <2>3, <2>4, <2>5 DEF Sequel, Early
  <2>7. /\ trips' \in [Bookings -> TripRow] /\ \A d \in Bookings : Sequel(d)
        /\ \A v \in Cars : Dispatched(v) => Dispatched(v)'
    BY <1>1, <2>1, <2>3, <2>6, SequelOfOne
  <2>8. /\ calls' \in [Callers -> TripCall]
        /\ \A j \in Callers : Modest(j) /\ (calls'[j] = calls[j] \/ Filed(calls'[j]) = {})
    BY <1>1, QuitIs
  <2> QED
    BY <1>1, <2>7, <2>8, TripIs, Quiet1, TripStep
<1>3. CASE trips[b].status # "ARRIVED"
  <2>1. UNCHANGED trips
    BY <1>3 DEF CompleteTrip
  <2> QED
    BY <1>1, <2>1, Ends DEF presenceVars, tripVars
<1> QED
  BY <1>2, <1>3

-----------------------------------------------------------------------------
(* Stops: a record is written and never taken away.                        *)
LEMMA StopWritten ==
    ASSUME TripsInv, NEW k \in Callers, Leave(k), NEW b \in Bookings, NEW i \in Stops,
           NEW row \in StopRow, stops' = [stops EXCEPT ![b][i] = row],
           UNCHANGED <<drivers, cars, stored, shots, presenceVars, trips, former>>
    PROVE  TripsInv'
<1>1. stops \in [Bookings -> [Stops -> StopRow \cup {None}]]
  BY TripIs
<1>2. row # None
  BY TripsAssumption
<1>3. /\ stops' \in [Bookings -> [Stops -> StopRow \cup {None}]]
      /\ \A d \in Bookings : \A j \in Stops : stops[d][j] # None => stops'[d][j] # None
  BY <1>1, <1>2
<1>4. Quit(k) /\ made' = made
  BY DEF Leave, Continue, Quit
<1>5. /\ calls' \in [Callers -> TripCall]
      /\ \A j \in Callers : Modest(j) /\ (calls'[j] = calls[j] \/ Filed(calls'[j]) = {})
  BY <1>4, QuitIs
<1>6. /\ trips' \in [Bookings -> TripRow] /\ \A d \in Bookings : Sequel(d)
      /\ former' \in [Bookings -> SUBSET EndedAllocation]
      /\ \A v \in Cars : Dispatched(v) => Dispatched(v)'
  BY NoRowWritten
<1> QED
  BY <1>3, <1>4, <1>5, <1>6, Quiet1, TripStep DEF presenceVars

LEMMA StopsVisited ==
    ASSUME TripsInv, NEW k \in Callers, Arrive(k) \/ Depart(k) PROVE TripsInv'
<1> DEFINE c == calls[k]
<1>1. stops \in [Bookings -> [Stops -> StopRow \cup {None}]] /\ c \in TripCall /\ Relies(c)
  BY TripIs
<1>2. CASE Arrive(k)
  <2> DEFINE old == stops[c.booking][c.stop]
             row == [reached |-> c.time, left |-> old # None /\ old.left]
  <2>1. c.op = "reach" /\ c \in ReachCall /\ c.booking \in Bookings /\ c.stop \in Stops /\ c.time \in Nat
    BY <1>1, <1>2, CallIs DEF Arrive, ReachCall
  <2>2. old \in StopRow \cup {None}
    BY <1>1, <2>1
  <2>3. (old # None /\ old.left) \in BOOLEAN
    OBVIOUS
  <2>4. row \in StopRow
    BY <2>1, <2>3 DEF StopRow
  <2>5. stops' = [stops EXCEPT ![c.booking][c.stop] = row]
    BY <1>2 DEF Arrive
  <2>6. Leave(k) /\ UNCHANGED <<drivers, cars, stored, shots, presenceVars, trips, former>>
    BY <1>2 DEF Arrive
  <2> HIDE DEF row, old
  <2> QED
    BY <2>1, <2>4, <2>5, <2>6, StopWritten
<1>3. CASE Depart(k)
  <2> DEFINE old == stops[c.booking][c.stop]
             row == [old EXCEPT !.left = TRUE]
  <2>1. c.op = "leave" /\ c \in LeaveCall /\ c.booking \in Bookings /\ c.stop \in Stops
    BY <1>1, <1>3, CallIs DEF Depart, LeaveCall
  <2>2. old \in StopRow
    BY <1>1, <2>1 DEF Relies
  <2>3. row \in StopRow
    BY <2>2 DEF StopRow
  <2>4. stops' = [stops EXCEPT ![c.booking][c.stop] = row]
    BY <1>1, <1>3, <2>1 DEF Depart
  <2>5. Leave(k) /\ UNCHANGED <<drivers, cars, stored, shots, presenceVars, trips, former>>
    BY <1>3 DEF Depart
  <2> HIDE DEF row, old
  <2> QED
    BY <2>1, <2>3, <2>4, <2>5, StopWritten
<1> QED
  BY <1>2, <1>3

-----------------------------------------------------------------------------
LEMMA TripsKeep ==
    ASSUME TripsInv, NEW b \in Bookings, TripRequests(b) PROVE TripsInv'
<1>1. CASE \/ MarkEnRoute(b) \/ MarkReached(b) \/ MarkArrived(b) \/ StartByStaff(b)
           \/ CompleteByStaff(b) \/ \E p \in People : PingAtDrop(p, b)
  BY <1>1, Moves
<1>2. CASE \E p \in People, v \in Cars : Reassign(b, p, v)
  BY <1>2, Reassigns
<1>3. CASE \E k \in Callers, p \in People :
              \/ \E v \in Cars, km \in Readings :
                    \/ BeginStart(k, b, p, v, km)
                    \/ \E completes \in BOOLEAN : BeginEndReading(k, b, p, v, km, completes)
              \/ BeginFinish(k, b, p) \/ CollectCash(k, b, p)
              \/ \E i \in Stops : BeginArrive(k, b, p, i) \/ BeginDepart(k, b, p, i)
  BY <1>3, TripsBegin
<1> QED
  BY <1>1, <1>2, <1>3 DEF TripRequests

LEMMA ProgressKeeps ==
    ASSUME TripsInv, NEW k \in Callers, Progress(k) PROVE TripsInv'
BY CodesRead, WrongCounted, RightVerified, PhotoStored, StartRead, Started, EndRead, EndRecorded,
   RolledBack, CleanedUp, FinishChecked, Completed, StopsVisited, Crashed DEF Progress

LEMMA TripsRest == ASSUME TripsInv, UNCHANGED roadVars PROVE TripsInv'
<1>1. UNCHANGED <<drivers, cars, stored, shots, tripVars, calls>> /\ made' \in Nat
      /\ position' \in [People -> Stamps] /\ map' \subseteq People /\ cacheUp' \in BOOLEAN
      /\ sweep' \in [at : {"rest", "judge", "write", "clear"}, stale : SUBSET Driver]
  BY Quiet1 DEF roadVars, tripVars
<1> QED
  BY <1>1, StillIs, ReadOnly

LEMMA TripsNextKeeps == TripsInv /\ [TripsNext]_roadVars => TripsInv'
BY TripsKeep, ProgressKeeps, DriversKeep, TripsRest DEF TripsNext

(* The tables there are to start with are in order, and no request is      *)
(* under way.                                                              *)
LEMMA TripsStart == TripsInit => TripsInv
<1> SUFFICES ASSUME TripsInit PROVE TripsInv
  OBVIOUS
<1>1. PICK o \in Opening : /\ drivers = o.drivers /\ cars = o.cars /\ trips = o.trips
                           /\ shots = o.shots /\ stored = 1..o.shots
  BY DEF TripsInit
<1>2. Sound(o)
  BY <1>1, TripsAssumption
<1>3. /\ shots \in Nat /\ Filled(drivers, cars, shots) /\ trips \in [Bookings -> TripRow]
      /\ OwnPhotos(trips) /\ stored = 1..shots
      /\ \A b \in Bookings :
            /\ Orderly(trips[b]) /\ trips[b].attempts < MaxWrong + Cardinality(Callers)
            /\ Photos(trips[b]) \subseteq 1..shots
            /\ \A p \in People, n \in DriverDocs :
                  drivers[p] # None => drivers[p].papers[n] \notin Photos(trips[b])
            /\ \A v \in Cars, n \in CarDocs :
                  cars[v] # None => cars[v].papers[n] \notin Photos(trips[b])
  BY <1>1, <1>2 DEF Sound
<1>4. /\ \A k \in Callers : calls[k] = NoRequest
      /\ calls = [k \in Callers |-> NoRequest]
  BY DEF TripsInit
<1>5. calls \in [Callers -> TripCall]
  BY <1>4, NobodyIs
<1>6. DriverTypeOK
  <2>1. sweep \in [at : {"rest", "judge", "write", "clear"}, stale : SUBSET Driver]
    BY DEF TripsInit, NoSweep
  <2>2. position \in [People -> Stamps] /\ map \subseteq People /\ cacheUp \in BOOLEAN /\ made \in Nat
    BY DEF TripsInit, Stamps
  <2> QED
    BY <1>3, <2>1, <2>2 DEF DriverTypeOK
<1>7. TripsTypeOK
  <2>1. /\ stops \in [Bookings -> [Stops -> StopRow \cup {None}]]
        /\ former \in [Bookings -> SUBSET EndedAllocation]
    BY DEF TripsInit
  <2> QED
    BY <1>3, <1>5, <1>6, <2>1 DEF TripsTypeOK
<1>8. ImageInv
  <2>1. \A k \in Callers : Hand(calls[k]) = {} /\ Former(calls[k]) = {} /\ Filed(calls[k]) = {}
    BY <1>4, NobodyIs
  <2>2. \A b \in Bookings : \A n \in Photos(trips[b]) : ~IsPaper(n)
    BY <1>3, <2>1 DEF IsPaper
  <2> QED
    BY <1>3, <2>1, <2>2 DEF ImageInv, PhotosKept
<1>9. RowsInv
  <2>1. \A b \in Bookings : Guessing(b) = {}
    BY <1>4, NobodyIs DEF Guessing
  <2>2. Cardinality({}) = 0
    BY FS_EmptySet
  <2>3. \A b \in Bookings : trips[b].attempts \in Nat /\ Cardinality(Guessing(b)) = 0
    BY <1>3, <2>1, <2>2 DEF TripRow
  <2>4. ASSUME NEW b \in Bookings
        PROVE  trips[b].attempts + Cardinality(Guessing(b)) < MaxWrong + Cardinality(Callers)
    <3>1. trips[b].attempts \in Nat /\ Cardinality(Guessing(b)) = 0
      BY <2>3
    <3>2. trips[b].attempts + Cardinality(Guessing(b)) = trips[b].attempts
      BY <3>1
    <3> QED
      BY <1>3, <3>2
  <2> QED
    BY <1>3, <2>4 DEF RowsInv
<1> QED
  BY <1>4, <1>7, <1>8, <1>9, NobodyIs DEF TripsInv

(* The inductive invariant of the trips: every image has one holder, every *)
(* row is in order, and what a request read still stands as far as it      *)
(* relies on it.                                                           *)
THEOREM TripsAreInvariant == TripsSpec => []TripsInv
BY TripsStart, TripsNextKeeps, PTL DEF TripsSpec

(* What a trip is charged on is kept, whatever requests cross, fail or     *)
(* stop half-way (driverBooking.controller, trip.service).                 *)
THEOREM EvidenceIsKept == TripsSpec => []EvidenceKept
<1>1. TripsInv => EvidenceKept
  BY TripIs DEF TripsInv, EvidenceKept, ImageInv, ReadingsOrdered, Orderly, HasEndReading
<1> QED
  BY <1>1, TripsAreInvariant, PTL

(* A driver starts a trip by its code only, and no number of wrong codes   *)
(* sent side by side passes the limit by more than the requests there are  *)
(* (tripOtp.verify).                                                       *)
THEOREM StartsByCode == TripsSpec => []StartedByCode
<1>1. ASSUME TripsInv PROVE StartedByCode
  <2> SUFFICES ASSUME NEW b \in Bookings
               PROVE  /\ trips[b].startedBy # None => trips[b].coded /\ trips[b].verified
                      /\ trips[b].attempts < MaxWrong + Cardinality(Callers)
    BY DEF StartedByCode
  <2>1. trips[b].attempts \in Nat /\ Orderly(trips[b])
    BY <1>1, TripIs DEF TripRow
  <2>2. trips[b].attempts + Cardinality(Guessing(b)) < MaxWrong + Cardinality(Callers)
    BY <1>1 DEF TripsInv, RowsInv
  <2>3. trips[b].attempts < MaxWrong + Cardinality(Callers)
    BY <2>1, <2>2, GuessesFinite, TripsAssumption
  <2> QED
    BY <2>1, <2>3 DEF Orderly
<1> QED
  BY <1>1, TripsAreInvariant, PTL
=============================================================================
