--------------------------- MODULE BillingProofs ---------------------------
(***************************************************************************)
(* Theorems about GstRegister and Billing, for any bookings, offers, rates *)
(* and number of calls, edits and lookups side by side.                    *)
(***************************************************************************)
EXTENDS Billing, GstRegister, FiniteSetTheorems, TLAPS

-----------------------------------------------------------------------------
(* The register.                                                           *)

GstRowOK(r) ==
    /\ {"id", "state", "gstin", "active", "crossed"} \subseteq DOMAIN r
    /\ r.crossed \in BOOLEAN
    /\ r.crossed \/ AssertGstinMatchesState(r.gstin, r.state)

(* What an edit carries has been compared: the row it makes, or the change *)
(* against the row it read.                                                *)
StepOK(step) ==
    \/ /\ step.op = "create"
       /\ AssertGstinMatchesState(step.row.gstin, step.row.state)
       /\ step.row = GstRow(0, step.row.state, step.row.gstin, step.row.active)
    \/ step.op = "update" /\ MayPatch(step.read, step.patch)
    \/ step.op = "forget"

EditsOK ==
    /\ edits = [k \in Editors |-> edits[k]]
    /\ \A k \in Editors : \A step \in edits[k] : StepOK(step) /\ edits[k] = {step}

Forgetting == \E k \in Editors : \E step \in edits[k] : step.op = "forget"

(* What a lookup has read or the cache keeps is so, until a row is written.*)
IsCurrent(s, found) == found.late \/ found.answer \in Answers(s)

LookupsOK ==
    /\ lookups = [q \in Lookups |-> lookups[q]]
    /\ \A q \in Lookups : \A found \in lookups[q] :
          /\ found = [state |-> found.state, answer |-> found.answer, late |-> found.late]
          /\ found.state \in States /\ found.late \in BOOLEAN /\ IsCurrent(found.state, found)

KeptOK ==
    /\ kept = [s \in States |-> kept[s]]
    /\ \A s \in States : \A entry \in kept[s] :
          entry = [answer |-> entry.answer, late |-> entry.late] /\ entry.late \in BOOLEAN
    /\ Forgetting \/ \A s \in States : \A entry \in kept[s] : IsCurrent(s, entry)

RegisterInv == (\A r \in register : GstRowOK(r)) /\ EditsOK /\ LookupsOK /\ KeptOK

LEMMA NewRow ==
    ASSUME NEW id, NEW state, NEW gstin, NEW active, AssertGstinMatchesState(gstin, state)
    PROVE  GstRowOK(GstRow(id, state, gstin, active))
BY DEF GstRowOK, GstRow

LEMMA Renumbered ==
    ASSUME NEW row, NEW n, GstRowOK(row)
    PROVE  GstRowOK([row EXCEPT !.id = n])
BY DEF GstRowOK

LEMMA RegisterStarts == GstInit => RegisterInv
<1> SUFFICES ASSUME GstInit PROVE RegisterInv
  OBVIOUS
<1>1. \A r \in register : GstRowOK(r)
  <2> SUFFICES ASSUME NEW r \in register PROVE GstRowOK(r)
    OBVIOUS
  <2>1. r = GstRow(r.id, r.state, r.gstin, r.active) /\ AssertGstinMatchesState(r.gstin, r.state)
    BY GstAssumption DEF GstInit
  <2>2. GstRowOK(GstRow(r.id, r.state, r.gstin, r.active))
    BY <2>1, NewRow
  <2> QED
    BY ONLY <2>1, <2>2
<1>2. EditsOK /\ LookupsOK /\ KeptOK
  BY DEF GstInit, EditsOK, LookupsOK, KeptOK
<1> QED
  BY <1>1, <1>2 DEF RegisterInv

(* A row written from the row that was read, or marked as crossed.         *)
LEMMA PatchedRow ==
    ASSUME NEW r, NEW read, NEW patch, GstRowOK(r), r = read => MayPatch(read, patch)
    PROVE  GstRowOK([Patched(r, patch) EXCEPT !.crossed = r.crossed \/ r # read])
<1> DEFINE row == [Patched(r, patch) EXCEPT !.crossed = r.crossed \/ r # read]
<1>1. /\ DOMAIN row = DOMAIN r
      /\ row.crossed = (r.crossed \/ r # read)
      /\ row.gstin = Patched(r, patch).gstin /\ row.state = Patched(r, patch).state
  BY DEF GstRowOK, Patched
<1>2. row.crossed \/ AssertGstinMatchesState(row.gstin, row.state)
  <2> SUFFICES ASSUME ~r.crossed, r = read
               PROVE  AssertGstinMatchesState(row.gstin, row.state)
    BY <1>1 DEF GstRowOK
  <2>1. CASE {"gstin", "state"} \cap DOMAIN patch # {}
    BY <1>1, <2>1 DEF MayPatch
  <2>2. CASE {"gstin", "state"} \cap DOMAIN patch = {}
    <3>1. row.gstin = r.gstin /\ row.state = r.state
      BY <1>1, <2>2 DEF Patched, GstRowOK
    <3> QED
      BY <3>1 DEF GstRowOK
  <2> QED
    BY <2>1, <2>2
<1> QED
  BY <1>1, <1>2 DEF GstRowOK

(* The rows change: what was read of them is late.                         *)
LEMMA RowsCommitted ==
    ASSUME RegisterInv, NEW k \in Editors, NEW rows, \A r \in rows : GstRowOK(r),
           CommitRows(rows), Enters(k, [op |-> "forget"]), UNCHANGED kept
    PROVE  RegisterInv'
<1> DEFINE forget == [op |-> "forget"]
<1>1. EditsOK' /\ Forgetting'
  <2>1. forget.op = "forget" /\ edits' = [edits EXCEPT ![k] = {forget}]
    BY DEF Enters
  <2> HIDE DEF forget
  <2> QED
    BY <2>1 DEF RegisterInv, EditsOK, StepOK, Forgetting
<1>2. LookupsOK'
  <2> SUFFICES ASSUME NEW q \in Lookups, NEW found \in lookups'[q]
               PROVE  /\ found = [state |-> found.state, answer |-> found.answer, late |-> TRUE]
                      /\ found.state \in States /\ found.late
    BY DEF CommitRows, LookupsOK, IsCurrent
  <2>1. PICK was \in lookups[q] : found = [was EXCEPT !.late = TRUE]
    BY DEF CommitRows
  <2>2. was = [state |-> was.state, answer |-> was.answer, late |-> was.late] /\ was.state \in States
    BY DEF RegisterInv, LookupsOK
  <2> QED
    BY <2>1, <2>2
<1>3. KeptOK'
  BY <1>1 DEF RegisterInv, KeptOK
<1> QED
  BY <1>1, <1>2, <1>3 DEF RegisterInv, CommitRows

(* An edit goes on without a row being written. *)
LEMMA EditGoesOn ==
    ASSUME RegisterInv, NEW k \in Editors, UNCHANGED <<register, kept, lookups>>,
           \A step \in edits[k] : step.op # "forget",
           Ends(k) \/ \E step : StepOK(step) /\ Enters(k, step)
    PROVE  RegisterInv'
<1>1. \A step : StepOK(step)' <=> StepOK(step)
  BY DEF StepOK
<1>2. EditsOK'
  BY <1>1 DEF RegisterInv, EditsOK, Ends, Enters
<1>3. Forgetting => Forgetting'
  BY DEF Forgetting, Ends, Enters, RegisterInv, EditsOK
<1>4. UNCHANGED <<States>> /\ (\A s : UNCHANGED Answers(s))
  BY DEF States, Answers, Governing
<1>5. LookupsOK' /\ KeptOK'
  BY <1>3, <1>4 DEF RegisterInv, LookupsOK, KeptOK, IsCurrent
<1> QED
  BY <1>2, <1>5 DEF RegisterInv

LEMMA RegisterStep == RegisterInv /\ [GstNext]_gstVars => RegisterInv'
<1> SUFFICES ASSUME RegisterInv, [GstNext]_gstVars PROVE RegisterInv'
  OBVIOUS
<1>0. ASSUME UNCHANGED <<register>> PROVE \A s : UNCHANGED Answers(s)
  BY <1>0 DEF Answers, Governing
<1>1. ASSUME NEW q \in Lookups, Keep(q) PROVE RegisterInv'
  <2>1. PICK found \in lookups[q] :
            /\ kept' = [kept EXCEPT ![found.state] = {[answer |-> found.answer, late |-> found.late]}]
            /\ lookups' = [lookups EXCEPT ![q] = {}]
            /\ UNCHANGED <<register, edits, edited>>
    BY <1>1 DEF Keep
  <2>2. found.state \in States /\ found.late \in BOOLEAN /\ IsCurrent(found.state, found)
    BY DEF RegisterInv, LookupsOK
  <2>3. LookupsOK'
    BY <1>0, <2>1 DEF RegisterInv, LookupsOK, IsCurrent
  <2>4. KeptOK'
    <3>1. kept' = [s \in States |-> kept'[s]]
      BY <2>1, <2>2 DEF RegisterInv, KeptOK
    <3>2. ASSUME NEW s \in States, NEW entry \in kept'[s]
          PROVE  \/ entry \in kept[s]
                 \/ s = found.state /\ entry = [answer |-> found.answer, late |-> found.late]
      BY <2>1, <3>2 DEF RegisterInv, KeptOK
    <3>3. Forgetting' = Forgetting
      BY <2>1 DEF Forgetting
    <3>4. ASSUME NEW s \in States, NEW entry \in kept'[s]
          PROVE  entry = [answer |-> entry.answer, late |-> entry.late] /\ entry.late \in BOOLEAN
      BY <2>2, <3>2 DEF RegisterInv, KeptOK
    <3>5. ASSUME NEW s \in States, NEW entry \in kept'[s], ~Forgetting
          PROVE  IsCurrent(s, entry)'
      <4>1. CASE entry \in kept[s]
        BY <1>0, <2>1, <3>5, <4>1 DEF RegisterInv, KeptOK, IsCurrent
      <4>2. CASE s = found.state /\ entry = [answer |-> found.answer, late |-> found.late]
        BY <1>0, <2>1, <2>2, <4>2 DEF IsCurrent
      <4> QED
        BY <3>2, <4>1, <4>2
    <3> QED
      BY <3>1, <3>3, <3>4, <3>5 DEF KeptOK
  <2>5. EditsOK'
    BY <2>1 DEF RegisterInv, EditsOK, StepOK
  <2> QED
    BY <2>1, <2>3, <2>4, <2>5 DEF RegisterInv
<1>2. ASSUME NEW q \in Lookups, NEW s \in States, LookUp(q, s) PROVE RegisterInv'
  <2>1. PICK answer \in Answers(s) :
            /\ lookups' = [lookups EXCEPT ![q] = {[state |-> s, answer |-> answer, late |-> FALSE]}]
            /\ UNCHANGED <<register, kept, edits, edited>>
    BY <1>2 DEF LookUp
  <2> DEFINE read == [state |-> s, answer |-> answer, late |-> FALSE]
  <2>2. LookupsOK'
    <3>1. /\ read = [state |-> read.state, answer |-> read.answer, late |-> read.late]
          /\ read.state = s /\ read.answer \in Answers(s) /\ ~read.late /\ read.late \in BOOLEAN
          /\ lookups' = [lookups EXCEPT ![q] = {read}]
      BY <2>1
    <3> HIDE DEF read
    <3> QED
      BY <1>0, <2>1, <3>1 DEF RegisterInv, LookupsOK, IsCurrent
  <2>3. KeptOK' /\ EditsOK'
    BY <1>0, <2>1 DEF RegisterInv, KeptOK, IsCurrent, Forgetting, EditsOK, StepOK
  <2> QED
    BY <2>1, <2>2, <2>3 DEF RegisterInv
<1>3. ASSUME NEW s \in States, Expire(s) PROVE RegisterInv'
  <2>1. LookupsOK' /\ EditsOK'
    BY <1>0, <1>3 DEF Expire, RegisterInv, LookupsOK, IsCurrent, EditsOK, StepOK
  <2>2. KeptOK'
    BY <1>0, <1>3 DEF Expire, RegisterInv, KeptOK, IsCurrent, Forgetting
  <2> QED
    BY <1>3, <2>1, <2>2 DEF Expire, RegisterInv
<1>4. ASSUME NEW k \in Editors, NEW state \in StateNames, NEW gstin \in OurGstins, NEW active \in BOOLEAN,
             BeginCreate(k, state, gstin, active)
      PROVE  RegisterInv'
  <2> DEFINE step == [op |-> "create", row |-> GstRow(0, state, gstin, active)]
  <2>1. StepOK(step) /\ Enters(k, step) /\ edits[k] = {} /\ UNCHANGED <<register, kept, lookups>>
    BY <1>4 DEF BeginCreate, Begins, StepOK, GstRow
  <2> HIDE DEF step
  <2> QED
    BY <2>1, EditGoesOn
<1>5. ASSUME NEW k \in Editors, NEW r \in register, NEW patch, MayPatch(r, patch),
             Begins(k, [op |-> "update", id |-> r.id, patch |-> patch, read |-> r]),
             UNCHANGED <<register, kept, lookups>>
      PROVE  RegisterInv'
  <2> DEFINE step == [op |-> "update", id |-> r.id, patch |-> patch, read |-> r]
  <2>1. StepOK(step) /\ Enters(k, step) /\ edits[k] = {}
    BY <1>5 DEF Begins, StepOK
  <2> HIDE DEF step
  <2> QED
    BY <1>5, <2>1, EditGoesOn
<1>6. ASSUME NEW k \in Editors, NEW r \in register, BeginDeactivate(k, r) PROVE RegisterInv'
  <2>1. MayPatch(r, [active |-> FALSE])
    BY DEF MayPatch
  <2> QED
    BY <1>5, <1>6, <2>1 DEF BeginDeactivate
<1>7. ASSUME NEW k \in Editors, CreateConfig(k) PROVE RegisterInv'
  <2>1. PICK step \in edits[k] :
            LET rows == register \cup {[step.row EXCEPT !.id = Cardinality(register) + 1]}
            IN  /\ step.op = "create"
                /\ \/ CommitRows(rows) /\ Enters(k, [op |-> "forget"])
                   \/ Ends(k) /\ UNCHANGED <<register, lookups>>
                /\ UNCHANGED kept
    BY <1>7 DEF CreateConfig
  <2>2. /\ AssertGstinMatchesState(step.row.gstin, step.row.state)
        /\ step.row = GstRow(0, step.row.state, step.row.gstin, step.row.active)
    BY <2>1 DEF RegisterInv, EditsOK, StepOK
  <2>3. GstRowOK(step.row)
    <3>1. GstRowOK(GstRow(0, step.row.state, step.row.gstin, step.row.active))
      BY <2>2, NewRow
    <3> QED
      BY ONLY <2>2, <3>1
  <2>4. \A row \in register \cup {[step.row EXCEPT !.id = Cardinality(register) + 1]} : GstRowOK(row)
    BY <2>3, Renumbered DEF RegisterInv
  <2>5. \A other \in edits[k] : other.op # "forget"
    BY <2>1 DEF RegisterInv, EditsOK
  <2> QED
    BY <2>1, <2>4, <2>5, RowsCommitted, EditGoesOn
<1>8. ASSUME NEW k \in Editors, UpdateConfig(k) PROVE RegisterInv'
  <2>1. PICK step \in edits[k], r \in register :
            LET row == [Patched(r, step.patch) EXCEPT !.crossed = r.crossed \/ r # step.read]
                rows == (register \ {r}) \cup {row}
            IN  /\ step.op = "update"
                /\ \/ CommitRows(rows) /\ Enters(k, [op |-> "forget"])
                   \/ Ends(k) /\ UNCHANGED <<register, lookups>>
                /\ UNCHANGED kept
    BY <1>8 DEF UpdateConfig
  <2> DEFINE row == [Patched(r, step.patch) EXCEPT !.crossed = r.crossed \/ r # step.read]
             rows == (register \ {r}) \cup {row}
  <2>2. MayPatch(step.read, step.patch)
    BY <2>1 DEF RegisterInv, EditsOK, StepOK
  <2>3. GstRowOK(row)
    BY <2>2, PatchedRow DEF RegisterInv
  <2>4. \A other \in rows : GstRowOK(other)
    BY <2>3 DEF RegisterInv
  <2>5. \A other \in edits[k] : other.op # "forget"
    BY <2>1 DEF RegisterInv, EditsOK
  <2>6. \/ CommitRows(rows) /\ Enters(k, [op |-> "forget"])
        \/ Ends(k) /\ UNCHANGED <<register, lookups>>
    BY <2>1
  <2>7. UNCHANGED kept
    BY <2>1
  <2> HIDE DEF rows
  <2> QED
    BY <2>4, <2>5, <2>6, <2>7, RowsCommitted, EditGoesOn
<1>9. ASSUME NEW k \in Editors, Invalidate(k) PROVE RegisterInv'
  <2>1. EditsOK'
    BY <1>9 DEF Invalidate, Ends, RegisterInv, EditsOK, StepOK
  <2>2. LookupsOK' /\ KeptOK'
    BY <1>0, <1>9 DEF Invalidate, RegisterInv, LookupsOK, KeptOK, IsCurrent
  <2> QED
    BY <1>9, <2>1, <2>2 DEF Invalidate, RegisterInv
<1>10. ASSUME NEW k \in Editors, AbandonEdit(k) PROVE RegisterInv'
  <2>1. PICK step \in edits[k] :
            /\ Ends(k)
            /\ IF step.op = "forget"
               THEN kept' = [s \in States |-> {[entry EXCEPT !.late = TRUE] : entry \in kept[s]}]
               ELSE UNCHANGED kept
            /\ UNCHANGED <<register, lookups, edited>>
    BY <1>10 DEF AbandonEdit
  <2>2. CASE step.op # "forget"
    <3>1. \A other \in edits[k] : other.op # "forget"
      BY <2>2 DEF RegisterInv, EditsOK
    <3> QED
      BY <2>1, <2>2, <3>1, EditGoesOn
  <2>3. CASE step.op = "forget"
    <3>1. EditsOK'
      BY <2>1 DEF Ends, RegisterInv, EditsOK, StepOK
    <3>2. LookupsOK'
      BY <1>0, <2>1 DEF RegisterInv, LookupsOK, IsCurrent
    <3>3. ASSUME NEW s \in States, NEW entry \in kept'[s]
          PROVE  entry = [answer |-> entry.answer, late |-> TRUE]
      <4>1. PICK was \in kept[s] : entry = [was EXCEPT !.late = TRUE]
        BY <2>1, <2>3
      <4>2. was = [answer |-> was.answer, late |-> was.late]
        BY DEF RegisterInv, KeptOK
      <4> QED
        BY <4>1, <4>2
    <3>4. kept' = [s \in States |-> kept'[s]]
      BY <2>1, <2>3
    <3>5. KeptOK'
        <4>1. \A s \in States : \A entry \in kept'[s] :
               /\ entry.late = TRUE
               /\ entry = [answer |-> entry.answer, late |-> entry.late]
        BY <3>3
      <4> QED
        BY <3>4, <4>1 DEF KeptOK, IsCurrent
    <3> QED
      BY <2>1, <3>1, <3>2, <3>5 DEF RegisterInv
  <2> QED
    BY <2>2, <2>3
<1>11. CASE UNCHANGED gstVars
  <2>1. EditsOK' /\ LookupsOK' /\ KeptOK'
    BY <1>0, <1>11 DEF gstVars, RegisterInv, EditsOK, StepOK, LookupsOK, KeptOK, IsCurrent, Forgetting
  <2> QED
    BY <1>11, <2>1 DEF gstVars, RegisterInv
<1> QED
  BY <1>1, <1>2, <1>3, <1>4, <1>5, <1>6, <1>7, <1>8, <1>9, <1>10, <1>11 DEF GstNext, BeginUpdate

(* A registration's number is one of its own state unless two edits of it  *)
(* crossed, and what the cache keeps once no deletion is under way is what *)
(* the table says, or was read too early (gst.service).                    *)
THEOREM RegisterKeepsTrue == GstInit /\ [][GstNext]_gstVars => []RegisterTrue
<1>1. RegisterInv => RegisterTrue
  <2> SUFFICES ASSUME RegisterInv PROVE RegisterTrue
    OBVIOUS
  <2>1. \A r \in Health : r.crossed
    BY DEF Health, RegisterInv, GstRowOK, AssertGstinMatchesState
  <2> QED
    BY <2>1 DEF RegisterTrue, RegisterInv, KeptOK, Forgetting, IsCurrent
<1> QED
  BY RegisterStarts, RegisterStep, <1>1, PTL

-----------------------------------------------------------------------------
(* The books.                                                              *)

Quotes == {ComputeFare(o.trip, o.card) : o \in Offers}
Statuses == Cancellable \cup {"ONGOING", "ARRIVED", "COMPLETED", "CANCELLED"}

BookingRows ==
    [status : Statuses, person : People, company : CompanyIds \cup {None}, offer : Offers,
     gstin : Gstins \cup {None}, quote : Quotes, estimated : Nat, final : Nat \cup {None}, advance : Nat, due : Nat,
     extra : Nat, payLater : BOOLEAN, welfare : Welfares, reading : BOOLEAN]

(* What the stages of a call carry. *)
Names == NamedFares \cup {None}
CallRows ==
    {Idle}
    \cup [at : {"assigned"}, booking : Bookings, km : ReportedKm, goal : {"report"}, named : {None}]
    \cup [at : {"distance"}, booking : Bookings, km : Nat, goal : {"report", "complete"}, named : Names]
    \cup [at : {"price"}, booking : Bookings, goal : {"report", "complete"}, named : Names,
          charge : Nat, fare : Nat, due : Nat]
    \cup [at : {"settle"}, booking : Bookings, named : Names]
    \cup [at : {"commit"}, booking : Bookings, settled : Nat, due : Nat]
    \cup [at : {"cancel"}, booking : Bookings, terms : [refund : Int, due : Nat, released : Int]]
    \cup [at : {"refund"}, booking : Bookings, amount : Nat]

PaymentTyped(p) ==
    /\ {"booking", "amount", "reconciled"} \subseteq DOMAIN p
    /\ p.booking \in Bookings /\ p.amount \in Nat

Employed == \A p \in People : people[p].company # None => Known(people[p].company)

(* Companies and customers: who is said to be of a company is of one that  *)
(* is in the table, and a form is about one that is.                       *)
CorporateInv ==
    /\ companies \in [CompanyIds -> CompanyRow \cup {None}]
    /\ people \in [People -> CustomerRow]
    /\ Employed
    /\ forms \in [Clerks -> {Idle} \cup [at : {"write"}, form : Applications]]
    /\ \A k \in Clerks : forms[k].at = "write" =>
          (forms[k].form.do \in {"limit", "active", "attach", "withdraw"}
              => Known(forms[k].form.company))
    /\ filed \in 0..MaxForms

(* What may be charged for a booking, whoever reports what: its estimate,  *)
(* the estimate with one surcharge, or what a caller named.                *)
Driven == {km + back : km \in ReportedKm, back \in ReturnKm \cup {0}}
Charges(row) ==
    {row.estimated + ComputeExtraDistanceCharge(row.quote, km) : km \in Driven}
    \cup {row.estimated} \cup NamedFares

FinalOK(row) == row.final \in Charges(row) \cup {None}

(* A call is about a booking there is, carries what may be charged for it, *)
(* and is let through to the commit with what has been paid.               *)
CallOK(call, row) ==
    /\ row # Absent
    /\ call.at = "distance" => call.km \in Driven
    /\ call.at = "price" => call.fare \in Charges(row)
    /\ call.at = "commit" => /\ call.settled \in Charges(row)
                             /\ row.payLater \/ call.settled <= row.advance

(* The books of one booking.                                               *)
BookedRightly(b) ==
    IF booking[b].status = "COMPLETED"
    THEN /\ ledger[b] # None /\ DeriveBookingBalance(b)
         /\ \E i \in invoices : /\ \A j \in invoices : j.booking = b <=> j = i
                                /\ ledger[b].charged = i.fare
                                /\ booking[b].payLater \/ i.fare <= booking[b].advance
    ELSE ledger[b] = None /\ ~Invoiced(b)

BookingsOK ==
    /\ booking \in [Bookings -> BookingRows \cup {Absent}]
    /\ \A b \in Bookings : booking[b] # Absent =>
          /\ FinalOK(booking[b])
          /\ booking[b].company # None => Known(booking[b].company)

PaymentsOK == \A p \in payments : PaymentTyped(p)

BooksOK ==
    /\ ledger \in [Bookings -> LedgerRow \cup {None}] /\ sequence \in Nat
    /\ \A i \in invoices : IsInvoiceRow(i) /\ i.number \in 1..sequence
    /\ \A i, j \in invoices : i # j => i.number # j.number
    /\ \A b \in Bookings : BookedRightly(b)

CallsOK ==
    /\ calls \in [Callers -> CallRows] /\ made \in 0..MaxCalls
    /\ \A k \in Callers : calls[k] # Idle => CallOK(calls[k], booking[calls[k].booking])

BillingInv == CorporateInv /\ BookingsOK /\ PaymentsOK /\ BooksOK /\ CallsOK

-----------------------------------------------------------------------------
(* Amounts.                                                                *)

LEMMA Products == ASSUME NEW m \in Nat, NEW n \in Nat PROVE m * n \in Nat
OBVIOUS

LEMMA PercentTyped == ASSUME NEW a \in Nat, NEW p \in Nat PROVE Percent(a, p) \in Nat
<1>1. a * p \in Nat
  BY Products
<1> HIDE DEF Percent
<1>2. ASSUME NEW n \in Nat PROVE (n + 50) \div 100 \in Nat
  BY <1>2
<1> QED
  BY <1>1, <1>2 DEF Percent

(* The surge of a card is a tenth at least, so a fare is never negative.   *)
LEMMA SurgedTyped ==
    ASSUME NEW a \in Nat, NEW surge \in Nat
    PROVE  a + Percent(a, surge - 100) \in Nat
<1>1. a * surge \in Nat
  BY Products
<1>2. a * (surge - 100) = a * surge - 100 * a
  OBVIOUS
<1>3. ASSUME NEW n \in Nat PROVE a + ((n - 100 * a) + 50) \div 100 \in Nat
  BY <1>3
<1> QED
  BY <1>1, <1>2, <1>3 DEF Percent

LEMMA RoundTyped == ASSUME NEW a \in Nat PROVE RoundRupee(a) \in Nat
BY DEF RoundRupee

LEMMA DivideTyped == ASSUME NEW a \in Int, NEW b \in Nat \ {0} PROVE Divide(a, b) \in Int
<1>1. 2 * a + b \in Int /\ 2 * b \in Nat \ {0}
  OBVIOUS
<1>2. \A m \in Int, n \in Nat \ {0} : m \div n \in Int
  OBVIOUS
<1> QED
  BY <1>1, <1>2 DEF Divide

(* The driver's share and the welfare levy never come to more than the fare,*)
(* though each is rounded up at half a paisa: the commission is what is left.*)
LEMMA SharesFit ==
    ASSUME NEW fare \in Nat, NEW welfare \in 0..10
    PROVE  /\ LedgerSet(fare, welfare) \in LedgerRow
           /\ LedgerSet(fare, welfare).charged = fare
           /\ fare = LedgerSet(fare, welfare).driver + LedgerSet(fare, welfare).commission
                     + LedgerSet(fare, welfare).welfare
<1> DEFINE driver == Percent(fare, DriverPct)
           levy == Percent(fare, welfare)
<1>1. driver \in Nat /\ levy \in Nat
  <2>1. welfare \in Nat /\ DriverPct \in Nat
    BY DEF DriverPct
  <2> QED
    BY <2>1, PercentTyped
<1>2. fare * welfare \in Nat /\ fare * welfare <= fare * 10
  <2>1. \A n \in 0..10 : fare * n <= fare * 10
    OBVIOUS
  <2> QED
    BY <2>1, Products
<1>3. driver + levy <= fare
  <2>1. ASSUME NEW n \in Nat, n <= fare * 10
        PROVE  (fare * 80 + 50) \div 100 + (n + 50) \div 100 <= fare
    BY <2>1
  <2> QED
    BY <1>2, <2>1 DEF Percent, DriverPct
<1>4. Larger(0, fare - driver - levy) = fare - driver - levy
  BY <1>1, <1>3 DEF Larger
<1> HIDE DEF driver, levy
<1>5. LedgerSet(fare, welfare)
         = [charged |-> fare, driver |-> driver, welfare |-> levy, commission |-> fare - driver - levy]
  BY <1>4 DEF LedgerSet, driver, levy
<1> QED
  BY <1>1, <1>3, <1>5 DEF LedgerRow

LEMMA SurgeTyped ==
    ASSUME NEW t, NEW c, IsTrip(t), IsRateCard(c) PROVE ClampSurge(t.surge, c) \in Nat
<1> DEFINE surge == t.surge
           low == c.minSurge
           high == c.maxSurge
<1>1. surge \in Nat /\ low \in 10 .. 999 /\ high \in low .. 999
  BY ZenonT(40) DEF IsTrip, IsRateCard
<1>2. ClampSurge(surge, c) = Smaller(Larger(surge, low), high)
  BY DEF ClampSurge
<1> HIDE DEF surge, low, high
<1>3. low \in Nat
  BY <1>1
<1>4. high \in Nat
  BY <1>1, <1>3
<1>5. Smaller(Larger(surge, low), high) \in Nat
  BY <1>1, <1>3, <1>4 DEF Smaller, Larger
<1> QED
  BY <1>2, <1>5 DEF surge

(* What the parts of a fare have to be for the whole to be typed.          *)
LEMMA PricedTyped ==
    ASSUME NEW t, NEW c, NEW f, IsTrip(t), IsRateCard(c),
           {f.base, f.distance, f.time, f.core, f.days} \subseteq Nat
    PROVE  /\ {Priced(t, c, f).total, Priced(t, c, f).km, Priced(t, c, f).perKm,
               Priced(t, c, f).night, Priced(t, c, f).bata} \subseteq Nat
<1> DEFINE exempt == IsAllowanceExempt(t.type)
           bata == IF exempt THEN 0 ELSE c.allowance * f.days
           night == IF exempt \/ ~TouchesNight(t, c) THEN 0 ELSE c.night + Percent(f.core, c.nightPct)
           airport == IF t.type = "AIRPORT" THEN c.airport ELSE 0
           subtotal == f.base + f.distance + f.time + bata + night + airport
           demand == Percent(subtotal, ClampSurge(t.surge, c) - 100)
<1>1. bata \in Nat
  BY Products DEF IsRateCard
<1>2. night \in Nat
  <2>1. c.night \in Nat /\ c.nightPct \in Nat /\ f.core \in Nat
    BY DEF IsRateCard
  <2>2. Percent(f.core, c.nightPct) \in Nat
    BY <2>1, PercentTyped
  <2> QED
    BY <2>1, <2>2
<1>3. airport \in Nat
  BY DEF IsRateCard
<1>4. subtotal \in Nat
  <2> HIDE DEF bata, night, airport
  <2> QED
    BY <1>1, <1>2, <1>3
<1>5. ClampSurge(t.surge, c) \in Nat
  BY SurgeTyped
<1>6. RoundRupee(subtotal + demand) \in Nat
  <2> HIDE DEF subtotal
  <2> QED
    BY <1>4, <1>5, SurgedTyped, RoundTyped
<1> HIDE DEF bata, night, airport, subtotal, demand
<1>7. /\ Priced(t, c, f).total = RoundRupee(subtotal + demand)
      /\ Priced(t, c, f).km = t.km /\ Priced(t, c, f).perKm = c.perKm
      /\ Priced(t, c, f).night = night /\ Priced(t, c, f).bata = bata
  BY DEF Priced, bata, night, airport, subtotal, demand
<1> QED
  BY <1>1, <1>2, <1>6, <1>7 DEF IsTrip, IsRateCard

(* Every quote a booking is made on is in whole paise, none below nothing. *)
LEMMA QuoteTyped ==
    ASSUME NEW quote \in Quotes
    PROVE  {quote.total, quote.km, quote.perKm, quote.night, quote.bata} \subseteq Nat
<1>1. PICK o \in Offers : quote = ComputeFare(o.trip, o.card)
  BY DEF Quotes
<1> DEFINE t == o.trip
           c == o.card
<1>2. IsTrip(t) /\ IsRateCard(c)
  BY BillingAssumption
<1> HIDE DEF t, c
<1>3. CASE t.type = "HOURLY"
  <2> DEFINE packaged == t.package # NoPackage
             hours == IF packaged THEN t.package.hours ELSE t.hours
             core == IF packaged THEN t.package.fare ELSE t.hours * c.hourly
             km == IF packaged THEN t.package.km ELSE t.hours * c.kmPerHour
             perKm == IF packaged THEN t.package.perKm ELSE c.perKm
             distance == Larger(0, t.km - km) * perKm
             f == [base |-> core, distance |-> distance, time |-> 0,
                   core |-> core, days |-> 1, hours |-> hours, perHour |-> t.package.perHour]
  <2>1. core \in Nat /\ km \in Nat /\ perKm \in Nat
    BY <1>2, Products DEF IsTrip, IsRateCard
  <2>2. Larger(0, t.km - km) \in Nat
    <3> HIDE DEF km
    <3> QED
      BY <1>2, <2>1 DEF Larger, IsTrip
  <2>3. distance \in Nat
    <3> HIDE DEF km, perKm
    <3> QED
      BY <2>1, <2>2, Products
  <2> HIDE DEF core, distance, hours
  <2>4. {f.base, f.distance, f.time, f.core, f.days} \subseteq Nat
    BY <2>1, <2>3
  <2>5. quote = Priced(t, c, f)
    BY <1>1, <1>3 DEF ComputeFare, ComputeHourlyFare, t, c, core, distance, hours
  <2> HIDE DEF f
  <2> QED
    BY <1>2, <2>4, <2>5, PricedTyped
<1>4. CASE t.type # "HOURLY"
  <2> DEFINE round == t.type = "ROUND_TRIP"
             days == IF round THEN ChargeableDays(t.at, t.back) ELSE 1
             charge == Larger(t.km, GuaranteedKm(t, c, days)) * c.perKm
             time == IF round THEN 0 ELSE t.minutes * c.perMinute
             f == [base |-> 0, distance |-> charge, core |-> charge, days |-> days,
                   time |-> time, hours |-> 0, perHour |-> c.hourly]
  <2>1. days \in Nat
    <3>1. CASE t.back = NoTime
      BY <1>2, <3>1 DEF ChargeableDays, NoTime, IsTrip
    <3>2. CASE t.back \in Nat
      BY <1>2, <3>2 DEF ChargeableDays, DayOf, DayMinutes, IsTrip
    <3> QED
      BY <1>2, <3>1, <3>2 DEF IsTrip
  <2> HIDE DEF days
  <2>2. GuaranteedKm(t, c, days) \in Nat
    BY <1>2, <2>1, Products DEF GuaranteedKm, Larger, IsRateCard
  <2>3. Larger(t.km, GuaranteedKm(t, c, days)) \in Nat
    BY <1>2, <2>2 DEF Larger, IsTrip
  <2>4. charge \in Nat /\ time \in Nat
    BY <1>2, <2>3, Products DEF IsRateCard, IsTrip
  <2> HIDE DEF charge, time
  <2>5. {f.base, f.distance, f.time, f.core, f.days} \subseteq Nat
    BY <2>1, <2>4
  <2>6. quote = Priced(t, c, f)
    BY <1>1, <1>4 DEF ComputeFare, ComputeDistanceFare, t, c, days, charge, time
  <2> HIDE DEF f
  <2> QED
    BY <1>2, <2>5, <2>6, PricedTyped
<1> QED
  BY <1>3, <1>4

-----------------------------------------------------------------------------
(* Companies and customers.                                                *)

LEMMA FormTyped ==
    ASSUME NEW f \in Applications
    PROVE  /\ f.do = "limit" => f.company \in CompanyIds /\ f.limit \in Limits
           /\ f.do = "active" => f.company \in CompanyIds /\ f.to \in BOOLEAN
           /\ f.do \in {"attach", "detach", "withdraw"} => f.company \in CompanyIds /\ f.person \in People
           /\ f.do \in {"note", "gstin", "register"} => f.gstin \in Gstins /\ f.person \in People
           /\ f.do = "open" => f.gstin \in Gstins /\ f.limit \in Limits
           /\ f.do = "ungstin" => f.person \in People
           /\ f.do = "edit" => f.person \in People /\ f.data \in Edits
BY DEF Applications

LEMMA EditedTyped ==
    ASSUME NEW row \in CustomerRow, NEW data \in EditRow
    PROVE  /\ Edited(row, data) \in CustomerRow
           /\ Edited(row, data).company = row.company
              \/ (Edited(row, data).company = data.company /\ data.company # Kept)
<1>1. Set(row.type, data.type) \in {"RETAIL", "CORPORATE"}
  BY DEF Set, EditRow, CustomerRow
<1>2. Set(row.company, data.company) \in CompanyIds \cup {None}
  BY DEF Set, EditRow, CustomerRow
<1>3. Set(row.gstin, data.gstin) \in Gstins \cup {None}
  BY DEF Set, EditRow, CustomerRow
<1>4. Edited(row, data).company = Set(row.company, data.company)
  BY DEF Edited
<1>5. Edited(row, data) \in CustomerRow
  BY <1>1, <1>2, <1>3 DEF Edited, CustomerRow
<1>6. CASE data.company = Kept
  <2>1. Set(row.company, data.company) = row.company
    BY <1>6 DEF Set
  <2> QED
    BY <1>4, <1>5, <2>1
<1>7. CASE data.company # Kept
  <2>1. Set(row.company, data.company) = data.company
    BY <1>7 DEF Set
  <2> QED
    BY <1>4, <1>5, <1>7, <2>1
<1> QED
  BY <1>6, <1>7

LEMMA NewCompany ==
    ASSUME NEW gstin \in Gstins, NEW active \in BOOLEAN, NEW limit \in Limits \cup {0}
    PROVE  Company(gstin, active, limit) \in CompanyRow
BY DEF Company, CompanyRow

(* A company changes in one column, and a customer in some of theirs.      *)
LEMMA CompanyChanges ==
    ASSUME CorporateInv, NEW c \in CompanyIds, Known(c)
    PROVE  /\ \A limit \in Limits :
                 [companies EXCEPT ![c].limit = limit] \in [CompanyIds -> CompanyRow \cup {None}]
           /\ \A active \in BOOLEAN :
                 [companies EXCEPT ![c].active = active] \in [CompanyIds -> CompanyRow \cup {None}]
           /\ \A used \in Nat :
                 [companies EXCEPT ![c].used = used] \in [CompanyIds -> CompanyRow \cup {None}]
<1>1. companies[c] \in CompanyRow /\ companies \in [CompanyIds -> CompanyRow \cup {None}]
  BY DEF CorporateInv, Known
<1>2. ASSUME NEW row \in CompanyRow
      PROVE  [companies EXCEPT ![c] = row] \in [CompanyIds -> CompanyRow \cup {None}]
  BY <1>1
<1>3. /\ \A limit \in Limits : [companies[c] EXCEPT !.limit = limit] \in CompanyRow
      /\ \A active \in BOOLEAN : [companies[c] EXCEPT !.active = active] \in CompanyRow
      /\ \A used \in Nat : [companies[c] EXCEPT !.used = used] \in CompanyRow
  BY <1>1 DEF CompanyRow
<1> QED
  BY <1>2, <1>3

LEMMA CustomerChanges ==
    ASSUME CorporateInv, NEW p \in People, NEW type \in {"RETAIL", "CORPORATE"},
           NEW c \in CompanyIds \cup {None}
    PROVE  /\ Joined(p, c, type) \in [People -> CustomerRow]
           /\ \A q \in People : Joined(p, c, type)[q].company = IF q = p THEN c ELSE people[q].company
<1>1. people \in [People -> CustomerRow] /\ people[p] \in CustomerRow
  BY DEF CorporateInv
<1>2. [people[p] EXCEPT !.company = c, !.type = type] \in CustomerRow
  BY <1>1 DEF CustomerRow
<1>3. Joined(p, c, type) = [people EXCEPT ![p] = [people[p] EXCEPT !.company = c, !.type = type]]
  BY <1>1 DEF Joined
<1>4. [people[p] EXCEPT !.company = c, !.type = type].company = c
  BY <1>1 DEF CustomerRow
<1> QED
  BY <1>1, <1>2, <1>3, <1>4

KnownStays == \A c \in CompanyIds : Known(c) => Known(c)'

LEMMA KnownIs ==
    ASSUME NEW c \in CompanyIds, companies' \in [CompanyIds -> CompanyRow \cup {None}]
    PROVE  Known(c)' <=> companies'[c] \in CompanyRow
BY CorporateAssumption DEF Known

LEMMA FormsStay ==
    ASSUME CorporateInv, KnownStays, UNCHANGED filed,
           UNCHANGED forms \/ \E k \in Clerks : forms' = [forms EXCEPT ![k] = Idle],
           companies' \in [CompanyIds -> CompanyRow \cup {None}],
           people' \in [People -> CustomerRow], Employed'
    PROVE  CorporateInv'
<1>1. forms' \in [Clerks -> {Idle} \cup [at : {"write"}, form : Applications]]
  BY DEF CorporateInv
<1>2. ASSUME NEW k \in Clerks, forms'[k].at = "write",
             forms'[k].form.do \in {"limit", "active", "attach", "withdraw"}
      PROVE  companies'[forms'[k].form.company] # None
  <2>1. forms'[k] = forms[k]
    BY <1>2 DEF CorporateInv, Idle
  <2>2. Known(forms[k].form.company)
    BY <1>2, <2>1 DEF CorporateInv
  <2>3. forms[k].form \in Applications
    BY <1>2, <2>1 DEF CorporateInv, Idle
  <2>4. forms[k].form.company \in CompanyIds
    BY <1>2, <2>1, <2>3, FormTyped
  <2> QED
    BY <2>1, <2>2, <2>4 DEF KnownStays, Known
<1> QED
  BY <1>1, <1>2 DEF CorporateInv, Known

(* A founder's row and company. *)
LEMMA FoundedTyped ==
    ASSUME CorporateInv, NEW f, f.gstin \in Gstins, f.person \in People, NEW row \in CustomerRow,
           Founded(f, row)
    PROVE  /\ KnownStays /\ companies' \in [CompanyIds -> CompanyRow \cup {None}]
           /\ people' \in [People -> CustomerRow] /\ Employed'
<1>1. PICK c \in CompanyIds :
          /\ ~Known(c)
          /\ companies' = [companies EXCEPT ![c] = Company(f.gstin, ~Approval, 0)]
          /\ people' = [people EXCEPT ![f.person] =
                           [row EXCEPT !.company = c,
                                       !.type = IF Approval THEN "RETAIL" ELSE "CORPORATE"]]
  BY DEF Founded
<1> DEFINE founded == Company(f.gstin, ~Approval, 0)
           type == IF Approval THEN "RETAIL" ELSE "CORPORATE"
           joined == [row EXCEPT !.company = c, !.type = type]
<1>2. founded \in CompanyRow
  BY NewCompany
<1>3. joined \in CustomerRow /\ joined.company = c
  BY DEF CustomerRow
<1>4. companies' = [companies EXCEPT ![c] = founded] /\ people' = [people EXCEPT ![f.person] = joined]
  BY <1>1
<1> HIDE DEF founded, joined
<1>5. companies' \in [CompanyIds -> CompanyRow \cup {None}] /\ people' \in [People -> CustomerRow]
  BY <1>2, <1>3, <1>4 DEF CorporateInv
<1>6. KnownStays /\ Known(c)'
  BY <1>2, <1>4, <1>5, KnownIs, CorporateAssumption DEF KnownStays, Known, CorporateInv
<1>7. ASSUME NEW p \in People, people'[p].company # None PROVE companies'[people'[p].company] # None
  <2>1. CASE p = f.person
    BY <1>3, <1>4, <1>6, <2>1 DEF CorporateInv, Known
  <2>2. CASE p # f.person
    <3>1. people'[p] = people[p] /\ people[p] \in CustomerRow
      BY <1>4, <2>2 DEF CorporateInv
    <3>2. people[p].company \in CompanyIds /\ Known(people[p].company)
      BY <1>7, <3>1 DEF CorporateInv, CustomerRow, Employed
    <3> QED
      BY <1>6, <3>1, <3>2 DEF KnownStays, Known
  <2> QED
    BY <2>1, <2>2
<1> QED
  BY <1>5, <1>6, <1>7 DEF Employed, Known

LEMMA StillEmployed ==
    ASSUME CorporateInv, KnownStays, NEW p \in People, people'[p].company = people[p].company,
           people'[p].company # None
    PROVE  companies'[people'[p].company] # None
<1>1. people[p] \in CustomerRow
  BY DEF CorporateInv
<1>2. people[p].company \in CompanyIds /\ Known(people[p].company)
  BY <1>1 DEF CorporateInv, CustomerRow, Employed
<1> QED
  BY <1>2 DEF KnownStays, Known

LEMMA Joins ==
    ASSUME CorporateInv, KnownStays, NEW p \in People, NEW type \in {"RETAIL", "CORPORATE"},
           NEW c \in CompanyIds \cup {None}, c # None => companies'[c] # None,
           people' = Joined(p, c, type)
    PROVE  people' \in [People -> CustomerRow] /\ Employed'
<1>1. /\ people' \in [People -> CustomerRow]
      /\ \A q \in People : people'[q].company = IF q = p THEN c ELSE people[q].company
  BY CustomerChanges
<1> QED
  BY <1>1, StillEmployed DEF Employed, Known

LEMMA SavedTyped ==
    ASSUME CorporateInv, NEW f \in Applications,
           f.do \in {"limit", "active", "attach", "withdraw"} => Known(f.company),
           \/ SaveLimit(f) \/ SaveActive(f) \/ SaveAttach(f) \/ SaveDetach(f) \/ SaveOpen(f) \/ SaveEdit(f)
           \/ SaveNote(f) \/ SaveGstin(f) \/ SaveRegister(f) \/ SaveUngstin(f) \/ SaveWithdraw(f)
    PROVE  /\ KnownStays /\ companies' \in [CompanyIds -> CompanyRow \cup {None}]
           /\ people' \in [People -> CustomerRow] /\ Employed'
<1> DEFINE Rows == [CompanyIds -> CompanyRow \cup {None}]
           Goal == KnownStays /\ companies' \in Rows /\ people' \in [People -> CustomerRow] /\ Employed'
<1>0. companies \in Rows /\ people \in [People -> CustomerRow]
  BY DEF CorporateInv
<1>1. ASSUME companies' \in Rows, UNCHANGED people, KnownStays PROVE Goal
  BY <1>0, <1>1, StillEmployed DEF Employed, Known
<1>2. ASSUME NEW c \in CompanyIds, Known(c), NEW row \in CompanyRow,
             companies' = [companies EXCEPT ![c] = row]
      PROVE  companies' \in Rows /\ KnownStays
  BY <1>0, <1>2, CorporateAssumption DEF KnownStays, Known
<1>3. ASSUME UNCHANGED companies PROVE companies' \in Rows /\ KnownStays
  BY <1>0, <1>3 DEF KnownStays, Known
<1>4. ASSUME UNCHANGED companies, NEW p \in People, NEW type \in {"RETAIL", "CORPORATE"},
             NEW c \in CompanyIds \cup {None}, c # None => Known(c), people' = Joined(p, c, type)
      PROVE  Goal
  <2>1. companies' \in Rows /\ KnownStays /\ (c # None => companies'[c] # None)
    BY <1>3, <1>4 DEF Known
  <2> QED
    BY <1>4, <2>1, Joins
<1>5. CASE SaveLimit(f)
  <2>1. f.company \in CompanyIds /\ f.limit \in Limits /\ Known(f.company)
    BY <1>5, FormTyped DEF SaveLimit
  <2>2. companies[f.company] \in CompanyRow
    BY <1>0, <2>1 DEF Known
  <2>3. [companies[f.company] EXCEPT !.limit = f.limit] \in CompanyRow
    BY <2>1, <2>2 DEF CompanyRow
  <2>4. companies' = [companies EXCEPT ![f.company] = [companies[f.company] EXCEPT !.limit = f.limit]]
    BY <1>5 DEF SaveLimit
  <2>5. companies' \in Rows /\ KnownStays
    BY <1>2, <2>1, <2>3, <2>4
  <2> QED
    BY <1>1, <1>5, <2>5 DEF SaveLimit
<1>6. CASE SaveActive(f)
  <2>1. f.company \in CompanyIds /\ f.to \in BOOLEAN /\ Known(f.company)
    BY <1>6, FormTyped DEF SaveActive
  <2>2. companies[f.company] \in CompanyRow
    BY <1>0, <2>1 DEF Known
  <2>3. [companies[f.company] EXCEPT !.active = f.to] \in CompanyRow
    BY <2>1, <2>2 DEF CompanyRow
  <2>4. companies' = [companies EXCEPT ![f.company] = [companies[f.company] EXCEPT !.active = f.to]]
    BY <1>6 DEF SaveActive
  <2>5. companies' \in Rows /\ KnownStays
    BY <1>2, <2>1, <2>3, <2>4
  <2> QED
    BY <1>1, <1>6, <2>5 DEF SaveActive
<1>7. CASE SaveAttach(f)
  BY <1>4, <1>7, FormTyped DEF SaveAttach
<1>8. CASE SaveDetach(f)
  BY <1>4, <1>8, FormTyped DEF SaveDetach, Left
<1>9. CASE SaveOpen(f)
  <2>1. PICK c \in CompanyIds :
            ~Known(c) /\ companies' = [companies EXCEPT ![c] = Company(f.gstin, TRUE, f.limit)]
    BY <1>9 DEF SaveOpen
  <2>2. Company(f.gstin, TRUE, f.limit) \in CompanyRow
    BY <1>9, FormTyped, NewCompany DEF SaveOpen
  <2>3. companies' \in Rows /\ KnownStays
    BY <1>0, <2>1, <2>2 DEF KnownStays, Known
  <2> QED
    BY <1>1, <1>9, <2>3 DEF SaveOpen
<1>10. CASE SaveEdit(f)
  <2>1. f.person \in People /\ f.data \in EditRow
    BY <1>10, FormTyped, CorporateAssumption DEF SaveEdit
  <2>2. people[f.person] \in CustomerRow
    BY <1>0, <2>1
  <2> DEFINE row == Edited(people[f.person], f.data)
  <2>3. /\ row \in CustomerRow
        /\ row.company = people[f.person].company
           \/ (row.company = f.data.company /\ f.data.company # Kept)
    BY <2>1, <2>2, EditedTyped
  <2>4. people' = [people EXCEPT ![f.person] = row]
    BY <1>10 DEF SaveEdit
  <2>5. row.company # None => Known(row.company)
    BY <1>10, <2>1, <2>2, <2>3 DEF SaveEdit, CorporateInv, Employed
  <2> HIDE DEF row
  <2>6. /\ people' \in [People -> CustomerRow] /\ people'[f.person] = row
        /\ \A q \in People : q # f.person => people'[q].company = people[q].company
    BY <1>0, <2>1, <2>3, <2>4
  <2>7. companies' \in Rows /\ KnownStays /\ UNCHANGED companies
    BY <1>3, <1>10 DEF SaveEdit
  <2>8. ASSUME NEW q \in People, people'[q].company # None PROVE companies'[people'[q].company] # None
    <3>1. CASE q = f.person
      BY <2>5, <2>6, <2>7, <2>8, <3>1 DEF Known
    <3>2. CASE q # f.person
      BY <2>6, <2>7, <2>8, <3>2, StillEmployed
    <3> QED
      BY <3>1, <3>2
  <2> QED
    BY <2>6, <2>7, <2>8 DEF Employed, Known
<1>11. CASE SaveNote(f)
  <2>1. f.person \in People /\ f.gstin \in Gstins
    BY <1>11, FormTyped DEF SaveNote
  <2>2. people[f.person] \in CustomerRow
    BY <1>0, <2>1
  <2> DEFINE row == [people[f.person] EXCEPT !.gstin = f.gstin]
  <2>3. row \in CustomerRow /\ row.company = people[f.person].company
    BY <2>1, <2>2 DEF CustomerRow
  <2>4. people' = [people EXCEPT ![f.person] = row]
    BY <1>11 DEF SaveNote
  <2> HIDE DEF row
  <2>5. people' \in [People -> CustomerRow] /\ \A q \in People : people'[q].company = people[q].company
    BY <1>0, <2>1, <2>3, <2>4
  <2>6. companies' \in Rows /\ KnownStays
    BY <1>3, <1>11 DEF SaveNote
  <2> QED
    BY <2>5, <2>6, StillEmployed DEF Employed, Known
<1>12. CASE SaveGstin(f)
  <2>1. f.gstin \in Gstins /\ f.person \in People
    BY <1>12, FormTyped DEF SaveGstin
  <2>2. people[f.person] \in CustomerRow
    BY <1>0, <2>1
  <2>3. [people[f.person] EXCEPT !.gstin = f.gstin] \in CustomerRow
    BY <2>1, <2>2 DEF CustomerRow
  <2> QED
    BY <1>12, <2>1, <2>3, FoundedTyped DEF SaveGstin
<1>13. CASE SaveRegister(f)
  <2>1. f.gstin \in Gstins /\ f.person \in People
    BY <1>13, FormTyped DEF SaveRegister
  <2>2. people[f.person] \in CustomerRow
    BY <1>0, <2>1
  <2> QED
    BY <1>13, <2>1, <2>2, FoundedTyped DEF SaveRegister
<1>14. CASE SaveUngstin(f)
  <2>1. f.person \in People
    BY <1>14, FormTyped DEF SaveUngstin
  <2> DEFINE out == Left(f.person)
             row == [out[f.person] EXCEPT !.gstin = None]
  <2>2. /\ out \in [People -> CustomerRow]
        /\ \A q \in People : out[q].company = IF q = f.person THEN None ELSE people[q].company
    BY <2>1, CustomerChanges DEF Left
  <2>3. people' = [out EXCEPT ![f.person] = row]
    BY <1>14 DEF SaveUngstin
  <2> HIDE DEF out
  <2>4. row \in CustomerRow /\ row.company = None
    BY <2>1, <2>2 DEF CustomerRow
  <2> HIDE DEF row
  <2>5. /\ people' \in [People -> CustomerRow]
        /\ \A q \in People : people'[q].company = IF q = f.person THEN None ELSE people[q].company
    BY <2>1, <2>2, <2>3, <2>4
  <2>6. companies' \in Rows /\ KnownStays
    BY <1>3, <1>14 DEF SaveUngstin
  <2> QED
    BY <2>5, <2>6, StillEmployed DEF Employed, Known
<1>15. CASE SaveWithdraw(f)
  <2>1. f.company \in CompanyIds /\ Known(f.company) /\ f.person \in People
    BY <1>15, FormTyped DEF SaveWithdraw
  <2>2. companies[f.company] \in CompanyRow
    BY <1>0, <2>1 DEF Known
  <2>3. [companies[f.company] EXCEPT !.active = FALSE] \in CompanyRow
    BY <2>2 DEF CompanyRow
  <2>4. companies' = [companies EXCEPT ![f.company] = [companies[f.company] EXCEPT !.active = FALSE]]
    BY <1>15 DEF SaveWithdraw
  <2>5. companies' \in Rows /\ KnownStays
    BY <1>2, <2>1, <2>3, <2>4
  <2>6. people' = Joined(f.person, None, "RETAIL")
    BY <1>15 DEF SaveWithdraw, Left
  <2> QED
    BY <2>1, <2>5, <2>6, Joins
<1> QED
  BY <1>5, <1>6, <1>7, <1>8, <1>9, <1>10, <1>11, <1>12, <1>13, <1>14, <1>15

(* Whatever staff and customers do, the tables stay sound. *)
LEMMA CorporateStep ==
    ASSUME CorporateInv, CorporateNext
    PROVE  CorporateInv' /\ KnownStays
<1>1. ASSUME NEW k \in Clerks, File(k) PROVE CorporateInv' /\ KnownStays
  <2>1. PICK f \in Applications :
            /\ \/ f.do \in {"open", "ungstin"} \/ MayLimit(f) \/ MaySetActive(f)
               \/ MayAttach(f) \/ MayDetach(f) \/ MayNoteGstin(f) \/ MayAddGstin(f)
               \/ MayRegister(f) \/ MayWithdraw(f) \/ MayEdit(f)
            /\ forms' = [forms EXCEPT ![k] = [at |-> "write", form |-> f]]
    BY <1>1 DEF File
  <2>2. f.do \in {"limit", "active", "attach", "withdraw"} => Known(f.company)
    <3>1. CASE MayWithdraw(f)
      <4>1. f.person \in People /\ people[f.person].company = f.company /\ f.company # None
        BY <3>1, FormTyped DEF MayWithdraw
      <4> QED
        BY <4>1 DEF CorporateInv, Employed
    <3> QED
      BY <2>1, <3>1 DEF MayLimit, MaySetActive, MayAttach, MayDetach, MayNoteGstin, MayAddGstin,
                        MayRegister, MayEdit
  <2>3. UNCHANGED <<companies, people>> /\ filed' = filed + 1 /\ filed < MaxForms
    BY <1>1 DEF File
  <2>4. filed' \in 0..MaxForms
    BY <2>3, CorporateAssumption DEF CorporateInv
  <2> DEFINE new == [at |-> "write", form |-> f]
  <2>5. new \in [at : {"write"}, form : Applications] /\ new.at = "write" /\ new.form = f
    OBVIOUS
  <2>6. forms' = [forms EXCEPT ![k] = new]
    BY <2>1
  <2> HIDE DEF new
  <2>7. /\ forms' \in [Clerks -> {Idle} \cup [at : {"write"}, form : Applications]]
        /\ \A j \in Clerks : forms'[j].at = "write" =>
              (forms'[j].form.do \in {"limit", "active", "attach", "withdraw"}
                  => Known(forms'[j].form.company))
    BY <2>2, <2>5, <2>6 DEF CorporateInv
  <2> QED
    BY <2>3, <2>4, <2>7 DEF CorporateInv, KnownStays, Known, Employed
<1>2. ASSUME NEW k \in Clerks, Save(k) PROVE CorporateInv' /\ KnownStays
  <2> DEFINE f == forms[k].form
  <2>1. f \in Applications /\ (f.do \in {"limit", "active", "attach", "withdraw"} => Known(f.company))
    BY <1>2 DEF CorporateInv, Save, Idle
  <2>2. /\ \/ SaveLimit(f) \/ SaveActive(f) \/ SaveAttach(f) \/ SaveDetach(f) \/ SaveOpen(f) \/ SaveEdit(f)
           \/ SaveNote(f) \/ SaveGstin(f) \/ SaveRegister(f) \/ SaveUngstin(f) \/ SaveWithdraw(f)
        /\ forms' = [forms EXCEPT ![k] = Idle] /\ UNCHANGED filed
    BY <1>2 DEF Save
  <2> HIDE DEF f
  <2>3. /\ KnownStays /\ companies' \in [CompanyIds -> CompanyRow \cup {None}]
        /\ people' \in [People -> CustomerRow] /\ Employed'
    BY <2>1, <2>2, SavedTyped
  <2> QED
    BY <2>2, <2>3, FormsStay
<1>3. ASSUME NEW k \in Clerks, Abandon(k) PROVE CorporateInv' /\ KnownStays
  <2>1. KnownStays /\ Employed' /\ companies' \in [CompanyIds -> CompanyRow \cup {None}]
        /\ people' \in [People -> CustomerRow]
    BY <1>3 DEF Abandon, KnownStays, Known, Employed, CorporateInv
  <2> QED
    BY <1>3, <2>1, FormsStay DEF Abandon
<1> QED
  BY <1>1, <1>2, <1>3 DEF CorporateNext

-----------------------------------------------------------------------------
(* What steps leave as it is.                                              *)

(* A booking that is there goes on being there at the price it was made    *)
(* for, and what has been paid only grows.                                 *)
Keeps(row, new) ==
    /\ new \in BookingRows
    /\ new.quote = row.quote /\ new.estimated = row.estimated /\ new.payLater = row.payLater
    /\ new.advance >= row.advance

Evolve == \A b \in Bookings : booking[b] # Absent => Keeps(booking[b], booking'[b])

LEMMA RowTyped ==
    ASSUME BookingsOK, NEW b \in Bookings, booking[b].status # "NONE"
    PROVE  booking[b] # Absent /\ booking[b] \in BookingRows
BY DEF BookingsOK, Absent

LEMMA RowThere ==
    ASSUME NEW row \in BookingRows
    PROVE  row # Absent /\ row.status \in Statuses
<1>1. row.status \in Statuses
  BY DEF BookingRows
<1>2. Absent.status = "NONE"
  BY DEF Absent
<1> QED
  BY <1>1, <1>2 DEF Statuses, Cancellable, Bound

LEMMA CorporateStays ==
    ASSUME CorporateInv, UNCHANGED corporateVars PROVE CorporateInv' /\ KnownStays
BY DEF corporateVars, CorporateInv, Employed, KnownStays, Known

LEMMA BookingsStay ==
    ASSUME BookingsOK, KnownStays, UNCHANGED booking PROVE BookingsOK' /\ Evolve
<1>1. \A b \in Bookings : booking[b] # Absent => booking[b] \in BookingRows
  BY DEF BookingsOK
<1>2. \A row \in BookingRows : Keeps(row, row)
  <2> SUFFICES ASSUME NEW row \in BookingRows PROVE Keeps(row, row)
    OBVIOUS
  <2>1. row.advance \in Nat
    BY DEF BookingRows
  <2> QED
    BY <2>1, RowThere DEF Keeps
<1>3. Evolve
  BY <1>1, <1>2 DEF Evolve
<1>4. \A row \in BookingRows : row.company \in CompanyIds \cup {None}
  BY DEF BookingRows
<1> QED
  BY <1>1, <1>3, <1>4 DEF BookingsOK, KnownStays, Known

LEMMA CallsFollow ==
    ASSUME CallsOK, BookingsOK, Evolve, made' \in 0..MaxCalls,
           UNCHANGED calls \/ \E k \in Callers : \E next \in CallRows :
               /\ Enter(k, next)
               /\ next # Idle => CallOK(next, booking'[next.booking])
    PROVE  CallsOK'
<1>1. ASSUME NEW k \in Callers, calls[k] # Idle
      PROVE  CallOK(calls[k], booking'[calls[k].booking])
  <2> DEFINE call == calls[k]
             row == booking[call.booking]
             new == booking'[call.booking]
  <2>1. call \in CallRows /\ call # Idle /\ CallOK(call, row)
    BY <1>1 DEF CallsOK
  <2>2. call.booking \in Bookings
    BY <2>1 DEF CallRows
  <2>3. row \in BookingRows /\ Keeps(row, new)
    BY <2>1, <2>2 DEF CallOK, BookingsOK, Evolve
  <2>4. row.advance \in Int /\ new.quote = row.quote /\ new.estimated = row.estimated
    BY <2>3 DEF BookingRows, Keeps
  <2>5. Charges(new) = Charges(row)
    BY <2>4 DEF Charges
  <2>6. call.at = "commit" => call.settled \in Int
    BY <2>1 DEF CallRows, Idle
  <2>7. new \in BookingRows /\ new.advance \in Int /\ new.advance >= row.advance
        /\ new.payLater = row.payLater
    BY <2>3 DEF BookingRows, Keeps
  <2> HIDE DEF call, row, new
  <2>8. call.at = "commit" => new.payLater \/ call.settled <= new.advance
    BY <2>1, <2>4, <2>6, <2>7 DEF CallOK
  <2>9. new # Absent
    BY <2>7, RowThere
  <2>10. CallOK(call, new)
    BY <2>1, <2>5, <2>8, <2>9 DEF CallOK
  <2> QED
    BY <2>10 DEF call, new
<1>2. CASE UNCHANGED calls
  BY <1>1, <1>2 DEF CallsOK
<1>3. ASSUME NEW k \in Callers, NEW next \in CallRows, Enter(k, next),
             next # Idle => CallOK(next, booking'[next.booking])
      PROVE  CallsOK'
  <2>1. calls' = [calls EXCEPT ![k] = next]
    BY <1>3 DEF Enter
  <2>2. calls' \in [Callers -> CallRows]
    BY <2>1 DEF CallsOK
  <2>3. \A j \in Callers : calls'[j] = IF j = k THEN next ELSE calls[j]
    BY <2>1 DEF CallsOK
  <2>4. \A j \in Callers : calls'[j] # Idle => CallOK(calls'[j], booking'[calls'[j].booking])
    BY <1>1, <1>3, <2>3
  <2> QED
    BY <2>2, <2>4 DEF CallsOK
<1> QED
  BY <1>2, <1>3

(* Neither invoices nor entries, and no booking becomes or ceases to be    *)
(* completed.                                                              *)
LEMMA BooksStay ==
    ASSUME BooksOK, BookingsOK, Evolve, UNCHANGED <<invoices, ledger>>,
           sequence' \in Nat, sequence' >= sequence,
           \A b \in Bookings : booking'[b].status = "COMPLETED" <=> booking[b].status = "COMPLETED"
    PROVE  BooksOK'
<1>1. \A i \in invoices : i.number \in 1..sequence'
  BY DEF BooksOK, IsInvoiceRow
<1>2. ASSUME NEW b \in Bookings PROVE BookedRightly(b)'
  <2>1. BookedRightly(b)
    BY DEF BooksOK
  <2>2. CASE booking[b].status # "COMPLETED"
    BY <2>1, <2>2 DEF BookedRightly, Invoiced
  <2>3. CASE booking[b].status = "COMPLETED"
    <3>1. booking[b] \in BookingRows /\ Keeps(booking[b], booking'[b])
      BY <2>3, RowTyped DEF Evolve
    <3>2. /\ booking[b].advance \in Int /\ booking'[b].advance \in Int
          /\ booking'[b].advance >= booking[b].advance /\ booking'[b].payLater = booking[b].payLater
      BY <3>1 DEF BookingRows, Keeps
    <3>3. \A i \in invoices : i.fare \in Int
      BY DEF BooksOK, IsInvoiceRow
    <3>4. ASSUME NEW i \in invoices, booking[b].payLater \/ i.fare <= booking[b].advance
          PROVE  booking'[b].payLater \/ i.fare <= booking'[b].advance
      BY <3>2, <3>3, <3>4
    <3> QED
      BY <2>1, <2>3, <3>4 DEF BookedRightly, DeriveBookingBalance
  <2> QED
    BY <2>2, <2>3
<1> QED
  BY <1>1, <1>2 DEF BooksOK, IsInvoiceRow

(* A booking is written, and its books are not. *)
LEMMA RowWritten ==
    ASSUME CorporateInv, BookingsOK, BooksOK, KnownStays, UNCHANGED <<invoices, ledger, sequence>>,
           NEW b \in Bookings, NEW row \in BookingRows, Write(b, row),
           booking[b] # Absent => Keeps(booking[b], row),
           row.company # None => Known(row.company), FinalOK(row),
           row.status = "COMPLETED" <=> booking[b].status = "COMPLETED"
    PROVE  BookingsOK' /\ BooksOK' /\ Evolve
<1>1. /\ booking' \in [Bookings -> BookingRows \cup {Absent}]
      /\ \A a \in Bookings : booking'[a] = IF a = b THEN row ELSE booking[a]
  BY DEF Write, BookingsOK
<1>2. ASSUME NEW r \in BookingRows PROVE Keeps(r, r)
  <2>1. r.advance \in Nat
    BY DEF BookingRows
  <2> QED
    BY <2>1 DEF Keeps
<1>3. Evolve
  BY <1>1, <1>2 DEF Evolve, BookingsOK
<1>4. BookingsOK'
  <2>1. \A r \in BookingRows : r.company \in CompanyIds \cup {None}
    BY DEF BookingRows
  <2>2. ASSUME NEW a \in Bookings, booking'[a] # Absent
        PROVE  FinalOK(booking'[a]) /\ (booking'[a].company # None => companies'[booking'[a].company] # None)
    <3>1. booking'[a] \in BookingRows
      BY <1>1, <2>2
    <3>2. FinalOK(booking'[a]) /\ (booking'[a].company # None => Known(booking'[a].company))
      BY <1>1, <2>2 DEF BookingsOK
    <3> QED
      BY <2>1, <3>1, <3>2 DEF KnownStays, Known
  <2> QED
    BY <1>1, <2>2 DEF BookingsOK, Known
<1>5. BooksOK'
  <2>1. sequence' \in Nat /\ sequence' >= sequence
    BY DEF BooksOK
  <2> QED
    BY <1>1, <1>3, <2>1, BooksStay
<1> QED
  BY <1>3, <1>4, <1>5

-----------------------------------------------------------------------------
(* The steps.                                                              *)

LEMMA FareTyped ==
    ASSUME NEW b \in Bookings, booking[b] \in BookingRows
    PROVE  Fare(b) \in Nat
<1>1. booking[b].estimated \in Nat /\ booking[b].final \in Nat \cup {None}
  BY DEF BookingRows
<1> QED
  BY <1>1 DEF Fare

LEMMA ChargeTyped ==
    ASSUME NEW quote \in Quotes, NEW km \in Nat
    PROVE  ComputeExtraDistanceCharge(quote, km) \in Nat
<1>1. quote.km \in Nat /\ quote.perKm \in Nat
  BY QuoteTyped
<1>2. Larger(0, km - quote.km) \in Nat
  BY <1>1 DEF Larger
<1> QED
  BY <1>1, <1>2, Products DEF ComputeExtraDistanceCharge

(* The price of a booking is read off three of its columns. *)
LEMMA SamePrice ==
    ASSUME NEW row, NEW new, new.quote = row.quote, new.estimated = row.estimated,
           new.final \in Charges(row) \cup {None}
    PROVE  FinalOK(new)
BY DEF FinalOK, Charges

LEMMA BookStep ==
    ASSUME BillingInv, NEW b \in Bookings, NEW p \in People, NEW o \in Offers, NEW payLater \in BOOLEAN,
           Book(b, p, o, payLater)
    PROVE  BillingInv'
<1> DEFINE c == ResolveBillingEntity(p)
           quote == ComputeFare(o.trip, o.card)
<1>1. PICK w \in Welfares, gstin \in Gstins \cup {None} :
          Write(b, BookingRow(p, c, o, quote, gstin, payLater, w))
  BY DEF Book
<1> DEFINE row == BookingRow(p, c, o, quote, gstin, payLater, w)
<1>2. /\ booking[b] = Absent
      /\ UNCHANGED <<companies, people, forms, filed, payments, sequence, invoices, ledger, calls, made>>
  BY DEF Book
<1>3. quote \in Quotes /\ quote.total \in Nat
  <2>1. quote \in Quotes
    BY DEF Quotes
  <2> HIDE DEF quote
  <2> QED
    BY <2>1, QuoteTyped
<1>4. c \in CompanyIds \cup {None} /\ (c # None => Known(c))
  <2>1. people[p] \in CustomerRow
    BY DEF BillingInv, CorporateInv
  <2>2. people[p].company \in CompanyIds \cup {None}
    BY <2>1 DEF CustomerRow
  <2>3. people[p].company # None => Known(people[p].company)
    BY DEF BillingInv, CorporateInv, Employed
  <2> QED
    BY <2>2, <2>3 DEF ResolveBillingEntity
<1> HIDE DEF c, quote
<1>5. row \in BookingRows /\ row.company = c /\ row.final = None /\ row.status = "PENDING"
  BY <1>3, <1>4 DEF BookingRows, BookingRow, Statuses, Cancellable
<1>6. FinalOK(row)
  BY <1>5 DEF FinalOK
<1> HIDE DEF row
<1>7. CorporateInv' /\ KnownStays
  BY <1>2, CorporateStays DEF BillingInv, corporateVars
<1>8. booking[b].status = "NONE"
  BY <1>2 DEF Absent
<1>9. BookingsOK' /\ BooksOK' /\ Evolve
  <2>1. Write(b, row)
    BY <1>1 DEF row
  <2> QED
    BY <1>2, <1>4, <1>5, <1>6, <1>7, <1>8, <2>1, RowWritten DEF BillingInv
<1>10. CallsOK'
  BY <1>2, <1>9, CallsFollow DEF BillingInv, CallsOK
<1> QED
  BY <1>2, <1>7, <1>9, <1>10 DEF BillingInv, PaymentsOK

(* A booking changes, and neither money nor calls do. *)
LEMMA OnlyRow ==
    ASSUME BillingInv, NEW b \in Bookings, NEW new \in BookingRows, Write(b, new),
           booking[b] \in BookingRows, Keeps(booking[b], new), new.company = booking[b].company,
           new.final \in Charges(booking[b]) \cup {None},
           new.status = "COMPLETED" <=> booking[b].status = "COMPLETED",
           UNCHANGED <<corporateVars, sequence, invoices, ledger, calls, made>>,
           UNCHANGED payments \/ PaymentsOK'
    PROVE  BillingInv'
<1>1. CorporateInv' /\ KnownStays
  BY CorporateStays DEF BillingInv
<1>2. FinalOK(new)
  BY SamePrice DEF Keeps
<1>3. new.company # None => Known(new.company)
  BY RowThere DEF BillingInv, BookingsOK
<1>4. BookingsOK' /\ BooksOK' /\ Evolve
  BY <1>1, <1>2, <1>3, RowWritten DEF BillingInv
<1>5. CallsOK'
  BY <1>4, CallsFollow DEF BillingInv, CallsOK
<1> QED
  BY <1>1, <1>4, <1>5 DEF BillingInv, PaymentsOK

LEMMA TripStep ==
    ASSUME BillingInv, NEW b \in Bookings,
           Confirm(b) \/ Start(b) \/ Arrive(b) \/ RecordEndReading(b)
    PROVE  BillingInv'
<1> DEFINE row == booking[b]
<1>1. booking[b].status # "NONE" /\ booking[b].status # "COMPLETED"
  BY DEF Confirm, Start, Arrive, RecordEndReading, Bound
<1>2. row \in BookingRows
  BY <1>1, RowTyped DEF BillingInv
<1>3. row.final \in Charges(row) \cup {None}
  BY <1>2, RowThere DEF BillingInv, BookingsOK, FinalOK
<1>4. row.advance \in Nat
  BY <1>2 DEF BookingRows
<1>5. ASSUME NEW status \in {Bound, "ONGOING", "ARRIVED"}, Write(b, [row EXCEPT !.status = status]),
             UNCHANGED <<corporateVars, payments, sequence, invoices, ledger, calls, made>>
      PROVE  BillingInv'
  <2> DEFINE new == [row EXCEPT !.status = status]
  <2>1. /\ new \in BookingRows /\ new.quote = row.quote /\ new.estimated = row.estimated
        /\ new.payLater = row.payLater /\ new.advance = row.advance /\ new.company = row.company
        /\ new.final = row.final /\ new.status # "COMPLETED"
    BY <1>2 DEF BookingRows, Statuses, Cancellable, Bound
  <2> HIDE DEF new, row
  <2>2. Keeps(row, new)
    BY <1>4, <2>1 DEF Keeps
  <2>3. Write(b, new)
    BY <1>5 DEF new
  <2> QED
    BY <1>1, <1>2, <1>3, <1>5, <2>1, <2>2, <2>3, OnlyRow DEF row
<1>6. ASSUME Write(b, [row EXCEPT !.reading = TRUE]),
             UNCHANGED <<corporateVars, payments, sequence, invoices, ledger, calls, made>>
      PROVE  BillingInv'
  <2> DEFINE new == [row EXCEPT !.reading = TRUE]
  <2>1. /\ new \in BookingRows /\ new.quote = row.quote /\ new.estimated = row.estimated
        /\ new.payLater = row.payLater /\ new.advance = row.advance /\ new.company = row.company
        /\ new.final = row.final /\ new.status = row.status
    BY <1>2 DEF BookingRows
  <2> HIDE DEF new, row
  <2>2. Keeps(row, new)
    BY <1>4, <2>1 DEF Keeps
  <2>3. Write(b, new)
    BY <1>6 DEF new
  <2> QED
    BY <1>1, <1>2, <1>3, <1>6, <2>1, <2>2, <2>3, OnlyRow DEF row
<1> QED
  BY <1>5, <1>6 DEF Confirm, Start, Arrive, RecordEndReading

LEMMA RowPaid ==
    ASSUME NEW b \in Bookings, NEW purpose, NEW cash, NEW amount \in Nat
    PROVE  PaymentTyped(Row(b, purpose, cash, amount))
BY DEF Row, PaymentTyped

LEMMA CaptureStep ==
    ASSUME BillingInv, NEW b \in Bookings, booking[b] # Absent, NEW amount, Capture(b, amount)
    PROVE  BillingInv'
<1> DEFINE row == booking[b]
           paid == row.advance + amount
           due == Larger(0, Fare(b) - paid)
           new == [row EXCEPT !.advance = paid, !.due = due]
<1>1. row \in BookingRows /\ Fare(b) \in Nat
  BY FareTyped DEF BillingInv, BookingsOK
<1>2. row.advance \in Nat /\ row.due \in Nat
  BY <1>1 DEF BookingRows
<1>3. amount \in Nat
  BY <1>2 DEF Capture
<1>4. paid \in Nat /\ due \in Nat /\ paid >= row.advance
  BY <1>1, <1>2, <1>3 DEF Larger
<1>5. Write(b, new)
  BY DEF Capture
<1>6. row.final \in Charges(row) \cup {None}
  BY DEF BillingInv, BookingsOK, FinalOK
<1>7. PaymentsOK'
  BY <1>3, RowPaid DEF Capture, BillingInv, PaymentsOK
<1> HIDE DEF paid, due
<1>8. /\ new \in BookingRows /\ new.quote = row.quote /\ new.estimated = row.estimated
      /\ new.payLater = row.payLater /\ new.advance = paid /\ new.company = row.company
      /\ new.final = row.final /\ new.status = row.status
  BY <1>1, <1>4 DEF BookingRows
<1> HIDE DEF new, row
<1>9. Keeps(row, new)
  BY <1>4, <1>8 DEF Keeps
<1>10. UNCHANGED <<corporateVars, sequence, invoices, ledger, calls, made>>
  BY DEF Capture
<1> QED
  BY <1>1, <1>5, <1>6, <1>7, <1>8, <1>9, <1>10, OnlyRow DEF row

LEMMA CashStep ==
    ASSUME BillingInv, NEW b \in Bookings, CollectCash(b)
    PROVE  BillingInv'
<1> DEFINE row == booking[b]
           fare == Fare(b)
           new == [row EXCEPT !.advance = fare, !.due = 0]
<1>1. row \in BookingRows /\ fare \in Nat
  BY RowTyped, FareTyped DEF BillingInv, CollectCash
<1>2. row.advance \in Nat
  BY <1>1 DEF BookingRows
<1>3. fare - row.advance \in Nat /\ fare >= row.advance
  BY <1>1, <1>2 DEF CollectCash
<1>4. Write(b, new)
  BY DEF CollectCash
<1>5. row.final \in Charges(row) \cup {None}
  BY <1>1, RowThere DEF BillingInv, BookingsOK, FinalOK
<1>6. PaymentsOK'
  BY <1>3, RowPaid DEF CollectCash, BillingInv, PaymentsOK
<1> HIDE DEF fare
<1>7. /\ new \in BookingRows /\ new.quote = row.quote /\ new.estimated = row.estimated
      /\ new.payLater = row.payLater /\ new.advance = fare /\ new.company = row.company
      /\ new.final = row.final /\ new.status = row.status
  BY <1>1 DEF BookingRows
<1> HIDE DEF new, row
<1>8. Keeps(row, new)
  BY <1>3, <1>7 DEF Keeps
<1>9. UNCHANGED <<corporateVars, sequence, invoices, ledger, calls, made>>
  BY DEF CollectCash
<1> QED
  BY <1>1, <1>4, <1>5, <1>6, <1>7, <1>8, <1>9, OnlyRow DEF row

LEMMA ReconcileStep ==
    ASSUME BillingInv, NEW p \in payments, ReconcileCash(p)
    PROVE  BillingInv'
<1>1. PaymentTyped([p EXCEPT !.reconciled = TRUE])
  BY DEF BillingInv, PaymentsOK, PaymentTyped
<1>2. PaymentsOK'
  BY <1>1 DEF ReconcileCash, BillingInv, PaymentsOK
<1>3. UNCHANGED <<corporateVars, booking, sequence, invoices, ledger, calls, made>>
  BY DEF ReconcileCash
<1>4. CorporateInv' /\ KnownStays
  BY <1>3, CorporateStays DEF BillingInv
<1>5. BookingsOK' /\ Evolve
  BY <1>3, <1>4, BookingsStay DEF BillingInv
<1>6. BooksOK'
  BY <1>3, <1>5, BooksStay DEF BillingInv, BooksOK
<1>7. CallsOK'
  BY <1>3, <1>5, CallsFollow DEF BillingInv, CallsOK
<1> QED
  BY <1>2, <1>4, <1>5, <1>6, <1>7 DEF BillingInv

(* A call goes from one stage to the next, and nothing else moves but the  *)
(* payments and the numbers drawn.                                         *)
LEMMA CallMoves ==
    ASSUME BillingInv, NEW k \in Callers, NEW next \in CallRows, Enter(k, next),
           next # Idle => CallOK(next, booking[next.booking]), made' \in 0..MaxCalls,
           UNCHANGED <<corporateVars, booking, invoices, ledger>>,
           UNCHANGED payments \/ PaymentsOK', UNCHANGED sequence \/ sequence' = sequence + 1
    PROVE  BillingInv'
<1>1. CorporateInv' /\ KnownStays
  BY CorporateStays DEF BillingInv
<1>2. BookingsOK' /\ Evolve
  BY <1>1, BookingsStay DEF BillingInv
<1>3. BooksOK'
  <2>1. sequence' \in Nat /\ sequence' >= sequence
    BY DEF BillingInv, BooksOK
  <2> QED
    BY <1>2, <2>1, BooksStay DEF BillingInv
<1>4. next # Idle => CallOK(next, booking'[next.booking])
  OBVIOUS
<1>5. CallsOK'
  BY <1>2, <1>4, CallsFollow DEF BillingInv
<1> QED
  BY <1>1, <1>2, <1>3, <1>5 DEF BillingInv, PaymentsOK

(* What a call carries at each of its stages. *)
LEMMA CallTyped ==
    ASSUME CallsOK, BookingsOK, NEW k \in Callers, calls[k].at # "idle"
    PROVE  /\ calls[k] \in CallRows /\ calls[k] # Idle /\ calls[k].booking \in Bookings
           /\ booking[calls[k].booking] \in BookingRows
           /\ CallOK(calls[k], booking[calls[k].booking])
           /\ calls[k].at = "assigned" => /\ calls[k].km \in ReportedKm /\ calls[k].goal = "report"
                                          /\ calls[k].named = None
           /\ calls[k].at = "distance" => /\ calls[k].km \in Nat /\ calls[k].goal \in {"report", "complete"}
                                          /\ calls[k].named \in Names
           /\ calls[k].at = "price" => /\ calls[k].goal \in {"report", "complete"}
                                       /\ calls[k].named \in Names /\ calls[k].charge \in Nat
                                       /\ calls[k].fare \in Nat /\ calls[k].due \in Nat
           /\ calls[k].at = "settle" => calls[k].named \in Names
           /\ calls[k].at = "commit" => calls[k].settled \in Nat /\ calls[k].due \in Nat
           /\ calls[k].at = "cancel" => calls[k].terms.due \in Nat /\ calls[k].terms.released \in Int
           /\ calls[k].at = "refund" => calls[k].amount \in Nat
<1> DEFINE call == calls[k]
<1>1. call \in CallRows /\ call # Idle /\ CallOK(call, booking[call.booking])
  BY DEF CallsOK, Idle
<1> HIDE DEF call
<1>2. call.booking \in Bookings
  BY <1>1 DEF CallRows
<1>3. booking[call.booking] \in BookingRows
  BY <1>1, <1>2 DEF CallOK, BookingsOK
<1>4. /\ call.at = "assigned" => call.km \in ReportedKm /\ call.goal = "report" /\ call.named = None
      /\ call.at = "distance" => /\ call.km \in Nat /\ call.goal \in {"report", "complete"}
                                 /\ call.named \in Names
      /\ call.at = "price" => /\ call.goal \in {"report", "complete"} /\ call.named \in Names
                              /\ call.charge \in Nat /\ call.fare \in Nat /\ call.due \in Nat
  BY <1>1 DEF CallRows, Idle
<1>5. /\ call.at = "settle" => call.named \in Names
      /\ call.at = "commit" => call.settled \in Nat /\ call.due \in Nat
      /\ call.at = "cancel" => call.terms.due \in Nat /\ call.terms.released \in Int
      /\ call.at = "refund" => call.amount \in Nat
  BY <1>1 DEF CallRows, Idle
<1> QED
  BY <1>1, <1>2, <1>3, <1>4, <1>5 DEF call

(* A call that begins. *)
LEMMA CallBegins ==
    ASSUME BillingInv, NEW k \in Callers, NEW call \in CallRows, Begin(k, call), Untouched,
           CallOK(call, booking[call.booking])
    PROVE  BillingInv'
<1>1. made' \in 0..MaxCalls
  BY BillingAssumption DEF Begin, BillingInv, CallsOK
<1>2. /\ UNCHANGED <<corporateVars, booking, invoices, ledger, payments, sequence>>
      /\ Enter(k, call)
  BY DEF Begin, Untouched
<1> QED
  BY <1>1, <1>2, CallMoves

LEMMA DrivenTyped == Driven \subseteq Nat /\ ReportedKm \subseteq Driven
<1>1. ReportedKm \subseteq Nat /\ ReturnKm \subseteq Nat
  BY BillingAssumption
<1>2. \A km \in ReportedKm : km = km + 0
  BY <1>1
<1>3. ReportedKm \subseteq Driven
  BY <1>2 DEF Driven
<1>4. Driven \subseteq Nat
  BY <1>1 DEF Driven
<1> QED
  BY <1>3, <1>4

LEMMA ReportStep ==
    ASSUME BillingInv, NEW b \in Bookings, NEW k \in Callers, NEW km \in ReportedKm,
           ReportDistance(k, b, km)
    PROVE  BillingInv'
<1> DEFINE call == [at |-> "assigned", booking |-> b, km |-> km, goal |-> "report", named |-> None]
<1>1. call \in CallRows /\ call.at = "assigned" /\ call.booking = b
  BY DEF CallRows
<1>2. booking[b] # Absent
  BY RowTyped DEF ReportDistance, HasDriver, Bound, BillingInv
<1>3. Begin(k, call) /\ Untouched
  BY DEF ReportDistance
<1> HIDE DEF call
<1>4. CallOK(call, booking[call.booking])
  BY <1>1, <1>2 DEF CallOK
<1> QED
  BY <1>1, <1>3, <1>4, CallBegins

LEMMA CompleteStep ==
    ASSUME BillingInv, NEW b \in Bookings, NEW k \in Callers, NEW asDriver \in BOOLEAN,
           NEW km \in ReportedKm \cup {None}, NEW back \in ReturnKm, NEW named \in NamedFares \cup {None},
           CompleteTrip(k, b, asDriver, km, back, named)
    PROVE  BillingInv'
<1>0. booking[b] # Absent /\ Untouched
  BY DEF CompleteTrip
<1>1. CASE km = None
  <2> DEFINE call == [at |-> "settle", booking |-> b, named |-> named]
  <2>1. call \in CallRows /\ call.at = "settle" /\ call.booking = b
    BY DEF CallRows, Names
  <2>2. Begin(k, call)
    BY <1>1 DEF CompleteTrip
  <2> HIDE DEF call
  <2>3. CallOK(call, booking[call.booking])
    BY <1>0, <2>1 DEF CallOK
  <2> QED
    BY <1>0, <2>1, <2>2, <2>3, CallBegins
<1>2. CASE km # None
  <2> DEFINE driven == BillableKm(b, km, back, asDriver)
             call == [at |-> "distance", booking |-> b, km |-> driven, goal |-> "complete", named |-> named]
  <2>1. driven \in Driven
    <3>1. km \in ReportedKm /\ km + back \in Driven /\ km \in Driven
      BY <1>2, DrivenTyped DEF Driven
    <3> QED
      BY <3>1 DEF BillableKm
  <2>2. Begin(k, call)
    BY <1>2 DEF CompleteTrip
  <2> HIDE DEF driven
  <2>3. call \in CallRows /\ call.at = "distance" /\ call.booking = b /\ call.km = driven
    BY <2>1, DrivenTyped DEF CallRows, Names
  <2> HIDE DEF call
  <2>4. CallOK(call, booking[call.booking])
    BY <1>0, <2>1, <2>3 DEF CallOK
  <2> QED
    BY <1>0, <2>2, <2>3, <2>4, CallBegins
<1> QED
  BY <1>1, <1>2

LEMMA TermsTyped ==
    ASSUME NEW b \in Bookings, booking[b] \in BookingRows, NEW notice, NEW card \in CardsThen \cup {None}
    PROVE  CancellationTerms(b, notice, card) \in [refund : Int, due : Nat, released : Int]
<1> DEFINE row == booking[b]
           fee == IF row.status = "PENDING" THEN 0
                  ELSE ComputeCancellationFee(notice, FlatFee(card), FreeMinutes, FreeMinutes).fee
           retained == Smaller(row.advance, fee)
<1>1. row.advance \in Nat /\ row.estimated \in Nat /\ row.offer \in Offers
  BY DEF BookingRows
<1>2. FlatFee(card) \in Nat
  BY BillingAssumption DEF IsRateCard, FlatFee
<1>3. fee \in Nat
  BY <1>2 DEF ComputeCancellationFee
<1> HIDE DEF fee
<1>4. fee - retained \in Nat /\ retained \in Int
  BY <1>1, <1>3 DEF Smaller
<1>5. CancellationTerms(b, notice, card)
        = [refund |-> row.advance - retained, due |-> fee - retained, released |-> row.estimated - fee]
  BY DEF CancellationTerms, fee
<1> QED
  BY <1>1, <1>3, <1>4, <1>5

LEMMA QuoteStep ==
    ASSUME BillingInv, NEW b \in Bookings, NEW k \in Callers, NEW notice,
           NEW card \in CardsThen \cup {None}, QuoteCancellation(k, b, notice, card)
    PROVE  BillingInv'
<1> DEFINE terms == CancellationTerms(b, notice, card)
           call == [at |-> "cancel", booking |-> b, terms |-> terms]
<1>1. booking[b] # Absent /\ booking[b] \in BookingRows
  BY RowTyped DEF QuoteCancellation, LoadCancellable, Cancellable, Bound, BillingInv
<1>2. terms \in [refund : Int, due : Nat, released : Int]
  BY <1>1, TermsTyped
<1>3. Begin(k, call) /\ Untouched
  BY DEF QuoteCancellation
<1> HIDE DEF terms
<1>4. call \in CallRows /\ call.at = "cancel" /\ call.booking = b
  BY <1>2 DEF CallRows
<1> HIDE DEF call
<1>5. CallOK(call, booking[call.booking])
  BY <1>1, <1>4 DEF CallOK
<1> QED
  BY <1>3, <1>4, <1>5, CallBegins

LEMMA AskStep ==
    ASSUME BillingInv, NEW b \in Bookings, NEW k \in Callers, NEW amount \in Instalments,
           AskRefund(k, b, amount)
    PROVE  BillingInv'
<1> DEFINE call == [at |-> "refund", booking |-> b, amount |-> amount]
<1>1. amount \in Nat
  BY BillingAssumption
<1>2. call \in CallRows /\ call.at = "refund" /\ call.booking = b
  BY <1>1 DEF CallRows
<1>3. booking[b] # Absent /\ Begin(k, call) /\ Untouched
  BY DEF AskRefund
<1> HIDE DEF call
<1>4. CallOK(call, booking[call.booking])
  BY <1>2, <1>3 DEF CallOK
<1> QED
  BY <1>2, <1>3, <1>4, CallBegins

(* A call that ends without a trace, or but for a payment or a number. *)
LEMMA Leaves ==
    ASSUME BillingInv, NEW k \in Callers, Leave(k), UNCHANGED made,
           UNCHANGED <<corporateVars, booking, invoices, ledger>>,
           UNCHANGED payments \/ PaymentsOK', UNCHANGED sequence \/ sequence' = sequence + 1
    PROVE  BillingInv'
<1>1. Idle \in CallRows /\ Enter(k, Idle) /\ made' \in 0..MaxCalls
  BY DEF CallRows, Leave, BillingInv, CallsOK
<1> QED
  BY <1>1, CallMoves

LEMMA CheckStep ==
    ASSUME BillingInv, NEW k \in Callers, CheckUnderway(k)
    PROVE  BillingInv'
<1> DEFINE call == calls[k]
           next == [call EXCEPT !.at = "distance"]
<1>1. /\ call \in CallRows /\ call.at = "assigned" /\ call.booking \in Bookings
      /\ call.km \in ReportedKm /\ CallOK(call, booking[call.booking])
  BY CallTyped DEF CheckUnderway, BillingInv
<1>2. UNCHANGED <<corporateVars, booking, payments, sequence, invoices, ledger, made>>
  BY DEF CheckUnderway, Untouched
<1>3. CASE Leave(k)
  BY <1>2, <1>3, Leaves
<1>4. CASE Enter(k, next)
  <2>1. call \in [at : {"assigned"}, booking : Bookings, km : ReportedKm, goal : {"report"}, named : {None}]
    BY <1>1 DEF CallRows, Idle
  <2>2. next = [at |-> "distance", booking |-> call.booking, km |-> call.km, goal |-> "report", named |-> None]
    BY <2>1
  <2>3. call.km \in Driven /\ call.km \in Nat
    BY <1>1, DrivenTyped
  <2> HIDE DEF call
  <2>4. next \in CallRows /\ next.at = "distance" /\ next.booking = call.booking /\ next.km = call.km
    BY <1>1, <2>2, <2>3 DEF CallRows, Names
  <2> HIDE DEF next
  <2>5. CallOK(next, booking[next.booking])
    BY <1>1, <2>3, <2>4 DEF CallOK
  <2>6. made' \in 0..MaxCalls
    BY <1>2 DEF BillingInv, CallsOK
  <2> QED
    BY <1>2, <1>4, <2>4, <2>5, <2>6, CallMoves
<1> QED
  BY <1>3, <1>4 DEF CheckUnderway

LEMMA ReadStep ==
    ASSUME BillingInv, NEW k \in Callers, ReadDistance(k)
    PROVE  BillingInv'
<1> DEFINE call == calls[k]
           b == call.booking
           row == booking[b]
           charge == ComputeExtraDistanceCharge(row.quote, call.km)
           fare == RepricedFare(b, charge)
           due == Larger(0, fare - row.advance)
           next == [at |-> "price", booking |-> b, goal |-> call.goal, named |-> call.named,
                    charge |-> charge, fare |-> fare, due |-> due]
<1>1. /\ call \in CallRows /\ call.at = "distance" /\ b \in Bookings /\ call.km \in Nat
      /\ call.goal \in {"report", "complete"} /\ call.named \in Names
      /\ CallOK(call, row) /\ row \in BookingRows
  BY CallTyped DEF ReadDistance, BillingInv
<1>2. UNCHANGED <<corporateVars, booking, payments, sequence, invoices, ledger, made>> /\ Enter(k, next)
  BY DEF ReadDistance, Untouched
<1>3. call.km \in Driven
  BY <1>1 DEF CallOK
<1>4. row.quote \in Quotes /\ row.estimated \in Nat /\ row.advance \in Nat
  BY <1>1 DEF BookingRows
<1>5. charge \in Nat
  BY <1>1, <1>4, ChargeTyped
<1>6. fare = row.estimated + charge /\ fare \in Charges(row)
  BY <1>3 DEF RepricedFare, Charges
<1> HIDE DEF charge
<1>7. fare \in Nat
  BY <1>4, <1>5, <1>6
<1> HIDE DEF fare
<1>8. due \in Nat
  BY <1>4, <1>7 DEF Larger
<1> HIDE DEF due
<1>9. next \in CallRows /\ next.at = "price" /\ next.booking = b /\ next.fare = fare
  BY <1>1, <1>5, <1>7, <1>8 DEF CallRows
<1>10. row # Absent
  BY <1>1, RowThere
<1>11. made' \in 0..MaxCalls
  BY <1>2 DEF BillingInv, CallsOK
<1> HIDE DEF next
<1>12. CallOK(next, booking[next.booking])
  BY <1>6, <1>9, <1>10 DEF CallOK
<1> QED
  BY <1>2, <1>9, <1>11, <1>12, CallMoves

LEMMA RecordStep ==
    ASSUME BillingInv, NEW k \in Callers, RecordTripDistance(k)
    PROVE  BillingInv'
<1> DEFINE call == calls[k]
           b == call.booking
           row == booking[b]
           new == [row EXCEPT !.final = call.fare, !.due = call.due, !.extra = call.charge]
           settle == [at |-> "settle", booking |-> b, named |-> call.named]
<1>1. /\ call \in CallRows /\ call.at = "price" /\ b \in Bookings /\ call.named \in Names
      /\ call.charge \in Nat /\ call.fare \in Nat /\ call.due \in Nat
      /\ CallOK(call, row) /\ row \in BookingRows
  BY CallTyped DEF RecordTripDistance, BillingInv
<1>2. UNCHANGED <<corporateVars, payments, sequence, invoices, ledger, made>> /\ Write(b, new)
  BY DEF RecordTripDistance
<1>3. call.fare \in Charges(row)
  BY <1>1 DEF CallOK
<1>4. row.advance \in Nat
  BY <1>1 DEF BookingRows
<1>5. /\ new \in BookingRows /\ new.quote = row.quote /\ new.estimated = row.estimated
      /\ new.payLater = row.payLater /\ new.advance = row.advance /\ new.company = row.company
      /\ new.final = call.fare /\ new.status = row.status
  BY <1>1 DEF BookingRows
<1>6. \E next \in CallRows : Enter(k, next) /\ (next # Idle => next.at = "settle" /\ next.booking = b)
  <2>1. settle \in CallRows /\ settle.at = "settle" /\ settle.booking = b
    BY <1>1 DEF CallRows
  <2>2. Idle \in CallRows
    BY DEF CallRows
  <2>3. Leave(k) \/ Enter(k, settle)
    BY DEF RecordTripDistance
  <2> QED
    BY <2>1, <2>2, <2>3 DEF Leave
<1> HIDE DEF new
<1>7. FinalOK(new)
  BY <1>3, <1>5, SamePrice
<1>8. Keeps(row, new)
  BY <1>4, <1>5 DEF Keeps
<1>9. row # Absent /\ (row.company # None => Known(row.company))
  BY <1>1, RowThere DEF BillingInv, BookingsOK
<1>10. CorporateInv' /\ KnownStays
  BY <1>2, CorporateStays DEF BillingInv
<1>11. BookingsOK' /\ BooksOK' /\ Evolve
  BY <1>1, <1>2, <1>5, <1>7, <1>8, <1>9, <1>10, RowWritten DEF BillingInv
<1>12. booking'[b] = new /\ new # Absent
  BY <1>1, <1>2, <1>5, RowThere DEF Write, BillingInv, BookingsOK
<1>13. CallsOK'
  <2>1. PICK next \in CallRows : Enter(k, next) /\ (next # Idle => next.at = "settle" /\ next.booking = b)
    BY <1>6
  <2>2. next # Idle => CallOK(next, booking'[next.booking])
    BY <1>12, <2>1 DEF CallOK
  <2>3. made' \in 0..MaxCalls
    BY <1>2 DEF BillingInv, CallsOK
  <2> QED
    BY <1>11, <2>1, <2>2, <2>3, CallsFollow DEF BillingInv
<1> QED
  BY <1>2, <1>10, <1>11, <1>13 DEF BillingInv, PaymentsOK

LEMMA SettleStep ==
    ASSUME BillingInv, NEW k \in Callers, Settle(k)
    PROVE  BillingInv'
<1> DEFINE call == calls[k]
           b == call.booking
           row == booking[b]
           settled == Settled(b, call.named)
           due == Larger(0, settled - row.advance)
           next == [at |-> "commit", booking |-> b, settled |-> settled, due |-> due]
<1>1. /\ call \in CallRows /\ call.at = "settle" /\ b \in Bookings /\ call.named \in Names
      /\ CallOK(call, row) /\ row \in BookingRows
  BY CallTyped DEF Settle, BillingInv
<1>2. UNCHANGED <<corporateVars, booking, payments, sequence, invoices, ledger, made>>
  BY DEF Settle, Untouched
<1>3. CASE Leave(k)
  BY <1>2, <1>3, Leaves
<1>4. CASE MayComplete(b, settled) /\ Enter(k, next)
  <2>1. row.advance \in Nat /\ row # Absent
    BY <1>1, RowThere DEF BookingRows
  <2>2. settled \in Charges(row)
    <3>1. FinalOK(row)
      BY <1>1, <2>1 DEF BillingInv, BookingsOK
    <3> QED
      BY <1>1, <3>1 DEF Settled, Names, Charges, Fare, FinalOK
  <2>3. settled \in Nat
    BY <1>1, FareTyped, BillingAssumption DEF Settled, Names
  <2> HIDE DEF settled
  <2>4. due \in Nat
    BY <2>1, <2>3 DEF Larger
  <2> HIDE DEF due
  <2>5. next \in CallRows /\ next.at = "commit" /\ next.booking = b /\ next.settled = settled
    BY <1>1, <2>3, <2>4 DEF CallRows
  <2> HIDE DEF next
  <2>6. CallOK(next, booking[next.booking])
    BY <1>4, <2>1, <2>2, <2>5 DEF CallOK, MayComplete
  <2>7. made' \in 0..MaxCalls
    BY <1>2 DEF BillingInv, CallsOK
  <2> QED
    BY <1>2, <1>4, <2>5, <2>6, <2>7, CallMoves
<1> QED
  BY <1>3, <1>4 DEF Settle

LEMMA TaxedTyped ==
    ASSUME NEW row, NEW fare \in Nat PROVE Taxed(row, fare).taxable \in Int
<1> DEFINE config == Registration(row.offer)
           corporate == people[row.person].type = "CORPORATE" /\ row.company # None
           rate == ResolveRate(config, row.offer.trip.type, corporate)
           gstin == RecipientGstin(row.gstin, row.person, row.company)
           split == ResolveSplitKind(config, row.offer.dropState,
                                     IF gstin = None THEN "none" ELSE GstinState[gstin])
<1>1. config = NoRegistration \/ config \in Registrations
  BY DEF Registration, ResolveConfig
<1>2. config.rate \in 0..100
  BY <1>1, BillingAssumption DEF NoRegistration
<1> HIDE DEF config
<1>3. rate \in 0..100
  BY <1>2 DEF ResolveRate
<1>4. Taxed(row, fare) = ApplyGst(fare, rate, config.inclusive, split)
  BY DEF Taxed, config
<1> HIDE DEF rate, split
<1>5. Divide(fare * 100, 100 + rate) \in Int
  <2>1. fare * 100 \in Int /\ 100 + rate \in Nat \ {0}
    BY <1>3
  <2> QED
    BY <2>1, DivideTyped
<1>6. ApplyGst(fare, rate, config.inclusive, split).taxable
        = IF config.inclusive THEN Divide(fare * 100, 100 + rate) ELSE fare
  BY DEF ApplyGst
<1> QED
  BY <1>4, <1>5, <1>6

LEMMA LinesTyped ==
    ASSUME NEW row, row.quote \in Quotes, row.extra \in Nat, NEW taxable \in Int, NEW fare \in Nat
    PROVE  \A line \in DOMAIN InvoiceLines(row, taxable, fare) :
              InvoiceLines(row, taxable, fare)[line] \in Int
<1> DEFINE Scaled(amount) == IF fare > 0 THEN Divide(amount * taxable, fare) ELSE amount
           night == Scaled(row.quote.night)
           bata == Scaled(row.quote.bata)
           extra == Scaled(row.extra)
<1>1. ASSUME NEW amount \in Nat PROVE Scaled(amount) \in Int
  <2>1. amount * taxable \in Int
    OBVIOUS
  <2> QED
    BY <2>1, DivideTyped
<1> HIDE DEF Scaled
<1>2. night \in Int /\ bata \in Int /\ extra \in Int
  BY <1>1, QuoteTyped
<1>3. InvoiceLines(row, taxable, fare)
        = [base |-> taxable - night - bata - extra, night |-> night, bata |-> bata, extra |-> extra]
  BY DEF InvoiceLines, Scaled
<1> HIDE DEF night, bata, extra
<1>4. taxable - night - bata - extra \in Int
  BY <1>2
<1> QED
  BY <1>2, <1>3, <1>4

LEMMA InvoiceTyped ==
    ASSUME BooksOK, NEW b \in Bookings, NEW row \in BookingRows, NEW fare \in Nat
    PROVE  /\ IsInvoiceRow(Invoice(b, row, fare)) /\ Invoice(b, row, fare).number = sequence + 1
           /\ Invoice(b, row, fare).booking = b /\ Invoice(b, row, fare).fare = fare
<1> DEFINE tax == Taxed(row, fare)
           lines == InvoiceLines(row, tax.taxable, fare)
           i == [number |-> sequence + 1, booking |-> b, company |-> row.company, fare |-> fare,
                 tax |-> tax, lines |-> lines]
<1>1. row.quote \in Quotes /\ row.extra \in Nat /\ row.company \in CompanyIds \cup {None}
  BY DEF BookingRows
<1>2. tax.taxable \in Int
  BY TaxedTyped
<1> HIDE DEF tax
<1>3. \A line \in DOMAIN lines : lines[line] \in Int
  BY <1>1, <1>2, LinesTyped
<1> HIDE DEF lines
<1>4. /\ i.number = sequence + 1 /\ i.booking = b /\ i.company = row.company /\ i.fare = fare
      /\ i.lines = lines
  OBVIOUS
<1>5. sequence + 1 \in Nat \ {0}
  BY DEF BooksOK
<1> HIDE DEF i
<1>6. IsInvoiceRow(i)
  BY <1>1, <1>3, <1>4, <1>5 DEF IsInvoiceRow
<1>7. Invoice(b, row, fare) = i
  BY DEF Invoice, i, lines, tax
<1> QED
  BY <1>4, <1>6, <1>7

(* The invoice and the entries of a booking that is completed now. *)
LEMMA Finalised ==
    ASSUME BillingInv, NEW b \in Bookings, NEW row \in BookingRows, Write(b, row),
           booking[b].status = "ARRIVED", row.status = "COMPLETED", row.final \in Nat,
           row.payLater \/ row.final <= row.advance, FinaliseBooking(b, row)
    PROVE  BooksOK'
<1> DEFINE i == Invoice(b, row, row.final)
           entries == LedgerSet(row.final, row.welfare)
<1>1. ~Invoiced(b)
  BY DEF BillingInv, BooksOK, BookedRightly
<1>2. /\ sequence' = sequence + 1 /\ invoices' = invoices \cup {i}
      /\ ledger' = [ledger EXCEPT ![b] = entries]
  BY <1>1 DEF FinaliseBooking
<1>3. IsInvoiceRow(i) /\ i.number = sequence + 1 /\ i.booking = b /\ i.fare = row.final
  BY InvoiceTyped DEF BillingInv
<1>4. /\ entries \in LedgerRow /\ entries.charged = row.final
      /\ entries.charged = entries.driver + entries.commission + entries.welfare
  <2>1. row.welfare \in 0..10
    BY BillingAssumption DEF BookingRows
  <2> QED
    BY <2>1, SharesFit
<1> HIDE DEF i, entries
<1>5. /\ \A j \in invoices : IsInvoiceRow(j) /\ j.number \in 1..sequence
      /\ sequence \in Nat
  BY DEF BillingInv, BooksOK
<1>6. \A j \in invoices' : IsInvoiceRow(j) /\ j.number \in 1..sequence'
  BY <1>2, <1>3, <1>5
<1>7. \A j, l \in invoices' : j # l => j.number # l.number
  BY <1>2, <1>3, <1>5 DEF BillingInv, BooksOK
<1>8. ledger' \in [Bookings -> LedgerRow \cup {None}] /\ ledger'[b] = entries
  BY <1>2, <1>4 DEF BillingInv, BooksOK
<1>9. booking'[b] = row
  BY DEF Write, BillingInv, BookingsOK
<1>10. BookedRightly(b)'
  <2>1. ledger'[b] # None
    BY <1>4, <1>8, BillingAssumption
  <2>2. i \in invoices' /\ \A j \in invoices' : j.booking = b <=> j = i
    BY <1>1, <1>2, <1>3 DEF Invoiced
  <2>3. DeriveBookingBalance(b)'
    BY <1>4, <1>8 DEF DeriveBookingBalance
  <2>4. ledger'[b].charged = i.fare
    BY <1>3, <1>4, <1>8
  <2> QED
    BY <1>3, <1>9, <2>1, <2>2, <2>3, <2>4 DEF BookedRightly
<1>11. ASSUME NEW a \in Bookings, a # b PROVE BookedRightly(a)'
  <2>1. booking'[a] = booking[a] /\ ledger'[a] = ledger[a]
    BY <1>2, <1>11 DEF Write, BillingInv, BookingsOK, BooksOK
  <2>2. \A j \in invoices' : j.booking = a => j \in invoices
    BY <1>2, <1>3, <1>11
  <2>3. BookedRightly(a)
    BY DEF BillingInv, BooksOK
  <2>4. CASE booking[a].status = "COMPLETED"
    <3>1. PICK j \in invoices : /\ \A l \in invoices : l.booking = a <=> l = j
                                /\ ledger[a].charged = j.fare
                                /\ booking[a].payLater \/ j.fare <= booking[a].advance
      BY <2>3, <2>4 DEF BookedRightly
    <3>2. j \in invoices' /\ \A l \in invoices' : l.booking = a <=> l = j
      BY <1>2, <1>3, <1>11, <2>2, <3>1
    <3> QED
      BY <2>1, <2>3, <2>4, <3>1, <3>2 DEF BookedRightly, DeriveBookingBalance
  <2>5. CASE booking[a].status # "COMPLETED"
    BY <2>1, <2>2, <2>3, <2>5 DEF BookedRightly, Invoiced
  <2> QED
    BY <2>4, <2>5
<1> QED
  BY <1>2, <1>5, <1>6, <1>7, <1>8, <1>10, <1>11 DEF BooksOK

LEMMA CommitStep ==
    ASSUME BillingInv, NEW k \in Callers, Commit(k)
    PROVE  BillingInv'
<1> DEFINE call == calls[k]
           b == call.booking
           old == booking[b]
           row == [old EXCEPT !.status = "COMPLETED", !.final = call.settled, !.due = call.due]
<1>1. /\ call \in CallRows /\ call.at = "commit" /\ b \in Bookings
      /\ call.settled \in Nat /\ call.due \in Nat
      /\ CallOK(call, old) /\ old \in BookingRows
  BY CallTyped DEF Commit, BillingInv
<1>2. UNCHANGED <<corporateVars, payments, made>> /\ Leave(k)
  BY DEF Commit
<1>3. CASE ~Completable(old.status)
  <2>1. UNCHANGED <<booking, sequence, invoices, ledger>>
    BY <1>3 DEF Commit
  <2> QED
    BY <1>2, <2>1, Leaves
<1>4. CASE Completable(old.status)
  <2>1. Write(b, row) /\ FinaliseBooking(b, row)
    BY <1>4 DEF Commit
  <2>2. /\ row \in BookingRows /\ row.quote = old.quote /\ row.estimated = old.estimated
        /\ row.payLater = old.payLater /\ row.advance = old.advance /\ row.company = old.company
        /\ row.final = call.settled /\ row.status = "COMPLETED"
    BY <1>1 DEF BookingRows, Statuses
  <2>3. call.settled \in Charges(old) /\ (old.payLater \/ call.settled <= old.advance)
    BY <1>1 DEF CallOK
  <2>4. old.advance \in Nat
    BY <1>1 DEF BookingRows
  <2>5. old # Absent /\ (old.company # None => Known(old.company)) /\ old.status = "ARRIVED"
    BY <1>1, <1>4, RowThere DEF BillingInv, BookingsOK, Completable
  <2> HIDE DEF row
  <2>6. FinalOK(row) /\ Keeps(old, row)
    BY <2>2, <2>3, <2>4, SamePrice DEF Keeps
  <2>7. BooksOK'
    BY <1>1, <2>1, <2>2, <2>3, <2>5, Finalised
  <2>8. CorporateInv' /\ KnownStays
    BY <1>2, CorporateStays DEF BillingInv
  <2>9. /\ booking' \in [Bookings -> BookingRows \cup {Absent}]
        /\ \A a \in Bookings : booking'[a] = IF a = b THEN row ELSE booking[a]
    BY <1>1, <2>1, <2>2 DEF Write, BillingInv, BookingsOK
  <2>10. Evolve
    <3>1. ASSUME NEW r \in BookingRows PROVE Keeps(r, r)
      <4>1. r.advance \in Nat
        BY DEF BookingRows
      <4> QED
        BY <4>1 DEF Keeps
    <3> QED
      BY <2>6, <2>9, <3>1 DEF Evolve, BillingInv, BookingsOK
  <2>11. BookingsOK'
    <3>1. UNCHANGED companies
      BY <1>2 DEF corporateVars
    <3>2. ASSUME NEW a \in Bookings, booking'[a] # Absent
          PROVE  /\ FinalOK(booking'[a])
                 /\ booking'[a].company # None => companies'[booking'[a].company] # None
      BY <2>2, <2>5, <2>6, <2>9, <3>1, <3>2 DEF BillingInv, BookingsOK, Known
    <3> QED
      BY <2>9, <3>2 DEF BookingsOK, Known
  <2>12. CallsOK'
    <3>1. Idle \in CallRows /\ Enter(k, Idle) /\ made' \in 0..MaxCalls
      BY <1>2 DEF CallRows, Leave, BillingInv, CallsOK
    <3> QED
      BY <2>10, <3>1, CallsFollow DEF BillingInv
  <2> QED
    BY <1>2, <2>7, <2>8, <2>11, <2>12 DEF BillingInv, PaymentsOK
<1> QED
  BY <1>3, <1>4

LEMMA RollBackStep ==
    ASSUME BillingInv, NEW k \in Callers, RollBack(k) PROVE BillingInv'
BY Leaves DEF RollBack

LEMMA CancelStep ==
    ASSUME BillingInv, NEW k \in Callers, Cancel(k)
    PROVE  BillingInv'
<1> DEFINE call == calls[k]
           b == call.booking
           row == booking[b]
           c == row.company
           released == call.terms.released
           new == [row EXCEPT !.status = "CANCELLED", !.due = call.terms.due]
<1>1. /\ call \in CallRows /\ call.at = "cancel" /\ b \in Bookings
      /\ call.terms.due \in Nat /\ released \in Int /\ row \in BookingRows
  BY CallTyped DEF Cancel, BillingInv
<1>2. UNCHANGED <<people, forms, filed, payments, sequence, invoices, ledger, made>> /\ Leave(k)
  BY DEF Cancel
<1>3. CASE row.status \notin Cancellable
  <2>1. UNCHANGED <<booking, companies>>
    BY <1>3 DEF Cancel
  <2> QED
    BY <1>2, <2>1, Leaves DEF corporateVars
<1>4. CASE row.status \in Cancellable
  <2>1. /\ Write(b, new)
        /\ companies' = IF c # None /\ released > 0 THEN AdjustCreditUsed(c, -released) ELSE companies
    BY <1>4 DEF Cancel
  <2>2. /\ new \in BookingRows /\ new.quote = row.quote /\ new.estimated = row.estimated
        /\ new.payLater = row.payLater /\ new.advance = row.advance /\ new.company = row.company
        /\ new.final = row.final /\ new.status = "CANCELLED"
    BY <1>1 DEF BookingRows, Statuses
  <2>3. row.status # "COMPLETED"
    BY <1>4 DEF Cancellable, Bound
  <2>4. row.advance \in Nat /\ c \in CompanyIds \cup {None}
    BY <1>1 DEF BookingRows
  <2>5. (c # None => Known(c)) /\ FinalOK(row)
    BY <1>1, RowThere DEF BillingInv, BookingsOK
  <2> HIDE DEF new
  <2>6. Keeps(row, new) /\ FinalOK(new)
    BY <2>2, <2>4, <2>5, SamePrice DEF Keeps, FinalOK
  <2>7. KnownStays /\ companies' \in [CompanyIds -> CompanyRow \cup {None}]
    <3>1. CASE c # None /\ released > 0
      <4> DEFINE used == IF companies[c].used + (-released) > 0
                         THEN companies[c].used + (-released) ELSE 0
                 company == [companies[c] EXCEPT !.used = used]
      <4>1. c \in CompanyIds /\ companies[c] \in CompanyRow
        BY <2>4, <2>5, <3>1 DEF BillingInv, CorporateInv, Known
      <4>2. companies[c].used \in Nat
        BY <4>1 DEF CompanyRow
      <4>3. used \in Nat
        BY <1>1, <4>2
      <4>4. companies' = [companies EXCEPT ![c] = company]
        BY <2>1, <3>1 DEF AdjustCreditUsed
      <4> HIDE DEF used
      <4>5. company \in CompanyRow
        BY <4>1, <4>3 DEF CompanyRow
      <4> HIDE DEF company, c
      <4> QED
        BY <4>1, <4>4, <4>5, CorporateAssumption DEF KnownStays, Known, BillingInv, CorporateInv
    <3>2. CASE ~(c # None /\ released > 0)
      BY <2>1, <3>2 DEF KnownStays, Known, BillingInv, CorporateInv
    <3> QED
      BY <3>1, <3>2
  <2>8. CorporateInv'
    <3>1. people' \in [People -> CustomerRow] /\ Employed'
      BY <1>2, <2>7, StillEmployed DEF BillingInv, CorporateInv, Employed, Known
    <3> QED
      BY <1>2, <2>7, <3>1, FormsStay DEF BillingInv
  <2>9. BookingsOK' /\ BooksOK' /\ Evolve
    BY <1>1, <1>2, <2>1, <2>2, <2>3, <2>5, <2>6, <2>7, RowWritten DEF BillingInv
  <2>10. CallsOK'
    <3>1. Idle \in CallRows /\ Enter(k, Idle) /\ made' \in 0..MaxCalls
      BY <1>2 DEF CallRows, Leave, BillingInv, CallsOK
    <3> QED
      BY <2>9, <3>1, CallsFollow DEF BillingInv
  <2> QED
    BY <1>2, <2>8, <2>9, <2>10 DEF BillingInv, PaymentsOK
<1> QED
  BY <1>3, <1>4

LEMMA RefundStep ==
    ASSUME BillingInv, NEW k \in Callers, CreateRefund(k)
    PROVE  BillingInv'
<1>1. calls[k].booking \in Bookings /\ calls[k].amount \in Nat
  BY CallTyped DEF CreateRefund, BillingInv
<1>2. PaymentsOK'
  BY <1>1, RowPaid DEF CreateRefund, BillingInv, PaymentsOK
<1> QED
  BY <1>2, Leaves DEF CreateRefund

LEMMA CrashStep ==
    ASSUME BillingInv, NEW k \in Callers, Crash(k) PROVE BillingInv'
BY Leaves DEF Crash, Untouched

LEMMA OfficeStep ==
    ASSUME BillingInv, CorporateNext, UNCHANGED billingVars PROVE BillingInv'
<1>1. CorporateInv' /\ KnownStays
  BY CorporateStep DEF BillingInv
<1>2. BookingsOK' /\ Evolve
  BY <1>1, BookingsStay DEF BillingInv, billingVars
<1>3. BooksOK'
  BY <1>2, BooksStay DEF BillingInv, BooksOK, billingVars
<1>4. CallsOK'
  BY <1>2, CallsFollow DEF BillingInv, CallsOK, billingVars
<1> QED
  BY <1>1, <1>2, <1>3, <1>4 DEF BillingInv, PaymentsOK, billingVars

LEMMA BillingStarts == Init => BillingInv
<1> SUFFICES ASSUME Init PROVE BillingInv
  OBVIOUS
<1>1. CorporateInv
  <2>1. PICK o \in Opening : companies = o.companies /\ people = o.people
    BY DEF Init, CorporateInit
  <2>2. Sound(o)
    BY CorporateAssumption
  <2>3. forms = [k \in Clerks |-> Idle] /\ filed \in 0..MaxForms
    BY CorporateAssumption DEF Init, CorporateInit
  <2> QED
    BY <2>1, <2>2, <2>3 DEF CorporateInv, Sound, Employed, Known, Idle
<1>2. BookingsOK /\ PaymentsOK /\ BooksOK
  BY DEF Init, BookingsOK, PaymentsOK, BooksOK, BookedRightly, Invoiced, Absent
<1>3. CallsOK
  BY BillingAssumption DEF Init, CallsOK, CallRows
<1> QED
  BY <1>1, <1>2, <1>3 DEF BillingInv

LEMMA BillingStep == BillingInv /\ [Next]_vars => BillingInv'
<1> SUFFICES ASSUME BillingInv, [Next]_vars PROVE BillingInv'
  OBVIOUS
<1>1. ASSUME NEW b \in Bookings, Handlers(b) PROVE BillingInv'
  BY <1>1, BookStep, TripStep, CashStep, CaptureStep, ReportStep, CompleteStep, QuoteStep, AskStep
     DEF Handlers
<1>2. ASSUME NEW k \in Callers, Progress(k) PROVE BillingInv'
  BY <1>2, CheckStep, ReadStep, RecordStep, SettleStep, CommitStep, RollBackStep, CancelStep,
     RefundStep, CrashStep DEF Progress
<1>3. CASE UNCHANGED vars
  <2>1. UNCHANGED corporateVars /\ UNCHANGED billingVars
    BY <1>3 DEF vars, corporateVars, billingVars
  <2>2. CorporateInv' /\ KnownStays
    BY <2>1, CorporateStays DEF BillingInv
  <2>3. BookingsOK' /\ Evolve
    BY <2>1, <2>2, BookingsStay DEF BillingInv, billingVars
  <2>4. BooksOK'
    BY <2>1, <2>3, BooksStay DEF BillingInv, BooksOK, billingVars
  <2>5. CallsOK'
    BY <2>1, <2>3, CallsFollow DEF BillingInv, CallsOK, billingVars
  <2> QED
    BY <2>1, <2>2, <2>3, <2>4, <2>5 DEF BillingInv, PaymentsOK, billingVars
<1> QED
  BY <1>1, <1>2, <1>3, ReconcileStep, OfficeStep DEF Next, Steps

THEOREM BillingInvariant == Spec => []BillingInv
  BY BillingStarts, BillingStep, PTL DEF Spec

(* A completed booking has one invoice and a ledger that comes to what was *)
(* charged, and no other booking has either, whatever crosses, is rolled   *)
(* back or is called again (billing.finaliseBooking).                      *)
THEOREM BooksStayBalanced == Spec => []BooksBalance
<1>1. BillingInv => BooksBalance
  <2> SUFFICES ASSUME BillingInv PROVE BooksBalance
    OBVIOUS
  <2>1. TypeOK
    <3>1. CorporateTypeOK
      <4>1. \A k \in Clerks : forms[k] # Idle => forms[k].form \in Applications
        BY DEF BillingInv, CorporateInv
      <4> QED
        BY <4>1 DEF CorporateTypeOK, BillingInv, CorporateInv
    <3>2. ASSUME NEW b \in Bookings, booking[b] # Absent
          PROVE  /\ booking[b].status \in Cancellable \cup {"ONGOING", "ARRIVED", "COMPLETED", "CANCELLED"}
                 /\ booking[b].final \in Nat \cup {None}
                 /\ {booking[b].estimated, booking[b].advance, booking[b].due} \subseteq Nat
                 /\ booking[b].company \in CompanyIds \cup {None} /\ booking[b].welfare \in Welfares
      <4>1. booking[b] \in BookingRows
        BY <3>2 DEF BillingInv, BookingsOK
      <4> QED
        BY <4>1 DEF BookingRows, Statuses
    <3>3. \A p \in payments : p.booking \in Bookings /\ p.amount \in Nat
      BY DEF BillingInv, PaymentsOK, PaymentTyped
    <3> QED
      BY <3>1, <3>2, <3>3 DEF TypeOK, BillingInv, BooksOK, CallsOK
  <2>2. ASSUME NEW b \in Bookings
        PROVE  LET mine == {i \in invoices : i.booking = b}
               IN  IF booking[b].status = "COMPLETED"
                   THEN /\ Cardinality(mine) = 1 /\ ledger[b] # None
                        /\ DeriveBookingBalance(b) /\ \A i \in mine : ledger[b].charged = i.fare
                   ELSE mine = {} /\ ledger[b] = None
    <3> DEFINE mine == {i \in invoices : i.booking = b}
    <3>1. BookedRightly(b)
      BY DEF BillingInv, BooksOK
    <3>2. CASE booking[b].status = "COMPLETED"
      <4>1. PICK i \in invoices : /\ \A j \in invoices : j.booking = b <=> j = i
                                  /\ ledger[b].charged = i.fare
        BY <3>1, <3>2 DEF BookedRightly
      <4>2. mine = {i}
        BY <4>1
      <4>3. Cardinality({i}) = 1
        BY FS_Singleton
      <4> QED
        BY <3>1, <3>2, <4>1, <4>2, <4>3 DEF BookedRightly
    <3>3. CASE booking[b].status # "COMPLETED"
      BY <3>1, <3>3 DEF BookedRightly, Invoiced
    <3> QED
      BY <3>2, <3>3
  <2> QED
    BY <2>1, <2>2 DEF BooksBalance
<1> QED
  BY BillingInvariant, <1>1, PTL

(* What is charged is the estimate with one surcharge, or what a caller    *)
(* named, however distances are reported, and had been paid when it was    *)
(* invoiced unless the ride is paid for afterwards (lifecycle.completeTrip,*)
(* recordTripDistance).                                                    *)
THEOREM AlwaysChargedRightly == Spec => []ChargedRightly
<1>1. BillingInv => ChargedRightly
  <2> SUFFICES ASSUME BillingInv PROVE ChargedRightly
    OBVIOUS
  <2>1. InvoiceCovered
    <3> SUFFICES ASSUME NEW i \in invoices
                 PROVE  booking[i.booking].payLater \/ i.fare <= booking[i.booking].advance
      BY DEF InvoiceCovered
    <3>1. i.booking \in Bookings
      BY DEF BillingInv, BooksOK, IsInvoiceRow
    <3>2. BookedRightly(i.booking) /\ Invoiced(i.booking)
      BY <3>1 DEF BillingInv, BooksOK, Invoiced
    <3> QED
      BY <3>2 DEF BookedRightly
  <2>2. NeverCompounds
    <3> SUFFICES ASSUME NEW b \in Bookings, booking[b] # Absent
                 PROVE  \/ booking[b].final \in NamedFares \cup {None}
                        \/ \E km \in ReportedKm, back \in ReturnKm \cup {0} :
                              booking[b].final = booking[b].estimated
                                  + ComputeExtraDistanceCharge(booking[b].quote, km + back)
                        \/ booking[b].final = booking[b].estimated
      BY DEF NeverCompounds
    <3>1. FinalOK(booking[b])
      BY DEF BillingInv, BookingsOK
    <3> QED
      BY <3>1 DEF FinalOK, Charges, Driven
  <2> QED
    BY <2>1, <2>2 DEF ChargedRightly
<1> QED
  BY BillingInvariant, <1>1, PTL
=============================================================================
