-------------------------- MODULE CollectionsProofs --------------------------
(***************************************************************************)
(* Theorems about Collections and Realtime, for any payers, amounts,       *)
(* number of instruments and of calls, users, bookings and connections;    *)
(* and about Conversation, for any cabs, messages, sweeps and bookings, in *)
(* either order of the questions; and about DatePicker, for any day the    *)
(* conversation begins on and any taps, phrases and hours.                 *)
(***************************************************************************)
EXTENDS Realtime, Conversation, DatePicker, DataTheorems

(* A call that has an instrument in its hands, and one that works on a row. *)
Holds(c) == calls[c].op \in {"store", "undo"}

OnRow(c) == calls[c].op \in {"close", "mark", "apply", "publish"}

(* A row has an instrument to itself, and one that asks no more cannot be  *)
(* paid any more either.                                                   *)
RowsInv ==
    /\ \A r \in DOMAIN rows : rows[r].instrument \in DOMAIN instruments
    /\ \A r, q \in DOMAIN rows : rows[r].instrument = rows[q].instrument => r = q
    /\ \A r \in DOMAIN rows : ~Live(r) => ~Payable(rows[r].instrument)
    /\ \A r, q \in DOMAIN rows :
          /\ rows[r].of = "booking" /\ rows[q].of = "booking" /\ rows[r].purpose = rows[q].purpose
          /\ Payable(rows[r].instrument) /\ Payable(rows[q].instrument)
          => r = q
    /\ \A r \in DOMAIN rows :
          Live(r) /\ rows[r].instrument \in answered => rows[r].instrument \in early

(* What is in a call's hands is in no row, and in no other call's.         *)
HandsInv ==
    /\ \A c \in Calls : Holds(c) => /\ calls[c].instrument \in DOMAIN instruments
                                    /\ RowsOf(calls[c].instrument) = {}
    /\ \A c, d \in Calls : Holds(c) /\ Holds(d) /\ calls[c].instrument = calls[d].instrument => c = d

(* What a call read of its row still holds when it writes: what was closed *)
(* stays closed, what was captured captured, what was recorded recorded.   *)
CallsInv ==
    \A c \in Calls : OnRow(c) =>
        /\ calls[c].row \in DOMAIN rows
        /\ calls[c].op = "mark" => ~Payable(rows[calls[c].row].instrument)
        /\ calls[c].op = "apply" => instruments[rows[calls[c].row].instrument].captured
        /\ calls[c].op = "publish" => rows[calls[c].row].instrument \in ledger

LedgerInv ==
    /\ \A i \in ledger : RowsOf(i) # {}
    /\ booking.paid = SumFunctionOnSet(Amounts, Counted)

CollectionInv == CollectionTypeOK /\ RowsInv /\ HandsInv /\ CallsInv /\ LedgerInv /\ OpenIsKnown
-----------------------------------------------------------------------------
LEMMA CallIs ==
    ASSUME CollectionTypeOK, NEW c \in Calls
    PROVE  /\ calls[c] \in Call
           /\ Holds(c) => calls[c].instrument \in 1 .. MaxInstruments
           /\ OnRow(c) => calls[c].row \in 1 .. MaxInstruments
           /\ calls[c].op \in {"look", "store"} => calls[c].ask \in Ask
<1>1. calls[c] \in Call
  BY DEF CollectionTypeOK
<1> QED
  BY <1>1 DEF Call, Idle, Holds, OnRow

LEMMA RowIs ==
    ASSUME CollectionTypeOK, RowsInv, NEW r \in DOMAIN rows
    PROVE  /\ rows[r] \in Row /\ r \in 1 .. MaxInstruments
           /\ Of(r) \in Instrument /\ Of(r).amount \in Nat
           /\ rows[r].instrument \in DOMAIN instruments
<1>1. rows \in Seq(Row) /\ instruments \in Seq(Instrument)
      /\ Len(rows) \in Nat /\ Len(instruments) \in Nat
      /\ Len(rows) <= Len(instruments) /\ Len(instruments) <= MaxInstruments
  BY DEF CollectionTypeOK
<1>2. rows[r] \in Row
  BY <1>1, ElementOf
<1>3. r \in 1 .. MaxInstruments
  BY <1>1, CollectionsAssumption
<1>4. rows[r].instrument \in DOMAIN instruments
  BY DEF RowsInv
<1>5. Of(r) \in Instrument
  BY <1>1, <1>4, ElementOf DEF Of
<1> QED
  BY <1>2, <1>3, <1>4, <1>5 DEF Instrument

(* The booking's own captures are rows, and have whole amounts.            *)
LEMMA CountedIs ==
    ASSUME CollectionTypeOK, RowsInv
    PROVE  /\ IsFiniteSet(Counted) /\ Counted \subseteq DOMAIN rows
           /\ \A r \in DOMAIN rows : Amounts[r] = Of(r).amount /\ Amounts[r] \in Int
<1>1. Len(rows) \in Nat /\ DOMAIN rows = 1 .. Len(rows)
  BY DEF CollectionTypeOK
<1>2. IsFiniteSet(DOMAIN rows)
  BY <1>1, FS_Interval
<1>3. Counted \subseteq DOMAIN rows
  BY DEF Counted
<1>4. IsFiniteSet(Counted)
  BY <1>2, <1>3, FS_Subset
<1>5. \A r \in DOMAIN rows : Amounts[r] = Of(r).amount /\ Amounts[r] \in Int
  BY RowIs DEF Amounts
<1> QED
  BY <1>3, <1>4, <1>5

LEMMA CollectionsBegin == CollectionInit => CollectionInv
<1> SUFFICES ASSUME CollectionInit PROVE CollectionInv
  OBVIOUS
<1>1. rows = <<>> /\ instruments = <<>> /\ DOMAIN rows = {} /\ DOMAIN instruments = {}
      /\ Len(rows) = 0 /\ Len(instruments) = 0
  BY DEF CollectionInit
<1>2. CollectionTypeOK
  <2>1. rows \in Seq(Row) /\ instruments \in Seq(Instrument)
    BY <1>1
  <2>2. Idle \in Call
    BY DEF Call
  <2> QED
    BY <1>1, <2>1, <2>2, CollectionsAssumption DEF CollectionInit, CollectionTypeOK
<1>3. RowsInv /\ OpenIsKnown
  BY <1>1 DEF RowsInv, OpenIsKnown
<1>4. HandsInv /\ CallsInv
  BY DEF CollectionInit, HandsInv, CallsInv, Holds, OnRow, Idle
<1>5. Counted = {} /\ ledger = {} /\ booking.paid = 0
  BY <1>1 DEF Counted, CollectionInit
<1>6. LedgerInv
  BY <1>5, SumEmpty DEF LedgerInv
<1> QED
  BY <1>2, <1>3, <1>4, <1>6 DEF CollectionInv

-----------------------------------------------------------------------------
(***************************************************************************)
(* A step that leaves the rows and the ledger as they are.                 *)
(***************************************************************************)

Open(x) == x.state = "OPEN" /\ ~x.captured

(* Instruments can be paid no longer, or as before.                        *)
Worn ==
    /\ instruments' \in Seq(Instrument) /\ Len(instruments') = Len(instruments)
    /\ \A i \in DOMAIN instruments :
          /\ instruments'[i].amount = instruments[i].amount
          /\ instruments[i].captured => instruments'[i].captured
          /\ Open(instruments'[i]) => Open(instruments[i])

(* A call goes on with what it has, or gives it up, or turns to a row.     *)
Continues(c) ==
    /\ Holds(c)' => Holds(c) /\ calls'[c].instrument = calls[c].instrument
    /\ Holds(c) /\ ~Holds(c)' =>
          calls[c].instrument \in orphans' \/ ~Open(instruments'[calls[c].instrument])
    /\ OnRow(c)' /\ calls'[c] # calls[c] =>
          /\ calls'[c].row \in DOMAIN rows /\ calls'[c].op # "publish"
          /\ calls'[c].op = "mark" => ~Open(instruments'[rows[calls'[c].row].instrument])
          /\ calls'[c].op = "apply" => instruments'[rows[calls'[c].row].instrument].captured

(* An event is marked as processed only when no row waits for it.          *)
Waiting(i) == \E r \in RowsOf(i) : Live(r)

LEMMA StillStep ==
    ASSUME CollectionInv, Worn, UNCHANGED <<rows, ledger, early>>,
           booking' \in [total : {Estimate} \cup Totals, paid : Nat, dead : BOOLEAN],
           booking'.paid = booking.paid,
           answered' \subseteq DOMAIN instruments, \A i \in answered' \ answered : ~Waiting(i),
           orphans \subseteq orphans', orphans' \subseteq DOMAIN instruments,
           changes' \in 0 .. MaxChanges,
           calls' \in [Calls -> Call], \A c \in Calls : Continues(c)
    PROVE  CollectionInv'
<1> USE DEF CollectionInv
<1>d. DOMAIN instruments' = DOMAIN instruments
  BY DEF Worn, CollectionTypeOK
<1>1. CollectionTypeOK'
  BY <1>d DEF CollectionTypeOK, Worn
<1>p. \A i \in DOMAIN instruments : Payable(i)' => Payable(i)
  BY DEF Worn, Open, Payable
<1>r. \A i : RowsOf(i)' = RowsOf(i)
  BY DEF RowsOf
<1>2. RowsInv'
  <2>1. \A r \in DOMAIN rows : Live(r) /\ rows[r].instrument \in answered' => rows[r].instrument \in answered
    BY DEF Waiting, RowsOf
  <2> QED
    BY <1>d, <1>p, <2>1 DEF RowsInv, Live
<1>3. HandsInv'
  BY <1>d, <1>r DEF HandsInv, Continues
<1>4. CallsInv'
  <2> SUFFICES ASSUME NEW c \in Calls, OnRow(c)'
               PROVE  /\ calls'[c].row \in DOMAIN rows
                      /\ calls'[c].op = "mark" => ~Open(instruments'[rows[calls'[c].row].instrument])
                      /\ calls'[c].op = "apply" => instruments'[rows[calls'[c].row].instrument].captured
                      /\ calls'[c].op = "publish" => rows[calls'[c].row].instrument \in ledger
    BY DEF CallsInv, OnRow, Payable, Open
  <2>1. CASE calls'[c] = calls[c]
    <3>1. OnRow(c) /\ calls[c].row \in DOMAIN rows
      BY <2>1 DEF OnRow, CallsInv
    <3>2. rows[calls[c].row].instrument \in DOMAIN instruments
      BY <3>1 DEF RowsInv
    <3> QED
      BY <2>1, <3>1, <3>2 DEF CallsInv, Worn, Open, Payable
  <2>2. CASE calls'[c] # calls[c]
    BY <2>2 DEF Continues
  <2> QED
    BY <2>1, <2>2
<1>5. LedgerInv'
  <2>1. Counted' = Counted
    BY DEF Counted
  <2>2. \A r \in DOMAIN rows : Amounts[r] = Amounts'[r]
    BY DEF Amounts, Of, Worn, RowsInv
  <2>3. IsFiniteSet(Counted) /\ Counted \subseteq DOMAIN rows
    BY CountedIs
  <2>4. SumFunctionOnSet(Amounts, Counted) = SumFunctionOnSet(Amounts', Counted)
    BY <2>2, <2>3, SumSame
  <2> QED
    BY <1>r, <2>1, <2>4 DEF LedgerInv
<1>6. OpenIsKnown'
  <2> SUFFICES ASSUME NEW i \in DOMAIN instruments, Payable(i)', ~InHand(i)', i \notin orphans'
               PROVE  \E r \in RowsOf(i) : Live(r)
    BY <1>d, <1>r DEF OpenIsKnown, Live
  <2>1. Payable(i) /\ i \notin orphans
    BY <1>p
  <2>2. ~InHand(i)
    <3> SUFFICES ASSUME NEW c \in Calls, Holds(c), calls[c].instrument = i PROVE FALSE
      BY DEF InHand, Holds
    <3>1. ~Holds(c)'
      BY DEF InHand, Holds, Continues
    <3> QED
      BY <3>1 DEF Continues, Open, Payable
  <2> QED
    BY <2>1, <2>2 DEF OpenIsKnown
<1> QED
  BY <1>1, <1>2, <1>3, <1>4, <1>5, <1>6

LEMMA OthersContinue ==
    ASSUME CollectionTypeOK, orphans \subseteq orphans', Worn, NEW c \in Calls, NEW next \in Call,
           Answer(c, next), Continues(c)
    PROVE  /\ calls' \in [Calls -> Call] /\ calls'[c] = next
           /\ \A d \in Calls : Continues(d)
<1>1. calls \in [Calls -> Call]
  BY DEF CollectionTypeOK
<1>2. calls' \in [Calls -> Call] /\ calls'[c] = next /\ \A d \in Calls \ {c} : calls'[d] = calls[d]
  BY <1>1 DEF Answer
<1>3. ASSUME NEW d \in Calls \ {c} PROVE Continues(d)
  BY <1>2, <1>3 DEF Continues, Holds
<1> QED
  BY <1>2, <1>3

LEMMA InstrumentsStay == ASSUME CollectionTypeOK, UNCHANGED instruments PROVE Worn
BY DEF CollectionTypeOK, Worn

(* An instrument that is closed, captured or lapsed asks no more. *)
LEMMA InstrumentEnds ==
    ASSUME CollectionTypeOK, NEW i \in DOMAIN instruments, NEW x \in Instrument,
           x.amount = instruments[i].amount, instruments[i].captured => x.captured, ~Open(x),
           instruments' = [instruments EXCEPT ![i] = x]
    PROVE  Worn /\ instruments'[i] = x
<1>1. instruments \in Seq(Instrument)
  BY DEF CollectionTypeOK
<1>2. instruments' \in Seq(Instrument) /\ Len(instruments') = Len(instruments)
  BY <1>1, ExceptFacts
<1>3. instruments'[i] = x /\ \A j \in DOMAIN instruments \ {i} : instruments'[j] = instruments[j]
  OBVIOUS
<1> QED
  BY <1>2, <1>3 DEF Worn

LEMMA InstrumentCloses ==
    ASSUME CollectionTypeOK, NEW i \in DOMAIN instruments, CloseInstrument(i)
    PROVE  Worn /\ ~Open(instruments'[i])
<1> DEFINE x == [instruments[i] EXCEPT !.state = "CLOSED"]
<1>1. instruments[i] \in Instrument
  BY ElementOf DEF CollectionTypeOK
<1>2. x \in Instrument /\ x.amount = instruments[i].amount /\ x.captured = instruments[i].captured
      /\ x.state = "CLOSED"
  BY <1>1 DEF Instrument
<1>3. instruments' = [instruments EXCEPT ![i] = x]
  BY DEF CloseInstrument
<1> HIDE DEF x
<1> QED
  BY <1>2, <1>3, InstrumentEnds DEF Open

LEMMA OutsideKeeps ==
    ASSUME CollectionInv, OutsideStep PROVE CollectionInv'
<1> USE DEF CollectionInv
<1>c. ASSUME UNCHANGED <<calls, orphans>> PROVE \A c \in Calls : Continues(c)
  BY <1>c DEF Continues, Holds
<1>t. /\ booking \in [total : {Estimate} \cup Totals, paid : Nat, dead : BOOLEAN]
      /\ instruments \in Seq(Instrument) /\ answered \subseteq DOMAIN instruments
      /\ orphans \subseteq DOMAIN instruments /\ calls \in [Calls -> Call]
      /\ changes \in 0 .. MaxChanges
  BY DEF CollectionTypeOK
<1>1. ASSUME NEW i \in DOMAIN instruments, Capture(i) PROVE CollectionInv'
  <2> DEFINE x == [instruments[i] EXCEPT !.captured = TRUE]
  <2>1. instruments[i] \in Instrument
    BY <1>t, ElementOf
  <2>2. x \in Instrument /\ x.amount = instruments[i].amount /\ x.captured
    BY <2>1 DEF Instrument
  <2>3. instruments' = [instruments EXCEPT ![i] = x]
    BY <1>1 DEF Capture
  <2> HIDE DEF x
  <2>4. Worn
    BY <2>2, <2>3, InstrumentEnds DEF Open
  <2> QED
    BY <1>1, <1>c, <1>t, <2>4, StillStep DEF Capture
<1>2. ASSUME NEW i \in DOMAIN instruments, Lapse(i) PROVE CollectionInv'
  <2> DEFINE x == [instruments[i] EXCEPT !.state = "LAPSED"]
  <2>1. instruments[i] \in Instrument
    BY <1>t, ElementOf
  <2>2. x \in Instrument /\ x.amount = instruments[i].amount /\ x.captured = instruments[i].captured
        /\ x.state = "LAPSED"
    BY <2>1 DEF Instrument
  <2>3. instruments' = [instruments EXCEPT ![i] = x]
    BY <1>2 DEF Lapse
  <2> HIDE DEF x
  <2>4. Worn
    BY <2>2, <2>3, InstrumentEnds DEF Open
  <2>5. changes' \in 0 .. MaxChanges
    BY <1>2, <1>t, CollectionsAssumption DEF Lapse
  <2> QED
    BY <1>2, <1>c, <1>t, <2>4, <2>5, StillStep DEF Lapse
<1>3. ASSUME NEW total \in Totals, Reprice(total) PROVE CollectionInv'
  <2>1. changes' \in 0 .. MaxChanges
    BY <1>3, <1>t, CollectionsAssumption DEF Reprice
  <2>2. booking' \in [total : {Estimate} \cup Totals, paid : Nat, dead : BOOLEAN]
        /\ booking'.paid = booking.paid
    BY <1>3, <1>t DEF Reprice
  <2> QED
    BY <1>3, <1>c, <1>t, <2>1, <2>2, StillStep, InstrumentsStay DEF Reprice
<1>4. ASSUME Die PROVE CollectionInv'
  <2>1. changes' \in 0 .. MaxChanges
    BY <1>4, <1>t, CollectionsAssumption DEF Die
  <2>2. booking' \in [total : {Estimate} \cup Totals, paid : Nat, dead : BOOLEAN]
        /\ booking'.paid = booking.paid
    BY <1>4, <1>t DEF Die
  <2> QED
    BY <1>4, <1>c, <1>t, <2>1, <2>2, StillStep, InstrumentsStay DEF Die
<1> QED
  BY <1>1, <1>2, <1>3, <1>4 DEF OutsideStep

-----------------------------------------------------------------------------
(***************************************************************************)
(* The steps of a call.                                                    *)
(***************************************************************************)

LEMMA CallStep ==
    ASSUME CollectionInv, NEW c \in Calls, NEW next \in Call, Answer(c, next), Worn,
           UNCHANGED <<booking, rows, ledger, early, changes>>,
           answered' \subseteq DOMAIN instruments, \A i \in answered' \ answered : ~Waiting(i),
           orphans \subseteq orphans', orphans' \subseteq DOMAIN instruments, Continues(c)
    PROVE  CollectionInv'
<1>1. booking \in [total : {Estimate} \cup Totals, paid : Nat, dead : BOOLEAN]
      /\ changes \in 0 .. MaxChanges
  BY DEF CollectionInv, CollectionTypeOK
<1>2. calls' \in [Calls -> Call] /\ \A d \in Calls : Continues(d)
  BY OthersContinue DEF CollectionInv
<1> QED
  BY <1>1, <1>2, StillStep

(* A call that only looks, tells or ends. *)
LEMMA CallReads ==
    ASSUME CollectionInv, NEW c \in Calls, NEW next \in Call, Answer(c, next), ~Holds(c),
           next.op \notin {"store", "undo", "mark", "apply", "publish"},
           next.op = "close" => next.row \in DOMAIN rows,
           UNCHANGED <<booking, instruments, rows, ledger, answered, orphans, early, changes>>
    PROVE  CollectionInv'
<1>1. calls'[c] = next
  BY DEF Answer, CollectionInv, CollectionTypeOK
<1>2. Continues(c)
  BY <1>1 DEF Continues, Holds, OnRow
<1> QED
  BY <1>2, CallStep, InstrumentsStay DEF CollectionInv, CollectionTypeOK

LEMMA AsksAreTyped ==
    ASSUME CollectionTypeOK, NEW of \in {"booking"} \cup Payers, NEW purpose \in Purposes,
           NEW kind \in Kinds, NEW amount \in Nat \ {0}
    PROVE  [op |-> "look", ask |-> [of |-> of, purpose |-> purpose, kind |-> kind, amount |-> amount]]
             \in Call
BY DEF Call, Ask

LEMMA IdleCall == Idle \in Call /\ Idle.op = "idle" /\ [op |-> "tell"] \in Call
BY DEF Idle, Call

LEMMA AskingKeeps ==
    ASSUME CollectionInv, NEW c \in Calls,
           \/ \E purpose \in Purposes, kind \in Kinds : \E amount \in Typed \cup {BalanceDue, booking.total} :
                 AskForBooking(c, purpose, kind, amount)
           \/ \E payer \in Payers, kind \in Kinds, amount \in Typed : AskStandalone(c, payer, kind, amount)
           \/ Reuse(c)
    PROVE  CollectionInv'
<1>t. CollectionTypeOK /\ booking \in [total : {Estimate} \cup Totals, paid : Nat, dead : BOOLEAN]
  BY DEF CollectionInv, CollectionTypeOK
<1>b. booking.total \in Nat /\ booking.paid \in Nat /\ Typed \subseteq Nat
  BY <1>t, CollectionsAssumption
<1>n. booking.total \in Nat /\ BalanceDue \in Nat /\ Typed \subseteq Nat
  BY <1>b DEF BalanceDue
<1>1. ASSUME NEW purpose \in Purposes, NEW kind \in Kinds,
             NEW amount \in Typed \cup {BalanceDue, booking.total}, AskForBooking(c, purpose, kind, amount)
      PROVE  CollectionInv'
  <2> DEFINE next == [op |-> "look", ask |-> [of |-> "booking", purpose |-> purpose,
                                              kind |-> kind, amount |-> amount]]
  <2>1. amount \in Nat \ {0}
    BY <1>1, <1>n DEF AskForBooking, ResolveAmount
  <2>2. next \in Call
    BY <1>t, <2>1, AsksAreTyped
  <2>3. ~Holds(c)
    BY <1>1 DEF AskForBooking, Free, Idle, Holds
  <2> QED
    BY <1>1, <2>2, <2>3, CallReads DEF AskForBooking
<1>2. ASSUME NEW payer \in Payers, NEW kind \in Kinds, NEW amount \in Typed, AskStandalone(c, payer, kind, amount)
      PROVE  CollectionInv'
  <2> DEFINE next == [op |-> "look", ask |-> [of |-> payer, purpose |-> "FULL",
                                              kind |-> kind, amount |-> amount]]
  <2>1. amount \in Nat \ {0} /\ "FULL" \in Purposes
    BY <1>2, <1>n DEF AskStandalone, ResolveStandaloneAmount, Purposes
  <2>2. next \in Call
    BY <1>t, <2>1, AsksAreTyped
  <2>3. ~Holds(c)
    BY <1>2 DEF AskStandalone, Free, Idle, Holds
  <2> QED
    BY <1>2, <2>2, <2>3, CallReads DEF AskStandalone
<1>3. CASE Reuse(c)
  BY <1>3, IdleCall, CallReads DEF Reuse, Holds
<1> QED
  BY <1>1, <1>2, <1>3

LEMMA RowKeeps ==
    ASSUME CollectionInv, NEW c \in Calls,
           \/ \E r \in DOMAIN rows : ShareRead(c, r) \/ ResendRead(c, r) \/ CancelRead(c, r)
           \/ Tell(c) \/ CancelAtGateway(c)
    PROVE  CollectionInv'
<1>t. CollectionTypeOK
  BY DEF CollectionInv
<1>1. ASSUME NEW r \in DOMAIN rows, ShareRead(c, r) PROVE CollectionInv'
  BY <1>1, IdleCall, CallReads DEF ShareRead, Free, Idle, Holds
<1>2. ASSUME NEW r \in DOMAIN rows, CancelRead(c, r) PROVE CollectionInv'
  <2> DEFINE next == [op |-> "close", row |-> r]
  <2>1. r \in 1 .. MaxInstruments
    BY <1>t, RowIs DEF CollectionInv
  <2>2. next \in Call
    BY <2>1 DEF Call
  <2> QED
    BY <1>2, <2>2, CallReads DEF CancelRead, CancelFirst, Free, Idle, Holds
<1>3. CASE Tell(c)
  BY <1>3, IdleCall, CallReads DEF Tell, Holds
<1>4. CASE CancelAtGateway(c)
  <2> DEFINE r == calls[c].row
             i == rows[r].instrument
             next == [op |-> "mark", row |-> r]
  <2>1. calls[c].op = "close" /\ CloseInstrument(i) /\ Answer(c, next)
        /\ UNCHANGED <<booking, rows, ledger, answered, orphans, early, changes>>
    BY <1>4 DEF CancelAtGateway
  <2>2. r \in DOMAIN rows /\ r \in 1 .. MaxInstruments
    BY <1>t, <2>1, CallIs DEF CollectionInv, CallsInv, OnRow
  <2>3. i \in DOMAIN instruments
    BY <2>2 DEF CollectionInv, RowsInv
  <2>4. Worn /\ ~Open(instruments'[i])
    BY <1>t, <2>1, <2>3, InstrumentCloses
  <2>5. next \in Call
    BY <2>2 DEF Call
  <2>6. calls'[c] = next
    BY <1>t, <2>1 DEF Answer, CollectionTypeOK
  <2>7. Continues(c)
    BY <2>1, <2>2, <2>4, <2>6 DEF Continues, Holds, OnRow
  <2> QED
    BY <1>t, <2>1, <2>4, <2>5, <2>7, CallStep DEF CollectionTypeOK
<1> QED
  BY <1>1, <1>2, <1>3, <1>4 DEF ResendRead

(* A call that could not store its instrument, closes it or loses it; one  *)
(* that finds the row of a capture, and one that has announced it.         *)
LEMMA HandsKeep ==
    ASSUME CollectionInv, NEW c \in Calls,
           PersistFails(c) \/ RollBack(c) \/ RollBackFails(c) \/ Abandon(c)
    PROVE  CollectionInv'
<1>t. CollectionTypeOK
  BY DEF CollectionInv
<1>a. answered \subseteq DOMAIN instruments /\ orphans \subseteq DOMAIN instruments
      /\ calls \in [Calls -> Call]
  BY <1>t DEF CollectionTypeOK
<1>h. Holds(c) => calls[c].instrument \in DOMAIN instruments /\ calls[c].instrument \in 1 .. MaxInstruments
  BY <1>t, CallIs DEF CollectionInv, HandsInv
<1>1. CASE PersistFails(c)
  <2> DEFINE next == [op |-> "undo", instrument |-> calls[c].instrument]
  <2>1. Holds(c) /\ Answer(c, next)
        /\ UNCHANGED <<booking, instruments, rows, ledger, answered, orphans, early, changes>>
    BY <1>1 DEF PersistFails, Holds
  <2>2. next \in Call
    BY <1>h, <2>1 DEF Call
  <2>3. calls'[c] = next
    BY <1>a, <2>1 DEF Answer
  <2>4. Continues(c)
    BY <2>1, <2>3 DEF Continues, Holds, OnRow
  <2> QED
    BY <1>t, <1>a, <2>1, <2>2, <2>4, CallStep, InstrumentsStay
<1>2. CASE RollBack(c)
  <2>1. Holds(c) /\ CloseInstrument(calls[c].instrument) /\ Answer(c, Idle)
        /\ UNCHANGED <<booking, rows, ledger, answered, orphans, early, changes>>
    BY <1>2 DEF RollBack, Holds
  <2>2. Worn /\ ~Open(instruments'[calls[c].instrument])
    BY <1>t, <1>h, <2>1, InstrumentCloses
  <2>3. calls'[c] = Idle
    BY <1>a, <2>1 DEF Answer
  <2>4. Continues(c)
    BY <2>2, <2>3 DEF Continues, Holds, OnRow, Idle
  <2> QED
    BY <1>a, <2>1, <2>2, <2>4, CallStep, IdleCall
<1>3. ASSUME RollBackFails(c) \/ Abandon(c) PROVE CollectionInv'
  <2>1. Answer(c, Idle) /\ UNCHANGED <<booking, instruments, rows, ledger, answered, early, changes>>
    BY <1>3 DEF RollBackFails, Abandon
  <2>2. orphans' = IF Holds(c) THEN orphans \cup {calls[c].instrument} ELSE orphans
    BY <1>3 DEF RollBackFails, Abandon, Holds
  <2>3. calls'[c] = Idle
    BY <1>a, <2>1 DEF Answer
  <2>4. Continues(c)
    BY <2>2, <2>3 DEF Continues, Holds, OnRow, Idle
  <2>5. orphans' \subseteq DOMAIN instruments
    BY <1>a, <1>h, <2>2
  <2> QED
    BY <1>t, <1>a, <2>1, <2>2, <2>4, <2>5, CallStep, IdleCall, InstrumentsStay
<1> QED
  BY <1>1, <1>2, <1>3

LEMMA DeliverKeeps ==
    ASSUME CollectionInv, NEW c \in Calls,
           Publish(c) \/ \E i \in DOMAIN instruments : Deliver(c, i)
    PROVE  CollectionInv'
<1>t. CollectionTypeOK
  BY DEF CollectionInv
<1>a. answered \subseteq DOMAIN instruments /\ orphans \subseteq DOMAIN instruments
      /\ calls \in [Calls -> Call]
  BY <1>t DEF CollectionTypeOK
<1>1. CASE Publish(c)
  BY <1>1, IdleCall, CallReads DEF Publish, Holds
<1>2. ASSUME NEW i \in DOMAIN instruments, Deliver(c, i) PROVE CollectionInv'
  <2>1. CASE \E r \in MatchId(i) : Live(r) /\ Answer(c, Found(r)) /\ UNCHANGED answered
    <3>1. PICK r \in RowsOf(i) : Answer(c, Found(r)) /\ UNCHANGED answered
      BY <2>1 DEF MatchId
    <3>2. r \in DOMAIN rows /\ rows[r].instrument = i /\ r \in 1 .. MaxInstruments
      BY <1>t, <3>1, RowIs DEF RowsOf, CollectionInv
    <3>3. Found(r) \in Call
      BY <3>2 DEF Call, Found
    <3>4. calls'[c] = Found(r) /\ instruments[i].captured /\ calls[c] = Idle
          /\ UNCHANGED <<booking, instruments, rows, ledger, orphans, early, changes>>
      BY <1>a, <1>2, <3>1 DEF Answer, Deliver, Free
    <3>5. Continues(c)
      BY <3>2, <3>4 DEF Continues, Holds, OnRow, Found, Idle
    <3> QED
      BY <1>t, <1>a, <3>1, <3>3, <3>4, <3>5, CallStep, InstrumentsStay
  <2>2. CASE UNCHANGED calls /\ answered' = answered \cup {i} /\ \A r \in MatchId(i) : ~Live(r)
    <3>1. UNCHANGED <<booking, instruments, rows, ledger, orphans, early, changes>>
      BY <1>2 DEF Deliver
    <3>2. \A j \in answered' \ answered : ~Waiting(j)
      BY <2>2 DEF Waiting, MatchId
    <3>3. \A d \in Calls : Continues(d)
      BY <2>2, <3>1 DEF Continues, Holds
    <3>4. booking' \in [total : {Estimate} \cup Totals, paid : Nat, dead : BOOLEAN]
          /\ changes' \in 0 .. MaxChanges
      BY <1>t, <3>1 DEF CollectionTypeOK
    <3> QED
      BY <1>t, <1>a, <2>2, <3>1, <3>2, <3>3, <3>4, StillStep, InstrumentsStay
  <2> QED
    BY <1>2, <2>1, <2>2 DEF Deliver
<1> QED
  BY <1>1, <1>2

LEMMA MakeKeeps ==
    ASSUME CollectionInv, NEW c \in Calls, NEW replied \in BOOLEAN, MakeInstrument(c, replied)
    PROVE  CollectionInv'
<1> USE DEF CollectionInv
<1>i. PICK i : i = Len(instruments) + 1
  OBVIOUS
<1> DEFINE ask == calls[c].ask
           made == NewInstrument(ask)
           next == IF replied THEN [op |-> "store", ask |-> ask, instrument |-> i] ELSE Idle
<1>1. /\ calls[c].op = "look" /\ i <= MaxInstruments
      /\ instruments' = Append(instruments, made) /\ Answer(c, next)
      /\ orphans' = IF replied THEN orphans ELSE orphans \cup {i}
      /\ UNCHANGED <<booking, rows, ledger, answered, early, changes>>
  BY <1>i DEF MakeInstrument
<1>t. /\ instruments \in Seq(Instrument) /\ Len(instruments) \in Nat
      /\ DOMAIN instruments = 1 .. Len(instruments) /\ Len(rows) \in Nat
      /\ Len(rows) <= Len(instruments) /\ calls \in [Calls -> Call]
  BY DEF CollectionTypeOK
<1>2. ask \in Ask
  BY <1>1, CallIs
<1>3. made \in Instrument
  BY <1>2 DEF NewInstrument, NewLink, NewQrCode, Ask, Instrument, Kinds
<1> HIDE DEF made
<1>4. /\ instruments' \in Seq(Instrument) /\ Len(instruments') = i
      /\ DOMAIN instruments' = DOMAIN instruments \cup {i} /\ i \notin DOMAIN instruments
      /\ \A j \in DOMAIN instruments : instruments'[j] = instruments[j]
  BY <1>i, <1>1, <1>3, <1>t, AppendFacts
<1>5. i \in 1 .. MaxInstruments
  BY <1>i, <1>1, <1>t, CollectionsAssumption
<1>6. next \in Call
  BY <1>2, <1>5 DEF Call, Idle
<1>7. calls' \in [Calls -> Call] /\ calls'[c] = next /\ \A d \in Calls \ {c} : calls'[d] = calls[d]
  BY <1>1, <1>6, <1>t DEF Answer
<1>8. CollectionTypeOK'
  <2>1. Len(rows) <= Len(instruments') /\ Len(instruments') <= MaxInstruments
    BY <1>i, <1>1, <1>4, <1>t
  <2>2. booking' = booking /\ rows' = rows /\ ledger' = ledger /\ answered' = answered /\ early' = early
        /\ changes' = changes
    BY <1>1
  <2> QED
    BY <1>1, <1>4, <1>7, <2>1, <2>2 DEF CollectionTypeOK
<1>o. \A j \in DOMAIN instruments : Payable(j)' = Payable(j)
  BY <1>4 DEF Payable
<1>r. \A j : RowsOf(j)' = RowsOf(j)
  BY <1>1 DEF RowsOf
<1>9. RowsInv'
  BY <1>1, <1>4, <1>o DEF RowsInv, Live
<1>10. HandsInv'
  <2>1. RowsOf(i) = {}
    BY <1>4 DEF RowsOf, RowsInv
  <2>2. \A d \in Calls \ {c} : Holds(d)' => Holds(d) /\ calls'[d].instrument = calls[d].instrument
                                             /\ calls[d].instrument \in DOMAIN instruments
    BY <1>7 DEF Holds, HandsInv
  <2>3. Holds(c)' => calls'[c].instrument = i
    BY <1>7 DEF Holds, Idle
  <2>4. ASSUME NEW d \in Calls, Holds(d)'
        PROVE  calls'[d].instrument \in DOMAIN instruments' /\ RowsOf(calls[d].instrument)' = {}
    <3>1. CASE d = c
      BY <1>1, <1>4, <2>1, <2>3, <2>4, <3>1 DEF RowsOf
    <3>2. CASE d # c
      BY <1>1, <1>4, <2>2, <2>4, <3>2 DEF HandsInv, RowsOf
    <3> QED
      BY <3>1, <3>2
  <2>5. ASSUME NEW d \in Calls, NEW e \in Calls, Holds(d)', Holds(e)',
               calls'[d].instrument = calls'[e].instrument
        PROVE  d = e
    BY <1>4, <2>2, <2>3, <2>5 DEF HandsInv
  <2> QED
    BY <2>4, <2>5 DEF HandsInv
<1>11. CallsInv'
  <2>1. \A d \in Calls : OnRow(d)' => OnRow(d) /\ calls'[d] = calls[d]
    BY <1>7 DEF OnRow, Idle
  <2> QED
    BY <1>1, <1>4, <1>o, <2>1 DEF CallsInv, RowsInv
<1>12. LedgerInv'
  <2>1. Counted' = Counted
    BY <1>1 DEF Counted
  <2>2. \A r \in DOMAIN rows : Amounts[r] = Amounts'[r]
    BY <1>1, <1>4 DEF Amounts, Of, RowsInv
  <2>3. SumFunctionOnSet(Amounts, Counted) = SumFunctionOnSet(Amounts', Counted)
    BY <2>2, CountedIs, SumSame
  <2> QED
    BY <1>1, <1>r, <2>1, <2>3 DEF LedgerInv
<1>13. OpenIsKnown'
  <2>1. InHand(i)' \/ i \in orphans'
    BY <1>1, <1>7 DEF InHand
  <2>2. ASSUME NEW j \in DOMAIN instruments, InHand(j) PROVE InHand(j)'
    <3>1. PICK d \in Calls : calls[d].op \in {"store", "undo"} /\ calls[d].instrument = j
      BY <2>2 DEF InHand
    <3>2. d # c
      BY <1>1, <3>1
    <3> QED
      BY <1>7, <3>1, <3>2 DEF InHand
  <2>3. orphans \subseteq orphans'
    BY <1>1
  <2>4. ASSUME NEW j \in DOMAIN instruments, Payable(j)'
        PROVE  (\E r \in RowsOf(j)' : Live(r)') \/ InHand(j)' \/ j \in orphans'
    <3>1. (\E r \in RowsOf(j) : Live(r)) \/ InHand(j) \/ j \in orphans
      BY <1>o, <2>4 DEF OpenIsKnown
    <3> QED
      BY <1>1, <1>r, <2>2, <2>3, <3>1 DEF Live
  <2> QED
    BY <1>4, <2>1, <2>4 DEF OpenIsKnown
<1> QED
  BY <1>8, <1>9, <1>10, <1>11, <1>12, <1>13

(* The rows with an instrument each are fewer than the instruments when    *)
(* one of these has no row.                                                *)
LEMMA RoomForOne ==
    ASSUME CollectionTypeOK, RowsInv, NEW i \in DOMAIN instruments, RowsOf(i) = {}
    PROVE  Len(rows) + 1 <= Len(instruments)
<1> DEFINE S == DOMAIN rows
           T == DOMAIN instruments
           f == [r \in S |-> rows[r].instrument]
<1>1. Len(rows) \in Nat /\ S = 1 .. Len(rows) /\ Len(instruments) \in Nat /\ T = 1 .. Len(instruments)
  BY DEF CollectionTypeOK
<1>a. \A n \in Nat : IsFiniteSet(1 .. n) /\ Cardinality(1 .. n) = n
  BY FS_Interval
<1>2. IsFiniteSet(T) /\ Cardinality(S) = Len(rows) /\ Cardinality(T) = Len(instruments)
  BY <1>1, <1>a
<1>3. IsFiniteSet(T \ {i}) /\ Cardinality(T \ {i}) = Cardinality(T) - 1
  BY <1>2, FS_RemoveElement
<1>4. f \in Injection(S, T \ {i})
  BY DEF Injection, IsInjective, RowsInv, RowsOf
<1> HIDE DEF S, T, f
<1>5. Cardinality(S) <= Cardinality(T \ {i})
  BY <1>3, <1>4, FS_Injection
<1> QED
  BY <1>1, <1>2, <1>3, <1>5

LEMMA PersistKeeps ==
    ASSUME CollectionInv, NEW c \in Calls, Persist(c)
    PROVE  CollectionInv'
<1> USE DEF CollectionInv
<1>i. PICK i : i = calls[c].instrument
  OBVIOUS
<1>n. PICK n : n = Len(rows) + 1
  OBVIOUS
<1> DEFINE ask == calls[c].ask
           new == [of |-> ask.of, purpose |-> ask.purpose, instrument |-> i, status |-> "CREATED"]
<1>1. /\ calls[c].op = "store" /\ ~Clashes(ask, DOMAIN rows) /\ rows' = Append(rows, new)
      /\ early' = IF i \in answered THEN early \cup {i} ELSE early
      /\ Answer(c, [op |-> "tell"])
      /\ UNCHANGED <<booking, instruments, ledger, answered, orphans, changes>>
  BY <1>i DEF Persist
<1>t. /\ rows \in Seq(Row) /\ Len(rows) \in Nat /\ DOMAIN rows = 1 .. Len(rows)
      /\ instruments \in Seq(Instrument) /\ Len(instruments) \in Nat
      /\ Len(instruments) <= MaxInstruments /\ calls \in [Calls -> Call]
      /\ early \subseteq DOMAIN instruments
  BY DEF CollectionTypeOK
<1>2. Holds(c) /\ ask \in Ask /\ i \in 1 .. MaxInstruments
  BY <1>i, <1>1, CallIs DEF Holds
<1>3. new \in Row
  BY <1>2 DEF Row, Ask
<1>4. i \in DOMAIN instruments /\ RowsOf(i) = {}
  BY <1>i, <1>2 DEF HandsInv
<1>5. new.instrument = i /\ new.status = "CREATED" /\ new.of = ask.of /\ new.purpose = ask.purpose
  OBVIOUS
<1> HIDE DEF new
<1>6. /\ rows' \in Seq(Row) /\ Len(rows') = n
      /\ DOMAIN rows' = DOMAIN rows \cup {n} /\ n \notin DOMAIN rows
      /\ (\A r \in DOMAIN rows : rows'[r] = rows[r]) /\ rows'[n] = new
  BY <1>n, <1>1, <1>3, <1>t, AppendFacts
<1>7. calls' \in [Calls -> Call] /\ calls'[c] = [op |-> "tell"]
      /\ \A d \in Calls \ {c} : calls'[d] = calls[d]
  BY <1>1, <1>t, IdleCall DEF Answer
<1>8. CollectionTypeOK'
  <2>1. Len(rows) + 1 <= Len(instruments)
    BY <1>4, RoomForOne
  <2>2. Len(rows') <= Len(instruments') /\ early' \subseteq DOMAIN instruments
    BY <1>1, <1>4, <1>n, <1>6, <1>t, <2>1
  <2> QED
    BY <1>1, <1>6, <1>7, <2>2 DEF CollectionTypeOK
<1>o. \A j : Payable(j)' = Payable(j)
  BY <1>1 DEF Payable
<1>9. RowsInv'
  <2>1. \A r \in DOMAIN rows : rows[r].instrument # i
    BY <1>4 DEF RowsOf
  <2>2. \A r \in DOMAIN rows' : rows'[r].instrument \in DOMAIN instruments'
    BY <1>1, <1>4, <1>5, <1>6 DEF RowsInv
  <2>3. \A r, q \in DOMAIN rows' : rows'[r].instrument = rows'[q].instrument => r = q
    BY <1>5, <1>6, <2>1 DEF RowsInv
  <2>4. \A r \in DOMAIN rows' : ~Live(r)' => ~Payable(rows[r].instrument)'
    BY <1>1, <1>5, <1>6 DEF RowsInv, Live, Payable
  <2>5. \A r \in DOMAIN rows :
          rows[r].of = "booking" /\ new.of = "booking" /\ rows[r].purpose = new.purpose
            => ~Payable(rows[r].instrument)
    BY <1>1, <1>5 DEF Clashes, RowsInv, Live
  <2>6. \A r, q \in DOMAIN rows' :
          /\ rows'[r].of = "booking" /\ rows'[q].of = "booking" /\ rows'[r].purpose = rows'[q].purpose
          /\ Payable(rows[r].instrument)' /\ Payable(rows[q].instrument)'
          => r = q
    BY <1>1, <1>6, <2>5 DEF RowsInv, Payable
  <2>7. \A r \in DOMAIN rows' : Live(r)' /\ rows'[r].instrument \in answered' => rows'[r].instrument \in early'
    BY <1>1, <1>5, <1>6 DEF RowsInv, Live
  <2> QED
    BY <2>2, <2>3, <2>4, <2>6, <2>7 DEF RowsInv
<1>h. \A d \in Calls : Holds(d)' => d # c /\ Holds(d) /\ calls'[d] = calls[d]
  BY <1>7 DEF Holds
<1>10. HandsInv'
  <2>1. ASSUME NEW d \in Calls, Holds(d)' PROVE RowsOf(calls[d].instrument)' = {}
    <3>1. calls[d].instrument # i /\ RowsOf(calls[d].instrument) = {}
      BY <1>h, <1>i, <1>2, <2>1 DEF HandsInv
    <3> QED
      BY <1>h, <1>5, <1>6, <2>1, <3>1 DEF RowsOf
  <2> QED
    BY <1>1, <1>h, <2>1 DEF HandsInv
<1>11. CallsInv'
  <2> SUFFICES ASSUME NEW d \in Calls, OnRow(d)'
               PROVE  LET q == calls'[d].row IN
                      /\ q \in DOMAIN rows'
                      /\ calls'[d].op = "mark" => ~Payable(rows[calls[d].row].instrument)'
                      /\ calls'[d].op = "apply" => instruments'[rows'[q].instrument].captured
                      /\ calls'[d].op = "publish" => rows'[q].instrument \in ledger'
    BY DEF CallsInv
  <2>1. OnRow(d) /\ calls'[d] = calls[d]
    BY <1>7 DEF OnRow
  <2>2. PICK q : q = calls[d].row
    OBVIOUS
  <2>3. /\ q \in DOMAIN rows
        /\ calls[d].op = "mark" => ~Payable(rows[q].instrument)
        /\ calls[d].op = "apply" => instruments[rows[q].instrument].captured
        /\ calls[d].op = "publish" => rows[q].instrument \in ledger
    BY <2>1, <2>2 DEF CallsInv
  <2> QED
    BY <1>1, <1>6, <2>1, <2>2, <2>3 DEF Payable
<1>12. LedgerInv'
  <2>1. i \notin ledger
    BY <1>4 DEF LedgerInv
  <2>2. Counted' = Counted
    BY <1>1, <1>5, <1>6, <2>1 DEF Counted
  <2>3. \A r \in DOMAIN rows : Amounts[r] = Amounts'[r]
    BY <1>1, <1>6 DEF Amounts, Of
  <2>4. SumFunctionOnSet(Amounts, Counted) = SumFunctionOnSet(Amounts', Counted)
    BY <2>3, CountedIs, SumSame
  <2>5. \A j : RowsOf(j) \subseteq RowsOf(j)'
    BY <1>6 DEF RowsOf
  <2> QED
    BY <1>1, <2>2, <2>4, <2>5 DEF LedgerInv
<1>13. OpenIsKnown'
  <2>1. n \in RowsOf(i)' /\ Live(n)'
    BY <1>5, <1>6 DEF RowsOf, Live
  <2>2. ASSUME NEW j \in DOMAIN instruments, j # i, Payable(j)
        PROVE  (\E r \in RowsOf(j)' : Live(r)') \/ InHand(j)' \/ j \in orphans
    <3>1. CASE \E r \in RowsOf(j) : Live(r)
      BY <1>6, <3>1 DEF RowsOf, Live
    <3>2. CASE InHand(j)
      <4>1. PICK d \in Calls : calls[d].op \in {"store", "undo"} /\ calls[d].instrument = j
        BY <3>2 DEF InHand
      <4>2. d # c
        BY <1>i, <2>2, <4>1
      <4> QED
        BY <1>7, <4>1, <4>2 DEF InHand
    <3> QED
      BY <2>2, <3>1, <3>2 DEF OpenIsKnown
  <2> QED
    BY <1>1, <1>o, <2>1, <2>2 DEF OpenIsKnown
<1> QED
  BY <1>8, <1>9, <1>10, <1>11, <1>12, <1>13

(* A row that asks no more, because its instrument is closed or paid.      *)
LEMMA RowEnds ==
    ASSUME CollectionInv, NEW r \in DOMAIN rows, NEW x \in {"CAPTURED", "FAILED"},
           rows' = [rows EXCEPT ![r].status = x], ~Payable(rows[r].instrument),
           NEW c \in Calls, ~Holds(c), NEW next \in Call, next.op \notin {"store", "undo"}, Answer(c, next),
           answered' \subseteq answered \cup {rows[r].instrument},
           UNCHANGED <<instruments, early, orphans>>
    PROVE  /\ rows' \in Seq(Row) /\ Len(rows') = Len(rows) /\ DOMAIN rows' = DOMAIN rows
           /\ \A q \in DOMAIN rows : /\ rows'[q].of = rows[q].of
                                     /\ rows'[q].instrument = rows[q].instrument
           /\ calls' \in [Calls -> Call] /\ calls'[c] = next
           /\ \A d \in Calls \ {c} : calls'[d] = calls[d]
           /\ RowsInv' /\ HandsInv' /\ OpenIsKnown'
<1> USE DEF CollectionInv
<1> DEFINE new == [rows[r] EXCEPT !.status = x]
<1>t. rows \in Seq(Row) /\ calls \in [Calls -> Call]
  BY DEF CollectionTypeOK
<1>1. rows[r] \in Row
  BY RowIs
<1>2. new \in Row /\ new.status = x /\ new.of = rows[r].of /\ new.purpose = rows[r].purpose
      /\ new.instrument = rows[r].instrument
  BY <1>1 DEF Row
<1>3. rows' = [rows EXCEPT ![r] = new]
  OBVIOUS
<1> HIDE DEF new
<1>4. rows' \in Seq(Row) /\ Len(rows') = Len(rows) /\ DOMAIN rows' = DOMAIN rows
  BY <1>2, <1>3, <1>t, ExceptFacts
<1>5. \A q \in DOMAIN rows :
          /\ rows'[q].of = rows[q].of /\ rows'[q].purpose = rows[q].purpose
          /\ rows'[q].instrument = rows[q].instrument
          /\ rows'[q].status = IF q = r THEN x ELSE rows[q].status
  BY <1>2, <1>3
<1>6. calls' \in [Calls -> Call] /\ calls'[c] = next /\ \A d \in Calls \ {c} : calls'[d] = calls[d]
  BY <1>t DEF Answer
<1>7. RowsInv'
  <2>1. \A q \in DOMAIN rows' : rows'[q].instrument \in DOMAIN instruments'
    BY <1>4, <1>5 DEF RowsInv
  <2>2. \A p, q \in DOMAIN rows' : rows'[p].instrument = rows'[q].instrument => p = q
    BY <1>4, <1>5 DEF RowsInv
  <2>3. \A q \in DOMAIN rows' : ~Live(q)' => ~Payable(rows[q].instrument)'
    BY <1>4, <1>5 DEF RowsInv, Live, Payable
  <2>4. \A p, q \in DOMAIN rows' :
          /\ rows'[p].of = "booking" /\ rows'[q].of = "booking" /\ rows'[p].purpose = rows'[q].purpose
          /\ Payable(rows[p].instrument)' /\ Payable(rows[q].instrument)'
          => p = q
    BY <1>4, <1>5 DEF RowsInv, Payable
  <2>5. ASSUME NEW q \in DOMAIN rows, Live(q)', rows'[q].instrument \in answered'
        PROVE  rows'[q].instrument \in early'
    <3>1. q # r /\ Live(q)
      BY <1>5, <2>5 DEF Live
    <3>2. rows[q].instrument # rows[r].instrument
      BY <3>1 DEF RowsInv
    <3> QED
      BY <1>5, <2>5, <3>1, <3>2 DEF RowsInv
  <2> QED
    BY <1>4, <2>1, <2>2, <2>3, <2>4, <2>5 DEF RowsInv
<1>8. HandsInv'
  <2>1. \A d \in Calls : Holds(d)' => Holds(d) /\ calls'[d] = calls[d]
    BY <1>6 DEF Holds
  <2>2. ASSUME NEW d \in Calls, Holds(d)' PROVE RowsOf(calls[d].instrument)' = {}
    BY <1>4, <1>5, <2>1, <2>2 DEF RowsOf, HandsInv
  <2> QED
    BY <2>1, <2>2 DEF HandsInv
<1>9. OpenIsKnown'
  <2> SUFFICES ASSUME NEW i \in DOMAIN instruments, Payable(i)
               PROVE  (\E q \in RowsOf(i)' : Live(q)') \/ InHand(i)' \/ i \in orphans
    BY DEF OpenIsKnown, Payable
  <2>1. CASE \E q \in RowsOf(i) : Live(q)
    BY <1>4, <1>5, <2>1 DEF RowsOf, Live
  <2>2. CASE InHand(i)
    <3>1. PICK d \in Calls : calls[d].op \in {"store", "undo"} /\ calls[d].instrument = i
      BY <2>2 DEF InHand
    <3>2. d # c
      BY <3>1 DEF Holds
    <3> QED
      BY <1>6, <3>1, <3>2 DEF InHand
  <2> QED
    BY <2>1, <2>2 DEF OpenIsKnown
<1> QED
  BY <1>4, <1>5, <1>6, <1>7, <1>8, <1>9

LEMMA MarkKeeps ==
    ASSUME CollectionInv, NEW c \in Calls, CancelMark(c)
    PROVE  CollectionInv'
<1> USE DEF CollectionInv
<1>r. PICK r : r = calls[c].row
  OBVIOUS
<1>1. /\ calls[c].op = "mark" /\ rows' = [rows EXCEPT ![r].status = "FAILED"] /\ Answer(c, Idle)
      /\ UNCHANGED <<booking, instruments, ledger, answered, orphans, early, changes>>
  BY <1>r DEF CancelMark
<1>2. r \in DOMAIN rows /\ ~Payable(rows[r].instrument) /\ ~Holds(c)
  BY <1>r, <1>1 DEF CallsInv, OnRow, Holds
<1>3. /\ rows' \in Seq(Row) /\ Len(rows') = Len(rows) /\ DOMAIN rows' = DOMAIN rows
      /\ \A q \in DOMAIN rows : rows'[q].of = rows[q].of /\ rows'[q].instrument = rows[q].instrument
      /\ calls' \in [Calls -> Call] /\ calls'[c] = Idle
      /\ \A d \in Calls \ {c} : calls'[d] = calls[d]
      /\ RowsInv' /\ HandsInv' /\ OpenIsKnown'
  BY <1>1, <1>2, IdleCall, RowEnds
<1>4. CollectionTypeOK'
  BY <1>1, <1>3 DEF CollectionTypeOK
<1>5. CallsInv'
  <2> SUFFICES ASSUME NEW d \in Calls, OnRow(d)'
               PROVE  LET q == calls'[d].row IN
                      /\ q \in DOMAIN rows'
                      /\ calls'[d].op = "mark" => ~Payable(rows[calls[d].row].instrument)'
                      /\ calls'[d].op = "apply" => instruments'[rows'[q].instrument].captured
                      /\ calls'[d].op = "publish" => rows'[q].instrument \in ledger'
    BY DEF CallsInv
  <2>1. OnRow(d) /\ calls'[d] = calls[d]
    BY <1>3 DEF OnRow, Idle
  <2>2. PICK q : q = calls[d].row
    OBVIOUS
  <2>3. /\ q \in DOMAIN rows
        /\ calls[d].op = "mark" => ~Payable(rows[q].instrument)
        /\ calls[d].op = "apply" => instruments[rows[q].instrument].captured
        /\ calls[d].op = "publish" => rows[q].instrument \in ledger
    BY <2>1, <2>2 DEF CallsInv
  <2> QED
    BY <1>1, <1>3, <2>1, <2>2, <2>3 DEF Payable
<1>6. LedgerInv'
  <2>1. Counted' = Counted
    BY <1>1, <1>3 DEF Counted
  <2>2. \A q \in DOMAIN rows : Amounts[q] = Amounts'[q]
    BY <1>1, <1>3 DEF Amounts, Of
  <2>3. SumFunctionOnSet(Amounts, Counted) = SumFunctionOnSet(Amounts', Counted)
    BY <2>2, CountedIs, SumSame
  <2>4. \A j : RowsOf(j) = RowsOf(j)'
    BY <1>3 DEF RowsOf
  <2> QED
    BY <1>1, <2>1, <2>3, <2>4 DEF LedgerInv
<1> QED
  BY <1>3, <1>4, <1>5, <1>6

LEMMA ApplyKeeps ==
    ASSUME CollectionInv, NEW c \in Calls, Apply(c)
    PROVE  CollectionInv'
<1> USE DEF CollectionInv
<1>r. PICK r : r = calls[c].row
  OBVIOUS
<1>i. PICK i : i = rows[r].instrument
  OBVIOUS
<1> DEFINE next == [calls[c] EXCEPT !.op = "publish"]
<1>1. /\ calls[c].op = "apply" /\ i \notin ledger /\ rows' = [rows EXCEPT ![r].status = "CAPTURED"]
      /\ ledger' = ledger \cup {i} /\ answered' = answered \cup {i} /\ Answer(c, next)
      /\ booking' = IF Counts(r) THEN [booking EXCEPT !.paid = @ + Of(r).amount] ELSE booking
      /\ UNCHANGED <<instruments, orphans, early, changes>>
  BY <1>r, <1>i DEF Apply
<1>2. r \in DOMAIN rows /\ instruments[i].captured /\ ~Holds(c) /\ i \in DOMAIN instruments
      /\ r \in 1 .. MaxInstruments
  BY <1>r, <1>i, <1>1, CallIs DEF CallsInv, OnRow, Holds, RowsInv
<1>3. next \in Call /\ next.op = "publish" /\ next.row = r
  <2>1. calls[c] \in [op : {"close", "mark", "apply", "publish"}, row : 1 .. MaxInstruments]
    BY <1>1, CallIs DEF Call, Idle
  <2>2. next \in [op : {"close", "mark", "apply", "publish"}, row : 1 .. MaxInstruments]
    BY <2>1
  <2> QED
    BY <1>r, <2>1, <2>2 DEF Call
<1> HIDE DEF next
<1>4. /\ rows' \in Seq(Row) /\ Len(rows') = Len(rows) /\ DOMAIN rows' = DOMAIN rows
      /\ \A q \in DOMAIN rows : rows'[q].of = rows[q].of /\ rows'[q].instrument = rows[q].instrument
      /\ calls' \in [Calls -> Call] /\ calls'[c] = next
      /\ \A d \in Calls \ {c} : calls'[d] = calls[d]
      /\ RowsInv' /\ HandsInv' /\ OpenIsKnown'
  BY <1>i, <1>1, <1>2, <1>3, RowEnds DEF Payable
<1>5. booking \in [total : {Estimate} \cup Totals, paid : Nat, dead : BOOLEAN] /\ Of(r).amount \in Nat
  BY <1>2, RowIs DEF CollectionTypeOK
<1>6. booking' \in [total : {Estimate} \cup Totals, paid : Nat, dead : BOOLEAN]
  BY <1>1, <1>5
<1>7. CollectionTypeOK'
  BY <1>1, <1>2, <1>4, <1>6 DEF CollectionTypeOK
<1>8. CallsInv'
  <2> SUFFICES ASSUME NEW d \in Calls, OnRow(d)'
               PROVE  LET q == calls'[d].row IN
                      /\ q \in DOMAIN rows'
                      /\ calls'[d].op = "mark" => ~Payable(rows[calls[d].row].instrument)'
                      /\ calls'[d].op = "apply" => instruments'[rows'[q].instrument].captured
                      /\ calls'[d].op = "publish" => rows'[q].instrument \in ledger'
    BY DEF CallsInv
  <2>1. CASE d = c
    BY <1>i, <1>1, <1>2, <1>3, <1>4, <2>1
  <2>2. CASE d # c
    <3>1. OnRow(d) /\ calls'[d] = calls[d]
      BY <1>4, <2>2 DEF OnRow
    <3>2. PICK q : q = calls[d].row
      OBVIOUS
    <3>3. /\ q \in DOMAIN rows
          /\ calls[d].op = "mark" => ~Payable(rows[q].instrument)
          /\ calls[d].op = "apply" => instruments[rows[q].instrument].captured
          /\ calls[d].op = "publish" => rows[q].instrument \in ledger
      BY <3>1, <3>2 DEF CallsInv
    <3> QED
      BY <1>1, <1>4, <3>1, <3>2, <3>3 DEF Payable
  <2> QED
    BY <2>1, <2>2
<1>9. LedgerInv'
  <2>1. \A q \in DOMAIN rows : rows[q].instrument = i => q = r
    BY <1>i, <1>2 DEF RowsInv
  <2>2. r \notin Counted
    BY <1>i, <1>1 DEF Counted
  <2>3. Counted' = IF Counts(r) THEN Counted \cup {r} ELSE Counted
    BY <1>i, <1>1, <1>2, <1>4, <2>1 DEF Counted, Counts
  <2>4. \A q \in DOMAIN rows : Amounts[q] = Amounts'[q]
    BY <1>1, <1>4 DEF Amounts, Of
  <2>5. IsFiniteSet(Counted) /\ Counted \subseteq DOMAIN rows /\ Amounts[r] = Of(r).amount
        /\ \A q \in DOMAIN rows : Amounts[q] \in Int
    BY <1>2, CountedIs
  <2>6. IsFiniteSet(Counted') /\ Counted' \subseteq DOMAIN rows
    BY <1>2, <2>3, <2>5, FS_AddElement
  <2>7. SumFunctionOnSet(Amounts, Counted') = SumFunctionOnSet(Amounts', Counted')
    BY <2>4, <2>6, SumSame
  <2>8. SumFunctionOnSet(Amounts, Counted \cup {r}) = Amounts[r] + SumFunctionOnSet(Amounts, Counted)
    BY <1>2, <2>2, <2>5, SumAdd
  <2>9. booking'.paid = SumFunctionOnSet(Amounts', Counted')
    <3>1. CASE Counts(r)
      <4>1. booking'.paid = booking.paid + Of(r).amount /\ booking.paid \in Nat
        BY <1>1, <1>5, <3>1
      <4>2. booking.paid = SumFunctionOnSet(Amounts, Counted)
        BY DEF LedgerInv
      <4>3. SumFunctionOnSet(Amounts', Counted') = Of(r).amount + booking.paid
        BY <2>3, <2>5, <2>7, <2>8, <3>1, <4>2
      <4> QED
        BY <1>5, <4>1, <4>3
    <3>2. CASE ~Counts(r)
      BY <1>1, <2>3, <2>7, <3>2 DEF LedgerInv
    <3> QED
      BY <3>1, <3>2
  <2>10. \A j : RowsOf(j) = RowsOf(j)'
    BY <1>4 DEF RowsOf
  <2>11. r \in RowsOf(i)
    BY <1>i, <1>2 DEF RowsOf
  <2> QED
    BY <1>1, <2>9, <2>10, <2>11 DEF LedgerInv
<1> QED
  BY <1>4, <1>7, <1>8, <1>9

LEMMA CollectionKeeps == CollectionInv /\ CollectionNext => CollectionInv'
<1> SUFFICES ASSUME CollectionInv, CollectionNext PROVE CollectionInv'
  OBVIOUS
<1>1. CASE OutsideStep
  BY <1>1, OutsideKeeps
<1>2. ASSUME NEW c \in Calls, AskStep(c) PROVE CollectionInv'
  BY <1>2, AskingKeeps, MakeKeeps, PersistKeeps, HandsKeep DEF AskStep
<1>3. ASSUME NEW c \in Calls, RowStep(c) PROVE CollectionInv'
  BY <1>3, RowKeeps, MarkKeeps DEF RowStep
<1>4. ASSUME NEW c \in Calls, CaptureStep(c) PROVE CollectionInv'
  BY <1>4, DeliverKeeps, ApplyKeeps DEF CaptureStep
<1>5. ASSUME NEW c \in Calls, Abandon(c) PROVE CollectionInv'
  BY <1>5, HandsKeep
<1> QED
  BY <1>1, <1>2, <1>3, <1>4, <1>5 DEF CollectionNext

LEMMA CollectionRests == CollectionInv /\ UNCHANGED collectionVars => CollectionInv'
<1> SUFFICES ASSUME CollectionInv, UNCHANGED collectionVars PROVE CollectionInv'
  OBVIOUS
<1> USE DEF collectionVars, CollectionInv
<1>1. CollectionTypeOK' /\ \A c \in Calls : Continues(c)
  BY DEF CollectionTypeOK, Continues, Holds
<1>2. Worn
  BY InstrumentsStay
<1> QED
  BY <1>1, <1>2, StillStep DEF CollectionTypeOK

-----------------------------------------------------------------------------
(***************************************************************************)
(* The sockets.                                                            *)
(***************************************************************************)

(* Whom a room may hold.                                                   *)
MayBeIn(u, room) ==
    \/ room \in { <<"dispatch">>, <<"admin">> } /\ RoleOf[u] \in {"ADMIN", "OPS"}
    \/ room = DriverRoom(u)
    \/ \E b \in Bookings : room = BookingRoom(b) /\ CanWatchBooking(u, b)

(* A connection is in rooms its user may be in, and waits for answers that *)
(* allow it; what is closed waits for none.                                *)
Allowed(s) ==
    IF sockets[s] = Closed THEN pending[s] = {}
    ELSE /\ \A room \in sockets[s].rooms : MayBeIn(sockets[s].user, room)
         /\ \A b \in pending[s] : CanWatchBooking(sockets[s].user, b)

SocketInv == SocketTypeOK /\ \A s \in Sockets : Allowed(s)

LEMMA SocketsBegin == SocketInit => SocketInv
BY RealtimeAssumption DEF SocketInit, SocketInv, SocketTypeOK, Allowed

LEMMA DefaultsAllowed ==
    ASSUME NEW u \in Users, NEW room \in DefaultRoomsFor(u)
    PROVE  room \in Rooms /\ MayBeIn(u, room)
<1>1. RoleOf[u] \in Roles
  BY RealtimeAssumption
<1>2. DriverRoom(u) \in Rooms
  BY DEF DriverRoom, Rooms
<1> QED
  BY <1>1, <1>2 DEF DefaultRoomsFor, MayBeIn, Rooms, Roles

LEMMA SocketKeeps == SocketInv /\ SocketNext => SocketInv'
<1> SUFFICES ASSUME SocketInv, SocketNext PROVE SocketInv'
  OBVIOUS
<1> USE DEF SocketInv
<1> DEFINE Connection == [user : Users, rooms : SUBSET Rooms]
<1>t. /\ sockets \in [Sockets -> {Closed} \cup Connection] /\ pending \in [Sockets -> SUBSET Bookings]
      /\ active \subseteq Users /\ connections \in 0 .. MaxConnections
  BY DEF SocketTypeOK
<1>n. \A s \in Sockets : sockets[s] # Closed => sockets[s] \in Connection
  BY <1>t
<1>1. ASSUME NEW s \in Sockets, NEW u \in Users, Connect(s, u) PROVE SocketInv'
  <2> DEFINE new == [user |-> u, rooms |-> DefaultRoomsFor(u)]
  <2>1. new \in Connection /\ new # Closed
    BY DefaultsAllowed, RealtimeAssumption DEF Closed
  <2>2. sockets[s] = Closed /\ sockets' = [sockets EXCEPT ![s] = new] /\ UNCHANGED <<pending, active>>
        /\ connections' \in 0 .. MaxConnections
    BY <1>1, <1>t, RealtimeAssumption DEF Connect
  <2>3. new.user = u /\ new.rooms = DefaultRoomsFor(u)
    OBVIOUS
  <2> HIDE DEF new
  <2>4. SocketTypeOK'
    BY <1>t, <2>1, <2>2 DEF SocketTypeOK
  <2>5. Allowed(s)'
    BY <1>t, <2>1, <2>2, <2>3, DefaultsAllowed DEF Allowed, Closed
  <2>6. ASSUME NEW o \in Sockets \ {s} PROVE Allowed(o)'
    BY <1>t, <2>2, <2>6 DEF Allowed, Closed
  <2> QED
    BY <2>4, <2>5, <2>6
<1>2. ASSUME NEW s \in Sockets, NEW wanted \in SUBSET Bookings, WatchRead(s, wanted) PROVE SocketInv'
  <2>1. SocketTypeOK'
    BY <1>2, <1>t DEF WatchRead, SocketTypeOK
  <2>2. ASSUME NEW o \in Sockets PROVE Allowed(o)'
    BY <1>2, <1>t, <2>2 DEF WatchRead, Allowed, Closed
  <2> QED
    BY <2>1, <2>2
<1>3. ASSUME NEW s \in Sockets, NEW rooms, rooms \subseteq Rooms, sockets[s] # Closed,
             \A room \in rooms : MayBeIn(sockets[s].user, room),
             sockets' = [sockets EXCEPT ![s].rooms = rooms],
             pending' \in [Sockets -> SUBSET Bookings], \A o \in Sockets : pending'[o] \subseteq pending[o],
             UNCHANGED <<active, connections>>
      PROVE  SocketInv'
  <2> DEFINE new == [sockets[s] EXCEPT !.rooms = rooms]
  <2>1. new \in Connection /\ new.user = sockets[s].user /\ new.rooms = rooms
    BY <1>3, <1>n
  <2>2. new # Closed
    BY <2>1, RealtimeAssumption DEF Closed
  <2>3. sockets' = [sockets EXCEPT ![s] = new]
    BY <1>3
  <2> HIDE DEF new
  <2>4. SocketTypeOK'
    BY <1>3, <1>t, <2>1, <2>3 DEF SocketTypeOK
  <2>5. Allowed(s)'
    BY <1>3, <1>t, <2>1, <2>2, <2>3 DEF Allowed, Closed
  <2>6. ASSUME NEW o \in Sockets \ {s} PROVE Allowed(o)'
    BY <1>3, <1>t, <2>3, <2>6 DEF Allowed, Closed
  <2> QED
    BY <2>4, <2>5, <2>6
<1>4. ASSUME NEW s \in Sockets, NEW b \in Bookings, WatchJoin(s, b) PROVE SocketInv'
  <2> DEFINE rooms == sockets[s].rooms \cup {BookingRoom(b)}
  <2>1. sockets[s] # Closed /\ CanWatchBooking(sockets[s].user, b)
    BY <1>4 DEF WatchJoin, Allowed
  <2>2. rooms \subseteq Rooms
    BY <1>n, <2>1 DEF Rooms, BookingRoom
  <2>3. \A room \in rooms : MayBeIn(sockets[s].user, room)
    BY <2>1 DEF Allowed, MayBeIn
  <2>4. sockets' = [sockets EXCEPT ![s].rooms = rooms] /\ UNCHANGED <<active, connections>>
    BY <1>4 DEF WatchJoin
  <2>5. pending' \in [Sockets -> SUBSET Bookings] /\ \A o \in Sockets : pending'[o] \subseteq pending[o]
    BY <1>4, <1>t DEF WatchJoin
  <2> HIDE DEF rooms
  <2> QED
    BY <1>3, <2>1, <2>2, <2>3, <2>4, <2>5
<1>5. ASSUME NEW s \in Sockets, NEW b \in Bookings, Unwatch(s, b) PROVE SocketInv'
  <2> DEFINE rooms == sockets[s].rooms \ {BookingRoom(b)}
  <2>1. sockets[s] # Closed
    BY <1>5 DEF Unwatch, Closed
  <2>2. rooms \subseteq Rooms /\ \A room \in rooms : MayBeIn(sockets[s].user, room)
    BY <1>n, <2>1 DEF Allowed
  <2>3. sockets' = [sockets EXCEPT ![s].rooms = rooms] /\ UNCHANGED <<pending, active, connections>>
    BY <1>5 DEF Unwatch
  <2> HIDE DEF rooms
  <2> QED
    BY <1>3, <1>t, <2>1, <2>2, <2>3
<1>6. ASSUME NEW s \in Sockets, Disconnect(s) PROVE SocketInv'
  <2>1. SocketTypeOK'
    BY <1>6, <1>t DEF Disconnect, SocketTypeOK
  <2>2. ASSUME NEW o \in Sockets PROVE Allowed(o)'
    BY <1>6, <1>t, <2>2 DEF Disconnect, Allowed, Closed
  <2> QED
    BY <2>1, <2>2
<1>7. ASSUME NEW u \in Users, Deactivate(u) PROVE SocketInv'
  BY <1>7, <1>t DEF Deactivate, SocketTypeOK, Allowed
<1> QED
  BY <1>1, <1>2, <1>4, <1>5, <1>6, <1>7 DEF SocketNext

LEMMA SocketRests == SocketInv /\ UNCHANGED socketVars => SocketInv'
BY DEF SocketInv, SocketTypeOK, Allowed, socketVars

-----------------------------------------------------------------------------
Inv == CollectionInv /\ SocketInv

LEMMA Start == Init => Inv
BY CollectionsBegin, SocketsBegin DEF Init, Inv

LEMMA Preserve == Inv /\ [Next]_vars => Inv'
<1> SUFFICES ASSUME Inv, [Next]_vars PROVE Inv'
  OBVIOUS
<1>1. CASE CollectionNext /\ UNCHANGED socketVars
  BY <1>1, CollectionKeeps, SocketRests DEF Inv
<1>2. CASE SocketNext /\ UNCHANGED collectionVars
  BY <1>2, SocketKeeps, CollectionRests DEF Inv
<1>3. CASE UNCHANGED vars
  BY <1>3, SocketRests, CollectionRests DEF Inv, vars
<1> QED
  BY <1>1, <1>2, <1>3 DEF Next

(* What was made, asked, captured and counted belongs together, and sockets *)
(* are in rooms of their users, for any number of calls and connections.   *)
THEOREM Settled == Spec => []Inv
BY Start, Preserve, PTL DEF Spec

(* Whatever requests race to ask for money, share it, cancel it and take   *)
(* it, and wherever they stop: an instrument that can still be paid is in  *)
(* a live row, in the hands of a call or given up with an error; and a     *)
(* booking is asked for a purpose by one instrument at most.               *)
THEOREM AsksOnce == Spec => []AskedOnce
<1>1. Inv => AskedOnce
  <2> SUFFICES ASSUME Inv PROVE AskedOnce
    OBVIOUS
  <2> USE DEF Inv, CollectionInv
  <2>1. ASSUME NEW p \in Purposes
        PROVE  Cardinality({ r \in DOMAIN rows : /\ rows[r].of = "booking" /\ rows[r].purpose = p
                                                 /\ Payable(rows[r].instrument) }) <= 1
    <3> DEFINE S == { r \in DOMAIN rows : /\ rows[r].of = "booking" /\ rows[r].purpose = p
                                          /\ Payable(rows[r].instrument) }
    <3>1. \A r, q \in S : r = q
      BY DEF RowsInv
    <3> SUFFICES Cardinality(S) <= 1
      OBVIOUS
    <3> HIDE DEF S
    <3>2. CASE S = {}
      BY <3>2, FS_EmptySet
    <3>3. CASE S # {}
      <4>1. PICK r : S = {r}
        BY <3>1, <3>3
      <4>2. Cardinality({r}) = 1
        BY FS_Singleton
      <4> QED
        BY <4>1, <4>2
    <3> QED
      BY <3>2, <3>3
  <2> QED
    BY <2>1 DEF AskedOnce, OneAskPerPurpose
<1> QED
  BY <1>1, Settled, PTL

(* A booking's counter is the sum of what was captured for it, each        *)
(* instrument once, and an answered capture leaves no row asking, unless   *)
(* it came before the row.                                                 *)
THEOREM MoneyStaysPlaced == Spec => []MoneyPlaced
<1>1. Inv => MoneyPlaced
  BY DEF Inv, CollectionInv, SocketInv, MoneyPlaced, TypeOK, LedgerInv, RowsInv
<1> QED
  BY <1>1, Settled, PTL

(* A capture is announced once it is recorded, and an event of a booking   *)
(* reaches the sockets of staff, of its customer and of the driver an      *)
(* allocation names, and no others.                                        *)
THEOREM AlwaysToldRightly == Spec => []ToldRightly
<1>1. Inv => ToldRightly
  <2> SUFFICES ASSUME Inv PROVE ToldRightly
    OBVIOUS
  <2>1. AnnouncedIsRecorded
    BY DEF Inv, CollectionInv, CallsInv, OnRow, AnnouncedIsRecorded
  <2>2. ASSUME NEW s \in Sockets, NEW kind \in EventKinds, NEW b \in Bookings, NEW d \in Users,
               sockets[s] # Closed, Hears(s, kind, b, d)
        PROVE  LET u == sockets[s].user IN
               \/ RoleOf[u] \in {"ADMIN", "OPS"}
               \/ u = CustomerOf[b]
               \/ kind = "allocation.made" /\ u = d
    <3>u. PICK u : u = sockets[s].user
      OBVIOUS
    <3>1. PICK room \in sockets[s].rooms : room \in BroadcastRooms(kind, b, d)
      BY <2>2 DEF Hears
    <3>2. MayBeIn(u, room)
      BY <2>2, <3>u DEF Inv, SocketInv, Allowed
    <3>3. \/ room \in { <<"dispatch">>, <<"admin">>, BookingRoom(b) }
          \/ kind = "allocation.made" /\ room = DriverRoom(d)
      BY <3>1 DEF BroadcastRooms, EventKinds, AttemptRooms, CreatedRooms, StatusRooms,
                  VehicleChangedRooms, OdometerRooms, CancelledRooms, AllocationRooms,
                  PaymentRooms, RequestRooms
    <3> SUFFICES RoleOf[u] \in {"ADMIN", "OPS"} \/ u = CustomerOf[b] \/ (kind = "allocation.made" /\ u = d)
      BY <3>u
    <3>4. CASE room \in { <<"dispatch">>, <<"admin">> }
      BY <3>2, <3>4 DEF MayBeIn, DriverRoom, BookingRoom, CanWatchBooking
    <3>5. CASE room = BookingRoom(b)
      BY <3>2, <3>5 DEF MayBeIn, DriverRoom, BookingRoom, CanWatchBooking
    <3>6. CASE kind = "allocation.made" /\ room = DriverRoom(d)
      BY <3>2, <3>6 DEF MayBeIn, DriverRoom, BookingRoom, CanWatchBooking
    <3> QED
      BY <3>3, <3>4, <3>5, <3>6
  <2> QED
    BY <2>1, <2>2 DEF ToldRightly, EyesOnly
<1> QED
  BY <1>1, Settled, PTL
-----------------------------------------------------------------------------
(* The conversation.                                                       *)

(* The steps that ask for the trip, before any cab was offered. *)
TripSteps ==
    {"BOOKING_TRIP_TYPE", "BOOKING_PICKUP", "BOOKING_DROP", "BOOKING_DATE", "BOOKING_TIME",
     "BOOKING_RETURN_DATE", "BOOKING_RETURN_TIME", "BOOKING_RENTAL_HOURS"}

(* What step s may rely on in row r beyond what Fits says: passengers are  *)
(* named after the cab, so that a list of cabs is for those named, and     *)
(* from the review on the trip is one of those seen in a review.           *)
Stands(s, r, seen) ==
    /\ Fits(s, r.draft)
    /\ s \in TripSteps => r.draft.count = 0
    /\ s = "BOOKING_DROP" /\ DateFirst => r.draft.at # 0
    /\ s = "BOOKING_PASSENGERS" => r.draft.name
    /\ s = "BOOKING_VEHICLE_SELECTION" =>
          \A cab \in r.draft.cabs : r.draft.count <= Seats[cab]
    /\ s \in {"BOOKING_REVIEW", "BOOKING_CREATED"} =>
          /\ Fits("BOOKING_CREATED", r.draft)
          /\ Content(r.draft) \in seen /\ r.draft.count <= Seats[r.draft.cab]
    /\ s = "BOOKING_CREATED" => r.active = Nothing
    /\ s \in {"CANCELLATION_REASON", "CANCELLATION_CONFIRMATION"} =>
          r.active # Nothing /\ r.draft.quoted = r.active

RowOK(r, seen) ==
    /\ r \in SessionRow
    /\ r.state = "SESSION_EXPIRED" => r.prev \in States \ {"SESSION_EXPIRED"}
    /\ Stands(Stand(r), r, seen)

(* A row names no booking but one that was made. *)
Known(r, made) == r.active # Nothing => made[r.active] \in BookingRow

(* How far an answer is says where its copy stands. *)
CopyOK(w, seen) ==
    /\ RowOK(w.row, seen)
    /\ w.at \in {"expiring", "sweep"} => w.row.state \notin Resting
    /\ w.at \in {"create", "made"} => w.row.state = "BOOKING_CREATED"

(* What was booked was seen in a review, and fits the cab. *)
Fitting(trip, seen) == trip \in seen /\ trip.count <= Seats[trip.cab]
Ordered(made, seen) == \A b \in BookingIds : made[b] # Nothing => Fitting(made[b].trip, seen)

ConversationInv ==
    /\ ConversationTypeOK
    /\ RowOK(session, reviewed) /\ Known(session, bookings)
    /\ \A p \in Slots :
          work[p] # Vacant => CopyOK(work[p], reviewed) /\ Known(work[p].row, bookings)
    /\ Ordered(bookings, reviewed)
-----------------------------------------------------------------------------
(* Rows.                                                                   *)

(* A row that goes to a step that stands is in order.                      *)
LEMMA Stood ==
    ASSUME NEW seen, NEW q \in SessionRow, q.state # "SESSION_EXPIRED", Stands(q.state, q, seen)
    PROVE  RowOK(q, seen)
BY DEF RowOK, Stand

LEMMA SeenMore ==
    ASSUME NEW r, NEW seen, NEW more, RowOK(r, seen), seen \subseteq more
    PROVE  RowOK(r, more)
BY DEF RowOK, Stands

LEMMA GoIs ==
    ASSUME NEW r \in SessionRow, NEW s \in States
    PROVE  /\ Go(r, s) \in SessionRow
           /\ Go(r, s).state = s /\ Go(r, s).draft = r.draft
           /\ Go(r, s).active = r.active /\ Go(r, s).review = r.review
BY DEF Go, SessionRow

LEMMA NoDraftIs ==
    NoDraft \in Draft /\ NoDraft.count = 0 /\ NoDraft.type = Nothing
BY ConversationAssumption DEF NoDraft, Draft

LEMMA ResetIs ==
    ASSUME NEW r \in SessionRow
    PROVE  /\ ResetDraft(r) \in SessionRow
           /\ ResetDraft(r).state = r.state /\ ResetDraft(r).prev = r.prev
           /\ ResetDraft(r).draft = NoDraft /\ ResetDraft(r).active = r.active
BY NoDraftIs DEF ResetDraft, SessionRow

(* The steps that ask for nothing yet, and the ways to them.               *)
FreeSteps == {"MAIN_MENU", "BOOKING_TRIP_TYPE", "MY_BOOKINGS", "BOOKING_DETAILS", "HUMAN_HANDOFF"}

LEMMA FreeStands ==
    ASSUME NEW seen, NEW s \in FreeSteps, NEW r \in SessionRow, s = "BOOKING_TRIP_TYPE" => r.draft.count = 0
    PROVE  Stands(s, r, seen)
BY DEF FreeSteps, Stands, Fits, TripSteps, BookingSteps

LEMMA GoFree ==
    ASSUME NEW seen, NEW s \in FreeSteps \ {"BOOKING_TRIP_TYPE"}, NEW r \in SessionRow
    PROVE  RowOK(Go(r, s), seen) /\ Go(r, s).active = r.active
<1>1. s \in States /\ s # "SESSION_EXPIRED" /\ s \in FreeSteps /\ s # "BOOKING_TRIP_TYPE"
  BY DEF FreeSteps, States, BookingSteps, Resting
<1>2. /\ Go(r, s) \in SessionRow /\ Go(r, s).state = s /\ Go(r, s).active = r.active
  BY <1>1, GoIs
<1>3. Stands(s, Go(r, s), seen)
  BY <1>1, <1>2, FreeStands
<1> QED
  BY <1>1, <1>2, <1>3, Stood

LEMMA MenuIs ==
    ASSUME NEW seen, NEW r \in SessionRow
    PROVE  /\ RowOK(Menu(r), seen) /\ Menu(r).active = r.active
           /\ RowOK(FreshMenu(r), seen) /\ FreshMenu(r).active = r.active
<1>1. "MAIN_MENU" \in FreeSteps \ {"BOOKING_TRIP_TYPE"}
  BY DEF FreeSteps
<1> QED
  BY <1>1, GoFree, ResetIs DEF Menu, FreshMenu

LEMMA EscalateIs ==
    ASSUME NEW seen, NEW r \in SessionRow
    PROVE  RowOK(EscalateToHuman(r), seen) /\ EscalateToHuman(r).active = r.active
<1> DEFINE h == [r EXCEPT !.handoff = TRUE]
<1>1. h \in SessionRow /\ h.active = r.active
  BY DEF SessionRow
<1>2. "HUMAN_HANDOFF" \in FreeSteps \ {"BOOKING_TRIP_TYPE"}
  BY DEF FreeSteps
<1> QED
  BY <1>1, <1>2, GoFree DEF EscalateToHuman

LEMMA StartIs ==
    ASSUME NEW seen, NEW r \in SessionRow, NEW q \in StartBooking(r)
    PROVE  RowOK(q, seen) /\ q.active = r.active
<1> DEFINE e == ResetDraft(r)
<1>1. /\ q = Go(e, "BOOKING_TRIP_TYPE")
      /\ "BOOKING_TRIP_TYPE" \in States /\ "BOOKING_TRIP_TYPE" \in FreeSteps
  BY DEF StartBooking, States, BookingSteps, FreeSteps
<1>2. /\ e \in SessionRow /\ e.draft.count = 0 /\ e.active = r.active
  BY ResetIs, NoDraftIs
<1>3. /\ q \in SessionRow /\ q.state = "BOOKING_TRIP_TYPE" /\ q.draft.count = 0
      /\ q.active = r.active
  BY <1>1, <1>2, GoIs
<1>4. Stands("BOOKING_TRIP_TYPE", q, seen)
  BY <1>1, <1>3, FreeStands
<1> QED
  BY <1>3, <1>4, Stood

(* What a row promises where it stands, the row left as it is.             *)
LEMMA RowStands ==
    ASSUME NEW seen, NEW r, RowOK(r, seen), r.state # "SESSION_EXPIRED"
    PROVE  /\ r \in SessionRow /\ r.draft \in Draft /\ r.state \in States
           /\ Stands(r.state, r, seen)
<1>1. r \in SessionRow /\ Stands(r.state, r, seen)
  BY DEF RowOK, Stand
<1> QED
  BY <1>1 DEF SessionRow
-----------------------------------------------------------------------------
(* The booking steps.  A copy whose draft alone changes.                   *)

LEMMA Redrafted ==
    ASSUME NEW r \in SessionRow, NEW d \in Draft, NEW q, q = [r EXCEPT !.draft = d]
    PROVE  /\ q \in SessionRow /\ q.draft = d /\ q.state = r.state /\ q.active = r.active
BY DEF SessionRow

(* The cabs a lookup lists take those they were asked for.                 *)
LEMMA OptionsStand ==
    ASSUME NEW seen, NEW r \in SessionRow, r.state # "SESSION_EXPIRED", Stands(r.state, r, seen),
           r.draft.type # Nothing,
           lookups \in 0 .. MaxLookups,
           NEW n \in Nat, r.draft.count \in {0, n},
           NEW q \in ShowVehicleOptions(r, n)
    PROVE  RowOK(q, seen) /\ q.active = r.active
<1> DEFINE Listed(cabs) == [r EXCEPT !.draft.offer = lookups + 1, !.draft.cabs = cabs,
                                     !.draft.cab = Nothing]
<1>1. CASE q = r
  BY <1>1, Stood
<1>2. CASE q = EscalateToHuman(r)
  BY <1>2, EscalateIs
<1>3. ASSUME NEW cabs \in Offered(n), Priceable(r.draft), lookups < MaxLookups,
             q = Go(Listed(cabs), "BOOKING_VEHICLE_SELECTION")
      PROVE  RowOK(q, seen) /\ q.active = r.active
  <2>1. cabs \subseteq Cabs /\ \A cab \in cabs : Seats[cab] >= n /\ Seats[cab] \in Nat
    BY <1>3, ConversationAssumption DEF Offered
  <2>2. r.draft \in Draft
    BY DEF SessionRow
  <2> DEFINE d == [r.draft EXCEPT !.offer = lookups + 1, !.cabs = cabs, !.cab = Nothing]
  <2>3. lookups + 1 \in 0 .. MaxLookups /\ lookups + 1 # 0
    BY <1>3, ConversationAssumption, SMTT(30)
  <2>4. /\ d \in Draft /\ d.offer = lookups + 1 /\ d.cabs = cabs
        /\ d.type = r.draft.type /\ d.pickup = r.draft.pickup /\ d.drop = r.draft.drop
        /\ d.at = r.draft.at /\ d.back = r.draft.back /\ d.count = r.draft.count
    BY <2>1, <2>2, <2>3 DEF Draft
  <2> DEFINE l == Listed(cabs)
  <2>5. l = [r EXCEPT !.draft = d]
    OBVIOUS
  <2> HIDE DEF d, l
  <2>6. l \in SessionRow /\ l.draft = d /\ l.active = r.active
    BY <2>4, <2>5, Redrafted
  <2>7. "BOOKING_VEHICLE_SELECTION" \in States
    BY DEF States, BookingSteps
  <2>8. q = Go(l, "BOOKING_VEHICLE_SELECTION")
    BY <1>3 DEF l
  <2>9. /\ q \in SessionRow /\ q.state = "BOOKING_VEHICLE_SELECTION" /\ q.draft = d
        /\ q.active = r.active
    BY <2>6, <2>7, <2>8, GoIs
  <2>10. Priceable(d) /\ d.type # Nothing /\ d.pickup
    BY <1>3, <2>4 DEF Priceable
  <2>11. \A cab \in d.cabs : d.count <= Seats[cab]
    BY <2>1, <2>4
  <2>12. Stands("BOOKING_VEHICLE_SELECTION", q, seen)
    BY <2>3, <2>4, <2>9, <2>10, <2>11 DEF Stands, Fits, TripSteps, BookingSteps
  <2> QED
    BY <2>9, <2>12, Stood
<1> QED
  BY <1>1, <1>2, <1>3 DEF ShowVehicleOptions
-----------------------------------------------------------------------------
(* One lemma per step: its answers leave rows in order.                    *)

LEMMA TripTypeAnswers ==
    ASSUME NEW seen, NEW r, RowOK(r, seen), r.state = "BOOKING_TRIP_TYPE", NEW q \in BookingTripType(r)
    PROVE  RowOK(q, seen) /\ q.active = r.active
<1>1. /\ r \in SessionRow /\ r.draft \in Draft /\ r.draft.count = 0
  BY RowStands DEF Stands, TripSteps
<1>2. ASSUME NEW t \in TripTypes, q = Go([r EXCEPT !.draft.type = t], "BOOKING_PICKUP")
      PROVE  RowOK(q, seen) /\ q.active = r.active
  <2> DEFINE d == [r.draft EXCEPT !.type = t]
             l == [r EXCEPT !.draft.type = t]
  <2>1. d \in Draft /\ d.type = t /\ d.count = 0
    BY <1>1 DEF Draft
  <2>2. l = [r EXCEPT !.draft = d]
    OBVIOUS
  <2> HIDE DEF d, l
  <2>3. l \in SessionRow /\ l.draft = d /\ l.active = r.active
    BY <1>1, <2>1, <2>2, Redrafted
  <2>4. "BOOKING_PICKUP" \in States
    BY DEF States, BookingSteps
  <2>5. q = Go(l, "BOOKING_PICKUP")
    BY <1>2 DEF l
  <2>6. /\ q \in SessionRow /\ q.state = "BOOKING_PICKUP" /\ q.draft = d /\ q.active = r.active
    BY <2>3, <2>4, <2>5, GoIs
  <2>7. t # Nothing
    BY ConversationAssumption
  <2>8. Stands("BOOKING_PICKUP", q, seen)
    BY <2>1, <2>6, <2>7 DEF Stands, Fits, TripSteps, BookingSteps
  <2> QED
    BY <2>6, <2>8, Stood
<1> QED
  BY <1>2 DEF BookingTripType

(* A draft that fits one of the steps for places, days and times.          *)
PlanSteps == {"BOOKING_DROP", "BOOKING_DATE", "BOOKING_TIME", "BOOKING_RETURN_DATE",
              "BOOKING_RETURN_TIME", "BOOKING_RENTAL_HOURS"}
Planned(d, s) ==
    /\ d.type # Nothing /\ d.pickup /\ d.count = 0
    /\ s = "BOOKING_DROP" /\ DateFirst => d.at # 0
    /\ s \in {"BOOKING_RETURN_DATE", "BOOKING_RETURN_TIME", "BOOKING_RENTAL_HOURS"} => d.at # 0

LEMMA StepsOn ==
    ASSUME NEW seen, NEW r \in SessionRow, NEW d \in Draft, NEW s \in PlanSteps,
           NEW l, l = [r EXCEPT !.draft = d], Planned(d, s)
    PROVE  /\ RowOK(Go(l, s), seen) /\ Go(l, s).active = r.active
           /\ Go(l, s).draft = d /\ Go(l, s).state = s
<1> DEFINE q == Go(l, s)
<1>1. l \in SessionRow /\ l.draft = d /\ l.active = r.active
  BY Redrafted
<1>2. s \in States /\ s # "SESSION_EXPIRED"
  BY DEF PlanSteps, States, BookingSteps
<1>3. q \in SessionRow /\ q.state = s /\ q.draft = d /\ q.active = r.active
  BY <1>1, <1>2, GoIs
<1> HIDE DEF q
<1>4. Stands(s, q, seen)
  BY <1>3 DEF Stands, Fits, TripSteps, BookingSteps, PlanSteps, Planned
<1>5. RowOK(q, seen)
  BY <1>2, <1>3, <1>4, Stood
<1> QED
  BY <1>3, <1>5 DEF q

(* Such a step asked again, the draft as it was.                           *)
LEMMA StepsBack ==
    ASSUME NEW seen, NEW r \in SessionRow, NEW s \in PlanSteps, Planned(r.draft, s)
    PROVE  /\ RowOK(Go(r, s), seen) /\ Go(r, s).active = r.active
           /\ Go(r, s).draft = r.draft /\ Go(r, s).state = s
<1>1. r.draft \in Draft /\ r = [r EXCEPT !.draft = r.draft]
  BY DEF SessionRow
<1> QED
  BY <1>1, StepsOn

LEMMA RouteFinished ==
    ASSUME NEW seen, NEW r \in SessionRow, r.draft.type # Nothing, r.draft.count = 0,
           NEW drop \in RoutePages
    PROVE  RowOK(FinishRoute(r, drop), seen) /\ FinishRoute(r, drop).active = r.active
<1> DEFINE p == IF drop = "none" THEN r.draft.drop ELSE drop
           d == [r.draft EXCEPT !.pickup = TRUE, !.drop = p]
           l == [r EXCEPT !.draft.pickup = TRUE, !.draft.drop = IF drop = "none" THEN @ ELSE drop]
<1>1. r.draft \in Draft
  BY DEF SessionRow
<1>2. p \in {"none", "place"} /\ l = [r EXCEPT !.draft = d]
  BY <1>1 DEF Draft, RoutePages, SessionRow
<1> HIDE DEF p
<1>3. d \in Draft /\ d.type = r.draft.type /\ d.count = 0 /\ d.pickup
  BY <1>1, <1>2 DEF Draft
<1> HIDE DEF d, l
<1>4. "BOOKING_DATE" \in PlanSteps /\ Planned(d, "BOOKING_DATE")
  BY <1>3 DEF PlanSteps, Planned
<1>5. RowOK(Go(l, "BOOKING_DATE"), seen) /\ Go(l, "BOOKING_DATE").active = r.active
  BY <1>2, <1>3, <1>4, StepsOn
<1> QED
  BY <1>5 DEF l, FinishRoute

LEMMA PickupAnswers ==
    ASSUME NEW seen, NEW r, RowOK(r, seen), r.state = "BOOKING_PICKUP", NEW q \in BookingPickup(r)
    PROVE  RowOK(q, seen) /\ q.active = r.active
<1>1. /\ r \in SessionRow /\ r.draft \in Draft /\ r.draft.count = 0 /\ r.draft.type # Nothing
  BY RowStands DEF Stands, Fits, TripSteps, BookingSteps
<1>2. CASE q = FinishPickup(r)
  <2> DEFINE d == [r.draft EXCEPT !.pickup = TRUE]
             l == [r EXCEPT !.draft.pickup = TRUE]
  <2>1. d \in Draft /\ d.type = r.draft.type /\ d.count = 0 /\ d.pickup
    BY <1>1 DEF Draft
  <2>2. l = [r EXCEPT !.draft = d]
    OBVIOUS
  <2>3. \/ q = Go(l, "BOOKING_DATE")
        \/ q = Go(l, "BOOKING_DROP") /\ ~DateFirst
    BY <1>2 DEF FinishPickup
  <2> HIDE DEF d, l
  <2> QED
    BY <1>1, <2>1, <2>2, <2>3, StepsOn DEF PlanSteps, Planned
<1> QED
  BY <1>1, <1>2, RouteFinished DEF BookingPickup

LEMMA DropAnswers ==
    ASSUME NEW seen, NEW r, RowOK(r, seen), r.state = "BOOKING_DROP", lookups \in 0 .. MaxLookups,
           NEW q \in BookingDrop(r)
    PROVE  RowOK(q, seen) /\ q.active = r.active
<1>1. /\ r \in SessionRow /\ r.draft \in Draft /\ r.draft.count = 0 /\ r.draft.type # Nothing
      /\ r.draft.pickup /\ (DateFirst => r.draft.at # 0)
  BY RowStands DEF Stands, Fits, TripSteps, BookingSteps
<1>2. CASE q \in FinishDrop(r)
  <2> DEFINE d == [r.draft EXCEPT !.drop = "place"]
             l == [r EXCEPT !.draft.drop = "place"]
  <2>1. d \in Draft /\ d.type = r.draft.type /\ d.count = 0 /\ d.pickup /\ d.at = r.draft.at
    BY <1>1 DEF Draft
  <2>2. l = [r EXCEPT !.draft = d]
    OBVIOUS
  <2>3. \/ q = Go(l, "BOOKING_DATE")
        \/ q = Go(l, "BOOKING_RETURN_DATE") /\ DateFirst
        \/ q \in ShowVehicleOptions(l, 0) /\ DateFirst
    BY <1>2 DEF FinishDrop
  <2> HIDE DEF d, l
  <2>4. CASE q \in ShowVehicleOptions(l, 0) /\ DateFirst
    <3>1. l \in SessionRow /\ l.draft = d /\ l.state = "BOOKING_DROP" /\ l.active = r.active
      BY <1>1, <2>1, <2>2, Redrafted
    <3>2. Stands("BOOKING_DROP", l, seen)
      BY <1>1, <2>1, <2>4, <3>1 DEF Stands, Fits, TripSteps, BookingSteps
    <3> QED
      BY <1>1, <2>1, <2>4, <3>1, <3>2, OptionsStand
  <2> QED
    BY <1>1, <2>1, <2>2, <2>3, <2>4, StepsOn DEF PlanSteps, Planned
<1> QED
  BY <1>1, <1>2, RouteFinished DEF BookingDrop

LEMMA TimeAnswers ==
    ASSUME NEW seen, NEW r, RowOK(r, seen), r.state = "BOOKING_TIME", lookups \in 0 .. MaxLookups,
           NEW q \in BookingTime(r)
    PROVE  RowOK(q, seen) /\ q.active = r.active
<1>1. /\ r \in SessionRow /\ r.draft \in Draft /\ r.draft.count = 0 /\ r.draft.type # Nothing
      /\ r.draft.pickup
  BY RowStands DEF Stands, Fits, TripSteps, BookingSteps
<1>2. ASSUME NEW t \in Times,
             LET l == [r EXCEPT !.draft.at = t]
             IN  \/ q = Go(l, "BOOKING_RENTAL_HOURS") \/ q = Go(l, "BOOKING_DROP")
                 \/ q = Go(l, "BOOKING_RETURN_DATE") \/ q \in ShowVehicleOptions(l, 0)
      PROVE  RowOK(q, seen) /\ q.active = r.active
  <2> DEFINE d == [r.draft EXCEPT !.at = t]
             l == [r EXCEPT !.draft.at = t]
  <2>1. d \in Draft /\ d.type = r.draft.type /\ d.count = 0 /\ d.pickup /\ d.at = t
    BY <1>1 DEF Draft
  <2>2. l = [r EXCEPT !.draft = d]
    OBVIOUS
  <2>3. t # 0
    BY ConversationAssumption
  <2>4. \/ q = Go(l, "BOOKING_RENTAL_HOURS") \/ q = Go(l, "BOOKING_DROP")
        \/ q = Go(l, "BOOKING_RETURN_DATE") \/ q \in ShowVehicleOptions(l, 0)
    BY <1>2
  <2> HIDE DEF d, l
  <2>5. CASE q \in ShowVehicleOptions(l, 0)
    <3>1. l \in SessionRow /\ l.draft = d /\ l.state = "BOOKING_TIME" /\ l.active = r.active
      BY <1>1, <2>1, <2>2, Redrafted
    <3>2. Stands("BOOKING_TIME", l, seen)
      BY <1>1, <2>1, <3>1 DEF Stands, Fits, TripSteps, BookingSteps
    <3> QED
      BY <1>1, <2>1, <2>5, <3>1, <3>2, OptionsStand
  <2> QED
    BY <1>1, <2>1, <2>2, <2>3, <2>4, <2>5, StepsOn DEF PlanSteps, Planned
<1>3. CASE q = Go(r, "BOOKING_DATE")
  BY <1>1, <1>3, StepsBack DEF PlanSteps, Planned
<1> QED
  BY <1>2, <1>3 DEF BookingTime

LEMMA DateAnswers ==
    ASSUME NEW seen, NEW r, RowOK(r, seen), r.state = "BOOKING_DATE", lookups \in 0 .. MaxLookups,
           NEW q \in BookingDate(r)
    PROVE  RowOK(q, seen) /\ q.active = r.active
<1>1. /\ r \in SessionRow /\ r.draft \in Draft /\ r.draft.count = 0 /\ r.draft.type # Nothing
      /\ r.draft.pickup
  BY RowStands DEF Stands, Fits, TripSteps, BookingSteps
<1> DEFINE s == Go(r, "BOOKING_TIME")
<1>2. /\ RowOK(s, seen) /\ s.active = r.active /\ s.draft = r.draft /\ s.state = "BOOKING_TIME"
      /\ s \in SessionRow
  BY <1>1, StepsBack DEF RowOK, PlanSteps, Planned
<1>3. q = r \/ q = s \/ q = Go(s, "BOOKING_DATE") \/ q \in BookingTime(s)
  BY DEF BookingDate
<1> HIDE DEF s
<1>4. RowOK(Go(s, "BOOKING_DATE"), seen) /\ Go(s, "BOOKING_DATE").active = r.active
  BY <1>1, <1>2, StepsBack DEF PlanSteps, Planned
<1> QED
  BY <1>2, <1>3, <1>4, TimeAnswers
LEMMA ReturnTimeAnswers ==
    ASSUME NEW seen, NEW r, RowOK(r, seen), r.state = "BOOKING_RETURN_TIME", lookups \in 0 .. MaxLookups,
           NEW q \in BookingReturnTime(r)
    PROVE  RowOK(q, seen) /\ q.active = r.active
<1>1. /\ r \in SessionRow /\ r.draft \in Draft /\ r.draft.count = 0 /\ r.draft.type # Nothing
      /\ r.draft.pickup /\ r.draft.at # 0
  BY RowStands DEF Stands, Fits, TripSteps, BookingSteps
<1>2. ASSUME NEW t \in Times, q \in ShowVehicleOptions([r EXCEPT !.draft.back = t], 0)
      PROVE  RowOK(q, seen) /\ q.active = r.active
  <2> DEFINE d == [r.draft EXCEPT !.back = t]
             l == [r EXCEPT !.draft.back = t]
  <2>1. /\ d \in Draft /\ d.type = r.draft.type /\ d.count = 0 /\ d.pickup
        /\ d.at = r.draft.at
    BY <1>1 DEF Draft
  <2>2. l = [r EXCEPT !.draft = d]
    OBVIOUS
  <2>3. q \in ShowVehicleOptions(l, 0)
    BY <1>2
  <2> HIDE DEF d, l
  <2>4. l \in SessionRow /\ l.draft = d /\ l.state = "BOOKING_RETURN_TIME" /\ l.active = r.active
    BY <1>1, <2>1, <2>2, Redrafted
  <2>5. Stands("BOOKING_RETURN_TIME", l, seen)
    BY <1>1, <2>1, <2>4 DEF Stands, Fits, TripSteps, BookingSteps
  <2> QED
    BY <1>1, <2>1, <2>3, <2>4, <2>5, OptionsStand
<1>3. CASE q = Go(r, "BOOKING_RETURN_DATE")
  BY <1>1, <1>3, StepsBack DEF PlanSteps, Planned
<1> QED
  BY <1>2, <1>3 DEF BookingReturnTime

LEMMA ReturnDateAnswers ==
    ASSUME NEW seen, NEW r, RowOK(r, seen), r.state = "BOOKING_RETURN_DATE", lookups \in 0 .. MaxLookups,
           NEW q \in BookingReturnDate(r)
    PROVE  RowOK(q, seen) /\ q.active = r.active
<1>1. /\ r \in SessionRow /\ r.draft \in Draft /\ r.draft.count = 0 /\ r.draft.type # Nothing
      /\ r.draft.pickup /\ r.draft.at # 0
  BY RowStands DEF Stands, Fits, TripSteps, BookingSteps
<1> DEFINE s == Go(r, "BOOKING_RETURN_TIME")
<1>2. /\ RowOK(s, seen) /\ s.active = r.active /\ s.draft = r.draft /\ s.state = "BOOKING_RETURN_TIME"
      /\ s \in SessionRow
  BY <1>1, StepsBack DEF RowOK, PlanSteps, Planned
<1>3. q = r \/ q = s \/ q = Go(s, "BOOKING_RETURN_DATE") \/ q \in BookingReturnTime(s)
  BY DEF BookingReturnDate
<1> HIDE DEF s
<1>4. RowOK(Go(s, "BOOKING_RETURN_DATE"), seen) /\ Go(s, "BOOKING_RETURN_DATE").active = r.active
  BY <1>1, <1>2, StepsBack DEF PlanSteps, Planned
<1> QED
  BY <1>2, <1>3, <1>4, ReturnTimeAnswers

LEMMA RentalHoursAnswers ==
    ASSUME NEW seen, NEW r, RowOK(r, seen), r.state = "BOOKING_RENTAL_HOURS", lookups \in 0 .. MaxLookups,
           NEW q \in BookingRentalHours(r)
    PROVE  RowOK(q, seen) /\ q.active = r.active
<1>1. /\ r \in SessionRow /\ r.draft \in Draft /\ r.draft.count = 0 /\ r.draft.type # Nothing
      /\ r.draft.pickup /\ r.draft.at # 0
  BY RowStands DEF Stands, Fits, TripSteps, BookingSteps
<1> DEFINE d == [r.draft EXCEPT !.hours = TRUE]
           l == [r EXCEPT !.draft.hours = TRUE]
<1>2. /\ d \in Draft /\ d.type = r.draft.type /\ d.count = 0 /\ d.pickup /\ d.at = r.draft.at
  BY <1>1 DEF Draft
<1>3. l = [r EXCEPT !.draft = d]
  OBVIOUS
<1>4. q = r \/ q \in ShowVehicleOptions(l, 0)
  BY DEF BookingRentalHours
<1> HIDE DEF d, l
<1>5. l \in SessionRow /\ l.draft = d /\ l.state = "BOOKING_RENTAL_HOURS" /\ l.active = r.active
  BY <1>1, <1>2, <1>3, Redrafted
<1>6. Stands("BOOKING_RENTAL_HOURS", l, seen)
  BY <1>1, <1>2, <1>5 DEF Stands, Fits, TripSteps, BookingSteps
<1> QED
  BY <1>1, <1>2, <1>4, <1>5, <1>6, OptionsStand
-----------------------------------------------------------------------------
(* The cab, the passengers and the review.                                 *)

LEMMA ContentIs ==
    ASSUME NEW d \in Draft
    PROVE  Content(d) \in Contents
BY DEF Content, Contents, Draft

(* The review puts what the draft holds. *)
LEMMA ReviewStands ==
    ASSUME NEW seen, NEW r \in SessionRow, Fits("BOOKING_REVIEW", r.draft),
           r.draft.count <= Seats[r.draft.cab],
           ShowBookingReview(r).review \in seen \cup {Nothing}
    PROVE  RowOK(ShowBookingReview(r), seen) /\ ShowBookingReview(r).active = r.active
<1> DEFINE c == Content(r.draft)
           l == [r EXCEPT !.review = c]
           q == Go(l, "BOOKING_REVIEW")
<1>1. c \in Contents /\ c # Nothing
  BY ContentIs, ConversationAssumption DEF SessionRow
<1> HIDE DEF c
<1>2. l \in SessionRow /\ l.draft = r.draft /\ l.active = r.active /\ l.review = c
  BY <1>1 DEF SessionRow
<1>3. q = ShowBookingReview(r)
  BY DEF ShowBookingReview, c
<1>4. "BOOKING_REVIEW" \in States
  BY DEF States, BookingSteps
<1> HIDE DEF l
<1>5. /\ q \in SessionRow /\ q.state = "BOOKING_REVIEW" /\ q.draft = r.draft
      /\ q.active = r.active /\ q.review = c
  BY <1>2, <1>4, GoIs
<1> HIDE DEF q
<1>6. Fits("BOOKING_CREATED", r.draft)
  BY DEF Fits, BookingSteps
<1>7. c \in seen
  BY <1>1, <1>3, <1>5
<1>8. Stands("BOOKING_REVIEW", q, seen)
  BY <1>5, <1>6, <1>7 DEF Stands, TripSteps, c
<1>9. RowOK(q, seen)
  BY <1>5, <1>8, Stood
<1> QED
  BY <1>3, <1>5, <1>9

LEMMA VehicleAnswers ==
    ASSUME NEW seen, NEW r, RowOK(r, seen), r.state = "BOOKING_VEHICLE_SELECTION",
           NEW q \in BookingVehicleSelection(r), q.review \in seen \cup {Nothing}
    PROVE  RowOK(q, seen) /\ q.active = r.active
<1>1. /\ r \in SessionRow /\ r.draft \in Draft
      /\ Fits("BOOKING_VEHICLE_SELECTION", r.draft)
      /\ \A cab \in r.draft.cabs : r.draft.count <= Seats[cab]
  BY RowStands DEF Stands
<1>2. ASSUME NEW cab \in r.draft.cabs, q = ChooseVehicle(r, cab)
      PROVE  RowOK(q, seen) /\ q.active = r.active
  <2> DEFINE d == [r.draft EXCEPT !.cab = cab, !.fare = r.draft.offer]
             l == [r EXCEPT !.draft.cab = cab, !.draft.fare = r.draft.offer]
  <2>1. /\ d \in Draft /\ d.type = r.draft.type /\ d.pickup = r.draft.pickup
        /\ d.drop = r.draft.drop /\ d.at = r.draft.at /\ d.back = r.draft.back
        /\ d.offer = r.draft.offer /\ d.cabs = r.draft.cabs /\ d.cab = cab
        /\ d.fare = r.draft.offer /\ d.name = r.draft.name /\ d.count = r.draft.count
    BY <1>1 DEF Draft
  <2>2. l = [r EXCEPT !.draft = d]
    BY <1>1 DEF SessionRow, Draft
  <2>3. q = IF l.draft.name /\ l.draft.count # 0 THEN ShowBookingReview(l)
            ELSE Go(l, "BOOKING_CUSTOMER_NAME")
    BY <1>2 DEF ChooseVehicle
  <2> HIDE DEF d, l
  <2>4. l \in SessionRow /\ l.draft = d /\ l.active = r.active
    BY <1>1, <2>1, <2>2, Redrafted
  <2>5. Fits("BOOKING_CUSTOMER_NAME", d) /\ d.count <= Seats[d.cab]
    BY <1>1, <2>1 DEF Fits, Priceable, BookingSteps
  <2>6. CASE d.name /\ d.count # 0
    <3>1. Fits("BOOKING_REVIEW", d)
      BY <2>5, <2>6 DEF Fits, BookingSteps
    <3> QED
      BY <2>3, <2>4, <2>5, <2>6, <3>1, ReviewStands
  <2>7. CASE ~(d.name /\ d.count # 0)
    <3>1. "BOOKING_CUSTOMER_NAME" \in States
      BY DEF States, BookingSteps
    <3>2. /\ q \in SessionRow /\ q.state = "BOOKING_CUSTOMER_NAME" /\ q.draft = d
          /\ q.active = r.active
      BY <2>3, <2>4, <2>7, <3>1, GoIs
    <3>3. Stands("BOOKING_CUSTOMER_NAME", q, seen)
      BY <2>5, <3>2 DEF Stands, TripSteps
    <3> QED
      BY <3>2, <3>3, Stood
  <2> QED
    BY <2>6, <2>7
<1> QED
  BY <1>2 DEF BookingVehicleSelection

LEMMA NameAnswers ==
    ASSUME NEW seen, NEW r, RowOK(r, seen), r.state = "BOOKING_CUSTOMER_NAME", NEW q \in BookingCustomerName(r)
    PROVE  RowOK(q, seen) /\ q.active = r.active
<1>1. /\ r \in SessionRow /\ r.draft \in Draft /\ Fits("BOOKING_CUSTOMER_NAME", r.draft)
  BY RowStands DEF Stands
<1> DEFINE d == [r.draft EXCEPT !.name = TRUE]
           l == [r EXCEPT !.draft.name = TRUE]
<1>2. /\ d \in Draft /\ d.type = r.draft.type /\ d.pickup = r.draft.pickup
      /\ d.drop = r.draft.drop /\ d.at = r.draft.at /\ d.back = r.draft.back
      /\ d.offer = r.draft.offer /\ d.cabs = r.draft.cabs /\ d.cab = r.draft.cab
      /\ d.fare = r.draft.fare /\ d.name
  BY <1>1 DEF Draft
<1>3. l = [r EXCEPT !.draft = d]
  OBVIOUS
<1>4. q = r \/ q = Go(l, "BOOKING_PASSENGERS")
  BY DEF BookingCustomerName
<1> HIDE DEF d, l
<1>5. l \in SessionRow /\ l.draft = d /\ l.active = r.active
  BY <1>1, <1>2, <1>3, Redrafted
<1>6. CASE q = Go(l, "BOOKING_PASSENGERS")
  <2>1. "BOOKING_PASSENGERS" \in States
    BY DEF States, BookingSteps
  <2>2. /\ q \in SessionRow /\ q.state = "BOOKING_PASSENGERS" /\ q.draft = d
        /\ q.active = r.active
    BY <1>5, <1>6, <2>1, GoIs
  <2>3. Fits("BOOKING_PASSENGERS", d)
    BY <1>1, <1>2 DEF Fits, Priceable, BookingSteps
  <2>4. Stands("BOOKING_PASSENGERS", q, seen)
    BY <1>2, <2>2, <2>3 DEF Stands, TripSteps
  <2> QED
    BY <2>2, <2>4, Stood
<1> QED
  BY <1>4, <1>6

LEMMA PassengersAnswers ==
    ASSUME NEW seen, NEW r, RowOK(r, seen), r.state = "BOOKING_PASSENGERS", lookups \in 0 .. MaxLookups,
           NEW q \in BookingPassengers(r), q.review \in seen \cup {Nothing}
    PROVE  RowOK(q, seen) /\ q.active = r.active
<1>1. /\ r \in SessionRow /\ r.draft \in Draft /\ Fits("BOOKING_PASSENGERS", r.draft)
      /\ r.draft.name
  BY RowStands DEF Stands
<1>2. ASSUME NEW n \in Parties,
             LET l == [r EXCEPT !.draft.count = n]
             IN  IF r.draft.cab \in r.draft.cabs /\ n > Seats[r.draft.cab]
                 THEN q \in ShowVehicleOptions(l, n) ELSE q = ShowBookingReview(l)
      PROVE  RowOK(q, seen) /\ q.active = r.active
  <2> DEFINE d == [r.draft EXCEPT !.count = n]
             l == [r EXCEPT !.draft.count = n]
  <2>1. /\ d \in Draft /\ d.type = r.draft.type /\ d.pickup = r.draft.pickup
        /\ d.drop = r.draft.drop /\ d.at = r.draft.at /\ d.back = r.draft.back
        /\ d.offer = r.draft.offer /\ d.cabs = r.draft.cabs /\ d.cab = r.draft.cab
        /\ d.fare = r.draft.fare /\ d.name = r.draft.name /\ d.count = n
    BY <1>1 DEF Draft
  <2>2. l = [r EXCEPT !.draft = d]
    OBVIOUS
  <2>3. IF d.cab \in d.cabs /\ n > Seats[d.cab]
        THEN q \in ShowVehicleOptions(l, n) ELSE q = ShowBookingReview(l)
    BY <1>2, <2>1
  <2> HIDE DEF d, l
  <2>4. /\ l \in SessionRow /\ l.draft = d /\ l.active = r.active
        /\ l.state = "BOOKING_PASSENGERS"
    BY <1>1, <2>1, <2>2, Redrafted
  <2>5. Fits("BOOKING_PASSENGERS", d) /\ d.name
    BY <1>1, <2>1 DEF Fits, Priceable, BookingSteps
  <2>6. /\ n \in Nat /\ n # 0 /\ d.cab \in d.cabs /\ d.type # Nothing
        /\ Seats[d.cab] \in Nat
    <3>1. n \in Nat /\ n # 0
      BY ConversationAssumption
    <3>2. d.cab \in d.cabs /\ d.type # Nothing
      BY <2>5 DEF Fits, BookingSteps
    <3>3. d.cabs \subseteq Cabs
      BY <2>1 DEF Draft
    <3> QED
      BY <3>1, <3>2, <3>3, ConversationAssumption
  <2>7. CASE n > Seats[d.cab]
    <3>1. Stands("BOOKING_PASSENGERS", l, seen)
      BY <2>4, <2>5 DEF Stands, TripSteps
    <3>2. q \in ShowVehicleOptions(l, n) /\ l.draft.count \in {0, n}
      BY <2>1, <2>3, <2>4, <2>6, <2>7
    <3> QED
      BY <2>4, <2>6, <3>1, <3>2, OptionsStand
  <2>8. CASE ~(n > Seats[d.cab])
    <3>1. q = ShowBookingReview(l) /\ d.count <= Seats[d.cab]
      BY <2>1, <2>3, <2>6, <2>8
    <3>2. Fits("BOOKING_REVIEW", d)
      BY <2>1, <2>5, <2>6 DEF Fits, BookingSteps
    <3> QED
      BY <2>4, <3>1, <3>2, ReviewStands
  <2> QED
    BY <2>7, <2>8
<1> QED
  BY <1>2 DEF BookingPassengers

(* The trip that was seen in a review and may be confirmed.                *)
Agreed(r, seen) ==
    /\ r \in SessionRow /\ Fits("BOOKING_CREATED", r.draft)
    /\ Content(r.draft) \in seen /\ r.draft.count <= Seats[r.draft.cab]

LEMMA AgreedStands ==
    ASSUME NEW seen, NEW r, Agreed(r, seen), r.active = Nothing
    PROVE  RowOK(Go(r, "BOOKING_CREATED"), seen) /\ Go(r, "BOOKING_CREATED").active = Nothing
<1> DEFINE s == "BOOKING_CREATED"
           q == Go(r, s)
<1>1. s \in States /\ s # "SESSION_EXPIRED" /\ r \in SessionRow
  BY DEF States, BookingSteps, Agreed
<1>2. q \in SessionRow /\ q.state = s /\ q.draft = r.draft /\ q.active = Nothing
  BY <1>1, GoIs
<1> HIDE DEF q
<1>3. Fits(s, q.draft)
  BY <1>2 DEF Agreed
<1>4. Stands(s, q, seen)
  BY <1>2, <1>3 DEF Agreed, Stands, TripSteps
<1>5. RowOK(q, seen)
  BY <1>1, <1>2, <1>4, Stood
<1> QED
  BY <1>2, <1>5 DEF q

LEMMA StaysAgreed ==
    ASSUME NEW seen, NEW r, RowOK(r, seen), r.state \in {"BOOKING_REVIEW", "BOOKING_CREATED"}
    PROVE  Agreed(r, seen) /\ (r.state = "BOOKING_CREATED" => r.active = Nothing)
<1>1. r.state # "SESSION_EXPIRED"
  OBVIOUS
<1> QED
  BY <1>1, RowStands DEF Stands, Agreed

LEMMA ReviewAnswers ==
    ASSUME NEW seen, NEW r, RowOK(r, seen), r.state = "BOOKING_REVIEW", NEW q \in BookingReview(r),
           q.review \in seen \cup {Nothing}
    PROVE  RowOK(q, seen) /\ q.active \in {r.active, Nothing}
<1>1. Agreed(r, seen) /\ r \in SessionRow
  BY StaysAgreed DEF RowOK
<1>2. CASE q = ConfirmReview(r)
  <2> DEFINE l == [r EXCEPT !.active = Nothing]
  <2>1. q = Go(l, "BOOKING_CREATED")
    BY <1>2 DEF ConfirmReview
  <2>2. l \in SessionRow /\ l.draft = r.draft /\ l.active = Nothing
    BY <1>1 DEF SessionRow
  <2>3. Agreed(l, seen)
    BY <1>1, <2>2 DEF Agreed
  <2> HIDE DEF l
  <2> QED
    BY <2>1, <2>2, <2>3, AgreedStands
<1>3. CASE q = ShowBookingReview(r)
  <2>1. Fits("BOOKING_REVIEW", r.draft)
    BY <1>1 DEF Agreed, Fits, BookingSteps
  <2> QED
    BY <1>1, <1>3, <2>1, ReviewStands DEF Agreed
<1> QED
  BY <1>1, <1>2, <1>3, StartIs, MenuIs DEF BookingReview

-----------------------------------------------------------------------------
(* Bookings already made.                                                  *)

LEMMA MyBookingsIs ==
    ASSUME NEW seen, NEW r \in SessionRow
    PROVE  /\ RowOK(ShowMyBookings(r), seen) /\ ShowMyBookings(r).active = r.active
           /\ RowOK(ShowMyBookings(Go(r, "MY_BOOKINGS")), seen)
           /\ ShowMyBookings(Go(r, "MY_BOOKINGS")).active = r.active
<1>1. /\ "BOOKING_DETAILS" \in FreeSteps \ {"BOOKING_TRIP_TYPE"}
      /\ "MY_BOOKINGS" \in States
  BY DEF FreeSteps, States
<1>2. Go(r, "MY_BOOKINGS") \in SessionRow /\ Go(r, "MY_BOOKINGS").active = r.active
  BY <1>1, GoIs
<1> QED
  BY <1>1, <1>2, GoFree, MenuIs DEF ShowMyBookings

(* The reason is asked once the fee of the booking in hand was quoted.     *)
LEMMA PromptIs ==
    ASSUME NEW seen, NEW r, RowOK(r, seen), NEW q \in PromptBookingForCancellation(r)
    PROVE  RowOK(q, seen) /\ q.active = r.active
<1>1. r \in SessionRow /\ r.draft \in Draft
  BY DEF RowOK, SessionRow
<1>2. ASSUME r.active # Nothing, q = Go([r EXCEPT !.draft.quoted = r.active], "CANCELLATION_REASON")
      PROVE  RowOK(q, seen) /\ q.active = r.active
  <2> DEFINE d == [r.draft EXCEPT !.quoted = r.active]
             l == [r EXCEPT !.draft.quoted = r.active]
  <2>1. r.active \in BookingIds
    BY <1>1, <1>2 DEF SessionRow
  <2>2. d \in Draft /\ d.quoted = r.active
    BY <1>1, <2>1 DEF Draft
  <2>3. l = [r EXCEPT !.draft = d]
    OBVIOUS
  <2>4. q = Go(l, "CANCELLATION_REASON") /\ "CANCELLATION_REASON" \in States
    BY <1>2 DEF States
  <2> HIDE DEF d, l
  <2>5. l \in SessionRow /\ l.draft = d /\ l.active = r.active
    BY <1>1, <2>2, <2>3, Redrafted
  <2>6. /\ q \in SessionRow /\ q.state = "CANCELLATION_REASON" /\ q.draft = d
        /\ q.active = r.active
    BY <2>4, <2>5, GoIs
  <2>7. Stands("CANCELLATION_REASON", q, seen)
    BY <1>2, <2>2, <2>6 DEF Stands, Fits, TripSteps, BookingSteps
  <2> QED
    BY <2>6, <2>7, Stood
<1> QED
  BY <1>1, <1>2, MyBookingsIs DEF PromptBookingForCancellation

LEMMA DetailsAnswers ==
    ASSUME NEW seen, NEW r, RowOK(r, seen), r.state = "BOOKING_DETAILS", NEW q \in BookingDetailsSelection(r)
    PROVE  RowOK(q, seen) /\ q.active \in {r.active} \cup Made
<1>1. r \in SessionRow
  BY DEF RowOK
<1>2. ASSUME NEW b \in Made, q = [r EXCEPT !.active = b]
      PROVE  RowOK(q, seen) /\ q.active = b
  <2>1. b \in BookingIds
    BY DEF Made
  <2>2. q \in SessionRow /\ q.active = b /\ q.state = "BOOKING_DETAILS"
    BY <1>1, <1>2, <2>1 DEF SessionRow
  <2>3. Stands("BOOKING_DETAILS", q, seen)
    BY <2>2, FreeStands DEF FreeSteps
  <2> QED
    BY <2>2, <2>3, Stood
<1> QED
  BY <1>1, <1>2, MyBookingsIs, PromptIs DEF BookingDetailsSelection

LEMMA ReasonAnswers ==
    ASSUME NEW seen, NEW r, RowOK(r, seen), r.state = "CANCELLATION_REASON", NEW q \in CancellationReason(r)
    PROVE  RowOK(q, seen) /\ q.active = r.active
<1>1. r \in SessionRow /\ r.active # Nothing /\ r.draft.quoted = r.active
  BY RowStands DEF Stands
<1>2. CASE q = Go(r, "CANCELLATION_CONFIRMATION")
  <2>1. "CANCELLATION_CONFIRMATION" \in States
    BY DEF States
  <2>2. /\ q \in SessionRow /\ q.state = "CANCELLATION_CONFIRMATION" /\ q.draft = r.draft
        /\ q.active = r.active
    BY <1>1, <1>2, <2>1, GoIs
  <2>3. Stands("CANCELLATION_CONFIRMATION", q, seen)
    BY <1>1, <2>2 DEF Stands, Fits, TripSteps, BookingSteps
  <2> QED
    BY <2>2, <2>3, Stood
<1> QED
  BY <1>2 DEF CancellationReason
-----------------------------------------------------------------------------
(* One message.                                                            *)

(* A row no answer of r has made out of order, whose booking r or the      *)
(* conversation knew already.                                              *)
Follows(q, r, seen) == RowOK(q, seen) /\ q.active \in {r.active, Nothing} \cup Made

LEMMA IntentAnswers ==
    ASSUME NEW seen, NEW r, RowOK(r, seen), NEW q \in RouteFromIntent(r) \cup Interrupt(r)
    PROVE  Follows(q, r, seen)
<1>1. r \in SessionRow
  BY DEF RowOK
<1>2. \/ q \in StartBooking(r) \/ q \in PromptBookingForCancellation(r)
      \/ q = r \/ q = Menu(r) \/ q = FreshMenu(r)
      \/ q = ShowMyBookings(Go(r, "MY_BOOKINGS")) \/ q = EscalateToHuman(r)
  BY DEF RouteFromIntent, Interrupt
<1> QED
  BY <1>1, <1>2, StartIs, PromptIs, MenuIs, MyBookingsIs, EscalateIs DEF Follows

LEMMA HandlerAnswers ==
    ASSUME NEW seen, NEW r, RowOK(r, seen), r.state \in States \ {"SESSION_EXPIRED", "HUMAN_HANDOFF"},
           lookups \in 0 .. MaxLookups, NEW q \in Handler(r), q.review \in seen \cup {Nothing}
    PROVE  Follows(q, r, seen)
<1>0. r \in SessionRow
  BY DEF RowOK
<1>1. CASE r.state = "MAIN_MENU"
  BY <1>1, IntentAnswers DEF Handler, MainMenu
<1>2. CASE r.state = "BOOKING_TRIP_TYPE"
  BY <1>2, TripTypeAnswers DEF Handler, Follows
<1>3. CASE r.state = "BOOKING_PICKUP"
  BY <1>3, PickupAnswers DEF Handler, Follows
<1>4. CASE r.state = "BOOKING_DROP"
  BY <1>4, DropAnswers DEF Handler, Follows
<1>5. CASE r.state = "BOOKING_DATE"
  BY <1>5, DateAnswers DEF Handler, Follows
<1>6. CASE r.state = "BOOKING_TIME"
  BY <1>6, TimeAnswers DEF Handler, Follows
<1>7. CASE r.state = "BOOKING_RETURN_DATE"
  BY <1>7, ReturnDateAnswers DEF Handler, Follows
<1>8. CASE r.state = "BOOKING_RETURN_TIME"
  BY <1>8, ReturnTimeAnswers DEF Handler, Follows
<1>9. CASE r.state = "BOOKING_RENTAL_HOURS"
  BY <1>9, RentalHoursAnswers DEF Handler, Follows
<1>10. CASE r.state = "BOOKING_VEHICLE_SELECTION"
  BY <1>10, VehicleAnswers DEF Handler, Follows
<1>11. CASE r.state = "BOOKING_CUSTOMER_NAME"
  BY <1>11, NameAnswers DEF Handler, Follows
<1>12. CASE r.state = "BOOKING_PASSENGERS"
  BY <1>12, PassengersAnswers DEF Handler, Follows
<1>13. CASE r.state = "BOOKING_REVIEW"
  BY <1>13, ReviewAnswers DEF Handler, Follows
<1>14. CASE r.state = "BOOKING_CREATED"
  <2>1. q = Go(r, "BOOKING_CREATED")
    BY <1>14 DEF Handler, PaymentOption, ShowPaymentOptions
  <2>2. Agreed(r, seen) /\ r.active = Nothing
    BY <1>14, StaysAgreed
  <2> QED
    BY <2>1, <2>2, AgreedStands DEF Follows
<1>16. CASE r.state = "MY_BOOKINGS"
  BY <1>0, <1>16, MyBookingsIs DEF Handler, Follows
<1>17. CASE r.state = "BOOKING_DETAILS"
  BY <1>17, DetailsAnswers DEF Handler, Follows
<1>18. CASE r.state = "CANCELLATION_REASON"
  BY <1>18, ReasonAnswers DEF Handler, Follows
<1>19. CASE r.state = "CANCELLATION_CONFIRMATION"
  BY <1>0, <1>19, MenuIs DEF Handler, CancellationConfirmation, Follows
<1> QED
  BY <1>1, <1>2, <1>3, <1>4, <1>5, <1>6, <1>7, <1>8, <1>9, <1>10, <1>11, <1>12, <1>13,
     <1>14, <1>16, <1>17, <1>18, <1>19 DEF States, BookingSteps, Resting

LEMMA AnswersStand ==
    ASSUME NEW seen, NEW r, RowOK(r, seen), r.state # "SESSION_EXPIRED", lookups \in 0 .. MaxLookups,
           NEW q \in AnswerMessage(r), q.review \in seen \cup {Nothing}
    PROVE  Follows(q, r, seen)
<1> DEFINE h == [r EXCEPT !.handoff = FALSE]
<1>1. r \in SessionRow /\ r.state \in States
  BY DEF RowOK, SessionRow
<1>2. h \in SessionRow /\ h.active = r.active
  BY <1>1 DEF SessionRow
<1>3. \/ q = FreshMenu(h) \/ q = r
      \/ /\ r.state # "HUMAN_HANDOFF"
         /\ \/ q \in Interrupt(r) \cup Handler(r) \/ q = EscalateToHuman(r)
            \/ \E s \in Interrupt(r) \cup Handler(r) : q = EscalateToHuman(s)
  BY DEF AnswerMessage
<1> HIDE DEF h
<1>4. CASE q = FreshMenu(h) \/ q = r
  BY <1>1, <1>2, <1>4, MenuIs DEF Follows
<1>5. ASSUME r.state # "HUMAN_HANDOFF", NEW s \in Interrupt(r) \cup Handler(r),
             s.review \in seen \cup {Nothing}
      PROVE  Follows(s, r, seen)
  BY <1>1, <1>5, IntentAnswers, HandlerAnswers
<1>6. Follows(EscalateToHuman(r), r, seen)
  BY <1>1, EscalateIs DEF Follows
<1>7. ASSUME r.state # "HUMAN_HANDOFF", NEW s \in Interrupt(r) \cup Handler(r),
             q = EscalateToHuman(s)
      PROVE  Follows(q, r, seen)
  <2> DEFINE more == seen \cup {s.review}
  <2>1. RowOK(r, more) /\ s.review \in more \cup {Nothing}
    BY SeenMore
  <2> HIDE DEF more
  <2>2. Follows(s, r, more)
    BY <1>1, <1>7, <2>1, IntentAnswers, HandlerAnswers
  <2>3. s \in SessionRow /\ s.active \in {r.active, Nothing} \cup Made
    BY <2>2 DEF Follows, RowOK
  <2> QED
    BY <1>7, <2>3, EscalateIs DEF Follows
<1> QED
  BY <1>3, <1>4, <1>5, <1>6, <1>7

(* Where it expired the conversation goes on, or begins again.             *)
LEMMA ResumeStands ==
    ASSUME NEW seen, NEW r, RowOK(r, seen), r.state = "SESSION_EXPIRED", NEW late \in BOOLEAN,
           NEW q \in Resume(r, late)
    PROVE  Follows(q, r, seen)
<1>1. r \in SessionRow /\ r.prev \in States \ {"SESSION_EXPIRED"} /\ Stands(r.prev, r, seen)
  BY DEF RowOK, Stand
<1>2. CASE q = Go(r, r.prev)
  <2>1. /\ q \in SessionRow /\ q.state = r.prev /\ q.draft = r.draft /\ q.active = r.active
    BY <1>1, <1>2, GoIs
  <2>2. Stands(q.state, q, seen)
    BY <1>1, <2>1 DEF Stands
  <2> QED
    BY <1>1, <2>1, <2>2, Stood DEF Follows
<1> QED
  BY <1>1, <1>2, MenuIs DEF Resume, Follows

LEMMA RepliesStand ==
    ASSUME NEW seen, NEW w \in Copies, RowOK(w.row, seen), lookups \in 0 .. MaxLookups, NEW q \in Replies(w),
           q.review \in seen \cup {Nothing}
    PROVE  Follows(q, w.row, seen)
<1>1. w.expired \in BOOLEAN
  BY DEF Copies
<1> QED
  BY <1>1, ResumeStands, AnswersStand DEF Replies

(* An expiry keeps the step it left to go on from.                         *)
LEMMA SuspendStands ==
    ASSUME NEW seen, NEW r, RowOK(r, seen), r.state # "SESSION_EXPIRED"
    PROVE  /\ RowOK(Suspend(r), seen) /\ Suspend(r).active = r.active
<1> DEFINE q == Suspend(r)
<1>1. r \in SessionRow /\ r.state \in States /\ Stands(r.state, r, seen)
  BY RowStands
<1>2. "SESSION_EXPIRED" \in States
  BY DEF States, Resting
<1>3. /\ q \in SessionRow /\ q.state = "SESSION_EXPIRED" /\ q.prev = r.state
      /\ q.draft = r.draft /\ q.active = r.active
  BY <1>1, <1>2 DEF Suspend, SessionRow
<1> HIDE DEF q
<1>4. Stands(q.prev, q, seen)
  BY <1>1, <1>3 DEF Stands
<1> QED
  BY <1>1, <1>3, <1>4 DEF RowOK, Stand, q

LEMMA RestedStands ==
    ASSUME NEW seen, NEW r \in SessionRow
    PROVE  /\ RowOK(ResetDraft([r EXCEPT !.state = "MAIN_MENU"]), seen)
           /\ ResetDraft([r EXCEPT !.state = "MAIN_MENU"]).active = r.active
           /\ RowOK(ResetDraft([r EXCEPT !.handoff = FALSE, !.state = "MAIN_MENU"]), seen)
           /\ ResetDraft([r EXCEPT !.handoff = FALSE, !.state = "MAIN_MENU"]).active = r.active
<1> DEFINE l == [r EXCEPT !.state = "MAIN_MENU"]
           h == [r EXCEPT !.handoff = FALSE, !.state = "MAIN_MENU"]
<1>1. "MAIN_MENU" \in States /\ "MAIN_MENU" \in FreeSteps
  BY DEF States, Resting, FreeSteps
<1>2. /\ l \in SessionRow /\ l.state = "MAIN_MENU" /\ l.active = r.active
      /\ h \in SessionRow /\ h.state = "MAIN_MENU" /\ h.active = r.active
  BY <1>1 DEF SessionRow
<1> HIDE DEF l, h
<1>3. /\ RowOK(ResetDraft(l), seen) /\ ResetDraft(l).active = r.active
      /\ RowOK(ResetDraft(h), seen) /\ ResetDraft(h).active = r.active
  BY <1>1, <1>2, ResetIs, FreeStands, Stood
<1> QED
  BY <1>3 DEF l, h

LEMMA ExpireStands ==
    ASSUME NEW seen, NEW r, RowOK(r, seen), r.state \notin Resting
    PROVE  RowOK(Expire(r), seen) /\ Expire(r).active = r.active
<1>1. r \in SessionRow /\ r.state # "SESSION_EXPIRED"
  BY DEF RowOK, Resting
<1> QED
  BY <1>1, SuspendStands, RestedStands DEF Expire
-----------------------------------------------------------------------------
(* Steps.                                                                  *)

(* No booking that was made is lost, nor its trip changed. *)
Kept(made, after) ==
    \A b \in BookingIds : made[b] \in BookingRow => after[b] \in BookingRow

LEMMA KnownAfter ==
    ASSUME NEW r \in SessionRow, NEW made, NEW after, Known(r, made), Kept(made, after)
    PROVE  Known(r, after)
BY DEF Known, Kept, SessionRow

LEMMA KnownFollows ==
    ASSUME ConversationTypeOK, NEW seen, NEW r, Known(r, bookings), NEW q, Follows(q, r, seen)
    PROVE  Known(q, bookings)
BY DEF Known, Follows, Made, ConversationTypeOK

LEMMA WorkIs ==
    ASSUME ConversationInv, NEW p \in Slots, work[p] # Vacant
    PROVE  /\ work[p] \in Copies /\ CopyOK(work[p], reviewed) /\ Known(work[p].row, bookings)
           /\ RowOK(work[p].row, reviewed) /\ work[p].row \in SessionRow
BY DEF ConversationInv, ConversationTypeOK, CopyOK, RowOK

LEMMA BusyIs ==
    ASSUME ConversationInv, NEW p \in Slots, NEW at, at # "idle", work[p].at = at
    PROVE  work[p] # Vacant
BY DEF Vacant

LEMMA CopySeenMore ==
    ASSUME NEW w, NEW seen, NEW more, CopyOK(w, seen), seen \subseteq more
    PROVE  CopyOK(w, more)
BY SeenMore DEF CopyOK

(* A copy that is given up, or in order for the bookings and reviews after *)
(* the step.                                                               *)
After(w) == w = Vacant \/ (w \in Copies /\ CopyOK(w, reviewed') /\ Known(w.row, bookings'))

(* The bookings and reviews after a step are in order, and none is lost.   *)
Accounted ==
    /\ bookings' \in [BookingIds -> BookingRow \cup {Nothing}] /\ Kept(bookings, bookings')
    /\ reviewed \subseteq reviewed' /\ reviewed' \subseteq Contents
    /\ Ordered(bookings', reviewed')

(* A step whose copies are as they were, given up or in order.             *)
LEMMA InvKept ==
    ASSUME ConversationInv, Accounted,
           RowOK(session', reviewed'), Known(session', bookings'),
           lookups' \in 0 .. MaxLookups, missed' \in 0 .. MaxMissed,
           work' \in [Slots -> Copies \cup {Vacant}],
           \A p \in Slots : work'[p] = work[p] \/ After(work'[p])
    PROVE  ConversationInv'
<1>1. session' \in SessionRow
  BY DEF RowOK
<1>2. ConversationTypeOK'
  BY <1>1 DEF ConversationTypeOK, Accounted
<1>3. ASSUME NEW p \in Slots, work'[p] # Vacant
      PROVE  CopyOK(work'[p], reviewed') /\ Known(work'[p].row, bookings')
  <2>1. CASE work'[p] = work[p]
    <3>1. work[p] # Vacant
      BY <1>3, <2>1
    <3>2. CopyOK(work[p], reviewed) /\ Known(work[p].row, bookings) /\ work[p].row \in SessionRow
      BY <3>1, WorkIs
    <3>3. Known(work[p].row, bookings')
      BY <3>2, KnownAfter DEF Accounted
    <3>4. CopyOK(work[p], reviewed')
      BY <3>2, CopySeenMore DEF Accounted
    <3> QED
      BY <2>1, <3>3, <3>4
  <2> QED
    BY <1>3, <2>1 DEF After
<1> QED
  BY <1>2, <1>3 DEF ConversationInv, Accounted

LEMMA Stepped ==
    ASSUME work \in [Slots -> Copies \cup {Vacant}], NEW p \in Slots, NEW w, Step(p, w), After(w)
    PROVE  /\ work' \in [Slots -> Copies \cup {Vacant}]
           /\ \A q \in Slots : work'[q] = work[q] \/ After(work'[q])
<1>1. /\ work' \in [Slots -> Copies \cup {Vacant}] /\ work'[p] = w
      /\ \A q \in Slots \ {p} : work'[q] = work[q]
  BY DEF Step, After
<1> QED
  BY <1>1

(* The row is only read. *)
LEMMA ReadOnly ==
    ASSUME ConversationInv, Accounted, NEW p \in Slots, NEW w, Step(p, w), After(w),
           session' = session, lookups' = lookups, missed' = missed
    PROVE  ConversationInv'
<1>1. /\ work \in [Slots -> Copies \cup {Vacant}] /\ session \in SessionRow
      /\ lookups' \in 0 .. MaxLookups /\ missed' \in 0 .. MaxMissed
      /\ RowOK(session, reviewed) /\ Known(session, bookings)
  BY DEF ConversationInv, ConversationTypeOK
<1>2. RowOK(session', reviewed') /\ Known(session', bookings')
  BY <1>1, KnownAfter, SeenMore DEF Accounted
<1> QED
  BY <1>1, <1>2, Stepped, InvKept

(* The copy that is written back is in order. *)
LEMMA Written ==
    ASSUME ConversationInv, Accounted, NEW p \in Slots, NEW row, NEW next, Write(p, row, next),
           RowOK(row, reviewed'), Known(row, bookings'), After(next),
           lookups' \in 0 .. MaxLookups
    PROVE  ConversationInv'
<1>1. /\ work \in [Slots -> Copies \cup {Vacant}] /\ missed \in 0 .. MaxMissed
  BY DEF ConversationInv, ConversationTypeOK
<1>2. missed' \in 0 .. MaxMissed
  <2> DEFINE others == {q \in Slots \ {p} : work[q] # Vacant}
  <2>1. IsFiniteSet(others) /\ Cardinality(others) \in Nat
    BY ConversationAssumption, FS_Subset, FS_CardinalityType
  <2>2. missed' = missed + Cardinality(others) /\ missed' <= MaxMissed
    BY DEF Write
  <2> HIDE DEF others
  <2> QED
    BY <1>1, <2>1, <2>2, ConversationAssumption
<1>3. session' = row /\ Step(p, next)
  BY DEF Write
<1>4. RowOK(session', reviewed') /\ Known(session', bookings')
  BY <1>3
<1> QED
  BY <1>1, <1>2, <1>3, <1>4, Stepped, InvKept

(* A step that makes no booking keeps them all. *)
LEMMA SameBookings ==
    ASSUME ConversationInv, bookings' = bookings, reviewed' = reviewed
    PROVE  Accounted
BY DEF ConversationInv, ConversationTypeOK, Kept, Accounted

LEMMA VacantIsAfter == After(Vacant)
BY DEF After

LEMMA CopyIs ==
    ASSUME NEW seen, NEW r, RowOK(r, seen), NEW at \in {"loaded", "expiring", "notice", "sweep"},
           at \in {"expiring", "sweep"} => r.state \notin Resting
    PROVE  Copy(at, r) \in Copies /\ CopyOK(Copy(at, r), seen) /\ Copy(at, r).row = r
BY DEF Copy, Copies, CopyOK, RowOK

LEMMA ReadsKeep ==
    ASSUME ConversationInv, NEW p \in Slots, LoadSession(p) \/ SweepReads(p) \/ Captured(p)
    PROVE  ConversationInv'
<1>1. RowOK(session, reviewed) /\ Known(session, bookings)
  BY DEF ConversationInv
<1>2. PICK at \in {"loaded", "expiring", "sweep", "notice"} :
          /\ Step(p, Copy(at, session))
          /\ at \in {"expiring", "sweep"} => session.state \notin Resting
  BY DEF LoadSession, SweepReads, Captured
<1>3. /\ Copy(at, session) \in Copies /\ CopyOK(Copy(at, session), reviewed)
      /\ Copy(at, session).row = session
  BY <1>1, <1>2, CopyIs
<1>4. /\ session' = session /\ bookings' = bookings /\ lookups' = lookups /\ missed' = missed
      /\ reviewed' = reviewed
  BY DEF LoadSession, SweepReads, Captured
<1>5. After(Copy(at, session))
  BY <1>1, <1>3, <1>4 DEF After
<1> QED
  BY <1>2, <1>4, <1>5, SameBookings, ReadOnly

LEMMA ExpireKeeps ==
    ASSUME ConversationInv, NEW p \in Slots, ExpireOnLoad(p)
    PROVE  ConversationInv'
<1> DEFINE r == Expire(work[p].row)
           goesOn == [Copy("loaded", r) EXCEPT !.expired = TRUE]
<1>1. /\ work[p].at = "expiring" /\ bookings' = bookings /\ lookups' = lookups
      /\ reviewed' = reviewed
  BY DEF ExpireOnLoad
<1>2. PICK next \in {goesOn, Vacant} : Write(p, r, next)
  BY DEF ExpireOnLoad
<1>3. work[p] # Vacant
  BY <1>1, BusyIs
<1>4. /\ RowOK(work[p].row, reviewed) /\ Known(work[p].row, bookings)
      /\ work[p].row.state \notin Resting
  BY <1>1, <1>3, WorkIs DEF CopyOK
<1>5. RowOK(r, reviewed') /\ r.active = work[p].row.active
  BY <1>1, <1>4, ExpireStands
<1> HIDE DEF r
<1>6. Known(r, bookings')
  BY <1>1, <1>4, <1>5 DEF Known
<1>7. goesOn \in Copies /\ CopyOK(goesOn, reviewed') /\ goesOn.row = r
  BY <1>5 DEF Copy, Copies, CopyOK, RowOK
<1>8. lookups' \in 0 .. MaxLookups
  BY <1>1 DEF ConversationInv, ConversationTypeOK
<1> HIDE DEF goesOn
<1>9. After(next)
  BY <1>2, <1>6, <1>7 DEF After
<1> QED
  BY <1>1, <1>2, <1>5, <1>6, <1>8, <1>9, SameBookings, Written

(* Once its review is sent a row is in order without it.                   *)
LEMMA Sent ==
    ASSUME NEW seen, NEW r, RowOK(r, seen)
    PROVE  /\ RowOK([r EXCEPT !.review = Nothing], seen)
           /\ [r EXCEPT !.review = Nothing].active = r.active
<1> DEFINE q == [r EXCEPT !.review = Nothing]
<1>1. r \in SessionRow
  BY DEF RowOK
<1>2. /\ q \in SessionRow /\ q.state = r.state /\ q.prev = r.prev /\ q.draft = r.draft
      /\ q.active = r.active
  BY <1>1 DEF SessionRow
<1> HIDE DEF q
<1>3. RowOK(q, seen)
  BY <1>2 DEF RowOK, Stand, Stands
<1> QED
  BY <1>2, <1>3 DEF q

LEMMA ReplyKeeps ==
    ASSUME ConversationInv, NEW p \in Slots, Reply(p)
    PROVE  ConversationInv'
<1>1. work[p].at = "loaded" /\ bookings' = bookings
  BY DEF Reply
<1>2. PICK row \in Replies(work[p]) :
          /\ Write(p, [row EXCEPT !.review = Nothing], Vacant)
          /\ reviewed' = reviewed \cup ({row.review} \ {Nothing})
          /\ lookups' = IF row.draft.offer > lookups THEN row.draft.offer ELSE lookups
  BY DEF Reply, Flush
<1>3. work[p] # Vacant
  BY <1>1, BusyIs
<1>4. work[p] \in Copies /\ RowOK(work[p].row, reviewed) /\ Known(work[p].row, bookings)
  BY <1>3, WorkIs
<1>5. lookups \in 0 .. MaxLookups /\ ConversationTypeOK
  BY DEF ConversationInv, ConversationTypeOK
<1>6. RowOK(work[p].row, reviewed') /\ row.review \in reviewed' \cup {Nothing}
  BY <1>2, <1>4, SeenMore
<1>7. Follows(row, work[p].row, reviewed')
  BY <1>2, <1>4, <1>5, <1>6, RepliesStand
<1>8. RowOK(row, reviewed') /\ Known(row, bookings)
  BY <1>4, <1>5, <1>7, KnownFollows DEF Follows
<1>9. lookups' \in 0 .. MaxLookups
  BY <1>2, <1>5, <1>8 DEF RowOK, SessionRow, Draft
<1>10. row.review \in Contents \cup {Nothing}
  BY <1>8 DEF RowOK, SessionRow
<1>11. Accounted
  <2>1. reviewed \subseteq reviewed' /\ reviewed' \subseteq Contents
    BY <1>2, <1>5, <1>10 DEF ConversationTypeOK
  <2>2. Ordered(bookings', reviewed')
    BY <1>1, <2>1 DEF ConversationInv, Ordered, Fitting
  <2> QED
    BY <1>1, <1>5, <2>1, <2>2 DEF Accounted, ConversationTypeOK, Kept
<1> DEFINE q == [row EXCEPT !.review = Nothing]
<1>12. RowOK(q, reviewed') /\ q.active = row.active
  BY <1>8, Sent
<1>13. Write(p, q, Vacant)
  BY <1>2
<1> HIDE DEF q
<1>14. Known(q, bookings')
  BY <1>1, <1>8, <1>12 DEF Known
<1> QED
  BY <1>9, <1>11, <1>12, <1>13, <1>14, VacantIsAfter, Written
-----------------------------------------------------------------------------
(* From the choice of a payment mode to the booking.                       *)

LEMMA ChooseKeeps ==
    ASSUME ConversationInv, NEW p \in Slots, Choose(p)
    PROVE  ConversationInv'
<1> DEFINE w == work[p]
           v == [w EXCEPT !.at = "create"]
<1>1. /\ w.at = "loaded" /\ w.row.state = "BOOKING_CREATED" /\ Step(p, v)
      /\ session' = session /\ bookings' = bookings /\ lookups' = lookups
      /\ missed' = missed /\ reviewed' = reviewed
  BY DEF Choose, Alert
<1>2. work[p] # Vacant
  BY <1>1, BusyIs
<1>3. w \in Copies /\ CopyOK(w, reviewed) /\ Known(w.row, bookings)
  BY <1>2, WorkIs
<1>4. v \in Copies /\ v.at = "create" /\ v.row = w.row
  BY <1>3 DEF Copies
<1> HIDE DEF v, w
<1>5. After(v)
  BY <1>1, <1>3, <1>4 DEF After, CopyOK
<1> QED
  BY <1>1, <1>5, SameBookings, ReadOnly

LEMMA CreateKeeps ==
    ASSUME ConversationInv, NEW p \in Slots, Create(p)
    PROVE  ConversationInv'
<1> DEFINE w == work[p]
           d == w.row.draft
           entry == [trip |-> Content(d), status |-> "PENDING"]
           v == [w EXCEPT !.at = "made"]
<1>1. /\ w.at = "create" /\ Step(p, v)
      /\ session' = session /\ lookups' = lookups /\ missed' = missed /\ reviewed' = reviewed
  BY DEF Create
<1>2. PICK b \in BookingIds : bookings' = [bookings EXCEPT ![b] = entry]
  BY DEF Create
<1>3. work[p] # Vacant
  BY <1>1, BusyIs
<1>4. /\ w \in Copies /\ CopyOK(w, reviewed) /\ Known(w.row, bookings)
      /\ RowOK(w.row, reviewed) /\ w.row \in SessionRow
  BY <1>3, WorkIs
<1>5. w.row.state = "BOOKING_CREATED"
  BY <1>1, <1>4 DEF CopyOK
<1>6. Agreed(w.row, reviewed)
  BY <1>4, <1>5, StaysAgreed
<1>7. d \in Draft /\ Content(d) \in Contents
  BY <1>4, ContentIs DEF SessionRow
<1>8. Fitting(Content(d), reviewed)
  BY <1>6 DEF Agreed, Fitting, Content
<1>9. entry \in BookingRow /\ entry.trip = Content(d)
  BY <1>7 DEF BookingRow
<1>10. /\ bookings \in [BookingIds -> BookingRow \cup {Nothing}] /\ Ordered(bookings, reviewed)
       /\ reviewed \subseteq Contents
  BY DEF ConversationInv, ConversationTypeOK
<1>11. v \in Copies /\ v.at = "made" /\ v.row = w.row
  BY <1>4 DEF Copies
<1> HIDE DEF v, w, entry, d
<1>12. bookings' \in [BookingIds -> BookingRow \cup {Nothing}] /\ Kept(bookings, bookings')
  BY <1>2, <1>9, <1>10 DEF Kept
<1>13. Ordered(bookings', reviewed')
  BY <1>1, <1>2, <1>8, <1>9, <1>10 DEF Ordered
<1>14. Accounted
  BY <1>1, <1>10, <1>12, <1>13 DEF Accounted
<1>15. Known(v.row, bookings')
  BY <1>4, <1>11, <1>12, KnownAfter
<1>16. After(v)
  BY <1>1, <1>4, <1>5, <1>11, <1>15 DEF After, CopyOK
<1> QED
  BY <1>1, <1>14, <1>16, ReadOnly

(* The status of a booking changes in place. *)
LEMMA StatusEdited ==
    ASSUME ConversationInv, NEW b \in BookingIds, bookings[b] \in BookingRow,
           bookings[b] # Nothing, NEW s \in {"PENDING", "CONFIRMED", "CANCELLED"},
           bookings' = [bookings EXCEPT ![b].status = s], reviewed' = reviewed
    PROVE  Accounted
<1> DEFINE entry == [bookings[b] EXCEPT !.status = s]
<1>1. entry \in BookingRow /\ entry.trip = bookings[b].trip
  BY DEF BookingRow
<1>2. bookings' = [bookings EXCEPT ![b] = entry]
  OBVIOUS
<1>3. /\ bookings \in [BookingIds -> BookingRow \cup {Nothing}] /\ Ordered(bookings, reviewed)
      /\ reviewed \subseteq Contents
  BY DEF ConversationInv, ConversationTypeOK
<1>4. bookings[b] # Nothing => Fitting(entry.trip, reviewed)
  BY <1>1, <1>3 DEF Ordered
<1> HIDE DEF entry
<1>6. bookings' \in [BookingIds -> BookingRow \cup {Nothing}] /\ Kept(bookings, bookings')
  BY <1>1, <1>2, <1>3 DEF Kept
<1>7. Ordered(bookings', reviewed')
  BY <1>2, <1>3, <1>4 DEF Ordered
<1> QED
  BY <1>3, <1>6, <1>7 DEF Accounted

LEMMA ConcludeKeeps ==
    ASSUME ConversationInv, NEW p \in Slots, Refuse(p) \/ FailToTag(p) \/ NotifyPaymentCaptured(p)
    PROVE  ConversationInv'
<1> DEFINE r == work[p].row
<1>1. /\ work[p].at \in {"create", "made", "notice"} /\ bookings' = bookings /\ lookups' = lookups
      /\ reviewed' = reviewed
  BY DEF Refuse, FailToTag, NotifyPaymentCaptured
<1>2. PICK row \in {r, FreshMenu(r)} : Write(p, row, Vacant)
  BY DEF Refuse, FailToTag, NotifyPaymentCaptured, Flush, FinishAndReturnToMenu
<1>3. work[p] # Vacant
  BY <1>1, BusyIs
<1>4. RowOK(r, reviewed) /\ r \in SessionRow /\ Known(r, bookings)
  BY <1>3, WorkIs
<1> HIDE DEF r
<1>5. RowOK(row, reviewed') /\ row.active = r.active
  BY <1>1, <1>2, <1>4, MenuIs
<1>6. Known(row, bookings')
  BY <1>1, <1>4, <1>5 DEF Known
<1>7. lookups' \in 0 .. MaxLookups
  BY <1>1 DEF ConversationInv, ConversationTypeOK
<1> QED
  BY <1>1, <1>2, <1>5, <1>6, <1>7, SameBookings, VacantIsAfter, Written

LEMMA CancelKeeps ==
    ASSUME ConversationInv, NEW p \in Slots, ConfirmCancellation(p)
    PROVE  ConversationInv'
<1> DEFINE r == work[p].row
           b == r.active
<1>1. /\ work[p].at = "loaded" /\ r.state = "CANCELLATION_CONFIRMATION"
      /\ bookings' = [bookings EXCEPT ![b].status = "CANCELLED"]
      /\ Write(p, Menu(r), Vacant) /\ lookups' = lookups /\ reviewed' = reviewed
  BY DEF ConfirmCancellation, Alert, Flush
<1>2. work[p] # Vacant
  BY <1>1, BusyIs
<1>3. /\ RowOK(r, reviewed) /\ r \in SessionRow /\ Known(r, bookings)
  BY <1>2, WorkIs
<1>4. lookups \in 0 .. MaxLookups
  BY DEF ConversationInv, ConversationTypeOK
<1>5. b # Nothing
  BY <1>1, <1>3, RowStands DEF Stands
<1>6. b \in BookingIds /\ bookings[b] \in BookingRow /\ bookings[b] # Nothing
  BY <1>3, <1>5, ConversationAssumption DEF Known, SessionRow
<1> HIDE DEF b
<1>7. Accounted
  BY <1>1, <1>6, StatusEdited
<1>8. RowOK(Menu(r), reviewed') /\ Menu(r).active = r.active
  BY <1>1, <1>3, MenuIs
<1> HIDE DEF r
<1>9. Known(Menu(r), bookings')
  BY <1>3, <1>7, <1>8, KnownAfter DEF Known, Accounted
<1> QED
  BY <1>1, <1>4, <1>7, <1>8, <1>9, VacantIsAfter, Written

LEMMA SweepKeeps ==
    ASSUME ConversationInv, NEW p \in Slots, SessionTimeoutSweep(p)
    PROVE  ConversationInv'
<1> DEFINE r == work[p].row
<1>1. /\ work[p].at = "sweep" /\ Write(p, Suspend(r), Vacant)
      /\ bookings' = bookings /\ lookups' = lookups /\ reviewed' = reviewed
  BY DEF SessionTimeoutSweep, Flush
<1>2. work[p] # Vacant
  BY <1>1, BusyIs
<1>3. RowOK(r, reviewed) /\ Known(r, bookings) /\ r.state # "SESSION_EXPIRED"
  BY <1>1, <1>2, WorkIs DEF CopyOK, Resting
<1>4. RowOK(Suspend(r), reviewed') /\ Suspend(r).active = r.active
  BY <1>1, <1>3, SuspendStands
<1> HIDE DEF r
<1>5. Known(Suspend(r), bookings')
  BY <1>1, <1>3, <1>4 DEF Known
<1>6. lookups' \in 0 .. MaxLookups
  BY <1>1 DEF ConversationInv, ConversationTypeOK
<1> QED
  BY <1>1, <1>4, <1>5, <1>6, SameBookings, VacantIsAfter, Written

LEMMA ResolveKeeps ==
    ASSUME ConversationInv, ResolveHandoff
    PROVE  ConversationInv'
<1>1. /\ session' = ResetDraft([session EXCEPT !.handoff = FALSE, !.state = "MAIN_MENU"])
      /\ work' = work /\ bookings' = bookings /\ lookups' = lookups /\ missed' = missed
      /\ reviewed' = reviewed
  BY DEF ResolveHandoff
<1>2. /\ session \in SessionRow /\ Known(session, bookings)
      /\ work' \in [Slots -> Copies \cup {Vacant}] /\ lookups' \in 0 .. MaxLookups
      /\ missed' \in 0 .. MaxMissed
  BY <1>1 DEF ConversationInv, ConversationTypeOK
<1>3. RowOK(session', reviewed') /\ session'.active = session.active
  BY <1>1, <1>2, RestedStands
<1>4. Known(session', bookings')
  BY <1>1, <1>2, <1>3 DEF Known
<1>5. \A p \in Slots : work'[p] = work[p]
  BY <1>1
<1> QED
  BY <1>1, <1>2, <1>3, <1>4, <1>5, SameBookings, InvKept

LEMMA StaffKeeps ==
    ASSUME ConversationInv, NEW b \in BookingIds, StaffDecides(b)
    PROVE  ConversationInv'
<1>1. /\ b \in Made /\ session' = session /\ work' = work /\ lookups' = lookups
      /\ missed' = missed /\ reviewed' = reviewed
  BY DEF StaffDecides
<1>2. PICK s \in {"CONFIRMED", "CANCELLED"} : bookings' = [bookings EXCEPT ![b].status = s]
  BY DEF StaffDecides
<1>3. /\ bookings \in [BookingIds -> BookingRow \cup {Nothing}] /\ session \in SessionRow
      /\ RowOK(session, reviewed) /\ Known(session, bookings)
      /\ work' \in [Slots -> Copies \cup {Vacant}] /\ lookups' \in 0 .. MaxLookups
      /\ missed' \in 0 .. MaxMissed
  BY <1>1 DEF ConversationInv, ConversationTypeOK
<1>4. bookings[b] \in BookingRow /\ bookings[b] # Nothing
  BY <1>1, <1>3 DEF Made
<1>5. Accounted
  BY <1>1, <1>2, <1>4, StatusEdited
<1>6. RowOK(session', reviewed') /\ Known(session', bookings')
  BY <1>1, <1>3, <1>5, KnownAfter DEF Accounted
<1>7. \A p \in Slots : work'[p] = work[p]
  BY <1>1
<1> QED
  BY <1>3, <1>5, <1>6, <1>7, InvKept

LEMMA CrashKeeps ==
    ASSUME ConversationInv, Crash
    PROVE  ConversationInv'
<1>1. /\ session' = session /\ bookings' = bookings /\ lookups' = lookups
      /\ missed' = missed /\ reviewed' = reviewed /\ work' = [p \in Slots |-> Vacant]
  BY DEF Crash
<1>2. /\ RowOK(session', reviewed') /\ Known(session', bookings') /\ lookups' \in 0 .. MaxLookups
      /\ missed' \in 0 .. MaxMissed
  BY <1>1 DEF ConversationInv, ConversationTypeOK
<1>3. work' \in [Slots -> Copies \cup {Vacant}] /\ \A p \in Slots : After(work'[p])
  BY <1>1, VacantIsAfter
<1> QED
  BY <1>1, <1>2, <1>3, SameBookings, InvKept
-----------------------------------------------------------------------------
LEMMA ConversationBegins == ConversationInit => ConversationInv
<1> SUFFICES ASSUME ConversationInit PROVE ConversationInv
  OBVIOUS
<1>1. /\ session = [state |-> "MAIN_MENU", prev |-> Nothing, draft |-> NoDraft,
                    active |-> Nothing, handoff |-> FALSE, review |-> Nothing]
      /\ work = [p \in Slots |-> Vacant] /\ bookings = [b \in BookingIds |-> Nothing]
      /\ lookups = 0 /\ reviewed = {} /\ missed = 0
  BY DEF ConversationInit
<1>2. "MAIN_MENU" \in States /\ "MAIN_MENU" \in FreeSteps
  BY DEF States, Resting, FreeSteps
<1>3. session \in SessionRow /\ session.state = "MAIN_MENU" /\ session.active = Nothing
  BY <1>1, <1>2, NoDraftIs DEF SessionRow
<1>4. RowOK(session, reviewed) /\ Known(session, bookings)
  BY <1>2, <1>3, FreeStands, Stood DEF Known
<1>5. lookups \in 0 .. MaxLookups /\ missed \in 0 .. MaxMissed
  BY <1>1, ConversationAssumption
<1>6. ConversationTypeOK
  BY <1>1, <1>3, <1>5 DEF ConversationTypeOK
<1>7. Ordered(bookings, reviewed)
  BY <1>1 DEF Ordered
<1> QED
  BY <1>1, <1>4, <1>6, <1>7 DEF ConversationInv

LEMMA ConversationIdles ==
    ASSUME ConversationInv, UNCHANGED conversationVars
    PROVE  ConversationInv'
BY DEF ConversationInv, ConversationTypeOK, conversationVars

LEMMA ConversationStep ==
    ASSUME ConversationInv, [ConversationNext]_conversationVars
    PROVE  ConversationInv'
<1>1. ASSUME NEW p \in Slots,
             \/ LoadSession(p) \/ ExpireOnLoad(p) \/ Reply(p) \/ Choose(p)
             \/ Create(p) \/ Refuse(p) \/ FailToTag(p) \/ ConfirmCancellation(p)
             \/ Captured(p) \/ NotifyPaymentCaptured(p) \/ SweepReads(p) \/ SessionTimeoutSweep(p)
      PROVE  ConversationInv'
  BY <1>1, ReadsKeep, ExpireKeeps, ReplyKeeps, ChooseKeeps, CreateKeeps, ConcludeKeeps,
     CancelKeeps, SweepKeeps
<1>2. CASE \E b \in BookingIds : StaffDecides(b)
  BY <1>2, StaffKeeps
<1>3. CASE ResolveHandoff
  BY <1>3, ResolveKeeps
<1>4. CASE Crash
  BY <1>4, CrashKeeps
<1>5. CASE UNCHANGED conversationVars
  BY <1>5, ConversationIdles
<1> QED
  BY <1>1, <1>2, <1>3, <1>4, <1>5 DEF ConversationNext

(* The session row, the copies of it in the handlers' hands and the        *)
(* bookings made keep to what each step relies on, however many messages,  *)
(* sweeps and payment notices are answered at a time and whichever is      *)
(* written last (processInboundMessage, notifyPaymentCaptured).            *)
THEOREM ConversationIsInvariant == ConversationSpec => []ConversationInv
<1> QED
  BY ConversationBegins, ConversationStep, PTL DEF ConversationSpec

LEMMA RowsAreOK ==
    ASSUME ConversationInv, NEW r \in Rows
    PROVE  RowOK(r, reviewed)
BY DEF ConversationInv, CopyOK, Rows

(* Wherever the conversation stands, in the row and in every copy of it,   *)
(* the answers that step builds on have been given.                        *)
THEOREM StepsHaveTheirAnswers == ConversationSpec => []DraftFitsStep
<1>1. ASSUME ConversationInv PROVE DraftFitsStep
  <2>1. \A r \in Rows : /\ Fits(Stand(r), r.draft)
                        /\ Stand(r) = "BOOKING_CREATED" => r.active = Nothing
    BY <1>1, RowsAreOK DEF RowOK, Stands
  <2> QED
    BY <1>1, <2>1 DEF ConversationInv, DraftFitsStep
<1> QED
  BY <1>1, ConversationIsInvariant, PTL

(* What createBooking is about to send, and what was booked, is a trip     *)
(* some review put to the customer, in a cab that takes the passengers,    *)
(* whichever copies of the row crossed (createBookingWithMode, save).      *)
THEOREM BooksWhatWasReviewed == ConversationSpec => []BookedAsReviewed
<1>1. ASSUME ConversationInv PROVE BookedAsReviewed
  <2>1. ASSUME NEW p \in Slots, work[p].at = "create"
        PROVE  Content(work[p].row.draft) \in reviewed
    <3>1. work[p] # Vacant
      BY <1>1, <2>1, BusyIs
    <3>2. CopyOK(work[p], reviewed)
      BY <1>1, <3>1, WorkIs
    <3>3. Agreed(work[p].row, reviewed)
      BY <2>1, <3>2, StaysAgreed DEF CopyOK
    <3> QED
      BY <3>3 DEF Agreed
  <2>2. \A b \in Made : Fitting(bookings[b].trip, reviewed)
    BY <1>1 DEF ConversationInv, Ordered, Made
  <2> QED
    BY <2>1, <2>2 DEF BookedAsReviewed, Fitting
<1> QED
  BY <1>1, ConversationIsInvariant, PTL

(* Who is asked for the reason of a cancellation, or to confirm it, was    *)
(* quoted the fee of that booking (promptBookingForCancellation).          *)
THEOREM CancelsWhatWasQuoted == ConversationSpec => []CancelAsQuoted
<1>1. ASSUME ConversationInv PROVE CancelAsQuoted
  <2> SUFFICES ASSUME NEW r \in Rows,
                      r.state \in {"CANCELLATION_REASON", "CANCELLATION_CONFIRMATION"}
               PROVE  r.active # Nothing /\ r.draft.quoted = r.active
    BY DEF CancelAsQuoted
  <2>1. RowOK(r, reviewed) /\ r.state # "SESSION_EXPIRED"
    BY <1>1, RowsAreOK
  <2> QED
    BY <2>1, RowStands DEF Stands
<1> QED
  BY <1>1, ConversationIsInvariant, PTL

-----------------------------------------------------------------------------
(* The days and times of the conversation.  The calendar, counted by days: *)
(* a year begins 365 days after the one before it, and a leap day later.   *)

(* The calendar by years: the first day of a year, and of its months.      *)
NewYear(y) == 365 * y + (y + 1) \div 4
Leap(y) == IF y % 4 = 2 THEN 1 ELSE 0
MonthStart(k, leap) == DaysBefore[k + 1] + (IF k > 1 THEN leap ELSE 0)
MonthLength(k, leap) == IF k = 1 THEN 28 + leap ELSE IF k \in {3, 5, 8, 10} THEN 30 ELSE 31

LEMMA YearAndMonth ==
    ASSUME NEW y \in Int, NEW k \in 0..11, NEW m \in Int, m = 12 * y + k
    PROVE  /\ Year(m) = y /\ m % 12 = k
           /\ FirstOf(m) = NewYear(y) + MonthStart(k, Leap(y))
           /\ DaysInMonth(m) = MonthLength(k, Leap(y))
<1>1. m \div 12 = y /\ m % 12 = k
  OBVIOUS
<1>2. Year(m) = y
  BY <1>1 DEF Year
<1>3. DaysInMonth(m) = MonthLength(k, Leap(y))
  BY <1>1, <1>2 DEF DaysInMonth, MonthLength, Leap
<1>4. k + 1 \in 1..12
  OBVIOUS
<1>5. DaysBefore[k + 1] \in Int
  BY <1>4 DEF DaysBefore
<1>6. (y + 1) \div 4 \in Int
  OBVIOUS
<1>7. FirstOf(m) = 365 * y + (y + 1) \div 4 + DaysBefore[k + 1] + (IF k > 1 /\ y % 4 = 2 THEN 1 ELSE 0)
  BY <1>1, <1>2 DEF FirstOf
<1>8. (IF k > 1 /\ y % 4 = 2 THEN 1 ELSE 0) = IF k > 1 THEN Leap(y) ELSE 0
  BY DEF Leap
<1>9. Leap(y) \in Int
  BY DEF Leap
<1> QED
  BY <1>1, <1>2, <1>3, <1>5, <1>6, <1>7, <1>8, <1>9 DEF NewYear, MonthStart

LEMMA MonthParts == ASSUME NEW m \in Int PROVE \E y \in Int, k \in 0..11 : m = 12 * y + k
<1>1. m = 12 * (m \div 12) + (m % 12) /\ m \div 12 \in Int /\ m % 12 \in 0..11
  OBVIOUS
<1> QED
  BY <1>1

LEMMA YearFollows ==
    ASSUME NEW y \in Int
    PROVE  /\ NewYear(y) \in Int /\ Leap(y) \in 0..1
           /\ NewYear(y + 1) = NewYear(y) + 365 + Leap(y)
           /\ Leap(y) = 1 => Leap(y + 1) = 0
           /\ 4 * NewYear(y) <= 1461 * y + 1 /\ 1461 * y - 3 < 4 * NewYear(y)
<1>1. /\ (y + 1) \div 4 \in Int
      /\ (y + 2) \div 4 = (y + 1) \div 4 + (IF y % 4 = 2 THEN 1 ELSE 0)
      /\ 4 * ((y + 1) \div 4) <= y + 1 /\ y + 1 < 4 * ((y + 1) \div 4) + 4
      /\ y % 4 = 2 => (y + 1) % 4 # 2
  OBVIOUS
<1>2. (y + 1) + 1 = y + 2
  OBVIOUS
<1> QED
  BY <1>1, <1>2 DEF NewYear, Leap

LEMMA YearsInOrder ==
    ASSUME NEW y \in Int, NEW z \in Int, y <= z
    PROVE  NewYear(y) <= NewYear(z)
<1>1. (y + 1) \div 4 <= (z + 1) \div 4 /\ (y + 1) \div 4 \in Int /\ (z + 1) \div 4 \in Int
  OBVIOUS
<1> QED
  BY <1>1 DEF NewYear

LEMMA YearOfMonths ==
    ASSUME NEW leap \in 0..1
    PROVE  /\ MonthStart(0, leap) = 0 /\ MonthStart(11, leap) + 31 = 365 + leap
           /\ MonthLength(11, leap) = 31
           /\ \A k \in 0..11 : MonthStart(k, leap) \in 0..335 /\ MonthLength(k, leap) \in 28..31
           /\ \A k \in 0..10 : MonthStart(k + 1, leap) = MonthStart(k, leap) + MonthLength(k, leap)
<1>1. /\ DaysBefore[1] = 0 /\ DaysBefore[2] = 31 /\ DaysBefore[3] = 59 /\ DaysBefore[4] = 90
      /\ DaysBefore[5] = 120 /\ DaysBefore[6] = 151 /\ DaysBefore[7] = 181 /\ DaysBefore[8] = 212
      /\ DaysBefore[9] = 243 /\ DaysBefore[10] = 273 /\ DaysBefore[11] = 304 /\ DaysBefore[12] = 334
  BY DEF DaysBefore
<1>2. /\ MonthStart(0, leap) = 0 /\ MonthStart(1, leap) = 31
      /\ MonthStart(2, leap) = 59 + leap /\ MonthStart(3, leap) = 90 + leap
      /\ MonthStart(4, leap) = 120 + leap /\ MonthStart(5, leap) = 151 + leap
      /\ MonthStart(6, leap) = 181 + leap /\ MonthStart(7, leap) = 212 + leap
      /\ MonthStart(8, leap) = 243 + leap /\ MonthStart(9, leap) = 273 + leap
      /\ MonthStart(10, leap) = 304 + leap /\ MonthStart(11, leap) = 334 + leap
  BY <1>1 DEF MonthStart
<1>3. /\ MonthLength(0, leap) = 31 /\ MonthLength(1, leap) = 28 + leap
      /\ \A k \in {3, 5, 8, 10} : MonthLength(k, leap) = 30
      /\ \A k \in {2, 4, 6, 7, 9, 11} : MonthLength(k, leap) = 31
  BY DEF MonthLength
<1>4. \A k \in 0..11 : k \in {0, 1, 2, 3, 4, 5, 6, 7, 8, 9, 10, 11}
  OBVIOUS
<1>5. ASSUME NEW k \in 0..11 PROVE MonthStart(k, leap) \in 0..335 /\ MonthLength(k, leap) \in 28..31
  BY <1>2, <1>3, <1>4
<1>6. ASSUME NEW k \in 0..10
      PROVE  MonthStart(k + 1, leap) = MonthStart(k, leap) + MonthLength(k, leap)
  BY <1>2, <1>3, <1>4
<1> QED
  BY <1>2, <1>3, <1>5, <1>6

(* Months follow each other, and a year is of 365 or 366 days.             *)
LEMMA MonthFollows ==
    ASSUME NEW m \in Int
    PROVE  /\ FirstOf(m) \in Int /\ DaysInMonth(m) \in 28..31
           /\ FirstOf(m + 1) = FirstOf(m) + DaysInMonth(m)
           /\ FirstOf(m + 12) - FirstOf(m) \in {365, 366}
<1>1. PICK y \in Int, k \in 0..11 : m = 12 * y + k
  BY MonthParts
<1>2. FirstOf(m) = NewYear(y) + MonthStart(k, Leap(y)) /\ DaysInMonth(m) = MonthLength(k, Leap(y))
  BY <1>1, YearAndMonth
<1>3. /\ NewYear(y) \in Int /\ Leap(y) \in 0..1 /\ NewYear(y + 1) = NewYear(y) + 365 + Leap(y)
      /\ Leap(y + 1) \in 0..1 /\ (Leap(y) = 1 => Leap(y + 1) = 0)
  BY YearFollows
<1>4. FirstOf(m + 12) = NewYear(y + 1) + MonthStart(k, Leap(y + 1))
  <2>1. m + 12 = 12 * (y + 1) + k /\ y + 1 \in Int /\ m + 12 \in Int
    BY <1>1
  <2> QED
    BY <2>1, YearAndMonth
<1>5. MonthStart(k, Leap(y)) \in 0..335 /\ MonthLength(k, Leap(y)) \in 28..31
  BY <1>3, YearOfMonths
<1>6. FirstOf(m + 12) - FirstOf(m) \in {365, 366}
  <2>1. MonthStart(k, Leap(y + 1)) - MonthStart(k, Leap(y)) = IF k > 1 THEN Leap(y + 1) - Leap(y) ELSE 0
    <3>1. k + 1 \in 1..12
      OBVIOUS
    <3>2. DaysBefore[k + 1] \in Int
      BY <3>1 DEF DaysBefore
    <3> QED
      BY <1>3, <3>2 DEF MonthStart
  <2>2. MonthStart(k, Leap(y + 1)) \in 0..335
    BY <1>3, YearOfMonths
  <2>3. MonthStart(k, Leap(y)) \in Int /\ MonthStart(k, Leap(y + 1)) \in Int
    BY <1>5, <2>2
  <2>4. FirstOf(m + 12) - FirstOf(m)
        = 365 + Leap(y) + (MonthStart(k, Leap(y + 1)) - MonthStart(k, Leap(y)))
    BY <1>2, <1>3, <1>4, <2>3
  <2>5. FirstOf(m + 12) - FirstOf(m) = IF k > 1 THEN 365 + Leap(y + 1) ELSE 365 + Leap(y)
    BY <1>3, <2>1, <2>4
  <2> QED
    BY <1>3, <2>5
<1>7. CASE k < 11
  <2>1. m + 1 = 12 * y + (k + 1) /\ k + 1 \in 0..11 /\ m + 1 \in Int /\ k \in 0..10
    BY <1>1, <1>7
  <2>2. FirstOf(m + 1) = NewYear(y) + MonthStart(k + 1, Leap(y))
    BY <2>1, YearAndMonth
  <2>3. MonthStart(k + 1, Leap(y)) = MonthStart(k, Leap(y)) + MonthLength(k, Leap(y))
    BY <1>3, <2>1, YearOfMonths
  <2> QED
    BY <1>2, <1>3, <1>5, <1>6, <2>2, <2>3
<1>8. CASE k = 11
  <2>1. m + 1 = 12 * (y + 1) + 0 /\ y + 1 \in Int /\ 0 \in 0..11 /\ m + 1 \in Int
    BY <1>1, <1>8
  <2>2. FirstOf(m + 1) = NewYear(y + 1) + MonthStart(0, Leap(y + 1))
    BY <2>1, YearAndMonth
  <2>3. MonthStart(0, Leap(y + 1)) = 0 /\ MonthLength(11, Leap(y)) = 31 /\ MonthStart(11, Leap(y)) + 31 = 365 + Leap(y)
    BY <1>3, YearOfMonths
  <2> QED
    BY <1>2, <1>3, <1>5, <1>6, <1>8, <2>2, <2>3
<1> QED
  BY <1>7, <1>8

LEMMA MonthsInOrder == ASSUME NEW a \in Int, NEW b \in Int, a < b PROVE FirstOf(a + 1) <= FirstOf(b)
<1>0. a + 1 \in Int
  OBVIOUS
<1>1. PICK y \in Int, k \in 0..11 : a + 1 = 12 * y + k
  BY <1>0, MonthParts
<1>2. PICK z \in Int, l \in 0..11 : b = 12 * z + l
  BY MonthParts
<1>3. FirstOf(a + 1) = NewYear(y) + MonthStart(k, Leap(y)) /\ FirstOf(b) = NewYear(z) + MonthStart(l, Leap(z))
  BY <1>0, <1>1, <1>2, YearAndMonth
<1>4. /\ NewYear(y) \in Int /\ Leap(y) \in 0..1 /\ NewYear(y + 1) = NewYear(y) + 365 + Leap(y)
      /\ NewYear(z) \in Int /\ Leap(z) \in 0..1
  BY YearFollows
<1>5. MonthStart(k, Leap(y)) \in 0..335 /\ MonthStart(l, Leap(z)) \in 0..335
  BY <1>4, YearOfMonths
<1>6. CASE y = z
  <2>1. k <= l
    BY <1>1, <1>2, <1>6
  <2>2. \A i, j \in 1..12 : i <= j => DaysBefore[i] <= DaysBefore[j] /\ DaysBefore[i] \in Int
    BY DEF DaysBefore
  <2>3. MonthStart(k, Leap(y)) <= MonthStart(l, Leap(y))
    <3>1. k + 1 \in 1..12 /\ l + 1 \in 1..12 /\ k + 1 <= l + 1
      BY <2>1
    <3>2. DaysBefore[k + 1] <= DaysBefore[l + 1] /\ DaysBefore[k + 1] \in Int /\ DaysBefore[l + 1] \in Int
      BY <2>2, <3>1
    <3> QED
      BY <1>4, <2>1, <3>2 DEF MonthStart
  <2>4. MonthStart(k, Leap(y)) \in Int /\ MonthStart(l, Leap(y)) \in Int
    BY <1>5, <1>6
  <2>5. FirstOf(b) = NewYear(y) + MonthStart(l, Leap(y))
    BY <1>3, <1>6
  <2> QED
    BY <1>3, <1>4, <2>3, <2>4, <2>5
<1>7. CASE y < z
  <2>1. NewYear(y + 1) <= NewYear(z)
    BY <1>7, YearsInOrder
  <2>2. PICK i \in 0..335, j \in 0..335 : i = MonthStart(k, Leap(y)) /\ j = MonthStart(l, Leap(z))
    BY <1>5
  <2>3. FirstOf(a + 1) = NewYear(y) + i /\ FirstOf(b) = NewYear(z) + j
    BY <1>3, <2>2
  <2> QED
    BY <1>4, <2>1, <2>3
<1> QED
  <2>1. y <= z
    BY <1>1, <1>2
  <2> QED
    BY <1>6, <1>7, <2>1

(* Every day is of one month.                                              *)
LEMMA YearHas == ASSUME NEW day \in Nat PROVE \E y \in Nat : NewYear(y) <= day /\ day < NewYear(y + 1)
<1>1. PICK q \in Nat, r \in 0..1460 : day = 1461 * q + r
  <2>1. day = 1461 * (day \div 1461) + (day % 1461) /\ day \div 1461 \in Nat /\ day % 1461 \in 0..1460
    OBVIOUS
  <2> QED
    BY <2>1
<1> DEFINE y == 4 * q
<1>2. /\ NewYear(y) = 1461 * q /\ NewYear(y + 1) = 1461 * q + 365
      /\ NewYear(y + 2) = 1461 * q + 730 /\ NewYear(y + 3) = 1461 * q + 1096
      /\ NewYear(y + 4) = 1461 * q + 1461
  <2>1. /\ (4 * q + 1) \div 4 = q /\ (4 * q + 1 + 1) \div 4 = q /\ (4 * q + 2 + 1) \div 4 = q
        /\ (4 * q + 3 + 1) \div 4 = q + 1 /\ (4 * q + 4 + 1) \div 4 = q + 1
    OBVIOUS
  <2> QED
    BY <2>1 DEF NewYear
<1>3. y \in Nat /\ y + 1 \in Nat /\ y + 2 \in Nat /\ y + 3 \in Nat
      /\ (y + 1) + 1 = y + 2 /\ (y + 2) + 1 = y + 3 /\ (y + 3) + 1 = y + 4
  OBVIOUS
<1> HIDE DEF y
<1>4. r < 365 \/ (365 <= r /\ r < 730) \/ (730 <= r /\ r < 1096) \/ 1096 <= r
  OBVIOUS
<1>5. CASE r < 365
  BY <1>1, <1>2, <1>3, <1>5
<1>6. CASE 365 <= r /\ r < 730
  BY <1>1, <1>2, <1>3, <1>6
<1>7. CASE 730 <= r /\ r < 1096
  BY <1>1, <1>2, <1>3, <1>7
<1>8. CASE 1096 <= r
  BY <1>1, <1>2, <1>3, <1>8
<1> QED
  BY <1>4, <1>5, <1>6, <1>7, <1>8

LEMMA MonthHas == ASSUME NEW day \in Nat PROVE \E m \in Nat : day \in FirstOf(m)..LastOf(m)
<1>1. PICK y \in Nat : NewYear(y) <= day /\ day < NewYear(y + 1)
  BY YearHas
<1>2. NewYear(y) \in Int /\ Leap(y) \in 0..1 /\ NewYear(y + 1) = NewYear(y) + 365 + Leap(y)
  BY YearFollows
<1> DEFINE d == day - NewYear(y)
           Starts(k) == MonthStart(k, Leap(y))
<1>3. /\ Starts(0) = 0 /\ Starts(11) + 31 = 365 + Leap(y)
      /\ \A k \in 0..11 : Starts(k) \in Int /\ MonthLength(k, Leap(y)) \in Int
      /\ \A k \in 0..10 : Starts(k + 1) = Starts(k) + MonthLength(k, Leap(y))
      /\ MonthLength(11, Leap(y)) = 31
  BY <1>2, YearOfMonths
<1>4. d \in Nat /\ d < 365 + Leap(y)
  BY <1>1, <1>2
<1> HIDE DEF d
<1>5. \E k \in 0..11 : Starts(k) <= d /\ d < Starts(k) + MonthLength(k, Leap(y))
  <2> HIDE DEF Starts
  <2>1. SUFFICES ASSUME \A k \in 0..11 : Starts(k) <= d => Starts(k) + MonthLength(k, Leap(y)) <= d
                 PROVE  FALSE
    BY <1>3, <1>4
  <2>2. \A k \in 0..10 : Starts(k) <= d => Starts(k + 1) <= d
    <3>1. \A k \in 0..10 : k \in 0..11
      OBVIOUS
    <3> QED
      BY <1>3, <2>1, <3>1
  <2>3. Starts(1) <= d
    BY <1>3, <1>4, <2>2
  <2>4. Starts(2) <= d
    BY <2>2, <2>3
  <2>5. Starts(3) <= d
    BY <2>2, <2>4
  <2>6. Starts(4) <= d
    BY <2>2, <2>5
  <2>7. Starts(5) <= d
    BY <2>2, <2>6
  <2>8. Starts(6) <= d
    BY <2>2, <2>7
  <2>9. Starts(7) <= d
    BY <2>2, <2>8
  <2>10. Starts(8) <= d
    BY <2>2, <2>9
  <2>11. Starts(9) <= d
    BY <2>2, <2>10
  <2>12. Starts(10) <= d
    BY <2>2, <2>11
  <2>13. Starts(11) <= d
    BY <2>2, <2>12
  <2>14. Starts(11) + 31 <= d
    BY <1>3, <2>1, <2>13
  <2> QED
    BY <1>2, <1>3, <1>4, <2>14
<1>6. PICK k \in 0..11 : Starts(k) <= d /\ d < Starts(k) + MonthLength(k, Leap(y))
  BY <1>5
<1>7. PICK m \in Nat : m = 12 * y + k /\ m \in Int /\ y \in Int
  OBVIOUS
<1>8. FirstOf(m) = NewYear(y) + Starts(k) /\ DaysInMonth(m) = MonthLength(k, Leap(y))
  BY <1>7, YearAndMonth
<1>9. FirstOf(m) \in Int /\ FirstOf(m + 1) = FirstOf(m) + DaysInMonth(m)
  BY MonthFollows
<1>10. Starts(k) \in Int /\ MonthLength(k, Leap(y)) \in Int
  BY <1>3
<1> HIDE DEF Starts
<1>11. FirstOf(m) <= day /\ day < FirstOf(m + 1)
  BY <1>2, <1>6, <1>8, <1>9, <1>10 DEF d
<1> QED
  BY <1>8, <1>9, <1>10, <1>11 DEF LastOf
LEMMA MonthBounds == ASSUME NEW n \in Nat PROVE 28 * n <= FirstOf(n) /\ FirstOf(n) <= 31 * n
<1>0. n \in Int
  OBVIOUS
<1>1. PICK y \in Int, k \in 0..11 : n = 12 * y + k
  BY <1>0, MonthParts
<1>2. FirstOf(n) = NewYear(y) + MonthStart(k, Leap(y))
  BY <1>0, <1>1, YearAndMonth
<1>3. /\ NewYear(y) \in Int /\ Leap(y) \in 0..1
      /\ 4 * NewYear(y) <= 1461 * y + 1 /\ 1461 * y - 3 < 4 * NewYear(y)
  BY YearFollows
<1>4. y \in Nat
  BY <1>1
<1>5. 365 * y <= NewYear(y) /\ NewYear(y) <= 372 * y
  BY <1>3, <1>4
<1>6. 28 * k <= MonthStart(k, Leap(y)) /\ MonthStart(k, Leap(y)) <= 31 * k
  <2>1. k \in {0, 1, 2, 3, 4, 5, 6, 7, 8, 9, 10, 11}
    OBVIOUS
  <2> QED
    BY <1>3, <2>1 DEF MonthStart, DaysBefore
<1>7. MonthStart(k, Leap(y)) \in Int
  BY <1>3, YearOfMonths
<1> QED
  BY <1>1, <1>2, <1>3, <1>4, <1>5, <1>6, <1>7

(* The month of a day is the one month that has it.                        *)
LEMMA MonthOfIs ==
    ASSUME NEW day \in Nat, NEW m \in Int, day \in FirstOf(m)..LastOf(m)
    PROVE  MonthOf(day) = m /\ m \in Nat
<1>1. \A a, b \in Int : day \in FirstOf(a)..LastOf(a) /\ day \in FirstOf(b)..LastOf(b) => ~ (a < b)
  <2>1. SUFFICES ASSUME NEW a \in Int, NEW b \in Int, a < b,
                        day \in FirstOf(a)..LastOf(a), day \in FirstOf(b)..LastOf(b)
                 PROVE  FALSE
    OBVIOUS
  <2>2. FirstOf(a + 1) <= FirstOf(b)
    BY <2>1, MonthsInOrder
  <2>3. FirstOf(a + 1) \in Int /\ FirstOf(b) \in Int /\ FirstOf(a) \in Int /\ FirstOf(b + 1) \in Int
    BY MonthFollows
  <2> QED
    BY <2>1, <2>2, <2>3 DEF LastOf
<1>2. PICK n \in Nat : day \in FirstOf(n)..LastOf(n)
  BY MonthHas
<1>3. m = n
  BY <1>1, <1>2
<1>4. n \in (day \div 31)..(day \div 28)
  <2>1. 28 * n <= FirstOf(n) /\ FirstOf(n + 1) <= 31 * (n + 1)
    BY MonthBounds
  <2>2. FirstOf(n) \in Int /\ FirstOf(n + 1) \in Int
    BY MonthFollows
  <2>3. 28 * n <= day /\ day < 31 * (n + 1)
    BY <1>2, <2>1, <2>2 DEF LastOf
  <2> QED
    BY <2>3
<1>5. \A a \in (day \div 31)..(day \div 28) : a \in Int
  OBVIOUS
<1>6. \A a \in (day \div 31)..(day \div 28) : day \in FirstOf(a)..LastOf(a) => a = n
  <2>1. SUFFICES ASSUME NEW a \in Int, day \in FirstOf(a)..LastOf(a) PROVE a = n
    BY <1>5
  <2>2. ~ (a < n) /\ ~ (n < a)
    BY <1>1, <1>2, <2>1
  <2> QED
    BY <2>2
<1>7. MonthOf(day) = n
  BY <1>2, <1>4, <1>6 DEF MonthOf
<1> QED
  BY <1>3, <1>7

LEMMA MonthOfDay ==
    ASSUME NEW day \in Nat
    PROVE  MonthOf(day) \in Nat /\ day \in FirstOf(MonthOf(day))..LastOf(MonthOf(day))
<1>1. PICK n \in Nat : day \in FirstOf(n)..LastOf(n)
  BY MonthHas
<1>2. MonthOf(day) = n
  BY <1>1, MonthOfIs
<1> QED
  BY <1>1, <1>2

LEMMA LaterAndSooner ==
    ASSUME NEW a \in Int, NEW b \in Int
    PROVE  /\ Later(a, b) \in Int /\ Later(a, b) >= a /\ Later(a, b) >= b /\ Later(a, b) \in {a, b}
           /\ Sooner(a, b) \in Int /\ Sooner(a, b) <= a /\ Sooner(a, b) <= b /\ Sooner(a, b) \in {a, b}
BY DEF Later, Sooner

-----------------------------------------------------------------------------
Ahead(S, f, s) == {t \in S : f[t] < f[s]}

Numbered(S, f) ==
    LET Rank(s) == Cardinality(Ahead(S, f, s))
    IN  /\ Cardinality(S) \in Nat
        /\ \A s \in S : Rank(s) \in 0..Cardinality(S) - 1
        /\ \A s, t \in S : f[s] < f[t] => Rank(s) < Rank(t)
        /\ \A s, t \in S : Rank(s) = Rank(t) => s = t
        /\ \A i \in 0..Cardinality(S) - 1 : \E s \in S : Rank(s) = i

(* The elements of a finite set before each of its elements, by a key that *)
(* tells them apart, number them from nought.                              *)
LEMMA RanksNumber ==
    ASSUME NEW S, IsFiniteSet(S), NEW f \in [S -> Int],
           \A s, t \in S : f[s] = f[t] => s = t
    PROVE  Numbered(S, f)
<1> DEFINE Before(s) == Ahead(S, f, s)
           Rank(s) == Cardinality(Before(s))
           n == Cardinality(S)
<1>1. n \in Nat
  BY FS_CardinalityType
<1>2. ASSUME NEW s \in S PROVE IsFiniteSet(Before(s)) /\ Rank(s) \in Nat
  <2>1. Before(s) \in SUBSET S
    BY DEF Ahead
  <2> HIDE DEF Before
  <2> QED
    BY <2>1, FS_Subset, FS_CardinalityType
<1>3. ASSUME NEW s \in S PROVE Rank(s) \in 0..n - 1
  <2>1. Before(s) \in SUBSET S /\ Before(s) # S
    BY DEF Ahead
  <2> HIDE DEF Before
  <2>2. Cardinality(Before(s)) <= Cardinality(S) /\ Cardinality(S) # Cardinality(Before(s))
    BY <2>1, FS_Subset
  <2> QED
    BY <1>1, <1>2, <2>2
<1>4. ASSUME NEW s \in S, NEW t \in S, f[s] < f[t] PROVE Rank(s) < Rank(t)
  <2>1. Before(s) \in SUBSET Before(t)
    BY <1>4 DEF Ahead
  <2>2. s \in Before(t) /\ s \notin Before(s)
    BY <1>4 DEF Ahead
  <2> HIDE DEF Before
  <2>3. IsFiniteSet(Before(t)) /\ Cardinality(Before(t)) \in Nat /\ Cardinality(Before(s)) \in Nat
    BY <1>2
  <2>4. Cardinality(Before(s)) <= Cardinality(Before(t)) /\ Cardinality(Before(t)) # Cardinality(Before(s))
    BY <2>1, <2>2, <2>3, FS_Subset
  <2> QED
    BY <2>3, <2>4
<1> HIDE DEF Rank
<1>5. ASSUME NEW s \in S, NEW t \in S, Rank(s) = Rank(t) PROVE s = t
  <2>0. Rank(s) \in Int /\ ~ (Rank(s) < Rank(t)) /\ ~ (Rank(t) < Rank(s))
    <3>1. Rank(s) \in Nat /\ Rank(t) \in Nat
      BY <1>2
    <3> QED
      BY <1>5, <3>1
  <2>1. f[s] \in Int /\ f[t] \in Int
    OBVIOUS
  <2>2. ~ (f[s] < f[t]) /\ ~ (f[t] < f[s])
    BY <1>4, <2>0
  <2> QED
    BY <2>1, <2>2
<1>6. ASSUME NEW i \in 0..n - 1 PROVE \E s \in S : Rank(s) = i
  <2> DEFINE g == [s \in S |-> Rank(s)]
  <2>1. g \in [S -> 0..n - 1] /\ \A s, t \in S : g[s] = g[t] => s = t
    BY <1>3, <1>5
  <2>2. g \in Injection(S, 0..n - 1)
    BY <2>1 DEF Injection, IsInjective
  <2>3. IsFiniteSet(0..n - 1) /\ Cardinality(0..n - 1) = n
    <3>1. 0 \in Int /\ n - 1 \in Int
      BY <1>1
    <3>2. Cardinality(0..n - 1) = IF 0 > n - 1 THEN 0 ELSE (n - 1) - 0 + 1
      BY <3>1, FS_Interval
    <3> HIDE DEF n
    <3>3. Cardinality(0..n - 1) = n
      BY <1>1, <3>2
    <3> QED
      BY <3>1, <3>3, FS_Interval
  <2>4. g \in Surjection(S, 0..n - 1)
    <3> HIDE DEF g
    <3> QED
      BY <2>2, <2>3, FS_Injection
  <2>5. \E s \in S : g[s] = i
    BY <2>4 DEF Surjection
  <2> QED
    BY <2>5
<1> QED
  BY <1>1, <1>3, <1>4, <1>5, <1>6 DEF Numbered, Rank, Before

LEMMA RanksOfTimes ==
    ASSUME NEW S, S \subseteq Int, IsFiniteSet(S)
    PROVE  LET Rank(s) == Cardinality({t \in S : t < s})
           IN  /\ Cardinality(S) \in Nat
               /\ \A s \in S : Rank(s) \in 0..Cardinality(S) - 1
               /\ \A s, t \in S : Rank(s) = Rank(t) => s = t
               /\ \A i \in 0..Cardinality(S) - 1 : \E s \in S : Rank(s) = i
<1> DEFINE Rank(s) == Cardinality({t \in S : t < s})
<1>1. PICK f : f \in [S -> Int] /\ \A s \in S : f[s] = s
  <2> DEFINE same == [s \in S |-> s]
  <2>1. same \in [S -> Int] /\ \A s \in S : same[s] = s
    OBVIOUS
  <2> HIDE DEF same
  <2> QED
    BY <2>1, Zenon
<1>2. \A s, t \in S : f[s] = f[t] => s = t
  BY <1>1
<1>3. \A s \in S : Cardinality(Ahead(S, f, s)) = Rank(s)
  <2>1. \A s \in S : Ahead(S, f, s) = {t \in S : t < s}
    BY <1>1 DEF Ahead
  <2> QED
    BY <2>1
<1>4. /\ Cardinality(S) \in Nat
      /\ \A s \in S : Cardinality(Ahead(S, f, s)) \in 0..Cardinality(S) - 1
      /\ \A s, t \in S : Cardinality(Ahead(S, f, s)) = Cardinality(Ahead(S, f, t)) => s = t
      /\ \A i \in 0..Cardinality(S) - 1 : \E s \in S : Cardinality(Ahead(S, f, s)) = i
  <2>1. Numbered(S, f)
    BY <1>1, <1>2, RanksNumber
  <2> QED
    BY <2>1 DEF Numbered
<1> HIDE DEF Rank
<1>5. /\ Cardinality(S) \in Nat
      /\ \A s \in S : Rank(s) \in 0..Cardinality(S) - 1
      /\ \A s, t \in S : Rank(s) = Rank(t) => s = t
      /\ \A i \in 0..Cardinality(S) - 1 : \E s \in S : Rank(s) = i
  <2>1. \A s \in S : Rank(s) \in 0..Cardinality(S) - 1
    BY <1>3, <1>4
  <2>2. \A s, t \in S : Rank(s) = Rank(t) => s = t
    BY <1>3, <1>4
  <2>3. ASSUME NEW i \in 0..Cardinality(S) - 1 PROVE \E s \in S : Rank(s) = i
    BY <1>3, <1>4
  <2> QED
    BY <1>4, <2>1, <2>2, <2>3
<1> QED
  BY <1>5 DEF Rank

-----------------------------------------------------------------------------
(* Pages of times. *)

LEMMA PagesCount ==
    ASSUME NEW S \in SUBSET Int, IsFiniteSet(S)
    PROVE  /\ Cardinality(S) \in Nat /\ LastPage(S) \in Nat
           /\ \A p \in Nat : p <= LastPage(S) <=> p = 0 \/ 7 * p < Cardinality(S)
<1>1. Cardinality(S) \in Nat
  BY FS_CardinalityType
<1>2. PICK n \in Nat : n = Cardinality(S)
  BY <1>1
<1>3. LastPage(S) = IF 0 >= (n + 6) \div 7 - 1 THEN 0 ELSE (n + 6) \div 7 - 1
  BY <1>2 DEF LastPage, Later, TimesPerPage
<1>4. \A p \in Nat : 7 * p < n <=> p < (n + 6) \div 7
  OBVIOUS
<1>5. PICK c \in Nat : c = (n + 6) \div 7
  OBVIOUS
<1> QED
  BY <1>1, <1>2, <1>3, <1>4, <1>5

LEMMA PagesAreTrue ==
    ASSUME NEW S \in SUBSET Int, IsFiniteSet(S)
    PROVE  LET pages == 0..LastPage(S)
               Page(p) == GetTimePage(S, p)
           IN  /\ UNION {Page(p).rows : p \in pages} = S
               /\ \A p \in pages : /\ Page(p).more <=> p + 1 \in pages
                                   /\ Page(p).earlier <=> p - 1 \in pages
                                   /\ Cardinality(Page(p).rows) <= TimesPerPage
               /\ S # {} => \A p \in pages : Page(p).rows # {}
<1> DEFINE Rank(s) == Cardinality({t \in S : t < s})
           PageRows(p) == {s \in S : Rank(s) \div 7 = p}
           n == Cardinality(S)
           pages == 0..LastPage(S)
<1>1. /\ \A s \in S : Rank(s) \in 0..n - 1
      /\ \A s, t \in S : Rank(s) = Rank(t) => s = t
      /\ \A i \in 0..n - 1 : \E s \in S : Rank(s) = i
  BY RanksOfTimes
<1>2. n \in Nat /\ LastPage(S) \in Nat /\ \A p \in Nat : p <= LastPage(S) <=> p = 0 \/ 7 * p < n
  BY PagesCount
<1>3. \A p : /\ GetTimePage(S, p).rows = PageRows(p)
             /\ GetTimePage(S, p).more <=> (p + 1) * 7 < n
             /\ GetTimePage(S, p).earlier <=> p > 0
  BY DEF GetTimePage, TimesPerPage
<1>4. S = {} <=> n = 0
  BY FS_EmptySet
<1> HIDE DEF Rank, n
<1>5. \A s \in S : \E p \in pages : s \in PageRows(p)
  <2>1. SUFFICES ASSUME NEW s \in S PROVE \E p \in pages : Rank(s) \div 7 = p
    OBVIOUS
  <2>2. PICK r \in Nat : r = Rank(s) /\ r < n
    BY <1>1, <1>2
  <2>3. r \div 7 \in Nat /\ 7 * (r \div 7) < n
    BY <1>2, <2>2
  <2>4. r \div 7 \in pages
    BY <1>2, <2>3
  <2> QED
    BY <2>2, <2>4
<1>6. UNION {PageRows(p) : p \in pages} = S
  BY <1>5
<1>7. ASSUME NEW p \in pages
      PROVE  ((p + 1) * 7 < n <=> p + 1 \in pages) /\ (p > 0 <=> p - 1 \in pages)
  <2>1. p \in Nat /\ p + 1 \in Nat /\ p + 1 # 0 /\ (p + 1) * 7 = 7 * (p + 1)
    BY <1>2
  <2> QED
    BY <1>2, <2>1
<1>8. ASSUME NEW p \in pages PROVE Cardinality(PageRows(p)) <= 7
  <2> DEFINE g == [s \in PageRows(p) |-> Rank(s)]
  <2>1. \A s \in PageRows(p) : Rank(s) \in 7 * p..7 * p + 6
    <3>1. SUFFICES ASSUME NEW s \in S, Rank(s) \div 7 = p PROVE Rank(s) \in 7 * p..7 * p + 6
      OBVIOUS
    <3>2. Rank(s) \in Nat /\ p \in Nat
      BY <1>1, <1>2
    <3> QED
      BY <3>1, <3>2
  <2>2. g \in [PageRows(p) -> 7 * p..7 * p + 6] /\ \A s, t \in PageRows(p) : g[s] = g[t] => s = t
    BY <1>1, <2>1
  <2>3. g \in Injection(PageRows(p), 7 * p..7 * p + 6)
    BY <2>2 DEF Injection, IsInjective
  <2>4. IsFiniteSet(7 * p..7 * p + 6) /\ Cardinality(7 * p..7 * p + 6) = 7
    <3>1. 7 * p \in Int /\ 7 * p + 6 \in Int /\ ~ (7 * p > 7 * p + 6) /\ 7 * p + 6 - 7 * p + 1 = 7
      BY <1>2
    <3> QED
      BY <3>1, FS_Interval
  <2>5. Cardinality(PageRows(p)) <= Cardinality(7 * p..7 * p + 6)
    <3> HIDE DEF g, PageRows
    <3> QED
      BY <2>3, <2>4, FS_Injection
  <2> QED
    BY <2>4, <2>5
<1>9. ASSUME S # {}, NEW p \in pages PROVE PageRows(p) # {}
  <2>0. p \in Nat /\ p <= LastPage(S) /\ n # 0
    <3>1. p \in Nat /\ p <= LastPage(S)
      BY <1>2
    <3>2. n # 0
      BY <1>4, <1>9
    <3> QED
      BY <3>1, <3>2
  <2>1. p \in Nat /\ 7 * p \in 0..n - 1
    <3>1. p = 0 \/ 7 * p < n
      BY <1>2, <2>0
    <3> QED
      BY <1>2, <2>0, <3>1
  <2>2. PICK s \in S : Rank(s) = 7 * p
    BY <1>1, <2>1
  <2>3. (7 * p) \div 7 = p
    BY <2>1
  <2> QED
    BY <2>2, <2>3
<1> HIDE DEF PageRows
<1> QED
  BY <1>3, <1>6, <1>7, <1>8, <1>9 DEF TimesPerPage, n
-----------------------------------------------------------------------------
(* Weeks of a month. *)

LEMMA DayAndWeek ==
    ASSUME NEW d \in Int
    PROVE  /\ DayOfWeek(d) \in 0..6
           /\ \A e \in Int : d <= e /\ e <= d + 6 - DayOfWeek(d) => DayOfWeek(e) = DayOfWeek(d) + (e - d)
           /\ \A e \in Int : d < e /\ DayOfWeek(e) = 0 => e > d + 6 - DayOfWeek(d)
           /\ DayOfWeek(d - DayOfWeek(d)) = 0
<1>1. PICK q \in Int, r \in 0..6 : d + 4 = 7 * q + r /\ DayOfWeek(d) = r
  <2>1. d + 4 = 7 * ((d + 4) \div 7) + ((d + 4) % 7) /\ (d + 4) \div 7 \in Int /\ (d + 4) % 7 \in 0..6
    OBVIOUS
  <2> QED
    BY <2>1 DEF DayOfWeek
<1>2. ASSUME NEW e \in Int, d <= e, e <= d + 6 - r PROVE DayOfWeek(e) = r + (e - d)
  <2>1. PICK s \in 0..6 : s = r + (e - d) /\ e + 4 = 7 * q + s
    BY <1>1, <1>2
  <2>2. (7 * q + s) % 7 = s
    OBVIOUS
  <2> QED
    BY <2>1, <2>2 DEF DayOfWeek
<1>3. ASSUME NEW e \in Int, d < e, DayOfWeek(e) = 0 PROVE e > d + 6 - r
  <2>1. SUFFICES ASSUME e <= d + 6 - r PROVE FALSE
    BY <1>1
  <2>2. r + (e - d) = 0
    BY <1>2, <1>3, <2>1
  <2> QED
    BY <1>1, <1>3, <2>2
<1>4. DayOfWeek(d - r) = 0
  <2>1. (d - r) + 4 = 7 * q
    BY <1>1
  <2>2. (7 * q) % 7 = 0
    OBVIOUS
  <2> QED
    BY <2>1, <2>2 DEF DayOfWeek
<1> QED
  BY <1>1, <1>2, <1>3, <1>4

(* The weeks of a month from a day share out the days from it, none empty. *)
LEMMA WeeksShareDays ==
    ASSUME NEW month \in Int, NEW min \in Int
    PROVE  LET W == GetWeeksOfMonth(month, min)
           IN  /\ \A w \in W : /\ w.first \in Int /\ w.last \in Int /\ w.first <= w.last
                               /\ FirstOf(month) <= w.first /\ min <= w.first /\ w.last <= LastOf(month)
               /\ \A v, w \in W : v.first = w.first => v = w
               /\ \A v, w \in W : v # w => GetDatesOfWeek(v) \cap GetDatesOfWeek(w) = {}
               /\ \A d \in FirstOf(month)..LastOf(month) :
                     d >= min => \E w \in W : d \in GetDatesOfWeek(w)
<1> DEFINE W == GetWeeksOfMonth(month, min)
           a == FirstOf(month)
           b == LastOf(month)
           Starts == {d \in a..b : d = a \/ DayOfWeek(d) = 0}
           EndOf(d) == Sooner(d + 6 - DayOfWeek(d), b)
           Week(d) == [first |-> Later(d, min), last |-> EndOf(d)]
<1>1. a \in Int /\ b \in Int
  BY MonthFollows DEF LastOf
<1>2. \A w : w \in W <=> \E d \in Starts : EndOf(d) >= min /\ w = Week(d)
  <2> DEFINE Whole(d) == [first |-> d, last |-> EndOf(d)]
             Cut(w) == [w EXCEPT !.first = Later(w.first, min)]
  <2>1. W = {Cut(w) : w \in {v \in {Whole(d) : d \in Starts} : v.last >= min}}
    BY DEF GetWeeksOfMonth
  <2> HIDE DEF EndOf, Starts, W
  <2>2. \A d : Whole(d).last = EndOf(d) /\ Cut(Whole(d)) = Week(d)
    OBVIOUS
  <2> HIDE DEF Whole, Cut
  <2> QED
    BY <2>1, <2>2
<1> HIDE DEF a, b, W
<1>3. ASSUME NEW d \in Starts
      PROVE  /\ d \in Int /\ a <= d /\ d <= b /\ DayOfWeek(d) \in 0..6
             /\ EndOf(d) \in Int /\ d <= EndOf(d) /\ EndOf(d) <= b /\ EndOf(d) <= d + 6 - DayOfWeek(d)
             /\ Later(d, min) \in Int /\ Later(d, min) >= d /\ Later(d, min) >= min
             /\ EndOf(d) >= min => Later(d, min) <= EndOf(d)
             /\ EndOf(d) = d + 6 - DayOfWeek(d) \/ EndOf(d) = b
  <2>1. d \in Int /\ a <= d /\ d <= b
    BY <1>1
  <2>2. DayOfWeek(d) \in 0..6
    BY <2>1, DayAndWeek
  <2>3. d + 6 - DayOfWeek(d) \in Int /\ d <= d + 6 - DayOfWeek(d)
    BY <2>1, <2>2
  <2>4. /\ EndOf(d) \in Int /\ EndOf(d) \in {d + 6 - DayOfWeek(d), b}
        /\ EndOf(d) <= b /\ EndOf(d) <= d + 6 - DayOfWeek(d)
    BY <1>1, <2>3, LaterAndSooner
  <2>5. Later(d, min) \in Int /\ Later(d, min) >= d /\ Later(d, min) >= min /\ Later(d, min) \in {d, min}
    BY <2>1, LaterAndSooner
  <2>6. d <= EndOf(d)
    BY <2>1, <2>3, <2>4
  <2> HIDE DEF EndOf, Starts
  <2> QED
    BY <2>1, <2>2, <2>4, <2>5, <2>6
<1>4. ASSUME NEW d \in Starts, NEW e \in Starts, d < e PROVE EndOf(d) < e
  <2>1. DayOfWeek(e) = 0
    BY <1>1, <1>4
  <2>2. d \in Int /\ e \in Int
    BY <1>3
  <2>3. e > d + 6 - DayOfWeek(d)
    BY <1>4, <2>1, <2>2, DayAndWeek
  <2>4. EndOf(d) <= d + 6 - DayOfWeek(d) /\ EndOf(d) \in Int /\ DayOfWeek(d) \in Int
    BY <1>3
  <2> HIDE DEF EndOf
  <2> QED
    BY <2>2, <2>3, <2>4
<1>5. ASSUME NEW d \in a..b, d >= min PROVE \E w \in W : d \in GetDatesOfWeek(w)
  <2>1. d \in Int /\ a <= d /\ d <= b
    BY <1>1
  <2>2. DayOfWeek(d) \in 0..6 /\ DayOfWeek(d - DayOfWeek(d)) = 0
    BY <2>1, DayAndWeek
  <2>3. \E s \in Starts : s <= d /\ d <= s + 6 - DayOfWeek(s)
    <3>1. CASE a <= d - DayOfWeek(d)
      <4>1. d - DayOfWeek(d) \in Starts
        BY <1>1, <2>1, <2>2, <3>1
      <4> QED
        BY <2>1, <2>2, <4>1
    <3>2. CASE d - DayOfWeek(d) < a
      <4>1. PICK s \in Int : s = d - DayOfWeek(d)
        BY <2>1, <2>2
      <4>2. DayOfWeek(a) = 0 + (a - s)
        <5>1. DayOfWeek(s) = 0 /\ s <= a /\ a <= s + 6 - DayOfWeek(s)
          BY <1>1, <2>1, <2>2, <3>2, <4>1
        <5> QED
          BY <1>1, <5>1, DayAndWeek
      <4>3. a \in Starts
        BY <1>1, <2>1
      <4>4. a <= d /\ d <= a + 6 - DayOfWeek(a)
        BY <1>1, <2>1, <2>2, <4>1, <4>2
      <4> QED
        BY <4>3, <4>4
    <3> QED
      BY <1>1, <2>1, <2>2, <3>1, <3>2
  <2>4. PICK s \in Starts : s <= d /\ d <= s + 6 - DayOfWeek(s)
    BY <2>3
  <2>5. EndOf(s) \in Int /\ (EndOf(s) = s + 6 - DayOfWeek(s) \/ EndOf(s) = b) /\ s \in Int
    BY <1>3
  <2>6. d <= EndOf(s)
    BY <1>1, <2>1, <2>4, <2>5
  <2> HIDE DEF EndOf, Starts
  <2>7. EndOf(s) >= min
    BY <1>5, <2>1, <2>5, <2>6
  <2>8. Later(s, min) \in Int /\ Later(s, min) \in {s, min}
    BY <2>5, LaterAndSooner
  <2>9. Week(s) \in W /\ Week(s).first = Later(s, min) /\ Week(s).last = EndOf(s)
    BY <1>2, <2>7
  <2>10. d \in Later(s, min)..EndOf(s)
    BY <1>5, <2>1, <2>4, <2>5, <2>6, <2>8
  <2> QED
    BY <2>9, <2>10 DEF GetDatesOfWeek
<1> HIDE DEF Starts
<1>6. ASSUME NEW w \in W
      PROVE  \E d \in Starts : /\ w = Week(d) /\ EndOf(d) >= min
                               /\ w.first = Later(d, min) /\ w.last = EndOf(d)
  BY <1>2
<1>7. ASSUME NEW w \in W
      PROVE  /\ w.first \in Int /\ w.last \in Int /\ w.first <= w.last
             /\ a <= w.first /\ min <= w.first /\ w.last <= b
  <2>1. PICK d \in Starts : EndOf(d) >= min /\ w.first = Later(d, min) /\ w.last = EndOf(d)
    BY <1>6
  <2> HIDE DEF EndOf
  <2> QED
    BY <1>1, <1>3, <2>1
<1>8. ASSUME NEW v \in W, NEW w \in W
      PROVE  v = w \/ v.last < w.first \/ w.last < v.first
  <2>1. PICK d \in Starts : v = Week(d) /\ EndOf(d) >= min /\ v.first = Later(d, min) /\ v.last = EndOf(d)
    BY <1>6
  <2>2. PICK e \in Starts : w = Week(e) /\ EndOf(e) >= min /\ w.first = Later(e, min) /\ w.last = EndOf(e)
    BY <1>6
  <2>3. d \in Int /\ e \in Int
    BY <1>3
  <2>4. /\ EndOf(d) \in Int /\ Later(d, min) \in Int /\ Later(d, min) >= d
        /\ EndOf(e) \in Int /\ Later(e, min) \in Int /\ Later(e, min) >= e
    BY <1>3
  <2>5. d < e \/ e < d \/ d = e
    BY <2>3
  <2> HIDE DEF EndOf
  <2> QED
    BY <1>4, <2>1, <2>2, <2>3, <2>4, <2>5
<1>9. ASSUME NEW v \in W, NEW w \in W, v.first = w.first PROVE v = w
  BY <1>7, <1>8, <1>9
<1>10. ASSUME NEW v \in W, NEW w \in W, v # w PROVE GetDatesOfWeek(v) \cap GetDatesOfWeek(w) = {}
  <2>1. /\ v.first \in Int /\ v.last \in Int /\ w.first \in Int /\ w.last \in Int
        /\ v.last < w.first \/ w.last < v.first
    BY <1>7, <1>8, <1>10
  <2> QED
    BY <2>1 DEF GetDatesOfWeek
<1> QED
  BY <1>5, <1>7, <1>9, <1>10 DEF W, a, b

(* The rows of a month are its weeks. *)
LEMMA WeeksAreRows ==
    ASSUME NEW month \in Int, NEW min \in Int, min <= LastOf(month)
    PROVE  LET W == GetWeeksOfMonth(month, min)
           IN  /\ Cardinality(W) \in Nat \ {0}
               /\ \A i \in 0..Cardinality(W) - 1 : \E w \in W : WeekAt(W, i) = {w}
               /\ \A i : i \notin 0..Cardinality(W) - 1 => WeekAt(W, i) = {}
               /\ \A w \in W : \E i \in 0..Cardinality(W) - 1 : WeekAt(W, i) = {w}
<1> DEFINE W == GetWeeksOfMonth(month, min)
           f == [w \in W |-> w.first]
           Rank(w) == Cardinality(Ahead(W, f, w))
           n == Cardinality(W)
<1>0. FirstOf(month) \in Int /\ LastOf(month) \in Int /\ FirstOf(month) <= LastOf(month)
  <2>1. FirstOf(month) \in Int /\ FirstOf(month + 1) \in Int /\ FirstOf(month + 1) >= FirstOf(month) + 28
    BY MonthFollows
  <2> QED
    BY <2>1 DEF LastOf
<1>1. /\ \A w \in W : /\ w.first \in Int /\ w.last \in Int /\ w.first <= w.last
                      /\ FirstOf(month) <= w.first /\ w.last <= LastOf(month)
      /\ \A v, w \in W : v.first = w.first => v = w
  BY WeeksShareDays
<1>2. W # {}
  BY <1>0, WeeksShareDays
<1> HIDE DEF W
<1>3. f \in [W -> Int] /\ \A v, w \in W : f[v] = f[w] => v = w
  BY <1>1
<1>4. IsFiniteSet(W)
  <2>1. f \in [W -> FirstOf(month)..LastOf(month)]
    <3>1. \A w \in W : w.first \in FirstOf(month)..LastOf(month)
      BY <1>0, <1>1
    <3> QED
      BY <3>1
  <2>2. f \in Injection(W, FirstOf(month)..LastOf(month))
    BY <1>3, <2>1 DEF Injection, IsInjective
  <2>3. IsFiniteSet(FirstOf(month)..LastOf(month))
    BY <1>0, FS_Interval
  <2> HIDE DEF f
  <2> QED
    BY <2>2, <2>3, FS_Injection
<1>5. /\ n \in Nat /\ \A w \in W : Rank(w) \in 0..n - 1
      /\ \A v, w \in W : Rank(v) = Rank(w) => v = w
      /\ \A i \in 0..n - 1 : \E w \in W : Rank(w) = i
  <2> HIDE DEF f
  <2>1. Numbered(W, f)
    BY <1>3, <1>4, RanksNumber
  <2> QED
    BY <2>1 DEF Numbered
<1>6. \A w \in W : {v \in W : v.first < w.first} = Ahead(W, f, w)
  BY DEF Ahead
<1>7. \A i : WeekAt(W, i) = {w \in W : Rank(w) = i}
  BY <1>6 DEF WeekAt
<1>8. n # 0
  BY <1>2, <1>4, FS_EmptySet
<1> HIDE DEF Rank, n
<1>9. ASSUME NEW w \in W PROVE WeekAt(W, Rank(w)) = {w}
  BY <1>5, <1>7
<1>10. ASSUME NEW i, i \notin 0..n - 1 PROVE WeekAt(W, i) = {}
  BY <1>5, <1>7, <1>10
<1>11. /\ n \in Nat \ {0}
       /\ \A i \in 0..n - 1 : \E w \in W : WeekAt(W, i) = {w}
       /\ \A i : i \notin 0..n - 1 => WeekAt(W, i) = {}
       /\ \A w \in W : \E i \in 0..n - 1 : WeekAt(W, i) = {w}
  BY <1>5, <1>8, <1>9, <1>10
<1> QED
  BY <1>11 DEF n, W
-----------------------------------------------------------------------------
(* Phrases name the nearest day. *)

LEMMA EarliestAgree ==
    ASSUME NEW R \in SUBSET Int, NEW F \in SUBSET Int, F # {},
           \A f \in F : f \in R \/ \E r \in R : r < f,
           \A r \in R, f \in F : r <= f => r \in F
    PROVE  Earliest(R) = Earliest(F)
<1>1. ASSUME NEW d \in Earliest(R) PROVE d \in Earliest(F)
  <2>1. d \in R /\ d \in Int /\ \A e \in R : d <= e
    BY DEF Earliest
  <2>2. ASSUME NEW f \in F PROVE d <= f
    <3>1. CASE f \in R
      BY <2>1, <3>1
    <3>2. CASE \E r \in R : r < f
      <4>1. PICK r \in R : r < f
        BY <3>2
      <4>2. d <= r /\ r \in Int /\ f \in Int
        BY <2>1
      <4> QED
        BY <2>1, <4>1, <4>2
    <3> QED
      BY <3>1, <3>2
  <2>3. d \in F
    BY <2>1, <2>2
  <2> QED
    BY <2>2, <2>3 DEF Earliest
<1>2. ASSUME NEW d \in Earliest(F) PROVE d \in Earliest(R)
  <2>1. d \in F /\ d \in Int /\ \A e \in F : d <= e
    BY DEF Earliest
  <2>2. ASSUME NEW r \in R PROVE d <= r
    <3>1. SUFFICES ASSUME r < d PROVE FALSE
      BY <2>1
    <3>2. r \in F /\ r \in Int
      BY <2>1, <3>1
    <3> QED
      BY <2>1, <3>1, <3>2
  <2>3. d \in R
    <3>1. SUFFICES ASSUME NEW r \in R, r < d PROVE FALSE
      BY <2>1
    <3>2. d <= r /\ r \in Int
      BY <2>2
    <3> QED
      BY <2>1, <3>1, <3>2
  <2> QED
    BY <2>2, <2>3 DEF Earliest
<1> QED
  BY <1>1, <1>2

LEMMA EarliestIs ==
    ASSUME NEW F \in SUBSET Int, NEW d \in F, \A e \in F : d <= e
    PROVE  Earliest(F) = {d}
<1>1. ASSUME NEW e \in Earliest(F) PROVE e = d
  <2>1. e \in F /\ e <= d /\ e \in Int /\ d \in Int /\ d <= e
    BY DEF Earliest
  <2> QED
    BY <2>1
<1> QED
  BY <1>1 DEF Earliest

LEMMA NearestWeekdayIs ==
    ASSUME NEW w \in Nat, NEW lo \in Int, NEW t \in Int, lo <= t, t <= lo + 6, DayOfWeek(t) = w
    PROVE  \A e \in Int : e >= lo /\ DayOfWeek(e) = w => t <= e
<1>1. SUFFICES ASSUME NEW e \in Int, e >= lo, DayOfWeek(e) = w, e < t PROVE FALSE
  OBVIOUS
<1>2. t \in Int /\ t <= lo + 6
  OBVIOUS
<1>3. PICK a \in Int : e + 4 = 7 * a + w
  <2>1. e + 4 = 7 * ((e + 4) \div 7) + ((e + 4) % 7) /\ (e + 4) \div 7 \in Int
    OBVIOUS
  <2> QED
    BY <1>1, <2>1 DEF DayOfWeek
<1>4. PICK b \in Int : t + 4 = 7 * b + w
  <2>1. t + 4 = 7 * ((t + 4) \div 7) + ((t + 4) % 7) /\ (t + 4) \div 7 \in Int
    BY <1>2
  <2> QED
    BY <2>1 DEF DayOfWeek
<1> QED
  BY <1>1, <1>2, <1>3, <1>4

LEMMA WeekdayIs ==
    ASSUME NEW w \in Nat, w <= 6, NEW today \in Int
    PROVE  /\ \E t \in Int : /\ t = ThisWeekday(w, today) /\ today <= t /\ t <= today + 6
                             /\ DayOfWeek(t) = w
           /\ \E t \in Int : /\ t = NextWeekday(w, today) /\ today + 1 <= t /\ t <= today + 7
                             /\ DayOfWeek(t) = w
<1>1. PICK q \in Int, r \in 0..6 : today + 4 = 7 * q + r /\ DayOfWeek(today) = r
  <2>1. /\ today + 4 = 7 * ((today + 4) \div 7) + ((today + 4) % 7)
        /\ (today + 4) \div 7 \in Int /\ (today + 4) % 7 \in 0..6
    OBVIOUS
  <2> QED
    BY <2>1 DEF DayOfWeek
<1>2. (7 * q + w) % 7 = w /\ (7 * q + 7 + w) % 7 = w
  OBVIOUS
<1>3. \A t \in Int : t + 4 = 7 * q + w \/ t + 4 = 7 * q + 7 + w => DayOfWeek(t) = w
  BY <1>2 DEF DayOfWeek
<1>4. ThisWeekday(w, today) = IF w - r < 0 THEN today + (w - r + 7) ELSE today + (w - r)
  BY <1>1 DEF ThisWeekday
<1>5. NextWeekday(w, today) = IF w - r <= 0 THEN today + (w - r + 7) ELSE today + (w - r)
  BY <1>1 DEF NextWeekday
<1> QED
  BY <1>1, <1>3, <1>4, <1>5

LEMMA MakeDateIs ==
    ASSUME NEW m \in Int, NEW n \in Int, NEW d \in Nat
    PROVE  d \in MakeDate(m, n) <=> MonthOf(d) = m /\ d = FirstOf(m) + n - 1
<1>1. /\ FirstOf(m) \in Int /\ DaysInMonth(m) \in Int /\ FirstOf(m + 1) = FirstOf(m) + DaysInMonth(m)
  BY MonthFollows
<1>2. ASSUME d \in MakeDate(m, n) PROVE MonthOf(d) = m /\ d = FirstOf(m) + n - 1
  <2>1. n \in 1..DaysInMonth(m) /\ d = FirstOf(m) + n - 1
    BY <1>2 DEF MakeDate
  <2>2. d \in FirstOf(m)..LastOf(m)
    BY <1>1, <2>1 DEF LastOf
  <2> QED
    BY <2>1, <2>2, MonthOfIs
<1>3. ASSUME MonthOf(d) = m, d = FirstOf(m) + n - 1 PROVE d \in MakeDate(m, n)
  <2>1. d \in FirstOf(m)..LastOf(m)
    BY <1>3, MonthOfDay
  <2>2. n \in 1..DaysInMonth(m)
    BY <1>1, <1>3, <2>1 DEF LastOf
  <2> QED
    BY <1>3, <2>2 DEF MakeDate
<1> QED
  BY <1>2, <1>3

LEMMA DatesAreDays == ASSUME NEW m \in Int, NEW n \in Int PROVE MakeDate(m, n) \subseteq Int
BY MonthFollows DEF MakeDate

LEMMA MonthsOfAYear ==
    ASSUME NEW today \in Nat, NEW d \in Nat, today <= d, d <= today + 366
    PROVE  /\ MonthOf(d) \in MonthOf(today)..MonthOf(today) + 13
           /\ MonthOf(d) = MonthOf(today) + 13 =>
                /\ d = FirstOf(MonthOf(d))
                /\ FirstOf(MonthOf(today) + 1) \in today..d - 1
<1> DEFINE m == MonthOf(today)
           n == MonthOf(d)
<1>1. /\ m \in Nat /\ today \in FirstOf(m)..LastOf(m)
      /\ n \in Nat /\ d \in FirstOf(n)..LastOf(n)
  BY MonthOfDay
<1> HIDE DEF m, n
<1>2. /\ FirstOf(m) \in Int /\ FirstOf(n) \in Int
      /\ FirstOf(m + 1) \in Int /\ FirstOf(n + 1) \in Int
      /\ FirstOf(m + 2) \in Int /\ FirstOf(m + 2) >= FirstOf(m + 1) + 28
      /\ FirstOf(m + 13) \in Int /\ FirstOf(m + 13) >= FirstOf(m + 1) + 365
      /\ FirstOf(m + 14) \in Int /\ FirstOf(m + 14) >= FirstOf(m + 2) + 365
  <2>1. m \in Int /\ m + 1 \in Int /\ m + 2 \in Int /\ m + 13 \in Int /\ m + 14 \in Int
        /\ n \in Int /\ n + 1 \in Int
        /\ (m + 1) + 1 = m + 2 /\ (m + 1) + 12 = m + 13 /\ (m + 2) + 12 = m + 14
    BY <1>1
  <2>2. /\ FirstOf(m) \in Int /\ FirstOf(m + 1) \in Int /\ FirstOf(m + 2) \in Int
        /\ FirstOf(m + 13) \in Int /\ FirstOf(m + 14) \in Int
        /\ FirstOf(n) \in Int /\ FirstOf(n + 1) \in Int
    BY <2>1, MonthFollows
  <2>3. FirstOf(m + 2) = FirstOf(m + 1) + DaysInMonth(m + 1) /\ DaysInMonth(m + 1) \in 28..31
    BY <2>1, MonthFollows
  <2>4. FirstOf(m + 13) - FirstOf(m + 1) \in {365, 366} /\ FirstOf(m + 14) - FirstOf(m + 2) \in {365, 366}
    BY <2>1, MonthFollows
  <2> QED
    BY <2>2, <2>3, <2>4
<1>3. today < FirstOf(m + 1) /\ d < FirstOf(n + 1) /\ FirstOf(n) <= d /\ FirstOf(m) <= today
  BY <1>1, <1>2 DEF LastOf
<1>4. ~ (n < m)
  <2>1. SUFFICES ASSUME n < m PROVE FALSE
    OBVIOUS
  <2>2. FirstOf(n + 1) <= FirstOf(m)
    BY <1>1, <2>1, MonthsInOrder
  <2> QED
    BY <1>2, <1>3, <2>2
<1>5. ~ (m + 13 < n)
  <2>1. SUFFICES ASSUME m + 13 < n PROVE FALSE
    OBVIOUS
  <2>2. FirstOf(m + 14) <= FirstOf(n)
    <3>1. m + 13 \in Int /\ n \in Int /\ (m + 13) + 1 = m + 14
      BY <1>1
    <3> QED
      BY <2>1, <3>1, MonthsInOrder
  <2> QED
    BY <1>2, <1>3, <2>2
<1>6. ASSUME n = m + 13 PROVE d = FirstOf(n) /\ FirstOf(m + 1) \in today..d - 1
  <2>1. FirstOf(m + 13) <= d
    BY <1>3, <1>6
  <2>2. d = FirstOf(m + 13) /\ FirstOf(m + 1) = today + 1
    BY <1>2, <1>3, <2>1
  <2> QED
    BY <1>2, <1>6, <2>1, <2>2
<1> QED
  BY <1>1, <1>4, <1>5, <1>6 DEF m, n

LEMMA DayOfMonthIsNearest ==
    ASSUME NEW today \in Nat, NEW n \in Nat
    PROVE  LET F == {d \in today..today + 366 : d = FirstOf(MonthOf(d)) + n - 1}
           IN  F # {} => UpcomingDayOfMonth(n, today) = Earliest(F)
<1> DEFINE F == {d \in today..today + 366 : d = FirstOf(MonthOf(d)) + n - 1}
           m == MonthOf(today)
           R == {d \in UNION {MakeDate(m + k, n) : k \in 0..12} : d >= today}
<1>1. m \in Nat
  BY MonthOfDay
<1>2. \A d \in F : d \in Nat /\ today <= d /\ d <= today + 366 /\ d = FirstOf(MonthOf(d)) + n - 1
  OBVIOUS
<1>3. R \subseteq Int /\ F \subseteq Int
  <2>1. \A k \in 0..12 : MakeDate(m + k, n) \subseteq Int
    BY <1>1, DatesAreDays
  <2> QED
    BY <2>1
<1>4. UpcomingDayOfMonth(n, today) = Earliest(R)
  BY DEF UpcomingDayOfMonth
<1> HIDE DEF m
<1>5. ASSUME NEW f \in F PROVE f \in R \/ \E r \in R : r < f
  <2>1. MonthOf(f) \in m..m + 13 /\ f \in Nat /\ f >= today
        /\ (MonthOf(f) = m + 13 => f = FirstOf(MonthOf(f)) /\ FirstOf(m + 1) \in today..f - 1)
        /\ f = FirstOf(MonthOf(f)) + n - 1
    BY <1>2, MonthsOfAYear DEF m
  <2> HIDE DEF F
  <2>2. CASE MonthOf(f) = m + 13
    <3>1. f = FirstOf(MonthOf(f)) /\ FirstOf(m + 1) \in today..f - 1 /\ FirstOf(MonthOf(f)) \in Int
      BY <2>1, <2>2
    <3>2. n = 1
      BY <2>1, <3>1
    <3>3. FirstOf(m + 1) \in MakeDate(m + 1, n)
      <4>1. m + 1 \in Int /\ FirstOf(m + 1) \in Int /\ DaysInMonth(m + 1) \in 28..31
        BY <1>1, MonthFollows
      <4>2. n \in 1..DaysInMonth(m + 1) /\ FirstOf(m + 1) + n - 1 = FirstOf(m + 1)
        BY <3>2, <4>1
      <4> QED
        BY <4>2 DEF MakeDate
    <3>4. FirstOf(m + 1) \in R /\ FirstOf(m + 1) < f
      <4>1. 1 \in 0..12 /\ FirstOf(m + 1) >= today /\ FirstOf(m + 1) < f
        BY <2>1, <3>1
      <4> QED
        BY <3>3, <4>1
    <3> QED
      BY <3>4
  <2>3. CASE MonthOf(f) # m + 13
    <3>1. PICK k \in 0..12 : MonthOf(f) = m + k
      <4>1. MonthOf(f) \in Int /\ MonthOf(f) >= m /\ MonthOf(f) <= m + 13
        BY <1>1, <2>1
      <4>2. MonthOf(f) - m \in 0..12 /\ MonthOf(f) = m + (MonthOf(f) - m)
        BY <1>1, <2>3, <4>1
      <4> QED
        BY <4>1, <4>2
    <3>2. f \in MakeDate(m + k, n)
      <4>1. m + k \in Int /\ f = FirstOf(m + k) + n - 1
        BY <1>1, <2>1, <3>1
      <4> QED
        BY <2>1, <3>1, <4>1, MakeDateIs
    <3> QED
      BY <2>1, <3>2
  <2> QED
    BY <2>2, <2>3
<1>6. ASSUME NEW r \in R, NEW f \in F, r <= f PROVE r \in F
  <2>1. PICK k \in 0..12 : r \in MakeDate(m + k, n)
    OBVIOUS
  <2>2. r \in Nat /\ r >= today /\ r <= today + 366 /\ m + k \in Int
    BY <1>1, <1>2, <1>3, <1>6
  <2>3. MonthOf(r) = m + k /\ r = FirstOf(m + k) + n - 1
    BY <2>1, <2>2, MakeDateIs
  <2> QED
    BY <2>2, <2>3
<1> HIDE DEF R, F
<1>7. F # {} => Earliest(R) = Earliest(F)
  BY <1>3, <1>5, <1>6, EarliestAgree
<1> QED
  BY <1>4, <1>7 DEF F

LEMMA DateIsNearest ==
    ASSUME NEW today \in Nat, NEW n \in Nat, NEW k \in Nat, k <= 11
    PROVE  LET F == {d \in today..today + 366 : MonthOf(d) % 12 = k /\ d = FirstOf(MonthOf(d)) + n - 1}
           IN  F # {} => Upcoming(k, n, today) = Earliest(F)
<1> DEFINE F == {d \in today..today + 366 : MonthOf(d) % 12 = k /\ d = FirstOf(MonthOf(d)) + n - 1}
           m == MonthOf(today)
           y == Year(m)
           R == {d \in UNION {MakeDate(12 * i + k, n) : i \in y..y + 4} : d >= today}
<1>1. m \in Nat
  BY MonthOfDay
<1>2. \A d \in F : d \in Nat /\ today <= d /\ d <= today + 366
                   /\ MonthOf(d) % 12 = k /\ d = FirstOf(MonthOf(d)) + n - 1
  OBVIOUS
<1>3. Upcoming(k, n, today) = Earliest(R)
  BY DEF Upcoming
<1> HIDE DEF m
<1>4. y \in Nat /\ 12 * y <= m /\ m < 12 * y + 12
  BY <1>1 DEF Year
<1> HIDE DEF y
<1>5. R \subseteq Int /\ F \subseteq Int
  <2>1. \A i \in y..y + 4 : MakeDate(12 * i + k, n) \subseteq Int
    <3>1. \A i \in y..y + 4 : 12 * i + k \in Int
      BY <1>4
    <3> QED
      BY <3>1, DatesAreDays
  <2> QED
    BY <2>1
<1>6. ASSUME NEW f \in F PROVE f \in R
  <2>1. MonthOf(f) \in m..m + 13 /\ f \in Nat /\ f >= today
        /\ MonthOf(f) % 12 = k /\ f = FirstOf(MonthOf(f)) + n - 1
    BY <1>2, MonthsOfAYear DEF m
  <2> HIDE DEF F
  <2>2. PICK j \in Nat : j = MonthOf(f) /\ j >= m /\ j <= m + 13
    BY <1>1, <2>1
  <2>3. PICK i \in Nat : j = 12 * i + k
    <3>1. j = 12 * (j \div 12) + (j % 12) /\ j \div 12 \in Nat /\ j % 12 = k
      BY <2>1, <2>2
    <3> QED
      BY <3>1
  <2>4. i \in y..y + 4
    BY <1>1, <1>4, <2>2, <2>3
  <2>5. f \in MakeDate(12 * i + k, n)
    <3>1. 12 * i + k \in Int /\ MonthOf(f) = 12 * i + k /\ f = FirstOf(MonthOf(f)) + n - 1
      BY <2>1, <2>2, <2>3
    <3> QED
      BY <2>1, <3>1, MakeDateIs
  <2> QED
    BY <2>1, <2>4, <2>5
<1>7. ASSUME NEW r \in R, NEW f \in F, r <= f PROVE r \in F
  <2>1. PICK i \in y..y + 4 : r \in MakeDate(12 * i + k, n)
    OBVIOUS
  <2>2. r \in Nat /\ r >= today /\ r <= today + 366 /\ 12 * i + k \in Int /\ i \in Int
    BY <1>2, <1>4, <1>5, <1>7
  <2>3. MonthOf(r) = 12 * i + k /\ r = FirstOf(12 * i + k) + n - 1
    BY <2>1, <2>2, MakeDateIs
  <2>4. (12 * i + k) % 12 = k
    BY <2>2
  <2> QED
    BY <2>2, <2>3, <2>4
<1> HIDE DEF R, F
<1>8. F # {} => Earliest(R) = Earliest(F)
  BY <1>5, <1>6, <1>7, EarliestAgree
<1> QED
  BY <1>3, <1>8 DEF F
-----------------------------------------------------------------------------
(* The machine. *)

Views == [month : Nat \cup {NotChosen}, week : Nat \cup {NotChosen}]
PickerSteps ==
    {"BOOKING_DROP", "BOOKING_DATE", "BOOKING_TIME", "BOOKING_RETURN_DATE", "BOOKING_RETURN_TIME",
     "BOOKING_VEHICLE_SELECTION"}

PickerTypeOK ==
    /\ now \in [day : Nat, minute : 0..1439]
    /\ step \in PickerSteps /\ view \in Views /\ page \in Nat
    /\ {pendingDate, pickup, back} \subseteq Nat \cup {NotChosen}

(* What has been answered by each step. *)
Answered ==
    /\ AsksTime => pendingDate # NotChosen
    /\ Returning \/ step = "BOOKING_VEHICLE_SELECTION" => pickup # NotChosen
    /\ IF step = "BOOKING_VEHICLE_SELECTION" THEN back # NotChosen /\ back >= pickup ELSE back = NotChosen

PickerInv == PickerTypeOK /\ Answered

LEMMA FromIs == ASSUME PickerInv PROVE From \in Nat /\ From >= now.day /\ Later(From, now.day) = From
<1>1. now.day \in Nat
  BY DEF PickerInv, PickerTypeOK
<1>2. Returning => pickup \in Nat /\ pickup \div 1440 \in Nat
  BY DEF PickerInv, PickerTypeOK, Answered
<1>3. From \in Nat /\ From >= now.day
  BY <1>1, <1>2 DEF From, Later
<1> QED
  BY <1>1, <1>3 DEF Later

LEMMA LowerIs == ASSUME PickerInv PROVE Lower \in [day : Nat, minute : 0..1439]
<1>1. now \in [day : Nat, minute : 0..1439]
  BY DEF PickerInv, PickerTypeOK
<1>2. Returning => pickup \in Nat
  BY DEF PickerInv, PickerTypeOK, Answered
<1>3. CASE Returning /\ pickup > Instant(now)
  <2>1. Lower = Moment(pickup)
    BY <1>3 DEF Lower
  <2>2. pickup \in Nat
    BY <1>2, <1>3
  <2>3. Moment(pickup) \in [day : Nat, minute : 0..1439]
    BY <2>2 DEF Moment
  <2> QED
    BY <2>1, <2>3
<1>4. CASE ~ (Returning /\ pickup > Instant(now))
  BY <1>1, <1>4 DEF Lower
<1> QED
  BY <1>3, <1>4

LEMMA CalendarIs ==
    ASSUME PickerInv, NEW v \in Views
    PROVE  LET cal == CalendarFor(v, From, now.day)
               m == MonthOf(From)
           IN  /\ m \in Nat /\ From \in FirstOf(m)..LastOf(m)
               /\ cal.min = From /\ cal.firstMonth = m /\ cal.lastMonth = m + 12
               /\ cal.month \in m..m + 12
               /\ v.month \in m..m + 12 => cal.month = v.month
               /\ From <= LastOf(cal.month) /\ cal.month \in Nat
<1> DEFINE cal == CalendarFor(v, From, now.day)
           m == MonthOf(From)
           kept == IF v.month = NotChosen THEN m ELSE v.month
<1>1. From \in Nat /\ Later(From, now.day) = From
  BY FromIs
<1>2. m \in Nat /\ From \in FirstOf(m)..LastOf(m)
  BY <1>1, MonthOfDay
<1>3. /\ cal.min = From /\ cal.firstMonth = m /\ cal.lastMonth = m + 12
      /\ cal.month = Sooner(Later(kept, m), m + 12)
  BY <1>1 DEF CalendarFor, GetCalendarBounds, CalMonthsAhead
<1> HIDE DEF cal, m
<1>4. kept \in Int /\ (v.month # NotChosen => kept = v.month)
  BY <1>2 DEF Views, NotChosen
<1>5. v.month \in m..m + 12 => v.month # NotChosen
  BY <1>2 DEF NotChosen
<1> HIDE DEF kept
<1>6. cal.month \in m..m + 12 /\ (kept \in m..m + 12 => cal.month = kept)
  BY <1>2, <1>3, <1>4 DEF Sooner, Later
<1>7. From <= LastOf(cal.month)
  <2>1. cal.month \in Int /\ m \in Int
    BY <1>2, <1>6
  <2>2. /\ FirstOf(m) \in Int /\ LastOf(m) \in Int /\ LastOf(cal.month) \in Int
        /\ FirstOf(cal.month) \in Int /\ LastOf(cal.month) >= FirstOf(cal.month)
    <3>1. FirstOf(cal.month + 1) = FirstOf(cal.month) + DaysInMonth(cal.month)
          /\ DaysInMonth(cal.month) \in 28..31 /\ FirstOf(cal.month) \in Int
          /\ FirstOf(m) \in Int /\ FirstOf(m + 1) = FirstOf(m) + DaysInMonth(m) /\ DaysInMonth(m) \in 28..31
      BY <2>1, MonthFollows
    <3> QED
      BY <3>1 DEF LastOf
  <2>3. CASE cal.month = m
    BY <1>1, <1>2, <2>2, <2>3
  <2>4. CASE m < cal.month
    <3>1. FirstOf(m + 1) <= FirstOf(cal.month) /\ FirstOf(m + 1) \in Int
      BY <2>1, <2>4, MonthsInOrder, MonthFollows
    <3> QED
      BY <1>1, <1>2, <2>2, <3>1 DEF LastOf
  <2> QED
    BY <1>2, <1>6, <2>3, <2>4
<1>8. v.month \in m..m + 12 => cal.month = v.month
  BY <1>4, <1>5, <1>6
<1> QED
  BY <1>2, <1>3, <1>6, <1>7, <1>8 DEF cal, m

LEMMA ViewsHaveDaysHolds == ASSUME PickerInv PROVE ViewsHaveDays
<1> DEFINE cal == CalendarFor(view, From, now.day)
           W == GetWeeksOfMonth(cal.month, cal.min)
           chosen == WeekAt(W, view.week)
           shown == TapView(view, From, now.day)
<1>1. view \in Views
  BY DEF PickerInv, PickerTypeOK
<1>2. /\ MonthOf(From) \in Nat /\ cal.min = From /\ cal.month \in MonthOf(From)..MonthOf(From) + 12
      /\ From <= LastOf(cal.month) /\ cal.month \in Nat
  BY <1>1, CalendarIs
<1>3. cal.min \in Int /\ cal.min <= LastOf(cal.month) /\ cal.month \in Int
  BY <1>2, FromIs
<1>4. /\ \A w \in W : w.first \in Int /\ w.last \in Int /\ w.first <= w.last
      /\ Cardinality(W) \in Nat \ {0}
      /\ \A i \in 0..Cardinality(W) - 1 : \E w \in W : WeekAt(W, i) = {w}
      /\ \A i : i \notin 0..Cardinality(W) - 1 => WeekAt(W, i) = {}
  <2> HIDE DEF cal
  <2> QED
    BY <1>3, WeeksShareDays, WeeksAreRows
<1>5. shown.rows = IF view.month = NotChosen THEN GetMonthRows(cal.min)
                   ELSE IF chosen = {} THEN 0..Cardinality(W) - 1
                   ELSE UNION {GetDatesOfWeek(w) : w \in chosen}
  BY DEF TapView
<1> HIDE DEF cal, W
<1>6. GetMonthRows(cal.min) # {}
  BY <1>2 DEF GetMonthRows, MonthRows
<1>7. 0..Cardinality(W) - 1 # {}
  BY <1>4
<1>8. chosen # {} => UNION {GetDatesOfWeek(w) : w \in chosen} # {}
  <2>1. SUFFICES ASSUME chosen # {} PROVE UNION {GetDatesOfWeek(w) : w \in chosen} # {}
    OBVIOUS
  <2>2. PICK w \in W : chosen = {w}
    BY <1>4, <2>1
  <2>3. w.first \in GetDatesOfWeek(w)
    BY <1>4 DEF GetDatesOfWeek
  <2> HIDE DEF chosen
  <2> QED
    BY <2>2, <2>3
<1> HIDE DEF chosen, shown
<1>9. shown.rows # {}
  BY <1>5, <1>6, <1>7, <1>8
<1>10. PromptDate(view, From, now.day).lists.rows # {}
  BY <1>9 DEF PromptDate, shown
<1> QED
  BY <1>2, <1>10 DEF ViewsHaveDays, cal, CalMonthsAhead

LEMMA TextIsTrueHolds == ASSUME PickerInv PROVE TextIsTrue
<1> DEFINE cal == CalendarFor(view, From, now.day)
           m == MonthOf(From)
           shown == RenderMonthCalendar(cal)
<1>1. view \in Views
  BY DEF PickerInv, PickerTypeOK
<1>2. /\ m \in Nat /\ cal.min = From /\ cal.firstMonth = m /\ cal.lastMonth = m + 12
      /\ cal.month \in m..m + 12
  BY <1>1, CalendarIs
<1>3. From \in Nat
  BY FromIs
<1> HIDE DEF m
<1>4. \A move \in {-1, 1} : TurnMonth(view, move, From, now.day)
          = IF cal.month + move \in m..m + 12 THEN cal.month + move ELSE cal.month
  BY <1>2 DEF TurnMonth
<1>5. /\ shown.canPrev <=> cal.month - 1 >= m
      /\ shown.canNext <=> cal.month + 1 <= m + 12
      /\ shown.days = {n \in 1..DaysInMonth(cal.month) : FirstOf(cal.month) + n - 1 >= From}
  BY <1>2 DEF RenderMonthCalendar, m
<1>6. \A n : HandleCalendarAnswer(view, n, From, now.day) = {d \in MakeDate(cal.month, n) : d >= From}
  BY <1>2 DEF HandleCalendarAnswer
<1>7. PromptDate(view, From, now.day).text = shown
  BY DEF PromptDate
<1> HIDE DEF cal, shown
<1>8. FirstOf(cal.month) \in Int /\ DaysInMonth(cal.month) \in 28..31
  <2>1. cal.month \in Int
    BY <1>2
  <2> QED
    BY <2>1, MonthFollows
<1>9. shown.days = {n \in 1..31 : HandleCalendarAnswer(view, n, From, now.day) # {}}
  <2>1. \A n \in 1..31 : HandleCalendarAnswer(view, n, From, now.day) # {}
                         <=> n \in 1..DaysInMonth(cal.month) /\ FirstOf(cal.month) + n - 1 >= From
    BY <1>6 DEF MakeDate
  <2>2. \A n \in 1..DaysInMonth(cal.month) : n \in 1..31
    BY <1>8
  <2> QED
    BY <1>5, <2>1, <2>2
<1>10. shown.canPrev <=> TurnMonth(view, -1, From, now.day) = cal.month - 1
  <2>1. TurnMonth(view, -1, From, now.day) = IF cal.month - 1 \in m..m + 12 THEN cal.month - 1 ELSE cal.month
    <3>1. cal.month + (-1) = cal.month - 1
      BY <1>2
    <3> QED
      BY <1>4, <3>1
  <2> QED
    BY <1>2, <1>5, <2>1
<1>11. shown.canNext <=> TurnMonth(view, 1, From, now.day) = cal.month + 1
  <2>1. TurnMonth(view, 1, From, now.day) = IF cal.month + 1 \in m..m + 12 THEN cal.month + 1 ELSE cal.month
    BY <1>4
  <2> QED
    BY <1>2, <1>5, <2>1
<1> QED
  BY <1>7, <1>9, <1>10, <1>11 DEF TextIsTrue, cal

LEMMA DaysAreOfferedHolds == ASSUME PickerInv PROVE DaysAreOffered
<1> DEFINE m == MonthOf(From)
           months == m..m + 9
           W(r) == GetWeeksOfMonth(r, From)
           At0(r) == [month |-> r, week |-> NotChosen]
           OfWeek(r, i) == [month |-> r, week |-> i]
           views == UNION {Opened(v, From) : v \in Opened(Fresh, From)}
           DayRows(v) == TapView(v, From, now.day).rows
           Shows(v) == TapView(v, From, now.day).shows
<1>0. From \in Nat /\ m \in Nat /\ From \in FirstOf(m)..LastOf(m)
  BY FromIs, MonthOfDay
<1>1. ASSUME NEW v \in Views, v.month \in months
      PROVE  LET chosen == WeekAt(W(v.month), v.week)
             IN  TapView(v, From, now.day) =
                    IF chosen = {} THEN [shows |-> "weeks", rows |-> 0..Cardinality(W(v.month)) - 1]
                    ELSE [shows |-> "dates", rows |-> UNION {GetDatesOfWeek(w) : w \in chosen}]
  <2>1. v.month \in m..m + 12 /\ v.month # NotChosen
    BY <1>0, <1>1 DEF NotChosen
  <2>2. CalendarFor(v, From, now.day).month = v.month /\ CalendarFor(v, From, now.day).min = From
    BY <2>1, CalendarIs
  <2> QED
    BY <2>1, <2>2 DEF TapView
<1>2. ASSUME NEW r \in months
      PROVE  /\ r \in Nat /\ r \in Int /\ From <= LastOf(r)
             /\ Cardinality(W(r)) \in Nat \ {0}
             /\ \A i \in 0..Cardinality(W(r)) - 1 : \E w \in W(r) : WeekAt(W(r), i) = {w}
             /\ \A i : i \notin 0..Cardinality(W(r)) - 1 => WeekAt(W(r), i) = {}
             /\ \A w \in W(r) : \E i \in 0..Cardinality(W(r)) - 1 : WeekAt(W(r), i) = {w}
  <2>1. r \in Nat /\ r \in Int
    BY <1>0
  <2>2. From <= LastOf(r)
    <3>1. At0(r) \in Views /\ At0(r).month = r
      BY <2>1 DEF Views
    <3>2. r \in m..m + 12
      BY <1>0
    <3>3. CalendarFor(At0(r), From, now.day).month = r
          /\ From <= LastOf(CalendarFor(At0(r), From, now.day).month)
      BY <3>1, <3>2, CalendarIs
    <3> QED
      BY <3>3
  <2>3. From \in Int
    BY <1>0
  <2> HIDE DEF m
  <2>4. /\ Cardinality(W(r)) \in Nat \ {0}
        /\ \A i \in 0..Cardinality(W(r)) - 1 : \E w \in W(r) : WeekAt(W(r), i) = {w}
        /\ \A i : i \notin 0..Cardinality(W(r)) - 1 => WeekAt(W(r), i) = {}
        /\ \A w \in W(r) : \E i \in 0..Cardinality(W(r)) - 1 : WeekAt(W(r), i) = {w}
    <3>1. \A t \in Int : t <= LastOf(r) =>
            LET X == GetWeeksOfMonth(r, t)
            IN  /\ Cardinality(X) \in Nat \ {0}
                /\ \A i \in 0..Cardinality(X) - 1 : \E w \in X : WeekAt(X, i) = {w}
                /\ \A i : i \notin 0..Cardinality(X) - 1 => WeekAt(X, i) = {}
                /\ \A w \in X : \E i \in 0..Cardinality(X) - 1 : WeekAt(X, i) = {w}
      BY <2>1, WeeksAreRows
    <3> QED
      BY <2>2, <2>3, <3>1
  <2> HIDE DEF W
  <2> QED
    BY <2>1, <2>2, <2>4
<1>3. Opened(Fresh, From) = {At0(r) : r \in months}
  <2>1. Fresh \in Views
    BY DEF Fresh, Views
  <2>2. CalendarFor(Fresh, From, now.day).min = From
    BY <2>1, CalendarIs
  <2>3. TapView(Fresh, From, now.day) = [shows |-> "months", rows |-> months]
    BY <1>0, <2>2 DEF TapView, Fresh, GetMonthRows, MonthRows
  <2>4. \A r : HandleTapNav(Fresh, [tap |-> "month", row |-> r]) = At0(r)
    BY DEF HandleTapNav
  <2>5. TapView(Fresh, From, now.day).shows = "months" /\ TapView(Fresh, From, now.day).rows = months
    BY <2>3
  <2>6. Opened(Fresh, From) = {HandleTapNav(Fresh, [tap |-> "month", row |-> r]) : r \in months}
    BY <2>5 DEF Opened
  <2> HIDE DEF At0, months
  <2> QED
    BY <2>4, <2>6
<1>4. ASSUME NEW r \in months
      PROVE  Opened(At0(r), From) = {OfWeek(r, i) : i \in 0..Cardinality(W(r)) - 1}
  <2>1. At0(r) \in Views /\ At0(r).month = r /\ At0(r).week = NotChosen
    BY <1>2 DEF Views
  <2>2. NotChosen \notin 0..Cardinality(W(r)) - 1
    BY <1>2 DEF NotChosen
  <2>3. WeekAt(W(r), NotChosen) = {}
    BY <1>2, <2>2
  <2>4. TapView(At0(r), From, now.day) = [shows |-> "weeks", rows |-> 0..Cardinality(W(r)) - 1]
    BY <1>1, <2>1, <2>3
  <2>5. \A i : HandleTapNav(At0(r), [tap |-> "week", row |-> i]) = OfWeek(r, i)
    BY DEF HandleTapNav
  <2>6. /\ TapView(At0(r), From, now.day).shows = "weeks"
        /\ TapView(At0(r), From, now.day).rows = 0..Cardinality(W(r)) - 1
    BY <2>4
  <2> HIDE DEF At0, W
  <2>7. Opened(At0(r), From)
        = {HandleTapNav(At0(r), [tap |-> "week", row |-> i]) : i \in 0..Cardinality(W(r)) - 1}
    BY <2>6 DEF Opened
  <2> HIDE DEF OfWeek
  <2> QED
    BY <2>5, <2>7
<1>5. \A v : v \in views <=> \E r \in months : \E i \in 0..Cardinality(W(r)) - 1 : v = OfWeek(r, i)
  <2> HIDE DEF At0, OfWeek, W, months
  <2>1. \A v : v \in views <=> \E r \in months : v \in Opened(At0(r), From)
    BY <1>3
  <2> HIDE DEF views
  <2> QED
    BY <1>4, <2>1
<1>6. ASSUME NEW r \in months, NEW i \in 0..Cardinality(W(r)) - 1
      PROVE  \E w \in W(r) : /\ WeekAt(W(r), i) = {w}
                             /\ Shows(OfWeek(r, i)) = "dates" /\ DayRows(OfWeek(r, i)) = GetDatesOfWeek(w)
  <2>1. PICK w \in W(r) : WeekAt(W(r), i) = {w}
    BY <1>2
  <2>2. OfWeek(r, i) \in Views /\ OfWeek(r, i).month = r /\ OfWeek(r, i).week = i
    BY <1>2 DEF Views
  <2>3. TapView(OfWeek(r, i), From, now.day) = [shows |-> "dates", rows |-> UNION {GetDatesOfWeek(u) : u \in {w}}]
    BY <1>1, <2>1, <2>2
  <2>4. UNION {GetDatesOfWeek(u) : u \in {w}} = GetDatesOfWeek(w)
    OBVIOUS
  <2> HIDE DEF OfWeek, W
  <2> QED
    BY <2>1, <2>3, <2>4
<1> HIDE DEF views, W, DayRows, Shows
<1>7. ASSUME NEW v \in views PROVE Shows(v) = "dates"
  BY <1>5, <1>6
<1>8. UNION {DayRows(v) : v \in views} = From..LastOf(m + 9)
  <2>0. m + 9 \in months /\ LastOf(m + 9) \in Int
    <3>1. m \in Nat
      BY <1>0
    <3> HIDE DEF m
    <3>2. (m + 9) + 1 \in Int
      BY <3>1
    <3> QED
      BY <3>1, <3>2, MonthFollows DEF LastOf
  <2>1. ASSUME NEW v \in views, NEW d \in DayRows(v) PROVE d \in From..LastOf(m + 9)
    <3>1. PICK r \in months : \E i \in 0..Cardinality(W(r)) - 1 : v = OfWeek(r, i)
      BY <1>5
    <3>2. PICK w \in W(r) : d \in GetDatesOfWeek(w)
      BY <1>6, <2>1, <3>1
    <3>3. w.first \in Int /\ w.last \in Int /\ From <= w.first /\ w.last <= LastOf(r)
      BY <1>0, <1>2, WeeksShareDays DEF W
    <3>4. LastOf(r) <= LastOf(m + 9) /\ LastOf(r) \in Int
      <4>1. r \in Int /\ r <= m + 9 /\ m + 9 \in Int /\ LastOf(r) \in Int
        BY <1>0, <1>2, MonthFollows DEF LastOf
      <4>2. CASE r < m + 9
        <5>1. FirstOf(r + 1) <= FirstOf(m + 9) /\ FirstOf(r + 1) \in Int /\ FirstOf(m + 9) \in Int
          BY <4>1, <4>2, MonthsInOrder, MonthFollows
        <5>2. FirstOf((m + 9) + 1) = FirstOf(m + 9) + DaysInMonth(m + 9) /\ DaysInMonth(m + 9) \in 28..31
          BY <4>1, MonthFollows
        <5> QED
          BY <4>1, <5>1, <5>2 DEF LastOf
      <4>3. CASE r = m + 9
        BY <4>1, <4>3
      <4> QED
        BY <4>1, <4>2, <4>3
    <3> QED
      BY <1>0, <2>0, <3>2, <3>3, <3>4 DEF GetDatesOfWeek
  <2>2. ASSUME NEW d \in From..LastOf(m + 9) PROVE \E v \in views : d \in DayRows(v)
    <3>1. d \in Nat /\ From <= d /\ d <= LastOf(m + 9)
      BY <1>0, <2>0
    <3>2. PICK r \in Nat : r = MonthOf(d) /\ d \in FirstOf(r)..LastOf(r)
      BY <3>1, MonthOfDay
    <3>3. r \in months
      <4>1. ~ (r < m)
        <5>1. SUFFICES ASSUME r < m PROVE FALSE
          OBVIOUS
        <5>2. FirstOf(r + 1) <= FirstOf(m) /\ FirstOf(r + 1) \in Int /\ FirstOf(m) \in Int /\ LastOf(m) \in Int
          BY <1>0, <5>1, MonthsInOrder, MonthFollows DEF LastOf
        <5> QED
          BY <1>0, <3>1, <3>2, <5>2 DEF LastOf
      <4>2. ~ (m + 9 < r)
        <5>1. SUFFICES ASSUME m + 9 < r PROVE FALSE
          OBVIOUS
        <5>2. m + 9 \in Int /\ r \in Int
          BY <1>0
        <5>3. FirstOf((m + 9) + 1) <= FirstOf(r)
          BY <5>1, <5>2, MonthsInOrder
        <5>4. FirstOf((m + 9) + 1) \in Int /\ FirstOf(r) \in Int /\ LastOf(r) \in Int
          BY <5>2, MonthFollows DEF LastOf
        <5> QED
          BY <3>1, <3>2, <5>3, <5>4 DEF LastOf
      <4> QED
        BY <1>0, <4>1, <4>2
    <3>4. PICK w \in W(r) : d \in GetDatesOfWeek(w)
      BY <1>0, <1>2, <3>1, <3>2, <3>3, WeeksShareDays DEF W
    <3>5. PICK i \in 0..Cardinality(W(r)) - 1 : WeekAt(W(r), i) = {w}
      BY <1>2, <3>3
    <3>6. DayRows(OfWeek(r, i)) = GetDatesOfWeek(w)
      BY <1>6, <3>3, <3>5
    <3> QED
      BY <1>5, <3>3, <3>4, <3>6
  <2> QED
    BY <2>1, <2>2
<1>9. ASSUME NEW u \in views, NEW v \in views, u.month = v.month, u # v PROVE DayRows(u) \cap DayRows(v) = {}
  <2>1. PICK r \in months : \E i \in 0..Cardinality(W(r)) - 1 : u = OfWeek(r, i)
    BY <1>5
  <2>2. PICK i \in 0..Cardinality(W(r)) - 1 : u = OfWeek(r, i)
    BY <2>1
  <2>3. PICK s \in months : \E j \in 0..Cardinality(W(s)) - 1 : v = OfWeek(s, j)
    BY <1>5
  <2>4. s = r
    BY <1>9, <2>2, <2>3
  <2>5. PICK j \in 0..Cardinality(W(r)) - 1 : v = OfWeek(r, j)
    BY <2>3, <2>4
  <2>6. i # j
    BY <1>9, <2>2, <2>5
  <2>7. PICK x \in W(r) : WeekAt(W(r), i) = {x} /\ DayRows(u) = GetDatesOfWeek(x)
    BY <1>6, <2>2
  <2>8. PICK y \in W(r) : WeekAt(W(r), j) = {y} /\ DayRows(v) = GetDatesOfWeek(y)
    BY <1>6, <2>5
  <2>9. x # y
    <3>1. x \in WeekAt(W(r), i) /\ y \in WeekAt(W(r), j)
      BY <2>7, <2>8
    <3> QED
      BY <2>6, <3>1 DEF WeekAt
  <2>10. GetDatesOfWeek(x) \cap GetDatesOfWeek(y) = {}
    BY <1>0, <1>2, <2>9, WeeksShareDays DEF W
  <2> QED
    BY <2>7, <2>8, <2>10
<1>10. LET shown == [v \in views |-> TapView(v, From, now.day)]
       IN  /\ \A v \in views : shown[v].shows = Shows(v) /\ shown[v].rows = DayRows(v)
           /\ UNION {shown[v].rows : v \in views} = UNION {DayRows(v) : v \in views}
  BY DEF Shows, DayRows
<1> HIDE DEF m
<1>11. LET shown == [v \in views |-> TapView(v, From, now.day)]
       IN  /\ \A v \in views : shown[v].shows = "dates"
           /\ UNION {shown[v].rows : v \in views} = From..LastOf(m + 9)
           /\ \A v, w \in views : v.month = w.month /\ v # w => shown[v].rows \cap shown[w].rows = {}
  BY <1>7, <1>8, <1>9, <1>10
<1>12. m + 9 = m + MonthRows - 1
  BY <1>0 DEF MonthRows
<1> QED
  BY <1>11, <1>12 DEF DaysAreOffered, views, m
(* The half hours of a day from one of them, and those after a minute.     *)
LEMMA SlotsOfDay ==
    ASSUME NEW start \in Nat, NEW end \in Nat, NEW S,
           \A m : m \in S <=> m \in start..end /\ (m - start) % 30 = 0
    PROVE  IsFiniteSet(S) /\ \A m : m \in S <=> m \in Int /\ start <= m /\ m <= end /\ (m - start) % 30 = 0
<1>2. S \in SUBSET (start..end)
  OBVIOUS
<1>3. IsFiniteSet(start..end)
  BY FS_Interval
<1>4. IsFiniteSet(S)
  BY <1>2, <1>3, FS_Subset
<1>5. \A m : m \in start..end <=> m \in Int /\ start <= m /\ m <= end
  OBVIOUS
<1> QED
  BY <1>4, <1>5

LEMMA HalfHours ==
    ASSUME NEW minute \in Nat, NEW c \in Nat, c = minute \div 30 + 1, NEW m \in Nat
    PROVE  c * 30 <= m /\ (m - c * 30) % 30 = 0 <=> m % 30 = 0 /\ m > minute
<1>1. 30 * c > minute /\ 30 * (c - 1) <= minute /\ c * 30 = 30 * c
  OBVIOUS
<1>2. PICK q \in Nat, r \in 0..29 : m = 30 * q + r /\ m % 30 = r
  <2>1. m = 30 * (m \div 30) + (m % 30) /\ m \div 30 \in Nat /\ m % 30 \in 0..29
    OBVIOUS
  <2> QED
    BY <2>1
<1>3. (m - c * 30) % 30 = r
  <2>1. PICK k \in Int : k = q - c
    OBVIOUS
  <2>2. m - c * 30 = 30 * k + r
    BY <1>1, <1>2, <2>1
  <2>3. (30 * k + r) % 30 = r
    OBVIOUS
  <2> QED
    BY <2>2, <2>3
<1>4. m = 30 * q => (c * 30 <= m <=> m > minute)
  BY <1>1
<1>5. r = 0 => m = 30 * q
  BY <1>2
<1> QED
  BY <1>2, <1>3, <1>4, <1>5

LEMMA TimesAreTimes ==
    ASSUME PickerInv, AsksTime
    PROVE  /\ pendingDate \in Nat /\ IsFiniteSet(TimesLeft) /\ TimesLeft \subseteq Int
           /\ \A m \in TimesLeft : At(pendingDate, m) > Instant(Lower)
           /\ pendingDate = Lower.day =>
                TimesLeft = {m \in 0..1439 : m % SlotMinutes = 0 /\ m > Lower.minute}
<1>1. pendingDate \in Nat
  BY DEF PickerInv, PickerTypeOK, Answered
<1>2. PICK day \in Nat, minute \in Nat : day = Lower.day /\ minute = Lower.minute /\ minute <= 1439
  <2>1. Lower \in [day : Nat, minute : 0..1439]
    BY LowerIs
  <2> HIDE DEF Lower
  <2>2. Lower.day \in Nat
    BY <2>1
  <2>3. Lower.minute \in Nat /\ Lower.minute <= 1439
    BY <2>1
  <2> QED
    BY <2>2, <2>3
<1>3. PICK c \in Nat : c = minute \div 30 + 1
  OBVIOUS
<1>4. 30 * c > minute
  BY <1>3
<1>5. PICK start \in Nat : start = IF day = pendingDate THEN c * 30 ELSE IF day < pendingDate THEN 360 ELSE 1440
  <2>1. c * 30 \in Nat /\ 360 \in Nat /\ 1440 \in Nat
    OBVIOUS
  <2> QED
    BY <2>1
<1>6. \A m : m \in TimesLeft <=> m \in start..1439 /\ (m - start) % 30 = 0
  <2>1. (IF Lower.day = pendingDate THEN (Lower.minute \div 30 + 1) * 30
         ELSE IF Lower.day < pendingDate THEN 360 ELSE 1440) = start
    BY <1>2, <1>3, <1>5
  <2>2. TimesLeft = {m \in start..1439 : (m - start) % 30 = 0}
    BY <2>1 DEF TimesLeft, GetTimeSlots, SlotMinutes, DayStart
  <2> QED
    BY <2>2
<1>7. PICK end \in Nat : end = 1439
  OBVIOUS
<1>8. /\ IsFiniteSet(TimesLeft)
      /\ \A m : m \in TimesLeft <=> m \in Int /\ start <= m /\ m <= end /\ (m - start) % 30 = 0
  <2>1. \A m : m \in TimesLeft <=> m \in start..end /\ (m - start) % 30 = 0
    BY <1>6, <1>7
  <2> QED
    BY <2>1, SlotsOfDay
<1>9. ASSUME NEW m \in TimesLeft PROVE At(pendingDate, m) > Instant(Lower)
  <2>1. PICK k \in Int : k = m /\ k >= start /\ k <= 1439
    BY <1>7, <1>8
  <2>2. At(pendingDate, m) = 1440 * pendingDate + k /\ Instant(Lower) = 1440 * day + minute
    BY <1>2, <2>1 DEF At, Instant
  <2>3. PICK d \in Nat : d = pendingDate
    BY <1>1
  <2>4. day = d => k > minute
    BY <1>4, <1>5, <2>1, <2>3
  <2>5. day <= d
    BY <1>5, <2>1, <2>3
  <2>6. 1440 * d + k > 1440 * day + minute
    <3>1. CASE day = d
      BY <2>1, <2>4, <3>1
    <3>2. CASE day + 1 <= d
      <4>1. k >= 0
        BY <1>5, <2>1, <2>3
      <4> QED
        BY <1>2, <2>1, <3>2, <4>1
    <3> QED
      BY <2>5, <3>1, <3>2
  <2> QED
    BY <2>2, <2>3, <2>6
<1>10. ASSUME pendingDate = Lower.day
       PROVE  TimesLeft = {m \in 0..1439 : m % SlotMinutes = 0 /\ m > Lower.minute}
  <2>1. start = c * 30
    BY <1>2, <1>5, <1>10
  <2>2. \A m : m \in TimesLeft <=> m \in Nat /\ m <= end /\ c * 30 <= m /\ (m - c * 30) % 30 = 0
    BY <1>8, <2>1
  <2>3. \A m : m \in TimesLeft <=> m \in Nat /\ m <= end /\ m % 30 = 0 /\ m > minute
    <3>1. \A m \in Nat : c * 30 <= m /\ (m - c * 30) % 30 = 0 <=> m % 30 = 0 /\ m > minute
      BY <1>3, HalfHours
    <3> QED
      BY <2>2, <3>1
  <2>4. \A m : m \in 0..end <=> m \in Nat /\ m <= end
    OBVIOUS
  <2>5. TimesLeft = {m \in 0..end : m % 30 = 0 /\ m > minute}
    BY <2>3, <2>4
  <2> QED
    BY <1>2, <1>7, <2>5 DEF SlotMinutes
<1>11. TimesLeft \subseteq Int
  BY <1>8
<1> QED
  BY <1>1, <1>8, <1>9, <1>10, <1>11

LEMMA TimesAreOfferedHolds ==
    ASSUME PickerInv, AsksTime
    PROVE  TimesAreOffered /\ (TimesLeft # {} => PromptTime(TimesLeft, page).rows # {})
<1>1. TimesLeft \in SUBSET Int /\ IsFiniteSet(TimesLeft)
  BY TimesAreTimes
<1>2. PICK S \in SUBSET Int : S = TimesLeft /\ IsFiniteSet(S)
  BY <1>1
<1>3. /\ UNION {GetTimePage(S, p).rows : p \in 0..LastPage(S)} = S
      /\ \A p \in 0..LastPage(S) :
            /\ GetTimePage(S, p).more <=> p + 1 \in 0..LastPage(S)
            /\ GetTimePage(S, p).earlier <=> p - 1 \in 0..LastPage(S)
            /\ Cardinality(GetTimePage(S, p).rows) <= TimesPerPage
      /\ S # {} => \A p \in 0..LastPage(S) : GetTimePage(S, p).rows # {}
  BY <1>2, PagesAreTrue
<1>4. LastPage(S) \in Nat
  BY <1>2, PagesCount
<1>5. Sooner(page, LastPage(S)) \in 0..LastPage(S)
  <2>1. page \in Nat
    BY DEF PickerInv, PickerTypeOK
  <2> QED
    BY <1>4, <2>1 DEF Sooner
<1>6. TimesAreOffered
  BY <1>2, <1>3, TimesAreTimes DEF TimesAreOffered
<1>7. S # {} => PromptTime(S, page).rows # {}
  BY <1>3, <1>5 DEF PromptTime
<1> QED
  BY <1>2, <1>6, <1>7

-----------------------------------------------------------------------------
(* What is written. *)

(* The fields of a phrase by its kind.                                     *)
LEMMA PhraseHas ==
    ASSUME NEW p \in DayAnswer
    PROVE  \/ p.kind \in {"today", "tomorrow", "day after tomorrow", "words"}
           \/ p.kind \in {"weekday", "next weekday"} /\ p.weekday \in 0..6
           \/ p.kind = "day" /\ p.day \in Nat
           \/ p.kind = "full date" /\ p.month \in Int /\ p.day \in Nat
           \/ p.kind = "day and month" /\ p.month \in 0..11 /\ p.day \in Nat
<1>1. CASE p \in [kind : {"today", "tomorrow", "day after tomorrow", "words"}]
  BY <1>1
<1>2. CASE p \in [kind : {"weekday", "next weekday"}, weekday : 0..6]
  <2>1. p.kind \in {"weekday", "next weekday"}
    BY <1>2
  <2>2. p.weekday \in 0..6
    BY <1>2
  <2> QED
    BY <2>1, <2>2
<1>3. CASE p \in [kind : {"day"}, day : Nat]
  BY <1>3
<1>4. CASE p \in [kind : {"full date"}, month : Int, day : Nat]
  <2>1. p.kind = "full date"
    BY <1>4
  <2>2. p.month \in Int
    BY <1>4
  <2>3. p.day \in Nat
    BY <1>4
  <2> QED
    BY <2>1, <2>2, <2>3
<1>5. CASE p \in [kind : {"day and month"}, month : 0..11, day : Nat]
  <2>1. p.kind = "day and month"
    BY <1>5
  <2>2. p.month \in 0..11
    BY <1>5
  <2>3. p.day \in Nat
    BY <1>5
  <2> QED
    BY <2>1, <2>2, <2>3
<1> QED
  BY <1>1, <1>2, <1>3, <1>4, <1>5 DEF DayAnswer

LEMMA PhraseIsDay ==
    ASSUME NEW p \in DayAnswer, NEW today \in Nat
    PROVE  \A d \in ResolveDatePhrase(p, today) : d \in Int
<1>0. today \in Int /\ today + 1 \in Int /\ today + 2 \in Int
  OBVIOUS
<1>1. CASE p.kind \in {"today", "tomorrow", "day after tomorrow", "words"}
  <2>1. \A d \in ResolveDatePhrase(p, today) : d = today \/ d = today + 1 \/ d = today + 2
    BY <1>1 DEF ResolveDatePhrase
  <2> QED
    BY <1>0, <2>1
<1>2. CASE p.kind \in {"weekday", "next weekday"} /\ p.weekday \in 0..6
  <2>1. PICK w \in Nat : w = p.weekday /\ w <= 6
    <3>1. p.weekday \in 0..6
      BY <1>2, Zenon
    <3>2. \A x \in 0..6 : x \in Nat /\ x <= 6
      OBVIOUS
    <3> QED
      BY <3>1, <3>2, Zenon
  <2>2. ThisWeekday(w, today) \in Int /\ NextWeekday(w, today) \in Int
    BY <1>0, <2>1, WeekdayIs
  <2>3. \A d \in ResolveDatePhrase(p, today) : d = ThisWeekday(w, today) \/ d = NextWeekday(w, today)
    <3>1. \A d \in ResolveDatePhrase(p, today) :
             d = ThisWeekday(p.weekday, today) \/ d = NextWeekday(p.weekday, today)
      BY <1>2 DEF ResolveDatePhrase
    <3> QED
      BY <2>1, <3>1
  <2> QED
    BY <2>2, <2>3
<1>3. CASE p.kind = "day" /\ p.day \in Nat
  <2>1. PICK n \in Int : n = p.day
    BY <1>3
  <2>2. PICK m \in Int : m = MonthOf(today)
    BY MonthOfDay
  <2>3. \A k \in 0..12 : m + k \in Int
    OBVIOUS
  <2>4. \A k \in 0..12 : MakeDate(m + k, n) \subseteq Int
    BY <2>3, DatesAreDays
  <2>5. \A d \in UpcomingDayOfMonth(n, today) : d \in Int
    BY <2>2, <2>4 DEF UpcomingDayOfMonth, Earliest
  <2>6. ResolveDatePhrase(p, today) = UpcomingDayOfMonth(p.day, today)
    BY <1>3 DEF ResolveDatePhrase
  <2> QED
    BY <2>1, <2>5, <2>6
<1>4. CASE p.kind = "full date" /\ p.month \in Int /\ p.day \in Nat
  <2>1. PICK k \in Int : k = p.month
    BY <1>4
  <2>2. PICK n \in Int : n = p.day
    <3>1. p.day \in Nat
      BY <1>4, Zenon
    <3>2. \A x \in Nat : x \in Int
      OBVIOUS
    <3> QED
      BY <3>1, <3>2, Zenon
  <2>3. MakeDate(k, n) \subseteq Int
    BY DatesAreDays
  <2>4. ResolveDatePhrase(p, today) = MakeDate(p.month, p.day)
    BY <1>4 DEF ResolveDatePhrase
  <2> QED
    BY <2>1, <2>2, <2>3, <2>4
<1>5. CASE p.kind = "day and month" /\ p.month \in 0..11 /\ p.day \in Nat
  <2>1. PICK k \in Int : k = p.month
    <3>1. p.month \in 0..11
      BY <1>5, Zenon
    <3>2. \A x \in 0..11 : x \in Int
      OBVIOUS
    <3> QED
      BY <3>1, <3>2, Zenon
  <2>2. PICK n \in Int : n = p.day
    <3>1. p.day \in Nat
      BY <1>5, Zenon
    <3>2. \A x \in Nat : x \in Int
      OBVIOUS
    <3> QED
      BY <3>1, <3>2, Zenon
  <2>3. PICK y \in Int : y = Year(MonthOf(today))
    BY MonthOfDay DEF Year
  <2>4. \A i \in y..y + 4 : 12 * i + k \in Int
    OBVIOUS
  <2>5. \A i \in y..y + 4 : MakeDate(12 * i + k, n) \subseteq Int
    BY <2>4, DatesAreDays
  <2>6. \A d \in Upcoming(k, n, today) : d \in Int
    BY <2>3, <2>5 DEF Upcoming, Earliest
  <2>7. ResolveDatePhrase(p, today) = Upcoming(p.month, p.day, today)
    BY <1>5 DEF ResolveDatePhrase
  <2> QED
    BY <2>1, <2>2, <2>6, <2>7
<1> QED
  BY <1>1, <1>2, <1>3, <1>4, <1>5, PhraseHas

LEMMA PhrasesAreNearestHolds == ASSUME PickerInv PROVE PhrasesAreNearest
<1> DEFINE today == now.day
           F(p) == {d \in today..today + Horizon : Suits(p, d)}
<1>1. today \in Nat /\ today \in Int
  BY DEF PickerInv, PickerTypeOK
<1> HIDE DEF today
<1>2. Horizon = 366
  BY DEF Horizon
<1>3. ASSUME NEW p \in Phrases, F(p) # {} PROVE ResolveDatePhrase(p, today) = Earliest(F(p))
  <2>1. p \in DayAnswer
    BY DatePickerAssumption
  <2>2. F(p) \in SUBSET Int
    BY <1>1, <1>2
  <2>3. CASE p.kind \in {"today", "tomorrow", "day after tomorrow", "words", "full date"}
    <3> DEFINE R == ResolveDatePhrase(p, today)
    <3>2. \A d, e \in R : d = e
      <4>1. CASE p.kind \in {"today", "tomorrow", "day after tomorrow", "words"}
        BY <4>1 DEF ResolveDatePhrase
      <4>2. CASE p.kind = "full date"
        <5>1. R = MakeDate(p.month, p.day)
          BY <4>2 DEF ResolveDatePhrase
        <5> QED
          BY <5>1 DEF MakeDate
      <4> QED
        BY <2>3, <4>1, <4>2
    <3>3. \A d : Suits(p, d) <=> d \in R
      BY <2>3 DEF Suits, today
    <3> HIDE DEF R
    <3>4. PICK d \in F(p) : TRUE
      BY <1>3
    <3>5. d \in R /\ \A e \in F(p) : e = d
      BY <3>2, <3>3
    <3>6. R = {d}
      BY <3>2, <3>5
    <3>7. \A e \in F(p) : d <= e
      BY <2>2, <3>5
    <3> HIDE DEF F
    <3>8. Earliest(F(p)) = {d}
      BY <2>2, <3>7, EarliestIs
    <3> QED
      BY <3>6, <3>8 DEF R
  <2>4. CASE p.kind = "weekday" /\ p.weekday \in 0..6
    <3>1. PICK w \in Nat : w = p.weekday /\ w <= 6
      <4>1. p.weekday \in 0..6
        BY <2>4, Zenon
      <4>2. \A x \in 0..6 : x \in Nat /\ x <= 6
        OBVIOUS
      <4> QED
        BY <4>1, <4>2, Zenon
    <3>2. PICK t \in Int : /\ t = ThisWeekday(w, today) /\ today <= t /\ t <= today + 6
                           /\ DayOfWeek(t) = w
      BY <1>1, <3>1, WeekdayIs
    <3>3. \A d : Suits(p, d) <=> DayOfWeek(d) = w
      BY <2>4, <3>1 DEF Suits
    <3>4. t \in F(p)
      BY <1>1, <1>2, <3>2, <3>3
    <3>5. \A e \in F(p) : t <= e
      <4>1. \A e \in Int : e >= today /\ DayOfWeek(e) = w => t <= e
        BY <1>1, <3>1, <3>2, NearestWeekdayIs
      <4> QED
        BY <1>1, <3>3, <4>1
    <3> HIDE DEF F
    <3>6. Earliest(F(p)) = {t}
      BY <2>2, <3>4, <3>5, EarliestIs
    <3>7. ResolveDatePhrase(p, today) = {ThisWeekday(p.weekday, today)}
      BY <2>4 DEF ResolveDatePhrase
    <3> QED
      BY <3>1, <3>2, <3>6, <3>7
  <2>5. CASE p.kind = "next weekday" /\ p.weekday \in 0..6
    <3>1. PICK w \in Nat : w = p.weekday /\ w <= 6
      <4>1. p.weekday \in 0..6
        BY <2>5, Zenon
      <4>2. \A x \in 0..6 : x \in Nat /\ x <= 6
        OBVIOUS
      <4> QED
        BY <4>1, <4>2, Zenon
    <3>2. PICK t \in Int : /\ t = NextWeekday(w, today) /\ today + 1 <= t /\ t <= today + 7
                           /\ DayOfWeek(t) = w
      BY <1>1, <3>1, WeekdayIs
    <3>3. \A d : Suits(p, d) <=> DayOfWeek(d) = w /\ d # today
      BY <2>5, <3>1 DEF Suits, today
    <3>4. t \in F(p)
      BY <1>1, <1>2, <3>2, <3>3
    <3>5. \A e \in F(p) : t <= e
      <4>1. PICK lo \in Int : lo = today + 1
        BY <1>1
      <4>2. lo <= t /\ t <= lo + 6
        BY <1>1, <3>2, <4>1
      <4>3. \A e \in Int : e >= lo /\ DayOfWeek(e) = w => t <= e
        BY <3>1, <3>2, <4>2, NearestWeekdayIs
      <4> QED
        BY <1>1, <3>3, <4>1, <4>3
    <3> HIDE DEF F
    <3>6. Earliest(F(p)) = {t}
      BY <2>2, <3>4, <3>5, EarliestIs
    <3>7. ResolveDatePhrase(p, today) = {NextWeekday(p.weekday, today)}
      BY <2>5 DEF ResolveDatePhrase
    <3> QED
      BY <3>1, <3>2, <3>6, <3>7
  <2>6. CASE p.kind = "day" /\ p.day \in Nat
    <3>1. PICK n \in Nat : n = p.day
      BY <2>6
    <3>2. \A d : Suits(p, d) <=> d = FirstOf(MonthOf(d)) + n - 1
      BY <2>6, <3>1 DEF Suits
    <3>3. F(p) = {d \in today..today + 366 : d = FirstOf(MonthOf(d)) + n - 1}
      BY <1>2, <3>2
    <3> HIDE DEF F
    <3>4. UpcomingDayOfMonth(n, today) = Earliest(F(p))
      BY <1>1, <1>3, <3>3, DayOfMonthIsNearest
    <3>5. ResolveDatePhrase(p, today) = UpcomingDayOfMonth(p.day, today)
      BY <2>6 DEF ResolveDatePhrase
    <3> QED
      BY <3>1, <3>4, <3>5
  <2>7. CASE p.kind = "day and month" /\ p.month \in 0..11 /\ p.day \in Nat
    <3>0. PICK k \in Nat : k = p.month /\ k <= 11
      <4>1. p.month \in 0..11
        BY <2>7, Zenon
      <4>2. \A x \in 0..11 : x \in Nat /\ x <= 11
        OBVIOUS
      <4> QED
        BY <4>1, <4>2, Zenon
    <3>1. PICK n \in Nat : n = p.day
      BY <2>7
    <3>2. \A d : Suits(p, d) <=> MonthOf(d) % 12 = k /\ d = FirstOf(MonthOf(d)) + n - 1
      BY <2>7, <3>0, <3>1 DEF Suits
    <3>3. F(p) = {d \in today..today + 366 : MonthOf(d) % 12 = k /\ d = FirstOf(MonthOf(d)) + n - 1}
      BY <1>2, <3>2
    <3> HIDE DEF F
    <3>4. Upcoming(k, n, today) = Earliest(F(p))
      BY <1>1, <1>3, <3>0, <3>3, DateIsNearest
    <3>5. ResolveDatePhrase(p, today) = Upcoming(p.month, p.day, today)
      BY <2>7 DEF ResolveDatePhrase
    <3> QED
      BY <3>0, <3>1, <3>4, <3>5
  <2> HIDE DEF F
  <2> QED
    BY <2>1, <2>3, <2>4, <2>5, <2>6, <2>7, PhraseHas
<1> QED
  BY <1>3 DEF PhrasesAreNearest, today

LEMMA TimeIsMinute == ASSUME NEW answer PROVE \A m \in ResolveTimePhrase(answer) : m \in Nat
<1>1. \A hour, minute : \A m \in MinuteOfDay(hour, minute) : m \in Nat
  BY DEF MinuteOfDay
<1>2. CASE answer.kind = "am"
  BY <1>1, <1>2 DEF ResolveTimePhrase
<1>3. CASE answer.kind = "pm"
  BY <1>1, <1>3 DEF ResolveTimePhrase
<1>4. CASE answer.kind \in {"clock", "hour"}
  BY <1>1, <1>4 DEF ResolveTimePhrase
<1>5. CASE answer.kind = "hour and part"
  BY <1>1, <1>5 DEF ResolveTimePhrase
<1>6. CASE answer.kind = "part"
  BY <1>1, <1>6 DEF ResolveTimePhrase
<1>7. CASE answer.kind \notin {"am", "pm", "clock", "hour", "hour and part", "part"}
  BY <1>7 DEF ResolveTimePhrase
<1> QED
  BY <1>2, <1>3, <1>4, <1>5, <1>6, <1>7

LEMMA AnswerIsTime ==
    ASSUME PickerInv, AsksTime, NEW answer
    PROVE  \A t \in AnswerTime(pendingDate, answer, now) : t \in Nat
<1>1. pendingDate \in Nat /\ now.day \in Nat /\ now.minute \in Nat
  BY DEF PickerInv, PickerTypeOK, Answered
<1>2. \A i, j \in Nat : At(i, j) \in Nat
  BY DEF At
<1>3. \A m \in ResolveTimePhrase(answer) : At(pendingDate, m) \in Nat
  BY <1>1, <1>2, TimeIsMinute
<1>4. At(now.day, now.minute) + MinLeadMinutes + 15 \in Nat
  <2>1. PICK i \in Nat : i = At(now.day, now.minute)
    BY <1>1, <1>2
  <2>2. i + MinLeadMinutes + 15 \in Nat
    BY DEF MinLeadMinutes
  <2> QED
    BY <2>1, <2>2
<1> QED
  BY <1>3, <1>4 DEF AnswerTime

LEMMA TimesAreAcceptedHolds == ASSUME PickerInv PROVE TimesAreAccepted
<1>1. ASSUME step = "BOOKING_TIME", NEW answer \in Hours, NEW t \in AnswerTime(pendingDate, answer, now)
      PROVE  \/ t < Instant(now) \/ TooSoon(t, now)
             \/ Backend!ValidateTiming(TripOf("ONE_WAY", t, Backend!NoTime), Instant(now))
             \/ t - Instant(now) > Backend!MaxAdvanceDays * Backend!DayMinutes
  <2>1. t \in Nat
    BY <1>1, AnswerIsTime DEF AsksTime
  <2>2. Instant(now) \in Nat /\ At(now.day, now.minute) = Instant(now)
    <3>1. now.day \in Nat /\ now.minute \in Nat
      BY DEF PickerInv, PickerTypeOK
    <3>2. \A i, j \in Nat : At(i, j) \in Nat
      BY DEF At
    <3> QED
      BY <3>1, <3>2 DEF Instant
  <2>3. PICK i \in Nat, j \in Nat : i = t /\ j = Instant(now)
    BY <2>1, <2>2
  <2>4. TooSoon(t, now) <=> i - j < 15
    BY <2>2, <2>3 DEF TooSoon, MinLeadMinutes
  <2>5. ASSUME i - j >= 15, i - j <= 129600
        PROVE  Backend!ValidateTiming(TripOf("ONE_WAY", i, Backend!NoTime), j)
    <3> DEFINE trip == TripOf("ONE_WAY", i, Backend!NoTime)
    <3>1. /\ trip.type = "ONE_WAY" /\ trip.at = i /\ trip.back = Backend!NoTime
          /\ trip.dropAt = Backend!NoTime /\ trip.stops = <<>>
      BY DEF TripOf
    <3> HIDE DEF trip
    <3>2. PICK ahead \in Int : ahead = i - j /\ 15 <= ahead /\ ahead <= 129600
      BY <2>5
    <3>3. PICK least \in Int, most \in Int :
             /\ least = Backend!MinLeadMinutes /\ least = 15
             /\ most = Backend!MaxAdvanceDays * Backend!DayMinutes /\ most = 129600
      BY DEF Backend!MinLeadMinutes, Backend!MaxAdvanceDays, Backend!DayMinutes
    <3>4. Backend!PickupInTime(trip, j)
      <4>1. ahead \in least..most
        <5>1. least <= ahead /\ ahead <= most
          BY <3>2, <3>3
        <5> QED
          BY <5>1
      <4>2. trip.at - j \in Backend!MinLeadMinutes..Backend!MaxAdvanceDays * Backend!DayMinutes
        BY <3>1, <3>2, <3>3, <4>1
      <4>3. i >= j - Backend!ClockSkew
        BY <3>2 DEF Backend!ClockSkew
      <4> QED
        BY <3>1, <4>2, <4>3 DEF Backend!PickupInTime
    <3> QED
      BY <3>1, <3>4 DEF Backend!ValidateTiming, trip
  <2>6. Backend!MaxAdvanceDays * Backend!DayMinutes = 129600
    BY DEF Backend!MaxAdvanceDays, Backend!DayMinutes
  <2>7. i - j < 15 \/ (i - j >= 15 /\ i - j <= 129600) \/ i - j > 129600
    OBVIOUS
  <2> QED
    BY <2>3, <2>4, <2>5, <2>6, <2>7
<1>2. ASSUME step = "BOOKING_VEHICLE_SELECTION"
      PROVE  /\ Backend!ValidateTiming(TripOf("ROUND_TRIP", pickup, back), pickup - MinLeadMinutes)
             /\ Backend!NormaliseReturnDate(back, pickup) > pickup
  <2>1. pickup \in Nat /\ back \in Nat /\ back >= pickup
    BY <1>2 DEF PickerInv, PickerTypeOK, Answered
  <2>2. PICK p \in Nat, b \in Nat : p = pickup /\ b = back /\ b >= p
    BY <2>1
  <2>3. Backend!PickupInTime(TripOf("ROUND_TRIP", p, b), p - 15)
    BY <2>2 DEF Backend!PickupInTime, TripOf, Backend!MinLeadMinutes, Backend!MaxAdvanceDays,
       Backend!DayMinutes, Backend!ClockSkew
  <2>4. Backend!ReturnDateIsValid(b, p)
    BY <2>2 DEF Backend!ReturnDateIsValid, Backend!DayOf, Backend!DayMinutes
  <2>5. Backend!ValidateTiming(TripOf("ROUND_TRIP", p, b), p - 15)
    BY <2>2, <2>3, <2>4 DEF Backend!ValidateTiming, TripOf, Backend!NoTime
  <2>6. Backend!NormaliseReturnDate(b, p) > p
    BY <2>2 DEF Backend!NormaliseReturnDate, Backend!DayOf, Backend!DayMinutes
  <2> QED
    BY <2>2, <2>5, <2>6 DEF MinLeadMinutes
<1> QED
  BY <1>1, <1>2 DEF TimesAreAccepted

LEMMA PickerImplies == ASSUME PickerInv PROVE PickerIsTrue
<1>1. back # NotChosen => back >= pickup
  BY DEF PickerInv, Answered
<1> QED
  BY <1>1, ViewsHaveDaysHolds, TextIsTrueHolds, DaysAreOfferedHolds, PhrasesAreNearestHolds,
     TimesAreOfferedHolds, TimesAreAcceptedHolds DEF PickerIsTrue

LEMMA PickerBegins == ASSUME PickerInit PROVE PickerInv
<1>1. now \in [day : Nat, minute : 0..1439]
  <2>1. PICK m \in Clocks : now = [day |-> Today, minute |-> m]
    BY DEF PickerInit, Earliest
  <2>2. Today \in Nat /\ m \in 0..1439
    BY DatePickerAssumption
  <2> QED
    BY <2>1, <2>2
<1>2. Fresh \in Views
  BY DEF Fresh, Views
<1>3. PickerTypeOK
  BY <1>1, <1>2 DEF PickerInit, PickerTypeOK, PickerSteps
<1>4. Answered
  BY DEF PickerInit, Answered, AsksTime, Returning
<1> QED
  BY <1>3, <1>4 DEF PickerInv

(* The views stay views. *)
LEMMA NavigationIsView ==
    ASSUME NEW v \in Views, NEW answer \in TapAnswer PROVE HandleTapNav(v, answer) \in Views
<1>1. answer.row \in Nat /\ v.month \in Nat \cup {NotChosen} /\ v.week \in Nat \cup {NotChosen}
  BY DEF Views, TapAnswer
<1>2. answer.tap \in {"month", "week", "other months", "other weeks"}
  BY DEF TapAnswer
<1>3. CASE answer.tap = "month"
  BY <1>1, <1>3 DEF HandleTapNav, Views
<1>4. CASE answer.tap = "week"
  BY <1>1, <1>4 DEF HandleTapNav, Views
<1>5. CASE answer.tap = "other months"
  BY <1>1, <1>5 DEF HandleTapNav, Views
<1>6. CASE answer.tap = "other weeks"
  BY <1>1, <1>6 DEF HandleTapNav, Views
<1> QED
  BY <1>2, <1>3, <1>4, <1>5, <1>6

LEMMA TakenAreDays ==
    ASSUME NEW v \in Views, NEW answer \in DayAnswer, NEW from \in Nat, NEW today \in Nat,
           CalendarFor(v, from, today).month \in Nat
    PROVE  \A d \in TakenDate(v, answer, from, today) : d \in Int /\ d >= from
<1>1. CASE answer.kind = "day"
  <2>1. PICK m \in Int : m = CalendarFor(v, from, today).month
    OBVIOUS
  <2>2. PICK n \in Int : n = answer.day
    <3>1. answer.day \in Nat
      <4>1. \/ answer.kind # "day" \/ answer.day \in Nat
        BY PhraseHas
      <4> QED
        BY <1>1, <4>1, Zenon
    <3>2. \A x \in Nat : x \in Int
      OBVIOUS
    <3> QED
      BY <3>1, <3>2, Zenon
  <2>3. MakeDate(m, n) \subseteq Int
    BY DatesAreDays
  <2>4. \A d \in HandleCalendarAnswer(v, answer.day, from, today) : d \in Int
    BY <2>1, <2>2, <2>3 DEF HandleCalendarAnswer
  <2> QED
    BY <1>1, <2>4 DEF TakenDate
<1>2. CASE answer.kind # "day"
  <2>1. \A d \in ResolveDatePhrase(answer, today) : d \in Int
    BY PhraseIsDay
  <2> QED
    BY <1>2, <2>1 DEF TakenDate
<1> QED
  BY <1>1, <1>2

LEMMA TurnsAreMonths ==
    ASSUME PickerInv, NEW move \in {-1, 1} PROVE TurnMonth(view, move, From, now.day) \in Nat
<1>1. view \in Views
  BY DEF PickerInv, PickerTypeOK
<1>2. LET cal == CalendarFor(view, From, now.day)
      IN  cal.month \in Nat /\ cal.firstMonth \in Nat
  BY <1>1, CalendarIs, FromIs, MonthOfDay
<1> QED
  BY <1>2 DEF TurnMonth

LEMMA PickerStep == ASSUME PickerInv, [PickerNext]_pickerVars PROVE PickerInv'
<1> USE DEF PickerInv
<1>1. ASSUME NEW day \in now.day..now.day + 1, NEW m \in Clocks, Time(day, m) PROVE PickerInv'
  <2>1. [day |-> day, minute |-> m] \in [day : Nat, minute : 0..1439]
    <3>1. now.day \in Nat /\ m \in 0..1439
      BY DatePickerAssumption DEF PickerTypeOK
    <3> QED
      BY <3>1
  <2> QED
    BY <1>1, <2>1 DEF Time, PickerTypeOK, Answered, AsksTime, Returning
<1>2. CASE AskDate
  BY <1>2 DEF AskDate, PickerTypeOK, PickerSteps, Answered, AsksTime, Returning
<1>3. ASSUME NEW answer \in Taps, TapNavigation(answer) PROVE PickerInv'
  <2>1. HandleTapNav(view, answer) \in Views
    BY DatePickerAssumption, NavigationIsView DEF PickerTypeOK
  <2> QED
    BY <1>3, <2>1 DEF TapNavigation, PickerTypeOK, Answered, AsksTime, Returning
<1>4. ASSUME NEW move \in {-1, 1}, MoveMonth(move) PROVE PickerInv'
  <2>1. TurnMonth(view, move, From, now.day) \in Nat
    BY TurnsAreMonths
  <2>2. view' \in Views
    BY <1>4, <2>1 DEF MoveMonth, PickerTypeOK, Views
  <2> QED
    BY <1>4, <2>2 DEF MoveMonth, PickerTypeOK, Answered, AsksTime, Returning
<1>5. ASSUME NEW answer \in Phrases, TakeDay(answer) PROVE PickerInv'
  <2>1. pendingDate' \in Nat
    <3>1. pendingDate' \in TakenDate(view, answer, From, now.day)
      BY <1>5 DEF TakeDay
    <3>2. From \in Nat /\ now.day \in Nat
      BY FromIs DEF PickerTypeOK
    <3>3. \A d \in TakenDate(view, answer, From, now.day) : d \in Int /\ d >= From
      <4>1. view \in Views /\ answer \in DayAnswer
        BY DatePickerAssumption DEF PickerTypeOK
      <4>2. CalendarFor(view, From, now.day).month \in Nat
        BY <4>1, CalendarIs, FromIs, MonthOfDay
      <4> QED
        BY <3>2, <4>1, <4>2, TakenAreDays
    <3> QED
      BY <3>1, <3>2, <3>3
  <2>2. step' \in PickerSteps /\ (step' = step \/ step' = TimeStep)
    BY <1>5 DEF TakeDay, PickerTypeOK, PickerSteps, TimeStep
  <2>3. Fresh \in Views
    BY DEF Fresh, Views
  <2>4. pendingDate' # NotChosen
    BY <2>1 DEF NotChosen
  <2>5. PickerTypeOK'
    BY <1>5, <2>1, <2>2, <2>3 DEF TakeDay, PickerTypeOK
  <2>6. Answered'
    BY <1>5, <2>2, <2>4 DEF TakeDay, Answered, AsksDay, AsksTime, Returning, TimeStep
  <2> QED
    BY <2>5, <2>6
<1>6. ASSUME NEW nav \in {-1, 1}, TurnPage(nav) PROVE PickerInv'
  <2>1. page' \in Nat
    BY <1>6 DEF TurnPage, ChangeTimePage, Later, PickerTypeOK
  <2> QED
    BY <1>6, <2>1 DEF TurnPage, PromptAgain, DateStep, PickerTypeOK, PickerSteps, Answered, AsksTime, Returning
<1>7. CASE ChangeDate
  <2>1. Fresh \in Views
    BY DEF Fresh, Views
  <2> QED
    BY <1>7, <2>1 DEF ChangeDate, DateStep, PickerTypeOK, PickerSteps, Answered, AsksTime, Returning
<1>8. ASSUME NEW answer \in Hours, RefusePickup(answer) PROVE PickerInv'
  <2>1. step' \in {"BOOKING_DATE", "BOOKING_TIME"}
    BY <1>8 DEF RefusePickup, PromptAgain, DateStep, Returning
  <2> QED
    BY <1>8, <2>1 DEF RefusePickup, PickerTypeOK, PickerSteps, Answered, AsksTime, Returning
<1>9. ASSUME NEW answer \in Hours, TakePickup(answer) PROVE PickerInv'
  <2>1. pickup' \in Nat
    BY <1>9, AnswerIsTime DEF TakePickup, AsksTime
  <2>2. Fresh \in Views
    BY DEF Fresh, Views
  <2>3. pickup' # NotChosen
    BY <2>1 DEF NotChosen
  <2>4. PickerTypeOK'
    BY <1>9, <2>1, <2>2 DEF TakePickup, PickerTypeOK, PickerSteps
  <2>5. Answered'
    BY <1>9, <2>3 DEF TakePickup, Answered, AsksTime, Returning
  <2> QED
    BY <2>4, <2>5
<1>10. ASSUME NEW answer \in Hours, RefuseReturn(answer) PROVE PickerInv'
  <2>1. step' \in {"BOOKING_RETURN_DATE", "BOOKING_RETURN_TIME"}
    BY <1>10 DEF RefuseReturn, PromptAgain, DateStep, Returning
  <2> QED
    BY <1>10, <2>1 DEF RefuseReturn, PickerTypeOK, PickerSteps, Answered, AsksTime, Returning
<1>11. ASSUME NEW answer \in Hours, TakeReturn(answer) PROVE PickerInv'
  <2>1. back' \in Nat /\ back' >= pickup
    BY <1>11, AnswerIsTime DEF TakeReturn, ReturnTime, AsksTime
  <2>2. back' # NotChosen
    BY <2>1 DEF NotChosen
  <2>3. PickerTypeOK'
    BY <1>11, <2>1 DEF TakeReturn, PickerTypeOK, PickerSteps
  <2>4. Answered'
    BY <1>11, <2>1, <2>2 DEF TakeReturn, Answered, AsksTime, Returning
  <2> QED
    BY <2>3, <2>4
<1>12. CASE UNCHANGED pickerVars
  BY <1>12 DEF pickerVars, PickerTypeOK, Answered, AsksTime, Returning
<1> QED
  BY <1>1, <1>2, <1>3, <1>4, <1>5, <1>6, <1>7, <1>8, <1>9, <1>10, <1>11, <1>12 DEF PickerNext

(* What a customer has answered by each step of the dates: a day before a  *)
(* time of it, a pickup before a return that does not come before it.      *)
THEOREM PickerIsInvariant == PickerSpec => []PickerInv
<1>1. PickerInit => PickerInv
  BY PickerBegins
<1>2. PickerInv /\ [PickerNext]_pickerVars => PickerInv'
  BY PickerStep
<1> QED
  BY <1>1, <1>2, PTL DEF PickerSpec

(* At every step of the dates the customer is shown all that may be chosen *)
(* and nothing else, an answer means the nearest day, and what is taken    *)
(* can be booked (dateParser.js, booking.handler.js).                      *)
THEOREM PickerKeepsItsWord == PickerSpec => []PickerIsTrue
<1>1. PickerInv => PickerIsTrue
  BY PickerImplies
<1> QED
  BY <1>1, PickerIsInvariant, PTL
=============================================================================
