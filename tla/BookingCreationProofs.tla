----------------------- MODULE BookingCreationProofs -----------------------
(***************************************************************************)
(* Theorems about BookingCreation, for any keys, bodies, riders and        *)
(* requests, and about RateCards, for any tables and trips.                *)
(***************************************************************************)
EXTENDS BookingCreation, RateCards, DataTheorems

Booking == [key : Keys, body : Bodies, status : {"OPEN", "CANCELLED"}]

MadeFor(k) == { b \in Made : bookings[b].key = k }

(* A request that has claimed its key and may yet make a booking.          *)
Working(r, k) == req[r] # Idle /\ req[r].key = k /\ req[r].at \in {"price", "create"}

Fresh == Keys \ (retried \cup pruned)

(* A stored answer is a booking of its key and, before the key expires, of *)
(* the body in the row.                                                    *)
AnswerInv ==
    \A k \in Keys : row[k] # None =>
        /\ row[k].status = "COMPLETED" => row[k].reply # 0
        /\ row[k].reply # 0 =>
              /\ row[k].reply \in Made /\ bookings[row[k].reply].key = k
              /\ k \notin pruned => bookings[row[k].reply].body = row[k].body

(* Before a key expires its row stays, and is for the body of every        *)
(* request past the comparison of the hashes.                              *)
RequestInv ==
    \A r \in Requests : req[r] # Idle =>
        /\ req[r].key \notin pruned =>
              /\ row[req[r].key] # None
              /\ req[r].at # "look" => row[req[r].key].body = req[r].body
        /\ req[r].at = "record" =>
              /\ req[r].booking # 0 /\ req[r].booking \in Made
              /\ bookings[req[r].booking].key = req[r].key
              /\ bookings[req[r].booking].body = req[r].body

(* A key claimed only once has one request at work on it, or a booking, or *)
(* neither.                                                                *)
OnceInv ==
    \A k \in Fresh :
        /\ row[k] = None => MadeFor(k) = {}
        /\ \A r \in Requests : Working(r, k) => MadeFor(k) = {}
        /\ \A r, s \in Requests : Working(r, k) /\ Working(s, k) => r = s

IndInv == TypeOK /\ AnswerInv /\ RequestInv /\ OnceInv /\ DoneOnce /\ UsesCounted

(* The model value None is none of the rows.                               *)
LEMMA RowTyped ==
    ASSUME TypeOK, NEW k \in Keys, row[k] # None
    PROVE  row[k] \in KeyRow
BY DEF TypeOK

LEMMA RequestTyped ==
    ASSUME TypeOK, NEW r \in Requests, req[r] # Idle
    PROVE  req[r] \in Request /\ req[r].key \in Keys /\ req[r].body \in Bodies
BY DEF TypeOK, Request

LEMMA NotIdle ==
    ASSUME NEW r \in Requests, NEW stage, At(r, stage), stage # "idle"
    PROVE  req[r] # Idle
BY DEF At, Idle

LEMMA RedeemedFinite == TypeOK => IsFiniteSet(redeemed)
<1> SUFFICES ASSUME TypeOK PROVE IsFiniteSet(redeemed)
  OBVIOUS
<1>1. Len(bookings) \in Nat
  BY DEF TypeOK
<1>2. IsFiniteSet(1 .. Len(bookings))
  BY <1>1, FS_Interval
<1> QED
  BY <1>2, FS_Subset DEF TypeOK, Made

LEMMA Initially == Init => IndInv
<1> SUFFICES ASSUME Init PROVE IndInv
  OBVIOUS
<1>1. TypeOK
  BY BookingCreationAssumption DEF Init, TypeOK, Made
<1>2. AnswerInv /\ RequestInv
  BY DEF Init, AnswerInv, RequestInv
<1>3. OnceInv /\ DoneOnce
  BY DEF Init, OnceInv, Fresh, MadeFor, Made, Working, DoneOnce
<1>4. UsesCounted
  BY FS_EmptySet DEF Init, UsesCounted
<1> QED
  BY <1>1, <1>2, <1>3, <1>4 DEF IndInv

(* A step that only takes one request on, or ends it.                      *)
LEMMA MoveKeeps ==
    ASSUME IndInv, NEW r \in Requests, req[r] # Idle,
           UNCHANGED <<row, bookings, redeemed, used, retried, pruned>>,
           losses' \in 0 .. MaxLosses,
           NEW next, req' = [req EXCEPT ![r] = next],
           next = Idle
           \/ /\ next \in Request /\ next.key = req[r].key /\ next.body = req[r].body
              /\ next.at \notin {"look", "record"}
              /\ next.key \notin pruned => row[next.key].body = next.body
              /\ next.at \in {"price", "create"} => req[r].at \in {"price", "create"}
                                                    \/ next.key \notin Fresh
    PROVE  IndInv'
<1>1. TypeOK'
  BY DEF IndInv, TypeOK, Made
<1>2. req'[r] = next /\ \A s \in Requests \ {r} : req'[s] = req[s]
  BY DEF IndInv, TypeOK
<1>3. AnswerInv' /\ UsesCounted' /\ DoneOnce'
  BY DEF IndInv, AnswerInv, UsesCounted, DoneOnce, Made
<1>4. RequestInv'
  BY <1>2 DEF IndInv, RequestInv, Made, Request
<1>5. OnceInv'
  <2>1. \A s \in Requests, k \in Fresh : Working(s, k)' => Working(s, k)
    BY <1>2 DEF Working
  <2>2. Fresh' = Fresh /\ \A k \in Keys : MadeFor(k)' = MadeFor(k)
    BY DEF Fresh, MadeFor, Made
  <2> QED
    BY <2>1, <2>2 DEF IndInv, OnceInv, Fresh
<1> QED
  BY <1>1, <1>3, <1>4, <1>5 DEF IndInv

(* The steps of the gate and of create that write nothing.                 *)
LEMMA ReadsKeep ==
    ASSUME IndInv, NEW r \in Requests,
           LookGone(r) \/ Replay(r) \/ LookRefused(r) \/ LookAgain(r) \/ Price(r)
           \/ Refuse(r) \/ Lose(r)
    PROVE  IndInv'
<1>1. req[r] # Idle
  BY NotIdle DEF LookGone, Replay, LookRefused, LookAgain, Price, Refuse, Lose
<1>2. /\ UNCHANGED <<row, bookings, redeemed, used, retried, pruned>>
      /\ losses' \in 0 .. MaxLosses
  <2>1. losses \in 0 .. MaxLosses /\ MaxLosses \in Nat
    BY BookingCreationAssumption DEF IndInv, TypeOK
  <2> QED
    BY <2>1 DEF LookGone, Replay, LookRefused, LookAgain, Price, Refuse, Lose
<1>3. req[r] \in Request /\ req[r].key \in Keys
  BY <1>1, RequestTyped DEF IndInv
<1>4. CASE Replay(r) \/ LookRefused(r) \/ Lose(r)
  <2>1. req' = [req EXCEPT ![r] = Idle]
    BY <1>4 DEF Replay, LookRefused, Lose, End
  <2> QED
    BY <1>1, <1>2, <2>1, MoveKeeps
<1>5. ASSUME NEW stage \in {"reclaim", "takeover", "price", "create", "fail"}, Goto(r, stage),
             req[r].key \notin pruned => row[req[r].key].body = req[r].body,
             stage \in {"price", "create"} => req[r].at \in {"price", "create"}
                                              \/ req[r].key \notin Fresh
      PROVE  IndInv'
  <2> DEFINE next == [req[r] EXCEPT !.at = stage]
  <2>1. next \in Request /\ next.key = req[r].key /\ next.body = req[r].body /\ next.at = stage
    BY <1>3 DEF Request
  <2>2. req' = [req EXCEPT ![r] = next]
    BY <1>5 DEF Goto
  <2> HIDE DEF next
  <2> QED
    BY <1>1, <1>2, <1>5, <2>1, <2>2, MoveKeeps
<1>6. CASE LookGone(r)
  <2>1. req[r].key \in pruned
    BY <1>1, <1>6 DEF LookGone, IndInv, RequestInv
  <2> QED
    BY <1>5, <1>6, <2>1 DEF LookGone, Fresh
<1>7. CASE LookAgain(r)
  BY <1>5, <1>7 DEF LookAgain, SameRequest
<1>8. CASE Price(r)
  <2>1. req[r].key \notin pruned => row[req[r].key].body = req[r].body
    BY <1>1, <1>8 DEF Price, At, IndInv, RequestInv
  <2> QED
    BY <1>5, <1>8, <2>1 DEF Price, At
<1>9. CASE Refuse(r)
  <2>1. req[r].key \notin pruned => row[req[r].key].body = req[r].body
    BY <1>1, <1>9 DEF Refuse, At, IndInv, RequestInv
  <2> QED
    BY <1>5, <1>9, <2>1 DEF Refuse
<1> QED
  BY <1>4, <1>6, <1>7, <1>8, <1>9

LEMMA ClaimKeeps ==
    ASSUME IndInv, NEW r \in Requests, NEW k \in Keys, NEW body \in Bodies, Claim(r, k, body)
    PROVE  IndInv'
<1> DEFINE next == [at |-> IF Taken(k) THEN "look" ELSE "price", key |-> k,
                    body |-> body, booking |-> 0]
           new == [body |-> body, status |-> "IN_FLIGHT", old |-> FALSE, reply |-> 0]
<1>1. /\ UNCHANGED <<bookings, redeemed, used, retried, pruned, losses>>
      /\ req[r] = Idle /\ req' = [req EXCEPT ![r] = next]
      /\ row' = IF Taken(k) THEN row ELSE [row EXCEPT ![k] = new]
  BY DEF Claim
<1>2. next \in Request /\ next.key = k /\ next.body = body /\ next # Idle
      /\ next.at = (IF Taken(k) THEN "look" ELSE "price")
  BY BookingCreationAssumption DEF Request, Idle
<1>3. new \in KeyRow /\ new.body = body /\ new.status = "IN_FLIGHT" /\ new.reply = 0
  BY BookingCreationAssumption DEF KeyRow
<1> HIDE DEF next, new
<1>4. req'[r] = next /\ \A s \in Requests \ {r} : req'[s] = req[s]
  BY <1>1 DEF IndInv, TypeOK
<1>5. TypeOK'
  BY <1>1, <1>2, <1>3 DEF IndInv, TypeOK, Made
<1>6. UsesCounted' /\ DoneOnce'
  BY <1>1 DEF IndInv, UsesCounted, DoneOnce, Made
<1>7. /\ \A j \in Keys \ {k} : row'[j] = row[j]
      /\ row[k] # None => row'[k] = row[k]
      /\ row[k] = None => row'[k] = new
      /\ row'[k] # None
  BY <1>1, <1>3, BookingCreationAssumption DEF IndInv, TypeOK, Taken
<1>8. AnswerInv'
  BY <1>1, <1>3, <1>7 DEF IndInv, AnswerInv, Made
<1>9. RequestInv'
  <2>1. ASSUME NEW s \in Requests \ {r}, req'[s] # Idle PROVE
            /\ req'[s].key \notin pruned' =>
                  /\ row'[req'[s].key] # None
                  /\ req'[s].at # "look" => row'[req'[s].key].body = req'[s].body
            /\ req'[s].at = "record" =>
                  /\ req'[s].booking # 0 /\ req'[s].booking \in Made'
                  /\ bookings'[req'[s].booking].key = req'[s].key
                  /\ bookings'[req'[s].booking].body = req'[s].body
    <3>1. req'[s] = req[s] /\ req[s].key \in Keys
      BY <1>4, <2>1, RequestTyped DEF IndInv
    <3> QED
      BY <1>1, <1>7, <2>1, <3>1 DEF IndInv, RequestInv, Made
  <2>2. /\ row'[k] # None
        /\ next.at # "look" => row'[k].body = next.body
        /\ next.at # "record"
    BY <1>2, <1>3, <1>7 DEF Taken
  <2> QED
    BY <1>2, <1>4, <2>1, <2>2 DEF RequestInv
<1>10. OnceInv'
  <2>1. Fresh' = Fresh /\ \A j \in Keys : MadeFor(j)' = MadeFor(j)
    BY <1>1 DEF Fresh, MadeFor, Made
  <2>2. \A s \in Requests, j \in Keys : Working(s, j)' =>
            Working(s, j) \/ (s = r /\ j = k /\ row[k] = None)
    BY <1>2, <1>4 DEF Working, Taken
  <2>3. row[k] = None /\ k \in Fresh => MadeFor(k) = {} /\ \A s \in Requests : ~Working(s, k)
    BY DEF IndInv, OnceInv, RequestInv, Working, Fresh
  <2> QED
    BY <1>7, <2>1, <2>2, <2>3 DEF IndInv, OnceInv, Fresh
<1> QED
  BY <1>5, <1>6, <1>8, <1>9, <1>10 DEF IndInv

(* An update of a row by its key that leaves the body alone: the requests  *)
(* for it stay in step.                                                    *)
LEMMA RowUpdated ==
    ASSUME IndInv, NEW k \in Keys, row[k] # None, NEW new \in KeyRow, new.body = row[k].body,
           row' = [row EXCEPT ![k] = new]
    PROVE  /\ row' \in [Keys -> KeyRow \cup {None}]
           /\ \A j \in Keys \ {k} : row'[j] = row[j]
           /\ row'[k] = new
           /\ \A j \in Keys : (row'[j] # None <=> row[j] # None)
                              /\ (row[j] # None => row'[j].body = row[j].body)
BY BookingCreationAssumption DEF IndInv, TypeOK

(* A key claimed again is fresh no more.                                   *)
LEMMA ReopenKeeps ==
    ASSUME IndInv, NEW r \in Requests, Reclaim(r) \/ TakeOver(r)
    PROVE  IndInv'
<1> DEFINE k == req[r].key
<1>1. req[r] # Idle /\ req[r].at \in {"reclaim", "takeover"}
  BY NotIdle DEF Reclaim, TakeOver, At
<1>2. req[r] \in Request /\ k \in Keys
  BY <1>1, RequestTyped DEF IndInv
<1>3. UNCHANGED <<bookings, redeemed, used, pruned, losses>>
  BY DEF Reclaim, TakeOver
<1>4. CASE row[k] = None
  <2>1. req' = [req EXCEPT ![r] = Idle] /\ UNCHANGED <<row, retried>>
    BY <1>4 DEF Reclaim, TakeOver, Reopen, End
  <2>2. losses' \in 0 .. MaxLosses
    BY <1>3 DEF IndInv, TypeOK
  <2> QED
    BY <1>1, <1>3, <2>1, <2>2, MoveKeeps
<1>5. CASE row[k] # None
  <2>1. row[k] \in KeyRow
    BY <1>2, <1>5, RowTyped DEF IndInv
  <2>2. PICK new \in KeyRow :
            /\ row' = [row EXCEPT ![k] = new] /\ new.body = row[k].body
            /\ new.status = "IN_FLIGHT" /\ (new.reply = 0 \/ new.reply = row[k].reply)
    <3> DEFINE taken == [row[k] EXCEPT !.status = "IN_FLIGHT", !.old = FALSE]
               again == [row[k] EXCEPT !.status = "IN_FLIGHT", !.reply = 0]
    <3>1. /\ taken \in KeyRow /\ taken.body = row[k].body
          /\ taken.status = "IN_FLIGHT" /\ taken.reply = row[k].reply
      BY <2>1 DEF KeyRow
    <3>2. /\ again \in KeyRow /\ again.body = row[k].body
          /\ again.status = "IN_FLIGHT" /\ again.reply = 0
      <4>1. 0 \in 0 .. MaxBookings
        BY BookingCreationAssumption
      <4> QED
        BY <2>1, <4>1 DEF KeyRow
    <3>3. row' = [row EXCEPT ![k] = taken] \/ row' = [row EXCEPT ![k] = again]
      BY <1>5 DEF Reclaim, TakeOver, Reopen
    <3> HIDE DEF taken, again
    <3> QED
      BY <3>1, <3>2, <3>3
  <2>3. /\ row' \in [Keys -> KeyRow \cup {None}] /\ row'[k] = new
        /\ \A j \in Keys \ {k} : row'[j] = row[j]
        /\ \A j \in Keys : (row'[j] # None <=> row[j] # None)
                           /\ (row[j] # None => row'[j].body = row[j].body)
    BY <1>2, <1>5, <2>2, RowUpdated
  <2>4. retried' = retried \cup {k} /\ Goto(r, "price")
    BY <1>5 DEF Reclaim, TakeOver, Reopen
  <2> DEFINE next == [req[r] EXCEPT !.at = "price"]
  <2>5. next \in Request /\ next.key = k /\ next.body = req[r].body /\ next.at = "price"
        /\ next # Idle
    BY <1>2 DEF Request, Idle
  <2>6. req' = [req EXCEPT ![r] = next]
    BY <2>4 DEF Goto
  <2> HIDE DEF next
  <2>7. req'[r] = next /\ \A s \in Requests \ {r} : req'[s] = req[s]
    BY <2>6 DEF IndInv, TypeOK
  <2>8. TypeOK'
    BY <1>2, <1>3, <2>3, <2>4, <2>5, <2>6 DEF IndInv, TypeOK, Made
  <2>9. UsesCounted'
    BY <1>3 DEF IndInv, UsesCounted
  <2>10. DoneOnce'
    BY <1>3, <2>4 DEF IndInv, DoneOnce, Made
  <2>11. AnswerInv'
    BY <1>2, <1>3, <1>5, <2>2, <2>3 DEF IndInv, AnswerInv, Made
  <2>12. RequestInv'
    <3>1. ASSUME NEW s \in Requests \ {r}, req[s] # Idle PROVE req[s].key \in Keys
      BY <3>1, RequestTyped DEF IndInv
    <3>2. k \notin pruned => row[k].body = req[r].body
      BY <1>1, <1>2 DEF IndInv, RequestInv
    <3> QED
      BY <1>2, <1>3, <1>5, <2>3, <2>5, <2>7, <3>1, <3>2 DEF IndInv, RequestInv, Made
  <2>13. OnceInv'
    <3>1. Fresh' = Fresh \ {k} /\ \A j \in Keys : MadeFor(j)' = MadeFor(j)
      BY <1>3, <2>4 DEF Fresh, MadeFor, Made
    <3>2. \A s \in Requests, j \in Keys \ {k} : Working(s, j)' => Working(s, j)
      BY <2>5, <2>7 DEF Working
    <3> QED
      BY <2>3, <3>1, <3>2 DEF IndInv, OnceInv, Fresh
  <2> QED
    BY <2>8, <2>9, <2>10, <2>11, <2>12, <2>13 DEF IndInv
<1> QED
  BY <1>4, <1>5

(* The outcome of a request recorded on its key.                           *)
LEMMA NoteKeeps ==
    ASSUME IndInv, NEW r \in Requests, Complete(r) \/ Fail(r)
    PROVE  IndInv'
<1> DEFINE k == req[r].key
<1>1. req[r] # Idle /\ req[r].at \in {"record", "fail"}
  BY NotIdle DEF Complete, Fail, At
<1>2. req[r] \in Request /\ k \in Keys
  BY <1>1, RequestTyped DEF IndInv
<1>3. UNCHANGED <<bookings, redeemed, used, retried, pruned, losses>>
      /\ req' = [req EXCEPT ![r] = Idle]
  BY DEF Complete, Fail, End
<1>4. losses' \in 0 .. MaxLosses
  BY <1>3 DEF IndInv, TypeOK
<1>5. CASE row[k] = None
  <2>1. row' = row
    BY <1>5 DEF Complete, Fail, Note
  <2> QED
    BY <1>1, <1>3, <1>4, <2>1, MoveKeeps
<1>6. CASE row[k] # None
  <2>1. row[k] \in KeyRow
    BY <1>2, <1>6, RowTyped DEF IndInv
  <2>2. PICK new \in KeyRow :
            /\ row' = [row EXCEPT ![k] = new] /\ new.body = row[k].body
            /\ \/ At(r, "record") /\ new.reply = req[r].booking
               \/ new.reply = row[k].reply /\ new.status = "FAILED"
    <3>1. [row[k] EXCEPT !.status = "COMPLETED", !.reply = req[r].booking] \in KeyRow
      BY <1>2, <2>1 DEF KeyRow, Request
    <3>2. [row[k] EXCEPT !.status = "FAILED"] \in KeyRow
      BY <2>1 DEF KeyRow
    <3> QED
      BY <1>6, <2>1, <3>1, <3>2 DEF Complete, Fail, Note, KeyRow
  <2>3. /\ row' \in [Keys -> KeyRow \cup {None}] /\ row'[k] = new
        /\ \A j \in Keys \ {k} : row'[j] = row[j]
        /\ \A j \in Keys : (row'[j] # None <=> row[j] # None)
                           /\ (row[j] # None => row'[j].body = row[j].body)
    BY <1>2, <1>6, <2>2, RowUpdated
  <2>4. req'[r] = Idle /\ \A s \in Requests \ {r} : req'[s] = req[s]
    BY <1>3 DEF IndInv, TypeOK
  <2>5. TypeOK'
    BY <1>3, <2>3 DEF IndInv, TypeOK, Made
  <2>6. UsesCounted' /\ DoneOnce'
    BY <1>3 DEF IndInv, UsesCounted, DoneOnce, Made
  <2>7. AnswerInv'
    <3>1. At(r, "record") =>
              /\ req[r].booking # 0 /\ req[r].booking \in Made /\ bookings[req[r].booking].key = k
              /\ bookings[req[r].booking].body = req[r].body
              /\ k \notin pruned => row[k].body = req[r].body
      BY <1>1 DEF IndInv, RequestInv, At
    <3> QED
      BY <1>2, <1>3, <1>6, <2>2, <2>3, <3>1 DEF IndInv, AnswerInv, Made
  <2>8. RequestInv'
    <3>1. ASSUME NEW s \in Requests \ {r}, req[s] # Idle PROVE req[s].key \in Keys
      BY <3>1, RequestTyped DEF IndInv
    <3> QED
      BY <1>3, <2>3, <2>4, <3>1 DEF IndInv, RequestInv, Made
  <2>9. OnceInv'
    <3>1. Fresh' = Fresh /\ \A j \in Keys : MadeFor(j)' = MadeFor(j)
      BY <1>3 DEF Fresh, MadeFor, Made
    <3>2. \A s \in Requests, j \in Keys : Working(s, j)' => Working(s, j)
      BY <2>4 DEF Working
    <3> QED
      BY <2>3, <3>1, <3>2 DEF IndInv, OnceInv, Fresh
  <2> QED
    BY <2>5, <2>6, <2>7, <2>8, <2>9 DEF IndInv
<1> QED
  BY <1>5, <1>6

(* Time passes over a row.                                                 *)
LEMMA AgeKeeps ==
    ASSUME IndInv, NEW k \in Keys, Age(k)
    PROVE  IndInv'
<1>1. row[k] # None /\ row[k] \in KeyRow
  BY RowTyped DEF Age, IndInv
<1> DEFINE new == [row[k] EXCEPT !.old = TRUE]
<1>2. /\ new \in KeyRow /\ new.body = row[k].body /\ new.status = row[k].status
      /\ new.reply = row[k].reply /\ row' = [row EXCEPT ![k] = new]
  BY <1>1 DEF Age, KeyRow
<1>3. UNCHANGED <<bookings, redeemed, used, req, retried, pruned, losses>>
  BY DEF Age
<1> HIDE DEF new
<1>4. /\ row' \in [Keys -> KeyRow \cup {None}] /\ row'[k] = new
      /\ \A j \in Keys \ {k} : row'[j] = row[j]
      /\ \A j \in Keys : (row'[j] # None <=> row[j] # None)
                         /\ (row[j] # None => row'[j].body = row[j].body)
  BY <1>1, <1>2, RowUpdated
<1>5. TypeOK' /\ UsesCounted' /\ DoneOnce'
  BY <1>3, <1>4 DEF IndInv, TypeOK, UsesCounted, DoneOnce, Made
<1>6. AnswerInv'
  BY <1>1, <1>2, <1>3, <1>4 DEF IndInv, AnswerInv, Made
<1>7. RequestInv'
  <2>1. \A s \in Requests : req[s] # Idle => req[s].key \in Keys
    BY RequestTyped DEF IndInv
  <2> QED
    BY <1>3, <1>4, <2>1 DEF IndInv, RequestInv, Made
<1>8. OnceInv'
  BY <1>3, <1>4 DEF IndInv, OnceInv, Fresh, MadeFor, Made, Working
<1> QED
  BY <1>5, <1>6, <1>7, <1>8 DEF IndInv

(* A row that expires takes its key out of the claims made here.           *)
LEMMA PruneKeeps ==
    ASSUME IndInv, NEW k \in Keys, Prune(k)
    PROVE  IndInv'
<1>1. /\ row' = [row EXCEPT ![k] = None] /\ pruned' = pruned \cup {k}
      /\ UNCHANGED <<bookings, redeemed, used, req, retried, losses>>
  BY DEF Prune
<1>2. TypeOK'
  BY <1>1 DEF IndInv, TypeOK, Made
<1>3. UsesCounted' /\ DoneOnce'
  BY <1>1 DEF IndInv, UsesCounted, DoneOnce, Made
<1>4. row'[k] = None /\ \A j \in Keys \ {k} : row'[j] = row[j]
  BY <1>1 DEF IndInv, TypeOK
<1>5. AnswerInv'
  BY <1>1, <1>4 DEF IndInv, AnswerInv, Made
<1>6. RequestInv'
  <2>1. \A s \in Requests : req[s] # Idle => req[s].key \in Keys
    BY RequestTyped DEF IndInv
  <2> QED
    BY <1>1, <1>4, <2>1 DEF IndInv, RequestInv, Made
<1>7. OnceInv'
  BY <1>1, <1>4 DEF IndInv, OnceInv, Fresh, MadeFor, Made, Working
<1> QED
  BY <1>2, <1>3, <1>5, <1>6, <1>7 DEF IndInv

LEMMA Appended ==
    ASSUME TypeOK, NEW e \in Booking, Len(bookings) + 1 <= MaxBookings,
           bookings' = Append(bookings, e)
    PROVE  /\ bookings' \in Seq(Booking) /\ Len(bookings') = Len(bookings) + 1
           /\ Len(bookings) + 1 \notin Made /\ Len(bookings) + 1 # 0
           /\ Len(bookings) + 1 \in 0 .. MaxBookings
           /\ Made' = Made \cup {Len(bookings) + 1}
           /\ bookings'[Len(bookings) + 1] = e
           /\ \A b \in Made : bookings'[b] = bookings[b]
<1>1. bookings \in Seq(Booking) /\ Len(bookings) \in Nat /\ MaxBookings \in Nat
  BY BookingCreationAssumption DEF TypeOK, Booking
<1>2. /\ bookings' \in Seq(Booking) /\ Len(bookings') = Len(bookings) + 1
      /\ bookings'[Len(bookings) + 1] = e
      /\ \A b \in 1 .. Len(bookings) : bookings'[b] = bookings[b]
  BY <1>1
<1> QED
  BY <1>1, <1>2 DEF Made

(* The one step that makes a booking: its request has claimed the key.     *)
LEMMA CreateKeeps ==
    ASSUME IndInv, NEW r \in Requests, NEW k \in Keys, k = req[r].key, Create(r)
    PROVE  IndInv'
<1> DEFINE n == Len(bookings) + 1
           e == [key |-> k, body |-> req[r].body, status |-> "OPEN"]
<1>1. /\ req[r] # Idle /\ req[r].at = "create" /\ n <= MaxBookings
      /\ bookings' = Append(bookings, e)
      /\ UNCHANGED <<row, retried, pruned, losses>>
      /\ \/ req' = [req EXCEPT ![r].at = "record", ![r].booking = n]
         \/ req' = [req EXCEPT ![r].at = "fail"]
      /\ \/ redeemed' = redeemed \cup {n} /\ used' = used + 1
         \/ UNCHANGED <<redeemed, used>>
  BY NotIdle DEF Create, At, Goto
<1>2. TypeOK /\ req[r] \in Request /\ req[r].body \in Bodies
  BY <1>1, RequestTyped DEF IndInv
<1>3. e \in Booking /\ e.key = k /\ e.body = req[r].body /\ e.status = "OPEN"
  BY <1>2 DEF Booking
<1> HIDE DEF e
<1>4. /\ bookings' \in Seq(Booking) /\ Len(bookings') = n
      /\ n \notin Made /\ n # 0 /\ n \in 0 .. MaxBookings
      /\ Made' = Made \cup {n}
      /\ bookings'[n] = e
      /\ \A b \in Made : bookings'[b] = bookings[b]
  BY <1>1, <1>2, <1>3, Appended
<1> HIDE DEF n
<1>5. PICK next \in Request :
          /\ req' = [req EXCEPT ![r] = next]
          /\ next.key = k /\ next.body = req[r].body
          /\ \/ next.at = "fail"
             \/ next.at = "record" /\ next.booking = n
  <2> DEFINE good == [req[r] EXCEPT !.at = "record", !.booking = n]
             bad == [req[r] EXCEPT !.at = "fail"]
  <2>1. good \in Request /\ good.key = k /\ good.body = req[r].body
        /\ good.at = "record" /\ good.booking = n
    BY <1>2, <1>4 DEF Request
  <2>2. bad \in Request /\ bad.key = k /\ bad.body = req[r].body /\ bad.at = "fail"
    BY <1>2 DEF Request
  <2>3. req' = [req EXCEPT ![r] = good] \/ req' = [req EXCEPT ![r] = bad]
    BY <1>1
  <2> HIDE DEF good, bad
  <2> QED
    BY <2>1, <2>2, <2>3
<1>6. next # Idle
  <2>1. next.at # Idle.at
    BY <1>5 DEF Idle
  <2> QED
    BY <2>1
<1>7. req'[r] = next /\ \A s \in Requests \ {r} : req'[s] = req[s]
  BY <1>2, <1>5 DEF TypeOK
<1>8. TypeOK'
  <2>1. used' \in Nat /\ redeemed' \subseteq Made'
    BY <1>1, <1>2, <1>4 DEF TypeOK
  <2>2. req' \in [Requests -> Request \cup {Idle}]
    BY <1>2, <1>5 DEF TypeOK
  <2> QED
    BY <1>1, <1>2, <1>4, <2>1, <2>2 DEF TypeOK, Booking
<1>9. UsesCounted'
  <2>1. \A b \in redeemed : bookings'[b].status = "OPEN"
    BY <1>2, <1>4 DEF IndInv, UsesCounted, TypeOK
  <2>2. CASE UNCHANGED <<redeemed, used>>
    BY <2>1, <2>2 DEF IndInv, UsesCounted
  <2>3. CASE redeemed' = redeemed \cup {n} /\ used' = used + 1
    <3>1. n \notin redeemed
      BY <1>2, <1>4 DEF TypeOK
    <3>2. Cardinality(redeemed \cup {n}) = Cardinality(redeemed) + 1
      BY <1>2, <3>1, RedeemedFinite, FS_AddElement
    <3> QED
      BY <1>3, <1>4, <2>1, <2>3, <3>2 DEF IndInv, UsesCounted
  <2> QED
    BY <1>1, <2>2, <2>3
<1>10. AnswerInv'
  <2> SUFFICES ASSUME NEW q \in Keys, row[q] # None
               PROVE  /\ row[q].status = "COMPLETED" => row[q].reply # 0
                      /\ row[q].reply # 0 =>
                            /\ row[q].reply \in Made' /\ bookings'[row[q].reply].key = q
                            /\ q \notin pruned => bookings'[row[q].reply].body = row[q].body
    BY <1>1 DEF AnswerInv
  <2>1. PICK reply : reply = row[q].reply
    OBVIOUS
  <2>2. /\ row[q].status = "COMPLETED" => reply # 0
        /\ reply # 0 => /\ reply \in Made /\ bookings[reply].key = q
                        /\ q \notin pruned => bookings[reply].body = row[q].body
    BY <2>1 DEF IndInv, AnswerInv
  <2> QED
    BY <1>4, <2>1, <2>2
<1>11. RequestInv'
  <2>1. ASSUME NEW s \in Requests \ {r}, req'[s] # Idle PROVE
            /\ req'[s].key \notin pruned' =>
                  /\ row'[req'[s].key] # None
                  /\ req'[s].at # "look" => row'[req'[s].key].body = req'[s].body
            /\ req'[s].at = "record" =>
                  /\ req'[s].booking # 0 /\ req'[s].booking \in Made'
                  /\ bookings'[req'[s].booking].key = req'[s].key
                  /\ bookings'[req'[s].booking].body = req'[s].body
    <3>1. req'[s] = req[s]
      BY <1>7
    <3>2. req[s] # Idle
      BY <2>1, <3>1
    <3>3. /\ req[s].key \notin pruned =>
                  /\ row[req[s].key] # None
                  /\ req[s].at # "look" => row[req[s].key].body = req[s].body
          /\ req[s].at = "record" =>
                  /\ req[s].booking # 0 /\ req[s].booking \in Made
                  /\ bookings[req[s].booking].key = req[s].key
                  /\ bookings[req[s].booking].body = req[s].body
      BY <3>2 DEF IndInv, RequestInv
    <3>4. row' = row /\ pruned' = pruned
      BY <1>1
    <3> QED
      BY <1>4, <3>1, <3>3, <3>4
  <2>2. next.key \notin pruned => row[next.key] # None /\ row[next.key].body = next.body
    <3>1. req[r] # Idle /\ req[r].at # "look" /\ k = req[r].key
      BY <1>1
    <3>2. k \notin pruned => row[k] # None /\ row[k].body = req[r].body
      BY <3>1 DEF IndInv, RequestInv
    <3> QED
      BY <1>5, <3>2
  <2>3. next.at = "record" => /\ next.booking # 0 /\ next.booking \in Made'
                              /\ bookings'[next.booking].key = next.key
                              /\ bookings'[next.booking].body = next.body
    BY <1>3, <1>4, <1>5
  <2> QED
    BY <1>1, <1>7, <2>1, <2>2, <2>3 DEF RequestInv
<1>12. Working(r, k)
  BY <1>1 DEF Working
<1>13. MadeFor(k)' = MadeFor(k) \cup {n} /\ \A j \in Keys \ {k} : MadeFor(j)' = MadeFor(j)
  BY <1>3, <1>4 DEF MadeFor
<1>14. k \in Fresh => MadeFor(k) = {} /\ row[k] # None
  BY <1>1, <1>2, <1>12 DEF IndInv, OnceInv, RequestInv, Fresh
<1>15. \A s \in Requests, j \in Keys : Working(s, j)' => Working(s, j) /\ s # r
  BY <1>5, <1>7 DEF Working
<1>16. OnceInv'
  <2>1. Fresh' = Fresh
    BY <1>1 DEF Fresh
  <2>2. \A s \in Requests : k \in Fresh => ~Working(s, k)'
    BY <1>2, <1>12, <1>15 DEF IndInv, OnceInv
  <2> QED
    BY <1>1, <1>13, <1>14, <1>15, <2>1, <2>2 DEF IndInv, OnceInv, Fresh
<1>17. DoneOnce'
  <2> SUFFICES ASSUME NEW b \in Made', NEW c \in Made', b # c,
                      bookings'[b].key = bookings'[c].key
               PROVE  bookings'[b].key \in retried \cup pruned
    BY <1>1 DEF DoneOnce
  <2>1. \A d \in Made : bookings'[d].key = bookings[d].key
    BY <1>4
  <2>2. \A d \in Made : bookings[d].key = k => k \in retried \cup pruned
    BY <1>14 DEF MadeFor, Fresh
  <2>3. b \in Made \cup {n} /\ c \in Made \cup {n} /\ bookings'[n].key = k
    BY <1>3, <1>4
  <2>4. CASE b \in Made /\ c \in Made
    BY <2>1, <2>4 DEF IndInv, DoneOnce
  <2>5. CASE b = n \/ c = n
    BY <2>1, <2>2, <2>3, <2>5
  <2> QED
    BY <2>3, <2>4, <2>5
<1> QED
  BY <1>8, <1>9, <1>10, <1>11, <1>16, <1>17 DEF IndInv

(* A cancellation gives one use back, or none.                             *)
LEMMA CancelKeeps ==
    ASSUME IndInv, NEW b \in Made, Cancel(b)
    PROVE  IndInv'
<1> DEFINE e == [bookings[b] EXCEPT !.status = "CANCELLED"]
<1>1. /\ bookings' = [bookings EXCEPT ![b] = e]
      /\ redeemed' = redeemed \ {b}
      /\ used' = IF b \in redeemed THEN used - 1 ELSE used
      /\ UNCHANGED <<row, req, retried, pruned, losses>>
  BY DEF Cancel, UseFreed
<1>2. TypeOK /\ bookings \in Seq(Booking) /\ b \in 1 .. Len(bookings) /\ Len(bookings) \in Nat
  BY DEF IndInv, TypeOK, Booking, Made
<1>3. bookings[b] \in Booking
  BY <1>2
<1>4. e \in Booking /\ e.key = bookings[b].key /\ e.body = bookings[b].body
  BY <1>3 DEF Booking
<1> HIDE DEF e
<1>5. /\ bookings' \in Seq(Booking) /\ Len(bookings') = Len(bookings)
      /\ bookings'[b] = e /\ \A c \in 1 .. Len(bookings) : c # b => bookings'[c] = bookings[c]
  BY <1>1, <1>2, <1>4
<1>6. /\ Made' = Made
      /\ \A c \in Made : bookings'[c].key = bookings[c].key /\ bookings'[c].body = bookings[c].body
      /\ \A c \in Made \ {b} : bookings'[c] = bookings[c]
  BY <1>4, <1>5 DEF Made
<1>7. /\ b \in redeemed => used' = used - 1 /\ Cardinality(redeemed') = Cardinality(redeemed) - 1
      /\ b \notin redeemed => used' = used /\ redeemed' = redeemed
  BY <1>1, <1>2, RedeemedFinite, FS_RemoveElement
<1>8. Cardinality(redeemed) \in Nat /\ Cardinality(redeemed') \in Nat
  <2>1. IsFiniteSet(redeemed) /\ IsFiniteSet(redeemed')
    BY <1>1, <1>2, RedeemedFinite, FS_Subset
  <2> QED
    BY <2>1, FS_CardinalityType
<1>9. used' = Cardinality(redeemed')
  BY <1>7, <1>8 DEF IndInv, UsesCounted
<1>10. TypeOK'
  BY <1>1, <1>2, <1>5, <1>6, <1>8, <1>9 DEF TypeOK, Booking
<1>11. UsesCounted'
  <2>1. \A c \in redeemed' : c \in redeemed /\ c \in Made \ {b}
    BY <1>1, <1>2 DEF TypeOK
  <2>2. \A c \in redeemed : bookings[c].status = "OPEN"
    BY DEF IndInv, UsesCounted
  <2>3. \A c \in redeemed' : bookings'[c].status = "OPEN"
    BY <1>6, <2>1, <2>2
  <2> QED
    BY <1>9, <2>3 DEF UsesCounted
<1>12. AnswerInv' /\ RequestInv'
  BY <1>1, <1>6 DEF IndInv, AnswerInv, RequestInv
<1>13. OnceInv' /\ DoneOnce'
  BY <1>1, <1>6 DEF IndInv, OnceInv, DoneOnce, Fresh, MadeFor, Working
<1> QED
  BY <1>10, <1>11, <1>12, <1>13 DEF IndInv

(* The strengthened invariant holds in every reachable state.              *)
THEOREM Inductive == Spec => []IndInv
<1>1. IndInv /\ [Next]_vars => IndInv'
  <2> SUFFICES ASSUME IndInv, [Next]_vars PROVE IndInv'
    OBVIOUS
  <2>1. CASE UNCHANGED vars
    BY <2>1 DEF vars, IndInv, TypeOK, AnswerInv, RequestInv, OnceInv, DoneOnce, UsesCounted,
                Made, MadeFor, Fresh, Working
  <2>2. ASSUME NEW r \in Requests, Handle(r) \/ Lose(r) PROVE IndInv'
    <3>1. Create(r) => req[r].key \in Keys
      BY NotIdle, RequestTyped DEF Create, IndInv
    <3> QED
      BY <2>2, <3>1, ReadsKeep, ReopenKeeps, NoteKeeps, CreateKeeps DEF Handle
  <2>3. ASSUME NEW r \in Requests, NEW s \in Sends, Claim(r, s[1], s[2]) PROVE IndInv'
    <3>1. s[1] \in Keys /\ s[2] \in Bodies
      BY BookingCreationAssumption
    <3> QED
      BY <2>3, <3>1, ClaimKeeps
  <2>4. ASSUME NEW k \in Keys, Age(k) \/ Prune(k) PROVE IndInv'
    BY <2>4, AgeKeeps, PruneKeeps
  <2>5. ASSUME NEW b \in Made, Cancel(b) PROVE IndInv'
    BY <2>5, CancelKeeps
  <2> QED
    BY <2>1, <2>2, <2>3, <2>4, <2>5 DEF Next
<1> QED
  BY <1>1, Initially, PTL DEF Spec

(* Type correctness; in particular used_count never falls below zero,      *)
(* although its decrement has no floor.                                    *)
THEOREM Typed == Spec => []TypeOK
<1>1. IndInv => TypeOK
  BY DEF IndInv
<1> QED
  BY <1>1, Inductive, PTL

(* The claim before the work: a key not claimed again makes one booking.   *)
THEOREM OneBookingPerKey == Spec => []DoneOnce
<1>1. IndInv => DoneOnce
  BY DEF IndInv
<1> QED
  BY <1>1, Inductive, PTL

(* The counter of a code and its redemptions agree.                        *)
THEOREM UsesAreCounted == Spec => []UsesCounted
<1>1. IndInv => UsesCounted
  BY DEF IndInv
<1> QED
  BY <1>1, Inductive, PTL

(* A replay tells the truth about the request it answers.                  *)
THEOREM ReplaysTellTheTruth == Spec => ReplayTruth
<1> DEFINE True == \A r \in Requests : Replay(r) =>
                      LET k == req[r].key
                          b == row[k].reply
                      IN  b \in Made /\ bookings[b].key = k
                                    /\ (k \notin pruned => bookings[b].body = req[r].body)
<1>1. IndInv => True
  <2> SUFFICES ASSUME IndInv, NEW r \in Requests, Replay(r)
               PROVE  LET k == req[r].key
                          b == row[k].reply
                      IN  b \in Made /\ bookings[b].key = k
                                    /\ (k \notin pruned => bookings[b].body = req[r].body)
    OBVIOUS
  <2>1. req[r] # Idle /\ row[req[r].key] # None /\ row[req[r].key].status = "COMPLETED"
        /\ row[req[r].key].body = req[r].body
    BY NotIdle DEF Replay, SameRequest
  <2>2. req[r].key \in Keys
    BY <2>1, RequestTyped DEF IndInv
  <2> QED
    BY <2>1, <2>2 DEF IndInv, AnswerInv
<1>2. IndInv => [True]_vars
  BY <1>1
<1>3. [][True]_vars => ReplayTruth
  BY PTL DEF ReplayTruth
<1> QED
  BY <1>2, <1>3, Inductive, PTL
-----------------------------------------------------------------------------
(***************************************************************************)
(* Rate cards.                                                             *)
(***************************************************************************)

(* Rows of the table start at known times, so that some row of any of them *)
(* is the newest.                                                          *)
LEMMA NewestExists ==
    ASSUME NEW S \in SUBSET RateCard, S # {}
    PROVE  Newest(S) \in S /\ \A d \in S : d.from <= Newest(S).from
<1> DEFINE From == { c.from : c \in S }
           After(x) == { y \in From : x <= y }
           Tails == { After(x) : x \in From }
<1>1. IsFiniteSet(0 .. MaxNow) /\ From \subseteq 0 .. MaxNow
  BY FS_Interval, RateCardsAssumption DEF RateCard
<1>2. Tails \in SUBSET SUBSET (0 .. MaxNow) /\ Tails # {}
  BY <1>1
<1>3. PICK s \in Tails : \A t \in Tails : t \subseteq s => t = s
  <2> DEFINE All == 0 .. MaxNow
  <2>1. IsFiniteSet(All) /\ Tails \in SUBSET SUBSET All /\ Tails # {}
    BY <1>1, <1>2
  <2> HIDE DEF Tails, All
  <2> QED
    BY <2>1, MinimalSubset
<1>4. PICK c \in S : s = After(c.from)
  BY <1>3
<1>5. \A d \in S : d.from <= c.from
  <2> SUFFICES ASSUME NEW d \in S, ~ (d.from <= c.from) PROVE FALSE
    OBVIOUS
  <2>1. c.from \in Int /\ d.from \in Int /\ c.from < d.from
    BY <1>1
  <2>2. After(d.from) \subseteq s
    <3>1. ASSUME NEW y \in From, d.from <= y PROVE c.from <= y
      <4>1. y \in Int
        BY <1>1
      <4> QED
        BY <2>1, <3>1, <4>1
    <3> QED
      BY <1>4, <3>1
  <2>3. After(d.from) = s
    BY <1>3, <2>2
  <2>4. c.from \in s /\ c.from \notin After(d.from)
    BY <1>4, <2>1
  <2> QED
    BY <2>3, <2>4
<1> QED
  BY <1>5 DEF Newest

ReaderOK(r) ==
    /\ r.at \in {"idle", "waiting", "loading", "storing"}
    /\ r.at = "waiting" => r \in [at : {"waiting"}, key : CachedKeys]

AdminOK(w) ==
    /\ w.at \in {"idle", "invalidate", "deactivate", "destroy", "hide", "erase"}
    /\ w.at = "invalidate" => w \in [at : {"invalidate"}, keys : SUBSET CachedKeys]
    /\ w.at \in {"deactivate", "destroy"} => w.id \in CardIds

(* The rows of the table, and what a reader and an edit under way hold.    *)
CardsInv ==
    /\ IsCardTable(cards) /\ DOMAIN classes = Classes
    /\ now \in 0 .. MaxNow /\ edits \in 0 .. MaxEdits
    /\ lock \in [CachedKeys -> Readers \cup {NoEntry}]
    /\ readers = [p \in Readers |-> readers[p]]
    /\ \A p \in Readers : ReaderOK(readers[p])
    /\ admins = [a \in Admins |-> admins[a]]
    /\ \A a \in Admins : AdminOK(admins[a])

(* The cards in force that price a city for a class and a type.            *)
Pricing(rows, time, city, class, type) ==
    { c \in Live(rows, time) : c.class = class /\ c.type = type
                               /\ c.scope \in {city, City[city].state} }

LEMMA CardsAreRows == ASSUME IsCardTable(cards) PROVE Cards \subseteq RateCard
BY DEF IsCardTable, Cards

(* findActiveFareConfig finds a card just when one prices the city, and    *)
(* what it finds is one that does.                                         *)
LEMMA FindsWhatPrices ==
    ASSUME NEW rows \in SUBSET RateCard, NEW time, NEW city, NEW class, NEW type
    PROVE  LET card == FindActiveCard(rows, city, class, type, time)
           IN  /\ card # NoCard <=> Pricing(rows, time, city, class, type) # {}
               /\ card # NoCard => card \in Pricing(rows, time, city, class, type)
<1> DEFINE Of(scope) == { c \in Live(rows, time) :
                             c.class = class /\ c.type = type /\ c.scope = scope }
<1>1. \A c \in rows : c # NoCard
  BY RateCardsAssumption DEF RateCard, NoCard
<1>2. \A scope : Of(scope) \in SUBSET rows
  BY DEF Live
<1>3. ASSUME NEW scope
      PROVE  IF Of(scope) = {} THEN Newest(Of(scope)) = NoCard
             ELSE Newest(Of(scope)) \in Of(scope) /\ Newest(Of(scope)) # NoCard
  <2>1. CASE Of(scope) = {}
    BY <2>1 DEF Newest
  <2>2. CASE Of(scope) # {}
    <3>1. Newest(Of(scope)) \in Of(scope)
      <4> HIDE DEF Of
      <4> QED
        BY <1>2, <2>2, NewestExists
    <3> QED
      BY <1>1, <1>2, <2>2, <3>1
  <2> QED
    BY <2>1, <2>2
<1>4. FindActiveCard(rows, city, class, type, time) =
        IF Newest(Of(city)) # NoCard THEN Newest(Of(city)) ELSE Newest(Of(City[city].state))
  BY DEF FindActiveCard
<1>5. Pricing(rows, time, city, class, type) = Of(city) \cup Of(City[city].state)
  BY DEF Pricing
<1> HIDE DEF Of
<1> QED
  BY <1>3, <1>4, <1>5
(* The card that prices a city is one that staff are shown for the city    *)
(* and for its state.                                                      *)
LEMMA ShownWhatPrices == CardsInv => PricingIsShown
<1> SUFFICES ASSUME CardsInv, NEW city \in Cities, NEW class \in Classes, NEW type \in Types,
                    NEW card, card = FindActiveCard(Cards, city, class, type, now),
                    card # NoCard
             PROVE  card \in CardsShown(Cards, city) \cap CardsShown(Cards, City[city].state)
  BY DEF PricingIsShown
<1>1. card \in Pricing(Cards, now, city, class, type)
  BY CardsAreRows, FindsWhatPrices DEF CardsInv
<1>2. City[city].state \notin Cities /\ city \in CitiesInState(City[city].state)
  BY RateCardsAssumption DEF CitiesInState
<1> QED
  BY <1>1, <1>2 DEF Pricing, Live, CardsShown

(* One edit leaves the rows as the unique key wants them.                  *)
LEMMA WritesKeepTable ==
    ASSUME IsCardTable(cards), NEW a, NEW id \in CardIds, NEW card \in RateCard \cup {NoEntry},
           WriteCard(a, id, card)
    PROVE  IsCardTable(cards')
<1>1. cards' = [cards EXCEPT ![id] = card] /\ (card # NoEntry => ~Clashes(id, card))
  BY DEF WriteCard
<1>2. cards' \in [CardIds -> RateCard \cup {NoEntry}]
  BY <1>1 DEF IsCardTable
<1>3. ASSUME NEW i \in CardIds, NEW j \in CardIds, i # j, cards'[i] # NoEntry, cards'[j] # NoEntry
      PROVE  \E column \in {"scope", "class", "type", "from"} : cards'[i][column] # cards'[j][column]
  <2>1. CASE i # id /\ j # id
    BY <1>1, <1>3, <2>1 DEF IsCardTable
  <2>2. CASE i = id
    <3>1. cards'[i] = card /\ cards'[j] = cards[j]
      BY <1>1, <1>3, <2>2 DEF IsCardTable
    <3> QED
      BY <1>1, <1>3, <2>2, <3>1 DEF Clashes
  <2>3. CASE j = id
    <3>1. cards'[j] = card /\ cards'[i] = cards[i]
      BY <1>1, <1>3, <2>3 DEF IsCardTable
    <3> QED
      BY <1>1, <1>3, <2>3, <3>1 DEF Clashes
  <2> QED
    BY <2>1, <2>2, <2>3
<1> QED
  BY <1>2, <1>3 DEF IsCardTable

(* What is written of the cards is a row.                                  *)
LEMMA EditsWriteRows ==
    ASSUME CardsInv, NEW a \in Admins, NEW id \in CardIds,
           \/ CreateCard(a) \/ Deactivate(a) \/ Destroy(a)
           \/ Clone(a, id) \/ Update(a, id) \/ Activate(a, id) \/ ForceDestroy(a, id)
    PROVE  \E i \in CardIds, card \in RateCard \cup {NoEntry} : WriteCard(a, i, card)
<1>1. cards \in [CardIds -> RateCard \cup {NoEntry}] /\ now \in 0 .. MaxNow /\ MaxNow \in Nat
  BY RateCardsAssumption DEF CardsInv, IsCardTable
<1>2. CASE CreateCard(a)
  <2>1. {now, MaxNow} \subseteq 0 .. MaxNow
    BY <1>1
  <2> QED
    BY <1>2, <2>1 DEF CreateCard, RateCard
<1>3. CASE Clone(a, id)
  <2>1. cards[id] \in RateCard
    BY <1>1, <1>3 DEF Clone
  <2>2. \A scope \in Scopes :
            [cards[id] EXCEPT !.scope = scope, !.from = now, !.active = TRUE] \in RateCard
    BY <1>1, <2>1 DEF RateCard
  <2> QED
    BY <1>3, <2>2 DEF Clone
<1>4. CASE Update(a, id)
  <2>1. cards[id] \in RateCard
    BY <1>1, <1>4 DEF Update
  <2>2. {cards[id].from, MaxNow} \subseteq 0 .. MaxNow
    BY <1>1, <2>1 DEF RateCard
  <2>3. \A from \in {cards[id].from, MaxNow}, active \in BOOLEAN, tariff \in Tariffs :
            [cards[id] EXCEPT !.from = from, !.active = active, !.tariff = tariff] \in RateCard
    BY <2>1, <2>2 DEF RateCard
  <2> QED
    BY <1>4, <2>3 DEF Update
<1>5. CASE Activate(a, id)
  <2>1. cards[id] \in RateCard
    BY <1>1, <1>5 DEF Activate
  <2>2. [cards[id] EXCEPT !.active = TRUE] \in RateCard
    BY <2>1 DEF RateCard
  <2> QED
    BY <1>5, <2>2 DEF Activate
<1>6. CASE Deactivate(a)
  <2>1. admins[a].id \in CardIds /\ cards[admins[a].id] \in RateCard
    BY <1>1, <1>6 DEF Deactivate, CardsInv, AdminOK
  <2>2. [cards[admins[a].id] EXCEPT !.active = FALSE] \in RateCard
    BY <2>1 DEF RateCard
  <2> QED
    BY <1>6, <2>1, <2>2 DEF Deactivate
<1>7. CASE Destroy(a)
  BY <1>7 DEF Destroy, CardsInv, AdminOK
<1>8. CASE ForceDestroy(a, id)
  BY <1>8 DEF ForceDestroy
<1> QED
  BY <1>2, <1>3, <1>4, <1>5, <1>6, <1>7, <1>8
LEMMA TablesOpen == CardsInit => CardsInv
BY RateCardsAssumption DEF CardsInit, CardsInv, Resting, ReaderOK, AdminOK

(* A reader's step touches nothing but its own call and the cache.         *)
LEMMA ReadersKeep ==
    ASSUME CardsInv, NEW p \in Readers,
           \/ \E k \in CachedKeys : Miss(p, k)
           \/ WaitEnds(p) \/ Load(p) \/ Store(p) \/ ReaderDies(p)
    PROVE  CardsInv' /\ UNCHANGED <<tables, now, admins, edits>>
<1>1. UNCHANGED <<tables, now, admins, edits>>
  BY DEF Miss, WaitEnds, Load, Store, ReaderDies
<1>2. PICK r : Read(p, r) /\ ReaderOK(r)
  <2>1. CASE \E k \in CachedKeys : Miss(p, k)
    BY <2>1 DEF Miss, ReaderOK
  <2>2. CASE WaitEnds(p)
    <3>1. readers[p] \in [at : {"waiting"}, key : CachedKeys]
      BY <2>2 DEF WaitEnds, CardsInv, ReaderOK
    <3> QED
      BY <2>2, <3>1 DEF WaitEnds, ReaderOK, Resting
  <2>3. CASE Load(p) \/ Store(p) \/ ReaderDies(p)
    BY <2>3 DEF Load, Store, ReaderDies, ReaderOK, Resting
  <2> QED
    BY <2>1, <2>2, <2>3
<1>3. lock' \in [CachedKeys -> Readers \cup {NoEntry}]
  BY DEF CardsInv, Miss, WaitEnds, Load, Store, ReaderDies
<1>4. /\ readers' = [q \in Readers |-> readers'[q]]
      /\ \A q \in Readers : ReaderOK(readers'[q])
  BY <1>2 DEF CardsInv, Read
<1> QED
  BY <1>1, <1>3, <1>4 DEF CardsInv, IsCardTable, tables

(* Nor does time, or Redis, touch the tables.                              *)
LEMMA WorldKeeps ==
    ASSUME CardsInv, (\E k \in CachedKeys : Expire(k) \/ LockExpires(k)) \/ Redis \/ Tick
    PROVE  CardsInv' /\ UNCHANGED <<tables, admins>> /\ now' >= now
<1>1. UNCHANGED <<tables, admins, readers, edits>>
  BY DEF Expire, LockExpires, Redis, Tick
<1>2. now' \in 0 .. MaxNow /\ now' >= now
  BY RateCardsAssumption DEF CardsInv, Expire, LockExpires, Redis, Tick
<1>3. lock' \in [CachedKeys -> Readers \cup {NoEntry}]
  BY DEF CardsInv, Expire, LockExpires, Redis, Tick
<1> QED
  BY <1>1, <1>2, <1>3 DEF CardsInv, IsCardTable, tables

(* What an edit leaves of itself.                                          *)
LEMMA EditEnds ==
    ASSUME CardsInv, NEW a \in Admins, NEW keys, Edited(a, keys), IsCardTable(cards'),
           DOMAIN classes' = Classes
    PROVE  CardsInv' /\ admins'[a].at = "invalidate"
<1>1. edits' \in 0 .. MaxEdits
  BY RateCardsAssumption DEF CardsInv, Edited
<1>2. \A b \in Admins : b # a => admins'[b] = admins[b]
  BY DEF CardsInv, Edited, Admin
<1>3. admins' = [b \in Admins |-> admins'[b]] /\ admins'[a].at = "invalidate" /\ AdminOK(admins'[a])
  BY DEF CardsInv, Edited, Admin, AdminOK
<1>4. UNCHANGED <<now, lock, readers>>
  BY DEF Edited
<1> QED
  BY <1>1, <1>2, <1>3, <1>4 DEF CardsInv

(* An edit of a card, of a class or of the switch.                         *)
LEMMA EditsKeep ==
    ASSUME CardsInv, NEW a \in Admins,
           \/ \E i \in CardIds, card \in RateCard \cup {NoEntry} : WriteCard(a, i, card)
           \/ \E class, entry : WriteClass(a, class, entry)
           \/ SetAllBookingEnabled(a)
    PROVE  CardsInv' /\ admins'[a].at = "invalidate"
<1>1. IsCardTable(cards)
  BY DEF CardsInv
<1>2. CASE \E i \in CardIds, card \in RateCard \cup {NoEntry} : WriteCard(a, i, card)
  <2>1. PICK i \in CardIds, card \in RateCard \cup {NoEntry} : WriteCard(a, i, card)
    BY <1>2
  <2>2. IsCardTable(cards')
    BY <1>1, <2>1, WritesKeepTable
  <2>3. (\E keys : Edited(a, keys)) /\ DOMAIN classes' = Classes
    BY <2>1 DEF WriteCard, CardsInv
  <2> QED
    BY <2>2, <2>3, EditEnds
<1>3. CASE (\E class, entry : WriteClass(a, class, entry)) \/ SetAllBookingEnabled(a)
  <2>1. IsCardTable(cards') /\ DOMAIN classes' = Classes /\ \E keys : Edited(a, keys)
    BY <1>1, <1>3 DEF WriteClass, SetAllBookingEnabled, CardsInv
  <2> QED
    BY <2>1, EditEnds
<1> QED
  BY <1>2, <1>3

(* The steps of an edit that write no table.                               *)
LEMMA ChecksKeep ==
    ASSUME CardsInv, NEW a \in Admins,
           \/ Invalidate(a) \/ AdminDies(a)
           \/ \E id \in CardIds, op \in {"deactivate", "destroy"} : CheckRemoval(a, id, op)
           \/ \E c \in Classes : CheckClass(a, c) \/ CheckDestroyClass(a, c)
    PROVE  /\ CardsInv' /\ UNCHANGED <<tables, now>>
           /\ \A b \in Admins : b # a => admins'[b] = admins[b]
<1>1. UNCHANGED <<tables, now, lock, readers, edits>>
  BY DEF Invalidate, AdminDies, CheckRemoval, CheckClass, CheckDestroyClass
<1>2. PICK w : Admin(a, w) /\ AdminOK(w)
  <2>1. CASE Invalidate(a)
    <3>1. admins[a] \in [at : {"invalidate"}, keys : SUBSET CachedKeys]
      BY <2>1 DEF Invalidate, CardsInv, AdminOK
    <3>2. CASE admins[a].keys = {}
      BY <2>1, <3>2 DEF Invalidate, Resting, AdminOK
    <3>3. CASE admins[a].keys # {}
      <4>1. PICK k : Admin(a, [admins[a] EXCEPT !.keys = @ \ {k}])
        BY <2>1, <3>3 DEF Invalidate
      <4>2. [admins[a] EXCEPT !.keys = @ \ {k}] \in [at : {"invalidate"}, keys : SUBSET CachedKeys]
        BY <3>1
      <4>3. AdminOK([admins[a] EXCEPT !.keys = @ \ {k}])
        BY <4>2 DEF AdminOK
      <4> QED
        BY <4>1, <4>3
    <3> QED
      BY <3>2, <3>3
  <2>2. CASE AdminDies(a)
    BY <2>2 DEF AdminDies, Resting, AdminOK
  <2>3. CASE \E id \in CardIds, op \in {"deactivate", "destroy"} : CheckRemoval(a, id, op)
    BY <2>3 DEF CheckRemoval, AdminOK
  <2>4. CASE \E c \in Classes : CheckClass(a, c) \/ CheckDestroyClass(a, c)
    BY <2>4 DEF CheckClass, CheckDestroyClass, AdminOK
  <2> QED
    BY <2>1, <2>2, <2>3, <2>4
<1>3. /\ admins' = [b \in Admins |-> admins'[b]] /\ admins'[a] = w
      /\ \A b \in Admins : b # a => admins'[b] = admins[b]
  BY <1>2 DEF CardsInv, Admin
<1> QED
  BY <1>1, <1>2, <1>3 DEF CardsInv, IsCardTable, tables
LEMMA CardsStay == CardsInv /\ [CardsNext]_cardVars => CardsInv'
<1>1. CASE UNCHANGED cardVars
  BY <1>1 DEF CardsInv, IsCardTable, cardVars
<1>2. CASE CardsNext
  <2>1. ASSUME CardsInv, NEW p \in Readers,
               \/ \E k \in CachedKeys : Miss(p, k)
               \/ WaitEnds(p) \/ Load(p) \/ Store(p) \/ ReaderDies(p)
        PROVE  CardsInv'
    BY <2>1, ReadersKeep
  <2>2. ASSUME CardsInv, (\E k \in CachedKeys : Expire(k) \/ LockExpires(k)) \/ Redis \/ Tick
        PROVE  CardsInv'
    BY <2>2, WorldKeeps
  <2>3. ASSUME CardsInv, NEW a \in Admins, NEW id \in CardIds,
               \/ CreateCard(a) \/ Deactivate(a) \/ Destroy(a)
               \/ Clone(a, id) \/ Update(a, id) \/ Activate(a, id) \/ ForceDestroy(a, id)
        PROVE  CardsInv'
    BY <2>3, EditsWriteRows, EditsKeep
  <2>4. ASSUME CardsInv, NEW a \in Admins, CreateCard(a) \/ Deactivate(a) \/ Destroy(a)
        PROVE  CardsInv'
    <3>1. CardIds # {}
      BY <2>4 DEF CreateCard, Deactivate, Destroy, CardsInv, AdminOK
    <3> QED
      BY <2>3, <2>4, <3>1
  <2>5. ASSUME CardsInv, NEW a \in Admins, NEW c \in Classes,
               \/ UpdateClass(a, c) \/ SetBookingEnabled(a, c) \/ ActivateClass(a, c)
               \/ CreateClass(a, c)
        PROVE  CardsInv'
    <3>1. \E class, entry : WriteClass(a, class, entry)
      BY <2>5 DEF UpdateClass, SetBookingEnabled, ActivateClass, CreateClass
    <3> QED
      BY <2>5, <3>1, EditsKeep
  <2>6. ASSUME CardsInv, NEW a \in Admins, DeactivateClass(a) \/ DestroyClass(a)
        PROVE  CardsInv'
    <3>1. \E class, entry : WriteClass(a, class, entry)
      BY <2>6 DEF DeactivateClass, DestroyClass
    <3> QED
      BY <2>6, <3>1, EditsKeep
  <2>7. ASSUME CardsInv, NEW a \in Admins, SetAllBookingEnabled(a)
        PROVE  CardsInv'
    BY <2>7, EditsKeep
  <2>8. ASSUME CardsInv, NEW a \in Admins,
               \/ Invalidate(a) \/ AdminDies(a)
               \/ \E id \in CardIds, op \in {"deactivate", "destroy"} : CheckRemoval(a, id, op)
               \/ \E c \in Classes : CheckClass(a, c) \/ CheckDestroyClass(a, c)
        PROVE  CardsInv'
    BY <2>8, ChecksKeep
  <2> QED
    BY <1>2, <2>1, <2>2, <2>3, <2>4, <2>5, <2>6, <2>7, <2>8 DEF CardsNext, Removal
<1> QED
  BY <1>1, <1>2

LEMMA CardsHaveTypes == CardsInv => CardsTypeOK
BY RateCardsAssumption DEF CardsInv, CardsTypeOK, IsCardTable, RateCard, Clashes, AdminOK, ReaderOK

(* The rows of the rate cards stay rows of the table, none of one scope,   *)
(* class, type and start with another, and locks and edits what they are,  *)
(* for any number of cards, readers and edits (fareConfig.service, cache). *)
THEOREM CardsAreInvariant == CardsSpec => []CardsInv
BY TablesOpen, CardsStay, PTL DEF CardsSpec

(* The rate-card screen never hides from staff the card that prices a city *)
(* (fareConfig.list, fareLookup), for any tables.                          *)
THEOREM PricingStaysShown == CardsSpec => []PricingIsShown
BY ShownWhatPrices, CardsAreInvariant, PTL
-----------------------------------------------------------------------------
(* A check of a removal that is still to be acted on still holds.          *)

(* No city would be left without a price if the card of this id went.      *)
Spare(id) == cards[id].active => UnpricedIfRemoved(cards[id]) = {}

ChecksHold ==
    \A a \in Admins : admins[a].at \in {"deactivate", "destroy"} => Spare(admins[a].id)

(* Time only brings more cards into force.                                 *)
LEMMA TimeBringsCards ==
    ASSUME CardsInv, CardsInv', UNCHANGED cards, now' >= now, NEW id \in CardIds, Spare(id)
    PROVE  Spare(id)'
<1>1. Cards' = Cards
  BY DEF Cards
<1>2. Live(Cards, now) \subseteq Live(Cards', now')
  <2> SUFFICES ASSUME NEW c \in Live(Cards, now) PROVE c.active /\ c.from <= now'
    BY <1>1 DEF Live
  <2>1. c.from \in Int /\ now \in Int /\ now' \in Int
    BY CardsAreRows DEF Live, RateCard, CardsInv
  <2> QED
    BY <2>1 DEF Live
<1>3. CitiesOf(cards[id])' = CitiesOf(cards[id])
  BY DEF CitiesOf
<1>4. UnpricedIfRemoved(cards[id])' \subseteq UnpricedIfRemoved(cards[id])
  BY <1>2, <1>3 DEF UnpricedIfRemoved, CoveredBy
<1> QED
  BY <1>4 DEF Spare

(* With one edit at a time, nothing but time passes between the check of a *)
(* removal and the removal.                                                *)
LEMMA ChecksStayTrue ==
    ASSUME NEW a \in Admins, Admins = {a}, CardsInv, CardsInv', ChecksHold, [CardsNext]_cardVars
    PROVE  ChecksHold'
<1> SUFFICES ASSUME admins'[a].at \in {"deactivate", "destroy"} PROVE Spare(admins[a].id)'
  BY DEF ChecksHold
<1>1. CASE /\ UNCHANGED <<cards, admins>> /\ now' >= now
  <2>1. admins[a].id \in CardIds /\ Spare(admins[a].id) /\ admins'[a] = admins[a]
    BY <1>1 DEF ChecksHold, CardsInv, AdminOK
  <2> QED
    BY <1>1, <2>1, TimeBringsCards
<1>2. now \in Int
  BY DEF CardsInv
<1>3. CASE UNCHANGED cardVars
  BY <1>1, <1>2, <1>3 DEF cardVars
<1>4. ASSUME NEW p \in Readers,
             \/ \E k \in CachedKeys : Miss(p, k)
             \/ WaitEnds(p) \/ Load(p) \/ Store(p) \/ ReaderDies(p)
      PROVE  Spare(admins[a].id)'
  BY <1>1, <1>2, <1>4, ReadersKeep DEF tables
<1>5. CASE (\E k \in CachedKeys : Expire(k) \/ LockExpires(k)) \/ Redis \/ Tick
  BY <1>1, <1>5, WorldKeeps DEF tables
<1>6. ASSUME NEW id \in CardIds, NEW op \in {"deactivate", "destroy"}, CheckRemoval(a, id, op)
      PROVE  Spare(admins[a].id)'
  <2>1. admins'[a].id = id
    BY <1>6 DEF CheckRemoval, Admin, CardsInv
  <2>2. UNCHANGED <<cards, now>> /\ Spare(id)
    BY <1>6 DEF CheckRemoval, Spare, tables
  <2>3. Spare(id)'
    BY <2>2, <1>2, TimeBringsCards
  <2> QED
    BY <2>1, <2>3
<1>7. ASSUME \/ \E i \in CardIds, card \in RateCard \cup {NoEntry} : WriteCard(a, i, card)
             \/ \E class, entry : WriteClass(a, class, entry)
             \/ SetAllBookingEnabled(a)
      PROVE  FALSE
  BY <1>7, EditsKeep
<1>8. ASSUME NEW id \in CardIds,
             \/ CreateCard(a) \/ Deactivate(a) \/ Destroy(a)
             \/ Clone(a, id) \/ Update(a, id) \/ Activate(a, id) \/ ForceDestroy(a, id)
      PROVE  FALSE
  BY <1>7, <1>8, EditsWriteRows
<1>9. ASSUME CreateCard(a) \/ Deactivate(a) \/ Destroy(a) PROVE FALSE
  <2>1. CardIds # {}
    BY <1>9 DEF CreateCard, Deactivate, Destroy, CardsInv, AdminOK
  <2> QED
    BY <1>8, <1>9, <2>1
<1>10. ASSUME NEW c \in Classes,
              \/ UpdateClass(a, c) \/ SetBookingEnabled(a, c) \/ ActivateClass(a, c)
              \/ CreateClass(a, c)
       PROVE  FALSE
  BY <1>7, <1>10 DEF UpdateClass, SetBookingEnabled, ActivateClass, CreateClass
<1>11. ASSUME DeactivateClass(a) \/ DestroyClass(a) \/ SetAllBookingEnabled(a) PROVE FALSE
  BY <1>7, <1>11 DEF DeactivateClass, DestroyClass
<1>12. ASSUME \/ Invalidate(a) \/ AdminDies(a)
              \/ \E c \in Classes : CheckClass(a, c) \/ CheckDestroyClass(a, c)
       PROVE  FALSE
  BY <1>12 DEF Invalidate, AdminDies, CheckClass, CheckDestroyClass, Admin, Resting, CardsInv,
               AdminOK
<1> QED
  BY <1>3, <1>4, <1>5, <1>6, <1>7, <1>8, <1>9, <1>10, <1>11, <1>12 DEF CardsNext, Removal

(* What prices a city without a card prices it when the card is gone.      *)
LEMMA RemovalLeavesPriced ==
    ASSUME CardsInv, CardsInv', UNCHANGED now, NEW id \in CardIds, cards[id] # NoEntry, Spare(id),
           \A i \in CardIds \ {id} : cards'[i] = cards[i],
           NEW class, NEW type, NEW city \in Priceables(class, type)
    PROVE  city \in Priceables(class, type)'
<1> DEFINE card == cards[id]
<1>1. Cards \subseteq RateCard /\ Cards' \subseteq RateCard
  <2>1. ASSUME NEW rows, IsCardTable(rows)
        PROVE  {rows[i] : i \in {j \in CardIds : rows[j] # NoEntry}} \subseteq RateCard
    BY <2>1 DEF IsCardTable
  <2> QED
    BY <2>1 DEF Cards, CardsInv
<1>2. city \in Cities /\ Pricing(Cards, now, city, class, type) # {}
  BY <1>1, FindsWhatPrices DEF Priceables
<1>3. \A c \in Live(Cards, now) : c # card => c \in Live(Cards', now')
  BY DEF Live, Cards
<1>4. PICK found : found \in Pricing(Cards, now, city, class, type)
  BY <1>2
<1>5. \E c \in Live(Cards, now) : /\ c # card /\ c.class = class /\ c.type = type
                                  /\ c.scope \in {city, City[city].state}
  <2>1. CASE found # card
    BY <1>4, <2>1 DEF Pricing
  <2>2. CASE found = card
    <3>1. card.active /\ card.class = class /\ card.type = type
          /\ card.scope \in {city, City[city].state}
      BY <1>4, <2>2 DEF Pricing, Live
    <3>2. city \in CitiesOf(card)
      BY <1>2, <3>1, RateCardsAssumption DEF CitiesOf, CitiesInState
    <3>3. city \notin UnpricedIfRemoved(card)
      BY <3>1 DEF Spare
    <3> QED
      BY <3>1, <3>2, <3>3 DEF UnpricedIfRemoved, CoveredBy
  <2> QED
    BY <2>1, <2>2
<1>6. Pricing(Cards', now', city, class, type) # {}
  BY <1>3, <1>5 DEF Pricing
<1>7. FindActiveCard(Cards', city, class, type, now') # NoCard
  BY <1>1, <1>6, FindsWhatPrices
<1> QED
  BY <1>2, <1>7 DEF Priceables

(* Retiring or deleting a card, not insisted on, leaves every city that    *)
(* quoted a trip able to quote it, for any tables and any number of        *)
(* readers, as long as staff make one edit at a time                       *)
(* (fareConfig.service, assertCitiesStayPriced).                           *)
THEOREM RetiringLeavesPriced ==
    ASSUME NEW one \in Admins, Admins = {one}
    PROVE  CardsSpec => RetireLeavesPriced
<1> DEFINE Holds == CardsInv /\ ChecksHold
<1>1. CardsInit => Holds
  BY TablesOpen DEF CardsInit, ChecksHold, Resting
<1>2. Holds /\ [CardsNext]_cardVars => Holds'
  BY CardsStay, ChecksStayTrue
<1>3. Holds /\ Holds' =>
         [(\E a \in Admins : Deactivate(a) \/ Destroy(a)) => StayPriced]_cardVars
  <2> SUFFICES ASSUME Holds, Holds', Deactivate(one) \/ Destroy(one),
                      NEW class \in Classes, NEW type \in Types,
                      NEW city \in Priceables(class, type)
               PROVE  city \in Priceables(class, type)'
    BY DEF StayPriced
  <2>1. admins[one].id \in CardIds /\ cards[admins[one].id] # NoEntry /\ Spare(admins[one].id)
    BY DEF Deactivate, Destroy, CardsInv, AdminOK, ChecksHold
  <2>2. UNCHANGED now /\ \A i \in CardIds \ {admins[one].id} : cards'[i] = cards[i]
    BY DEF Deactivate, Destroy, WriteCard, Edited, CardsInv, IsCardTable
  <2> QED
    BY <2>1, <2>2, RemovalLeavesPriced
<1> QED
  BY <1>1, <1>2, <1>3, PTL DEF CardsSpec, RetireLeavesPriced
-----------------------------------------------------------------------------
(***************************************************************************)
(* Lists and quotes.                                                       *)
(***************************************************************************)

LEMMA OneOfAKind ==
    ASSUME CardsInv, NEW c \in Cards, NEW d \in Cards,
           c.scope = d.scope, c.class = d.class, c.type = d.type, c.from = d.from
    PROVE  c = d
<1>1. PICK i \in CardIds, j \in CardIds :
         c = cards[i] /\ d = cards[j] /\ cards[i] # NoEntry /\ cards[j] # NoEntry
  BY DEF Cards
<1>2. ASSUME i # j PROVE FALSE
  BY <1>1, <1>2 DEF CardsInv, IsCardTable
<1> QED
  BY <1>1, <1>2

(* The card the list takes of a class is the one its quote finds: the      *)
(* order of the one query and the two queries of the other agree.          *)
LEMMA ListsWhatIsFound ==
    ASSUME CardsInv, NEW city, NEW type, NEW c \in ListedCards(db, city, type, now)
    PROVE  /\ FindActiveCard(Cards, city, c.class, type, now) = c
           /\ c # NoCard /\ c.class \in VisibleClasses(db, type)
<1> DEFINE Of(scope) == { d \in Live(Cards, now) :
                             d.class = c.class /\ d.type = type /\ d.scope = scope }
           state == City[city].state
<1>1. /\ c \in Live(Cards, now) /\ c.type = type /\ c.scope \in {city, state}
      /\ c.class \in VisibleClasses(db, type)
      /\ \A d \in Of(city) \cup Of(state) : ~RankedBefore(d, c, city)
  BY DEF ListedCards, db
<1>2. Live(Cards, now) \subseteq Cards /\ Cards \subseteq RateCard
  BY CardsAreRows DEF Live, CardsInv
<1>3. ASSUME NEW d \in Cards PROVE d.from \in Int /\ d # NoCard
  BY <1>2, RateCardsAssumption DEF RateCard, NoCard
<1>4. FindActiveCard(Cards, city, c.class, type, now) =
        IF Newest(Of(city)) # NoCard THEN Newest(Of(city)) ELSE Newest(Of(state))
  BY DEF FindActiveCard
<1>5. ASSUME c.scope = city \/ Of(city) = {} PROVE Newest(Of(c.scope)) = c
  <2>1. c \in Of(c.scope) /\ Of(c.scope) \in SUBSET RateCard
    BY <1>1, <1>2
  <2>2. Newest(Of(c.scope)) \in Of(c.scope) /\ c.from <= Newest(Of(c.scope)).from
    <3> HIDE DEF Of
    <3> QED
      BY <2>1, NewestExists
  <2> DEFINE n == Newest(Of(c.scope))
  <2>3. n \in Cards /\ n.scope = c.scope /\ n.class = c.class /\ n.type = c.type
    BY <1>1, <1>2, <2>2
  <2>4. ~ (n.from > c.from)
    BY <1>1, <2>2 DEF RankedBefore
  <2>5. c \in Cards
    BY <1>1, <1>2
  <2>6. n.from = c.from
    BY <1>3, <2>2, <2>3, <2>4, <2>5
  <2> QED
    BY <2>3, <2>5, <2>6, OneOfAKind
<1>6. CASE c.scope = city
  BY <1>1, <1>2, <1>3, <1>4, <1>5, <1>6
<1>7. CASE c.scope # city
  <2>1. Of(city) = {}
    BY <1>1, <1>7 DEF RankedBefore
  <2>2. Newest(Of(city)) = NoCard
    BY <2>1 DEF Newest
  <2> QED
    BY <1>1, <1>2, <1>3, <1>4, <1>5, <1>7, <2>1, <2>2
<1> QED
  BY <1>6, <1>7
(* What a list is made of, when it is not empty.                           *)
LEMMA OptionsOfList ==
    ASSUME NEW wish, NEW priced, NEW option \in QuoteAllClasses(db, wish, priced, now).options
    PROVE  LET terms == EffectiveTerms(wish, priced)
           IN  /\ ~off /\ ~terms.refused
               /\ AssertDistinctEndpoints(wish.type, wish.pickup, wish.drop)
               /\ AssertPickupWithinServiceStates(wish.pickup)
               /\ \E c \in ListedCards(db, terms.city, terms.type, now) :
                     Priceable(wish, terms, c) /\ option = ListedOption(wish, terms, c, now)
<1> DEFINE terms == EffectiveTerms(wish, priced)
           shown == { c \in ListedCards(db, terms.city, terms.type, now) :
                         Priceable(wish, terms, c) }
           Opens == /\ AssertAnythingBookable(db)
                    /\ AssertDistinctEndpoints(wish.type, wish.pickup, wish.drop)
                    /\ AssertPickupWithinServiceStates(wish.pickup) /\ ~terms.refused
                    /\ wish.type = "HOURLY" => wish.package # NoPackageId \/ wish.hours > 0
                    /\ wish.type = "HOURLY" /\ wish.package = NoPackageId =>
                          shown = ListedCards(db, terms.city, terms.type, now)
           made == { ListedOption(wish, terms, c, now) : c \in shown }
<1>1. QuoteAllClasses(db, wish, priced, now) = IF Opens THEN Listed(made) ELSE Listed({})
  BY DEF QuoteAllClasses
<1>2. \A any : Listed(any).options = any
  BY DEF Listed
<1>3. Opens /\ option \in made
  <2> HIDE DEF Opens, made
  <2> QED
    BY <1>1, <1>2
<1>4. ~off
  BY <1>3 DEF AssertAnythingBookable, db
<1> QED
  BY <1>3, <1>4

(* Terms not turned into a rental's are those asked for.                   *)
LEMMA TermsAsAsked ==
    ASSUME NEW wish, NEW priced, ~EffectiveTerms(wish, priced).switched
    PROVE  EffectiveTerms(wish, priced) =
              [city |-> ResolveOperatingCity(wish.pickup, wish.city, priced), type |-> wish.type,
               package |-> wish.package, hours |-> wish.hours, switched |-> FALSE, refused |-> FALSE]
BY DEF EffectiveTerms

(* What a quote that is given says.                                        *)
LEMMA QuoteGiven ==
    ASSUME NEW wish, NEW class, NEW priced, NEW terms, terms = EffectiveTerms(wish, priced),
           NEW card, card = FindActiveCard(Cards, terms.city, class, terms.type, now),
           TermsGiven(wish), AssertDistinctEndpoints(wish.type, wish.pickup, wish.drop),
           AssertPickupWithinServiceStates(wish.pickup), ~terms.refused,
           AssertBookable(db, class), AssertClassAllowed(db, class, terms.type), card # NoCard
    PROVE  GetQuote(db, wish, class, priced, now) = PriceOne(wish, terms, class, card, now)
BY DEF GetQuote, db

(* What is priced of a class: its package, and the trip.                   *)
PackageFor(terms, class) ==
    IF terms.type = "HOURLY" /\ terms.package # NoPackageId
    THEN ChosenPackage(terms.package, terms.city, class)
    ELSE IF terms.type = "HOURLY" THEN MatchedPackage(terms.hours, terms.city, class)
    ELSE NoPackage

MeasuredTrip(wish, terms, class, time) ==
    LET route == Route(wish, terms.type)
    IN  [type |-> terms.type, km |-> route.km, minutes |-> route.minutes, at |-> wish.at,
         back |-> ReturnAt(wish, terms.type), surge |-> SurgeOf(wish, time),
         package |-> PackageFor(terms, class), hours |-> terms.hours]

Sellable(terms, trip, card) ==
    terms.type = "HOURLY" => IF terms.package # NoPackageId THEN trip.package # NoPackage
                             ELSE CanPriceHourly(trip, card.tariff)

LEMMA PriceOneIs ==
    ASSUME NEW wish, NEW terms, NEW class, NEW card, NEW time
    PROVE  LET trip == MeasuredTrip(wish, terms, class, time)
           IN  PriceOne(wish, terms, class, card, time) =
                  IF Sellable(terms, trip, card)
                  THEN QuoteAnswer(wish, terms, trip, ComputeFare(trip, card.tariff)) ELSE Refused
<1> DEFINE trip == MeasuredTrip(wish, terms, class, time)
<1>1. trip.package = PackageFor(terms, class)
  BY DEF MeasuredTrip
<1>2. PriceOne(wish, terms, class, card, time) =
         IF /\ terms.type = "HOURLY"
            /\ IF terms.package # NoPackageId THEN PackageFor(terms, class) = NoPackage
               ELSE ~CanPriceHourly(trip, card.tariff)
         THEN Refused ELSE QuoteAnswer(wish, terms, trip, ComputeFare(trip, card.tariff))
  BY DEF PriceOne, PackageFor, MeasuredTrip
<1> HIDE DEF trip
<1> QED
  BY <1>1, <1>2 DEF Sellable, trip

(* The list a rider chooses from and the quote of the class chosen come to *)
(* the same, for a trip on plain terms.                                    *)
LEMMA ListedIsQuoted ==
    ASSUME CardsInv, NEW wish, TermsGiven(wish), PlainTerms(wish)
    PROVE  SamePrice(wish)
<1> DEFINE priced == CitiesWithPricing(Cards, wish.type, now)
           terms == EffectiveTerms(wish, priced)
<1> SUFFICES ASSUME NEW option \in QuoteAllClasses(db, wish, priced, now).options
             PROVE  LET quote == GetQuote(db, wish, option.class, priced, now)
                    IN  /\ quote.quoted /\ quote.fare.total = option.fare.total
                        /\ quote.tax = option.tax /\ quote.km = option.km
                        /\ quote.city = option.city /\ quote.type = option.type
  BY DEF SamePrice
<1>1. PICK c \in ListedCards(db, terms.city, terms.type, now) :
         Priceable(wish, terms, c) /\ option = ListedOption(wish, terms, c, now)
  BY OptionsOfList
<1>2. /\ ~off /\ ~terms.refused
      /\ AssertDistinctEndpoints(wish.type, wish.pickup, wish.drop)
      /\ AssertPickupWithinServiceStates(wish.pickup)
  BY OptionsOfList
<1>3. terms.type = wish.type /\ terms.package = wish.package /\ terms.hours = wish.hours
  BY TermsAsAsked DEF PlainTerms
<1>4. /\ FindActiveCard(Cards, terms.city, c.class, terms.type, now) = c
      /\ c # NoCard /\ c.class \in VisibleClasses(db, terms.type)
  BY ListsWhatIsFound
<1>5. AssertBookable(db, c.class) /\ AssertClassAllowed(db, c.class, terms.type)
  BY <1>2, <1>4 DEF VisibleClasses, AssertBookable, AssertClassAllowed, db
<1>6. option.class = c.class
  BY <1>1 DEF ListedOption
<1>7. GetQuote(db, wish, option.class, priced, now) = PriceOne(wish, terms, c.class, c, now)
  BY <1>2, <1>4, <1>5, <1>6, QuoteGiven
<1>8. ASSUME wish.type = "HOURLY", wish.package = NoPackageId
      PROVE  MatchedPackage(terms.hours, terms.city, c.class) = NoPackage
  <2>1. c.class \in Classes
    BY <1>4 DEF VisibleClasses, db, CardsInv
  <2> QED
    BY <1>3, <1>8, <2>1 DEF PlainTerms
<1> DEFINE trip == MeasuredTrip(wish, terms, c.class, now)
           fare == ComputeFare(trip, c.tariff)
<1>9. trip.package = ListedPackage(terms, c.class)
  BY <1>3, <1>8 DEF MeasuredTrip, PackageFor, ListedPackage
<1>10. ListFare(wish, terms, c, now) = fare
  BY <1>3, <1>8 DEF ListFare, ListedPackage, MeasuredTrip, PackageFor
<1>11. Sellable(terms, trip, c)
  BY <1>1, <1>3, <1>9 DEF Priceable, CanPriceHourly, Sellable
<1>12. PriceOne(wish, terms, c.class, c, now) = QuoteAnswer(wish, terms, trip, fare)
  BY <1>11, PriceOneIs
<1>13. trip.km = Route(wish, terms.type).km
  BY DEF MeasuredTrip
<1> HIDE DEF terms, trip, priced
<1>14. /\ QuoteAnswer(wish, terms, trip, fare).quoted
       /\ QuoteAnswer(wish, terms, trip, fare).fare = fare
       /\ QuoteAnswer(wish, terms, trip, fare).km = trip.km
       /\ QuoteAnswer(wish, terms, trip, fare).city = terms.city
       /\ QuoteAnswer(wish, terms, trip, fare).type = terms.type
       /\ QuoteAnswer(wish, terms, trip, fare).tax = TaxOf(wish, terms.type, fare.total)
  BY DEF QuoteAnswer
<1>15. /\ option.fare = fare /\ option.km = Route(wish, terms.type).km
       /\ option.city = terms.city /\ option.type = terms.type
       /\ option.tax = ListedTax(wish, terms, fare.total)
  BY <1>1, <1>10 DEF ListedOption
<1>16. ListedTax(wish, terms, fare.total) = TaxOf(wish, terms.type, fare.total)
  BY DEF ListedTax, TaxOf
<1> QED
  <2> HIDE DEF fare
  <2> QED
    BY <1>7, <1>12, <1>13, <1>14, <1>15, <1>16

(* A return day is given an hour after the pickup, on the same day again   *)
(* when it is given once more, unless the pickup leaves no minute of it.   *)
LEMMA ReturnIsAfter ==
    ASSUME NEW at \in Nat, NEW back \in Nat, ReturnDateIsValid(back, at)
    PROVE  LET r == NormaliseReturnDate(back, at)
               s == NormaliseReturnDate(r, at)
           IN  /\ r \in Nat /\ r > at /\ ReturnDateIsValid(r, at)
               /\ s # r => MinuteOf(at) = DayMinutes - 1 /\ DayOf(back) = DayOf(at)
               /\ s \in Nat /\ s > at /\ DayOf(s) = DayOf(r)
<1>1. PICK d \in Nat, m \in 0 .. 1439 : at = 1440 * d + m /\ DayOf(at) = d /\ MinuteOf(at) = m
  <2>1. PICK q \in Nat : q = at \div 1440
    OBVIOUS
  <2>2. 1440 * q <= at /\ at < 1440 * q + 1440
    BY <2>1
  <2>3. at % 1440 = at - 1440 * q
    BY <2>1, <2>2
  <2>4. DayOf(at) = q /\ MinuteOf(at) = at - 1440 * q
    BY <2>1, <2>3 DEF DayOf, MinuteOf, DayMinutes
  <2>5. PICK m \in Int : m = at - 1440 * q
    BY <2>2
  <2>6. m \in 0 .. 1439 /\ at = 1440 * q + m
    BY <2>2, <2>5
  <2> QED
    BY <2>4, <2>5, <2>6
<1>2. PICK e \in Nat : DayOf(back) = e
  BY DEF DayOf, DayMinutes
<1>3. e >= d
  BY <1>1, <1>2 DEF ReturnDateIsValid
<1>4. \A k \in Nat, l \in 0 .. 1439 : DayOf(1440 * k + l) = k
  BY DEF DayOf, DayMinutes
<1>6. CASE 1440 * e + 1260 > at
  <2>1. NormaliseReturnDate(back, at) = 1440 * e + 1260
    BY <1>2, <1>6 DEF NormaliseReturnDate, DayMinutes
  <2>2. DayOf(1440 * e + 1260) = e
    BY <1>4
  <2>3. NormaliseReturnDate(1440 * e + 1260, at) = 1440 * e + 1260
    BY <2>2, <1>6 DEF NormaliseReturnDate, DayMinutes
  <2> QED
    BY <1>1, <1>3, <1>6, <2>1, <2>2, <2>3 DEF ReturnDateIsValid
<1>7. CASE ~ (1440 * e + 1260 > at) /\ 1440 * e + 1439 > at
  <2>1. NormaliseReturnDate(back, at) = 1440 * e + 1439
    BY <1>2, <1>7 DEF NormaliseReturnDate, DayMinutes
  <2>2. DayOf(1440 * e + 1439) = e
    BY <1>4
  <2>3. NormaliseReturnDate(1440 * e + 1439, at) = 1440 * e + 1439
    BY <2>2, <1>7 DEF NormaliseReturnDate, DayMinutes
  <2> QED
    BY <1>1, <1>3, <1>7, <2>1, <2>2, <2>3 DEF ReturnDateIsValid
<1>8. CASE ~ (1440 * e + 1260 > at) /\ ~ (1440 * e + 1439 > at)
  <2>1. NormaliseReturnDate(back, at) = at + 1
    BY <1>2, <1>8 DEF NormaliseReturnDate, DayMinutes
  <2>2. e = d /\ m = 1439
    BY <1>1, <1>3, <1>8
  <2>3. at + 1 = 1440 * (d + 1) + 0
    BY <1>1, <2>2
  <2>4. DayOf(at + 1) = d + 1
    <3>1. DayOf(1440 * (d + 1) + 0) = d + 1
      BY <1>4
    <3> QED
      BY <2>3, <3>1
  <2>5. NormaliseReturnDate(at + 1, at) = 1440 * (d + 1) + 1260
    BY <1>1, <2>4 DEF NormaliseReturnDate, DayMinutes
  <2>6. DayOf(1440 * (d + 1) + 1260) = d + 1
    BY <1>4
  <2> QED
    BY <1>1, <1>2, <2>1, <2>2, <2>4, <2>5, <2>6 DEF ReturnDateIsValid, DayMinutes
<1> QED
  BY <1>6, <1>7, <1>8

(* Two returns of one day, after the pickup, are charged alike when the    *)
(* pickup is at night or they are at one minute.                           *)
LEMMA ChargedAlike ==
    ASSUME NEW t, NEW u, NEW c,
           t.type = u.type, t.km = u.km, t.minutes = u.minutes, t.at = u.at, t.surge = u.surge,
           t.package = u.package, t.hours = u.hours,
           t.type = "ROUND_TRIP" => ChargeableDays(t.at, t.back) = ChargeableDays(u.at, u.back),
           TouchesNight(t, c) <=> TouchesNight(u, c)
    PROVE  ComputeFare(t, c) = ComputeFare(u, c)
<1>1. \A f : Priced(t, c, f) = Priced(u, c, f)
  BY DEF Priced
<1>2. ComputeHourlyFare(t, c) = ComputeHourlyFare(u, c)
  BY <1>1 DEF ComputeHourlyFare
<1>3. ComputeDistanceFare(t, c) = ComputeDistanceFare(u, c)
  BY <1>1 DEF ComputeDistanceFare, GuaranteedKm
<1> QED
  BY <1>2, <1>3 DEF ComputeFare
(* What must hold for a quote to be given.                                 *)
LEMMA QuoteMeans ==
    ASSUME NEW wish, NEW class, NEW priced, GetQuote(db, wish, class, priced, now) # Refused
    PROVE  LET terms == EffectiveTerms(wish, priced)
               card == FindActiveCard(Cards, terms.city, class, terms.type, now)
               trip == MeasuredTrip(wish, terms, class, now)
           IN  /\ TermsGiven(wish) /\ AssertDistinctEndpoints(wish.type, wish.pickup, wish.drop)
               /\ AssertPickupWithinServiceStates(wish.pickup) /\ ~terms.refused
               /\ AssertBookable(db, class) /\ AssertClassAllowed(db, class, terms.type)
               /\ card # NoCard /\ Sellable(terms, trip, card)
               /\ GetQuote(db, wish, class, priced, now) =
                     QuoteAnswer(wish, terms, trip, ComputeFare(trip, card.tariff))
<1> DEFINE terms == EffectiveTerms(wish, priced)
           card == FindActiveCard(Cards, terms.city, class, terms.type, now)
<1>1. /\ TermsGiven(wish) /\ AssertDistinctEndpoints(wish.type, wish.pickup, wish.drop)
      /\ AssertPickupWithinServiceStates(wish.pickup) /\ ~terms.refused
      /\ AssertBookable(db, class) /\ AssertClassAllowed(db, class, terms.type)
      /\ card # NoCard
      /\ GetQuote(db, wish, class, priced, now) = PriceOne(wish, terms, class, card, now)
  BY DEF GetQuote, db
<1> HIDE DEF terms, card
<1> QED
  BY <1>1, PriceOneIs DEF terms, card

(* The package of a quote is one of the tables, of the city and class.     *)
LEMMA ChosenIsThere ==
    ASSUME NEW id, NEW city, NEW class, ChosenPackage(id, city, class) # NoPackage
    PROVE  \E p \in Packages : /\ p.city = city /\ p.class = class
                               /\ ChosenPackage(id, city, class) = Terms(p)
<1> DEFINE S == { p \in PackagesOf(city) : p.class = class
                   /\ \E q \in { r \in PackagesOf(city) : r.id = id } :
                         p.label = q.label /\ (q.class = class => p.id = q.id) }
<1>1. ChosenPackage(id, city, class) = OnePackage(S)
  BY DEF ChosenPackage
<1>2. S # {} /\ OnePackage(S) = Terms(CHOOSE p \in S : TRUE)
  <2> HIDE DEF S
  <2> QED
    BY <1>1 DEF OnePackage
<1>3. (CHOOSE p \in S : TRUE) \in S
  <2> HIDE DEF S
  <2> QED
    BY <1>2
<1> QED
  BY <1>1, <1>2, <1>3 DEF PackagesOf

(* Chosen again, it is the same.                                           *)
LEMMA ChosenAgain ==
    ASSUME NEW p \in Packages
    PROVE  ChosenPackage(p.id, p.city, p.class) = Terms(p) /\ p.id \in Nat /\ p.id # NoPackageId
<1> DEFINE S == { q \in PackagesOf(p.city) : q.class = p.class
                   /\ \E r \in { s \in PackagesOf(p.city) : s.id = p.id } :
                         q.label = r.label /\ (r.class = p.class => q.id = r.id) }
<1>1. ChosenPackage(p.id, p.city, p.class) = OnePackage(S)
  BY DEF ChosenPackage
<1>2. S = {p}
  BY QuotingAssumption DEF PackagesOf
<1>3. OnePackage({p}) = Terms(p)
  BY DEF OnePackage
<1>4. p.id \in Nat /\ p.id # NoPackageId
  BY QuotingAssumption DEF IsRentalPackage, NoPackageId
<1> HIDE DEF S
<1> QED
  BY <1>1, <1>2, <1>3, <1>4
(* What is priced is what was asked for, or a rental of a package.         *)
LEMMA TermsOf ==
    ASSUME NEW wish, NEW priced
    PROVE  LET terms == EffectiveTerms(wish, priced)
           IN  \/ /\ terms.switched = FALSE /\ terms.type = wish.type
                  /\ terms.package = wish.package /\ terms.hours = wish.hours
               \/ /\ terms.switched = TRUE /\ terms.type = "HOURLY"
                  /\ terms.package = wish.package /\ (terms.refused <=> wish.package = NoPackageId)
<1> DEFINE city == ResolveOperatingCity(wish.pickup, wish.city, priced)
<1>1. LocalSwitch(wish, city).needsPackage <=> wish.package = NoPackageId
  BY DEF LocalSwitch
<1> HIDE DEF city
<1> QED
  BY <1>1 DEF EffectiveTerms, city

(* The terms a quote's answer names are terms a quote is given for.        *)
LEMMA AnswersAreTerms ==
    ASSUME NEW wish \in TripRequest, NEW class, NEW priced, NEW quote,
           quote = GetQuote(db, wish, class, priced, now), quote # Refused
    PROVE  LET terms == EffectiveTerms(wish, priced)
               package == PackageFor(terms, class)
           IN  /\ quote.type = terms.type /\ quote.city = terms.city
               /\ quote.package = IF package = NoPackage THEN NoPackageId ELSE package.id
               /\ IF terms.type = "ROUND_TRIP"
                  THEN /\ wish.type = "ROUND_TRIP" /\ wish.back \in Nat
                       /\ ReturnDateIsValid(wish.back, wish.at)
                       /\ quote.back = NormaliseReturnDate(wish.back, wish.at)
                  ELSE quote.back = NoTime
<1> DEFINE terms == EffectiveTerms(wish, priced)
           trip == MeasuredTrip(wish, terms, class, now)
           card == FindActiveCard(Cards, terms.city, class, terms.type, now)
           fare == ComputeFare(trip, card.tariff)
<1>1. TermsGiven(wish) /\ quote = QuoteAnswer(wish, terms, trip, fare)
  BY QuoteMeans
<1>2. terms.type = "ROUND_TRIP" => wish.type = "ROUND_TRIP"
  BY TermsOf
<1>3. trip.package = PackageFor(terms, class) /\ trip.back = ReturnAt(wish, terms.type)
  BY DEF MeasuredTrip
<1>4. wish.back \in Nat \cup {NoTime}
  BY DEF TripRequest
<1> HIDE DEF terms, trip, fare
<1>5. /\ quote.type = terms.type /\ quote.city = terms.city /\ quote.back = trip.back
      /\ quote.package = IF trip.package = NoPackage THEN NoPackageId ELSE trip.package.id
  BY <1>1 DEF QuoteAnswer
<1> QED
  BY <1>1, <1>2, <1>3, <1>4, <1>5 DEF TermsGiven, ReturnAt, terms

LEMMA GivenAgain ==
    ASSUME NEW wish \in TripRequest, NEW class, NEW priced, NEW quote,
           quote = GetQuote(db, wish, class, priced, now), quote # Refused,
           NEW other, other.type = quote.type, other.back = quote.back, other.at = wish.at,
           other.package = quote.package, other.hours = wish.hours
    PROVE  TermsGiven(other)
<1> DEFINE terms == EffectiveTerms(wish, priced)
           trip == MeasuredTrip(wish, terms, class, now)
<1>1. wish.at \in Nat
  BY DEF TripRequest
<1>2. CASE quote.type = "ROUND_TRIP"
  <2>1. other.back \in Nat /\ ReturnDateIsValid(other.back, other.at)
    BY <1>1, <1>2, AnswersAreTerms, ReturnIsAfter
  <2> QED
    BY <1>2, <2>1 DEF TermsGiven, NoTime
<1>3. CASE quote.type = "HOURLY"
  <2>1. TermsGiven(wish) /\ ~terms.refused
        /\ \E card : Sellable(terms, trip, card)
    BY QuoteMeans
  <2>2. terms.type = "HOURLY" /\ quote.back = NoTime
    BY <1>3, AnswersAreTerms
  <2>3. terms.package = wish.package /\ (terms.package # NoPackageId \/ wish.hours > 0)
    BY <2>1, <2>2, TermsOf DEF TermsGiven
  <2>4. ASSUME terms.package # NoPackageId PROVE quote.package # NoPackageId
    <3>1. /\ PackageFor(terms, class) = ChosenPackage(terms.package, terms.city, class)
          /\ PackageFor(terms, class) # NoPackage
      BY <2>1, <2>2, <2>4 DEF Sellable, MeasuredTrip, PackageFor
    <3>2. PICK p \in Packages : PackageFor(terms, class) = Terms(p)
      BY <3>1, ChosenIsThere
    <3>3. quote.package = Terms(p).id
      BY <3>1, <3>2, AnswersAreTerms
    <3> QED
      BY <3>3, ChosenAgain DEF Terms
  <2> QED
    BY <1>3, <2>2, <2>3, <2>4 DEF TermsGiven
<1>4. CASE quote.type # "ROUND_TRIP" /\ quote.type # "HOURLY"
  BY <1>4, AnswersAreTerms DEF TermsGiven
<1> QED
  BY <1>2, <1>3, <1>4

(* A car that staff are shown is one the change of car is priced for.      *)
LEMMA OptionsAreQuoted == ASSUME CardsInv, NEW wish \in TripRequest PROVE OptionsStand(wish)
<1> DEFINE Quoted(class) == GetQuote(db, wish, class, CitiesWithPricing(Cards, wish.type, now), now)
<1> SUFFICES ASSUME NEW class \in Classes, Quoted(class) # Refused,
                    NEW other, other = QuoteInputFor(wish, Quoted(class)), PlainTerms(other),
                    NEW again, again = CitiesWithPricing(Cards, other.type, now),
                    NEW o \in ListOptions(db, wish, Quoted(class), again, now)
             PROVE  /\ GetQuote(db, other, o.class, again, now).quoted
                    /\ GetQuote(db, other, o.class, again, now).fare.total = o.total
  BY DEF OptionsStand
<1> DEFINE quote == Quoted(class)
<1> HIDE DEF Quoted
<1>1. /\ other.type = quote.type /\ other.back = quote.back /\ other.at = wish.at
      /\ other.package = quote.package /\ other.hours = wish.hours
  BY DEF QuoteInputFor, TripRequest
<1>2. TermsGiven(other)
  BY <1>1, GivenAgain DEF Quoted
<1>3. SamePrice(other)
  BY <1>2, ListedIsQuoted
<1>4. PICK option \in QuoteAllClasses(db, other, again, now).options :
         o.class = option.class /\ o.total = option.fare.total
  BY DEF ListOptions
<1> QED
  BY <1>3, <1>4 DEF SamePrice
(* The city found for a pickup is found again when it is asked for.        *)
LEMMA CityAgain ==
    ASSUME NEW place, NEW city, NEW priced
    PROVE  LET found == ResolveOperatingCity(place, city, priced)
           IN  ResolveOperatingCity(place, found, priced) = found
BY DEF ResolveOperatingCity

(* Days that a return is charged for, and the nights it touches, when it   *)
(* is given again.                                                         *)
LEMMA ReturnAgain ==
    ASSUME NEW wish \in TripRequest, TermsGiven(wish), LastMinuteIsNight(wish), wish.type = "ROUND_TRIP",
           NEW r, r = NormaliseReturnDate(wish.back, wish.at),
           NEW s, s = NormaliseReturnDate(r, wish.at),
           NEW card, card.tariff \in Tariffs,
           NEW t, NEW u, t.at = wish.at, u.at = wish.at, t.back = r, u.back = s
    PROVE  /\ ChargeableDays(t.at, t.back) = ChargeableDays(u.at, u.back)
           /\ TouchesNight(t, card.tariff) <=> TouchesNight(u, card.tariff)
<1>1. wish.at \in Nat /\ wish.back \in Nat /\ ReturnDateIsValid(wish.back, wish.at)
  BY DEF TripRequest, TermsGiven
<1>2. /\ r \in Nat /\ r > wish.at /\ s \in Nat /\ s > wish.at /\ DayOf(s) = DayOf(r)
      /\ s # r => MinuteOf(wish.at) = DayMinutes - 1 /\ DayOf(wish.back) = DayOf(wish.at)
  BY <1>1, ReturnIsAfter
<1>3. ChargeableDays(t.at, t.back) = ChargeableDays(u.at, u.back)
  BY <1>1, <1>2 DEF ChargeableDays
<1>4. TouchesNight(t, card.tariff) <=> TouchesNight(u, card.tariff)
  <2>1. CASE s = r
    BY <2>1 DEF TouchesNight
  <2>2. CASE s # r
    <3>1. IsNightMinute(MinuteOf(wish.at), card.tariff.nightFrom, card.tariff.nightTo)
      BY <1>2, <2>2 DEF LastMinuteIsNight
    <3>2. wish.at # NoTime
      BY <1>1 DEF NoTime
    <3> QED
      BY <3>1, <3>2 DEF TouchesNight
  <2> QED
    BY <2>1, <2>2
<1> QED
  BY <1>3, <1>4

(* A booking made on the terms of a quote's answer is priced as the quote. *)
LEMMA BookedAsQuoted ==
    ASSUME CardsInv, NEW wish \in TripRequest, LastMinuteIsNight(wish), PlainTerms(wish)
    PROVE  SameAgain(wish)
<1> DEFINE Asked(r, class) == GetQuote(db, r, class, CitiesWithPricing(Cards, r.type, now), now)
<1> SUFFICES ASSUME NEW class \in Classes, Asked(wish, class).quoted
             PROVE  LET again == Asked(Answered(wish, Asked(wish, class)), class)
                    IN  /\ again.quoted /\ again.fare = Asked(wish, class).fare
                        /\ again.tax = Asked(wish, class).tax
  BY DEF SameAgain
<1> DEFINE priced == CitiesWithPricing(Cards, wish.type, now)
           quote == GetQuote(db, wish, class, priced, now)
           terms == EffectiveTerms(wish, priced)
           card == FindActiveCard(Cards, terms.city, class, terms.type, now)
           trip == MeasuredTrip(wish, terms, class, now)
           other == Answered(wish, quote)
           same == EffectiveTerms(other, priced)
           copy == MeasuredTrip(other, same, class, now)
<1>1. quote # Refused
  BY DEF Refused
<1>2. /\ TermsGiven(wish) /\ AssertDistinctEndpoints(wish.type, wish.pickup, wish.drop)
      /\ AssertPickupWithinServiceStates(wish.pickup)
      /\ AssertBookable(db, class) /\ AssertClassAllowed(db, class, terms.type)
      /\ card # NoCard /\ Sellable(terms, trip, card)
      /\ quote = QuoteAnswer(wish, terms, trip, ComputeFare(trip, card.tariff))
  BY <1>1, QuoteMeans
<1>3. terms = [city |-> ResolveOperatingCity(wish.pickup, wish.city, priced), type |-> wish.type,
               package |-> wish.package, hours |-> wish.hours, switched |-> FALSE, refused |-> FALSE]
      /\ ~terms.switched
  BY TermsAsAsked DEF PlainTerms
<1>4. quote.type = wish.type /\ quote.city = terms.city
      /\ quote.package = IF PackageFor(terms, class) = NoPackage THEN NoPackageId
                         ELSE PackageFor(terms, class).id
  BY <1>1, <1>3, AnswersAreTerms
<1>5. /\ other.city = quote.city /\ other.type = quote.type /\ other.package = quote.package
      /\ other.back = quote.back /\ other.pickup = wish.pickup /\ other.drop = wish.drop
      /\ other.stops = wish.stops /\ other.at = wish.at /\ other.hours = wish.hours
      /\ other.keep = wish.keep /\ other.surge = wish.surge /\ other.corporate = wish.corporate
      /\ other.gstin = wish.gstin
  <2> HIDE DEF quote
  <2> QED
    BY DEF Answered, TripRequest
<1> HIDE DEF priced, quote, terms, card, trip, other, same, copy
<1>6. TermsGiven(other)
  BY <1>1, <1>5, GivenAgain DEF quote
<1>7. ResolveOperatingCity(other.pickup, other.city, priced) = terms.city
  BY <1>3, <1>4, <1>5, CityAgain
<1>8. same = [city |-> terms.city, type |-> wish.type, package |-> quote.package,
              hours |-> wish.hours, switched |-> FALSE, refused |-> FALSE]
  <2>1. ~LocalSwitch(wish, terms.city).applied
    BY <1>3 DEF EffectiveTerms, terms
  <2>2. LocalSwitch(other, terms.city).applied = LocalSwitch(wish, terms.city).applied
    BY <1>4, <1>5 DEF LocalSwitch
  <2> QED
    BY <1>4, <1>5, <1>7, <2>1, <2>2 DEF EffectiveTerms, same
<1>9. PackageFor(same, class) = PackageFor(terms, class)
  <2>1. CASE wish.type # "HOURLY"
    BY <1>3, <1>8, <2>1 DEF PackageFor
  <2>2. CASE wish.type = "HOURLY" /\ wish.package = NoPackageId
    <3>1. PackageFor(terms, class) = NoPackage
      BY <1>3, <2>2 DEF PackageFor, PlainTerms, priced, terms
    <3> QED
      BY <1>3, <1>4, <1>8, <2>2, <3>1 DEF PackageFor
  <2>3. CASE wish.type = "HOURLY" /\ wish.package # NoPackageId
    <3>1. /\ PackageFor(terms, class) = ChosenPackage(wish.package, terms.city, class)
          /\ PackageFor(terms, class) # NoPackage
      BY <1>2, <1>3, <2>3 DEF Sellable, MeasuredTrip, PackageFor, trip
    <3>2. PICK p \in Packages :
             p.city = terms.city /\ p.class = class /\ PackageFor(terms, class) = Terms(p)
      BY <3>1, ChosenIsThere
    <3>3. quote.package = p.id
      BY <1>4, <3>1, <3>2 DEF Terms
    <3> QED
      BY <1>8, <2>3, <3>2, <3>3, ChosenAgain DEF PackageFor
  <2> QED
    BY <2>1, <2>2, <2>3
<1>10. /\ copy.type = trip.type /\ copy.km = trip.km /\ copy.minutes = trip.minutes
       /\ copy.at = trip.at /\ copy.surge = trip.surge /\ copy.package = trip.package
       /\ copy.hours = trip.hours /\ trip.type = wish.type /\ trip.at = wish.at
  <2>1. Route(other, same.type) = Route(wish, terms.type)
    BY <1>3, <1>5, <1>8 DEF Route
  <2>2. SurgeOf(other, now) = SurgeOf(wish, now)
    BY <1>5 DEF SurgeOf
  <2> QED
    BY <1>3, <1>5, <1>8, <1>9, <2>1, <2>2 DEF MeasuredTrip, copy, trip
<1>11. trip.back = ReturnAt(wish, wish.type) /\ copy.back = ReturnAt(other, wish.type)
       /\ quote.back = trip.back
  BY <1>2, <1>3, <1>8 DEF MeasuredTrip, QuoteAnswer, copy, trip
<1>12. ComputeFare(copy, card.tariff) = ComputeFare(trip, card.tariff)
  <2>1. card.tariff \in Tariffs
    <3>1. Cards \subseteq RateCard
      BY CardsAreRows DEF CardsInv
    <3>2. card \in Cards
      BY <1>2, <3>1, FindsWhatPrices DEF Pricing, Live, card
    <3> QED
      BY <3>1, <3>2 DEF RateCard
  <2>2. CASE wish.type = "ROUND_TRIP"
    <3>1. /\ ChargeableDays(trip.at, trip.back) = ChargeableDays(copy.at, copy.back)
          /\ TouchesNight(trip, card.tariff) <=> TouchesNight(copy, card.tariff)
      BY <1>2, <1>5, <1>10, <1>11, <2>1, <2>2, ReturnAgain DEF ReturnAt
    <3> QED
      BY <1>10, <3>1, ChargedAlike
  <2>3. CASE wish.type # "ROUND_TRIP"
    <3>1. copy.back = trip.back
      BY <1>11, <2>3 DEF ReturnAt
    <3>2. TouchesNight(trip, card.tariff) <=> TouchesNight(copy, card.tariff)
      BY <1>10, <3>1 DEF TouchesNight
    <3> QED
      BY <1>10, <2>3, <3>2, ChargedAlike
  <2> QED
    BY <2>2, <2>3
<1>13. Sellable(same, copy, card)
  <2>1. CASE wish.type # "HOURLY"
    BY <1>8, <2>1 DEF Sellable
  <2>2. CASE wish.type = "HOURLY"
    <3>1. copy.package = PackageFor(terms, class)
      BY <1>9 DEF MeasuredTrip, copy
    <3>2. quote.package # NoPackageId => copy.package # NoPackage
      BY <1>4, <3>1
    <3>3. ASSUME quote.package = NoPackageId PROVE CanPriceHourly(copy, card.tariff)
      <4>1. CASE wish.package = NoPackageId
        BY <1>2, <1>3, <1>10, <2>2, <4>1 DEF Sellable, CanPriceHourly
      <4>2. CASE wish.package # NoPackageId
        BY <1>2, <1>3, <1>10, <2>2, <4>2 DEF Sellable, CanPriceHourly
      <4> QED
        BY <4>1, <4>2
    <3> QED
      BY <1>8, <3>2, <3>3 DEF Sellable
  <2> QED
    BY <2>1, <2>2
<1>14. GetQuote(db, other, class, priced, now) =
          QuoteAnswer(other, same, copy, ComputeFare(copy, card.tariff))
  <2>1. /\ AssertDistinctEndpoints(other.type, other.pickup, other.drop)
        /\ AssertPickupWithinServiceStates(other.pickup) /\ ~same.refused
        /\ AssertClassAllowed(db, class, same.type)
    BY <1>2, <1>3, <1>4, <1>5, <1>8
  <2>2. card = FindActiveCard(Cards, same.city, class, same.type, now)
    BY <1>3, <1>8 DEF card
  <2>3. GetQuote(db, other, class, priced, now) = PriceOne(other, same, class, card, now)
    BY <1>2, <1>6, <2>1, <2>2, QuoteGiven DEF same
  <2> QED
    BY <1>13, <2>3, PriceOneIs DEF copy
<1>15. TaxOf(other, same.type, ComputeFare(copy, card.tariff).total)
         = TaxOf(wish, terms.type, ComputeFare(trip, card.tariff).total)
  BY <1>3, <1>5, <1>8, <1>12 DEF TaxOf
<1>16. Asked(wish, class) = quote /\ Asked(other, class) = GetQuote(db, other, class, priced, now)
  BY <1>4, <1>5 DEF quote, priced
<1> HIDE DEF Asked
<1> QED
  BY <1>2, <1>12, <1>14, <1>15, <1>16 DEF QuoteAnswer, other
LEMMA DaysAreTaken == ASSUME NEW wish \in TripRequest PROVE DaysStand(wish)
<1> SUFFICES ASSUME ValidateTiming(Departing(wish), wish.at - MinLeadMinutes)
             PROVE  /\ wish.type = "HOURLY" \/ TermsGiven(wish)
                    /\ wish.type = "ROUND_TRIP" => ReturnAt(wish, wish.type) > wish.at
  BY DEF DaysStand
<1>1. /\ Departing(wish).type = wish.type /\ Departing(wish).back = wish.back
      /\ Departing(wish).at = wish.at
  BY DEF Departing
<1>2. IF wish.type = "ROUND_TRIP"
      THEN wish.back # NoTime /\ ReturnDateIsValid(wish.back, wish.at)
      ELSE wish.back = NoTime
  BY <1>1 DEF ValidateTiming
<1>3. wish.type = "HOURLY" \/ TermsGiven(wish)
  BY <1>2 DEF TermsGiven
<1>4. wish.at \in Nat /\ wish.back \in Nat \cup {NoTime}
  BY DEF TripRequest
<1> QED
  BY <1>2, <1>3, <1>4, ReturnIsAfter DEF ReturnAt

LEMMA SwitchesTell == CardsInv => SwitchesAgree
<1> SUFFICES ASSUME CardsInv, NEW type \in Types, NEW class \in Classes
             PROVE  /\ class \in BookableClassesFor(db, type) <=>
                          EffectivelyBookable(db, class) /\ AllowsTripType(classes[class], type)
                    /\ ~off => (class \in VisibleClasses(db, type) <=> class \in BookableClassesFor(db, type))
                    /\ class \in BookableClassesFor(db, type) => AssertBookable(db, class)
  BY DEF SwitchesAgree
<1>1. class \in DOMAIN db.classes /\ db.classes = classes /\ db.off = off
  BY DEF CardsInv, db
<1> QED
  BY <1>1 DEF BookableClassesFor, EffectivelyBookable, VisibleClasses, AssertBookable, IsBookable

(* "This path and getQuote must agree to the rupee" (quoteAllClasses), and *)
(* so must a booking and its quote, the price of another car and its       *)
(* change, the switches and the screens: for any cards, classes, cities,   *)
(* packages, surges and registrations, and any trips asked for on terms a  *)
(* quote is given for (quote.service, fareConfig.service, returnDate).     *)
THEOREM PricesAgree ==
    ASSUME \A wish \in Wanted : Quotable(wish)
    PROVE  CardsSpec => []PathsAgree
<1>1. CardsInv => PathsAgree
  <2> SUFFICES ASSUME CardsInv PROVE PathsAgree
    OBVIOUS
  <2>1. CardsTypeOK
    BY CardsHaveTypes
  <2>2. SwitchesAgree /\ PricingIsShown
    BY SwitchesTell, ShownWhatPrices
  <2>3. ASSUME NEW wish \in Wanted
        PROVE  /\ DaysStand(wish) /\ OptionsStand(wish)
               /\ PlainTerms(wish) => SamePrice(wish) /\ SameAgain(wish)
    <3>1. wish \in TripRequest /\ TermsGiven(wish) /\ LastMinuteIsNight(wish)
      BY <2>3, RateCardsAssumption DEF Quotable
    <3> QED
      BY <3>1, DaysAreTaken, OptionsAreQuoted, ListedIsQuoted, BookedAsQuoted
  <2> QED
    BY <2>1, <2>2, <2>3 DEF PathsAgree
<1> QED
  BY <1>1, CardsAreInvariant, PTL
=============================================================================
