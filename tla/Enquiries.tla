------------------------------ MODULE Enquiries ------------------------------
(***************************************************************************)
(* What happens before there is a booking: the place of a pickup is looked *)
(* up and checked against the states served (src/src/services/             *)
(* quote.service.js), a rider who is refused sends a request that staff    *)
(* answer (src/src/services/bookingRequest.service.js), and a form half    *)
(* filled in is recorded and chased (src/src/services/funnel.service.js).  *)
(* Pickups are served by the process Here, which asks the maps of Maps.    *)
(***************************************************************************)
EXTENDS ServiceStates

CONSTANTS
    Here,           \* the process that serves riders
    Places,         \* records: spot, the state it lies in, whether in India,
                    \* the state its address names, or None, and whether the
                    \* form sends its coordinates
    Paths,          \* sequences of questions that are asked for on their own
    Tabs,           \* calls of riders' forms that may be under way
    Sweepers,       \* runs of the sweeper of abandoned forms that may overlap
    MaxAttempts,    \* bound: rows of booking_attempts
    MaxRequests     \* bound: rows of booking_requests

(* What is asked of the map about a place. *)
ReverseGeocode(p) == [kind |-> "reverse", spot |-> p.spot]
Geocode(p) == [kind |-> "geocode", spot |-> p.spot]

ASSUME EnquiriesAssumption ==
    /\ MaxAttempts \in Nat /\ MaxRequests \in Nat
    /\ Here \in Hosts /\ Paths \subseteq Seq(Questions) \ {<<>>}
    /\ \A p \in Places : /\ {p.state, p.named} \subseteq States \cup {None} /\ p.pinned \in BOOLEAN
                         /\ (IF p.pinned THEN ReverseGeocode(p) ELSE Geocode(p)) \in Questions

VARIABLES
    visit,          \* visit[k]: a pickup under way for the rider k
    refused,        \* places refused as outside the states served
    requests,       \* booking_requests, in the order of their inserts
    desk,           \* desk[k]: a change of a request between read and write
    attempts,       \* booking_attempts, in the order of their inserts
    form,           \* form[t]: a call of a rider's form, between two statements
    sweep,          \* sweep[w]: the attempts a run has listed and not yet done
    pushed          \* history: pushes handed over, per attempt
enquiryVars == <<visit, refused, requests, desk, attempts, form, sweep, pushed>>
funnelVars == <<attempts, form, sweep, pushed>>
officeVars == <<mapVars, stateVars, enquiryVars>>

boards == <<rows, towns, edits, opened, closed, unseeded>>
listVars == <<boards, copy, fresh>>

Riders == Seekers
Away == [at |-> "away"]
Visits == [at : {"located", "judge"}, place : Places, state : States \cup {None}]
Visit == made < MaxCalls /\ made' = made + 1
Step(k, call) == visit' = [visit EXCEPT ![k] = call]

-----------------------------------------------------------------------------
(* A pickup.  States are matched against the list a process has at hand:   *)
(* its copy when fresh, else what a query answers, else what it has left.  *)

(* What the process goes by, and whether that is a fresh read to be kept.  *)
Consulted ==
    IF Here \in fresh THEN {[list |-> copy[Here], read |-> FALSE]}
    ELSE {[list |-> Stale(Here), read |-> FALSE], [list |-> ActiveStates, read |-> TRUE]}
Consult(view) == IF view.read THEN Loaded(Here, view.list) ELSE UNCHANGED <<copy, fresh>>
ListOf(view) == Allowed(view.list)

(* With coordinates the address is tried first, and the map is asked only  *)
(* when it names no state served; an address alone is looked up.           *)
ResolveCoordinates(k, p) ==
    /\ p.pinned /\ visit[k] = Away /\ seek[k] = Nowhere /\ Visit
    /\ \E view \in Consulted :
          /\ Consult(view)
          /\ IF p.named \in ListOf(view)
             THEN /\ Step(k, [at |-> "judge", place |-> p, state |-> p.named])
                  /\ UNCHANGED mapVars
             ELSE /\ Step(k, [at |-> "located", place |-> p, state |-> None])
                  /\ Ask(k, <<ReverseGeocode(p)>>, FALSE)
    /\ UNCHANGED <<boards, refused, requests, desk, funnelVars>>

ResolveAddress(k, p) ==
    /\ ~p.pinned /\ visit[k] = Away /\ Visit
    /\ Step(k, [at |-> "located", place |-> p, state |-> None])
    /\ Ask(k, <<Geocode(p)>>, FALSE)
    /\ UNCHANGED <<listVars, refused, requests, desk, funnelVars>>

(* The state comes with an answer of the provider; the stand-in for it has *)
(* none.  An address that is not found ends the quote.                     *)
Located(k) ==
    LET p == visit[k].place
    IN  /\ visit[k].at = "located" /\ Respond(k)
        /\ Step(k, IF seek[k].answer = "error" THEN Away
                   ELSE [visit[k] EXCEPT !.at = "judge",
                                         !.state = IF seek[k].answer = "place" THEN p.state ELSE None])
        /\ UNCHANGED <<stateVars, refused, requests, desk, funnelVars>>

(* Abroad is refused for good; outside the states served may be requested. *)
AssertWithinIndia(p) == p.india

Judge(k) ==
    LET p == visit[k].place
    IN  /\ visit[k].at = "judge"
        /\ \E view \in Consulted :
              /\ Consult(view)
              /\ refused' = IF /\ AssertWithinIndia(p)
                               /\ visit[k].state \notin ListOf(view) /\ p.named \notin ListOf(view)
                            THEN refused \cup {p} ELSE refused
        /\ Step(k, Away)
        /\ UNCHANGED <<mapVars, made, boards,
                       requests, desk, funnelVars>>

-----------------------------------------------------------------------------
(* Booking requests.  Whoever changes one has read its status before.      *)
Settled == {"ACCEPTED", "DECLINED", "CANCELLED"}
Statuses == {"NEW", "REVIEWING", "QUOTED"} \cup Settled

(* A request as it was filed: a snapshot of the rider's enquiry.            *)
RequestRow == [rider : Seekers, status : Statuses, outside : BOOLEAN]
NoDesk == [do |-> "none"]
Change == [do : {"update"}, request : 1..MaxRequests, status : Statuses]

CreateRequest(k, p) ==
    /\ Len(requests) < MaxRequests /\ Visit
    /\ \E view \in Consulted :
          /\ Consult(view)
          /\ requests' = Append(requests, [rider |-> k, status |-> "NEW",
                                           outside |-> p.named \notin ListOf(view)])
    /\ UNCHANGED <<mapVars, boards,
                   visit, refused, desk, funnelVars>>

BeginUpdateStatus(k, i, status) ==
    /\ desk[k] = NoDesk /\ i \in DOMAIN requests /\ requests[i].status \notin Settled /\ Visit
    /\ desk' = [desk EXCEPT ![k] = [do |-> "update", request |-> i, status |-> status]]
    /\ UNCHANGED <<mapVars, listVars, visit, refused, requests, funnelVars>>

BeginCancelMine(k, i) == i \in DOMAIN requests /\ requests[i].rider = k /\ BeginUpdateStatus(k, i, "CANCELLED")

UpdateStatus(k) ==
    /\ desk[k].do = "update"
    /\ requests' = [requests EXCEPT ![desk[k].request].status = desk[k].status]
    /\ desk' = [desk EXCEPT ![k] = NoDesk]
    /\ UNCHANGED <<mapVars, stateVars, visit, refused, funnelVars>>

-----------------------------------------------------------------------------
(* The funnel. *)

Attempt(k, pickup) ==
    [rider |-> k, outcome |-> "PENDING", booked |-> FALSE, notified |-> FALSE,
     pickup |-> pickup, age |-> "new"]
AttemptRow == [rider : Riders, outcome : {"PENDING", "COMPLETED", "FAILED", "ABANDONED"},
               booked : BOOLEAN, notified : BOOLEAN, pickup : BOOLEAN, age : {"new", "old", "past"}]
Rows == DOMAIN attempts
OpenRow(i) == attempts[i].outcome = "PENDING" /\ ~attempts[i].booked
NoForm == [do |-> "none"]
Forms == [do : {"track"}, rider : Riders, pickup : BOOLEAN, row : Nat]
    \cup [do : {"book"}, rider : Riders, row : Nat \ {0}] \cup [do : {"close"}, rider : Riders]
Fill(t, call) == form' = [form EXCEPT ![t] = call]
outside == <<mapVars, listVars, visit, refused, requests, desk>>

(* The form goes on with its latest open row, if it has one of today.      *)
(* Calls of one rider may run side by side.                                *)
OpenOf(k) == {i \in Rows : attempts[i].rider = k /\ OpenRow(i) /\ attempts[i].age # "past"}
BeginTrack(t, k, pickup) ==
    /\ form[t] = NoForm /\ Visit
    /\ Fill(t, [do |-> "track", rider |-> k, pickup |-> pickup,
                row |-> IF OpenOf(k) = {} THEN 0
                        ELSE CHOOSE i \in OpenOf(k) : \A j \in OpenOf(k) : j <= i])
    /\ UNCHANGED <<outside, attempts, sweep, pushed>>

Track(t) ==
    LET f == form[t]
    IN  /\ f.do = "track" /\ Fill(t, NoForm)
        /\ IF f.row = 0
           THEN /\ Len(attempts) < MaxAttempts /\ pushed' = Append(pushed, 0)
                /\ attempts' = Append(attempts, Attempt(f.rider, f.pickup))
           ELSE /\ attempts' = [attempts EXCEPT ![f.row].pickup = @ \/ f.pickup]
                /\ UNCHANGED pushed
        /\ UNCHANGED <<made, outside, sweep>>

(* Every booking that is tried has a row of its own, written before        *)
(* anything is checked and settled after.                                  *)
LogAttempt(t, k) ==
    /\ form[t] = NoForm /\ Len(attempts) < MaxAttempts /\ Visit
    /\ attempts' = Append(attempts, Attempt(k, TRUE)) /\ pushed' = Append(pushed, 0)
    /\ Fill(t, [do |-> "book", rider |-> k, row |-> Len(attempts) + 1])
    /\ UNCHANGED <<outside, sweep>>

SettleAttempt(t) ==
    LET i == form[t].row
    IN  /\ form[t].do = "book"
        /\ \/ /\ attempts' = [attempts EXCEPT ![i].outcome = "COMPLETED", ![i].booked = TRUE]
              /\ Fill(t, [do |-> "close", rider |-> form[t].rider])
           \/ /\ attempts' = [attempts EXCEPT ![i].outcome = "FAILED"] /\ Fill(t, NoForm)
        /\ UNCHANGED <<made, outside, sweep, pushed>>

CloseForBooking(t) ==
    /\ form[t].do = "close" /\ Fill(t, NoForm)
    /\ attempts' = [i \in Rows |-> IF attempts[i].rider = form[t].rider /\ OpenRow(i)
                                   THEN [attempts[i] EXCEPT !.outcome = "COMPLETED"] ELSE attempts[i]]
    /\ UNCHANGED <<made, outside, sweep, pushed>>

(* Half an hour, then a day. *)
GrowOld(i) ==
    /\ attempts[i].age # "past"
    /\ attempts' = [attempts EXCEPT ![i].age = IF @ = "new" THEN "old" ELSE "past"]
    /\ UNCHANGED <<made, outside, form, sweep, pushed>>

(* A run lists the forms to chase, then claims each and pushes.            *)
Abandoned(i) ==
    OpenRow(i) /\ ~attempts[i].notified /\ attempts[i].age = "old" /\ attempts[i].pickup
BeginSweep(w) ==
    /\ sweep[w] = {} /\ \E i \in Rows : Abandoned(i)
    /\ sweep' = [sweep EXCEPT ![w] = {i \in Rows : Abandoned(i)}]
    /\ UNCHANGED <<made, outside, attempts, form, pushed>>

(* The mutant claims whatever was listed. *)
ClaimedAsListed(i) == i \in Rows
Claimed(i) == ~attempts[i].notified

SweepAbandoned(w, i) ==
    /\ i \in sweep[w] /\ sweep' = [sweep EXCEPT ![w] = @ \ {i}]
    /\ IF Claimed(i)
       THEN /\ attempts' = [attempts EXCEPT ![i].outcome = "ABANDONED", ![i].notified = TRUE]
            /\ \E delivered \in {0, 1} : pushed' = [pushed EXCEPT ![i] = @ + delivered]
       ELSE UNCHANGED <<attempts, pushed>>
    /\ UNCHANGED <<made, outside, form>>

-----------------------------------------------------------------------------
EnquiriesInit ==
    /\ MapsInit /\ StatesInit
    /\ visit = [k \in Riders |-> Away] /\ refused = {} /\ requests = <<>>
    /\ desk = [k \in Riders |-> NoDesk]
    /\ attempts = <<>> /\ form = [t \in Tabs |-> NoForm] /\ pushed = <<>>
    /\ sweep = [w \in Sweepers |-> {}]

(* A lookup of its own: suggestions, airports, routes, distances. *)
Lookup(k, path, fr) ==
    /\ visit[k] = Away /\ Visit /\ Ask(k, path, fr)
    /\ UNCHANGED <<listVars, visit, refused, requests, desk, funnelVars>>
LookupAnswered(k) ==
    visit[k].at # "located" /\ Respond(k) /\ UNCHANGED <<stateVars, enquiryVars>>

(* A crash of the process ends the requests it is serving. *)
Crash ==
    /\ Restart /\ visit' = [k \in Riders |-> Away]
    /\ UNCHANGED <<stateVars, refused, requests, desk, funnelVars>>

Advance(k) == Seeking(k) /\ UNCHANGED <<stateVars, enquiryVars>>
Pickup(k) == Located(k) \/ Judge(k)
(* What a request does by itself, timers included. *)
Progress(k) ==
    \/ /\ Hit(k) \/ Miss(k) \/ AcquireLock(k) \/ StopWaiting(k) \/ CallProvider(k)
          \/ TimesOut(k) \/ Keep(k) \/ Leave(k)
       /\ UNCHANGED <<stateVars, enquiryVars>>
    \/ LookupAnswered(k) \/ Located(k) \/ Judge(k)
Funnel ==
    \/ \E t \in Tabs, k \in Riders :
          LogAttempt(t, k) \/ \E pickup \in BOOLEAN : BeginTrack(t, k, pickup)
    \/ \E t \in Tabs : Track(t) \/ SettleAttempt(t) \/ CloseForBooking(t)
    \/ \E i \in Rows : GrowOld(i)
    \/ \E w \in Sweepers : BeginSweep(w) \/ \E i \in Rows : SweepAbandoned(w, i)
Requests ==
    \E k \in Riders :
        \/ \E p \in Places : CreateRequest(k, p)
        \/ \E i \in DOMAIN requests :
              BeginCancelMine(k, i) \/ \E status \in Statuses : BeginUpdateStatus(k, i, status)
        \/ UpdateStatus(k)

EnquiriesNext ==
    \/ \E k \in Riders : \/ \E p \in Places : ResolveCoordinates(k, p) \/ ResolveAddress(k, p)
                         \/ \E path \in Paths, fr \in BOOLEAN : Lookup(k, path, fr)
                         \/ Advance(k) \/ LookupAnswered(k) \/ Located(k) \/ Judge(k)
    \/ CoolDown /\ UNCHANGED <<stateVars, enquiryVars>>
    \/ Crash
    \/ (EditStates \/ EditCities \/ \E h \in Hosts : Ages(h)) /\ UNCHANGED <<mapVars, enquiryVars>>
    \/ Requests \/ Funnel

(* The process goes on with what it has begun, and its timers fire; the    *)
(* provider need never answer.                                             *)
EnquiriesFairness == \A k \in Riders : WF_officeVars(Progress(k))
EnquiriesSpec == EnquiriesInit /\ [][EnquiriesNext]_officeVars /\ EnquiriesFairness

-----------------------------------------------------------------------------
(* Properties. *)

EnquiriesTypeOK ==
    /\ MapsTypeOK /\ StatesTypeOK
    /\ visit \in [Riders -> Visits \cup {Away}] /\ refused \subseteq Places
    /\ requests \in Seq(RequestRow) /\ Len(requests) <= MaxRequests
    /\ desk \in [Riders -> Change \cup {NoDesk}]
    /\ attempts \in Seq(AttemptRow) /\ form \in [Tabs -> Forms \cup {NoForm}]
    /\ sweep \in [Sweepers -> SUBSET Rows]
    /\ pushed \in Seq(Nat) /\ Len(pushed) = Len(attempts)

(* A rider is chased for a form at most once, however many runs of the     *)
(* sweeper overlap and whatever else becomes of the form                   *)
(* (funnel.sweepAbandoned).                                                *)
ChasedOnce == EnquiriesTypeOK /\ \A i \in Rows : pushed[i] <= 1

(* Whoever asks for a place, a route or a distance is answered, though the *)
(* provider never answers, Redis comes and goes, and the process whose     *)
(* lookup one waits for dies with its lock (callProvider, getOrSet).       *)
AnswersComeBack ==
    \A k \in Riders : seek[k] # Nowhere \/ visit[k] # Away ~> seek[k] = Nowhere /\ visit[k] = Away

(* "Close the rider's open draft(s) the moment they actually book, so a    *)
(* completed booking is never chased by the sweeper." (funnel.service.js)  *)
(* Refuted by this model: the sweep marks what it listed before            *)
(* (MCEnquiries.cfg).                                                      *)
BookedNotChased ==
    [][\A i \in Rows : attempts[i].outcome = "COMPLETED" => attempts'[i].outcome # "ABANDONED"]_officeVars

(* "ONE OPEN ATTEMPT PER RIDER.  Each call UPDATES the rider's open        *)
(* attempt rather than inserting a new row" (funnel.service.js).  Refuted  *)
(* by this model: two calls side by side find none open and insert two.    *)
OneOpenAttempt ==
    \A k \in Riders : (\A t \in Tabs : form[t].do = "book" => form[t].rider # k)
                          => Cardinality(OpenOf(k)) <= 1

=============================================================================
