------------------------------ MODULE Notices ------------------------------
(***************************************************************************)
(* What a rider who is not connected is told about a booking: the events   *)
(* of the booking and the sweeper that queue a notice (producers.js,       *)
(* tripReminderSweeper), the text, the push and the mail it becomes        *)
(* (notification.job, notify.provider, sms.service, email.service), and    *)
(* the devices pushes go to (push.service).                                *)
(*                                                                         *)
(* JobDelivery shows what the queue makes of a notice: however often it is *)
(* queued and delivered, one delivery commits its record and at most that  *)
(* one goes on to send it (EffectOnce, NeverSentTwice).  Here a notice is  *)
(* therefore recorded once, at any time after it was queued, and its       *)
(* sender may stop before each of the sends.                               *)
(***************************************************************************)
EXTENDS JobDelivery

CONSTANTS
    Users,           \* people with an account
    Bookings,        \* bookings notices are about
    CustomerOf,      \* whose bookings these are
    Reached,         \* bookings with a mobile number and an address that takes mail
    NoticeTypes,     \* the types of notices the instance follows
    Tokens,          \* the devices users sign in on
    MaxTokens,       \* MAX_TOKENS_PER_USER
    Taps,            \* slots for concurrent registrations
    MaxRegistrations \* bound: registrations of devices

(* TEMPLATES: the template of each type of notice.                         *)
Templates ==
    [TRIP_REMINDER     |-> "trip_reminder",
     BOOKING_RECEIVED  |-> "booking_confirmed",
     BOOKING_CONFIRMED |-> "booking_confirmed_internal",
     DRIVER_ASSIGNED   |-> "driver_assigned",
     BOOKING_CANCELLED |-> "booking_cancelled"]

ASSUME NoticesAssumption ==
    /\ CustomerOf \in [Bookings -> Users] /\ Reached \subseteq Bookings
    /\ NoticeTypes \subseteq DOMAIN Templates
    /\ MaxTokens \in Nat \ {0} /\ MaxRegistrations \in Nat
    /\ {"text", "mail"} \cap Tokens = {}

VARIABLES
    rides,           \* the statuses of the bookings
    due,             \* what the reminder sweeper has read and not yet queued
    agreed,          \* history: bookings an admin has confirmed
    stage,           \* how far each notice has come
    addressed,       \* the devices a push has read
    heard,           \* history: what was delivered, and to which ear
    devices,         \* device_tokens, each with the registration that saw it last
    taps,            \* registrations that have yet to trim
    registered,      \* bound: registrations so far
    untrimmed        \* history: users one of whose registrations failed before it trimmed

deskVars == <<rides, due, agreed>>
sendVars == <<stage, addressed, heard>>
deviceVars == <<devices, taps, registered, untrimmed>>
noticeVars == <<deskVars, sendVars, deviceVars>>

(* A notice: the key notif:<type>:<booking> of runOnce.                    *)
Notice == NoticeTypes \X Bookings

Device == [token : Tokens, user : Users, id : 1 .. MaxRegistrations, seen : 1 .. MaxRegistrations]

NoTap == [at |-> "idle"]

NoticeTypeOK ==
    /\ rides \in [Bookings -> {"NONE", "PENDING", "CONFIRMED", "ALLOCATED", "EN_ROUTE", "CANCELLED"}]
    /\ due \subseteq Bookings /\ agreed \subseteq Bookings
    /\ stage \in [Notice -> {"none", "queued", "text", "push", "deliver", "mail", "over"}]
    /\ addressed \in [Notice -> SUBSET Tokens]
    /\ heard \subseteq Notice \X ({"text", "mail"} \cup Tokens)
    /\ devices \subseteq Device
    /\ taps \in [Taps -> {NoTap} \cup [at : {"count"}, user : Users]
                         \cup [at : {"trim"}, user : Users, ids : SUBSET (1 .. MaxRegistrations)]]
    /\ registered \in 0 .. MaxRegistrations /\ untrimmed \subseteq Users

NoticeInit ==
    /\ rides = [b \in Bookings |-> "NONE"] /\ due = {} /\ agreed = {}
    /\ stage = [n \in Notice |-> "none"] /\ addressed = [n \in Notice |-> {}]
    /\ heard = {}
    /\ devices = {} /\ taps = [p \in Taps |-> NoTap]
    /\ registered = 0 /\ untrimmed = {}
-----------------------------------------------------------------------------
(***************************************************************************)
(* What queues a notice.                                                   *)
(***************************************************************************)

(* add: fire and forget.  A notice that was queued before is queued again  *)
(* to be skipped.                                                          *)
Queue(type, b) ==
    stage' = IF type \in NoticeTypes /\ stage[<<type, b>>] = "none"
             THEN [stage EXCEPT ![<<type, b>>] = "queued"] ELSE stage

Added(type, b) == UNCHANGED stage \/ Queue(type, b)

Turn(b, before, after) ==
    /\ rides[b] \in before
    /\ rides' = [rides EXCEPT ![b] = after]

(* BOOKING_CREATED.                                                        *)
Book(b) ==
    /\ Turn(b, {"NONE"}, "PENDING") /\ Added("BOOKING_RECEIVED", b)
    /\ UNCHANGED <<due, agreed>>

(* BOOKING_CONFIRMED: the admin's.                                         *)
Confirm(b) ==
    /\ Turn(b, {"PENDING"}, "CONFIRMED") /\ Added("BOOKING_CONFIRMED", b)
    /\ agreed' = agreed \cup {b}
    /\ UNCHANGED due

(* ALLOCATION_MADE: of the first car or of another one.                    *)
Allocate(b) ==
    /\ Turn(b, {"CONFIRMED", "ALLOCATED"}, "ALLOCATED") /\ Added("DRIVER_ASSIGNED", b)
    /\ UNCHANGED <<due, agreed>>

(* markEnRoute: a status the queue is not told of.                         *)
EnRoute(b) ==
    /\ Turn(b, {"ALLOCATED"}, "EN_ROUTE")
    /\ UNCHANGED <<stage, due, agreed>>

(* BOOKING_CANCELLED.                                                      *)
Cancel(b) ==
    /\ Turn(b, {"PENDING", "CONFIRMED", "ALLOCATED", "EN_ROUTE"}, "CANCELLED") /\ Added("BOOKING_CANCELLED", b)
    /\ UNCHANGED <<due, agreed>>

Remindable == {"CONFIRMED", "ALLOCATED", "EN_ROUTE"}

(* tripReminderSweeper: the trips that start in about an hour ...          *)
SweepRead ==
    /\ due = {}
    /\ due' \in SUBSET { b \in Bookings : rides[b] \in Remindable }
    /\ UNCHANGED <<stage, rides, agreed>>

(* ... are queued one after the other, whatever became of them since.      *)
SweepQueue(b) ==
    /\ b \in due /\ due' = due \ {b}
    /\ Added("TRIP_REMINDER", b)
    /\ UNCHANGED <<rides, agreed>>

Desk ==
    /\ \/ \E b \in Bookings : Book(b) \/ Confirm(b) \/ Allocate(b) \/ EnRoute(b) \/ Cancel(b)
       \/ SweepRead
       \/ \E b \in Bookings : SweepQueue(b)
    /\ UNCHANGED <<addressed, heard, deviceVars>>
-----------------------------------------------------------------------------
(***************************************************************************)
(* What a notice becomes.                                                  *)
(***************************************************************************)

SmsKindAll == {"booking_confirmed", "booking_confirmed_internal"}

(* SMS_KIND: the templates MSG91 has; the others are logged.               *)
SmsKind == {"booking_confirmed"}

PushTypes == {"TRIP_REMINDER", "BOOKING_RECEIVED", "DRIVER_ASSIGNED", "BOOKING_CANCELLED"}

EmailTypes == {"BOOKING_RECEIVED"}

Proceeds(n, from, to) == stage[n] = from /\ stage' = [stage EXCEPT ![n] = to]

(* Some of the ears hear a notice: a provider may refuse.                  *)
Reach(n, ears) == \E told \in SUBSET ears : heard' = heard \cup ({n} \X told)

(* The transaction of handle: the record with the number to text.          *)
Record(n) ==
    /\ Proceeds(n, "queued", "text")
    /\ UNCHANGED <<addressed, heard, devices>>

(* The text; a failure is caught.                                          *)
SendText(n) ==
    /\ Proceeds(n, "text", "push")
    /\ Reach(n, IF Templates[n[1]] \in SmsKind /\ n[2] \in Reached THEN {"text"} ELSE {})
    /\ UNCHANGED <<addressed, devices>>

DevicesOf(u) == { d \in devices : d.user = u }

(* pushToUser reads the devices of the booking's customer ...              *)
ReadDevices(n) ==
    LET mine == { d.token : d \in DevicesOf(CustomerOf[n[2]]) }
        goes == n[1] \in PushTypes /\ mine # {}
    IN
    /\ Proceeds(n, "push", IF goes THEN "deliver" ELSE "mail")
    /\ addressed' = [addressed EXCEPT ![n] = IF goes THEN mine ELSE {}]
    /\ UNCHANGED <<heard, devices>>

(* ... sends to them, and drops those Firebase says are dead.              *)
Push(n) ==
    /\ Proceeds(n, "deliver", "mail")
    /\ \E gone \in SUBSET addressed[n] :
          /\ Reach(n, addressed[n] \ gone)
          /\ devices' = { d \in devices : d.token \notin gone }
    /\ addressed' = [addressed EXCEPT ![n] = {}]

(* sendConfirmationEmail: never throws.                                    *)
Mail(n) ==
    /\ Proceeds(n, "mail", "over")
    /\ Reach(n, IF n[1] \in EmailTypes /\ n[2] \in Reached THEN {"mail"} ELSE {})
    /\ UNCHANGED <<addressed, devices>>

(* The worker stops, and the next delivery is skipped.                     *)
Drop(n) ==
    /\ stage[n] \in {"text", "push", "deliver", "mail"}
    /\ stage' = [stage EXCEPT ![n] = "over"]
    /\ addressed' = [addressed EXCEPT ![n] = {}]
    /\ UNCHANGED <<heard, devices>>

Handle ==
    /\ \E n \in Notice :
          Record(n) \/ SendText(n) \/ ReadDevices(n) \/ Push(n) \/ Mail(n) \/ Drop(n)
    /\ UNCHANGED <<deskVars, taps, registered, untrimmed>>
-----------------------------------------------------------------------------
(***************************************************************************)
(* Devices.                                                                *)
(***************************************************************************)

(* What lies beyond the n rows of a user that were seen last.              *)
Beyond(u, n) ==
    { d \in DevicesOf(u) : Cardinality({ e \in DevicesOf(u) : e.seen > d.seen }) >= n }

ExcessOneLate(u) == { d.id : d \in Beyond(u, MaxTokens + 1) }

Excess(u) == { d.id : d \in Beyond(u, MaxTokens) }

(* registerToken: the row of the token is made, or pointed at the user ... *)
Register(p, u, t) ==
    LET old == { d \in devices : d.token = t } IN
    /\ taps[p] = NoTap /\ registered < MaxRegistrations
    /\ registered' = registered + 1
    /\ \E id \in IF old = {} THEN {registered'} ELSE { d.id : d \in old } :
          devices' = (devices \ old) \cup {[token |-> t, user |-> u, id |-> id, seen |-> registered']}
    /\ taps' = [taps EXCEPT ![p] = [at |-> "count", user |-> u]]
    /\ UNCHANGED untrimmed

(* ... the user's rows are read ...                                        *)
Count(p) ==
    /\ taps[p].at = "count"
    /\ LET u == taps[p].user IN
       /\ taps' = [taps EXCEPT ![p] = IF Excess(u) = {} THEN NoTap
                                      ELSE [at |-> "trim", user |-> u, ids |-> Excess(u)]]
       /\ untrimmed' = untrimmed \ {u}
    /\ UNCHANGED <<devices, registered>>

(* ... and those too many are deleted, by their ids.                       *)
Trim(p) ==
    /\ taps[p].at = "trim"
    /\ devices' = { d \in devices : d.id \notin taps[p].ids }
    /\ taps' = [taps EXCEPT ![p] = NoTap]
    /\ UNCHANGED <<registered, untrimmed>>

(* A query fails, or the process stops.                                    *)
GiveUp(p) ==
    /\ taps[p] # NoTap
    /\ taps' = [taps EXCEPT ![p] = NoTap]
    /\ untrimmed' = untrimmed \cup {taps[p].user}
    /\ UNCHANGED <<devices, registered>>

Unregister(u, t) ==
    /\ \E d \in DevicesOf(u) : d.token = t
    /\ devices' = { d \in devices : d.token # t \/ d.user # u }
    /\ UNCHANGED <<taps, registered, untrimmed>>

Phones ==
    /\ \/ \E p \in Taps :
          \/ \E u \in Users, t \in Tokens : Register(p, u, t)
          \/ Count(p) \/ Trim(p) \/ GiveUp(p)
       \/ \E u \in Users, t \in Tokens : Unregister(u, t)
    /\ UNCHANGED <<deskVars, sendVars>>
-----------------------------------------------------------------------------
NoticesNext == Desk \/ Handle \/ Phones

AllVars == <<vars, noticeVars>>

NothingSent == Init /\ NoticeInit

(* The queue and the notices it carries, side by side.                     *)
NoticesSpec ==
    /\ NothingSent
    /\ [][ \/ Next /\ UNCHANGED noticeVars
           \/ NoticesNext /\ UNCHANGED vars ]_AllVars
    /\ \A w \in Workers : WF_AllVars(WorkerStep(w) /\ UNCHANGED noticeVars)
    /\ \A j \in Jobs :
          /\ WF_AllVars(Recover(j) /\ UNCHANGED noticeVars)
          /\ SF_AllVars((\E w \in Workers : Take(w, j)) /\ UNCHANGED noticeVars)
-----------------------------------------------------------------------------
(* What the rider is told is so and is told once: one text and one mail    *)
(* say "confirmed", although a booking is received and later confirmed by  *)
(* an admin, and a reminder is heard only of a trip an admin has agreed to *)
(* run.                                                                    *)
ToldTruly ==
    /\ \A b \in Bookings, via \in {"text", "mail"} \cup Tokens :
          ~ {<<"BOOKING_RECEIVED", b>>, <<"BOOKING_CONFIRMED", b>>} \X {via} \subseteq heard
    /\ \A m \in heard : m[1][1] = "TRIP_REMINDER" => m[1][2] \in agreed

(* No user's device rows grow past the limit, whatever registrations run   *)
(* side by side and move devices between users; one that failed half-way   *)
(* leaves one row too many until the user's next registration.             *)
DevicesBounded ==
    /\ NoticeTypeOK
    /\ \A u \in Users :
        (\A p \in Taps : taps[p] # NoTap => taps[p].user # u) /\ u \notin untrimmed
            => Cardinality(DevicesOf(u)) <= MaxTokens
=============================================================================
