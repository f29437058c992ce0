----------------------------- MODULE DatePicker -----------------------------
(* The days and times a customer may tap or write in the conversation:     *)
(* bot/conversation/nlu/dateParser.js and the handlers that read its       *)
(* answers.  Days are counted from 1 January 2026, months from that        *)
(* January, times in minutes; a day that may be missing is a set of one    *)
(* day or of none.                                                         *)
EXTENDS Integers, FiniteSets

CONSTANTS
    Today,      \* the day the first question is asked on
    Clocks,     \* the minutes of a day at which the customer answers
    Taps,       \* the rows of the lists sent that the customer may tap
    Phrases,    \* what the customer may write for a day
    Hours,      \* what the customer may write for a time
    MaxDays,    \* bound: days the conversation goes on
    MaxAhead,   \* bound: days from the first one to a day taken
    MaxPage     \* bound: pages a customer turns over

(* What can be tapped and written: rows of months and weeks, days named in *)
(* several ways, hours with or without a part of the day.                  *)
TapAnswer == [tap : {"month", "week", "other months", "other weeks"}, row : Nat]
DayAnswer ==
    [kind : {"today", "tomorrow", "day after tomorrow", "words"}]
    \cup [kind : {"weekday", "next weekday"}, weekday : 0..6] \cup [kind : {"day"}, day : Nat]
    \cup [kind : {"full date"}, month : Int, day : Nat]
    \cup [kind : {"day and month"}, month : 0..11, day : Nat]
PartsOfDay == {"morning", "afternoon", "evening", "night"}
TimeAnswer ==
    [kind : {"now", "words"}] \cup [kind : {"part"}, part : PartsOfDay]
    \cup [kind : {"am", "pm", "clock", "hour"}, hour : Nat, minute : Nat]
    \cup [kind : {"hour and part"}, hour : Nat, minute : Nat, part : PartsOfDay]

ASSUME DatePickerAssumption ==
    /\ Today \in Nat /\ {MaxDays, MaxAhead, MaxPage} \subseteq Nat
    /\ Clocks \subseteq 0..1439 /\ Clocks # {}
    /\ Taps \subseteq TapAnswer /\ Phrases \subseteq DayAnswer /\ Hours \subseteq TimeAnswer

VARIABLES
    now,        \* the day and the minute
    step,       \* what is asked: a step of the conversation
    view,       \* _calMonth and _calWeek of the draft
    page,       \* _timePage
    pendingDate,    \* _pendingDate, while a time of that day is asked for
    pickup,     \* pickupAt and returnAt, in minutes
    back
pickerVars == <<now, step, view, page, pendingDate, pickup, back>>

-----------------------------------------------------------------------------
(* The calendar, as dayjs counts it; 2100, no leap year, is out of reach.  *)

Year(month) == month \div 12
DaysInMonth(month) ==
    LET k == month % 12
    IN  CASE k = 1 -> IF Year(month) % 4 = 2 THEN 29 ELSE 28
          [] k \in {3, 5, 8, 10} -> 30
          [] OTHER -> 31

DaysBefore == <<0, 31, 59, 90, 120, 151, 181, 212, 243, 273, 304, 334>>
FirstOf(month) ==
    365 * Year(month) + (Year(month) + 1) \div 4 + DaysBefore[(month % 12) + 1]
    + (IF month % 12 > 1 /\ Year(month) % 4 = 2 THEN 1 ELSE 0)
LastOf(month) == FirstOf(month + 1) - 1

MonthOf(day) == CHOOSE month \in (day \div 31)..(day \div 28) : day \in FirstOf(month)..LastOf(month)

(* Sunday is 0; the first day was a Thursday.                              *)
DayOfWeek(day) == (day + 4) % 7

Later(a, b) == IF a >= b THEN a ELSE b
Sooner(a, b) == IF a <= b THEN a ELSE b
Earliest(days) == {d \in days : \A e \in days : d <= e}

-----------------------------------------------------------------------------
(* What the customer writes.                                               *)

MakeDate(month, n) ==
    IF n \in 1..DaysInMonth(month) THEN {FirstOf(month) + n - 1} ELSE {}

(* k is a month of the year. *)
Upcoming(k, n, today) ==
    LET first == Year(MonthOf(today))
    IN  Earliest({d \in UNION {MakeDate(12 * y + k, n) : y \in first..first + 4} : d >= today})

UpcomingDayOfMonth(n, today) ==
    Earliest({d \in UNION {MakeDate(MonthOf(today) + k, n) : k \in 0..12} : d >= today})

NextWeekday(w, today) ==
    LET diff == w - DayOfWeek(today) IN today + (IF diff <= 0 THEN diff + 7 ELSE diff)

ThisWeekday(w, today) ==
    LET diff == w - DayOfWeek(today) IN today + (IF diff < 0 THEN diff + 7 ELSE diff)

(* The shapes of a phrase, its wording left out. *)
ResolveDatePhrase(p, today) ==
    CASE p.kind = "today" -> {today}
      [] p.kind = "tomorrow" -> {today + 1}
      [] p.kind = "day after tomorrow" -> {today + 2}
      [] p.kind = "next weekday" -> {NextWeekday(p.weekday, today)}
      [] p.kind = "weekday" -> {ThisWeekday(p.weekday, today)}
      [] p.kind = "full date" -> MakeDate(p.month, p.day)
      [] p.kind = "day and month" -> Upcoming(p.month, p.day, today)
      [] p.kind = "day" -> UpcomingDayOfMonth(p.day, today)
      [] OTHER -> {}

MinuteOfDay(hour, minute) == IF hour \in 0..23 /\ minute \in 0..59 THEN {60 * hour + minute} ELSE {}

(* An hour and "pm", a clock time, an hour and a part of the day, an hour  *)
(* alone, a part of the day alone.                                         *)
ResolveTimePhrase(p) ==
    LET afternoon == \/ p.part = "afternoon" /\ p.hour \in 1..6
                     \/ p.part = "evening" /\ p.hour \in 4..11
                     \/ p.part = "night" /\ p.hour \in 6..11
        usual == [morning |-> 9, afternoon |-> 14, evening |-> 18, night |-> 21]
    IN  CASE p.kind = "am" /\ p.hour <= 12 -> MinuteOfDay(p.hour % 12, p.minute)
          [] p.kind = "pm" /\ p.hour <= 12 -> MinuteOfDay((p.hour % 12) + 12, p.minute)
          [] p.kind \in {"clock", "hour"} -> MinuteOfDay(p.hour, p.minute)
          [] p.kind = "hour and part" ->
                MinuteOfDay(IF afternoon THEN p.hour + 12 ELSE p.hour, p.minute)
          [] p.kind = "part" -> MinuteOfDay(usual[p.part], 0)
          [] OTHER -> {}

-----------------------------------------------------------------------------
(* The lists to tap: a month, a week of it, a day of the week.             *)

CalMonthsAhead == 12
GetCalendarBounds(from, today) ==
    LET min == Later(from, today)
    IN  [min |-> min, firstMonth |-> MonthOf(min), lastMonth |-> MonthOf(min) + CalMonthsAhead]

MonthRows == 10
GetMonthRows(min) == MonthOf(min)..MonthOf(min) + MonthRows - 1

(* Mutant: a week under way is left out.                                   *)
WeeksNotBegun(month, min) ==
    LET starts == {d \in FirstOf(month)..LastOf(month) : d = FirstOf(month) \/ DayOfWeek(d) = 0}
    IN  {[first |-> d, last |-> Sooner(d + 6 - DayOfWeek(d), LastOf(month))] :
            d \in {s \in starts : s >= min}}

(* Weeks from Sunday to Saturday, cut at the ends of the month and at min. *)
GetWeeksOfMonth(month, min) ==
    LET starts == {d \in FirstOf(month)..LastOf(month) : d = FirstOf(month) \/ DayOfWeek(d) = 0}
        weeks == {[first |-> d, last |-> Sooner(d + 6 - DayOfWeek(d), LastOf(month))] : d \in starts}
    IN  {[w EXCEPT !.first = Later(@, min)] : w \in {v \in weeks : v.last >= min}}

(* The row of index i. *)
WeekAt(weeks, i) == {w \in weeks : Cardinality({v \in weeks : v.first < w.first}) = i}

GetDatesOfWeek(week) == week.first..week.last

NotChosen == -1

(* The month kept in the draft is clamped to the bounds of the day.        *)
CalendarFor(v, from, today) ==
    LET bounds == GetCalendarBounds(from, today)
        kept == IF v.month = NotChosen THEN bounds.firstMonth ELSE v.month
    IN  [min |-> bounds.min, firstMonth |-> bounds.firstMonth, lastMonth |-> bounds.lastMonth,
         month |-> Sooner(Later(kept, bounds.firstMonth), bounds.lastMonth)]

(* A week that the month does not have shows the month's weeks.            *)
TapView(v, from, today) ==
    LET cal == CalendarFor(v, from, today)
        weeks == GetWeeksOfMonth(cal.month, cal.min)
        chosen == WeekAt(weeks, v.week)
    IN  IF v.month = NotChosen THEN [shows |-> "months", rows |-> GetMonthRows(cal.min)]
        ELSE IF chosen = {} THEN [shows |-> "weeks", rows |-> 0..Cardinality(weeks) - 1]
        ELSE [shows |-> "dates", rows |-> UNION {GetDatesOfWeek(w) : w \in chosen}]

HandleTapNav(v, answer) ==
    CASE answer.tap = "month" -> [month |-> answer.row, week |-> NotChosen]
      [] answer.tap = "week" -> [v EXCEPT !.week = answer.row]
      [] answer.tap = "other months" -> [month |-> NotChosen, week |-> NotChosen]
      [] answer.tap = "other weeks" -> [v EXCEPT !.week = NotChosen]

(* The arrows of the text calendar stop at its bounds. *)
TurnMonth(v, move, from, today) ==
    LET cal == CalendarFor(v, from, today)
    IN  IF cal.month + move \in cal.firstMonth..cal.lastMonth THEN cal.month + move ELSE cal.month

(* A month in text: the days that may be typed, and its arrows.            *)
RenderMonthCalendar(cal) ==
    [days |-> {n \in 1..DaysInMonth(cal.month) : FirstOf(cal.month) + n - 1 >= cal.min},
     canPrev |-> cal.month - 1 >= MonthOf(cal.min),
     canNext |-> cal.month + 1 <= cal.lastMonth]

(* The day is asked for with the lists or with the month in text, as the   *)
(* settings say; the forms and pages that ask for it elsewhere are bounded *)
(* by the same calendar, and what cannot be sent falls back to the next.   *)
PromptDate(v, from, today) ==
    [lists |-> TapView(v, from, today), text |-> RenderMonthCalendar(CalendarFor(v, from, today))]

(* A day number is of the month that is shown. *)
HandleCalendarAnswer(v, n, from, today) ==
    LET cal == CalendarFor(v, from, today)
    IN  {d \in MakeDate(cal.month, n) : d >= cal.min}

(* Full dates may be over; the handlers take none before from.             *)
TakenDate(v, answer, from, today) ==
    {d \in IF answer.kind = "day" THEN HandleCalendarAnswer(v, answer.day, from, today)
           ELSE ResolveDatePhrase(answer, today) : d >= from}

-----------------------------------------------------------------------------
(* The times of a day. *)

TimesPerPage == 7
SlotMinutes == 30
DayStart == 6 * 60

(* lower is now, or the outbound pickup of a return trip: day and minute.  *)
GetTimeSlots(day, lower) ==
    LET start == IF lower.day = day THEN (lower.minute \div SlotMinutes + 1) * SlotMinutes
                 ELSE IF lower.day < day THEN DayStart ELSE 1440
    IN  {m \in start..1439 : (m - start) % SlotMinutes = 0}

LastPage(slots) == Later(0, (Cardinality(slots) + TimesPerPage - 1) \div TimesPerPage - 1)

GetTimePage(slots, n) ==
    LET Rank(m) == Cardinality({s \in slots : s < m})
    IN  [rows |-> {m \in slots : Rank(m) \div TimesPerPage = n},
         earlier |-> n > 0, more |-> (n + 1) * TimesPerPage < Cardinality(slots)]

(* The page kept in the draft may lie past the last one. *)
PromptTime(slots, kept) == GetTimePage(slots, Sooner(kept, LastPage(slots)))

ChangeTimePage(kept, nav) == Later(0, kept + nav)

MinLeadMinutes == 15

At(day, minute) == 1440 * day + minute

(* "Now" is offered today, and books a little ahead of the notice needed.  *)
AnswerTime(day, answer, clock) ==
    IF answer.kind = "now"
    THEN IF clock.day = day THEN {At(clock.day, clock.minute) + MinLeadMinutes + 15} ELSE {}
    ELSE {At(day, m) : m \in ResolveTimePhrase(answer)}

(* Too soon for a car to come. *)
TooSoon(t, clock) == t - At(clock.day, clock.minute) < MinLeadMinutes

-----------------------------------------------------------------------------
(* The conversation about the times of one trip, out and back.  An answer  *)
(* may be a row of any list that was sent, however old, or a written one.  *)

Fresh == [month |-> NotChosen, week |-> NotChosen]

PickerInit ==
    /\ now \in {[day |-> Today, minute |-> m] : m \in Earliest(Clocks)}
    /\ step = "BOOKING_DROP" /\ view = Fresh /\ page = 0
    /\ pendingDate = NotChosen /\ pickup = NotChosen /\ back = NotChosen

Returning == step \in {"BOOKING_RETURN_DATE", "BOOKING_RETURN_TIME"}
AsksDay == step \in {"BOOKING_DATE", "BOOKING_RETURN_DATE"}
AsksTime == step \in {"BOOKING_TIME", "BOOKING_RETURN_TIME"}
DateStep == IF Returning THEN "BOOKING_RETURN_DATE" ELSE "BOOKING_DATE"
TimeStep == IF Returning THEN "BOOKING_RETURN_TIME" ELSE "BOOKING_TIME"

Moment(t) == [day |-> t \div 1440, minute |-> t % 1440]
Instant(m) == At(m.day, m.minute)

(* The return of a trip is not before its pickup. *)
From == IF Returning THEN Later(now.day, pickup \div 1440) ELSE now.day
Lower == IF Returning /\ pickup > Instant(now) THEN Moment(pickup) ELSE now
TimesLeft == GetTimeSlots(pendingDate, Lower)

Time(day, minute) ==
    /\ step # "BOOKING_VEHICLE_SELECTION"
    /\ day <= Today + MaxDays /\ At(day, minute) > Instant(now)
    /\ now' = [day |-> day, minute |-> minute]
    /\ UNCHANGED <<step, view, page, pendingDate, pickup, back>>

AskDate ==
    /\ step = "BOOKING_DROP" /\ step' = "BOOKING_DATE"
    /\ UNCHANGED <<now, view, page, pendingDate, pickup, back>>

(* A row of the months, the weeks or the days, or the way back from them.  *)
TapNavigation(answer) ==
    /\ AsksDay
    /\ view' = HandleTapNav(view, answer)
    /\ UNCHANGED <<now, step, page, pendingDate, pickup, back>>

(* The arrows keep the week, which only the lists look at. *)
MoveMonth(move) ==
    /\ AsksDay
    /\ view' = [view EXCEPT !.month = TurnMonth(view, move, From, now.day)]
    /\ UNCHANGED <<now, step, page, pendingDate, pickup, back>>

(* A day is taken, kept though its times are all over and it is asked again. *)
TakeDay(answer) ==
    /\ AsksDay
    /\ \E d \in TakenDate(view, answer, From, now.day) :
          /\ d <= Today + MaxAhead
          /\ pendingDate' = d
          /\ step' = IF GetTimeSlots(d, Lower) = {} THEN step ELSE TimeStep
    /\ view' = Fresh /\ page' = 0
    /\ UNCHANGED <<now, pickup, back>>

(* The times are prompted; the day is asked again when none is left on it. *)
PromptAgain == step' = IF TimesLeft = {} THEN DateStep ELSE step

TurnPage(nav) ==
    /\ AsksTime
    /\ page' = ChangeTimePage(page, nav) /\ page' <= MaxPage
    /\ PromptAgain
    /\ UNCHANGED <<now, view, pendingDate, pickup, back>>

ChangeDate ==
    /\ AsksTime
    /\ step' = DateStep /\ view' = Fresh /\ page' = 0
    /\ UNCHANGED <<now, pendingDate, pickup, back>>

(* What is not understood, or "now" for another day, and the time too soon *)
(* have the times prompted; a time that is over has the day asked.         *)
RefusePickup(answer) ==
    /\ step = "BOOKING_TIME"
    /\ LET t == AnswerTime(pendingDate, answer, now)
       IN  IF \E past \in t : past < Instant(now) THEN step' = DateStep
           ELSE (\A soon \in t : TooSoon(soon, now)) /\ PromptAgain
    /\ UNCHANGED <<now, view, page, pendingDate, pickup, back>>

(* The questions of the return keep a view, a page and a day of their own. *)
TakePickup(answer) ==
    /\ step = "BOOKING_TIME"
    /\ \E t \in AnswerTime(pendingDate, answer, now) : ~TooSoon(t, now) /\ pickup' = t
    /\ step' = "BOOKING_RETURN_DATE"
    /\ view' = Fresh /\ page' = 0 /\ pendingDate' = NotChosen
    /\ UNCHANGED <<now, back>>

(* Nobody comes back "now". *)
ReturnTime(answer) == IF answer.kind = "now" THEN {} ELSE AnswerTime(pendingDate, answer, now)

RefuseReturn(answer) ==
    /\ step = "BOOKING_RETURN_TIME"
    /\ IF ReturnTime(answer) = {} THEN PromptAgain
       ELSE (\A t \in ReturnTime(answer) : t < pickup) /\ step' = DateStep
    /\ UNCHANGED <<now, view, page, pendingDate, pickup, back>>

TakeReturn(answer) ==
    /\ step = "BOOKING_RETURN_TIME"
    /\ \E t \in ReturnTime(answer) : t >= pickup /\ back' = t
    /\ step' = "BOOKING_VEHICLE_SELECTION" /\ page' = 0
    /\ UNCHANGED <<now, view, pendingDate, pickup>>

PickerNext ==
    \/ \E day \in now.day..now.day + 1, m \in Clocks : Time(day, m)
    \/ AskDate
    \/ \E answer \in Taps : TapNavigation(answer)
    \/ \E move \in {-1, 1} : MoveMonth(move)
    \/ \E answer \in Phrases : TakeDay(answer)
    \/ \E nav \in {-1, 1} : TurnPage(nav)
    \/ ChangeDate
    \/ \E answer \in Hours : RefusePickup(answer) \/ TakePickup(answer)
    \/ \E answer \in Hours : RefuseReturn(answer) \/ TakeReturn(answer)

PickerSpec == PickerInit /\ [][PickerNext]_pickerVars

-----------------------------------------------------------------------------
(* The views one reaches from a view by its rows. *)
Opened(v, from) ==
    LET shown == TapView(v, from, now.day)
    IN  {HandleTapNav(v, [tap |-> IF shown.shows = "months" THEN "month" ELSE "week", row |-> r]) :
            r \in shown.rows}

(* Every day that may be chosen up to the end of the tenth month is on one *)
(* list, and no other day is.                                              *)
DaysAreOffered ==
    LET views == UNION {Opened(v, From) : v \in Opened(Fresh, From)}
        shown == [v \in views |-> TapView(v, From, now.day)]
    IN  /\ \A v \in views : shown[v].shows = "dates"
        /\ UNION {shown[v].rows : v \in views} = From..LastOf(MonthOf(From) + MonthRows - 1)
        /\ \A v, w \in views : v.month = w.month /\ v # w => shown[v].rows \cap shown[w].rows = {}

(* Every half hour of the chosen day that is still to come is on one page, *)
(* a page is reached from the one before it, and no time that is over is   *)
(* offered.                                                                *)
TimesAreOffered ==
    LET pages == 0..LastPage(TimesLeft)
        Page(p) == GetTimePage(TimesLeft, p)
    IN  /\ \A m \in TimesLeft : At(pendingDate, m) > Instant(Lower)
        /\ pendingDate = Lower.day => TimesLeft = {m \in 0..1439 : m % SlotMinutes = 0 /\ m > Lower.minute}
        /\ UNION {Page(p).rows : p \in pages} = TimesLeft
        /\ \A p \in pages : /\ Page(p).more <=> p + 1 \in pages
                            /\ Page(p).earlier <=> p - 1 \in pages
                            /\ Cardinality(Page(p).rows) <= TimesPerPage

(* The day a phrase names is the first one from today that it fits.        *)
Suits(p, d) ==
    CASE p.kind = "weekday" -> DayOfWeek(d) = p.weekday
      [] p.kind = "next weekday" -> DayOfWeek(d) = p.weekday /\ d # now.day
      [] p.kind = "day" -> d = FirstOf(MonthOf(d)) + p.day - 1
      [] p.kind = "day and month" -> MonthOf(d) % 12 = p.month /\ d = FirstOf(MonthOf(d)) + p.day - 1
      [] OTHER -> d \in ResolveDatePhrase(p, now.day)

Horizon == 366
PhrasesAreNearest ==
    \A p \in Phrases :
        LET fitting == {d \in now.day..now.day + Horizon : Suits(p, d)}
        IN  fitting # {} => ResolveDatePhrase(p, now.day) = Earliest(fitting)

(* Whatever view the draft kept of earlier answers, the month shown has    *)
(* days to choose.                                                         *)
ViewsHaveDays ==
    LET cal == CalendarFor(view, From, now.day)
    IN  /\ cal.month \in MonthOf(From)..MonthOf(From) + CalMonthsAhead
        /\ PromptDate(view, From, now.day).lists.rows # {}

(* The text calendar shows the days it takes and the arrows that turn.     *)
TextIsTrue ==
    LET cal == CalendarFor(view, From, now.day)
        shown == PromptDate(view, From, now.day).text
    IN  /\ shown.days = {n \in 1..31 : HandleCalendarAnswer(view, n, From, now.day) # {}}
        /\ shown.canPrev <=> TurnMonth(view, -1, From, now.day) = cal.month - 1
        /\ shown.canNext <=> TurnMonth(view, 1, From, now.day) = cal.month + 1

(* booking.service, which the conversation books with at its end.          *)
Backend == INSTANCE Fares

TripOf(type, at, returnAt) ==
    [type |-> type, at |-> at, back |-> returnAt, dropAt |-> Backend!NoTime, stops |-> <<>>,
     scheduled |-> TRUE]

(* A time taken is one the booking would be made at now, unless it is      *)
(* further ahead than bookings are made, and the two days of a round trip  *)
(* are in order for it and for the database.                               *)
TimesAreAccepted ==
    /\ step = "BOOKING_TIME" =>
          \A answer \in Hours : \A t \in AnswerTime(pendingDate, answer, now) :
              \/ t < Instant(now) \/ TooSoon(t, now)
              \/ Backend!ValidateTiming(TripOf("ONE_WAY", t, Backend!NoTime), Instant(now))
              \/ t - Instant(now) > Backend!MaxAdvanceDays * Backend!DayMinutes
    /\ step = "BOOKING_VEHICLE_SELECTION" =>
          /\ Backend!ValidateTiming(TripOf("ROUND_TRIP", pickup, back), pickup - MinLeadMinutes)
          /\ Backend!NormaliseReturnDate(back, pickup) > pickup

(* dateParser: "never a guess".  At every step the customer is shown all   *)
(* that may be chosen and nothing else, an answer means the nearest day,   *)
(* and the return follows the pickup.                                      *)
PickerIsTrue ==
    /\ AsksDay => ViewsHaveDays /\ TextIsTrue
    /\ AsksDay /\ view = Fresh => DaysAreOffered
    /\ step = "BOOKING_DATE" /\ view = Fresh => PhrasesAreNearest
    /\ AsksTime /\ TimesLeft # {} => PromptTime(TimesLeft, page).rows # {}
    /\ AsksTime /\ page = 0 => TimesAreOffered
    /\ back # NotChosen => back >= pickup
    /\ TimesAreAccepted
=============================================================================
