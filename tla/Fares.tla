------------------------------- MODULE Fares -------------------------------
(* How a trip is priced: fare.service, surge.service, gst.service and      *)
(* lib/returnDate as operators.  Money is counted in paise, percentages    *)
(* and surge multipliers in hundredths, instants in minutes of the city's  *)
(* clock, and a place is the kilometre it lies at.                         *)
EXTENDS Integers, FiniteSets

DayMinutes == 1440
DayOf(t) == t \div DayMinutes
MinuteOf(t) == t % DayMinutes
NoTime == -1

Larger(a, b) == IF a >= b THEN a ELSE b
Smaller(a, b) == IF a <= b THEN a ELSE b
Apart(a, b) == IF a >= b THEN a - b ELSE b - a

(* Halves are rounded up; the amounts here are never negative. *)
Percent(amount, percent) == (amount * percent + 50) \div 100
RoundRupee(amount) == ((amount + 50) \div 100) * 100

-----------------------------------------------------------------------------
(* The days a trip is charged for, and its return date. *)

(* Every calendar day the trip touches. *)
ChargeableDays(pickup, back) ==
    IF back <= pickup THEN 1 ELSE DayOf(back) - DayOf(pickup) + 1

(* The rider names a return day; the hour is 21:00 of it, or its last      *)
(* minute, or a minute after a pickup that leaves no other.                *)
NormaliseReturnDate(back, pickup) ==
    LET nine == DayOf(back) * DayMinutes + 21 * 60
        last == DayOf(back) * DayMinutes + DayMinutes - 1
    IN  IF nine > pickup THEN nine ELSE IF last > pickup THEN last ELSE pickup + 1

ReturnDateIsValid(back, pickup) == DayOf(back) >= DayOf(pickup)

MinLeadMinutes == 15
MaxAdvanceDays == 90
ClockSkew == 5

(* A pickup in the past is refused, and one too soon or too far ahead      *)
(* unless it is for now.                                                   *)
PickupInTime(t, clock) ==
    /\ t.at >= clock - ClockSkew
    /\ t.scheduled => t.at - clock \in MinLeadMinutes .. MaxAdvanceDays * DayMinutes

(* A round trip has a return day, a trip with stops a drop day, neither    *)
(* before the day of the pickup, and no other trip has either.             *)
ValidateTiming(t, clock) ==
    /\ PickupInTime(t, clock)
    /\ IF t.type = "ROUND_TRIP"
       THEN t.back # NoTime /\ ReturnDateIsValid(t.back, t.at) /\ t.dropAt = NoTime
       ELSE /\ t.back = NoTime
            /\ t.type = "HOURLY" => t.dropAt = NoTime
            /\ t.type # "HOURLY" /\ t.stops # <<>> => t.dropAt # NoTime
            /\ t.dropAt # NoTime => ReturnDateIsValid(t.dropAt, t.at)

-----------------------------------------------------------------------------
(* The parts of a fare.  c is a rate card, t a trip:                       *)
(* type, km, minutes, at, back, surge, package, hours.                     *)

(* A card as the form of the rate cards lets it in, and a measured trip. *)
IsRateCard(c) ==
    /\ {c.perKm, c.perMinute, c.minimumKm, c.minKmPerDay, c.allowance, c.night, c.nightPct,
        c.airport, c.hourly, c.kmPerHour, c.cancelFee} \subseteq Nat
    /\ c.minSurge \in 10 .. 999 /\ c.maxSurge \in c.minSurge .. 999

IsTrip(t) ==
    /\ {t.km, t.minutes, t.hours, t.at} \subseteq Nat /\ t.back \in Nat \cup {NoTime}
    /\ t.surge \in Nat
    /\ {t.package.hours, t.package.km, t.package.fare, t.package.perKm, t.package.perHour} \subseteq Nat

(* A window whose end is its start is empty; one that ends before it       *)
(* starts wraps past midnight.                                             *)
IsNightMinute(m, from, to) ==
    CASE from = to -> FALSE
      [] from < to -> m >= from /\ m < to
      [] OTHER -> m >= from \/ m < to

(* Either end of the trip, not what lies between them. *)
TouchesNight(t, c) ==
    \E instant \in {t.at, t.back} \ {NoTime} : IsNightMinute(MinuteOf(instant), c.nightFrom, c.nightTo)

IsAllowanceExempt(type) == type = "AIRPORT"

ClampSurge(surge, c) == Smaller(Larger(surge, c.minSurge), c.maxSurge)

NoPackage == [hours |-> 0, km |-> 0, fare |-> 0, perKm |-> 0, perHour |-> 0]

(* core is what the night percentage is taken of. *)
Priced(t, c, f) ==
    LET exempt == IsAllowanceExempt(t.type)
        bata == IF exempt THEN 0 ELSE c.allowance * f.days
        night == IF exempt \/ ~TouchesNight(t, c) THEN 0
                 ELSE c.night + Percent(f.core, c.nightPct)
        airport == IF t.type = "AIRPORT" THEN c.airport ELSE 0
        subtotal == f.base + f.distance + f.time + bata + night + airport
        demand == Percent(subtotal, ClampSurge(t.surge, c) - 100)
    IN  [type |-> t.type, base |-> f.base, distance |-> f.distance, time |-> f.time,
         bata |-> bata, night |-> night, airport |-> airport, demand |-> demand,
         subtotal |-> subtotal, total |-> RoundRupee(subtotal + demand),
         days |-> f.days, km |-> t.km, perKm |-> c.perKm, hours |-> f.hours, perHour |-> f.perHour]

CanPriceHourly(t, c) == t.package # NoPackage \/ c.hourly > 0

(* A package, or hours at the card's rate with so many kilometres an hour. *)
ComputeHourlyFare(t, c) ==
    LET packaged == t.package # NoPackage
        hours == IF packaged THEN t.package.hours ELSE t.hours
        core == IF packaged THEN t.package.fare ELSE t.hours * c.hourly
        km == IF packaged THEN t.package.km ELSE t.hours * c.kmPerHour
        perKm == IF packaged THEN t.package.perKm ELSE c.perKm
    IN  Priced(t, c, [base |-> core, distance |-> Larger(0, t.km - km) * perKm, time |-> 0,
                      core |-> core, days |-> 1, hours |-> hours, perHour |-> t.package.perHour])

(* The kilometres paid for, driven or not. *)
GuaranteedKm(t, c, days) ==
    Larger(c.minimumKm, IF t.type = "ROUND_TRIP" THEN c.minKmPerDay * days ELSE 0)

ComputeDistanceFare(t, c) ==
    LET round == t.type = "ROUND_TRIP"
        days == IF round THEN ChargeableDays(t.at, t.back) ELSE 1
        charge == Larger(t.km, GuaranteedKm(t, c, days)) * c.perKm
    IN  Priced(t, c, [base |-> 0, distance |-> charge, core |-> charge, days |-> days,
                      time |-> IF round THEN 0 ELSE t.minutes * c.perMinute,
                      hours |-> 0, perHour |-> c.hourly])

ComputeFare(t, c) ==
    IF t.type = "HOURLY" THEN ComputeHourlyFare(t, c) ELSE ComputeDistanceFare(t, c)

(* What the flat fee comes to so many whole minutes before pickup.         *)
ComputeCancellationFee(minutesToPickup, flat, freeFrom, shortUpTo) ==
    CASE minutesToPickup >= freeFrom -> [fee |-> 0, band |-> "FREE"]
      [] minutesToPickup < freeFrom /\ minutesToPickup <= shortUpTo ->
            [fee |-> flat, band |-> "SHORT_NOTICE"]
      [] OTHER -> [fee |-> 0, band |-> "INTERMEDIATE"]

(* What the trip came to beyond what was quoted, at the quote's own rates. *)
ComputeExtraDistanceCharge(quote, actualKm) == Larger(0, actualKm - quote.km) * quote.perKm

ComputeExtraTimeCharge(quote, hourly, actualHours) ==
    Larger(0, actualHours - quote.hours) * (IF quote.perHour > 0 THEN quote.perHour ELSE hourly)

-----------------------------------------------------------------------------
(* Surge: a percentage of the pickup's tier, or of the route, never both. *)

Metro == "METRO"

Classify(areas, place) ==
    LET inside == {a \in areas : Apart(a.at, place) <= a.radius}
    IN  IF inside = {} THEN Metro
        ELSE (CHOOSE a \in inside :
                 \A b \in inside : Apart(a.at, place) <= Apart(b.at, place)).tier

WithinWindow(route, at) == at >= route.starts /\ at <= route.ends

MatchesCorridor(route, pickup, drop) ==
    LET Joins(from, to) == Apart(from, route.from) <= route.fromRadius
                           /\ Apart(to, route.to) <= route.toRadius
    IN  Joins(pickup, drop) \/ (route.bothWays /\ Joins(drop, pickup))

(* The dearest route, then the narrowest, then the first. *)
Outranks(r, s) ==
    LET spread == r.fromRadius + r.toRadius
        other == s.fromRadius + s.toRadius
    IN  \/ r.pct > s.pct
        \/ r.pct = s.pct /\ (spread < other \/ (spread = other /\ r.id <= s.id))

RoutePct(routes, pickup, drop, at) ==
    LET hits == {r \in routes : WithinWindow(r, at) /\ MatchesCorridor(r, pickup, drop)}
    IN  IF hits = {} THEN 0 ELSE (CHOOSE r \in hits : \A s \in hits : Outranks(r, s)).pct

TierPct(rules, tier, notice) ==
    LET mine == {r \in rules : r.tier = tier}
    IN  IF mine = {} THEN 0
        ELSE LET rule == CHOOSE r \in mine : TRUE
             IN  IF notice <= rule.within THEN rule.immediate ELSE rule.standard

(* market: areas, rules and routes. *)
ResolveSurge(market, pickup, drop, at, now) ==
    100 + Larger(TierPct(market.rules, Classify(market.areas, pickup), at - now),
                 RoutePct(market.routes, pickup, drop, at))

-----------------------------------------------------------------------------
(* GST, by the registration of the state of supply. *)

NoRegistration == [state |-> "none", rate |-> 0, inclusive |-> FALSE, types |-> {},
                   corporate |-> FALSE, retail |-> FALSE, byRecipient |-> FALSE, byRoute |-> FALSE]

ResolveConfig(configs, state) ==
    LET mine == {c \in configs : c.state = state}
    IN  IF mine = {} THEN NoRegistration ELSE CHOOSE c \in mine : TRUE

(* The rate that applies to this trip, 0 when none does. *)
ResolveRate(config, type, corporate) ==
    IF type \in config.types /\ (IF corporate THEN config.corporate ELSE config.retail)
    THEN config.rate ELSE 0

(* The recipient's state decides when the registration says so and it is   *)
(* known, otherwise the states of the route may.                           *)
ResolveSplitKind(config, dropState, recipientState) ==
    LET place == IF config.byRecipient /\ recipientState # "none" THEN recipientState
                 ELSE IF config.byRoute /\ dropState # "none" THEN dropState ELSE config.state
    IN  IF place = config.state THEN "INTRA" ELSE "INTER"

(* Half up, as above. *)
Divide(a, b) == (2 * a + b) \div (2 * b)

CentralHalf(tax) == Divide(tax, 2)

ApplyGst(amount, rate, inclusive, split) ==
    LET taxable == IF inclusive THEN Divide(amount * 100, 100 + rate) ELSE amount
        total == IF inclusive THEN amount ELSE amount + Percent(amount, rate)
        tax == total - taxable
        cgst == IF split = "INTRA" THEN CentralHalf(tax) ELSE 0
        sgst == IF split = "INTRA" THEN tax - cgst ELSE 0
    IN  [taxable |-> taxable, tax |-> tax, total |-> total,
         cgst |-> cgst, sgst |-> sgst, igst |-> tax - cgst - sgst]
=============================================================================
