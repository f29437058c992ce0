------------------------------ MODULE Quoting ------------------------------
(* What a rider is quoted: the list of every class for a trip              *)
(* (quoteAllClasses) and the quote of one class (getQuote), as functions   *)
(* of the tables they read.  db holds the rate cards, the catalogue of     *)
(* classes and the switch that stops all bookings.                         *)
EXTENDS Fares, Sequences

CONSTANTS
    Cities,         \* the cities served
    City,           \* City[c]: at, radius, local, state; local is 0 when unset
    Packages,       \* rental packages: id, city, class, label and terms
    Market,         \* areas, rules and routes of surge
    Registrations,  \* GST registrations
    Places,         \* Places[km]: the town and state a geocoder names there, or "none"
    ServiceStates   \* the states riders are picked up in

(* The rows of the tables, within what the validators of the settings      *)
(* screens let in: money in paise, times in minutes, places and radii in   *)
(* kilometres, surges and rates in percent.                                *)
IsRentalPackage(p) ==
    /\ p.city \in Cities /\ p.id \in Nat \ {0}
    /\ {p.hours, p.km, p.fare, p.perKm, p.perHour} \subseteq Nat

AreaTier == {"METRO", "DISTRICT", "TALUKA", "VILLAGE"}

IsServiceArea(a) == a.tier \in AreaTier /\ a.at \in Int /\ a.radius \in 1 .. 200

IsSurgeRule(r) ==
    /\ r.tier \in AreaTier /\ r.within \in 1 .. DayMinutes
    /\ {r.immediate, r.standard} \subseteq 0 .. 100

(* A corridor: two circles, one way or both, for the trips of a window.    *)
IsSurgeRoute(r) ==
    /\ {r.from, r.to} \subseteq Int /\ {r.fromRadius, r.toRadius} \subseteq 1 .. 200
    /\ r.bothWays \in BOOLEAN /\ r.pct \in 0 .. 100
    /\ {r.starts, r.ends} \subseteq Int /\ r.starts < r.ends

(* Who is taxed, on which trips, and how the tax is split.                 *)
IsGstConfig(g) ==
    /\ g.rate \in 0 .. 100 /\ g.types \subseteq {"ONE_WAY", "ROUND_TRIP", "AIRPORT", "HOURLY"}
    /\ {g.inclusive, g.corporate, g.retail, g.byRecipient, g.byRoute} \subseteq BOOLEAN

ASSUME QuotingAssumption ==
    /\ Cities # {} /\ IsFiniteSet(Cities)
    /\ \A c \in Cities : City[c].radius > 0
    /\ \A p \in Packages : IsRentalPackage(p)
    /\ \A p, q \in Packages : p.id = q.id => p = q
    /\ \A a \in Market.areas : IsServiceArea(a)
    /\ \A r \in Market.rules : IsSurgeRule(r)
    /\ \A r \in Market.routes : IsSurgeRoute(r)
    /\ \A g \in Registrations : IsGstConfig(g)

NoCity == "nowhere"
NoCard == [scope |-> "none"]
NoPackageId == 0

-----------------------------------------------------------------------------
(* Rate cards: of a city, or of every city of a state. *)

Live(cards, now) == {c \in cards : c.active /\ c.from <= now}

(* No two cards of one scope, class and type start at one time. *)
Newest(cards) ==
    IF cards = {} THEN NoCard ELSE CHOOSE c \in cards : \A d \in cards : d.from <= c.from

(* The mutant lets the newer card win, whatever its scope. *)
FindNewestCard(cards, city, class, type, now) ==
    Newest({c \in Live(cards, now) : c.class = class /\ c.type = type
                                     /\ c.scope \in {city, City[city].state}})

FindActiveCard(cards, city, class, type, now) ==
    LET Of(scope) == Newest({c \in Live(cards, now) :
                                c.class = class /\ c.type = type /\ c.scope = scope})
    IN  IF Of(city) # NoCard THEN Of(city) ELSE Of(City[city].state)

CitiesInState(state) == {c \in Cities : City[c].state = state}

(* The cards staff are shown for a city or for a state: those that price   *)
(* it, whatever they are of.                                               *)
CardsShown(cards, place) ==
    {c \in cards : c.active /\ c.scope \in
        IF place \in Cities THEN {place, City[place].state} ELSE {place} \cup CitiesInState(place)}

CitiesWithPricing(cards, type, now) ==
    {c \in Cities : \E card \in Live(cards, now) :
        card.type = type /\ card.scope \in {c, City[c].state}}

-----------------------------------------------------------------------------
(* Which city a trip is of, and whether it stays inside it. *)

Km(city, place) == Apart(City[city].at, place)

IsServiceable(city, place) == Km(city, place) <= City[city].radius

NearestOf(cities, place) ==
    CHOOSE c \in cities : \A d \in cities : Km(c, place) <= Km(d, place)

NearestActiveCity(place) == NearestOf(Cities, place)

(* A pickup outside the city asked for belongs to the nearest priced city, *)
(* or to the nearest when none is priced.                                  *)
ResolveOperatingCity(place, requested, priced) ==
    IF IsServiceable(requested, place) THEN requested
    ELSE IF priced = {} THEN NearestActiveCity(place) ELSE NearestOf(priced, place)

AssertPickupWithinServiceStates(pickup) == Places[pickup].state \in ServiceStates

AssertDistinctEndpoints(type, pickup, drop) == type \in {"ONE_WAY", "AIRPORT"} => pickup # drop

DefaultLocalRadius == 25
CityLimitsKm(city) ==
    Smaller(IF City[city].local > 0 THEN City[city].local ELSE DefaultLocalRadius, City[city].radius)

IsSameCityTrip(pickup, drop, city) ==
    Km(city, pickup) <= CityLimitsKm(city) /\ Km(city, drop) <= CityLimitsKm(city)

MaxLocalTripKm == 60

(* Both ends in one town, or inside the limits of the operating city or of *)
(* the one nearest to the pickup.                                          *)
DetectSameCityTrip(type, pickup, drop, city) ==
    /\ type \in {"ONE_WAY", "ROUND_TRIP"}
    /\ \/ Apart(pickup, drop) <= MaxLocalTripKm
          /\ Places[pickup].town # "none" /\ Places[pickup].town = Places[drop].town
       \/ \E c \in {city, NearestActiveCity(pickup)} : IsSameCityTrip(pickup, drop, c)

PackagesOf(city) == {p \in Packages : p.city = city}

(* A city without packages lends its local trips to its nearest neighbour  *)
(* of the same state that has some.                                        *)
ResolveRentalCity(city) ==
    LET siblings == {c \in CitiesInState(City[city].state) \ {city} : PackagesOf(c) # {}}
    IN  IF PackagesOf(city) # {} THEN city
        ELSE IF siblings = {} THEN NoCity ELSE NearestOf(siblings, City[city].at)

(* The terms of a trip that stays in town are those of a local rental, if  *)
(* there are packages; the rider must then have chosen one.                *)
LocalSwitch(req, city) ==
    LET local == ~req.keep /\ DetectSameCityTrip(req.type, req.pickup, req.drop, city)
        rental == ResolveRentalCity(city)
    IN  [applied |-> local /\ rental # NoCity, city |-> rental,
         needsPackage |-> req.package = NoPackageId]

(* What is priced in the end: the city, the type and the rental's terms.   *)
EffectiveTerms(req, priced) ==
    LET city == ResolveOperatingCity(req.pickup, req.city, priced)
        switch == LocalSwitch(req, city)
    IN  IF switch.applied
        THEN [city |-> switch.city, type |-> "HOURLY", package |-> req.package, hours |-> 0,
              switched |-> TRUE, refused |-> switch.needsPackage]
        ELSE [city |-> city, type |-> req.type, package |-> req.package, hours |-> req.hours,
              switched |-> FALSE, refused |-> FALSE]

(* The kilometres of the road, one way through the stops. *)
PathKm(points) ==
    LET km[n \in 1..Len(points)] == IF n = 1 THEN 0 ELSE km[n - 1] + Apart(points[n - 1], points[n])
    IN  km[Len(points)]

(* A round trip is driven twice, a rental has no distance of its own.      *)
Route(req, type) ==
    LET km == PathKm(<<req.pickup>> \o req.stops \o <<req.drop>>)
        times == IF type = "HOURLY" THEN 0 ELSE IF type = "ROUND_TRIP" THEN 2 ELSE 1
    IN  [km |-> times * km, minutes |-> times * km]

-----------------------------------------------------------------------------
(* The classes that may be booked. *)

AllowsTripType(entry, type) == entry.types = {} \/ type \in entry.types

IsBookable(entry) == entry.bookable

(* A class the catalogue does not show is not refused. *)
AssertBookable(db, class) ==
    ~db.off /\ (db.classes[class].listed => IsBookable(db.classes[class]))

AssertClassAllowed(db, class, type) ==
    db.classes[class].listed => AllowsTripType(db.classes[class], type)

(* The three places that say what may be booked: the classes offered       *)
(* elsewhere, the screen staff switch them on, and the list below.         *)
BookableClassesFor(db, type) ==
    {c \in DOMAIN db.classes : ~db.off /\ db.classes[c].listed
                               /\ IsBookable(db.classes[c]) /\ AllowsTripType(db.classes[c], type)}

EffectivelyBookable(db, class) ==
    db.classes[class].listed /\ db.classes[class].bookable /\ ~db.off

AssertAnythingBookable(db) ==
    LET known == {c \in DOMAIN db.classes : db.classes[c].listed}
    IN  ~db.off /\ (known # {} => \E c \in known : IsBookable(db.classes[c]))

-----------------------------------------------------------------------------
(* The quote of one class. *)

Terms(p) == [id |-> p.id, hours |-> p.hours, km |-> p.km, fare |-> p.fare, perKm |-> p.perKm, perHour |-> p.perHour]

OnePackage(packages) == IF packages = {} THEN NoPackage ELSE Terms(CHOOSE p \in packages : TRUE)

(* The package chosen, or the same one of this class. *)
ChosenPackage(id, city, class) ==
    LET requested == {p \in PackagesOf(city) : p.id = id}
    IN  OnePackage({p \in PackagesOf(city) : p.class = class
                       /\ \E q \in requested : p.label = q.label
                                               /\ (q.class = class => p.id = q.id)})

(* Hours that come to a package are charged as the package. *)
MatchedPackage(hours, city, class) ==
    LET same == {p \in PackagesOf(city) : p.class = class /\ p.hours = hours}
    IN  OnePackage({p \in same : \A q \in same : p.fare <= q.fare})

TermsGiven(req) ==
    /\ req.type = "ROUND_TRIP" => req.back # NoTime
    /\ req.type = "HOURLY" => req.package # NoPackageId \/ req.hours > 0
    /\ req.back # NoTime => ReturnDateIsValid(req.back, req.at)

ReturnAt(req, type) == IF type = "ROUND_TRIP" THEN NormaliseReturnDate(req.back, req.at) ELSE NoTime

(* A booking that is priced again pays no less a surge than it did.        *)
SurgeOf(req, now) == Larger(req.surge, ResolveSurge(Market, req.pickup, req.drop, req.at, now))

Refused == [quoted |-> FALSE]

(* The tax of a fare, by the state of the pickup.                          *)
TaxOf(req, type, total) ==
    LET config == ResolveConfig(Registrations, Places[req.pickup].state)
        split == ResolveSplitKind(config, Places[req.drop].state, req.gstin)
    IN  ApplyGst(total, ResolveRate(config, type, req.corporate), config.inclusive, split)

(* What the app is told: what was priced, and on which terms, for the      *)
(* booking to be made of.                                                  *)
QuoteAnswer(req, terms, trip, fare) ==
    [quoted |-> TRUE, city |-> terms.city, type |-> terms.type, km |-> trip.km,
     package |-> IF trip.package = NoPackage THEN NoPackageId ELSE trip.package.id,
     back |-> trip.back, surge |-> trip.surge, switched |-> terms.switched, fare |-> fare,
     tax |-> TaxOf(req, terms.type, fare.total)]

(* card is what getFareConfig answers for the city, class and type.        *)
PriceOne(req, terms, class, card, now) ==
    LET hourly == terms.type = "HOURLY"
        package == IF hourly /\ terms.package # NoPackageId
                   THEN ChosenPackage(terms.package, terms.city, class)
                   ELSE IF hourly THEN MatchedPackage(terms.hours, terms.city, class)
                   ELSE NoPackage
        route == Route(req, terms.type)
        trip == [type |-> terms.type, km |-> route.km, minutes |-> route.minutes, at |-> req.at,
                 back |-> ReturnAt(req, terms.type), surge |-> SurgeOf(req, now),
                 package |-> package, hours |-> terms.hours]
    IN  IF hourly /\ (IF terms.package # NoPackageId THEN package = NoPackage
                      ELSE ~CanPriceHourly(trip, card.tariff))
        THEN Refused
        ELSE QuoteAnswer(req, terms, trip, ComputeFare(trip, card.tariff))

(* priced are the cities that resolveOperatingCity takes as priced.        *)
GetQuote(db, req, class, priced, now) ==
    LET terms == EffectiveTerms(req, priced)
        card == FindActiveCard(db.cards, terms.city, class, terms.type, now)
    IN  IF /\ TermsGiven(req) /\ AssertDistinctEndpoints(req.type, req.pickup, req.drop)
           /\ AssertPickupWithinServiceStates(req.pickup) /\ ~terms.refused
           /\ AssertBookable(db, class) /\ AssertClassAllowed(db, class, terms.type)
           /\ card # NoCard
        THEN PriceOne(req, terms, class, card, now) ELSE Refused

-----------------------------------------------------------------------------
(* The list of every class. *)

VisibleClasses(db, type) ==
    {c \in DOMAIN db.classes : db.classes[c].listed /\ IsBookable(db.classes[c])
                               /\ AllowsTripType(db.classes[c], type)}

(* City cards first, then the latest; the first of each class is taken.    *)
RankedBefore(a, b, city) ==
    IF (a.scope = city) # (b.scope = city) THEN a.scope = city ELSE a.from > b.from

ListedCards(db, city, type, now) ==
    LET scoped == {c \in Live(db.cards, now) : c.type = type /\ c.scope \in {city, City[city].state}
                                               /\ c.class \in VisibleClasses(db, type)}
    IN  {c \in scoped : ~\E d \in scoped : d.class = c.class /\ RankedBefore(d, c, city)}

(* Hours are not matched to a package here. *)
ListedPackage(terms, class) ==
    IF terms.type = "HOURLY" /\ terms.package # NoPackageId
    THEN ChosenPackage(terms.package, terms.city, class) ELSE NoPackage

(* The type, the hours and the return day are those asked for, the city    *)
(* and the distance those of the trip's terms.                             *)
ListFare(req, terms, card, now) ==
    LET route == Route(req, terms.type)
        trip == [type |-> req.type, km |-> route.km, minutes |-> route.minutes, at |-> req.at,
                 back |-> ReturnAt(req, terms.type), surge |-> SurgeOf(req, now),
                 package |-> ListedPackage(terms, card.class), hours |-> req.hours]
    IN  ComputeFare(trip, card.tariff)

Priceable(req, terms, card) ==
    req.type = "HOURLY" =>
        IF req.package # NoPackageId THEN ListedPackage(terms, card.class) # NoPackage
        ELSE card.tariff.hourly > 0

(* The rate and the split are found once for the list, for the type priced. *)
ListedTax(req, terms, total) ==
    LET supply == Places[req.pickup].state
        config == ResolveConfig(Registrations, supply)
    IN  ApplyGst(total, ResolveRate(config, terms.type, req.corporate), config.inclusive,
                 ResolveSplitKind(config, Places[req.drop].state, req.gstin))

ListedOption(req, terms, card, now) ==
    LET fare == ListFare(req, terms, card, now)
    IN  [class |-> card.class, city |-> terms.city, type |-> terms.type,
         km |-> Route(req, terms.type).km, fare |-> fare, tax |-> ListedTax(req, terms, fare.total)]

(* An empty list is answered with an error.                                *)
Listed(options) == [listed |-> options # {}, options |-> options]

(* One class without an hourly rate fails the whole list. *)
QuoteAllClasses(db, req, priced, now) ==
    LET terms == EffectiveTerms(req, priced)
        cards == ListedCards(db, terms.city, terms.type, now)
        shown == {c \in cards : Priceable(req, terms, c)}
    IN  IF /\ AssertAnythingBookable(db)
           /\ AssertDistinctEndpoints(req.type, req.pickup, req.drop)
           /\ AssertPickupWithinServiceStates(req.pickup) /\ ~terms.refused
           /\ req.type = "HOURLY" => req.package # NoPackageId \/ req.hours > 0
           /\ req.type = "HOURLY" /\ req.package = NoPackageId => shown = cards
        THEN Listed({ListedOption(req, terms, c, now) : c \in shown})
        ELSE Listed({})

-----------------------------------------------------------------------------
(* A booking priced again for another car (bookingVehicle.service): the    *)
(* points, days and terms it was booked on, as a private rider's trip, and *)
(* a trip kept out of town's rentals is not kept again.                    *)
QuoteInputFor(req, quote) ==
    [req EXCEPT !.city = quote.city, !.type = quote.type, !.package = quote.package,
                !.back = quote.back, !.surge = quote.surge,
                !.keep = FALSE, !.corporate = FALSE, !.gstin = "none"]

(* What staff choose from, with the difference to what was agreed. *)
ListOptions(db, req, quote, priced, now) ==
    LET listed == QuoteAllClasses(db, QuoteInputFor(req, quote), priced, now)
    IN  {[class |-> o.class, total |-> o.fare.total, difference |-> o.fare.total - quote.fare.total] :
            o \in listed.options}
=============================================================================
