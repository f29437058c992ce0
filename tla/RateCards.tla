----------------------------- MODULE RateCards -----------------------------
(* The tables quotes are made from, the staff who edit them, and the cache *)
(* that quotes read them through: fareConfig.service, vehicleCatalog's     *)
(* switches, and cache.service's getOrSet with its lock.  The riders'      *)
(* lists and quotes themselves are Quoting's functions of the tables.      *)
EXTENDS Quoting

CONSTANTS
    NoEntry,
    CardIds, Classes, Types, Tariffs,
    Opening,        \* the cards the system may open with, and the classes it does not know
    CachedKeys,     \* the cache keys the riders ask for
    Readers,        \* quotes being made at one time
    Admins,         \* staff edits under way at one time
    Wanted,         \* trips riders ask for
    MaxNow,         \* bound: the last time a card may start at
    MaxEdits        \* bound: edits of the tables

CardKey(city, class, type) == <<"card", city, class, type>>
PricedKey(type) == <<"priced", type>>
PriceableKey == <<"priceable">>
ClassesKey == <<"classes">>
SwitchKey == <<"switch">>

AllKeys == {CardKey(c, v, t) : c \in Cities, v \in Classes, t \in Types}
           \cup {PricedKey(t) : t \in Types} \cup {PriceableKey, ClassesKey, SwitchKey}

(* The terms of a rate card, within what fareConfig.schemas lets in. *)
Tariff ==
    LET Money == Nat  Clock == 0 .. (DayMinutes - 1)  Multiplier == 10 .. 999
    IN  {t \in [perKm : Money, perMinute : Money, minimumKm : Nat, minKmPerDay : 0 .. 2000,
                allowance : Money, night : Money, nightPct : 0 .. 100,
                nightFrom : Clock, nightTo : Clock, airport : Money, hourly : Money,
                kmPerHour : 1 .. 200, minSurge : Multiplier, maxSurge : Multiplier,
                cancelFee : Money] : t.minSurge <= t.maxSurge}

(* A card is for one city or for all of a state. *)
Scopes == Cities \cup {City[c].state : c \in Cities}

RateCard == [scope : Scopes, class : Classes, type : Types, from : 0 .. MaxNow,
             active : BOOLEAN, tariff : Tariffs]

(* A table the system may open with: no two cards of one scope, class and  *)
(* type start at one time.                                                 *)
IsCardTable(table) ==
    /\ table \in [CardIds -> RateCard \cup {NoEntry}]
    /\ \A i, j \in CardIds : i # j /\ table[i] # NoEntry /\ table[j] # NoEntry =>
          \E column \in {"scope", "class", "type", "from"} : table[i][column] # table[j][column]

(* A trip as the validators of a quote let it in.                          *)
TripRequest ==
    [city : Cities, type : {"ONE_WAY", "ROUND_TRIP", "HOURLY", "AIRPORT"},
     pickup : Int, drop : Int, stops : Seq(Int), at : Nat, back : Nat \cup {NoTime},
     package : Nat, hours : Nat, keep : BOOLEAN, surge : Nat, corporate : BOOLEAN,
     gstin : STRING]

(* A scope names a city or a state ("city:12", "state:karnataka"), so that *)
(* no state's name is a city's.                                            *)
ASSUME RateCardsAssumption ==
    /\ Tariffs \subseteq Tariff
    /\ \A c \in Cities : City[c].state \notin Cities
    /\ "none" \notin Scopes
    /\ \A o \in Opening : IsCardTable(o.cards)
    /\ NoEntry \notin RateCard \cup Readers
    /\ Wanted \subseteq TripRequest
    /\ CachedKeys \subseteq AllKeys
    /\ MaxNow \in Nat /\ MaxEdits \in Nat

VARIABLES
    cards,      \* the table of rate cards; NoEntry where an id has no card
    classes,    \* the catalogue: which classes are listed and bookable
    off,        \* the switch that stops all bookings
    now,
    cache,      \* cache[k]: what is cached under k, or NoEntry
    cacheUp,    \* Redis can be reached
    lock,       \* lock[k]: the reader that holds the single-flight lock of k
    readers,    \* readers[p]: a call of getOrSet under way
    admins,     \* admins[a]: an edit under way
    edits
tables == <<cards, classes, off>>
cardVars == <<cards, classes, off, now, cache, cacheUp, lock, readers, admins, edits>>

Resting == [at |-> "idle"]

Cards == {cards[id] : id \in {i \in CardIds : cards[i] # NoEntry}}

db == [cards |-> Cards, classes |-> classes, off |-> off]

(* What the loader of a key reads. *)
ValueOf(k) ==
    CASE k = PriceableKey ->
            [classes |-> {c.class : c \in {d \in Cards : d.active}}, cities |-> Cities]
      [] k = ClassesKey -> classes
      [] k = SwitchKey -> [off |-> off]
      [] k[1] = "priced" -> CitiesWithPricing(Cards, k[2], now)
      [] OTHER -> [card |-> FindActiveCard(Cards, k[2], k[3], k[4], now)]

(* A class as the table makes it; a class deleted is one not listed.       *)
NewClass == [known |-> TRUE, listed |-> TRUE, bookable |-> TRUE, types |-> {}]
NoClass == [NewClass EXCEPT !.known = FALSE, !.listed = FALSE]

CardsInit ==
    /\ \E o \in Opening : /\ cards = o.cards
                          /\ classes = [c \in Classes |-> IF c \in o.unknown THEN NoClass ELSE NewClass]
    /\ off = FALSE /\ now = 0
    /\ cache = [k \in CachedKeys |-> NoEntry] /\ cacheUp = TRUE /\ lock = [k \in CachedKeys |-> NoEntry]
    /\ readers = [p \in Readers |-> Resting] /\ admins = [a \in Admins |-> Resting]
    /\ edits = 0

-----------------------------------------------------------------------------
(* getOrSet.  A hit changes nothing. *)

Read(p, r) == readers' = [readers EXCEPT ![p] = r]

(* A miss takes the key's lock, waits for who holds it, or, with Redis     *)
(* away, reads the table.                                                  *)
Miss(p, k) ==
    /\ readers[p] = Resting
    /\ cacheUp => cache[k] = NoEntry
    /\ IF cacheUp /\ lock[k] # NoEntry
       THEN Read(p, [at |-> "waiting", key |-> k]) /\ UNCHANGED lock
       ELSE /\ Read(p, [at |-> "loading", key |-> k])
            /\ lock' = IF cacheUp THEN [lock EXCEPT ![k] = p] ELSE lock
    /\ UNCHANGED <<tables, now, cache, cacheUp, admins, edits>>

(* The holder's answer arrives, or the wait is over and the waiter loads.  *)
WaitEnds(p) ==
    /\ readers[p].at = "waiting"
    /\ IF cacheUp /\ cache[readers[p].key] # NoEntry THEN Read(p, Resting)
       ELSE Read(p, [readers[p] EXCEPT !.at = "loading"])
    /\ UNCHANGED <<tables, now, cache, cacheUp, lock, admins, edits>>

Load(p) ==
    /\ readers[p].at = "loading"
    /\ Read(p, [at |-> "storing", key |-> readers[p].key, value |-> ValueOf(readers[p].key)])
    /\ UNCHANGED <<tables, now, cache, cacheUp, lock, admins, edits>>

(* A lock is released only by the reader whose token it carries. *)
Store(p) ==
    /\ readers[p].at = "storing"
    /\ LET k == readers[p].key
       IN  /\ cache' = IF cacheUp THEN [cache EXCEPT ![k] = readers[p].value] ELSE cache
           /\ lock' = IF cacheUp /\ lock[k] = p THEN [lock EXCEPT ![k] = NoEntry] ELSE lock
    /\ Read(p, Resting)
    /\ UNCHANGED <<tables, now, cacheUp, admins, edits>>

ReaderDies(p) ==
    /\ readers[p] # Resting
    /\ Read(p, Resting)
    /\ UNCHANGED <<tables, now, cache, cacheUp, lock, admins, edits>>

(* Mutant: only what was not found is stored with a time to live. *)
ExpireMisses(k) ==
    /\ cache[k] = [card |-> NoCard] /\ cache' = [cache EXCEPT ![k] = NoEntry]
    /\ UNCHANGED <<tables, now, cacheUp, lock, readers, admins, edits>>

(* An entry and a lock live for a time of their own. *)
Expire(k) ==
    /\ cache[k] # NoEntry /\ cache' = [cache EXCEPT ![k] = NoEntry]
    /\ UNCHANGED <<tables, now, cacheUp, lock, readers, admins, edits>>

LockExpires(k) ==
    /\ lock[k] # NoEntry /\ lock' = [lock EXCEPT ![k] = NoEntry]
    /\ UNCHANGED <<tables, now, cache, cacheUp, readers, admins, edits>>

Redis ==
    /\ cacheUp' = ~cacheUp
    /\ UNCHANGED <<tables, now, cache, lock, readers, admins, edits>>

Tick ==
    /\ now < MaxNow /\ now' = now + 1
    /\ UNCHANGED <<tables, cache, cacheUp, lock, readers, admins, edits>>

-----------------------------------------------------------------------------
(* Staff edits: the check, the write and the invalidation are separate.    *)

Admin(a, w) == admins' = [admins EXCEPT ![a] = w]

(* The cities a card prices, those no longer served included. *)
CitiesOf(card) == IF card.scope \in Cities THEN {card.scope} ELSE CitiesInState(card.scope)

KeysOf(card) ==
    {PriceableKey} \cup {PricedKey(t) : t \in Types}
    \cup {CardKey(c, card.class, t) : c \in CitiesOf(card), t \in Types}

Edited(a, keys) ==
    /\ edits < MaxEdits /\ edits' = edits + 1
    /\ Admin(a, [at |-> "invalidate", keys |-> keys \cap CachedKeys])
    /\ UNCHANGED <<now, cache, cacheUp, lock, readers>>

Rank(k) == CASE k = PriceableKey -> 1 [] k[1] = "priced" -> 2 [] OTHER -> 3

(* Keys are deleted one call after another; a call that cannot reach Redis *)
(* is swallowed.                                                           *)
Invalidate(a) ==
    /\ admins[a].at = "invalidate"
    /\ IF admins[a].keys = {} THEN Admin(a, Resting) /\ UNCHANGED cache
       ELSE \E k \in admins[a].keys :
              /\ \A j \in admins[a].keys : Rank(k) <= Rank(j)
              /\ Admin(a, [admins[a] EXCEPT !.keys = @ \ {k}])
              /\ cache' = IF cacheUp THEN [cache EXCEPT ![k] = NoEntry] ELSE cache
    /\ UNCHANGED <<tables, now, cacheUp, lock, readers, edits>>

AdminDies(a) ==
    /\ admins[a] # Resting
    /\ Admin(a, Resting)
    /\ UNCHANGED <<tables, now, cache, cacheUp, lock, readers, edits>>

(* The unique key of the table. *)
Clashes(id, card) ==
    \E other \in CardIds \ {id} : /\ cards[other] # NoEntry
        /\ cards[other].scope = card.scope /\ cards[other].class = card.class
        /\ cards[other].type = card.type /\ cards[other].from = card.from

WriteCard(a, id, card) ==
    /\ card # NoEntry => ~Clashes(id, card)
    /\ cards' = [cards EXCEPT ![id] = card]
    /\ Edited(a, KeysOf(IF card = NoEntry THEN cards[id] ELSE card))
    /\ UNCHANGED <<classes, off>>

(* create, and clone, which creates the same card at another scope. *)
CreateCard(a) ==
    /\ admins[a] = Resting
    /\ \E id \in CardIds, scope \in Scopes, class \in Classes,
          type \in Types, from \in {now, MaxNow}, tariff \in Tariffs :
          /\ cards[id] = NoEntry
          /\ WriteCard(a, id, [scope |-> scope, class |-> class, type |-> type, from |-> from,
                               active |-> TRUE, tariff |-> tariff])

Clone(a, source) ==
    /\ admins[a] = Resting /\ cards[source] # NoEntry
    /\ \E id \in CardIds, scope \in Scopes :
          /\ cards[id] = NoEntry
          /\ WriteCard(a, id, [cards[source] EXCEPT !.scope = scope, !.from = now, !.active = TRUE])

(* update may also move the start and retire the card, unchecked. *)
Update(a, id) ==
    /\ admins[a] = Resting /\ cards[id] # NoEntry
    /\ \E from \in {cards[id].from, MaxNow}, active \in BOOLEAN, tariff \in Tariffs :
          WriteCard(a, id, [cards[id] EXCEPT !.from = from, !.active = active, !.tariff = tariff])

Activate(a, id) ==
    /\ admins[a] = Resting /\ cards[id] # NoEntry
    /\ WriteCard(a, id, [cards[id] EXCEPT !.active = TRUE])

CoveredBy(card, city, other) ==
    /\ other # card /\ other.class = card.class /\ other.type = card.type
    /\ other.scope \in {city, City[city].state}

(* Mutant: a card that has yet to start counts as cover. *)
UnpricedLater(card) ==
    {c \in CitiesOf(card) : ~\E other \in Cards : other.active /\ CoveredBy(card, c, other)}

(* The cities no live card would price without this one. *)
UnpricedIfRemoved(card) ==
    {c \in CitiesOf(card) : ~\E other \in Live(Cards, now) : CoveredBy(card, c, other)}

CheckRemoval(a, id, op) ==
    /\ admins[a] = Resting /\ cards[id] # NoEntry
    /\ cards[id].active => UnpricedIfRemoved(cards[id]) = {}
    /\ Admin(a, [at |-> op, id |-> id])
    /\ UNCHANGED <<tables, now, cache, cacheUp, lock, readers, edits>>

(* Staff may insist on deleting the last card. *)
ForceDestroy(a, id) ==
    /\ admins[a] = Resting /\ cards[id] # NoEntry
    /\ WriteCard(a, id, NoEntry)

Deactivate(a) ==
    /\ admins[a].at = "deactivate" /\ cards[admins[a].id] # NoEntry
    /\ WriteCard(a, admins[a].id, [cards[admins[a].id] EXCEPT !.active = FALSE])

Destroy(a) ==
    /\ admins[a].at = "destroy" /\ cards[admins[a].id] # NoEntry
    /\ WriteCard(a, admins[a].id, NoEntry)

-----------------------------------------------------------------------------
(* The catalogue's switches. *)

WriteClass(a, class, entry) ==
    /\ classes' = [classes EXCEPT ![class] = entry]
    /\ Edited(a, {ClassesKey})
    /\ UNCHANGED <<cards, off>>

(* update of a class: the trips it is for. *)
UpdateClass(a, class) ==
    /\ admins[a] = Resting /\ classes[class].known
    /\ \E types \in {{}} \cup {{t} : t \in Types} :
          WriteClass(a, class, [classes[class] EXCEPT !.types = types])

SetBookingEnabled(a, class) ==
    /\ admins[a] = Resting /\ classes[class].known
    /\ \E enabled \in BOOLEAN : WriteClass(a, class, [classes[class] EXCEPT !.bookable = enabled])

SetAllBookingEnabled(a) ==
    /\ admins[a] = Resting
    /\ off' \in BOOLEAN
    /\ Edited(a, {SwitchKey})
    /\ UNCHANGED <<cards, classes>>

(* A class with live cards stays listed, as far as its check saw. *)
CheckClass(a, class) ==
    /\ admins[a] = Resting /\ classes[class].known
    /\ ~\E c \in Cards : c.class = class /\ c.active
    /\ Admin(a, [at |-> "hide", class |-> class])
    /\ UNCHANGED <<tables, now, cache, cacheUp, lock, readers, edits>>

DeactivateClass(a) ==
    /\ admins[a].at = "hide" /\ classes[admins[a].class].known
    /\ WriteClass(a, admins[a].class, [classes[admins[a].class] EXCEPT !.listed = FALSE])

ActivateClass(a, class) ==
    /\ admins[a] = Resting /\ classes[class].known
    /\ WriteClass(a, class, [classes[class] EXCEPT !.listed = TRUE])

CreateClass(a, class) ==
    /\ admins[a] = Resting /\ ~classes[class].known
    /\ WriteClass(a, class, NewClass)

(* A class nothing is named after may be deleted for good: bookings and    *)
(* cars are not modelled, and may be named after it or not.                *)
CheckDestroyClass(a, class) ==
    /\ admins[a] = Resting /\ classes[class].known
    /\ ~\E c \in Cards : c.class = class
    /\ ~\E p \in Packages : p.class = class
    /\ Admin(a, [at |-> "erase", class |-> class])
    /\ UNCHANGED <<tables, now, cache, cacheUp, lock, readers, edits>>

DestroyClass(a) ==
    /\ admins[a].at = "erase" /\ classes[admins[a].class].known
    /\ WriteClass(a, admins[a].class, NoClass)

-----------------------------------------------------------------------------
Removal(a, id) == \/ \E op \in {"deactivate", "destroy"} : CheckRemoval(a, id, op)
                  \/ ForceDestroy(a, id)

CardsNext ==
    \/ \E p \in Readers : \/ \E k \in CachedKeys : Miss(p, k)
                          \/ WaitEnds(p) \/ Load(p) \/ Store(p) \/ ReaderDies(p)
    \/ \E k \in CachedKeys : Expire(k) \/ LockExpires(k)
    \/ Redis \/ Tick
    \/ \E a \in Admins :
          \/ Invalidate(a) \/ AdminDies(a) \/ CreateCard(a) \/ Deactivate(a) \/ Destroy(a)
          \/ \E id \in CardIds : Clone(a, id) \/ Update(a, id) \/ Activate(a, id) \/ Removal(a, id)
          \/ \E c \in Classes : \/ UpdateClass(a, c) \/ SetBookingEnabled(a, c)
                                \/ CheckClass(a, c) \/ ActivateClass(a, c)
                                \/ CreateClass(a, c) \/ CheckDestroyClass(a, c)
          \/ SetAllBookingEnabled(a) \/ DeactivateClass(a) \/ DestroyClass(a)

(* A call under way ends, and an entry is gone when its time is over,      *)
(* whether or not anyone can reach Redis.                                  *)
ReadersGoOn ==
    /\ \A p \in Readers : WF_cardVars(WaitEnds(p) \/ Load(p) \/ Store(p))
    /\ \A k \in CachedKeys : WF_cardVars(Expire(k))

CardsSpec == CardsInit /\ [][CardsNext]_cardVars /\ ReadersGoOn

-----------------------------------------------------------------------------
CardsTypeOK ==
    /\ \A id \in CardIds : cards[id] # NoEntry =>
          cards[id].from \in 0..MaxNow /\ cards[id].active \in BOOLEAN
          /\ cards[id].tariff \in Tariffs /\ ~Clashes(id, cards[id])
    /\ \A k \in CachedKeys : lock[k] \in Readers \cup {NoEntry}
    /\ \A a \in Admins : admins[a].at \in {"idle", "invalidate", "deactivate", "destroy", "hide", "erase"}
    /\ \A p \in Readers : readers[p].at \in {"idle", "waiting", "loading", "storing"}
    /\ edits \in 0..MaxEdits /\ now \in 0..MaxNow

(* Once the edits are over, what the cache answers becomes and stays what  *)
(* the tables say, whatever races, lost invalidations and dead edits there *)
(* were before.                                                            *)
Current(k) == cache[k] \in {NoEntry, ValueOf(k)}
EventuallyCurrent == <>[](\A k \in CachedKeys : Current(k))

(* The list a rider chooses from and the quote of the class chosen, made   *)
(* by two separate pieces of code from the same tables, come to the same   *)
(* rupee, its tax and the kilometres included, and what is listed can be   *)
(* quoted.                                                                 *)
SamePrice(req) ==
    LET priced == CitiesWithPricing(Cards, req.type, now)
    IN  \A option \in QuoteAllClasses(db, req, priced, now).options :
            LET quote == GetQuote(db, req, option.class, priced, now)
            IN  /\ quote.quoted /\ quote.fare.total = option.fare.total
                /\ quote.tax = option.tax /\ quote.km = option.km
                /\ quote.city = option.city /\ quote.type = option.type

(* A booking made on the terms of a quote's answer is priced as the quote. *)
Answered(req, quote) ==
    [req EXCEPT !.city = quote.city, !.type = quote.type, !.package = quote.package,
                !.back = quote.back]

SameAgain(req) ==
    LET Asked(r, class) == GetQuote(db, r, class, CitiesWithPricing(Cards, r.type, now), now)
    IN  \A class \in Classes :
            LET quote == Asked(req, class)
            IN  quote.quoted => LET again == Asked(Answered(req, quote), class)
                                IN  again.quoted /\ again.fare = quote.fare /\ again.tax = quote.tax

(* What staff are shown to be on sale is what is listed and offered.       *)
SwitchesAgree ==
    \A type \in Types, class \in Classes :
        /\ class \in BookableClassesFor(db, type) <=>
              EffectivelyBookable(db, class) /\ AllowsTripType(classes[class], type)
        /\ ~off => (class \in VisibleClasses(db, type) <=> class \in BookableClassesFor(db, type))
        /\ class \in BookableClassesFor(db, type) => AssertBookable(db, class)

(* The card that prices a city is one that staff are shown for the city    *)
(* and for its state.                                                      *)
PricingIsShown ==
    \A city \in Cities, class \in Classes, type \in Types :
        LET card == FindActiveCard(Cards, city, class, type, now)
        IN  card # NoCard => card \in CardsShown(Cards, city) \cap CardsShown(Cards, City[city].state)

(* A trip whose days the booking takes is not refused for them by the      *)
(* quote, and is stored as the database wants it: back after the pickup.   *)
Departing(req) ==
    [type |-> req.type, at |-> req.at, back |-> req.back, dropAt |-> NoTime, stops |-> <<>>,
     scheduled |-> TRUE]
DaysStand(req) ==
    ValidateTiming(Departing(req), req.at - MinLeadMinutes) =>
        /\ req.type = "HOURLY" \/ TermsGiven(req)
        /\ req.type = "ROUND_TRIP" => ReturnAt(req, req.type) > req.at

(* quoteAllClasses: "This path and getQuote must agree to the rupee".      *)
(* Refuted by this model for rentals a package matches and for trips in    *)
(* town turned into one (MCRateCards.cfg, with the RentalTrips).           *)
ListedIsBooked == \A req \in Wanted : SamePrice(req)

(* The trips on which they do: all but rentals by the hour that a package  *)
(* matches, and trips in town that are turned into a rental.               *)
PlainTerms(req) ==
    LET terms == EffectiveTerms(req, CitiesWithPricing(Cards, req.type, now))
    IN  /\ ~terms.switched
        /\ terms.type = "HOURLY" /\ terms.package = NoPackageId =>
              \A c \in Classes : MatchedPackage(terms.hours, terms.city, c) = NoPackage

(* The price of another car that staff are shown is the one the change of  *)
(* car writes, unless the trip is one of those the list prices apart.      *)
OptionsStand(req) ==
    LET PricedFor(type) == CitiesWithPricing(Cards, type, now)
        quotes == {GetQuote(db, req, class, PricedFor(req.type), now) : class \in Classes} \ {Refused}
    IN  \A quote \in quotes :
            LET other == QuoteInputFor(req, quote)
            IN  PlainTerms(other) =>
                    \A o \in ListOptions(db, req, quote, PricedFor(other.type), now) :
                        LET again == GetQuote(db, other, o.class, PricedFor(other.type), now)
                        IN  again.quoted /\ again.fare.total = o.total

(* Lists and quotes are functions of the tables and the time, so that they *)
(* are looked at only while no reader is under way.                        *)
AtRest == cacheUp /\ \A p \in Readers : readers[p] = Resting

PathsAgree ==
    /\ CardsTypeOK
    /\ AtRest => SwitchesAgree /\ PricingIsShown
    /\ AtRest => \A req \in Wanted : DaysStand(req) /\ OptionsStand(req)
                                        /\ (PlainTerms(req) => SamePrice(req) /\ SameAgain(req))

(* A round trip that starts in the last minute of the day it comes back is *)
(* given back a minute after midnight, and at 21:00 of that day when it is *)
(* priced again: both touch the night when its first minute does.          *)
LastMinuteIsNight(req) ==
    req.type = "ROUND_TRIP" /\ MinuteOf(req.at) = DayMinutes - 1 /\ DayOf(req.back) = DayOf(req.at)
        => \A t \in Tariffs : IsNightMinute(DayMinutes - 1, t.nightFrom, t.nightTo)

(* The trips for which a price is a promise: on the terms a quote is given *)
(* for.                                                                    *)
Quotable(req) == TermsGiven(req) /\ LastMinuteIsNight(req)

(* The cities that can quote a class and type. *)
Priceables(class, type) ==
    {c \in Cities : FindActiveCard(Cards, c, class, type, now) # NoCard}

StayPriced ==
    \A class \in Classes, type \in Types : Priceables(class, type) \subseteq Priceables(class, type)'

(* Retiring or deleting a card, not insisted on, leaves every city that    *)
(* quoted a trip able to quote it: one edit at a time, riders and time     *)
(* going on meanwhile.                                                     *)
RetireLeavesPriced == [][(\E a \in Admins : Deactivate(a) \/ Destroy(a)) => StayPriced]_cardVars
=============================================================================
