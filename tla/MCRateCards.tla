---------------------------- MODULE MCRateCards ----------------------------
(* Instances of RateCards for TLC: two cities of one state, of which one   *)
(* has rental packages, and the country between them.                      *)
EXTENDS RateCards, TLC

CONSTANTS p1, p2, a1, a2

CityTable == "Blr" :> [at |-> 100, radius |-> 40, local |-> 25, state |-> "KA"]
          @@ "Mys" :> [at |-> 240, radius |-> 30, local |-> 0, state |-> "KA"]

InKA(town) == [town |-> town, state |-> "KA"]
PlaceTable == 100 :> InKA("Bengaluru") @@ 110 :> InKA("Bengaluru") @@ 130 :> InKA("none")
           @@ 180 :> InKA("Maddur") @@ 240 :> InKA("Mysuru") @@ 245 :> InKA("none")
           @@ 390 :> [town |-> "Chennai", state |-> "TN"]

Package(id, class, hours, fare) ==
    [id |-> id, city |-> "Blr", class |-> class, label |-> hours, hours |-> hours,
     km |-> 10 * hours, fare |-> fare, perKm |-> 1400, perHour |-> 15000]
PackageTable == {Package(1, "mini", 4, 90000), Package(2, "sedan", 4, 120000)}

MarketTable ==
    [areas |-> {[tier |-> "TALUKA", at |-> 240, radius |-> 20]},
     rules |-> {[tier |-> "METRO", immediate |-> 10, standard |-> 0, within |-> 60],
                [tier |-> "TALUKA", immediate |-> 5, standard |-> 5, within |-> 30]},
     routes |-> {[id |-> 1, pct |-> 8, from |-> 100, fromRadius |-> 10, to |-> 240, toRadius |-> 30,
                  bothWays |-> TRUE, starts |-> 0, ends |-> 9999]}]

GstTable == {[state |-> "KA", rate |-> 5, inclusive |-> FALSE, types |-> {"ONE_WAY", "HOURLY"},
              corporate |-> TRUE, retail |-> TRUE, byRecipient |-> FALSE, byRoute |-> TRUE]}

Day == [perKm |-> 1250, perMinute |-> 0, minimumKm |-> 50, minKmPerDay |-> 250,
        allowance |-> 30000, night |-> 0, nightPct |-> 10, nightFrom |-> 1315, nightTo |-> 360,
        airport |-> 20000, hourly |-> 25000, kmPerHour |-> 10, minSurge |-> 100, maxSurge |-> 200,
        cancelFee |-> 20000]
Dear == [Day EXCEPT !.perKm = 1501, !.perMinute = 105, !.maxSurge = 105, !.night = 25000]
TariffTable == {Day, Dear}

Card(scope, class, type, from, tariff) ==
    [scope |-> scope, class |-> class, type |-> type, from |-> from, active |-> TRUE, tariff |-> tariff]

Table(first, second, third) == "c1" :> first @@ "c2" :> second @@ "c3" :> third

(* The city's own card with its state's and one it replaced; a city's card *)
(* with its state's that has yet to start; a state's cards for three       *)
(* types; cards of two classes.                                            *)
OpeningCards ==
    {Table(Card("Blr", "mini", "ONE_WAY", 0, Day), Card("KA", "mini", "ONE_WAY", 0, Dear),
           [Card("Blr", "mini", "ONE_WAY", 1, Day) EXCEPT !.active = FALSE]),
     Table(Card("Blr", "mini", "ONE_WAY", 0, Day), Card("KA", "mini", "ONE_WAY", 1, Dear), NoEntry),
     Table(Card("KA", "mini", "ROUND_TRIP", 0, Day), Card("KA", "mini", "HOURLY", 0, Day),
           Card("KA", "mini", "AIRPORT", 0, Dear)),
     Table(Card("KA", "sedan", "HOURLY", 0, Dear), Card("KA", "mini", "HOURLY", 0, Day), NoEntry)}

(* Staff know a third class, without any card, from the start or not. *)
OpeningTables == {[cards |-> table, unknown |-> IF table["c3"] = NoEntry THEN {"van"} ELSE {}] :
                    table \in OpeningCards}

Trip(type, from, to) ==
    [city |-> "Blr", type |-> type, pickup |-> from, drop |-> to, stops |-> <<>>, at |-> 1320,
     back |-> NoTime, package |-> NoPackageId, hours |-> 0, keep |-> FALSE, surge |-> 100, corporate |-> FALSE,
     gstin |-> "none"]

PlainTrips ==
    {Trip("ONE_WAY", 100, 240), [Trip("ONE_WAY", 180, 100) EXCEPT !.stops = <<240>>],
     Trip("ONE_WAY", 240, 245), [Trip("ONE_WAY", 100, 110) EXCEPT !.keep = TRUE],
     [Trip("ROUND_TRIP", 100, 240) EXCEPT !.back = 1439],
     [Trip("ROUND_TRIP", 100, 240) EXCEPT !.at = 1439, !.back = 1380],
     [Trip("ROUND_TRIP", 100, 390) EXCEPT !.back = 1440], Trip("AIRPORT", 100, 130),
     [Trip("HOURLY", 100, 100) EXCEPT !.package = 1], [Trip("HOURLY", 100, 100) EXCEPT !.hours = 5]}

RentalTrips ==
    PlainTrips \cup {[Trip("HOURLY", 100, 100) EXCEPT !.hours = 4],
                     [Trip("ONE_WAY", 100, 110) EXCEPT !.package = 1]}

WatchedKeys == {CardKey("Mys", "mini", "ONE_WAY")}
=============================================================================
