SPECIFICATION CardsSpec
CONSTANTS
    NoEntry = NoEntry
    p1 = p1  p2 = p2  a1 = a1  a2 = a2
    Cities = {"Blr", "Mys"}
    City <- CityTable
    Packages <- PackageTable
    Market <- MarketTable
    Registrations <- GstTable
    Places <- PlaceTable
    ServiceStates = {"KA"}
    CardIds = {"c1", "c2", "c3"}
    Classes = {"mini", "sedan", "van"}
    Types = {"ONE_WAY", "ROUND_TRIP", "HOURLY", "AIRPORT"}
    Tariffs <- TariffTable
    Opening <- OpeningTables
    CachedKeys <- WatchedKeys
    Wanted <- PlainTrips
    Readers = {p1}
    Admins = {a1}
    MaxNow = 1
    MaxEdits = 1
INVARIANTS PathsAgree
PROPERTIES RetireLeavesPriced EventuallyCurrent
CHECK_DEADLOCK FALSE
