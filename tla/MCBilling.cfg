SPECIFICATION Books
CONSTANTS
    None = None
    b1 = b1  anu = anu  c1 = c1  k1 = k1  k2 = k2  d1 = d1  g1 = g1  g2 = g2  q1 = q1
    Bookings = {b1}
    People = {anu}
    CompanyIds = {c1}
    GstinState <- GstinTable
    Registrations <- GstTable
    Limits = {20000}
    Approval = FALSE
    Clerks = {d1}
    Edits <- EditTable
    Opening <- OpeningTable
    MaxForms = 1
    Offers <- OfferTable
    Welfares = {5}
    Callers = {k1, k2}
    ReportedKm = {45}
    ReturnKm = {3}
    NamedFares = {5003}
    Notices = {45, 60}
    CardsThen <- TariffThen
    Instalments = {1000}
    MaxPayments = 2
    MaxCalls = 2
    MaxEffort = 3
    StateNames = {"Karnataka", "karnataka", "Telangana"}
    Norm <- Written
    OurGstins = {"29A", "29B", "36A"}
    CodeOf <- Codes
    Patches <- Changes
    Editors = {g1, g2}
    Lookups = {q1}
    Registered <- FirstRows
    MaxRows = 2
    MaxEdits = 3
INVARIANTS BooksBalance ChargedRightly RegisterTrue
SYMMETRY CallersAlike
CHECK_DEADLOCK FALSE
