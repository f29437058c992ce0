SPECIFICATION EnquiriesSpec
CONSTANTS
    None = None
    k1 = k1
    k2 = k2
    KA = KA
    TN = TN
    e1 = e1
    e2 = e2
    c1 = c1
    c2 = c2
    f1 = f1
    f2 = f2
    w1 = w1
    w2 = w2
    h1 = h1
    h2 = h2
    s1 = s1
    s2 = s2
    Seekers = {k1, k2}
    Questions <- MCQuestions
    Threshold = 2
    MaxTerminals = 2
    States = {KA, TN}
    BuiltIn = {KA, TN}
    Hosts = {h1, h2}
    Here = h1
    Towns = {c1, c2}
    Staff = {e1, e2}
    Tabs = {f1, f2}
    Sweepers = {w1, w2}
    Places <- MCPlaces
    Paths <- MCPaths
    MaxCalls = 2
    MaxAttempts = 2
    MaxRequests = 1
PROPERTIES
    AnswersComeBack
INVARIANTS
    ProbeIsOut
    OpenStaysOpen
    ChasedOnce
CHECK_DEADLOCK FALSE
