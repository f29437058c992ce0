SPECIFICATION Counter
CONSTANTS
    None = None
    c1 = c1
    c2 = c2
    phone = phone
    rider = rider
    driver = driver
    ops = ops
    b1 = b1
    Calls = {c1, c2}
    Payers = {phone}
    Asks <- AskTable
    MaxLost = 1
    Typed = {2}
    Estimate = 2
    Totals = {3}
    MaxInstruments = 2
    MaxChanges = 1
    Users = {rider, driver, ops}
    RoleOf <- RoleTable
    Bookings = {b1}
    CustomerOf <- CustomerTable
    Sockets = {1}
    MaxConnections = 2
SYMMETRY Slots
INVARIANTS AskedOnce MoneyPlaced ToldRightly
CHECK_DEADLOCK FALSE
