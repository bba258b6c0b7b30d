CONSTANTS
    Customers = {c1, c2}
    Products = {p1, p2}
    Orders = {o1, o2}
    Sessions = {s1, s2}
    MaxQty = 1
    MaxStock = 1
    Managed = {p1}
    Statuses = {"PAID", "CANCELLED"}
    NoRow = NoRow
SPECIFICATION FairSpec
INVARIANTS TxTypeOK StandstillIsCircle
PROPERTIES ImplementsStore EveryRequestAnswered
CHECK_DEADLOCK FALSE
