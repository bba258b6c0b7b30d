SPECIFICATION Spec
CONSTANTS
    Customers = {c1, c2}
    Products = {p1}
    CartIds = {k1, k2}
    ItemIds = {1, 2}
    Orders = {o1, o2}
    Sessions = {s1, s2}
    MaxQty = 1
    MaxStock = 2
    NoRow = NoRow
SYMMETRY Symmetry
CONSTRAINT Bounded
CHECK_DEADLOCK FALSE
INVARIANTS TypeOK OneOrderPerCart
PROPERTIES RequestsTakeEffect DoubledOnlyByOvertaking OthersUntouched
