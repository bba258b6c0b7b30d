CONSTANTS
    Customers = {c1}
    Products = {p1}
    Orders = {o1, o2}
    PaymentIds = {1}
    Providers = {midtrans}
    EventIds = {e1, e2}
    MaxQty = 1
    MaxStock = 1
    NoRow = NoRow
SPECIFICATION Spec
SYMMETRY Interchangeable
INVARIANT TypeOK
PROPERTIES StockConservation ImplementsLedger ImplementsCarts
