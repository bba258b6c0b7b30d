CONSTANTS
    Customers = {c1}
    Products = {p1}
    Orders = {o1}
    PaymentIds = {1, 2}
    Providers = {midtrans}
    EventIds = {e1, e2, e3}
    MaxQty = 1
    MaxStock = 1
    NoRow = NoRow
SPECIFICATION Spec
SYMMETRY Interchangeable
CONSTRAINT QuietCatalogue
INVARIANT AtMostOnePendingPayment
