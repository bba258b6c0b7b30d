CONSTANTS
    Customers = {c1}
    Products = {p1}
    Orders = {o1}
    PaymentIds = {1, 2}
    Providers = {midtrans}
    EventIds = {e1, e2, e3}
    MaxQty = 1
    MaxStock = 1
    Sessions = {s1, s2}
    Reported = {"PAID", "CANCELLED"}
    Asked = {"CANCELLED"}
    NoRow = NoRow
SPECIFICATION TxSpec
SYMMETRY Interchangeable
CONSTRAINT Orderables
INVARIANT OnePaidPaymentPerReference
