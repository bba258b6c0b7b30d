CONSTANTS
    Customers = {c1}
    Products = {p1}
    Orders = {o1}
    PaymentIds = {1, 2}
    Providers = {midtrans, xendit}
    EventIds = {e1, e2, e3}
    MaxQty = 1
    MaxStock = 1
    MaxEvents = 3
    NoRow = NoRow
SPECIFICATION HSpec
SYMMETRY Interchangeable
CONSTRAINT QuietShop
INVARIANTS PaidNotificationApplied SettledPaymentClosesOrder ReopenedOrderIsPaid UnsoldOrderReturnsStock
PROPERTIES PaidPaymentFinal AcceptedMoneyMarksOrderPaid LateFailureNeverUndoesPaid
