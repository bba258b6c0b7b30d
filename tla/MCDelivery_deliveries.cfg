CONSTANTS
    Customers = {c1}
    Products = {p1}
    Orders = {o1}
    PaymentIds = {1}
    Providers = {"midtrans", "xendit"}
    EventIds <- MCEventIds
    MaxQty = 1
    MaxStock = 1
    NoRow = NoRow
    NoId = NoId
    Transactions = {t1, t2}
    Vocabulary = {"pending", "capture", "settlement", "expire", "paid"}
    MaxSent = 2
    Asked = {"PENDING_PAYMENT", "PAID", "CANCELLED", "EXPIRED"}
SPECIFICATION DFairSpec
CONSTRAINT Bounded
INVARIANTS PaidOnlyIfMoneyTaken AnsweredReportIsApplied
PROPERTIES ReportedMoneyArrives
CHECK_DEADLOCK FALSE
