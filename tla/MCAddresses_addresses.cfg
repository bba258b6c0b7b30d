CONSTANTS
    Customers = {c1, c2}
    AddressIds = {a1, a2}
    Sessions = {s1, s2, s3}
    NoRow = NoRow
SPECIFICATION Spec
SYMMETRY Interchangeable
INVARIANTS TypeOK OneDefaultUnlessOverlapped
PROPERTY OwnAddressesOnly
