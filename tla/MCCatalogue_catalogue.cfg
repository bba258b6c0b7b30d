SPECIFICATION Spec
CONSTANTS
    Products = {p1, p2}
    Categories = {k1}
    Slugs = {a, b, c}
    Offers = {x, y}
    Sessions = {s1, s2}
    NoRow = NoRow
SYMMETRY Interchangeable
CHECK_DEADLOCK FALSE
INVARIANTS TypeOK RowAndImagesAgree
PROPERTIES PublicAgainOnlyIfOvertaken DeletedCategoryOnlyUsedIfOvertaken
