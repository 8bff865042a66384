SPECIFICATION MembersSpec
CONSTANTS
    founder = founder
    bob = bob
    carol = carol
    i1 = i1
    i2 = i2
    i3 = i3
    h1 = h1
    h2 = h2
    People = {founder, bob, carol}
    NoOne = NoOne
    Founder = founder
    Rows = {i1, i2}
    NoRow = NoRow
    Grants = {"owner"}
    Handlers = {h1, h2}
    Limit = 2
INVARIANTS
    MembersTypeOK
    OwnerKept
    SeatsKept
SYMMETRY Symmetry
CHECK_DEADLOCK FALSE
