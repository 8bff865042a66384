SPECIFICATION Spec
CONSTANTS
    u1 = u1
    u2 = u2
    o1 = o1
    o2 = o2
    o3 = o3
    s1 = s1
    s2 = s2
    s3 = s3
    p1 = p1
    p2 = p2
    p3 = p3
    a = a
    b = b
    r1 = r1
    r2 = r2
    q1 = q1
    Clients = {u1, u2}
    MaxTokens = 4
    MaxResets = 2
    NoToken = NoToken
    Admins = {u1, u2}
    Spaces = {s1, s2, s3}
    MaxWorkspaces = 2
    Team = {p1, p2}
    Nobody = Nobody
    NoSpace = NoSpace
    Founders = {o1, o2, o3}
    LastSlug = 2
    NoFounder = NoFounder
    Keepers = {u1, u2}
    RoleIds = {r1, r2}
    Permissions = {q1}
    NoRole = NoRole
    Importers = {u1, u2}
    Places = {a, b}
    Pages = {p1, p2, p3}
    Room = 1
    MaxImport = 2
    NoPlace = NoPlace
    NoPage = NoPage
    m1 = m1
    m2 = m2
    Ringers = {u1, u2}
    Mates = {m1, m2}
    NoMate = NoMate
INVARIANTS
    
    OrganizationsKept
    ConnectionsKept
SYMMETRY Symmetry
CHECK_DEADLOCK FALSE
