SPECIFICATION Spec
CONSTANTS
    twitter = twitter
    facebook = facebook
    instagram = instagram
    w1 = w1
    w2 = w2
    h1 = h1
    h2 = h2
    r1 = r1
    t1 = t1
    t2 = t2
    Workers = {w1, w2}
    NoWorker = NoWorker
    Slots = {t1, t2}
    NoSlot = NoSlot
    Dests = {facebook, instagram}
    NoDest = NoDest
    Replies <- MCReplies
    Facebook = {facebook}
    Instagram = {instagram}
    Handlers = {h1}
    Removers = {r1}
    Ops = {"update", "delete", "clear", "file"}
    Faults = {"crash", "restart", "net", "db"}
    MaxAttempts = 2
    MaxStalled = 1
    MaxEdits = 1
INVARIANTS
    VerdictTrue
    GoneNotSent
SYMMETRY Symmetry
CHECK_DEADLOCK FALSE
