SPECIFICATION FairSpec
CONSTANTS
    twitter = twitter
    facebook = facebook
    instagram = instagram
    w1 = w1
    w2 = w2
    h1 = h1
    h2 = h2
    r1 = r1
    t1 = t1
    t2 = t2
    Workers = {w1, w2}
    NoWorker = NoWorker
    Slots = {t1}
    NoSlot = NoSlot
    Dests = {twitter, facebook}
    NoDest = NoDest
    Replies <- MCReplies
    Facebook = {facebook}
    Instagram = {}
    Handlers = {h1}
    Removers = {r1}
    Ops = {}
    Faults = {"net", "stall"}
    MaxAttempts = 2
    MaxStalled = 1
    MaxEdits = 1
PROPERTIES
    JobSettles
    ClaimReleased
    ScheduledSettles
CHECK_DEADLOCK FALSE
