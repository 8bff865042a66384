SPECIFICATION ScheduleSpec
CONSTANTS
    e1 = e1
    e2 = e2
    r1 = r1
    r2 = r2
    r3 = r3
    r4 = r4
    k1 = k1
    k2 = k2
    h1 = h1
    h2 = h2
    Editors = {e1, e2}
    Rows = {r1, r2, r3, r4}
    Keys = {k1, k2}
    NoKey = NoKey
    NoRow = NoRow
    MaxSlots = 2
    WeekLength = 2
    DayLength = 2
    Capacities = {Undefined, 1, 2}
    Undefined = Undefined
    b1 = b1
    b2 = b2
    Booked = {b1, b2}
    PostDates = {0, 2, 3, 4}
    PostCounts = {1, 3}
    Spacings = {0, 1}
    MaxAsked = 2
    MaxDays = 2
    Authors = {h1, h2}
    LastPost = 2
    Moments = {1, 2}
    MediaCounts = {0, 1, 10}
    Replies = {0, 2}
    MaxTries = 2
    TweetLimit = 3
    SafeLimit = 2
    MaxTweets = 3
    MaxText = 8
    MaxBad = 1
INVARIANTS
    SlotsBounded
    SearchSound
    ThreadKept
    ShownTruthfully
    AdmittedSent
    SplitKeepsText
SYMMETRY Symmetry
CHECK_DEADLOCK FALSE
