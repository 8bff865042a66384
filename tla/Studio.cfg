SPECIFICATION Spec
CONSTANTS
    w1 = w1
    w2 = w2
    p1 = p1
    p2 = p2
    r1 = r1
    f1 = f1
    f2 = f2
    f3 = f3
    Runners = {w1, w2}
    LastDay = 2
    MaxFollowers = 1
    Attempts = 1
    Kinds = {"LINKEDIN_PAGE", "FACEBOOK"}
    NoDay = NoDay
    Fetchers = {w1, w2}
    Sent = {p1, p2}
    SnapDays = 1
    MaxLikes = 1
    NoFigure = NoFigure
    Sites = {"FACEBOOK", "LINKEDIN_PERSON"}
    q1 = q1
    q2 = q2
    x1 = x1
    x2 = x2
    x3 = x3
    Boards = {"pages", "posts"}
    Pages = {q1, q2}
    Network <- MCNetwork
    Pieces = {x1, x2, x3}
    LastDate = 2
    MarkDates = {0, 1}
    MaxCount = 1
    Hours = {0, 1}
    TopTake = 2
    TopBuffer = 2
    NoCount = NoCount
    Planners = {w1, w2}
    Camps = {r1}
    Horizon = 3
    NoCamp = NoCamp
    Uploaders = {w1, w2}
    Files = {f1, f2, f3}
    NoFile = NoFile
    Callers = {w1, w2}
    Monthly <- MCMonthly
    Batches = {1, 2, 3}
INVARIANTS
    FiguresTrue
    ContentKept
    CreditsKept
SYMMETRY Symmetry
CHECK_DEADLOCK FALSE
