SPECIFICATION Spec
CONSTANTS
    w1 = w1
    w2 = w2
    a1 = a1
    m1 = m1
    m2 = m2
    Workers = {w1, w2}
    NoWorker = NoWorker
    Slots = {}
    NoSlot = NoSlot
    MaxAttempts = 1
    MaxStalled = 1
    Agents = {a1}
    NoAgent = NoAgent
    Messages = {m1, m2}
    NParts = 2
    Faults = {"crash", "stall", "net", "db"}
    MaxNow = 4
INVARIANTS
    TypeOK
    AcceptedKept
    UnreadShown
    OutcomeTrue
    ReplyAttended
SYMMETRY Symmetry
CHECK_DEADLOCK FALSE
