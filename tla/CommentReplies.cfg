SPECIFICATION Spec
CONSTANTS
    w1 = w1
    w2 = w2
    h1 = h1
    h2 = h2
    Workers = {w1, w2}
    NoWorker = NoWorker
    Slots = {}
    NoSlot = NoSlot
    MaxAttempts = 1
    MaxStalled = 1
    Handlers = {h1, h2}
    Platforms = {"META", "SILENT", "OTHER"}
    Faults = {"crash", "stall", "net", "db"}
    MaxRetries = 2
    MaxCopies = 2
INVARIANTS
    TypeOK
    CopiesAccounted
    UpIsShown
    QueuedAttended
SYMMETRY Symmetry
CHECK_DEADLOCK FALSE
