SPECIFICATION Spec
CONSTANTS
    r1 = r1
    r2 = r2
    l1 = l1
    l2 = l2
    l3 = l3
    w1 = w1
    w2 = w2
    v1 = v1
    h1 = h1
    Workers = {w1, w2}
    NoWorker = NoWorker
    Slots = {}
    NoSlot = NoSlot
    MaxAttempts = 2
    MaxStalled = 1
    Refs = {r1, r2}
    NoRef = NoRef
    Logs = {l1, l2, l3}
    NoEvent = NoEvent
    Verifiers = {}
    Cancellers = {h1}
    Reported = {"charge", "create", "disable"}
    Faults = {"cancel"}
INVARIANT CancelStopsBilling
SYMMETRY Symmetry
CHECK_DEADLOCK FALSE
