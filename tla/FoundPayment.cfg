SPECIFICATION Spec
CONSTANTS
    r1 = r1
    r2 = r2
    l1 = l1
    l2 = l2
    l3 = l3
    w1 = w1
    w2 = w2
    v1 = v1
    h1 = h1
    Workers = {w1}
    NoWorker = NoWorker
    Slots = {}
    NoSlot = NoSlot
    MaxAttempts = 3
    MaxStalled = 1
    Refs = {r1}
    NoRef = NoRef
    Logs = {l1}
    NoEvent = NoEvent
    Verifiers = {v1}
    Cancellers = {}
    Reported = {"charge"}
    Faults = {}
INVARIANT PaymentHonored
SYMMETRY Symmetry
CHECK_DEADLOCK FALSE
