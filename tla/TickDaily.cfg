\* The same instance; the promise of the design about a failed Daily.
SPECIFICATION Spec
CONSTANTS
    d1 = d1  d2 = d2
    Drafts = {d1, d2}
    NoDraft = NoDraft
    L2Every = 4
    L3Every = 8
    Day = 2
    Cooldown = 2
    BusyAt = {2, 3}
    MaxAttempts = 3
    MaxTime = 3
    MaxFaults = 1
INVARIANTS
    RecordedDailyIsDelivered
SYMMETRY DraftsAlike
CHECK_DEADLOCK FALSE
