\* Three runs of the cron over two Daily windows, from an empty repository or one
\* in use; the group is busy in the last two; one checkpoint or worker fails.
SPECIFICATION Spec
CONSTANTS
    d1 = d1  d2 = d2
    Drafts = {d1, d2}
    NoDraft = NoDraft
    L2Every = 4
    L3Every = 8
    Day = 2
    Cooldown = 2
    BusyAt = {2, 3}
    MaxAttempts = 3
    MaxTime = 3
    MaxFaults = 1
INVARIANTS
    TypeOK
    ModelCallsBounded
    DailyPostedOnce
    RecordedDailyIsOnFile
    QuestionsSpaced
SYMMETRY DraftsAlike
CHECK_DEADLOCK FALSE
