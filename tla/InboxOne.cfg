SPECIFICATION FairSpec
CONSTANTS
    u1 = u1  u2 = u2  t1 = t1  t2 = t2
    Updates = {u1}
    Maintenance = Maintenance
    Texts = {t1, t2}
    NoText = NoText
    Repeated = {u1}
    MaxAttempts = 3
    MaxFaults = 3
INVARIANTS
    TypeOK
    AcceptedKept
    AnsweredOnce
    StoresAgree
PROPERTIES
    SilentAfterTombstone
    DecidedSettles
