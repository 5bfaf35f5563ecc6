SPECIFICATION Spec
CONSTANTS
    u1 = u1  u2 = u2  t1 = t1  t2 = t2
    Updates = {u1, u2}
    Maintenance = Maintenance
    Texts = {t1}
    NoText = NoText
    Repeated = {}
    MaxAttempts = 3
    MaxFaults = 1
SYMMETRY UpdatesAlike
INVARIANTS
    AnsweredOnce
PROPERTIES
    MaintenanceNeverDecides
