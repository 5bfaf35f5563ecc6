SPECIFICATION Spec
CONSTANTS
    s1 = s1  s2 = s2  j1 = j1  j2 = j2  t1 = t1  t2 = t2
    Sessions = {s1, s2}
    NoJob = NoJob
    NoText = NoText
    MaxPosts = 6
    Jobs = {j1}
    Texts = {t1, t2}
    NumParts <- LongAndShort
    PersistMode = "full"
INVARIANTS
    TypeOK
    PostedOnce
    RecordsTrue
PROPERTIES
    KeepsPromise
