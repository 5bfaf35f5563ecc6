\* Two jobs that share the file of the delivery state, and two sessions, which
\* persist in the receipt-only mode.
SPECIFICATION Spec
CONSTANTS
    s1 = s1  s2 = s2  j1 = j1  j2 = j2  t1 = t1  t2 = t2
    Sessions = {s1, s2}
    NoJob = NoJob
    NoText = NoText
    MaxPosts = 6
    Jobs = {j1, j2}
    Texts = {t1}
    NumParts <- OnePart
    PersistMode = "receipt-only"
SYMMETRY JobSymmetry
PROPERTIES
    KeepsPromise
