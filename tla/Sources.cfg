\* One pull request and one issue; a baseline and two scans, while GitHub changes
\* at any moment; one checkpoint or worker fails.
SPECIFICATION Spec
CONSTANTS
    p1 = p1  i1 = i1  h1 = h1  h2 = h2
    Pulls = {p1}
    Issues = {i1}
    Heads = {h1, h2}
    NoHead = NoHead
    MaxAge = 1
    MaxTime = 2
    MaxChanges = 3
    MaxFaults = 1
INVARIANTS
    MergesAnnounced
    EvidenceCurrent
PROPERTIES
    AnnouncedOnce
SYMMETRY HeadsAlike
CHECK_DEADLOCK FALSE
