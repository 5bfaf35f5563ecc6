\* Two runs that overlap, two in all; two edits, of two sources or of one, where
\* the second undoes the first.
SPECIFICATION Spec
CONSTANTS
    w1 = w1  w2 = w2  e1 = e1  e2 = e2
    spec1 = spec1  impl1 = impl1  spec2 = spec2
    Workers = {w1, w2}
    Ercs = {e1, e2}
    Sources = {spec1, impl1, spec2}
    ErcOf <- ErcOfSource
    KindOf <- KindOfSource
    RequiredKinds = {"normative_spec"}
    ContentOf <- EditAndUndo
    MaxEdits = 2
    NoJob = NoJob
    Resolved = Resolved
    NoCheckout = NoCheckout
    NoUnit = NoUnit
    MaxErcsPerRun = 2
    MaxReplies = 2
    MaxStarts = 2
    MaxFaults = 1
INVARIANTS
    NoChangeForgotten
PROPERTIES
    PagesNeverGoBack
    PublishesWhole
SYMMETRY WorkersAlike
CHECK_DEADLOCK FALSE
