SPECIFICATION Spec
CONSTANTS
    Handler = {h1, h2}
    Shell = {c}
    Id = {r1, r2}
    Profile = {f1, f2}
    Legacy = Legacy
    Folder = {x1, x2}
    Rounds = 1
    MaxAsks = 2
    MaxChanges = 1
    None = None
SYMMETRY Symmetry
INVARIANTS
    GoalsInv
    ReviewsAreFinished
    RunsAsReviewed
PROPERTIES
    EvidenceStays
