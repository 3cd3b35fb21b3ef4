SPECIFICATION GoalSpec
CONSTANTS
    s1 = s1
    s2 = s2
    s3 = s3
    Subtask = {s1, s2, s3}
    NoSubtask = NoSubtask
    NoSnapshot = NoSnapshot
    Deps <- JoinDeps
    PlannedTier <- TopTiers
    TopTier = 3
    MaxRetriesPerTier = 2
    MaxEscalations = 3
    UseGit = TRUE
    HasBudget = TRUE
    MaxRuns = 3
INVARIANTS
    GoalInv
    ResumeRedoesNothing
    DeliveredInFull
PROPERTIES
    SnapshotNeverShrinks
