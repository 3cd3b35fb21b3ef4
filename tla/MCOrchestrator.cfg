SPECIFICATION Spec
CONSTANTS
    s1 = s1
    s2 = s2
    s3 = s3
    s4 = s4
    Subtask = {s1, s2, s3, s4}
    NoSubtask = NoSubtask
    Deps <- JoinDeps
    PlannedTier <- FullLadder
    TopTier = 3
    MaxRetriesPerTier = 1
    MaxEscalations = 3
    UseGit = TRUE
    HasBudget = TRUE
INVARIANTS
    OneWorkerPerSubtask
    DependenciesApplied
    CheckpointChain
    ReviewingIsAccounted
    DispatchesBounded
PROPERTIES
    FailureIsFinal
    EveryStepCounts
    RunKeepsPromise
    RunReturns
