SPECIFICATION Spec
CONSTANTS
    NoSubtask = NoSubtask
    Subtask = {s1, s2}
    MaxAttempts = 2
    Capacity = 1
    MaxDispatches = 3
    Ceiling = 3
SYMMETRY Symmetry
INVARIANTS
    MeterInv
    GuardInv
PROPERTIES
    PromiseKept
