SPECIFICATION Spec
CONSTANTS
    c1 = c1
    c2 = c2
    Base = Base
    NoContent = NoContent
    Content = {Base, c1, c2}
    Generations = 3
    Tokens = 640
    OutputCap = 600
    Requests <- EditsAndMixed
    VerifyChecks = 1
    Preparation = TRUE
    CheckRuns = 5
INVARIANTS
    ReceiptInv
    ChangesAreNoticed
    BudgetInv
    CheckedOnce
