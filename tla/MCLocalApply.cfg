SPECIFICATION Spec
CONSTANTS
    f1 = f1
    f2 = f2
    File = {f1, f2}
    New = New
    Requests <- AllKinds
    OnWindows = TRUE
INVARIANTS
    JournalInv
    InterruptionsRecoverable
    CommandsCarryOn
PROPERTIES
    UserEditsKept
