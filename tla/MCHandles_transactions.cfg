SPECIFICATION Spec
CONSTANTS
    Nil = Nil
    Wrapper <- Wrappers4
    Handle <- Handles3
    Thread = {t1, t2}
    Classes <- TransactionClasses
    Closes <- SafeCloses
    MayFail <- SafeFailures
    AliasedCopies <- SpentOutputsOnly
    ReuseUnchecked = FALSE
CONSTRAINT InOrder
INVARIANTS OwnershipInv TypeOK MemorySafe NoOrphans
PROPERTIES CloseIsLocal
