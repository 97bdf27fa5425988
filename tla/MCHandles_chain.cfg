SPECIFICATION Spec
CONSTANTS
    Nil = Nil
    Wrapper <- Wrappers7
    Handle <- Handles3
    Thread = {t1}
    Classes <- ChainClasses
    Closes <- SafeCloses
    MayFail <- SafeFailures
    AliasedCopies <- SpentOutputsOnly
    ReuseUnchecked = FALSE
CONSTRAINTS InOrder OnePath
INVARIANTS MemorySafe OwnershipInv
PROPERTIES CloseIsLocal
