SPECIFICATION Spec
CONSTANTS
    Nil = Nil
    Wrapper <- Wrappers6
    Handle <- Handles3
    Thread = {t1}
    Classes <- CarelessClasses
    Closes <- EveryClose
    MayFail <- EveryFailure
    AliasedCopies <- SpentOutputsOnly
    ReuseUnchecked = TRUE
CONSTRAINTS InOrder OnePath OneWorld
CHECK_DEADLOCK FALSE
INVARIANTS OwnersAreUnique ArenaFollowsObject OwnersInv InOrderUntilFault
PROPERTIES CloseIsLocal
