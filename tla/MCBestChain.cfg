CONSTANTS
    g = g  a1 = a1  a2 = a2  b1 = b1  b2 = b2  b3 = b3  c2 = c2  d2 = d2
    Block = {g, a1, a2, b1, b2, c2}
    Genesis = g
    Parent <- SomeParent
    Height <- SomeHeight
    ChainWork <- SomeHeight
    Address <- SomeAddress
    Verdict <- SomeVerdict
    Thread = {t1, t2}
    Nil = Nil
    Failures = {"write", "disk", "interrupt", "reload"}
CHECK_DEADLOCK FALSE
SPECIFICATION FairSpec
INVARIANTS TypeOK OnlyValid ListenerFollows IndexInv
PROPERTIES WorkNeverFalls ActivationEnds BlocksGetActive
