CONSTANTS
    g = g  a1 = a1  a2 = a2  b1 = b1  b2 = b2  b3 = b3  c2 = c2  d2 = d2
    Block = {g, a1, a2, b1, b2, b3, c2, d2}
    Genesis = g
    Parent <- SomeParent
    Height <- SomeHeight
    ChainWork <- SomeHeight
    Address <- SomeAddress
    Verdict <- SomeVerdict
    Thread = {t1, t2}
    Reader = {r1}
    Nil = Nil
    Failures = {"write", "disk"}
SPECIFICATION IterationSpec
INVARIANTS IterationTypeOK OnlyValid CheckBlockIndex BestWhenIdle SnapshotUnlessReorganized EqualWorkNeverThrows
PROPERTIES IterationEnds
