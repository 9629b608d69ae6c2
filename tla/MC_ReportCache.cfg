\* Two goroutines, two calls each, every method that locks, one namespace
\* and one report besides the empty one.
CONSTANTS
    g1 = g1
    g2 = g2
    n1 = n1
    rA = rA
    rEmpty = rEmpty
    NoReport = NoReport
    None = None
    Goroutines <- MCGoroutines
    Namespaces = {n1}
    Reports = {rA, rEmpty}
    EmptyReport = rEmpty
    MaxOps = 2
    Ops <- LockedOps
SPECIFICATION Spec
INVARIANT RWExclusion
PROPERTY CacheLinearizable
\* The goroutines stop once their calls are made.
CHECK_DEADLOCK FALSE
