\* The same goroutines with ToJSON among the methods.
CONSTANTS
    g1 = g1
    g2 = g2
    n1 = n1
    rA = rA
    rEmpty = rEmpty
    NoReport = NoReport
    None = None
    Goroutines <- MCGoroutines
    Namespaces = {n1}
    Reports = {rA, rEmpty}
    EmptyReport = rEmpty
    MaxOps = 2
    Ops <- AllOps
SPECIFICATION Spec
PROPERTY CacheTerminates
\* The goroutines stop once their calls are made.
CHECK_DEADLOCK FALSE
