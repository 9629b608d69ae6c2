CONSTANTS
    n1 = n1  n2 = n2  n3 = n3  cluster = cluster
    pods = pods  deploys = deploys  nodes = nodes
    r1 = r1  r2 = r2  r3 = r3  r4 = r4  r5 = r5
    la = la  lb = lb
    p1 = p1  p2 = p2  p3 = p3  p4 = p4
    NilSelector = NilSelector
    BadSelector = BadSelector
    OldReport = OldReport
    NoReport = NoReport
    Namespaces <- MCNamespaces
    AuditedNs <- MCAuditedNs
    ClusterScope <- cluster
    GVRs <- MCGVRs
    Resources <- MCResources
    NsOf <- MCNsOf
    GvrOf <- MCGvrOf
    LabelPairs <- MCLabelPairs
    Labels <- MCLabels
    Policies <- MCPolicies
    PolicyGvrs <- MCPolicyGvrs
    Applies <- MCApplies
    Selector <- MCSelectorFn
SPECIFICATION Spec
INVARIANTS TypeOK NoCallForNonMatching ReportMatchesVerdicts ScanCoverage
    ExitStatusReflectsErrors FreshOrLogged
PROPERTIES ScanTerminates ReportStoredOnce
\* The scanner is a command that exits, or panics, when its scan returns.
CHECK_DEADLOCK FALSE
