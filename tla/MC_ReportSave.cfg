\* Two saves, the API server's calls never failing, no deletions, and enough
\* writes by other clients (with the other save's write) for five conflicts.
CONSTANTS
    s1 = s1
    s2 = s2
    Ext = Ext
    NoObj = NoObj
    Savers <- MCSavers
    Steps = 5
    MaxExt = 4
    MaxDel = 0
    Flaky = FALSE
SPECIFICATION Spec
INVARIANT SavedUnlessExhausted
\* Once every save has returned only the bounded other clients may act.
CHECK_DEADLOCK FALSE
