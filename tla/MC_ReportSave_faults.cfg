\* Two saves while other clients write and delete the report and any API
\* call may fail.
CONSTANTS
    s1 = s1
    s2 = s2
    Ext = Ext
    NoObj = NoObj
    Savers <- MCSavers
    Steps = 5
    MaxExt = 4
    MaxDel = 1
    Flaky = TRUE
SPECIFICATION Spec
INVARIANTS TypeOK BoundedUpdates
PROPERTIES SaveIsAtomic SaveTerminates
\* Once every save has returned only the bounded other clients may act.
CHECK_DEADLOCK FALSE
