\* Two saves while another client deletes the report; API calls never fail.
CONSTANTS
    s1 = s1
    s2 = s2
    Ext = Ext
    NoObj = NoObj
    Savers <- MCSavers
    Steps = 5
    MaxExt = 4
    MaxDel = 1
    Flaky = FALSE
SPECIFICATION Spec
INVARIANT SavedUnlessExhausted
