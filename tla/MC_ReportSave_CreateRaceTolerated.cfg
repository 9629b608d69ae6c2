\* Two saves of one report; API calls never fail and nothing deletes it.
CONSTANTS
    s1 = s1
    s2 = s2
    Ext = Ext
    NoObj = NoObj
    Savers <- MCSavers
    Steps = 5
    MaxExt = 4
    MaxDel = 0
    Flaky = FALSE
SPECIFICATION Spec
INVARIANT CreateRaceTolerated
