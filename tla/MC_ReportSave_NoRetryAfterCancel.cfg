\* Two saves of one report while another client writes it; the scan that
\* called Save is cancelled at some point.
CONSTANTS
    s1 = s1
    s2 = s2
    Ext = Ext
    NoObj = NoObj
    Savers <- MCSavers
    Steps = 5
    MaxExt = 4
    MaxDel = 0
    Flaky = FALSE
SPECIFICATION Spec
PROPERTY NoRetryAfterCancel
