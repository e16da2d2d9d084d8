CONSTANTS
    t1 = t1
    t2 = t2
    d1 = d1
    d2 = d2
    s1 = s1
    s2 = s2
    None = None
    Session = {s1, s2}
    Device = {d1, d2}
    Tab = {t1, t2}
    DeviceOf <- OneEach
    PagesOf <- Pages
    Call = {1, 2}
    MaxFaults = 1
SPECIFICATION FairSpec
CHECK_DEADLOCK FALSE
INVARIANTS HeldIsOurs NeverAhead
PROPERTIES NeverBackOnOffer SenderLearns
