CONSTANTS
    None = None
    Tab = {t1, t2}
    MaxDrawn = 2
    MaxSockets = 2
    Ttl = 3
    MaxFaults = 1
SPECIFICATION FairSpec
INVARIANTS NamesStored NeverLapses
PROPERTIES Remembered Settles Fades
