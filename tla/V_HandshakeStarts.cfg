CONSTANTS
    d1 = d1
    d2 = d2
    k1 = k1
    k2 = k2
    r1 = r1
    None = None
    Socket = {k1, r1}
    Device = {d1, d2}
    DeviceOf <- TwoAndOne
    Sender = d1
    MaxFaults = 0
SPECIFICATION FairSpec
CHECK_DEADLOCK FALSE
PROPERTY HandshakeStarts
