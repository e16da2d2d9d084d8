CONSTANTS
    d1 = d1
    d2 = d2
    k1 = k1
    r1 = r1
    None = None
    Socket = {k1, r1}
    Device = {d1, d2}
    DeviceOf <- OneEach
    Sender = d1
    MaxFaults = 1
    MaxCandidates = 1
SPECIFICATION TFairSpec
CHECK_DEADLOCK FALSE
INVARIANT NoneLost
PROPERTIES ImplementsHandshake ReceiverProcesses
