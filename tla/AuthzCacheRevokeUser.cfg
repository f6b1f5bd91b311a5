SPECIFICATION FairSpec
CONSTANTS
    c1 = c1
    c2 = c2
    Creds <- MCCreds
    UserOf <- MCUserOf
    DeviceOf <- MCDeviceOf
    Handlers = {h1, h2}
    MaxOffline = 1
    MaxTime = 2
    MaxOps = 4
    WireMax = 1
PROPERTY RevokeUserRevokesAll
CHECK_DEADLOCK FALSE
