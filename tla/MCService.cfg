SPECIFICATION FairSpec
CONSTANTS
    Heartbeats <- MCHeartbeats
    StopTimeout = 18
    RestartDelay <- MCRestartDelay
    MaxRequests = 3
    MaxFaults = 5
INVARIANTS
    ServiceTypeOK
    StopsByItself
    GatewayIsThere
PROPERTIES
    ServesAgain
