SPECIFICATION LiveSpec
CONSTANTS
    MaxPeers = 1
    p1 = p1
    None = None
    Pubs <- MCPubs
    Addrs = {a1}
    Keys = {k}
    PrevKeyGrace = 1
    CfgCount = 1
    CfgPub <- MCCfgPub
    CfgEndpoints = {0}
    RekeyAfter = 2
    ReconnectInterval = 2
    SessionExpiry = 3
    HandshakeTimeout = 1
    HandshakeCooldown = 1
    KeepaliveInterval = 2
    CheckInterval = 1
    StartTime = 4
    MaxLag = 0
    SendLag = 1
    MaxPass = 2
    Horizon = 9
PROPERTIES
    RekeyingEnds
    KeepsTrying
CHECK_DEADLOCK FALSE
