SPECIFICATION Spec
CONSTANTS
    MaxPeers = 2
    p1 = p1
    p2 = p2
    p3 = p3
    None = None
    Pubs <- MCPubs
    a1 = a1
    a2 = a2
    Addrs <- MCAddrs
    Keys = {k}
    PrevKeyGrace = 1
    CfgCount = 2
    CfgPub <- MCCfgPub
    CfgEndpoints = {0}
    RekeyAfter = 2
    ReconnectInterval = 2
    SessionExpiry = 3
    HandshakeTimeout = 1
    HandshakeCooldown = 2
    KeepaliveInterval = 1
    CheckInterval = 1
    StartTime = 10
    MaxLag = 1
    SendLag = 1
    MaxPass = 1
    Horizon = 1000000
VIEW ClockView
SYMMETRY AddrSymmetry
INVARIANTS
    TypeOK
    OneSessionPerPeer
    AllocNeverFails
    RekeyingHasPending
    OnePendingPerPeer
PROPERTIES
    CooldownRespected
