CONSTANTS
    c1 = c1
    c2 = c2
    c3 = c3
    a1 = a1
    Conns = {c1, c2, c3}
    Names = {w1, w2}
    Ips = {a1}
    IpOf <- OneAddress
    ProtoOf <- OneIsSv1
    Mortal = {c1}
    MaxConnections = 2
    MaxPerMinute = 1
    Minute = 1
    BanDuration = 1
    HANDSHAKE_TIMEOUT = 1
    IdleTimeout = 2
SPECIFICATION LiveSpec
INVARIANTS
    CountersMatch
    LimitHolds
    PresenceIsExact
PROPERTIES
    BanStands
    DeadPeerFreesSlot
