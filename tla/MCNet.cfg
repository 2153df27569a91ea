SPECIFICATION MCSpec
CONSTANTS
    MAX_UDP_SOCKETS = 2
    UDP_BUFFER_SIZE = 4
    UdpEndpoints = {"x", "y"}
    UdpMaxBytes = 6
    MAX_TCP_CONNECTIONS = 2
    WORD = 4
    WINDOW = 2
    INITIAL_SEQ = 3
    PEER_SEQ = 2
    Peers = {"p", "q"}
    STREAM = 3
    RouteKinds <- MCRouteKinds
    Dests <- MCDests
    NoRoute = NoRoute
    MaxAdds = 5
    FRAG_UNIT = 2
    IP_HEADER = 3
    MAX_FRAGMENTS = 3
    BUFFER_SIZE = 4
    TABLE_AT = 1
    MAX_DATA = 10
    IP_IDS = 2
    Mtus = {5, 7}
    Lengths = {6, 9, 13}
    MaxSends = 2
    Ifaces = {a, b}
    NUM_DESC = 3
    DEV_BLOCKS = 1
    RING_BLOCKS = 3
    PKT_BLOCKS = 2
    POOL_BLOCKS = 5
    NoDevice = NoDevice
    NoIface = NoIface
    MaxFrames = 4
    MaxLost = 1
INVARIANTS UdpBufferSound TcpStreamIntact FindsBestRoute ReassembledWhole
    RxRingHoldsTheFrames NoDmaIntoFreedMemory NetResourcesAccounted
CHECK_DEADLOCK FALSE
