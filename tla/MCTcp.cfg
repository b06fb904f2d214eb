SPECIFICATION NetworkSpec
CONSTANTS
    Modulus = 8
    BufSize = 2
    Mss = 2
    TxMax = 2
    ClientIss = 6
    ServerIss = 3
    Scenarios <- MCScenarios
    NetCap = 2
    NoConn = NoConn
    a = a
    b = b
    u = u
    v = v
    Resolvers = {a, b}
    Hosts = {u, v}
    Ports = {1, 2}
    Xids = {1, 2}
    BindCap = 1
    Servers = {1, 2}
    Ips = {1, 2, 3}
    Macs = {1, 2}
    ArpCap = 2
SYMMETRY Symmetry
INVARIANTS AcksAreTrue TimerArmed NetServicesSound
PROPERTY ImplementsByteStreams
CHECK_DEADLOCK FALSE
