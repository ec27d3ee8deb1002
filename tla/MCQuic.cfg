SPECIFICATION Spec
CONSTANTS
    w1 = w1 w2 = w2 t1 = t1 t2 = t2 t3 = t3 q1 = q1 q2 = q2 c1 = c1 c2 = c2
    NoRow = NoRow NoKey = NoKey NoCid = NoCid NoPacket = NoPacket
    Workers = {w1, w2}
    TcpKeys = {}
    QuicKeys = {q1, q2}
    Cids = {c1, c2}
    Packets <- QuicMix
    MaxConnections = 2
    MaxHistoric = 1
    MaxQuicMappings = 1
    MaxTombstones = 2
    KeepHistoric = TRUE
    TickSeconds = 200
    MaxBumps = 2
    MaxLag = 0
    MaxClock = 2
    CaptureUntil = 2
SYMMETRY Symmetry
INVARIANTS
    IdsRouteToRows
PROPERTIES
    TerminalClockNeverRestarts
