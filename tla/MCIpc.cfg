SPECIFICATION Spec
CONSTANTS
    p1 = p1
    p2 = p2
    q1 = q1
    y1 = y1
    u1 = u1
    None = None
    FirstProc = p1
    Proc = {p1, p2}
    Pipe = {q1}
    Pty = {y1}
    Chan = {u1}
    FdTableSize = 3
    FirstFd = 1
    Calls <- AllCalls
    DupKind <- KernelKind
    Careful = TRUE
    s1 = s1
    a = a
    b = b
    n1 = n1
    k1 = k1
    k2 = k2
    Unset = Unset
    Client = {a, b}
    Service = {s1}
    Name = {n1}
    SrvConn = {k1, k2}
    MaxListeners = 1
    MaxPending = 1
    MaxMsgs = 1
    MaxSends = 2
    Interrupted <- AnyCall
    Hasty = FALSE
    f1 = f1
    f2 = f2
    NoOne = NoOne
    Callers = {a, b}
    Systems = {f1, f2}
    MaxTag = 3
CHECK_DEADLOCK FALSE
SYMMETRY Symmetry
INVARIANTS TypeOK BusIsSound CallsSound CountsExact
PROPERTIES DrainedInOrder EndIsFinal
