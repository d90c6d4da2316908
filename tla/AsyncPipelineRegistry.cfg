SPECIFICATION Spec
CONSTANTS
    Sockets = {0, 1}
    Objects = {o1, o2}
    Clients = {c1}
    Worker = worker_thread
    Errors = {}
    Granularities = {}
    MaxQueue = 2
SYMMETRY Symmetry
INVARIANTS
    TypeOK
    HandlesMatchInfo
    EveryHandleOncePerPass
    SleepsIffAllIgnored
PROPERTIES
    ImplementsRegistry
