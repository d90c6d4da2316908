SPECIFICATION Spec
CONSTANTS
    Sockets = {0, 1}
    Objects = {o1}
    Clients = {c1, c2}
    Worker = worker_thread
    Errors = {}
    Granularities = {}
    MaxQueue = 3
SYMMETRY Symmetry
INVARIANTS
    PendingAccounting
    NoLostWakeup
    NoLostRequest
