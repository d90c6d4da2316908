SPECIFICATION Spec
CONSTANTS
    Sockets = {0, 1}
    Objects = {o1}
    Clients = {c1}
    Worker = worker_thread
    Errors = {EAGAIN}
    Granularities = {}
    MaxQueue = 2
INVARIANTS
    ErrorIsOfThisPoll
