SPECIFICATION FairSpec
CONSTANTS
    Sockets = {0, 1}
    Objects = {o1}
    Clients = {c1}
    Worker = worker_thread
    Errors = {}
    Granularities <- MCGranularities
    MaxQueue = 2
PROPERTIES
    RequestsServed
    NotifyServed
    NotIgnoredIsCalled
    ShutdownCompletes
