SPECIFICATION FairSpec
CONSTANTS
    c1 = c1
    c2 = c2
    Clients <- MCClients
    Worker = worker
    Main = main
    MaxWork = 5
INVARIANT TypeOK
INVARIANT NoLostWork
PROPERTY WorkServed
PROPERTY ShutdownCompletes
