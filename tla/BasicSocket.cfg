SPECIFICATION Spec
CONSTANTS
    s1 = s1
    s2 = s2
    s3 = s3
    s4 = s4
    t1 = t1
    t2 = t2
    t3 = t3
    Sockets <- MCSockets
    Threads <- MCThreads
    Owner <- MCOwner
    Descriptors = {d1, d2}
    Infos = {i1, i2}
SYMMETRY Symmetry
CONSTRAINT WithinBounds
INVARIANTS
    TypeOK
    NamesOwnDescriptor
    NothingLeaks
PROPERTIES
    ClosedByTheLast
