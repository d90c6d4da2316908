SPECIFICATION FairSpec
CONSTANTS
    Names = {"eth", "tun"}
    Macs = {m1, m2}
    Absent = absent
    Entries <- MCEntries
    Messages <- MCMessages
    Dumps <- MCDumps
    BufferSize = 3
INVARIANTS
    NothingHeld
    ListIsExact
    RouteIsDefault
PROPERTIES
    CallsEnd
