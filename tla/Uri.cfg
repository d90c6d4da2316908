SPECIFICATION Spec
CONSTANTS
    o1 = o1
    o2 = o2
    Objects = {o1, o2}
    Texts <- MCTexts
    Schemes <- MCSchemes
    Ports = {81}
    Permanent <- MCPermanent
SYMMETRY Symmetry
INVARIANTS
    OmitsExactlyPermanent
    RoundTrip
    ErrnoTells
