SPECIFICATION FairSpec
CONSTANTS
    Object = {a, b}
    None = None
    Size = 4
INVARIANTS
    TypeOK
PROPERTIES
    ImplementsPool
    PackKeepsOrder
