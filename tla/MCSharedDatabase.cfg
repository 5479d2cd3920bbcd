CONSTANTS
    Opener = {p1, p2}
    None = None
    Session = {s1, s2, s3}
    Run = {r1, r2}
    NoSession = NoSession
    a = a
    b = b
    Item <- MCItem
    Delta <- MCDelta
SYMMETRY MCSymmetry
SPECIFICATION SharedSpec
INVARIANTS
    OpenStoresHaveTheSchema
    PositionsAreContiguous
    ConstraintsNeverFire
    OneCallerEndsARun
PROPERTIES
    TileWritesItsFilesOnly
    OpenersAreUndisturbed
    ImplementsStore
