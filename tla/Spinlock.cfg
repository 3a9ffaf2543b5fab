SPECIFICATION Spec
CONSTANT Harts = {h0, h1, h2, h3}
INVARIANTS
    TypeOK
    MutualExclusion
PROPERTY
    ImplementsLock
