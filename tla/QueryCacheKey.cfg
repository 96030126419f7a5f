SPECIFICATION Spec
CONSTANTS
    Requests = {r1, r2}
    Keys = {x, y}
    Cached = {x}
    Buffers = {b1, b2}
    MaxAge = 1
    StaleWhileRevalidate = 1
    MaxVersion = 1
    None = None
SYMMETRY MCSymmetry
INVARIANTS
    CachedUnderOwnKey
