CONSTANTS
    v1 = v1
    v2 = v2
    v3 = v3
    v4 = v4
    i1 = i1
    i2 = i2
    c1a = c1a
    c1b = c1b
    c2 = c2
    c3 = c3
    c4 = c4
    r2 = r2
    Callers = {a, b}
    PublicationIds = {p, q}
    Versions = {v1, v2, v3, v4}
    Items = {i1, i2}
    ItemOf <- Owners
    Certs = {c1a, c1b, c2, c3, c4, r2}
    BoundTo <- Bindings
    PublishCerts = {c1a, c1b, c2, c3, c4}
    Addressed = {v1, v2, v3, v4}
    Rendered = {v1, v2, v3}
SPECIFICATION Spec
INVARIANTS Accounted OnlyProvedPublished
PROPERTIES StatusMovesForward
SYMMETRY Swaps
